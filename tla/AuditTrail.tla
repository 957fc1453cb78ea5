----------------------------- MODULE AuditTrail -----------------------------
(***************************************************************************)
(* The audit trail is a chain of hashes in one INSERT-only table.  Whoever *)
(* writes a row does so inside a transaction of his own, of one row or of  *)
(* several, READ COMMITTED, which takes the chain's advisory lock at its   *)
(* first row and keeps it until it ends; anybody may verify meanwhile,     *)
(* page by page.                                                           *)
(*                                                                         *)
(* A hash is named by the id of its row, which the sequence never gives    *)
(* twice, even if the row is rolled back.                                  *)
(***************************************************************************)
EXTENDS Integers, FiniteSets, FiniteSetsExt

CONSTANTS
  Writers,  \* transactions under way at once
  MaxRows,  \* bound: ids that the sequence gives
  PageSize  \* VERIFY_PAGE_SIZE

VARIABLES
  log,    \* audit_log, as committed: rows [id, prev], prev = 0 at genesis
  next,   \* the sequence of ids
  lock,   \* the transaction that holds AUDIT_CHAIN_LOCK
  tx,     \* transactions: the rows written, the tail that was read
  walk    \* a verification: where it is, the hash it expects, what it found

vars == <<log, next, lock, tx, walk>>

Genesis == 0
NoTx == [pc |-> "idle", rows |-> {}, prev |-> Genesis]
NoWalk == [pc |-> "idle", cursor |-> 0, expected |-> Genesis]

TypeOK ==
  /\ next \in 1..(MaxRows + 1) /\ lock \in Writers \cup {"free"}
  /\ log \subseteq [id : 1..MaxRows, prev : 0..MaxRows]
  /\ \A w \in Writers : tx[w].pc \in {"idle", "tail", "insert", "more"}
  /\ walk.pc \in {"idle", "page", "broken"}

-----------------------------------------------------------------------------
Init ==
  /\ log = {} /\ next = 1 /\ lock = "free"
  /\ tx = [w \in Writers |-> NoTx] /\ walk = NoWalk

\* Mutant: the tail is read without the lock.
LockedLoosely(w) == UNCHANGED lock

\* pg_advisory_xact_lock: a transaction may take again what it holds.
Locked(w) == lock \in {"free", w} /\ lock' = w

Ids(rows) == {r.id : r \in rows}
ChainTail(rows) == Max(Ids(rows) \cup {Genesis})

\* recordTx: the lock, then the tail in a statement of its own, then the row.
TakeLock(w) ==
  /\ tx[w].pc \in {"idle", "more"} /\ next <= MaxRows
  /\ Locked(w)
  /\ tx' = [tx EXCEPT ![w].pc = "tail"]
  /\ UNCHANGED <<log, next, walk>>

ReadTail(w) ==
  /\ tx[w].pc = "tail"
  /\ tx' = [tx EXCEPT ![w].pc = "insert", ![w].prev = ChainTail(log \cup tx[w].rows)]
  /\ UNCHANGED <<log, next, lock, walk>>

Insert(w) ==
  /\ tx[w].pc = "insert" /\ next <= MaxRows
  /\ tx' = [tx EXCEPT ![w].pc = "more",
                      ![w].rows = @ \cup {[id |-> next, prev |-> tx[w].prev]}]
  /\ next' = next + 1
  /\ UNCHANGED <<log, lock, walk>>

\* The transaction of the caller ends, and the lock with it.
End(w) ==
  /\ tx' = [tx EXCEPT ![w] = NoTx]
  /\ lock' = IF lock = w THEN "free" ELSE lock
  /\ UNCHANGED <<next, walk>>

Commit(w) == tx[w].pc = "more" /\ log' = log \cup tx[w].rows /\ End(w)
RollBack(w) == tx[w].pc # "idle" /\ UNCHANGED log /\ End(w)

\* verifyChain: from genesis, or from a row whose own prevHash is the anchor.
BeginWalk ==
  /\ walk.pc = "idle"
  /\ \/ walk' = [NoWalk EXCEPT !.pc = "page"]
     \/ \E r \in log : walk' = [pc |-> "page", cursor |-> r.id - 1, expected |-> r.prev]
  /\ UNCHANGED <<log, next, lock, tx>>

\* The committed rows after the cursor, the first PageSize of them.
Page == LET after == {r \in log : r.id > walk.cursor}
        IN {r \in after : Cardinality({s \in after : s.id <= r.id}) <= PageSize}
Before(r) == {s \in Page : s.id < r.id}
Linked(r) == r.prev = IF Before(r) = {} THEN walk.expected ELSE ChainTail(Before(r))

ReadPage ==
  /\ walk.pc = "page"
  /\ walk' = IF Page = {} THEN NoWalk
             ELSE IF \A r \in Page : Linked(r)
                  THEN [walk EXCEPT !.cursor = ChainTail(Page), !.expected = ChainTail(Page)]
                  ELSE [walk EXCEPT !.pc = "broken"]
  /\ UNCHANGED <<log, next, lock, tx>>

Next ==
  \/ \E w \in Writers : TakeLock(w) \/ ReadTail(w) \/ Insert(w) \/ Commit(w) \/ RollBack(w)
  \/ BeginWalk \/ ReadPage

Spec == Init /\ [][Next]_vars
-----------------------------------------------------------------------------
\* A trail that nobody tampered with always verifies: writers of several rows,
\* roll-backs and ids that were never used do not break it, nor do rows that
\* are committed between two pages of a verification. (AUDIT_CHAIN_LOCK:
\* without it "the chain forks".)
ChainVerifies ==
  /\ walk.pc # "broken"
  /\ \A r \in log : r.prev = ChainTail({s \in log : s.id < r.id})
=============================================================================
