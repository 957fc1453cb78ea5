------------------------------ MODULE Transfers ------------------------------
(***************************************************************************)
(* Money that arrives is captured from the handset, by SMS without the     *)
(* sender and by notification with it, often twice, and settles the one    *)
(* claim or book order that it can be paying for.  Captures run at once    *)
(* with the desk that approves or rejects a claim and learns the sender,   *)
(* with whoever pays the order otherwise, and with whoever removes it or   *)
(* puts it back.  Each of these reads first, and by the time it writes, by *)
(* id, does not ask again.  They are as many as like: a request that could *)
(* have read leave to write at some time is one that did, and is slow.     *)
(*                                                                         *)
(* Every amount here is the same: that is when a transfer can be mistaken. *)
(***************************************************************************)
EXTENDS Integers, FiniteSets, FiniteSetsExt

CONSTANTS
  Captures, \* captures under way at once
  Handles,  \* senders' addresses
  Claims, Orders,
  OwnerOf,  \* [Claims \cup Orders -> students], "guest" for an order of none
  MaxRows,  \* bound: transfers stored
  MaxRuns   \* bound: captures that arrive

Things == Claims \cup Orders

VARIABLES
  rows,     \* incoming_transfers, by id, the newest last
  known,    \* student_payment_addresses: the owner of each handle
  thing,    \* status of each claim and order
  deleted,  \* the orders with a deletedAt
  capture,  \* what each capture is doing
  begun,    \* what some request has read leave to write, and may write from then on
  paidBy,   \* the transfers that settled each thing
  runs

vars == <<rows, known, thing, deleted, capture, begun, paidBy, runs>>

Row == [handle : Handles \cup {"none"}, claim : Claims \cup {"none"},
        order : Orders \cup {"none"}, dismissed : BOOLEAN]
Bare(handle) == [handle |-> handle, claim |-> "none", order |-> "none", dismissed |-> FALSE]
Request(op, x, t) == [op |-> op, thing |-> x, row |-> t]
NoCapture == [pc |-> "idle", handle |-> "none", row |-> 0, thing |-> "none", learns |-> FALSE]

\* What a request that reads a claim or an order now is let to write to it
\* (approve, reject; submitPayment, adminMarkPaid; softDelete; restore).
Leave(status, gone) ==
  {Request("decide", c, 0) : c \in {c \in Claims : status[c] = "pending"}}
    \cup {Request("pay", o, 0) : o \in {o \in Orders \ gone : status[o] = "address_only"}}
    \cup {Request("delete", o, 0) : o \in Orders \ gone} \cup {Request("restore", o, 0) : o \in gone}

TypeOK ==
  /\ DOMAIN rows = 1..Cardinality(DOMAIN rows) /\ \A t \in DOMAIN rows : rows[t] \in Row
  /\ \A c \in Claims : thing[c] \in {"pending", "approved", "rejected"}
  /\ \A o \in Orders : thing[o] \in {"address_only", "paid"}
  /\ deleted \subseteq Orders
  /\ \A x \in Things : paidBy[x] \subseteq DOMAIN rows

-----------------------------------------------------------------------------
Init ==
  /\ \E sms \in 0..1 : rows = [t \in 1..sms |-> Bare("none")]
  /\ known = [h \in Handles |-> "nobody"]
  /\ thing = [x \in Things |-> IF x \in Claims THEN "pending" ELSE "address_only"]
  /\ deleted = {}
  /\ capture = [k \in Captures |-> NoCapture]
  /\ begun = Leave(thing, deleted)
  /\ paidBy = [x \in Things |-> {}] /\ runs = 0

Outstanding(x) == thing[x] \in {"pending", "address_only"} /\ x \notin deleted
Newest == Max(DOMAIN rows)

\* ingest: the newest row of this amount is taken for the same money.
Idle == {k \in Captures : capture[k].pc = "idle"}
Look(handle) ==
  /\ Idle # {} /\ runs < MaxRuns /\ runs' = runs + 1
  /\ LET found == [NoCapture EXCEPT !.handle = handle, !.pc =
                     CASE DOMAIN rows = {} -> "store"
                       [] DOMAIN rows # {} /\ handle # "none" /\ rows[Newest].handle = "none"
                            /\ rows[Newest].claim = "none" -> "upgrade"
                       [] OTHER -> "idle",
                   !.row = IF DOMAIN rows = {} THEN 0 ELSE Newest]
     IN capture' = [capture EXCEPT ![CHOOSE k \in Idle : TRUE] = IF found.pc = "idle" THEN NoCapture ELSE found]
  /\ UNCHANGED <<rows, known, thing, deleted, begun, paidBy>>

\* A row of its own, or the handle of an SMS whose notification this is; a
\* sender is what lets it settle.
Keep(k) ==
  LET id == IF capture[k].pc = "store" THEN Cardinality(DOMAIN rows) + 1 ELSE capture[k].row
  IN /\ capture[k].pc \in {"store", "upgrade"} /\ id <= MaxRows
     /\ rows' = [t \in DOMAIN rows \cup {id} |->
                   CASE t # id -> rows[t]
                     [] t = id /\ capture[k].pc = "store" -> Bare(capture[k].handle)
                     [] OTHER -> [rows[t] EXCEPT !.handle = capture[k].handle]]
     /\ capture' = [capture EXCEPT ![k] =
          IF @.handle = "none" THEN NoCapture ELSE [@ EXCEPT !.pc = "match", !.row = id]]
     /\ UNCHANGED <<known, thing, deleted, begun, paidBy, runs>>

\* settle: a known sender pays for what is his; an unknown one for what was filed
\* after the money, which is any part of what is outstanding. One thing, or none.
Match(k) ==
  LET owner == known[capture[k].handle]
      open == {x \in Things : Outstanding(x)}
  IN /\ capture[k].pc = "match"
     /\ \E mine \in IF owner = "nobody" THEN SUBSET open ELSE {{x \in open : OwnerOf[x] = owner}} :
          capture' = [capture EXCEPT ![k] =
            IF Cardinality(mine) # 1 THEN NoCapture
            ELSE [@ EXCEPT !.pc = "pay", !.thing = CHOOSE x \in mine : TRUE,
                           !.learns = owner = "nobody"]]
     /\ UNCHANGED <<rows, known, thing, deleted, begun, paidBy, runs>>

\* Mutant: the table has neither.
AllowedAnything(new) == TRUE

\* incoming_transfers_one_target, and UNIQUE on each target.
Allowed(new) ==
  /\ \A t \in DOMAIN new : new[t].claim = "none" \/ new[t].order = "none"
  /\ \A t, u \in DOMAIN new : t # u =>
       /\ new[t].claim = "none" \/ new[t].claim # new[u].claim
       /\ new[t].order = "none" \/ new[t].order # new[u].order

\* The transfer is claimed where it names nothing; approveFromTransfer asks that
\* of the claim only.
Names(t, x) ==
  IF x \in Claims THEN [rows EXCEPT ![t].claim = x] ELSE [rows EXCEPT ![t].order = x]
Unclaimed(t, x) == rows[t].claim = "none" /\ (x \in Orders => rows[t].order = "none")

\* The claims and orders after a write, and what may be read of them from now on.
Becomes(status, gone) ==
  thing' = status /\ deleted' = gone /\ begun' = begun \cup Leave(status, gone)

\* approveFromTransfer and markPaidFromTransfer: one transaction, which rolls
\* back if the transfer or the thing is settled already.
Settle(k) ==
  LET t == capture[k].row
      x == capture[k].thing
  IN /\ capture[k].pc = "pay"
     /\ IF Unclaimed(t, x) /\ Outstanding(x) /\ Allowed(Names(t, x))
        THEN /\ rows' = Names(t, x)
             /\ Becomes([thing EXCEPT ![x] = IF x \in Claims THEN "approved" ELSE "paid"], deleted)
             /\ paidBy' = [paidBy EXCEPT ![x] = @ \cup {t}]
             /\ capture' = [capture EXCEPT ![k] =
                  IF @.learns /\ OwnerOf[x] # "guest" THEN [@ EXCEPT !.pc = "learn"] ELSE NoCapture]
        ELSE capture' = [capture EXCEPT ![k] = NoCapture] /\ UNCHANGED <<rows, thing, deleted, begun, paidBy>>
     /\ UNCHANGED <<known, runs>>

\* UNIQUE handle: whoever learns it first.
Learned(h, x) == known' = IF known[h] = "nobody" THEN [known EXCEPT ![h] = OwnerOf[x]] ELSE known

Learn(k) ==
  /\ capture[k].pc = "learn"
  /\ Learned(capture[k].handle, capture[k].thing)
  /\ capture' = [capture EXCEPT ![k] = NoCapture]
  /\ UNCHANGED <<rows, thing, deleted, begun, paidBy, runs>>

\* The desk decides a claim that it read as pending, which a settlement or a
\* colleague may have decided since; one it approved, learnFromApproval looks at.
Approve(c) ==
  /\ Request("decide", c, 0) \in begun
  /\ thing' = [thing EXCEPT ![c] = "approved"] /\ begun' = begun \cup {Request("look", c, 0)}
  /\ UNCHANGED <<rows, known, deleted, capture, paidBy, runs>>
Reject(c) ==
  /\ Request("decide", c, 0) \in begun
  /\ Becomes([thing EXCEPT ![c] = "rejected"], deleted)
  /\ UNCHANGED <<rows, known, capture, paidBy, runs>>

\* The student pays with a screenshot (submitPayment), or an admin notes that
\* he paid (adminMarkPaid).
Submit(o) ==
  /\ Request("pay", o, 0) \in begun
  /\ Becomes([thing EXCEPT ![o] = "paid"], deleted)
  /\ UNCHANGED <<rows, known, capture, paidBy, runs>>

\* An order of any status is deleted, and comes back as it was.
Delete(o) ==
  /\ Request("delete", o, 0) \in begun
  /\ Becomes(thing, deleted \cup {o})
  /\ UNCHANGED <<rows, known, capture, paidBy, runs>>
Restore(o) ==
  /\ Request("restore", o, 0) \in begun
  /\ Becomes(thing, deleted \ {o})
  /\ UNCHANGED <<rows, known, capture, paidBy, runs>>

\* Exactly one transfer that names nothing, whose sender nobody knows.
Candidate(c) ==
  LET free == {t \in DOMAIN rows : rows[t].handle # "none" /\ rows[t].claim = "none"
                                     /\ rows[t].order = "none" /\ ~rows[t].dismissed}
  IN /\ Request("look", c, 0) \in begun
     /\ Cardinality(free) = 1 /\ \A t \in free : known[rows[t].handle] = "nobody"
     /\ begun' = begun \cup {Request("learn", c, Max(free))}
     /\ UNCHANGED <<rows, known, thing, deleted, capture, paidBy, runs>>
DeskLearn(c, t) ==
  /\ Request("learn", c, t) \in begun
  /\ Learned(rows[t].handle, c)
  /\ begun' = begun \cup {Request("link", c, t)}
  /\ UNCHANGED <<rows, thing, deleted, capture, paidBy, runs>>

\* Only that the transfer names no claim is asked.
Link(c, t) ==
  /\ Request("link", c, t) \in begun
  /\ rows' = IF rows[t].claim = "none" /\ Allowed(Names(t, c)) THEN Names(t, c) ELSE rows
  /\ UNCHANGED <<known, thing, deleted, capture, begun, paidBy, runs>>

Dismiss(t) ==
  /\ ~rows[t].dismissed /\ rows' = [rows EXCEPT ![t].dismissed = TRUE]
  /\ UNCHANGED <<known, thing, deleted, capture, begun, paidBy, runs>>

\* A capture dies. (So may any other request: it never writes.)
Die(k) ==
  /\ capture[k].pc # "idle" /\ capture' = [capture EXCEPT ![k] = NoCapture]
  /\ UNCHANGED <<rows, known, thing, deleted, begun, paidBy, runs>>

Next ==
  \/ \E h \in Handles \cup {"none"} : Look(h)
  \/ \E k \in Captures : Keep(k) \/ Match(k) \/ Settle(k) \/ Learn(k) \/ Die(k)
  \/ \E c \in Claims : Approve(c) \/ Reject(c)
  \/ \E o \in Orders : Submit(o) \/ Delete(o) \/ Restore(o)
  \/ \E c \in Claims : Candidate(c) \/ \E t \in DOMAIN rows : DeskLearn(c, t) \/ Link(c, t)
  \/ \E t \in DOMAIN rows : Dismiss(t)

Spec == Init /\ [][Next]_vars
-----------------------------------------------------------------------------
\* A transfer pays for one thing, and a claim or an order is paid by one
\* transfer, even if two captures take one row, or the desk links it while it
\* settles: what a transfer settled, it names alone, and what it names is never
\* asked for again, though it is deleted and restored, or a rejection that read
\* it before has the last word. (migration: "one transfer pays for one thing".)
Naming(x) == {t \in DOMAIN rows : rows[t].claim = x \/ rows[t].order = x}
TransferPaysOnce ==
  /\ \A t \in DOMAIN rows : Cardinality({x \in Things : t \in Naming(x)}) <= 1
  /\ \A x \in Things :
       /\ Cardinality(Naming(x)) <= 1 /\ paidBy[x] \subseteq Naming(x)
       /\ Naming(x) # {} => thing[x] \notin {"pending", "address_only"}
=============================================================================
