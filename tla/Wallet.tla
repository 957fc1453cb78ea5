------------------------------- MODULE Wallet -------------------------------
(***************************************************************************)
(* The requests that move a student's wallet, run against PostgreSQL one   *)
(* statement at a time: filing, approving and rejecting a top-up, an       *)
(* admin's manual credit and debit, a purchase paid from the wallet, and   *)
(* the refund of such a purchase.  Any number of them are in flight; each  *)
(* reads before its transaction, takes row locks inside it, and commits,   *)
(* rolls back, is chosen as a deadlock victim, or dies with the API        *)
(* process.                                                                *)
(*                                                                         *)
(* A transaction's writes are its own until it commits (READ COMMITTED),   *)
(* so the shared variables change only in Commit; what a transaction has   *)
(* written but not committed is in after[q], and the rows it wrote are     *)
(* locked.  The unlock-code door to the wallet is module UnlockCodes.      *)
(***************************************************************************)
EXTENDS Integers, Sequences, FiniteSets, FiniteSetsExt

CONSTANTS
  Requests,    \* concurrent HTTP requests
  Students,
  Topups,      \* ids of wallet_topups rows
  Keys,        \* idempotency keys, each made by the client for one press
  Amounts,     \* amounts a request may carry, in some unit
  MaxPending,  \* MAX_PENDING_TOPUPS
  MaxRows,     \* model bound on the ledger rows of all students together
  Opening,     \* what each wallet held before
  Nobody       \* no holder, no student, no source

Sources == Topups \cup Keys

ASSUME OpeningType == Opening \in [Students -> Nat]
ASSUME AmountsArePositive == Amounts \subseteq Nat \ {0}
ASSUME ColumnsApart == Topups \cap Keys = {}
ASSUME NobodyIsNew == Nobody \notin Requests \cup Students \cup Sources
ASSUME BoundsType == MaxPending \in Nat /\ MaxRows \in Nat

VARIABLES
  balance,    \* wallets.balance_cents, the cached balance
  statement,  \* wallet_transactions of each student
  topup,      \* wallet_topups.status
  owner,      \* wallet_topups.user_id
  lock,       \* which request holds the lock of a row
  pc,         \* where a request is
  job,        \* what it was asked and what it has captured so far
  after,      \* RETURNING balance_cents, uncommitted
  answer      \* what it told its caller

vars == <<balance, statement, topup, owner, lock, pc, job, after, answer>>

C == INSTANCE WalletContract WITH NoSource <- Nobody

CreditOps == {"approve", "credit", "refund"}
DebitOps  == {"debit", "purchase"}
Ops       == CreditOps \cup DebitOps \cup {"submit", "reject"}

KindOf == [approve |-> "transfer_topup", credit |-> "admin_credit",
           refund |-> "refund", debit |-> "admin_debit",
           purchase |-> "course_purchase"]

Job == [op : Ops \cup {"none"}, user : Students \cup {Nobody}, cents : Nat,
        source : Sources \cup {Nobody}, of : Keys \cup {Nobody}]
NoJob == [op |-> "none", user |-> Nobody, cents |-> 0,
          source |-> Nobody, of |-> Nobody]

\* Rows, and entries of unique indexes, that a transaction can lock.
WalletRow(u) == <<"wallet", u>>
GrantRow(u)  == <<"grant", u>>     \* the student's live purchase grant
TopupRow(t)  == <<"topup", t>>
Entry(s)     == <<"entry", s>>     \* s in a UNIQUE index of the ledger
Rows == {WalletRow(u) : u \in Students} \cup {GrantRow(u) : u \in Students}
          \cup {TopupRow(t) : t \in Topups} \cup {Entry(s) : s \in Sources}

Free(r)    == lock[r] = Nobody
Take(q, r) == lock' = [lock EXCEPT ![r] = q]
Release(q) == lock' = [r \in Rows |-> IF lock[r] = q THEN Nobody ELSE lock[r]]

Pending(u) == {t \in Topups : topup[t] = "pending" /\ owner[t] = u}

Steps == {"insert", "guard", "grant", "move", "row", "deliver", "commit"}

Init ==
  /\ balance = Opening
  /\ C!Init
  /\ topup = [t \in Topups |-> "none"]
  /\ owner = [t \in Topups |-> Nobody]
  /\ lock = [r \in Rows |-> Nobody]
  /\ pc = [q \in Requests |-> "idle"]
  /\ job = [q \in Requests |-> NoJob]
  /\ after = [q \in Requests |-> 0]
  /\ answer = [q \in Requests |-> "none"]

-----------------------------------------------------------------------------
(***************************************************************************)
(* Control.                                                                *)
(***************************************************************************)

Tables == <<balance, statement, topup, owner>>

\* Request q starts: it has run its reads and enters step s with job j.
Begin(q, j, s) ==
  /\ pc[q] = "idle"
  /\ pc' = [pc EXCEPT ![q] = s]
  /\ job' = [job EXCEPT ![q] = j]
  /\ UNCHANGED <<Tables, lock, after, answer>>

\* Request q is answered before it opened a transaction.
Refuse(q, j, a) ==
  /\ pc[q] = "idle"
  /\ pc' = [pc EXCEPT ![q] = "answered"]
  /\ job' = [job EXCEPT ![q] = j]
  /\ answer' = [answer EXCEPT ![q] = a]
  /\ UNCHANGED <<Tables, lock, after>>

Goto(q, s) == pc' = [pc EXCEPT ![q] = s] /\ UNCHANGED <<job, answer>>

\* The transaction of q rolls back; what its caller does next is step s.
RollBack(q, s) ==
  /\ Release(q)
  /\ after' = [after EXCEPT ![q] = 0]
  /\ pc' = [pc EXCEPT ![q] = s]
  /\ UNCHANGED <<Tables, job>>

Fail(q, a) == RollBack(q, "answered") /\ answer' = [answer EXCEPT ![q] = a]

\* credit, debit and purchaseFromWallet catch every error of their
\* transaction and look their key up; the others hand the error on.
Caught(q, a) ==
  IF job[q].op \in {"credit", "debit", "purchase"}
  THEN RollBack(q, "replay") /\ UNCHANGED answer
  ELSE Fail(q, a)

-----------------------------------------------------------------------------
(***************************************************************************)
(* What each request reads before its transaction.                         *)
(***************************************************************************)

\* submitTopup: how many requests of this student wait, read on its own.
StartSubmit(q, u) ==
  LET j == [NoJob EXCEPT !.op = "submit", !.user = u]
  IN  IF Cardinality(Pending(u)) < MaxPending
      THEN Begin(q, j, "insert")
      ELSE Refuse(q, j, "too_many_pending")

\* approveTopup and rejectTopup: the request as it stands now. An approval
\* may correct the amount, so any amount can be credited.
StartReview(q, t, op, c) ==
  LET j == [op |-> op, user |-> owner[t], cents |-> c, source |-> t, of |-> Nobody]
  IN  /\ topup[t] # "none"
      /\ op = "approve" \/ (op = "reject" /\ c = 0)
      /\ IF topup[t] = "pending" THEN Begin(q, j, "guard") ELSE Refuse(q, j, "reviewed")

\* credit and debit: straight into the transaction.
StartAdminMove(q, u, op, c, k) ==
  /\ op \in {"credit", "debit"}
  /\ Begin(q, [op |-> op, user |-> u, cents |-> c, source |-> k, of |-> Nobody], "move")

\* What a key answers once it names a committed row: the same press again,
\* or a key that belongs to somebody else's movement. Only a purchase asks
\* whether the row is a purchase.
ReplayAnswer(j) ==
  IF \E i \in 1 .. Len(statement[j.user]) :
       /\ statement[j.user][i].source = j.source
       /\ j.op = "purchase" => statement[j.user][i].kind = "course_purchase"
  THEN "replayed" ELSE "conflict"

\* purchaseFromWallet: an old key is answered with the purchase it paid for.
StartPurchase(q, u, c, k) ==
  LET j == [op |-> "purchase", user |-> u, cents |-> c, source |-> k, of |-> Nobody]
  IN  IF C!Used(k) THEN Refuse(q, j, ReplayAnswer(j)) ELSE Begin(q, j, "move")

\* What the purchase paid under key k cost, and what has been given back.
PriceOf(u, k) == - (CHOOSE r \in {statement[u][i] : i \in 1 .. Len(statement[u])} :
                      r.source = k).cents
RefundsOf(u, k) == {i \in 1 .. Len(statement[u]) : statement[u][i].of = k}
Refunded(u, k)  == MapThenSumSet(LAMBDA i : statement[u][i].cents, RefundsOf(u, k))

\* FinanceService.cancel with a refund, of a purchase that was paid from the
\* wallet: resolveRefund caps it before the transaction opens.
StartRefund(q, u, c, k) ==
  LET j == [op |-> "refund", user |-> u, cents |-> c, source |-> Nobody, of |-> k]
  IN  /\ \E i \in 1 .. Len(statement[u]) :
           statement[u][i].source = k /\ statement[u][i].kind = "course_purchase"
      /\ IF c <= PriceOf(u, k) - Refunded(u, k)
         THEN Begin(q, j, "grant")
         ELSE Refuse(q, j, "over_cap")

-----------------------------------------------------------------------------
(***************************************************************************)
(* The statements of a transaction.  A lock that is taken waits: while     *)
(* another request holds the row the action is not enabled.                *)
(***************************************************************************)

\* The insert of submitTopup, a transaction of one statement.
InsertTopup(q) ==
  /\ pc[q] = "insert"
  /\ \E t \in Topups :
       /\ topup[t] = "none"
       /\ topup' = [topup EXCEPT ![t] = "pending"]
       /\ owner' = [owner EXCEPT ![t] = job[q].user]
  /\ pc' = [pc EXCEPT ![q] = "answered"]
  /\ answer' = [answer EXCEPT ![q] = "done"]
  /\ UNCHANGED <<balance, statement, lock, job, after>>

\* Mutant: the update names the request and forgets its status.
GuardByIdOnly(q) ==
  /\ pc[q] = "guard"
  /\ Free(TopupRow(job[q].source))
  /\ Take(q, TopupRow(job[q].source))
  /\ Goto(q, IF job[q].op = "approve" THEN "move" ELSE "commit")
  /\ UNCHANGED <<Tables, after>>

\* updateMany where status = pending: zero rows when somebody was faster.
Guard(q) ==
  /\ pc[q] = "guard"
  /\ Free(TopupRow(job[q].source))
  /\ IF topup[job[q].source] = "pending"
     THEN /\ Take(q, TopupRow(job[q].source))
          /\ Goto(q, IF job[q].op = "approve" THEN "move" ELSE "commit")
          /\ UNCHANGED <<Tables, after>>
     ELSE Fail(q, "reviewed")

\* FinanceService.cancel updates the grant first.
LockGrant(q) ==
  /\ pc[q] = "grant"
  /\ Free(GrantRow(job[q].user))
  /\ Take(q, GrantRow(job[q].user))
  /\ Goto(q, "move")
  /\ UNCHANGED <<Tables, after>>

Signed(q) == IF job[q].op \in CreditOps THEN job[q].cents ELSE - job[q].cents

\* Does the balance cover what q does? (Mutant: nobody asks.)
CoversAnything(q) == TRUE
Covers(q) == balance[job[q].user] + Signed(q) >= 0

\* Mutant: the balance is read without the row lock and written back later.
MoveUnlocked(q) ==
  /\ pc[q] = "move"
  /\ Covers(q)
  /\ after' = [after EXCEPT ![q] = balance[job[q].user] + Signed(q)]
  /\ Goto(q, "row")
  /\ UNCHANGED <<Tables, lock>>

\* creditWallet's upsert and debitWallet's conditional update.
Move(q) ==
  LET u == job[q].user
  IN  /\ pc[q] = "move"
      /\ Free(WalletRow(u))
      /\ IF Covers(q)
         THEN /\ Take(q, WalletRow(u))
              /\ after' = [after EXCEPT ![q] = balance[u] + Signed(q)]
              /\ Goto(q, "row")
              /\ UNCHANGED Tables
         ELSE Caught(q, "insufficient")

\* writeRow: the insert meets the UNIQUE index of the row's source, waits
\* for an uncommitted duplicate and fails on a committed one.
InsertRow(q) ==
  LET next == IF job[q].op = "purchase" THEN "deliver" ELSE "commit"
  IN  /\ pc[q] = "row"
      /\ IF job[q].source = Nobody
         THEN Goto(q, next) /\ UNCHANGED <<Tables, lock, after>>
         ELSE /\ Free(Entry(job[q].source))
              /\ IF C!Used(job[q].source)
                 THEN Caught(q, "reviewed")
                 ELSE /\ Take(q, Entry(job[q].source))
                      /\ Goto(q, next)
                      /\ UNCHANGED <<Tables, after>>

\* A purchase writes its grant after the debit: it updates the live one,
\* whose row it locks, or creates one. Which of the two is decided by the
\* grants, which module Claims models.
Deliver(q) ==
  /\ pc[q] = "deliver"
  /\ \/ UNCHANGED lock
     \/ Free(GrantRow(job[q].user)) /\ Take(q, GrantRow(job[q].user))
  /\ Goto(q, "commit")
  /\ UNCHANGED <<Tables, after>>

\* Mutants: a debit written with the amount as it was asked for, and an
\* approval that does not name its request.
NewRowUnsigned(q) ==
  [kind |-> KindOf[job[q].op], cents |-> job[q].cents, after |-> after[q],
   source |-> job[q].source, of |-> job[q].of]
NewRowUnnamed(q) ==
  [kind |-> KindOf[job[q].op], cents |-> Signed(q), after |-> after[q],
   source |-> IF job[q].op = "approve" THEN Nobody ELSE job[q].source, of |-> job[q].of]

NewRow(q) == [kind |-> KindOf[job[q].op], cents |-> Signed(q), after |-> after[q],
              source |-> job[q].source, of |-> job[q].of]

Commit(q) ==
  /\ pc[q] = "commit"
  /\ IF job[q].op = "reject"
     THEN UNCHANGED <<balance, statement>>
     ELSE /\ balance' = [balance EXCEPT ![job[q].user] = after[q]]
          /\ statement' = [statement EXCEPT ![job[q].user] = Append(@, NewRow(q))]
  /\ topup' = CASE job[q].op = "approve" -> [topup EXCEPT ![job[q].source] = "approved"]
                [] job[q].op = "reject" -> [topup EXCEPT ![job[q].source] = "rejected"]
                [] OTHER -> topup
  /\ Release(q)
  /\ pc' = [pc EXCEPT ![q] = "answered"]
  /\ after' = [after EXCEPT ![q] = 0]
  /\ answer' = [answer EXCEPT ![q] = "done"]
  /\ UNCHANGED <<owner, job>>

\* Mutants: every failure is taken for a replay; a failure is tried again.
ReplayBlindly(q) ==
  /\ pc[q] = "replay"
  /\ pc' = [pc EXCEPT ![q] = "answered"]
  /\ answer' = [answer EXCEPT ![q] = "replayed"]
  /\ UNCHANGED <<Tables, lock, job, after>>
ReplayByRetrying(q) ==
  /\ pc[q] = "replay"
  /\ pc' = [pc EXCEPT ![q] = IF C!Used(job[q].source) THEN "answered" ELSE "move"]
  /\ answer' = [answer EXCEPT ![q] =
                  IF C!Used(job[q].source) THEN ReplayAnswer(job[q]) ELSE "none"]
  /\ UNCHANGED <<Tables, lock, job, after>>

\* isReplay and walletPurchaseReplay, after the transaction rolled back.
Replay(q) ==
  /\ pc[q] = "replay"
  /\ pc' = [pc EXCEPT ![q] = "answered"]
  /\ answer' = [answer EXCEPT ![q] =
                  IF C!Used(job[q].source) THEN ReplayAnswer(job[q]) ELSE "failed"]
  /\ UNCHANGED <<Tables, lock, job, after>>

-----------------------------------------------------------------------------
(***************************************************************************)
(* What the database and the process do to a request.                      *)
(***************************************************************************)

\* The row request q is about to lock.
Wants(q) ==
  CASE pc[q] = "guard" -> {TopupRow(job[q].source)}
    [] pc[q] \in {"grant", "deliver"} -> {GrantRow(job[q].user)}
    [] pc[q] = "move" -> {WalletRow(job[q].user)}
    [] pc[q] = "row" /\ job[q].source # Nobody -> {Entry(job[q].source)}
    [] OTHER -> {}
WaitsFor(q, p) == p # q /\ \E r \in Wants(q) : lock[r] = p

\* PostgreSQL ends one transaction of a cycle of waits.
DeadlockVictim(q) ==
  /\ \E p \in Requests : WaitsFor(q, p) /\ WaitsFor(p, q)
  /\ Caught(q, "error")

\* The process or the connection dies: an open transaction rolls back and
\* nobody is answered.
Crash(q) ==
  /\ pc[q] \in Steps \cup {"replay"}
  /\ Release(q)
  /\ pc' = [pc EXCEPT ![q] = "idle"]
  /\ job' = [job EXCEPT ![q] = NoJob]
  /\ after' = [after EXCEPT ![q] = 0]
  /\ UNCHANGED <<Tables, answer>>

\* The caller has its answer; the slot serves another request.
Finish(q) ==
  /\ pc[q] = "answered"
  /\ pc' = [pc EXCEPT ![q] = "idle"]
  /\ job' = [job EXCEPT ![q] = NoJob]
  /\ answer' = [answer EXCEPT ![q] = "none"]
  /\ UNCHANGED <<Tables, lock, after>>

\* Bounds of the model: rows in all the statements together, those a request
\* in flight may still write included, and top-up ids to hand out.
Room == MapThenSumSet(LAMBDA u : Len(statement[u]), Students)
          + Cardinality({q \in Requests : job[q].user # Nobody}) < MaxRows
SomeTopupLeft == Cardinality({t \in Topups : topup[t] = "none"})
                   > Cardinality({p \in Requests : pc[p] = "insert"})

Start(q) ==
  \/ \E u \in Students : SomeTopupLeft /\ StartSubmit(q, u)
  \/ \E t \in Topups : StartReview(q, t, "reject", 0)
  \/ \E t \in Topups, c \in Amounts :
       Room /\ StartReview(q, t, "approve", c)
  \/ \E u \in Students, c \in Amounts, k \in Keys :
       /\ Room
       /\ \/ \E op \in {"credit", "debit"} : StartAdminMove(q, u, op, c, k)
          \/ StartPurchase(q, u, c, k)
          \/ StartRefund(q, u, c, k)

Run(q) ==
  \/ InsertTopup(q) \/ Guard(q) \/ LockGrant(q) \/ Move(q) \/ InsertRow(q)
  \/ Deliver(q) \/ Commit(q) \/ Replay(q) \/ DeadlockVictim(q)

Next == \E q \in Requests : Start(q) \/ Run(q) \/ Crash(q) \/ Finish(q)

Spec == Init /\ [][Next]_vars

-----------------------------------------------------------------------------
(***************************************************************************)
(* Properties.                                                             *)
(***************************************************************************)

\* Every column, lock and captured value stays in its range; in particular no
\* wallet ever holds a negative balance, and none is computed inside a
\* transaction. (debitWallet's balance >= amount.)
TypeOK ==
  /\ balance \in [Students -> Nat]
  /\ statement \in [Students -> Seq(C!Row)]
  /\ topup \in [Topups -> {"none", "pending", "approved", "rejected"}]
  /\ owner \in [Topups -> Students \cup {Nobody}]
  /\ lock \in [Rows -> Requests \cup {Nobody}]
  /\ pc \in [Requests -> Steps \cup {"idle", "replay", "answered"}]
  /\ job \in [Requests -> Job]
  /\ after \in [Requests -> Nat]
  /\ answer \in [Requests -> {"none", "done", "reviewed", "too_many_pending", "over_cap",
                              "insufficient", "replayed", "conflict", "failed", "error"}]

\* The statements are those of the contract: whatever interleaves, commits,
\* rolls back or dies, money moves only as WalletContract allows.
\* (wallet-ledger.ts header: no negative balance, no double credit.)
Contract == C!Spec

\* The cached balance is what the ledger adds up to at every commit, the
\* equality the deferred trigger wallet_balance_matches_ledger raises on.
BalanceIsLedger ==
  \A u \in Students :
    balance[u] = MapThenSumSet(LAMBDA i : statement[u][i].cents, 1 .. Len(statement[u]))

\* A top-up's status and the ledger agree: an approved request has been
\* credited to its owner's wallet, and a credit that names a request means
\* that the request is approved and the wallet its owner's. The contract
\* adds that there is one such row. (approveTopup, "two guards, either
\* sufficient on its own".)
ApprovedIffCredited ==
  /\ \A t \in Topups : topup[t] = "approved" =>
       \E i \in 1 .. Len(statement[owner[t]]) : statement[owner[t]][i].source = t
  /\ \A u \in Students : \A i \in 1 .. Len(statement[u]) :
       statement[u][i].source \in Topups =>
         /\ topup[statement[u][i].source] = "approved"
         /\ owner[statement[u][i].source] = u

\* What a caller is told is true: "done" or "replayed" for a movement under
\* a key means that the key names a committed row of that student, and
\* "done" for a review means that the request has the status asked for.
\* (isReplay: "that row is the answer".)
AnswersAreTrue ==
  \A q \in Requests :
    /\ /\ answer[q] \in {"done", "replayed"}
       /\ job[q].op \in {"credit", "debit", "purchase", "approve"}
       => \E i \in 1 .. Len(statement[job[q].user]) :
            statement[job[q].user][i].source = job[q].source
    /\ answer[q] = "done" /\ job[q].op = "reject" => topup[job[q].source] = "rejected"

\* A reviewed top-up stays as it was reviewed, whoever else pressed.
ReviewedOnce ==
  [][\A t \in Topups : topup[t] \in {"approved", "rejected"} => topup'[t] = topup[t]]_vars

\* What goes back into the wallet for one purchase never exceeds what the
\* purchase took out. (resolveRefund: "the refund goes back to the WALLET,
\* capped by what this one purchase took out of it minus what has already
\* gone back".)
RefundsWithinPrice ==
  \A u \in Students : \A i \in 1 .. Len(statement[u]) :
    statement[u][i].kind = "course_purchase" =>
      Refunded(u, statement[u][i].source) <= - statement[u][i].cents

\* A request that opened its transaction is answered or dies: no cycle of
\* lock waits outlives PostgreSQL's detector. The fairness is that of the
\* database: an enabled statement runs, and a row lock is not given to
\* later comers for ever (row locks queue).
InFlight(q) == pc[q] \in Steps \cup {"replay"}
Answered == \A q \in Requests : InFlight(q) ~> ~InFlight(q)
Fairness == \A q \in Requests : SF_vars(Run(q))
FairSpec == Spec /\ Fairness

-----------------------------------------------------------------------------
(***************************************************************************)
(* The inductive invariant behind the safety properties: what a request    *)
(* has locked by the time it stands at a step, and that what it captured   *)
(* is still true because of that lock.                                     *)
(***************************************************************************)

MoneyOps == CreditOps \cup DebitOps

\* A job carries what its operation needs.
JobOK(q) ==
  /\ job[q].op \in Ops => job[q].user \in Students
  /\ job[q].op \in MoneyOps => job[q].cents > 0
  /\ job[q].op \in {"approve", "reject"} =>
       job[q].source \in Topups /\ owner[job[q].source] = job[q].user
  /\ job[q].op \in {"credit", "debit", "purchase"} => job[q].source \in Keys
  /\ job[q].op = "refund" => job[q].source = Nobody

\* Which operations reach which step.
StepOK(q) ==
  /\ pc[q] = "insert" => job[q].op = "submit"
  /\ pc[q] = "guard" => job[q].op \in {"approve", "reject"}
  /\ pc[q] = "grant" => job[q].op = "refund"
  /\ pc[q] \in {"move", "row"} => job[q].op \in MoneyOps
  /\ pc[q] = "deliver" => job[q].op = "purchase"
  /\ pc[q] = "commit" => job[q].op \in MoneyOps \cup {"reject"}
  /\ pc[q] = "replay" => job[q].op \in {"credit", "debit", "purchase"}

\* From the move on the wallet row is ours and the balance we computed is
\* still the balance plus our amount; from the insert on the entry of our
\* source is ours and nobody has committed it; a review past its guard owns
\* a request that is still pending.
LocksHold(q) ==
  /\ pc[q] \in {"row", "deliver", "commit"} /\ job[q].op # "reject" =>
       /\ lock[WalletRow(job[q].user)] = q
       /\ after[q] = balance[job[q].user] + Signed(q)
  /\ pc[q] \in {"deliver", "commit"} /\ job[q].op # "reject" /\ job[q].source # Nobody =>
       /\ lock[Entry(job[q].source)] = q
       /\ ~C!Used(job[q].source)
  /\ pc[q] \in {"move", "row", "commit"} /\ job[q].op \in {"approve", "reject"} =>
       /\ lock[TopupRow(job[q].source)] = q
       /\ topup[job[q].source] = "pending"

Cached == \A u \in Students : balance[u] = C!LastAfter(statement[u])
Owned  == \A t \in Topups : topup[t] # "none" <=> owner[t] \in Students

IInv == /\ TypeOK /\ Cached /\ Owned
        /\ \A q \in Requests : JobOK(q) /\ StepOK(q) /\ LocksHold(q)
=============================================================================
