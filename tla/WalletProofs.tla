---------------------------- MODULE WalletProofs ----------------------------
(***************************************************************************)
(* Proofs about Wallet for any number of requests, students, top-ups, keys *)
(* and amounts: IInv is inductive, and with it every step of Wallet is a   *)
(* step of WalletContract or leaves the statements alone.                  *)
(***************************************************************************)
EXTENDS Wallet, SequenceTheorems, FiniteSetTheorems, WellFoundedInduction, TLAPS

LEMMA RowsApart ==
  /\ \A u, v \in Students : WalletRow(u) = WalletRow(v) => u = v
  /\ \A s, t \in Sources : Entry(s) = Entry(t) => s = t
  /\ \A s, t \in Topups : TopupRow(s) = TopupRow(t) => s = t
  /\ \A u \in Students : WalletRow(u) \in Rows /\ GrantRow(u) \in Rows
  /\ \A t \in Topups : TopupRow(t) \in Rows
  /\ \A s \in Sources : Entry(s) \in Rows
BY DEF WalletRow, GrantRow, TopupRow, Entry, Rows

LEMMA InitInv == Init => IInv
<1> SUFFICES ASSUME Init PROVE IInv
  OBVIOUS
<1>1. balance \in [Students -> Nat]
  BY OpeningType DEF Init
<1>2. statement \in [Students -> Seq(C!Row)]
  <2>1. \A u \in Students : C!OpeningRow(u) \in C!Row
    BY OpeningType DEF C!OpeningRow, C!Row, C!Kinds, C!CreditKinds
  <2>2. << >> \in Seq(C!Row)
    BY EmptySeq
  <2>3. ASSUME NEW row \in C!Row PROVE << row >> \in Seq(C!Row)
    <3>1. << row >> = Append(<< >>, row)
      OBVIOUS
    <3>2. QED
      BY <2>2, <3>1
  <2>4. QED
    BY <2>1, <2>2, <2>3 DEF Init, C!Init
<1>3. NoJob \in Job
  BY DEF NoJob, Job
<1>4. TypeOK
  BY <1>1, <1>2, <1>3 DEF Init, TypeOK, Steps
<1>5. Cached
  <2> SUFFICES ASSUME NEW u \in Students
               PROVE  balance[u] = C!LastAfter(statement[u])
    BY DEF Cached
  <2>1. CASE Opening[u] = 0
    BY <2>1 DEF Init, C!Init, C!LastAfter
  <2>2. CASE Opening[u] # 0
    <3>1. statement[u] = << C!OpeningRow(u) >>
      BY <2>2 DEF Init, C!Init
    <3>2. statement[u] # << >> /\ statement[u][Len(statement[u])] = C!OpeningRow(u)
      BY <3>1
    <3>3. QED
      BY <3>2 DEF Init, C!LastAfter, C!OpeningRow
  <2>3. QED
    BY <2>1, <2>2
<1>6. Owned
  BY NobodyIsNew DEF Init, Owned
<1>7. \A q \in Requests : JobOK(q) /\ StepOK(q) /\ LocksHold(q)
  BY DEF Init, JobOK, StepOK, LocksHold, NoJob, Ops, MoneyOps, CreditOps, DebitOps
<1>8. QED
  BY <1>4, <1>5, <1>6, <1>7 DEF IInv

-----------------------------------------------------------------------------
(***************************************************************************)
(* What a step of one request leaves of another.                           *)
(***************************************************************************)

\* The locks another request holds are still its own.
LEMMA OthersKeepLocks ==
  ASSUME TypeOK, NEW p \in Requests, NEW q \in Requests, p # q,
         \/ UNCHANGED lock
         \/ Release(q)
         \/ \E r \in Rows : Free(r) /\ Take(q, r)
  PROVE  \A r \in Rows : lock[r] = p => lock'[r] = p
BY NobodyIsNew DEF TypeOK, Release, Free, Take

\* A request that does not move keeps its part of the invariant while the
\* tables stand still and its locks are its own.
LEMMA BystanderKeeps ==
  ASSUME IInv, UNCHANGED Tables, NEW p \in Requests,
         pc'[p] = pc[p], job'[p] = job[p], after'[p] = after[p],
         \A r \in Rows : lock[r] = p => lock'[r] = p
  PROVE  JobOK(p)' /\ StepOK(p)' /\ LocksHold(p)'
<1>1. JobOK(p) /\ StepOK(p) /\ LocksHold(p) /\ job[p] \in Job
  BY DEF IInv, TypeOK
<1>2. UNCHANGED <<balance, statement, topup, owner>>
  BY DEF Tables
<1>3. JobOK(p)'
  BY <1>1, <1>2 DEF JobOK
<1>4. StepOK(p)'
  BY <1>1 DEF StepOK
<1>5. Signed(p)' = Signed(p)
  BY DEF Signed
<1>6. \A s : C!Used(s)' <=> C!Used(s)
  BY <1>2 DEF C!Used
<1>7. LocksHold(p)'
  <2>1. CASE pc[p] \in {"row", "deliver", "commit"} /\ job[p].op # "reject"
    <3>1. job[p].user \in Students
      BY <1>1, <2>1 DEF JobOK, StepOK, MoneyOps, Ops, CreditOps, DebitOps
    <3>2. lock'[WalletRow(job[p].user)] = p
      BY <1>1, <2>1, <3>1, RowsApart DEF LocksHold
    <3>3. pc[p] \in {"deliver", "commit"} /\ job[p].source # Nobody =>
            lock'[Entry(job[p].source)] = p
      BY <1>1, <2>1, RowsApart DEF LocksHold, Job, Sources
    <3>4. job[p].op = "approve" => lock'[TopupRow(job[p].source)] = p
      BY <1>1, <2>1, RowsApart DEF LocksHold, JobOK, StepOK
    <3>5. QED
      BY <1>1, <1>2, <1>5, <1>6, <2>1, <3>2, <3>3, <3>4 DEF LocksHold
  <2>2. CASE pc[p] \in {"move", "commit"} /\ job[p].op \in {"approve", "reject"}
    <3>1. lock'[TopupRow(job[p].source)] = p
      BY <1>1, <2>2, RowsApart DEF LocksHold, JobOK
    <3>2. CASE pc[p] = "commit" /\ job[p].op = "approve"
      BY <2>1, <3>2
    <3>3. CASE ~(pc[p] = "commit" /\ job[p].op = "approve")
      BY <1>1, <1>2, <2>2, <3>1, <3>3 DEF LocksHold
    <3>4. QED
      BY <3>2, <3>3
  <2>3. CASE /\ ~(pc[p] \in {"row", "deliver", "commit"} /\ job[p].op # "reject")
             /\ ~(pc[p] \in {"move", "commit"} /\ job[p].op \in {"approve", "reject"})
    BY <1>1, <2>3 DEF LocksHold, StepOK, MoneyOps, CreditOps, DebitOps
  <2>4. QED
    BY <2>1, <2>2, <2>3
<1>8. QED
  BY <1>3, <1>4, <1>7

\* A step of q that leaves the tables alone preserves the invariant when it
\* does for q itself.
LEMMA QuietStep ==
  ASSUME IInv, NEW q \in Requests, UNCHANGED Tables, TypeOK',
         \/ UNCHANGED lock
         \/ Release(q)
         \/ \E r \in Rows : Free(r) /\ Take(q, r),
         \A p \in Requests \ {q} :
           pc'[p] = pc[p] /\ job'[p] = job[p] /\ after'[p] = after[p],
         JobOK(q)', StepOK(q)', LocksHold(q)'
  PROVE  IInv'
<1>1. ASSUME NEW p \in Requests \ {q}
      PROVE  JobOK(p)' /\ StepOK(p)' /\ LocksHold(p)'
  BY <1>1, OthersKeepLocks, BystanderKeeps DEF IInv
<1>2. Cached' /\ Owned'
  BY DEF IInv, Cached, Owned, Tables, C!LastAfter
<1>3. QED
  BY <1>1, <1>2 DEF IInv

\* Requests start with a job that their operation can run on.
LEMMA BeginKeeps ==
  ASSUME IInv, NEW q \in Requests, NEW j \in Job, NEW s \in Steps,
         Begin(q, j, s),
         s \in {"insert", "guard", "grant", "move"},
         s = "insert" => j.op = "submit",
         s = "guard" => j.op \in {"approve", "reject"},
         s = "grant" => j.op = "refund",
         s = "move" => j.op \in {"credit", "debit", "purchase"},
         j.op # "none", j.user \in Students,
         j.op \in MoneyOps => j.cents > 0,
         j.op \in {"approve", "reject"} =>
           j.source \in Topups /\ owner[j.source] = j.user,
         j.op \in {"credit", "debit", "purchase"} => j.source \in Keys,
         j.op = "refund" => j.source = Nobody
  PROVE  IInv'
<1>1. /\ pc'[q] = s /\ job'[q] = j
      /\ UNCHANGED <<balance, statement, topup, owner, lock, after, answer>>
      /\ \A p \in Requests \ {q} : pc'[p] = pc[p] /\ job'[p] = job[p]
  BY DEF Begin, IInv, TypeOK, Tables
<1>2. TypeOK'
  BY DEF Begin, IInv, TypeOK, Tables
<1>3. JobOK(q)' /\ StepOK(q)'
  BY <1>1 DEF JobOK, StepOK, MoneyOps, CreditOps, DebitOps
<1>4. LocksHold(q)'
  BY <1>1 DEF LocksHold
<1>5. QED
  BY <1>1, <1>2, <1>3, <1>4, QuietStep DEF Tables

LEMMA RefuseKeeps ==
  ASSUME IInv, NEW q \in Requests, NEW j \in Job, NEW a,
         a \in {"reviewed", "too_many_pending", "over_cap", "replayed", "conflict"},
         Refuse(q, j, a),
         j.op # "none", j.user \in Students,
         j.op \in MoneyOps => j.cents > 0,
         j.op \in {"approve", "reject"} =>
           j.source \in Topups /\ owner[j.source] = j.user,
         j.op \in {"credit", "debit", "purchase"} => j.source \in Keys,
         j.op = "refund" => j.source = Nobody
  PROVE  IInv'
<1>1. /\ pc'[q] = "answered" /\ job'[q] = j
      /\ UNCHANGED <<balance, statement, topup, owner, lock, after>>
      /\ \A p \in Requests \ {q} : pc'[p] = pc[p] /\ job'[p] = job[p]
  BY DEF Refuse, IInv, TypeOK, Tables
<1>2. TypeOK'
  BY DEF Refuse, IInv, TypeOK, Tables
<1>3. JobOK(q)' /\ StepOK(q)'
  BY <1>1 DEF JobOK, StepOK, MoneyOps, CreditOps, DebitOps
<1>4. LocksHold(q)'
  BY <1>1 DEF LocksHold
<1>5. QED
  BY <1>1, <1>2, <1>3, <1>4, QuietStep DEF Tables

LEMMA StartKeeps ==
  ASSUME IInv, NEW q \in Requests, Start(q)
  PROVE  IInv'
<1>1. Amounts \subseteq Nat \ {0} /\ Topups \subseteq Sources /\ Keys \subseteq Sources
  BY AmountsArePositive DEF Sources
<1>2. CASE \E u \in Students : SomeTopupLeft /\ StartSubmit(q, u)
  <2>1. PICK u \in Students : StartSubmit(q, u)
    BY <1>2
  <2> DEFINE j == [NoJob EXCEPT !.op = "submit", !.user = u]
  <2>2. /\ j \in Job /\ j.op = "submit" /\ j.user = u
        /\ Begin(q, j, "insert") \/ Refuse(q, j, "too_many_pending")
    BY <2>1 DEF StartSubmit, NoJob, Job, Ops
  <2> HIDE DEF j
  <2>3. QED
    BY <2>2, BeginKeeps, RefuseKeeps DEF Steps, MoneyOps, CreditOps, DebitOps
<1>3. ASSUME NEW t \in Topups, NEW op, NEW c \in Amounts \cup {0}, StartReview(q, t, op, c),
             c = 0 => op = "reject"
      PROVE  IInv'
  <2> DEFINE j == [op |-> op, user |-> owner[t], cents |-> c, source |-> t, of |-> Nobody]
  <2>1. owner[t] \in Students /\ op \in {"approve", "reject"}
    BY <1>3 DEF StartReview, IInv, Owned
  <2>2. /\ j \in Job /\ j.op = op /\ j.user = owner[t] /\ j.source = t
        /\ j.cents = c
        /\ Begin(q, j, "guard") \/ Refuse(q, j, "reviewed")
    BY <1>1, <1>3, <2>1 DEF StartReview, Job, Ops, CreditOps
  <2> HIDE DEF j
  <2>3. j.op \in MoneyOps => j.cents > 0
    BY <1>1, <1>3, <2>1, <2>2 DEF MoneyOps, CreditOps, DebitOps
  <2>4. QED
    BY <2>1, <2>2, <2>3, BeginKeeps, RefuseKeeps DEF Steps
<1>4. ASSUME NEW u \in Students, NEW c \in Amounts, NEW k \in Keys,
             NEW op \in {"credit", "debit"}, StartAdminMove(q, u, op, c, k)
      PROVE  IInv'
  <2> DEFINE j == [op |-> op, user |-> u, cents |-> c, source |-> k, of |-> Nobody]
  <2>1. /\ j \in Job /\ j.op = op /\ j.user = u /\ j.source = k /\ j.cents > 0
        /\ Begin(q, j, "move")
    BY <1>1, <1>4 DEF StartAdminMove, Job, Ops, CreditOps, DebitOps
  <2> HIDE DEF j
  <2>2. QED
    BY <2>1, BeginKeeps DEF Steps
<1>5. ASSUME NEW u \in Students, NEW c \in Amounts, NEW k \in Keys, StartPurchase(q, u, c, k)
      PROVE  IInv'
  <2> DEFINE j == [op |-> "purchase", user |-> u, cents |-> c, source |-> k, of |-> Nobody]
  <2>1. /\ j \in Job /\ j.op = "purchase" /\ j.user = u /\ j.source = k /\ j.cents > 0
        /\ Begin(q, j, "move") \/ Refuse(q, j, "replayed") \/ Refuse(q, j, "conflict")
    BY <1>1, <1>5 DEF StartPurchase, ReplayAnswer, Job, Ops, DebitOps
  <2> HIDE DEF j
  <2>2. QED
    BY <2>1, BeginKeeps, RefuseKeeps DEF Steps
<1>6. ASSUME NEW u \in Students, NEW c \in Amounts, NEW k \in Keys, StartRefund(q, u, c, k)
      PROVE  IInv'
  <2> DEFINE j == [op |-> "refund", user |-> u, cents |-> c, source |-> Nobody, of |-> k]
  <2>1. /\ j \in Job /\ j.op = "refund" /\ j.user = u /\ j.source = Nobody /\ j.cents > 0
        /\ Begin(q, j, "grant") \/ Refuse(q, j, "over_cap")
    BY <1>1, <1>6 DEF StartRefund, Job, Ops, CreditOps
  <2> HIDE DEF j
  <2>2. QED
    BY <2>1, BeginKeeps, RefuseKeeps DEF Steps
<1>7. QED
  BY <1>1, <1>2, <1>3, <1>4, <1>5, <1>6 DEF Start

-----------------------------------------------------------------------------
(***************************************************************************)
(* The steps of a transaction before its commit.                           *)
(***************************************************************************)

\* Rolling back, whatever is done next, leaves nothing of q behind.
LEMMA RollBackKeeps ==
  ASSUME IInv, NEW q \in Requests, NEW s \in {"replay", "answered"}, RollBack(q, s),
         s = "replay" => job[q].op \in {"credit", "debit", "purchase"},
         TypeOK'
  PROVE  IInv'
<1>1. /\ pc'[q] = s /\ job'[q] = job[q]
      /\ UNCHANGED <<balance, statement, topup, owner, job>>
      /\ \A p \in Requests \ {q} : pc'[p] = pc[p] /\ after'[p] = after[p]
  BY DEF RollBack, IInv, TypeOK, Tables
<1>2. JobOK(q)' /\ StepOK(q)'
  BY <1>1 DEF JobOK, StepOK, IInv
<1>3. LocksHold(q)'
  BY <1>1 DEF LocksHold
<1>4. QED
  BY <1>1, <1>2, <1>3, QuietStep DEF RollBack, Tables

LEMMA CaughtKeeps ==
  ASSUME IInv, NEW q \in Requests, NEW a \in {"reviewed", "insufficient", "error"},
         Caught(q, a) \/ Fail(q, a)
  PROVE  IInv'
<1>1. CASE Fail(q, a)
  <2>1. RollBack(q, "answered") /\ TypeOK'
    BY <1>1 DEF Fail, RollBack, Release, IInv, TypeOK, Tables
  <2>2. QED
    BY <2>1, RollBackKeeps
<1>2. CASE RollBack(q, "replay") /\ UNCHANGED answer
           /\ job[q].op \in {"credit", "debit", "purchase"}
  <2>1. TypeOK'
    BY <1>2 DEF RollBack, Release, IInv, TypeOK, Tables
  <2>2. QED
    BY <1>2, <2>1, RollBackKeeps
<1>3. QED
  BY <1>1, <1>2 DEF Caught

LEMMA GuardKeeps ==
  ASSUME IInv, NEW q \in Requests, Guard(q)
  PROVE  IInv'
<1>1. CASE Fail(q, "reviewed")
  BY <1>1, CaughtKeeps
<1>2. CASE ~Fail(q, "reviewed")
  <2>1. JobOK(q) /\ StepOK(q) /\ LocksHold(q) /\ job[q].op \in {"approve", "reject"}
    BY DEF IInv, Guard, StepOK
  <2>2. job[q].source \in Topups /\ TopupRow(job[q].source) \in Rows
    BY <2>1, RowsApart DEF JobOK
  <2>3. /\ topup[job[q].source] = "pending"
        /\ Take(q, TopupRow(job[q].source))
        /\ pc' = [pc EXCEPT ![q] = IF job[q].op = "approve" THEN "move" ELSE "commit"]
        /\ UNCHANGED <<balance, statement, topup, owner, job, answer, after>>
    BY <1>2 DEF Guard, Goto, Tables
  <2>4. TypeOK'
    BY <2>2, <2>3 DEF IInv, TypeOK, Take, Steps
  <2>5. JobOK(q)' /\ StepOK(q)'
    BY <2>1, <2>3 DEF JobOK, StepOK, IInv, TypeOK, MoneyOps, CreditOps
  <2>6. lock'[TopupRow(job[q].source)] = q
    BY <2>2, <2>3 DEF Take, IInv, TypeOK
  <2>7. LocksHold(q)'
    BY <2>1, <2>3, <2>6 DEF LocksHold, IInv, TypeOK
  <2>8. QED
    BY <2>2, <2>3, <2>4, <2>5, <2>7, QuietStep DEF Guard, Tables, IInv, TypeOK
<1>3. QED
  BY <1>1, <1>2

LEMMA LockGrantKeeps ==
  ASSUME IInv, NEW q \in Requests, LockGrant(q)
  PROVE  IInv'
<1>1. JobOK(q) /\ StepOK(q) /\ job[q].op = "refund" /\ job[q].user \in Students
  BY DEF IInv, LockGrant, StepOK, JobOK, Ops, CreditOps
<1>2. GrantRow(job[q].user) \in Rows
  BY <1>1, RowsApart
<1>3. /\ Take(q, GrantRow(job[q].user))
      /\ pc' = [pc EXCEPT ![q] = "move"]
      /\ UNCHANGED <<balance, statement, topup, owner, job, answer, after>>
  BY DEF LockGrant, Goto, Tables
<1>4. TypeOK'
  BY <1>2, <1>3 DEF IInv, TypeOK, Take, Steps
<1>5. JobOK(q)' /\ StepOK(q)' /\ LocksHold(q)'
  BY <1>1, <1>3 DEF JobOK, StepOK, LocksHold, IInv, TypeOK, MoneyOps, CreditOps
<1>6. QED
  BY <1>2, <1>3, <1>4, <1>5, QuietStep DEF LockGrant, Tables, IInv, TypeOK

\* Taking one more lock leaves the ones q already had.
LEMMA TakeKeeps ==
  ASSUME TypeOK, NEW q \in Requests, NEW r \in Rows, Take(q, r)
  PROVE  lock'[r] = q /\ \A s \in Rows : lock[s] = q => lock'[s] = q
BY DEF TypeOK, Take

LEMMA MoveKeeps ==
  ASSUME IInv, NEW q \in Requests, Move(q)
  PROVE  IInv'
<1> DEFINE u == job[q].user
<1>1. /\ TypeOK /\ JobOK(q) /\ StepOK(q) /\ LocksHold(q)
      /\ pc[q] = "move" /\ job[q] \in Job /\ job[q].op \in MoneyOps
  BY DEF IInv, TypeOK, Move, StepOK
<1>2. u \in Students /\ WalletRow(u) \in Rows
  BY <1>1, RowsApart DEF JobOK, MoneyOps, Ops
<1>3. CASE Caught(q, "insufficient")
  BY <1>3, CaughtKeeps
<1>4. CASE ~Caught(q, "insufficient")
  <2>1. /\ balance[u] + Signed(q) >= 0
        /\ Free(WalletRow(u)) /\ Take(q, WalletRow(u))
        /\ after' = [after EXCEPT ![q] = balance[u] + Signed(q)]
        /\ pc' = [pc EXCEPT ![q] = "row"]
        /\ UNCHANGED <<balance, statement, topup, owner, job, answer>>
    BY <1>4 DEF Move, Covers, Goto, Tables
  <2>2. balance[u] + Signed(q) \in Nat
    <3>1. balance[u] \in Int /\ Signed(q) \in Int
      BY <1>1, <1>2 DEF TypeOK, Job, Signed
    <3>2. QED
      BY <2>1, <3>1
  <2>3. TypeOK'
    BY <1>1, <1>2, <2>1, <2>2 DEF TypeOK, Take, Steps
  <2>4. JobOK(q)' /\ StepOK(q)'
    BY <1>1, <2>1 DEF JobOK, StepOK, TypeOK
  <2>5. Signed(q)' = Signed(q) /\ after'[q] = balance[u] + Signed(q)
    BY <1>1, <2>1 DEF Signed, TypeOK
  <2>6. lock'[WalletRow(u)] = q
    BY <1>1, <1>2, <2>1, TakeKeeps
  <2>7. job[q].op = "approve" =>
          lock'[TopupRow(job[q].source)] = q /\ topup[job[q].source] = "pending"
    <3>1. SUFFICES ASSUME job[q].op = "approve"
                   PROVE  lock'[TopupRow(job[q].source)] = q /\ topup[job[q].source] = "pending"
      OBVIOUS
    <3>2. /\ TopupRow(job[q].source) \in Rows /\ lock[TopupRow(job[q].source)] = q
          /\ topup[job[q].source] = "pending"
      BY <1>1, <3>1, RowsApart DEF JobOK, LocksHold
    <3>3. QED
      BY <1>1, <1>2, <2>1, <3>2, TakeKeeps
  <2>8. LocksHold(q)'
    BY <1>1, <2>1, <2>5, <2>6, <2>7 DEF LocksHold, TypeOK, MoneyOps, CreditOps, DebitOps
  <2>9. QED
    BY <1>1, <1>2, <2>1, <2>3, <2>4, <2>8, QuietStep DEF Tables, TypeOK
<1>5. QED
  BY <1>3, <1>4

LEMMA InsertRowKeeps ==
  ASSUME IInv, NEW q \in Requests, InsertRow(q)
  PROVE  IInv'
<1> DEFINE next == IF job[q].op = "purchase" THEN "deliver" ELSE "commit"
           s == job[q].source
<1>1. /\ TypeOK /\ JobOK(q) /\ StepOK(q) /\ LocksHold(q)
      /\ pc[q] = "row" /\ job[q] \in Job /\ job[q].op \in MoneyOps
  BY DEF IInv, TypeOK, InsertRow, StepOK
<1>2. CASE Caught(q, "reviewed")
  BY <1>2, CaughtKeeps
<1>3. CASE ~Caught(q, "reviewed")
  <2>1. /\ pc' = [pc EXCEPT ![q] = next]
        /\ UNCHANGED <<balance, statement, topup, owner, job, answer, after>>
        /\ \/ s = Nobody /\ UNCHANGED lock
           \/ s # Nobody /\ Free(Entry(s)) /\ Take(q, Entry(s)) /\ ~C!Used(s)
    BY <1>3 DEF InsertRow, Goto, Tables
  <2>2. s # Nobody => Entry(s) \in Rows
    BY <1>1, RowsApart DEF Job
  <2>3. \A r \in Rows : lock[r] = q => lock'[r] = q
    BY <1>1, <2>1, <2>2, TakeKeeps
  <2>4. s # Nobody => lock'[Entry(s)] = q /\ ~C!Used(s)'
    <3>1. C!Used(s)' <=> C!Used(s)
      BY <2>1 DEF C!Used
    <3>2. QED
      BY <1>1, <2>1, <2>2, <3>1, TakeKeeps
  <2>5. TypeOK'
    <3>1. lock' \in [Rows -> Requests \cup {Nobody}]
      BY <1>1, <2>1, <2>2 DEF TypeOK, Take
    <3>2. pc' \in [Requests -> Steps \cup {"idle", "replay", "answered"}]
      BY <1>1, <2>1 DEF TypeOK, Steps
    <3>3. QED
      BY <1>1, <2>1, <3>1, <3>2 DEF TypeOK
  <2>6. JobOK(q)' /\ StepOK(q)'
    BY <1>1, <2>1 DEF JobOK, StepOK, TypeOK
  <2>7. LocksHold(q)'
    <3>1. /\ WalletRow(job[q].user) \in Rows /\ lock[WalletRow(job[q].user)] = q
          /\ after[q] = balance[job[q].user] + Signed(q)
      BY <1>1, RowsApart DEF LocksHold, JobOK, MoneyOps, Ops, CreditOps, DebitOps
    <3>2. Signed(q)' = Signed(q)
      BY <2>1 DEF Signed
    <3>3. job[q].op = "approve" =>
            lock'[TopupRow(s)] = q /\ topup[s] = "pending"
      BY <1>1, <2>3, RowsApart DEF LocksHold, JobOK
    <3>4. QED
      BY <1>1, <2>1, <2>3, <2>4, <3>1, <3>2, <3>3 DEF LocksHold, TypeOK, MoneyOps, CreditOps, DebitOps
  <2>8. QED
    BY <1>1, <2>1, <2>2, <2>5, <2>6, <2>7, QuietStep DEF Tables, TypeOK
<1>4. QED
  BY <1>2, <1>3

LEMMA DeliverKeeps ==
  ASSUME IInv, NEW q \in Requests, Deliver(q)
  PROVE  IInv'
<1>1. /\ TypeOK /\ JobOK(q) /\ StepOK(q) /\ LocksHold(q)
      /\ pc[q] = "deliver" /\ job[q] \in Job /\ job[q].op = "purchase"
  BY DEF IInv, TypeOK, Deliver, StepOK
<1>2. /\ GrantRow(job[q].user) \in Rows /\ WalletRow(job[q].user) \in Rows
      /\ job[q].source \in Keys /\ job[q].source # Nobody /\ Entry(job[q].source) \in Rows
  BY <1>1, RowsApart, NobodyIsNew DEF JobOK, Ops, DebitOps, Sources
<1>3. /\ pc' = [pc EXCEPT ![q] = "commit"]
      /\ UNCHANGED <<balance, statement, topup, owner, job, answer, after>>
      /\ \/ UNCHANGED lock
         \/ Free(GrantRow(job[q].user)) /\ Take(q, GrantRow(job[q].user))
  BY DEF Deliver, Goto, Tables
<1>4. \A r \in Rows : lock[r] = q => lock'[r] = q
  BY <1>1, <1>2, <1>3, TakeKeeps
<1>5. TypeOK'
  <2>1. lock' \in [Rows -> Requests \cup {Nobody}]
    BY <1>1, <1>2, <1>3 DEF TypeOK, Take
  <2>2. pc' \in [Requests -> Steps \cup {"idle", "replay", "answered"}]
    BY <1>1, <1>3 DEF TypeOK, Steps
  <2>3. QED
    BY <1>1, <1>3, <2>1, <2>2 DEF TypeOK
<1>6. JobOK(q)' /\ StepOK(q)'
  BY <1>1, <1>3 DEF JobOK, StepOK, TypeOK, MoneyOps, DebitOps
<1>7. LocksHold(q)'
  <2>1. Signed(q)' = Signed(q)
    BY <1>3 DEF Signed
  <2>2. C!Used(job[q].source)' <=> C!Used(job[q].source)
    BY <1>3 DEF C!Used
  <2>3. QED
    BY <1>1, <1>2, <1>3, <1>4, <2>1, <2>2 DEF LocksHold, TypeOK
<1>8. QED
  BY <1>1, <1>2, <1>3, <1>5, <1>6, <1>7, QuietStep DEF Tables, TypeOK

LEMMA ReplayKeeps ==
  ASSUME IInv, NEW q \in Requests, Replay(q)
  PROVE  IInv'
<1>1. /\ pc' = [pc EXCEPT ![q] = "answered"]
      /\ UNCHANGED <<balance, statement, topup, owner, lock, job, after>>
      /\ \E a \in {"replayed", "conflict", "failed"} : answer' = [answer EXCEPT ![q] = a]
  BY DEF Replay, ReplayAnswer, Tables
<1>2. TypeOK'
  <2>1. PICK a \in {"replayed", "conflict", "failed"} : answer' = [answer EXCEPT ![q] = a]
    BY <1>1
  <2>2. QED
    BY <1>1, <2>1 DEF IInv, TypeOK
<1>3. JobOK(q)' /\ StepOK(q)' /\ LocksHold(q)'
  BY <1>1 DEF JobOK, StepOK, LocksHold, IInv, TypeOK
<1>4. QED
  BY <1>1, <1>2, <1>3, QuietStep DEF Tables, IInv, TypeOK

\* A slot that becomes idle carries no job, so nothing is asked of it.
LEMMA IdleKeeps ==
  ASSUME IInv, NEW q \in Requests, Crash(q) \/ Finish(q)
  PROVE  IInv'
<1>1. /\ pc' = [pc EXCEPT ![q] = "idle"] /\ job' = [job EXCEPT ![q] = NoJob]
      /\ UNCHANGED <<balance, statement, topup, owner>>
      /\ UNCHANGED lock \/ Release(q)
      /\ \A p \in Requests \ {q} : after'[p] = after[p]
  BY DEF Crash, Finish, Tables, IInv, TypeOK
<1>2. TypeOK'
  <2>1. NoJob \in Job
    BY DEF NoJob, Job
  <2>2. lock' \in [Rows -> Requests \cup {Nobody}]
    BY <1>1 DEF Release, IInv, TypeOK
  <2>3. after' \in [Requests -> Nat]
    BY DEF Crash, Finish, IInv, TypeOK
  <2>4. UNCHANGED answer \/ answer' = [answer EXCEPT ![q] = "none"]
    BY DEF Crash, Finish
  <2>5. QED
    BY <1>1, <2>1, <2>2, <2>3, <2>4 DEF IInv, TypeOK
<1>3. JobOK(q)' /\ StepOK(q)' /\ LocksHold(q)'
  BY <1>1 DEF JobOK, StepOK, LocksHold, IInv, TypeOK, NoJob, Ops, MoneyOps, CreditOps, DebitOps
<1>4. QED
  BY <1>1, <1>2, <1>3, QuietStep DEF Tables, IInv, TypeOK

-----------------------------------------------------------------------------
(***************************************************************************)
(* The two steps that change the tables.                                   *)
(***************************************************************************)

\* A new top-up has an id no request refers to yet.
LEMMA InsertTopupKeeps ==
  ASSUME IInv, NEW q \in Requests, InsertTopup(q)
  PROVE  IInv'
<1>1. PICK t \in Topups : /\ topup[t] = "none"
                          /\ topup' = [topup EXCEPT ![t] = "pending"]
                          /\ owner' = [owner EXCEPT ![t] = job[q].user]
  BY DEF InsertTopup
<1>2. /\ TypeOK /\ Owned /\ Cached /\ pc[q] = "insert" /\ job[q].op = "submit"
      /\ job[q].user \in Students
      /\ \A p \in Requests : JobOK(p) /\ StepOK(p) /\ LocksHold(p)
  BY DEF IInv, InsertTopup, StepOK, JobOK, Ops
<1>3. /\ pc' = [pc EXCEPT ![q] = "answered"]
      /\ answer' = [answer EXCEPT ![q] = "done"]
      /\ UNCHANGED <<balance, statement, lock, job, after>>
  BY DEF InsertTopup
<1>4. TypeOK'
  BY <1>1, <1>2, <1>3 DEF TypeOK
<1>5. Owned'
  BY <1>1, <1>2 DEF Owned, TypeOK
<1>6. Cached'
  BY <1>2, <1>3 DEF Cached, C!LastAfter
<1>7. ASSUME NEW p \in Requests
      PROVE  JobOK(p)' /\ StepOK(p)' /\ LocksHold(p)'
  <2>1. job[p].op \in {"approve", "reject"} => job[p].source \in Topups \ {t}
    BY <1>1, <1>2 DEF JobOK, Owned, Ops, CreditOps
  <2>2. /\ owner'[job[p].source] = owner[job[p].source] \/ job[p].op \notin {"approve", "reject"}
        /\ topup'[job[p].source] = topup[job[p].source] \/ job[p].op \notin {"approve", "reject"}
    BY <1>1, <1>2, <2>1 DEF TypeOK
  <2>3. JobOK(p)'
    BY <1>2, <1>3, <2>2 DEF JobOK
  <2>4. StepOK(p)'
    BY <1>2, <1>3 DEF StepOK, TypeOK
  <2>5. Signed(p)' = Signed(p) /\ (C!Used(job[p].source)' <=> C!Used(job[p].source))
    BY <1>3 DEF Signed, C!Used
  <2>6. LocksHold(p)'
    BY <1>2, <1>3, <2>2, <2>5 DEF LocksHold, TypeOK
  <2>7. QED
    BY <2>3, <2>4, <2>6
<1>8. QED
  BY <1>4, <1>5, <1>6, <1>7 DEF IInv

\* What a committing transaction holds: its row is one the contract admits.
LEMMA CommitPosts ==
  ASSUME IInv, NEW q \in Requests, Commit(q), job[q].op # "reject"
  PROVE  /\ job[q].user \in Students
         /\ NewRow(q) \in C!Row
         /\ C!Post(job[q].user, NewRow(q))
<1>1. /\ TypeOK /\ Cached /\ JobOK(q) /\ StepOK(q) /\ LocksHold(q)
      /\ pc[q] = "commit" /\ job[q] \in Job /\ job[q].op \in MoneyOps
      /\ after[q] \in Nat
  BY DEF IInv, TypeOK, Commit, StepOK
<1>2. job[q].user \in Students /\ job[q].cents > 0 /\ job[q].cents \in Nat
  BY <1>1 DEF JobOK, MoneyOps, Ops, Job
<1>3. /\ Signed(q) \in Int
      /\ (Signed(q) > 0) <=> (job[q].op \in CreditOps)
  BY <1>1, <1>2 DEF Signed
<1>4. /\ KindOf[job[q].op] \in C!Kinds
      /\ (KindOf[job[q].op] \in C!CreditKinds) <=> (job[q].op \in CreditOps)
  BY <1>1 DEF KindOf, C!Kinds, C!CreditKinds, C!DebitKinds, MoneyOps, CreditOps, DebitOps
<1>5. job[q].of \in Sources \cup {Nobody} /\ job[q].source \in Sources \cup {Nobody}
  BY <1>1 DEF Job, Sources
<1>6. NewRow(q) \in C!Row
  BY <1>1, <1>3, <1>4, <1>5 DEF NewRow, C!Row
<1>7. after[q] = C!LastAfter(statement[job[q].user]) + Signed(q)
  BY <1>1, <1>2 DEF LocksHold, Cached
<1>8. job[q].source # Nobody => ~C!Used(job[q].source)
  BY <1>1 DEF LocksHold
<1>9. statement' = [statement EXCEPT ![job[q].user] = Append(@, NewRow(q))]
  BY DEF Commit
<1>10. QED
  BY <1>1, <1>2, <1>3, <1>4, <1>6, <1>7, <1>8, <1>9 DEF C!Post, NewRow

\* A commit can disturb no other request: what the others rely on is locked
\* by them, and what it writes is locked by q.
LEMMA CommitSpares ==
  ASSUME IInv, NEW q \in Requests, Commit(q), NEW p \in Requests, p # q
  PROVE  JobOK(p)' /\ StepOK(p)' /\ LocksHold(p)'
<1>1. /\ TypeOK /\ pc[q] = "commit" /\ job[q] \in Job /\ job[p] \in Job
      /\ JobOK(q) /\ StepOK(q) /\ LocksHold(q)
      /\ JobOK(p) /\ StepOK(p) /\ LocksHold(p)
  BY DEF IInv, TypeOK, Commit
<1>2. /\ pc'[p] = pc[p] /\ after'[p] = after[p]
      /\ UNCHANGED <<owner, job>>
      /\ \A r \in Rows : lock[r] = p => lock'[r] = p
  BY <1>1, OthersKeepLocks DEF Commit, TypeOK
<1>3. JobOK(p)' /\ StepOK(p)' /\ Signed(p)' = Signed(p)
  BY <1>1, <1>2 DEF JobOK, StepOK, Signed
<1>4. ASSUME pc[p] \in {"row", "deliver", "commit"}, job[p].op # "reject"
      PROVE  /\ lock'[WalletRow(job[p].user)] = p
             /\ balance'[job[p].user] = balance[job[p].user]
  <2>1. job[p].user \in Students /\ lock[WalletRow(job[p].user)] = p
    BY <1>1, <1>4 DEF LocksHold, JobOK, StepOK, MoneyOps, Ops, CreditOps, DebitOps
  <2>2. CASE job[q].op = "reject"
    BY <1>2, <2>1, <2>2, RowsApart DEF Commit
  <2>3. CASE job[q].op # "reject"
    <3>1. lock[WalletRow(job[q].user)] = q /\ job[q].user # job[p].user
      BY <1>1, <2>1, <2>3 DEF LocksHold
    <3>2. QED
      BY <1>1, <1>2, <2>1, <2>3, <3>1, RowsApart DEF Commit, TypeOK
  <2>4. QED
    BY <2>2, <2>3
<1>5. ASSUME pc[p] \in {"deliver", "commit"}, job[p].op # "reject", job[p].source # Nobody
      PROVE  lock'[Entry(job[p].source)] = p /\ ~C!Used(job[p].source)'
  <2>1. /\ job[p].source \in Sources /\ lock[Entry(job[p].source)] = p
        /\ ~C!Used(job[p].source)
    BY <1>1, <1>5 DEF LocksHold, Job, Sources
  <2>2. lock'[Entry(job[p].source)] = p
    BY <1>2, <2>1, RowsApart
  <2>3. CASE job[q].op = "reject"
    <3>1. statement' = statement
      BY <2>3 DEF Commit
    <3>2. QED
      BY <1>2, <2>1, <2>2, <3>1 DEF C!Used
  <2>4. CASE job[q].op # "reject"
    <3>1. job[q].source # job[p].source
      BY <1>1, <2>1, <2>4, <1>5, NobodyIsNew DEF LocksHold
    <3>2. /\ NewRow(q) \in C!Row /\ job[q].user \in Students
          /\ statement' = [statement EXCEPT ![job[q].user] = Append(@, NewRow(q))]
      BY <2>4, CommitPosts DEF Commit
    <3>3. ~C!Used(job[p].source)'
      <4>1. SUFFICES ASSUME NEW u \in Students, NEW i \in 1 .. Len(statement'[u]),
                            statement'[u][i].source = job[p].source
                     PROVE  FALSE
        BY <1>2 DEF C!Used
      <4>2. statement[u] \in Seq(C!Row)
        BY <1>1 DEF TypeOK
      <4>3. CASE u = job[q].user
        <5>1. statement'[u] = Append(statement[u], NewRow(q))
          BY <1>1, <3>2, <4>3 DEF TypeOK
        <5>2. CASE i = Len(statement[u]) + 1
          <6>1. statement'[u][i] = NewRow(q)
            BY <4>2, <5>1, <5>2, <3>2
          <6>2. QED
            BY <3>1, <4>1, <6>1 DEF NewRow
        <5>3. CASE i # Len(statement[u]) + 1
          <6>1. i \in 1 .. Len(statement[u]) /\ statement'[u][i] = statement[u][i]
            BY <4>2, <5>1, <5>3, <3>2
          <6>2. QED
            BY <2>1, <4>1, <6>1 DEF C!Used
        <5>4. QED
          BY <5>2, <5>3
      <4>4. CASE u # job[q].user
        <5>1. statement'[u] = statement[u]
          BY <1>1, <3>2, <4>4 DEF TypeOK
        <5>2. QED
          BY <2>1, <4>1, <5>1 DEF C!Used
      <4>5. QED
        BY <4>3, <4>4
    <3>4. QED
      BY <2>2, <3>3
  <2>5. QED
    BY <2>3, <2>4
<1>6. ASSUME pc[p] \in {"move", "row", "commit"}, job[p].op \in {"approve", "reject"}
      PROVE  /\ lock'[TopupRow(job[p].source)] = p
             /\ topup'[job[p].source] = "pending"
  <2>1. /\ job[p].source \in Topups /\ lock[TopupRow(job[p].source)] = p
        /\ topup[job[p].source] = "pending"
    BY <1>1, <1>6 DEF LocksHold, JobOK
  <2>2. lock'[TopupRow(job[p].source)] = p
    BY <1>2, <2>1, RowsApart
  <2>3. job[q].op \in {"approve", "reject"} => job[q].source # job[p].source
    BY <1>1, <2>1 DEF LocksHold
  <2>4. topup'[job[p].source] = topup[job[p].source]
    BY <1>1, <2>1, <2>3 DEF Commit, TypeOK, JobOK
  <2>5. QED
    BY <2>1, <2>2, <2>4
<1>7. LocksHold(p)'
  BY <1>1, <1>2, <1>3, <1>4, <1>5, <1>6 DEF LocksHold
<1>8. QED
  BY <1>3, <1>7

LEMMA CommitKeeps ==
  ASSUME IInv, NEW q \in Requests, Commit(q)
  PROVE  IInv'
<1>1. /\ TypeOK /\ Cached /\ Owned /\ JobOK(q) /\ StepOK(q) /\ LocksHold(q)
      /\ pc[q] = "commit" /\ job[q] \in Job
  BY DEF IInv, TypeOK, Commit
<1>2. /\ pc' = [pc EXCEPT ![q] = "answered"] /\ after' = [after EXCEPT ![q] = 0]
      /\ answer' = [answer EXCEPT ![q] = "done"]
      /\ UNCHANGED <<owner, job>> /\ Release(q)
  BY DEF Commit
<1>3. CASE job[q].op = "reject"
  <2>1. /\ job[q].source \in Topups /\ topup[job[q].source] = "pending"
        /\ UNCHANGED <<balance, statement>>
        /\ topup' = [topup EXCEPT ![job[q].source] = "rejected"]
    BY <1>1, <1>3 DEF JobOK, LocksHold, Commit
  <2>2. TypeOK'
    BY <1>1, <1>2, <2>1 DEF TypeOK, Release
  <2>3. Cached' /\ Owned'
    BY <1>1, <1>2, <2>1 DEF Cached, Owned, C!LastAfter, TypeOK
  <2>4. QED
    BY <1>1, <1>2, <2>2, <2>3, CommitSpares DEF IInv, TypeOK, JobOK, StepOK, LocksHold
<1>4. CASE job[q].op # "reject"
  <2> DEFINE u == job[q].user
  <2>1. /\ u \in Students /\ NewRow(q) \in C!Row
        /\ balance' = [balance EXCEPT ![u] = after[q]]
        /\ statement' = [statement EXCEPT ![u] = Append(@, NewRow(q))]
    BY <1>4, CommitPosts DEF Commit
  <2>2. \/ topup' = topup
        \/ /\ job[q].source \in Topups /\ topup[job[q].source] = "pending"
           /\ topup' = [topup EXCEPT ![job[q].source] = "approved"]
    BY <1>1, <1>4 DEF JobOK, LocksHold, Commit
  <2>3. TypeOK'
    <3>1. balance' \in [Students -> Nat] /\ statement' \in [Students -> Seq(C!Row)]
      BY <1>1, <2>1 DEF TypeOK
    <3>2. topup' \in [Topups -> {"none", "pending", "approved", "rejected"}]
      BY <1>1, <2>2 DEF TypeOK
    <3>3. lock' \in [Rows -> Requests \cup {Nobody}]
      BY <1>1, <1>2 DEF TypeOK, Release
    <3>4. QED
      BY <1>1, <1>2, <3>1, <3>2, <3>3 DEF TypeOK
  <2>4. Cached'
    <3> SUFFICES ASSUME NEW v \in Students
                 PROVE  balance'[v] = C!LastAfter(statement[v])'
      BY DEF Cached
    <3>1. CASE v = u
      <4>1. statement[u] \in Seq(C!Row) /\ statement'[u] = Append(statement[u], NewRow(q))
        BY <1>1, <2>1 DEF TypeOK
      <4>2. statement'[u] # << >> /\ statement'[u][Len(statement'[u])] = NewRow(q)
        <5> HIDE DEF u
        <5>1. Len(statement'[u]) = Len(statement[u]) + 1 /\ Len(statement[u]) \in Nat
          BY <4>1, <2>1
        <5>2. QED
          BY <4>1, <5>1, <2>1
      <4>3. NewRow(q).after = after[q] /\ balance'[u] = after[q]
        BY <1>1, <2>1 DEF NewRow, TypeOK
      <4>4. QED
        BY <3>1, <4>2, <4>3 DEF C!LastAfter
    <3>2. CASE v # u
      BY <1>1, <2>1, <3>2 DEF Cached, C!LastAfter, TypeOK
    <3>3. QED
      BY <3>1, <3>2
  <2>5. Owned'
    BY <1>1, <1>2, <2>2 DEF Owned, TypeOK
  <2>6. JobOK(q)' /\ StepOK(q)' /\ LocksHold(q)'
    BY <1>1, <1>2 DEF JobOK, StepOK, LocksHold, TypeOK
  <2>7. QED
    BY <2>3, <2>4, <2>5, <2>6, CommitSpares DEF IInv
<1>5. QED
  BY <1>3, <1>4

-----------------------------------------------------------------------------
(***************************************************************************)
(* The theorems.                                                           *)
(***************************************************************************)

LEMMA NextKeeps == IInv /\ [Next]_vars => IInv'
<1> SUFFICES ASSUME IInv, [Next]_vars PROVE IInv'
  OBVIOUS
<1>1. CASE Next
  <2>1. PICK q \in Requests : Start(q) \/ Run(q) \/ Crash(q) \/ Finish(q)
    BY <1>1 DEF Next
  <2>2. CASE Start(q)
    BY <2>2, StartKeeps
  <2>3. CASE Run(q)
    BY <2>3, InsertTopupKeeps, GuardKeeps, LockGrantKeeps, MoveKeeps, InsertRowKeeps,
       DeliverKeeps, CommitKeeps, ReplayKeeps, CaughtKeeps DEF Run, DeadlockVictim
  <2>4. CASE Crash(q) \/ Finish(q)
    BY <2>4, IdleKeeps
  <2>5. QED
    BY <2>1, <2>2, <2>3, <2>4
<1>2. CASE UNCHANGED vars
  <2>1. UNCHANGED <<balance, statement, topup, owner, lock, pc, job, after, answer>>
    BY <1>2 DEF vars
  <2>2. TypeOK' /\ Cached' /\ Owned'
    BY <2>1 DEF IInv, TypeOK, Cached, Owned, C!LastAfter
  <2>3. ASSUME NEW p \in Requests PROVE JobOK(p)' /\ StepOK(p)' /\ LocksHold(p)'
    BY <2>1, BystanderKeeps DEF Tables
  <2>4. QED
    BY <2>2, <2>3 DEF IInv
<1>3. QED
  BY <1>1, <1>2

\* What a transaction has locked protects what it has computed, at every step
\* of every interleaving (module Wallet, IInv).
THEOREM LocksProtect == Spec => []IInv
<1>1. QED
  BY InitInv, NextKeeps, PTL DEF Spec

\* Every variable keeps its type.
THEOREM TypeCorrect == Spec => []TypeOK
<1>1. IInv => TypeOK
  BY DEF IInv
<1>2. QED
  BY <1>1, LocksProtect, PTL

\* The statements change only as WalletContract allows: balances chain, no
\* line is negative, a source moves money once, history is never rewritten.
THEOREM ImplementsContract == Spec => Contract
<1>1. Init => C!Init
  BY DEF Init
<1>2. IInv /\ [Next]_vars => [C!Next]_statement
  <2> SUFFICES ASSUME IInv, [Next]_vars, statement' # statement
               PROVE  C!Next
    OBVIOUS
  <2>1. PICK q \in Requests : Start(q) \/ Run(q) \/ Crash(q) \/ Finish(q)
    BY DEF Next, vars
  <2>2. Commit(q)
    <3>1. ~Start(q)
      <4>1. \A j, s : ~Begin(q, j, s)
        BY DEF Begin, Tables
      <4>2. \A j, a : ~Refuse(q, j, a)
        BY DEF Refuse, Tables
      <4>3. QED
        BY <4>1, <4>2 DEF Start, StartSubmit, StartReview, StartAdminMove,
           StartPurchase, StartRefund
    <3>2. \A a : ~Caught(q, a) /\ ~Fail(q, a)
      BY DEF Caught, Fail, RollBack, Tables
    <3>3. ~InsertTopup(q) /\ ~Deliver(q) /\ ~Replay(q) /\ ~Crash(q) /\ ~Finish(q)
      BY DEF InsertTopup, Deliver, Replay, Crash, Finish, Tables
    <3>4. ~Guard(q) /\ ~LockGrant(q)
      BY <3>2 DEF Guard, LockGrant, Tables
    <3>5. ~Move(q) /\ ~InsertRow(q) /\ ~DeadlockVictim(q)
      BY <3>2 DEF Move, InsertRow, DeadlockVictim, Tables
    <3>6. QED
      BY <2>1, <3>1, <3>3, <3>4, <3>5 DEF Run
  <2>3. job[q].op # "reject"
    BY <2>2 DEF Commit
  <2>4. /\ job[q].user \in Students /\ NewRow(q) \in C!Row
        /\ C!Post(job[q].user, NewRow(q))
    BY <2>2, <2>3, CommitPosts
  <2>5. /\ statement[job[q].user] \in Seq(C!Row)
        /\ statement'[job[q].user] = Append(statement[job[q].user], NewRow(q))
    BY <2>4 DEF C!Post, IInv, TypeOK
  <2>6. /\ statement'[job[q].user] # << >>
        /\ statement'[job[q].user][Len(statement'[job[q].user])] = NewRow(q)
    BY <2>4, <2>5
  <2>7. QED
    BY <2>4, <2>6 DEF C!Next
<1>3. QED
  BY <1>1, <1>2, LocksProtect, PTL DEF Spec, Contract, C!Spec

\* A reviewed request is never reviewed again: the second of two approvals
\* meets its guard behind the first one's lock.
THEOREM NeverReviewedTwice == Spec => ReviewedOnce
<1>1. IInv /\ [Next]_vars =>
        [\A t \in Topups : topup[t] \in {"approved", "rejected"} => topup'[t] = topup[t]]_vars
  <2> SUFFICES ASSUME IInv, Next, NEW t \in Topups, topup[t] \in {"approved", "rejected"}
               PROVE  topup'[t] = topup[t]
    OBVIOUS
  <2>1. PICK q \in Requests : Start(q) \/ Run(q) \/ Crash(q) \/ Finish(q)
    BY DEF Next
  <2>2. CASE Commit(q)
    <3>1. /\ JobOK(q) /\ LocksHold(q) /\ pc[q] = "commit" /\ TypeOK
      BY <2>2 DEF IInv, Commit
    <3>2. job[q].op \in {"approve", "reject"} =>
            job[q].source \in Topups /\ topup[job[q].source] = "pending"
      BY <3>1 DEF JobOK, LocksHold
    <3>3. QED
      BY <2>2, <3>1, <3>2 DEF Commit, TypeOK
  <2>3. CASE InsertTopup(q)
    BY <2>3 DEF InsertTopup, IInv, TypeOK
  <2>4. CASE UNCHANGED topup
    BY <2>4
  <2>5. CASE Start(q)
    <3>1. \A j, s : Begin(q, j, s) => UNCHANGED topup
      BY DEF Begin, Tables
    <3>2. \A j, a : Refuse(q, j, a) => UNCHANGED topup
      BY DEF Refuse, Tables
    <3>3. UNCHANGED topup
      BY <2>5, <3>1, <3>2 DEF Start, StartSubmit, StartReview, StartAdminMove,
         StartPurchase, StartRefund
    <3>4. QED
      BY <2>4, <3>3
  <2>6. CASE Run(q) /\ ~Commit(q) /\ ~InsertTopup(q)
    <3>1. \A a : Caught(q, a) \/ Fail(q, a) => UNCHANGED topup
      BY DEF Caught, Fail, RollBack, Tables
    <3>2. UNCHANGED topup
      BY <2>6, <3>1 DEF Run, Guard, LockGrant, Move, InsertRow, Deliver, Replay,
         DeadlockVictim, Tables
    <3>3. QED
      BY <2>4, <3>2
  <2>7. CASE Crash(q) \/ Finish(q)
    BY <2>4, <2>7 DEF Crash, Finish, Tables
  <2>8. QED
    BY <2>1, <2>2, <2>3, <2>5, <2>6, <2>7
<1>2. QED
  BY <1>1, LocksProtect, PTL DEF Spec, ReviewedOnce

\* A commit makes a request approved exactly when it credits it.
LEMMA CommitCredits ==
  ASSUME IInv, ApprovedIffCredited, NEW q \in Requests, Commit(q)
  PROVE  ApprovedIffCredited'
<1>1. /\ TypeOK /\ Owned /\ JobOK(q) /\ StepOK(q) /\ LocksHold(q)
      /\ pc[q] = "commit" /\ job[q] \in Job /\ UNCHANGED owner
  BY DEF IInv, TypeOK, Commit
<1>2. CASE job[q].op = "reject"
  <2>1. /\ job[q].source \in Topups /\ topup[job[q].source] = "pending"
        /\ statement' = statement
        /\ topup' = [topup EXCEPT ![job[q].source] = "rejected"]
    BY <1>1, <1>2 DEF JobOK, LocksHold, Commit
  <2>2. \A t \in Topups : (topup'[t] = "approved") <=> (topup[t] = "approved")
    BY <1>1, <2>1 DEF TypeOK
  <2>3. QED
    BY <1>1, <2>1, <2>2 DEF ApprovedIffCredited
<1>3. CASE job[q].op # "reject"
  <2> DEFINE u == job[q].user
             s == job[q].source
  <2>1. /\ u \in Students /\ NewRow(q) \in C!Row /\ NewRow(q).source = s
        /\ statement' = [statement EXCEPT ![u] = Append(@, NewRow(q))]
    BY <1>3, CommitPosts DEF Commit, NewRow
  <2>2. /\ s \in Topups <=> job[q].op = "approve"
        /\ s \in Topups => owner[s] = u /\ topup[s] = "pending"
        /\ topup' = IF s \in Topups THEN [topup EXCEPT ![s] = "approved"] ELSE topup
    BY <1>1, <1>3, ColumnsApart, NobodyIsNew
    DEF JobOK, StepOK, LocksHold, Commit, Sources, MoneyOps, CreditOps, DebitOps
  <2>3. /\ \A v \in Students \ {u} : statement'[v] = statement[v]
        /\ statement'[u] = Append(statement[u], NewRow(q))
        /\ \A v \in Students : statement[v] \in Seq(C!Row)
    BY <1>1, <2>1 DEF TypeOK
  <2> HIDE DEF u, s
  <2>4. /\ Len(statement'[u]) = Len(statement[u]) + 1 /\ Len(statement[u]) \in Nat
        /\ statement'[u][Len(statement[u]) + 1] = NewRow(q)
        /\ \A v \in Students : \A i \in 1 .. Len(statement[v]) :
             i \in 1 .. Len(statement'[v]) /\ statement'[v][i] = statement[v][i]
    BY <2>1, <2>3
  <2>5. ASSUME NEW t \in Topups, topup'[t] = "approved"
        PROVE  \E i \in 1 .. Len(statement'[owner[t]]) : statement'[owner[t]][i].source = t
    <3>1. CASE t = s
      <4>1. owner[t] = u /\ Len(statement[u]) + 1 \in 1 .. Len(statement'[u])
        BY <2>2, <2>4, <3>1
      <4>2. QED
        BY <2>1, <2>4, <3>1, <4>1
    <3>2. CASE t # s
      <4>1. topup[t] = "approved" /\ owner[t] \in Students
        BY <1>1, <2>2, <2>5, <3>2 DEF TypeOK, Owned
      <4>2. PICK i \in 1 .. Len(statement[owner[t]]) : statement[owner[t]][i].source = t
        BY <4>1 DEF ApprovedIffCredited
      <4>3. QED
        BY <2>4, <4>1, <4>2
    <3>3. QED
      BY <3>1, <3>2
  <2>6. ASSUME NEW v \in Students, NEW i \in 1 .. Len(statement'[v]),
               statement'[v][i].source \in Topups
        PROVE  /\ topup'[statement'[v][i].source] = "approved"
               /\ owner[statement'[v][i].source] = v
    <3>1. CASE i \in 1 .. Len(statement[v])
      <4>1. statement'[v][i] = statement[v][i]
        BY <2>4, <3>1
      <4>2. topup[statement[v][i].source] = "approved" /\ owner[statement[v][i].source] = v
        BY <2>6, <3>1, <4>1 DEF ApprovedIffCredited
      <4>3. QED
        BY <1>1, <2>2, <2>6, <4>1, <4>2 DEF TypeOK
    <3>2. CASE i \notin 1 .. Len(statement[v])
      <4>1. v = u /\ i = Len(statement[u]) + 1
        BY <2>3, <2>4, <3>2
      <4>2. statement'[v][i].source = s
        BY <2>1, <2>4, <4>1
      <4>3. QED
        BY <1>1, <2>2, <2>6, <4>1, <4>2 DEF TypeOK
    <3>3. QED
      BY <3>1, <3>2
  <2>7. QED
    BY <1>1, <2>5, <2>6 DEF ApprovedIffCredited
<1>4. QED
  BY <1>2, <1>3

\* A top-up is approved exactly when its owner's wallet has been credited
\* with it: no credit without an approval, no approval without its credit.
THEOREM ApprovalsPay == Spec => []ApprovedIffCredited
<1>1. Init => ApprovedIffCredited
  <2> SUFFICES ASSUME Init PROVE ApprovedIffCredited
    OBVIOUS
  <2>1. \A t \in Topups : topup[t] = "none"
    BY DEF Init
  <2>2. ASSUME NEW u \in Students, NEW i \in 1 .. Len(statement[u])
        PROVE  statement[u][i].source = Nobody
    <3>1. CASE Opening[u] = 0
      BY <2>2, <3>1 DEF Init, C!Init
    <3>2. CASE Opening[u] # 0
      <4>1. statement[u] = << C!OpeningRow(u) >> /\ i = 1
        BY <2>2, <3>2 DEF Init, C!Init
      <4>2. QED
        BY <4>1 DEF C!OpeningRow
    <3>3. QED
      BY <3>1, <3>2
  <2>3. QED
    BY <2>1, <2>2, NobodyIsNew DEF ApprovedIffCredited, Sources
<1>2. IInv /\ ApprovedIffCredited /\ [Next]_vars => ApprovedIffCredited'
  <2> SUFFICES ASSUME IInv, ApprovedIffCredited, [Next]_vars PROVE ApprovedIffCredited'
    OBVIOUS
  <2>1. CASE \E q \in Requests : Commit(q)
    BY <2>1, CommitCredits
  <2>2. CASE \E q \in Requests : InsertTopup(q)
    <3>1. PICK q \in Requests : InsertTopup(q)
      BY <2>2
    <3>2. PICK t \in Topups : /\ topup[t] = "none"
                              /\ topup' = [topup EXCEPT ![t] = "pending"]
                              /\ owner' = [owner EXCEPT ![t] = job[q].user]
      BY <3>1 DEF InsertTopup
    <3>3. TypeOK /\ statement' = statement
      BY <3>1 DEF IInv, InsertTopup
    <3>4. \A s \in Topups \ {t} : owner'[s] = owner[s] /\ topup'[s] = topup[s]
      BY <3>2, <3>3 DEF TypeOK
    <3>5. topup'[t] = "pending"
      BY <3>2, <3>3 DEF TypeOK
    <3>6. QED
      BY <3>2, <3>3, <3>4, <3>5 DEF ApprovedIffCredited
  <2>3. CASE UNCHANGED <<statement, topup, owner>>
    BY <2>3 DEF ApprovedIffCredited
  <2>4. QED
    <3>1. CASE UNCHANGED vars
      BY <3>1, <2>3 DEF vars
    <3>2. CASE Next
      <4>1. PICK q \in Requests : Start(q) \/ Run(q) \/ Crash(q) \/ Finish(q)
        BY <3>2 DEF Next
      <4>2. CASE Start(q)
        <5>1. \A j, s : Begin(q, j, s) => UNCHANGED <<statement, topup, owner>>
          BY DEF Begin, Tables
        <5>2. \A j, a : Refuse(q, j, a) => UNCHANGED <<statement, topup, owner>>
          BY DEF Refuse, Tables
        <5>3. UNCHANGED <<statement, topup, owner>>
          BY <4>2, <5>1, <5>2 DEF Start, StartSubmit, StartReview, StartAdminMove,
             StartPurchase, StartRefund
        <5>4. QED
          BY <2>3, <5>3
      <4>3. CASE Run(q) /\ ~Commit(q) /\ ~InsertTopup(q)
        <5>1. \A a : Caught(q, a) \/ Fail(q, a) => UNCHANGED <<statement, topup, owner>>
          BY DEF Caught, Fail, RollBack, Tables
        <5>2. UNCHANGED <<statement, topup, owner>>
          BY <4>3, <5>1 DEF Run, Guard, LockGrant, Move, InsertRow, Deliver, Replay,
             DeadlockVictim, Tables
        <5>3. QED
          BY <2>3, <5>2
      <4>4. CASE Crash(q) \/ Finish(q)
        BY <2>3, <4>4 DEF Crash, Finish, Tables
      <4>5. QED
        BY <2>1, <2>2, <4>1, <4>2, <4>3, <4>4
    <3>3. QED
      BY <3>1, <3>2
<1>3. QED
  BY <1>1, <1>2, LocksProtect, PTL DEF Spec

\* What a caller was told, and nobody is told anything before the end.
TrueTo(q) ==
  /\ answer[q] \in {"done", "replayed"} /\ job[q].op \in {"credit", "debit", "purchase", "approve"}
     => \E i \in 1 .. Len(statement[job[q].user]) :
          statement[job[q].user][i].source = job[q].source
  /\ answer[q] = "done" /\ job[q].op = "reject" => topup[job[q].source] = "rejected"

AnswersInv == \A q \in Requests : TrueTo(q) /\ (pc[q] # "answered" => answer[q] = "none")

\* The lines of the statements and the rejections that an answer relies on stay.
Lasting ==
  /\ \A u \in Students : \A i \in 1 .. Len(statement[u]) :
       i \in 1 .. Len(statement'[u]) /\ statement'[u][i] = statement[u][i]
  /\ \A t \in Topups : topup[t] = "rejected" => topup'[t] = "rejected"

LEMMA TruthLasts ==
  ASSUME IInv, Lasting, NEW q \in Requests, TrueTo(q), answer'[q] = answer[q], job'[q] = job[q]
  PROVE  TrueTo(q)'
<1>1. JobOK(q)
  BY DEF IInv
<1>2. job[q].op \in {"credit", "debit", "purchase", "approve"} => job[q].user \in Students
  BY <1>1 DEF JobOK, Ops, CreditOps, DebitOps
<1>3. job[q].op = "reject" => job[q].source \in Topups
  BY <1>1 DEF JobOK
<1>. QED BY <1>2, <1>3 DEF TrueTo, Lasting

\* The others are told nothing new by a step of q.
LEMMA AnswersKept ==
  ASSUME IInv, AnswersInv, Lasting, NEW q \in Requests,
         \A o \in Requests \ {q} : pc'[o] = pc[o] /\ job'[o] = job[o] /\ answer'[o] = answer[o],
         TrueTo(q)', pc'[q] # "answered" => answer'[q] = "none"
  PROVE  AnswersInv'
BY TruthLasts DEF AnswersInv

\* A step that answers nothing, an error, or with a row that is there.
LEMMA QuietAnswer ==
  ASSUME IInv, AnswersInv, NEW q \in Requests, UNCHANGED <<statement, topup>>,
         \A o \in Requests \ {q} : pc'[o] = pc[o] /\ job'[o] = job[o] /\ answer'[o] = answer[o],
         pc'[q] # "answered" => answer'[q] = "none",
         answer'[q] # "done",
         answer'[q] = "replayed" =>
           \E i \in 1 .. Len(statement[job'[q].user]) :
             statement[job'[q].user][i].source = job'[q].source
  PROVE  AnswersInv'
<1>1. Lasting
  BY DEF Lasting
<1>2. TrueTo(q)'
  BY DEF TrueTo
<1>. QED BY <1>1, <1>2, AnswersKept

LEMMA ReplayAnswerIsTrue ==
  ASSUME NEW j, ReplayAnswer(j) = "replayed"
  PROVE  \E i \in 1 .. Len(statement[j.user]) : statement[j.user][i].source = j.source
BY DEF ReplayAnswer

LEMMA StartAnswers ==
  ASSUME IInv, AnswersInv, NEW q \in Requests, Start(q)
  PROVE  AnswersInv'
<1>1. TypeOK
  BY DEF IInv
<1>2. ASSUME NEW j, NEW s, Begin(q, j, s) PROVE AnswersInv'
  <2>1. /\ UNCHANGED <<statement, topup, answer>> /\ pc[q] # "answered"
        /\ \A o \in Requests \ {q} : pc'[o] = pc[o] /\ job'[o] = job[o]
    BY <1>1, <1>2 DEF Begin, Tables, TypeOK
  <2>. QED BY <2>1, QuietAnswer DEF AnswersInv
<1>3. ASSUME NEW j, NEW a, Refuse(q, j, a), a # "done", a = "replayed" => a = ReplayAnswer(j)
      PROVE  AnswersInv'
  <2>1. /\ UNCHANGED <<statement, topup>> /\ pc'[q] = "answered" /\ job'[q] = j /\ answer'[q] = a
        /\ \A o \in Requests \ {q} : pc'[o] = pc[o] /\ job'[o] = job[o] /\ answer'[o] = answer[o]
    BY <1>1, <1>3 DEF Refuse, Tables, TypeOK
  <2>2. a = "replayed" =>
          \E i \in 1 .. Len(statement[job'[q].user]) :
            statement[job'[q].user][i].source = job'[q].source
    BY <1>3, <2>1, ReplayAnswerIsTrue
  <2>. QED BY <1>3, <2>1, <2>2, QuietAnswer
<1>4. \A j : ReplayAnswer(j) # "done"
  BY DEF ReplayAnswer
<1>5. ASSUME NEW u \in Students, StartSubmit(q, u) PROVE AnswersInv'
  BY <1>2, <1>3, <1>5 DEF StartSubmit
<1>6. ASSUME NEW t, NEW op, NEW c, StartReview(q, t, op, c) PROVE AnswersInv'
  BY <1>2, <1>3, <1>6 DEF StartReview
<1>7. ASSUME NEW u, NEW op, NEW c, NEW k, StartAdminMove(q, u, op, c, k) PROVE AnswersInv'
  BY <1>2, <1>7 DEF StartAdminMove
<1>8. ASSUME NEW u, NEW c, NEW k, StartPurchase(q, u, c, k) PROVE AnswersInv'
  BY <1>2, <1>3, <1>4, <1>8 DEF StartPurchase
<1>9. ASSUME NEW u, NEW c, NEW k, StartRefund(q, u, c, k) PROVE AnswersInv'
  BY <1>2, <1>3, <1>9 DEF StartRefund
<1>. QED BY <1>5, <1>6, <1>7, <1>8, <1>9 DEF Start

\* What is done is in the books when the caller hears of it.
LEMMA CommitAnswers ==
  ASSUME IInv, AnswersInv, NEW q \in Requests, Commit(q)
  PROVE  AnswersInv'
<1>1. /\ TypeOK /\ JobOK(q) /\ StepOK(q) /\ LocksHold(q) /\ pc[q] = "commit"
      /\ UNCHANGED job
  BY DEF IInv, Commit
<1>2. /\ pc'[q] = "answered"
      /\ \A o \in Requests \ {q} : pc'[o] = pc[o] /\ job'[o] = job[o] /\ answer'[o] = answer[o]
  BY <1>1 DEF Commit, TypeOK
<1>3. CASE job[q].op = "reject"
  <2>1. PICK s \in Topups : s = job[q].source /\ topup[s] = "pending"
    BY <1>1, <1>3 DEF JobOK, LocksHold
  <2>2. statement' = statement /\ topup' = [topup EXCEPT ![s] = "rejected"]
    BY <1>3, <2>1 DEF Commit
  <2>3. Lasting /\ topup'[s] = "rejected"
    BY <1>1, <2>1, <2>2 DEF Lasting, TypeOK
  <2>4. TrueTo(q)'
    BY <1>1, <1>3, <2>1, <2>3 DEF TrueTo
  <2>. QED BY <1>2, <2>3, <2>4, AnswersKept
<1>4. CASE job[q].op # "reject"
  <2>1. PICK u \in Students : u = job[q].user
    BY <1>4, CommitPosts
  <2>2. /\ NewRow(q) \in C!Row /\ NewRow(q).source = job[q].source
        /\ statement' = [statement EXCEPT ![u] = Append(@, NewRow(q))]
    BY <1>4, <2>1, CommitPosts DEF Commit, NewRow
  <2>3. PICK r \in C!Row : r = NewRow(q)
    BY <2>2
  <2>4. /\ \A v \in Students \ {u} : statement'[v] = statement[v]
        /\ statement'[u] = Append(statement[u], r)
        /\ \A v \in Students : statement[v] \in Seq(C!Row)
    BY <1>1, <2>2, <2>3 DEF TypeOK
  <2>5. /\ \A v \in Students : \A i \in 1 .. Len(statement[v]) :
             i \in 1 .. Len(statement'[v]) /\ statement'[v][i] = statement[v][i]
        /\ \E i \in 1 .. Len(statement'[u]) : statement'[u][i] = r
    <3>1. /\ Len(statement'[u]) = Len(statement[u]) + 1 /\ Len(statement[u]) \in Nat
          /\ statement'[u][Len(statement[u]) + 1] = r
          /\ \A i \in 1 .. Len(statement[u]) : statement'[u][i] = statement[u][i]
      BY <2>4
    <3>. QED BY <2>4, <3>1
  <2>6. \A t \in Topups : topup[t] = "rejected" => topup'[t] = "rejected"
    <3>1. CASE job[q].op = "approve"
      <4>1. job[q].source \in Topups /\ topup[job[q].source] = "pending"
        BY <1>1, <3>1 DEF JobOK, LocksHold
      <4>2. topup' = [topup EXCEPT ![job[q].source] = "approved"]
        BY <3>1 DEF Commit
      <4>. QED BY <1>1, <4>1, <4>2 DEF TypeOK
    <3>2. CASE job[q].op # "approve"
      BY <1>4, <3>2 DEF Commit
    <3>. QED BY <3>1, <3>2
  <2>7. Lasting
    BY <2>5, <2>6 DEF Lasting
  <2>8. TrueTo(q)'
    BY <1>1, <1>4, <2>1, <2>2, <2>3, <2>5 DEF TrueTo
  <2>. QED BY <1>2, <2>7, <2>8, AnswersKept
<1>. QED BY <1>3, <1>4

LEMMA RunAnswers ==
  ASSUME IInv, AnswersInv, NEW q \in Requests, Run(q)
  PROVE  AnswersInv'
<1>1. TypeOK /\ JobOK(q) /\ StepOK(q)
  BY DEF IInv
<1>2. ASSUME NEW s \in Steps, Goto(q, s), UNCHANGED Tables, pc[q] \in Steps PROVE AnswersInv'
  <2>1. /\ UNCHANGED <<statement, topup, answer>> /\ pc[q] # "answered"
        /\ \A o \in Requests \ {q} : pc'[o] = pc[o] /\ job'[o] = job[o]
    BY <1>1, <1>2 DEF Goto, Tables, TypeOK, Steps
  <2>. QED BY <2>1, QuietAnswer DEF AnswersInv
<1>3. ASSUME NEW a \in {"reviewed", "insufficient", "error"}, Caught(q, a) \/ Fail(q, a),
             pc[q] # "answered"
      PROVE  AnswersInv'
  <2>1. CASE RollBack(q, "replay") /\ UNCHANGED answer
    <3>1. /\ UNCHANGED <<statement, topup, answer, job>>
          /\ \A o \in Requests \ {q} : pc'[o] = pc[o]
      BY <1>1, <2>1 DEF RollBack, Tables, TypeOK
    <3>. QED BY <1>3, <3>1, QuietAnswer DEF AnswersInv
  <2>2. CASE Fail(q, a)
    <3>1. /\ UNCHANGED <<statement, topup, job>> /\ answer'[q] = a /\ pc'[q] = "answered"
          /\ \A o \in Requests \ {q} : pc'[o] = pc[o] /\ answer'[o] = answer[o]
      BY <1>1, <2>2 DEF Fail, RollBack, Tables, TypeOK
    <3>. QED BY <3>1, QuietAnswer
  <2>. QED BY <1>3, <2>1, <2>2 DEF Caught
<1>4. CASE InsertTopup(q)
  <2>1. PICK t \in Topups : topup[t] = "none" /\ topup' = [topup EXCEPT ![t] = "pending"]
    BY <1>4 DEF InsertTopup
  <2>2. /\ UNCHANGED <<statement, job>> /\ pc'[q] = "answered" /\ job[q].op = "submit"
        /\ \A o \in Requests \ {q} : pc'[o] = pc[o] /\ answer'[o] = answer[o]
    BY <1>1, <1>4 DEF InsertTopup, TypeOK, StepOK
  <2>3. Lasting
    BY <1>1, <2>1, <2>2 DEF Lasting, TypeOK
  <2>4. TrueTo(q)'
    BY <2>2 DEF TrueTo
  <2>. QED BY <2>2, <2>3, <2>4, AnswersKept
<1>5. CASE Replay(q)
  <2>1. PICK a : a = IF C!Used(job[q].source) THEN ReplayAnswer(job[q]) ELSE "failed"
    OBVIOUS
  <2>2. /\ UNCHANGED <<statement, topup, job>> /\ pc'[q] = "answered" /\ answer'[q] = a
        /\ \A o \in Requests \ {q} : pc'[o] = pc[o] /\ answer'[o] = answer[o]
    BY <1>1, <1>5, <2>1 DEF Replay, Tables, TypeOK
  <2>3. a # "done" /\ (a = "replayed" => ReplayAnswer(job[q]) = "replayed")
    BY <2>1 DEF ReplayAnswer
  <2>4. a = "replayed" =>
          \E i \in 1 .. Len(statement[job'[q].user]) :
            statement[job'[q].user][i].source = job'[q].source
    BY <2>2, <2>3, ReplayAnswerIsTrue
  <2>. QED BY <2>2, <2>3, <2>4, QuietAnswer
<1>6. CASE Guard(q)
  <2>1. Fail(q, "reviewed") \/ (UNCHANGED Tables /\ \E s \in Steps : Goto(q, s))
    BY <1>6 DEF Guard, Steps
  <2>. QED BY <1>2, <1>3, <1>6, <2>1 DEF Guard, Steps
<1>7. CASE LockGrant(q) \/ Deliver(q)
  <2>1. UNCHANGED Tables /\ (\E s \in Steps : Goto(q, s)) /\ pc[q] \in Steps
    BY <1>7 DEF LockGrant, Deliver, Steps
  <2>. QED BY <1>2, <2>1
<1>8. CASE Move(q)
  <2>1. Caught(q, "insufficient") \/ (UNCHANGED Tables /\ \E s \in Steps : Goto(q, s))
    BY <1>8 DEF Move, Steps
  <2>. QED BY <1>2, <1>3, <1>8, <2>1 DEF Move, Steps
<1>9. CASE InsertRow(q)
  <2>1. Caught(q, "reviewed") \/ (UNCHANGED Tables /\ \E s \in Steps : Goto(q, s))
    BY <1>9 DEF InsertRow, Steps
  <2>. QED BY <1>2, <1>3, <1>9, <2>1 DEF InsertRow, Steps
<1>10. CASE DeadlockVictim(q)
  <2>1. pc[q] # "answered"
    BY <1>10 DEF DeadlockVictim, WaitsFor, Wants
  <2>. QED BY <1>3, <1>10, <2>1 DEF DeadlockVictim
<1>. QED BY <1>4, <1>5, <1>6, <1>7, <1>8, <1>9, <1>10, CommitAnswers DEF Run

\* Nobody is told that money moved under his key, or that a request was
\* reviewed as asked, when it is not so: at the moment of the answer or ever after.
THEOREM NobodyIsMisled == Spec => []AnswersAreTrue
<1>1. Init => AnswersInv
  BY DEF Init, AnswersInv, TrueTo
<1>2. IInv /\ AnswersInv /\ [Next]_vars => AnswersInv'
  <2> SUFFICES ASSUME IInv, AnswersInv, [Next]_vars PROVE AnswersInv'
    OBVIOUS
  <2>1. CASE UNCHANGED vars
    BY <2>1 DEF vars, AnswersInv, TrueTo
  <2>2. ASSUME NEW q \in Requests, Start(q) PROVE AnswersInv'
    BY <2>2, StartAnswers
  <2>3. ASSUME NEW q \in Requests, Run(q) PROVE AnswersInv'
    BY <2>3, RunAnswers
  <2>4. ASSUME NEW q \in Requests, Crash(q) \/ Finish(q) PROVE AnswersInv'
    <3>1. /\ UNCHANGED <<statement, topup>>
          /\ \A o \in Requests \ {q} : pc'[o] = pc[o] /\ job'[o] = job[o] /\ answer'[o] = answer[o]
      BY <2>4 DEF Crash, Finish, Tables, IInv, TypeOK
    <3>2. answer'[q] = "none"
      BY <2>4 DEF Crash, Finish, IInv, TypeOK, AnswersInv, Steps
    <3>. QED BY <3>1, <3>2, QuietAnswer
  <2>. QED BY <2>1, <2>2, <2>3, <2>4 DEF Next
<1>3. AnswersInv => AnswersAreTrue
  BY DEF AnswersInv, TrueTo, AnswersAreTrue
<1>. QED BY <1>1, <1>2, <1>3, LocksProtect, PTL DEF Spec

-----------------------------------------------------------------------------
(* Sums.  The sum of a finite set is a fold that takes its elements in an  *)
(* order of its own; what is shown is that the order does not matter.      *)

\* g holds the sum of c over every subset of S, as the fold makes it.
Sums(g, c, S) ==
  g = [x \in SUBSET S |-> IF x = {} THEN 0
                          ELSE c[CHOOSE y \in x : TRUE] + g[x \ {CHOOSE y \in x : TRUE}]]

\* Of some sets of elements of a finite set, one contains no other.
LEMMA LeastSubset ==
  ASSUME NEW S, IsFiniteSet(S), NEW T \in SUBSET SUBSET S, T # {}
  PROVE  \E x \in T : \A y \in T : y \subseteq x => y = x
<1>1. T \subseteq FiniteSubsetsOf(S)
  BY FS_Subset DEF FiniteSubsetsOf
<1>2. PICK x \in T : \A y \in T : ~(<<y, x>> \in StrictSubsetOrdering(S))
  BY <1>1, FS_StrictSubsetOrderingWellFounded, WFMin
<1>3. \A y \in T : y \subseteq x => y = x
  BY <1>2 DEF StrictSubsetOrdering
<1>. QED BY <1>3

LEMMA SumsStep ==
  ASSUME NEW S, NEW c, NEW g, Sums(g, c, S), NEW x \in SUBSET S
  PROVE  /\ x = {} => g[x] = 0
         /\ x # {} => \E y \in x : y = (CHOOSE z \in x : TRUE) /\ g[x] = c[y] + g[x \ {y}]
<1>1. x # {} => (CHOOSE z \in x : TRUE) \in x
  OBVIOUS
<1>2. g[x] = IF x = {} THEN 0 ELSE c[CHOOSE y \in x : TRUE] + g[x \ {CHOOSE y \in x : TRUE}]
  BY DEF Sums
<1>. QED BY <1>1, <1>2

\* Sums of the same numbers are the same.
Alike(c, d, S) == \A y \in S : c[y] = d[y]

LEMMA SumsAgree ==
  ASSUME NEW S, IsFiniteSet(S), NEW T, S \subseteq T, NEW c, NEW d, Alike(c, d, S),
         NEW g, NEW h, Sums(g, c, S), Sums(h, d, T)
  PROVE  \A x \in SUBSET S : g[x] = h[x]
<1> DEFINE Bad == {x \in SUBSET S : g[x] # h[x]}
<1>1. SUFFICES ASSUME Bad # {} PROVE FALSE
  OBVIOUS
<1>2. PICK x \in Bad : \A y \in Bad : y \subseteq x => y = x
  <2>1. Bad \in SUBSET SUBSET S
    OBVIOUS
  <2> HIDE DEF Bad
  <2>. QED BY <1>1, <2>1, LeastSubset
<1>3. x \in SUBSET S /\ x \in SUBSET T /\ g[x] # h[x]
  OBVIOUS
<1>4. x # {}
  BY <1>3, SumsStep
<1>5. PICK y \in x : y = (CHOOSE z \in x : TRUE) /\ g[x] = c[y] + g[x \ {y}]
  BY <1>3, <1>4, SumsStep
<1>6. h[x] = d[y] + h[x \ {y}]
  <2>1. h[x] = IF x = {} THEN 0
               ELSE d[CHOOSE z \in x : TRUE] + h[x \ {CHOOSE z \in x : TRUE}]
    BY <1>3 DEF Sums
  <2>. QED BY <1>4, <1>5, <2>1
<1>7. x \ {y} \in SUBSET S /\ x \ {y} \notin Bad
  BY <1>2, <1>3, <1>5
<1>8. g[x \ {y}] = h[x \ {y}]
  BY <1>7
<1>9. c[y] = d[y]
  BY <1>3, <1>5 DEF Alike
<1> HIDE DEF Bad
<1>. QED BY <1>3, <1>5, <1>6, <1>8, <1>9

LEMMA SumsAreIntegers ==
  ASSUME NEW S, IsFiniteSet(S), NEW c, \A y \in S : c[y] \in Int, NEW g, Sums(g, c, S)
  PROVE  \A x \in SUBSET S : g[x] \in Int
<1> DEFINE Bad == {x \in SUBSET S : g[x] \notin Int}
<1>1. SUFFICES ASSUME Bad # {} PROVE FALSE
  OBVIOUS
<1>2. PICK x \in Bad : \A y \in Bad : y \subseteq x => y = x
  <2>1. Bad \in SUBSET SUBSET S
    OBVIOUS
  <2> HIDE DEF Bad
  <2>. QED BY <1>1, <2>1, LeastSubset
<1>3. x \in SUBSET S /\ x # {}
  BY SumsStep
<1>4. PICK y \in x : g[x] = c[y] + g[x \ {y}]
  BY <1>3, SumsStep
<1>5. x \ {y} \in SUBSET S /\ x \ {y} \notin Bad
  BY <1>2, <1>3, <1>4
<1>6. g[x \ {y}] \in Int /\ c[y] \in Int
  BY <1>3, <1>5
<1>. QED BY <1>4, <1>6

\* There are sums: the one of a set is made of those of its subsets.
LEMMA SumsExist ==
  ASSUME NEW S, IsFiniteSet(S), NEW c PROVE \E g : Sums(g, c, S)
<1> DEFINE Bad == {x \in SUBSET S : ~\E g : Sums(g, c, x)}
<1>1. SUFFICES ASSUME Bad # {} PROVE FALSE
  BY Zenon
<1>2. PICK x \in Bad : \A y \in Bad : y \subseteq x => y = x
  <2>1. Bad \in SUBSET SUBSET S
    OBVIOUS
  <2> HIDE DEF Bad
  <2>. QED BY <1>1, <2>1, LeastSubset
<1> DEFINE F(z) == CHOOSE g : Sums(g, c, z)
           Pick(z) == CHOOSE y \in z : TRUE
           G == [z \in SUBSET x |->
                   IF z = {} THEN 0 ELSE c[Pick(z)] + F(z \ {Pick(z)})[z \ {Pick(z)}]]
<1>3. x \in SUBSET S /\ ~\E g : Sums(g, c, x)
  OBVIOUS
<1>4. \A z : z \subseteq x /\ z # x => Sums(F(z), c, z)
  <2> SUFFICES ASSUME NEW z, z \subseteq x, z # x PROVE Sums(F(z), c, z)
    OBVIOUS
  <2>1. z \in SUBSET S /\ z \notin Bad
    BY <1>2, <1>3
  <2>2. \E g : Sums(g, c, z)
    BY <2>1
  <2>. QED BY <2>2, Zenon
<1> HIDE DEF Bad, F, Pick
<1>5. ASSUME NEW z \in SUBSET x, z # x PROVE G[z] = F(z)[z]
  <2>1. Sums(F(z), c, z) /\ IsFiniteSet(z)
    BY <1>3, <1>4, <1>5, FS_Subset
  <2>2. CASE z = {}
    <3>1. F(z)[z] = 0 
      BY <2>1, <2>2, SumsStep
    <3>. QED BY <2>2, <3>1
  <2>3. CASE z # {}
    <3>1. Pick(z) \in z
      BY <2>3 DEF Pick
    <3>2. F(z)[z] = c[Pick(z)] + F(z)[z \ {Pick(z)}]
      <4>1. z \in SUBSET z
        OBVIOUS
      <4>2. F(z)[z] = IF z = {} THEN 0
                      ELSE c[CHOOSE y \in z : TRUE] + F(z)[z \ {CHOOSE y \in z : TRUE}]
        BY <2>1, <4>1 DEF Sums
      <4>. QED BY <2>3, <4>2 DEF Pick
    <3> DEFINE w == z \ {Pick(z)}
    <3>3. w \subseteq x /\ w # x /\ w \subseteq z /\ w \in SUBSET w
      BY <3>1
    <3>4. Sums(F(w), c, w) /\ IsFiniteSet(w)
      BY <1>3, <1>4, <3>3, FS_Subset
    <3> HIDE DEF w
    <3>5. F(w)[w] = F(z)[w]
      <4>1. Alike(c, c, w)
        BY DEF Alike
      <4>. QED BY <2>1, <3>3, <3>4, <4>1, SumsAgree
    <3>. QED BY <2>3, <3>2, <3>5 DEF w
  <2>. QED BY <2>2, <2>3
<1>6. ASSUME NEW z \in SUBSET x, z # {}
      PROVE  Pick(z) \in z /\ G[z \ {Pick(z)}] = F(z \ {Pick(z)})[z \ {Pick(z)}]
  <2>1. Pick(z) \in z
    BY <1>6 DEF Pick
  <2>2. z \ {Pick(z)} \in SUBSET x /\ z \ {Pick(z)} # x
    BY <2>1
  <2> HIDE DEF G
  <2>. QED BY <1>5, <2>1, <2>2
<1>7. G = [z \in SUBSET x |-> IF z = {} THEN 0 ELSE c[Pick(z)] + G[z \ {Pick(z)}]]
  BY <1>6
<1>8. Sums(G, c, x)
  <2> HIDE DEF G
  <2>. QED BY <1>7 DEF Sums, Pick
<1>. QED BY <1>3, <1>8

\* Any element may be taken first.
LEMMA SumsSplit ==
  ASSUME NEW S, IsFiniteSet(S), NEW c, \A y \in S : c[y] \in Int, NEW g, Sums(g, c, S)
  PROVE  \A x \in SUBSET S : \A y \in x : g[x] = c[y] + g[x \ {y}]
<1> DEFINE Bad == {x \in SUBSET S : \E y \in x : g[x] # c[y] + g[x \ {y}]}
<1>1. SUFFICES ASSUME Bad # {} PROVE FALSE
  OBVIOUS
<1>2. PICK x \in Bad : \A y \in Bad : y \subseteq x => y = x
  <2>1. Bad \in SUBSET SUBSET S
    OBVIOUS
  <2> HIDE DEF Bad
  <2>. QED BY <1>1, <2>1, LeastSubset
<1>3. PICK y \in x : g[x] # c[y] + g[x \ {y}]
  OBVIOUS
<1>4. x \in SUBSET S /\ x # {}
  BY <1>3
<1>5. PICK w \in x : g[x] = c[w] + g[x \ {w}]
  BY <1>4, SumsStep
<1>6. w # y
  BY <1>3, <1>5
<1>7. x \ {w} \notin Bad /\ x \ {y} \notin Bad /\ x \ {w} \in SUBSET S /\ x \ {y} \in SUBSET S
  BY <1>2, <1>4
<1>8. y \in x \ {w} /\ w \in x \ {y} /\ (x \ {w}) \ {y} = (x \ {y}) \ {w}
  BY <1>6
<1>9. g[x \ {w}] = c[y] + g[(x \ {w}) \ {y}] /\ g[x \ {y}] = c[w] + g[(x \ {w}) \ {y}]
  BY <1>7, <1>8
<1>10. c[w] \in Int /\ c[y] \in Int /\ g[(x \ {w}) \ {y}] \in Int
  BY <1>4, SumsAreIntegers
<1> HIDE DEF Bad
<1>. QED BY <1>3, <1>5, <1>9, <1>10

-----------------------------------------------------------------------------
(* The ledger of a student adds up to the balance. *)

Cents(rows) == [i \in 1 .. Len(rows) |-> rows[i].cents]
Total(rows) == MapThenSumSet(LAMBDA i : rows[i].cents, 1 .. Len(rows))

LEMMA TotalIsASum ==
  ASSUME NEW rows \in Seq(C!Row)
  PROVE  \E g : /\ Sums(g, Cents(rows), 1 .. Len(rows))
                /\ Total(rows) = g[1 .. Len(rows)]
<1> DEFINE S == 1 .. Len(rows)
           G(h) == [x \in SUBSET S |->
                      IF x = {} THEN 0
                      ELSE rows[CHOOSE y \in x : TRUE].cents + h[x \ {CHOOSE y \in x : TRUE}]]
           h0 == CHOOSE h : h = G(h)
<1>1. Total(rows) = h0[S]
  BY Zenon DEF Total, MapThenSumSet, MapThenFoldSet
<1>2. \A h : h = G(h) <=> Sums(h, Cents(rows), S)
  <2> SUFFICES ASSUME NEW h PROVE h = G(h) <=> Sums(h, Cents(rows), S)
    OBVIOUS
  <2> DEFINE H == [x \in SUBSET S |-> IF x = {} THEN 0
                    ELSE Cents(rows)[CHOOSE y \in x : TRUE] + h[x \ {CHOOSE y \in x : TRUE}]]
  <2>1. ASSUME NEW x \in SUBSET S, x # {}
        PROVE  Cents(rows)[CHOOSE y \in x : TRUE] = rows[CHOOSE y \in x : TRUE].cents
    <3>1. (CHOOSE y \in x : TRUE) \in S
      BY <2>1
    <3>. QED BY <3>1 DEF Cents
  <2>2. G(h) = H
    BY <2>1
  <2>3. Sums(h, Cents(rows), S) <=> h = H
    BY Zenon DEF Sums
  <2> HIDE DEF G, H
  <2>. QED BY <2>2, <2>3
<1>3. IsFiniteSet(S)
  BY FS_Interval
<1> HIDE DEF G
<1>4. \E h : h = G(h)
  <2>1. PICK h : Sums(h, Cents(rows), S)
    BY <1>3, SumsExist
  <2>. QED BY <1>2, <2>1
<1>5. h0 = G(h0)
  BY <1>4
<1>. QED BY <1>1, <1>2, <1>5

LEMMA TotalOfNone == Total(<< >>) = 0
<1>1. << >> \in Seq(C!Row) /\ 1 .. Len(<< >>) = {}
  OBVIOUS
<1>2. PICK g : Sums(g, Cents(<< >>), {}) /\ Total(<< >>) = g[{}]
  BY <1>1, TotalIsASum
<1>. QED BY <1>2 DEF Sums

LEMMA TotalOfAppend ==
  ASSUME NEW rows \in Seq(C!Row), NEW r \in C!Row
  PROVE  Total(rows) \in Int /\ Total(Append(rows, r)) = Total(rows) + r.cents
<1> DEFINE S == 1 .. Len(rows)
           more == Append(rows, r)
           n == Len(rows) + 1
           T == 1 .. Len(more)
<1>1. /\ more \in Seq(C!Row) /\ Len(more) = n /\ n \in Nat /\ T = S \cup {n} /\ n \notin S
      /\ more[n] = r /\ \A i \in S : more[i] = rows[i]
  OBVIOUS
<1>2. IsFiniteSet(S) /\ IsFiniteSet(T)
  BY FS_Interval
<1>3. PICK g : Sums(g, Cents(rows), S) /\ Total(rows) = g[S]
  BY TotalIsASum
<1>4. PICK h : Sums(h, Cents(more), T) /\ Total(more) = h[T]
  BY <1>1, TotalIsASum
<1>5. /\ \A i \in S : Cents(rows)[i] \in Int
      /\ \A i \in S : Cents(rows)[i] = Cents(more)[i]
      /\ Cents(more)[n] = r.cents
  <2>1. \A i \in S : rows[i] \in C!Row
    OBVIOUS
  <2>. QED BY <1>1, <2>1 DEF Cents, C!Row
<1>6. \A i \in T : Cents(more)[i] \in Int
  BY <1>1, <1>5 DEF C!Row
<1> HIDE DEF S, more, n, T
<1>7. g[S] \in Int
  BY <1>2, <1>3, <1>5, SumsAreIntegers
<1>8. S \subseteq T /\ n \in T /\ T \ {n} = S /\ T \in SUBSET T /\ S \in SUBSET S
  BY <1>1
<1>9. h[T] = Cents(more)[n] + h[T \ {n}]
  BY <1>2, <1>4, <1>6, <1>8, SumsSplit
<1>10. g[S] = h[S]
  <2> DEFINE c == Cents(rows)
             d == Cents(more)
  <2>1. /\ IsFiniteSet(S) /\ S \subseteq T /\ Alike(c, d, S)
        /\ Sums(g, c, S) /\ Sums(h, d, T)
    BY <1>2, <1>3, <1>4, <1>5, <1>8 DEF Alike
  <2> HIDE DEF c, d
  <2>2. \A x \in SUBSET S : g[x] = h[x]
    BY <2>1, SumsAgree
  <2>. QED BY <1>8, <2>2
<1>11. r.cents \in Int
  BY DEF C!Row
<1>12. Total(more) = Total(rows) + r.cents
  <2>1. Total(more) = r.cents + g[S]
    BY <1>4, <1>5, <1>8, <1>9, <1>10
  <2>. QED BY <1>3, <1>7, <1>11, <2>1
<1>. QED BY <1>3, <1>7, <1>12 DEF more

Adds == \A u \in Students : balance[u] = Total(statement[u])

LEMMA AddsUp == Adds => BalanceIsLedger
  BY DEF Adds, BalanceIsLedger, Total

\* The sum of the rows and the balance a row states are the same, and a commit
\* moves both by the amount of its row.
LEMMA CommitAdds ==
  ASSUME IInv, Adds, NEW q \in Requests, Commit(q) PROVE Adds'
<1>1. TypeOK /\ TypeOK'
  BY CommitKeeps DEF IInv
<1>2. CASE job[q].op = "reject"
  BY <1>2 DEF Commit, Adds
<1>3. CASE job[q].op # "reject"
  <2> DEFINE u == job[q].user
  <2>1. /\ u \in Students /\ NewRow(q) \in C!Row
        /\ balance' = [balance EXCEPT ![u] = after[q]]
        /\ statement' = [statement EXCEPT ![u] = Append(@, NewRow(q))]
    BY <1>3, CommitPosts DEF Commit
  <2>2. after[q] = balance[u] + NewRow(q).cents
    <3>1. pc[q] = "commit" /\ LocksHold(q) /\ job[q].op \in MoneyOps
      BY <1>3 DEF IInv, Commit, StepOK
    <3>. QED BY <1>3, <3>1 DEF LocksHold, NewRow
  <2> HIDE DEF u
  <2>3. ASSUME NEW v \in Students PROVE balance'[v] = Total(statement'[v])
    <3>1. balance[v] = Total(statement[v])
      BY DEF Adds
    <3>2. CASE v = u
      <4>1. statement[u] \in Seq(C!Row) /\ statement'[u] = Append(statement[u], NewRow(q))
            /\ balance'[u] = after[q]
        BY <1>1, <2>1 DEF TypeOK
      <4>2. Total(statement'[u]) = Total(statement[u]) + NewRow(q).cents
        BY <2>1, <4>1, TotalOfAppend
      <4>. QED BY <2>2, <3>1, <3>2, <4>1, <4>2
    <3>3. CASE v # u
      BY <1>1, <2>1, <3>1, <3>3 DEF TypeOK
    <3>. QED BY <3>2, <3>3
  <2>. QED BY <2>3 DEF Adds
<1>. QED BY <1>2, <1>3

LEMMA OpeningAdds == Init => Adds
<1> SUFFICES ASSUME Init, NEW u \in Students PROVE balance[u] = Total(statement[u])
  BY DEF Adds
<1>1. balance[u] = Opening[u] /\ Opening[u] \in Nat
  BY OpeningType DEF Init
<1>2. CASE Opening[u] = 0
  <2>1. statement[u] = << >>
    BY <1>2 DEF Init, C!Init
  <2>. QED BY <1>1, <1>2, <2>1, TotalOfNone
<1>3. CASE Opening[u] # 0
  <2>1. statement[u] = << C!OpeningRow(u) >>
    BY <1>3 DEF Init, C!Init
  <2>2. C!OpeningRow(u) \in C!Row
    BY OpeningType DEF C!OpeningRow, C!Row, C!Kinds, C!CreditKinds
  <2>3. << C!OpeningRow(u) >> = Append(<< >>, C!OpeningRow(u)) /\ << >> \in Seq(C!Row)
    OBVIOUS
  <2>4. Total(<< C!OpeningRow(u) >>) = Total(<< >>) + C!OpeningRow(u).cents
    BY <2>2, <2>3, TotalOfAppend
  <2>. QED BY <1>1, <2>1, <2>4, TotalOfNone DEF C!OpeningRow
<1>. QED BY <1>2, <1>3

\* Whatever interleaves, the cached balance of every wallet is the sum of its
\* ledger at every commit.
THEOREM BalanceIsTheLedger == Spec => []BalanceIsLedger
<1>1. IInv /\ Adds /\ [Next]_vars => Adds'
  <2> SUFFICES ASSUME IInv, Adds, [Next]_vars PROVE Adds'
    OBVIOUS
  <2>1. CASE UNCHANGED <<balance, statement>>
    BY <2>1 DEF Adds
  <2>2. CASE ~UNCHANGED <<balance, statement>>
    <3>1. \E q \in Requests : Commit(q)
      <4>1. PICK q \in Requests : Start(q) \/ Run(q) \/ Crash(q) \/ Finish(q)
        BY <2>2 DEF Next, vars
      <4>2. ~Start(q)
        <5>1. \A j, s : ~Begin(q, j, s)
          BY <2>2 DEF Begin, Tables
        <5>2. \A j, a : ~Refuse(q, j, a)
          BY <2>2 DEF Refuse, Tables
        <5>. QED BY <5>1, <5>2 DEF Start, StartSubmit, StartReview, StartAdminMove,
               StartPurchase, StartRefund
      <4>3. ~Crash(q) /\ ~Finish(q)
        BY <2>2 DEF Crash, Finish, RollBack, Tables
      <4>4. Run(q)
        BY <4>1, <4>2, <4>3
      <4>. QED BY <2>2, <4>4 DEF Run, DeadlockVictim, InsertTopup, Guard, LockGrant, Move, InsertRow,
             Deliver, Replay, Caught, Fail, RollBack, Tables
    <3>. QED BY <3>1, CommitAdds
  <2>. QED BY <2>1, <2>2
<1>. QED BY <1>1, OpeningAdds, AddsUp, LocksProtect, PTL DEF Spec

-----------------------------------------------------------------------------
(* What the contract promises of itself, for any students and sources. *)

\* A posted row is a row, and it is appended to one statement.
LEMMA ContractAppends ==
  ASSUME C!TypeOK, C!Next
  PROVE  \E u \in Students, row \in C!Row :
           C!Post(u, row)
<1>1. PICK u \in Students :
        LET row == statement'[u][Len(statement'[u])]
        IN  statement'[u] # << >> /\ row \in C!Row /\ C!Post(u, row)
  BY DEF C!Next
<1>2. QED
  BY <1>1

\* Every step leaves typed statements.
LEMMA ContractTypeStep == C!TypeOK /\ [C!Next]_statement => C!TypeOK'
<1> SUFFICES ASSUME C!TypeOK, [C!Next]_statement PROVE C!TypeOK'
  OBVIOUS
<1>1. CASE C!Next
  <2>1. PICK u \in Students, row \in C!Row : C!Post(u, row)
    BY <1>1, ContractAppends
  <2>2. Append(statement[u], row) \in Seq(C!Row)
    BY DEF C!TypeOK
  <2>3. QED
    BY <2>1, <2>2 DEF C!TypeOK, C!Post
<1>2. CASE UNCHANGED statement
  BY <1>2 DEF C!TypeOK
<1>3. QED
  BY <1>1, <1>2

LEMMA ContractTypeInit ==
  ASSUME C!OpeningAssumption PROVE C!Init => C!TypeOK
<1> SUFFICES ASSUME C!Init PROVE C!TypeOK
  OBVIOUS
<1>1. \A u \in Students : C!OpeningRow(u) \in C!Row
  BY DEF C!OpeningAssumption, C!OpeningRow, C!Row, C!Kinds, C!CreditKinds
<1>2. << >> \in Seq(C!Row)
  BY EmptySeq
<1>3. ASSUME NEW row \in C!Row PROVE << row >> \in Seq(C!Row)
  <2>1. << row >> = Append(<< >>, row)
    OBVIOUS
  <2>2. QED
    BY <1>2, <2>1
<1>4. QED
  BY <1>1, <1>2, <1>3 DEF C!Init, C!TypeOK

\* The statements stay sequences of ledger rows.
THEOREM ContractTypes ==
  ASSUME C!OpeningAssumption PROVE C!Spec => []C!TypeOK
<1>1. QED
  BY ContractTypeInit, ContractTypeStep, PTL DEF C!Spec

-----------------------------------------------------------------------------

LEMMA ContractChainedInit ==
  ASSUME C!OpeningAssumption PROVE C!Init => C!Chained
<1> SUFFICES ASSUME C!Init, NEW u \in Students, NEW i \in 1 .. Len(statement[u])
             PROVE  statement[u][i].after =
                      (IF i = 1 THEN 0 ELSE statement[u][i - 1].after)
                        + statement[u][i].cents
  BY DEF C!Chained
<1>1. statement[u] = << C!OpeningRow(u) >> /\ i = 1
  BY DEF C!Init
<1>2. C!OpeningRow(u).after = C!OpeningRow(u).cents /\ C!OpeningRow(u).cents \in Nat
  BY DEF C!OpeningAssumption, C!OpeningRow
<1>3. QED
  BY <1>1, <1>2

LEMMA ContractChainedStep == C!TypeOK /\ C!Chained /\ [C!Next]_statement => C!Chained'
<1> SUFFICES ASSUME C!TypeOK, C!Chained, [C!Next]_statement PROVE C!Chained'
  OBVIOUS
<1>1. CASE C!Next
  <2>1. PICK u \in Students, row \in C!Row : C!Post(u, row)
    BY <1>1, ContractAppends
  <2> SUFFICES ASSUME NEW v \in Students, NEW i \in 1 .. Len(statement'[v])
               PROVE  statement'[v][i].after =
                        (IF i = 1 THEN 0 ELSE statement'[v][i - 1].after)
                          + statement'[v][i].cents
    BY DEF C!Chained
  <2>2. CASE v # u
    BY <2>1, <2>2 DEF C!Post, C!TypeOK, C!Chained
  <2>3. CASE v = u
    <3> DEFINE old == statement[u]
    <3>1. old \in Seq(C!Row) /\ statement'[u] = Append(old, row)
      BY <2>1 DEF C!Post, C!TypeOK
    <3>2. Len(statement'[u]) = Len(old) + 1 /\ Len(old) \in Nat
      BY <3>1
    <3>3. CASE i = Len(old) + 1
      <4>1. statement'[u][i] = row
        BY <3>1, <3>3
      <4>2. row.after = C!LastAfter(old) + row.cents
        BY <2>1 DEF C!Post
      <4>3. C!LastAfter(old) = IF i = 1 THEN 0 ELSE statement'[u][i - 1].after
        BY <3>1, <3>2, <3>3 DEF C!LastAfter
      <4>4. QED
        BY <2>3, <4>1, <4>2, <4>3
    <3>4. CASE i # Len(old) + 1
      <4>1. i \in 1 .. Len(old)
        BY <2>3, <3>2, <3>4
      <4>2. statement'[u][i] = old[i]
        BY <3>1, <4>1
      <4>3. i # 1 => statement'[u][i - 1] = old[i - 1]
        BY <3>1, <4>1
      <4>4. QED
        BY <2>3, <4>1, <4>2, <4>3 DEF C!Chained
    <3>5. QED
      BY <3>3, <3>4
  <2>4. QED
    BY <2>2, <2>3
<1>2. CASE UNCHANGED statement
  BY <1>2 DEF C!Chained
<1>3. QED
  BY <1>1, <1>2

\* Every statement adds up line by line, in every behaviour of the contract.
THEOREM ContractChained ==
  ASSUME C!OpeningAssumption PROVE C!Spec => []C!Chained
<1>1. QED
  BY ContractChainedInit, ContractChainedStep, ContractTypes, PTL DEF C!Spec

-----------------------------------------------------------------------------

LEMMA ContractOverdrawnInit ==
  ASSUME C!OpeningAssumption PROVE C!Init => C!NeverOverdrawn
<1> SUFFICES ASSUME C!Init, NEW u \in Students, NEW i \in 1 .. Len(statement[u])
             PROVE  statement[u][i].after >= 0
  BY DEF C!NeverOverdrawn
<1>1. statement[u] = << C!OpeningRow(u) >> /\ i = 1
  BY DEF C!Init
<1>2. C!OpeningRow(u).after \in Nat
  BY DEF C!OpeningAssumption, C!OpeningRow
<1>3. QED
  BY <1>1, <1>2

LEMMA ContractOverdrawnStep ==
  C!TypeOK /\ C!NeverOverdrawn /\ [C!Next]_statement => C!NeverOverdrawn'
<1> SUFFICES ASSUME C!TypeOK, C!NeverOverdrawn, [C!Next]_statement PROVE C!NeverOverdrawn'
  OBVIOUS
<1>1. CASE C!Next
  <2>1. PICK u \in Students, row \in C!Row : C!Post(u, row)
    BY <1>1, ContractAppends
  <2>2. statement[u] \in Seq(C!Row) /\ statement'[u] = Append(statement[u], row)
    BY <2>1 DEF C!Post, C!TypeOK
  <2>3. row.after >= 0
    BY <2>1 DEF C!Post
  <2>4. \A i \in 1 .. Len(statement'[u]) : statement'[u][i].after >= 0
    BY <2>2, <2>3 DEF C!NeverOverdrawn
  <2>5. \A v \in Students \ {u} : statement'[v] = statement[v]
    BY <2>1 DEF C!Post, C!TypeOK
  <2>6. QED
    BY <2>4, <2>5 DEF C!NeverOverdrawn
<1>2. CASE UNCHANGED statement
  BY <1>2 DEF C!NeverOverdrawn
<1>3. QED
  BY <1>1, <1>2

\* No statement ever shows a negative balance.
THEOREM ContractNeverOverdrawn ==
  ASSUME C!OpeningAssumption PROVE C!Spec => []C!NeverOverdrawn
<1>1. QED
  BY ContractOverdrawnInit, ContractOverdrawnStep, ContractTypes, PTL DEF C!Spec

-----------------------------------------------------------------------------

LEMMA ContractSourceInit == C!Init => C!EverySourceOnce
<1> SUFFICES ASSUME C!Init, NEW u \in Students, NEW i \in 1 .. Len(statement[u])
             PROVE  statement[u][i].source = Nobody
  BY DEF C!EverySourceOnce
<1>1. statement[u] = << C!OpeningRow(u) >> /\ i = 1
  BY DEF C!Init
<1>2. QED
  BY <1>1 DEF C!OpeningRow

LEMMA ContractSourceStep ==
  C!TypeOK /\ C!EverySourceOnce /\ [C!Next]_statement => C!EverySourceOnce'
<1> SUFFICES ASSUME C!TypeOK, C!EverySourceOnce, [C!Next]_statement PROVE C!EverySourceOnce'
  OBVIOUS
<1>1. CASE C!Next
  <2>1. PICK w \in Students, row \in C!Row : C!Post(w, row)
    BY <1>1, ContractAppends
  <2> DEFINE new == Len(statement[w]) + 1
  <2>2. /\ statement[w] \in Seq(C!Row)
        /\ statement'[w] = Append(statement[w], row)
        /\ Len(statement'[w]) = new
        /\ new \in Nat
    BY <2>1 DEF C!Post, C!TypeOK
  <2>3. row.source # Nobody =>
          \A u \in Students : \A i \in 1 .. Len(statement[u]) :
            statement[u][i].source # row.source
    BY <2>1 DEF C!Post, C!Used
  \* Every row of the new state but the posted one was there before.
  <2>4. ASSUME NEW u \in Students, NEW i \in 1 .. Len(statement'[u])
        PROVE  \/ u = w /\ i = new /\ statement'[u][i] = row
               \/ i \in 1 .. Len(statement[u]) /\ statement'[u][i] = statement[u][i]
    <3>1. CASE u = w
      BY <2>2, <3>1
    <3>2. CASE u # w
      BY <2>1, <3>2 DEF C!Post, C!TypeOK
    <3>3. QED
      BY <3>1, <3>2
  <2> SUFFICES ASSUME NEW u \in Students, NEW v \in Students,
                      NEW i \in 1 .. Len(statement'[u]),
                      NEW j \in 1 .. Len(statement'[v]),
                      statement'[u][i].source # Nobody,
                      statement'[u][i].source = statement'[v][j].source
               PROVE  u = v /\ i = j
    BY DEF C!EverySourceOnce
  <2>5. CASE u = w /\ i = new /\ statement'[u][i] = row
    BY <2>3, <2>4, <2>5
  <2>6. CASE v = w /\ j = new /\ statement'[v][j] = row
    BY <2>3, <2>4, <2>6
  <2>7. CASE /\ i \in 1 .. Len(statement[u]) /\ statement'[u][i] = statement[u][i]
             /\ j \in 1 .. Len(statement[v]) /\ statement'[v][j] = statement[v][j]
    BY <2>7 DEF C!EverySourceOnce
  <2>8. QED
    BY <2>4, <2>5, <2>6, <2>7
<1>2. CASE UNCHANGED statement
  BY <1>2 DEF C!EverySourceOnce
<1>3. QED
  BY <1>1, <1>2

\* One source, one row, across all the wallets.
THEOREM ContractSourceOnce ==
  ASSUME C!OpeningAssumption PROVE C!Spec => []C!EverySourceOnce
<1>1. QED
  BY ContractSourceInit, ContractSourceStep, ContractTypes, PTL DEF C!Spec

-----------------------------------------------------------------------------

\* Statements only grow, and what they held stays what it was.
THEOREM ContractHistory ==
  ASSUME C!OpeningAssumption PROVE C!Spec => C!AppendOnly
<1>1. C!TypeOK /\ [C!Next]_statement =>
        [\A u \in Students :
           /\ Len(statement'[u]) >= Len(statement[u])
           /\ \A i \in 1 .. Len(statement[u]) : statement'[u][i] = statement[u][i]
        ]_statement
  <2> SUFFICES ASSUME C!TypeOK, C!Next, NEW u \in Students
               PROVE  /\ Len(statement'[u]) >= Len(statement[u])
                      /\ \A i \in 1 .. Len(statement[u]) : statement'[u][i] = statement[u][i]
    OBVIOUS
  <2>1. PICK w \in Students, row \in C!Row : C!Post(w, row)
    BY ContractAppends
  <2>2. CASE u = w
    <3>1. statement[u] \in Seq(C!Row) /\ statement'[u] = Append(statement[u], row)
      BY <2>1, <2>2 DEF C!Post, C!TypeOK
    <3>2. QED
      BY <3>1
  <2>3. CASE u # w
    <3>1. statement[u] \in Seq(C!Row) /\ statement'[u] = statement[u]
      BY <2>1, <2>3 DEF C!Post, C!TypeOK
    <3>2. QED
      BY <3>1
  <2>4. QED
    BY <2>2, <2>3
<1>2. QED
  BY <1>1, ContractTypes, PTL DEF C!Spec, C!AppendOnly

-----------------------------------------------------------------------------
\* So what the contract promises holds of the requests: no line of a statement is
\* ever negative, and a top-up or an idempotency key has moved money at most once.
THEOREM MoneyIsSafe == Spec => [](C!NeverOverdrawn /\ C!EverySourceOnce /\ C!Chained)
<1>1. C!OpeningAssumption
  BY OpeningType DEF C!OpeningAssumption
<1>2. C!Spec => [](C!NeverOverdrawn /\ C!EverySourceOnce /\ C!Chained)
  BY <1>1, ContractNeverOverdrawn, ContractSourceOnce, ContractChained, PTL
<1>. QED BY <1>2, ImplementsContract, PTL DEF Contract
=============================================================================
