----------------------------- MODULE ClaimsProofs -----------------------------
(***************************************************************************)
(* Proofs about Claims for any number of requests, students, plans, claims *)
(* and transfers.  The argument is that of the locks: what a transaction   *)
(* found in a row that it has locked is still so when it commits; what it  *)
(* read of a row that it has not locked is used only where the column      *)
(* never changes again, such as the student and the plan of a claim.       *)
(***************************************************************************)
EXTENDS Claims, FiniteSetTheorems, TLAPS

Reviews  == {"approve", "reject", "transfer"}
Granting == {"approve", "transfer", "purchase", "manual"}

\* Which operations reach which statement.
StepOK(q) ==
  /\ pc[q] = "coupon" => job[q].op \in {"submit", "purchase"} /\ job[q].coupon
  /\ pc[q] \in {"debit", "read"} => job[q].op = "purchase"
  /\ pc[q] \in {"match", "guard"} => job[q].op = "transfer"
  /\ pc[q] = "write" => job[q].op \in Granting
  /\ pc[q] = "decide" => job[q].op \in {"approve", "reject"}
  /\ pc[q] = "release" => job[q].op = "reject"
  /\ job[q].op = "purchase" => job[q].user \in Students
  /\ job[q].coupon => job[q].op \in {"submit", "purchase"}
  /\ job[q].op = "transfer" => job[q].transfer \in Transfers

\* A review is about a claim that was filed, of the student and plan it read.
ReviewOK(q) ==
  job[q].op \in Reviews =>
    /\ job[q].id \in Ids
    /\ claim[job[q].id].status # "none" /\ claim[job[q].id].by # "wallet"
    /\ claim[job[q].id].user = job[q].user
    /\ job[q].op # "reject" => claim[job[q].id].plan = job[q].plan

\* A grant that was read is of the student and plan of the request for ever.
Covers(q, g) ==
  grant[g].state # "none" /\ grant[g].user = job[q].user /\ grant[g].plan = job[q].plan
GrantsOK(q) ==
  /\ job[q].seen # None => Covers(q, job[q].seen)
  /\ job[q].target # None => Covers(q, job[q].target)

\* Past its statement a use of the coupon is there to be spent, or given back.
HoldsCoupon(q) ==
  /\ job[q].coupon /\ pc[q] \in {"debit", "read", "write", "commit"} =>
       lock[CouponRow] = q /\ uses < MaxUses
  /\ job[q].op = "reject" /\ pc[q] \in {"release", "commit"} => lock[ClaimRow(job[q].id)] = q
  /\ job[q].op = "reject" /\ pc[q] = "commit" /\ claim[job[q].id].use = "held" =>
       lock[CouponRow] = q

\* Past its statement a transfer is unmatched, and so is the claim.
HoldsTransfer(q) ==
  job[q].op = "transfer" /\ pc[q] \in {"guard", "write", "commit"} =>
    /\ lock[TransferRow(job[q].transfer)] = q /\ lock[MatchEntry(job[q].id)] = q
    /\ Unmatched(job[q].transfer, job[q].id)

\* Past its look under the wallet's lock a purchase of a term is the only one.
HoldsWallet(q) ==
  /\ job[q].op = "purchase" /\ pc[q] \in {"read", "write", "commit"} =>
       lock[WalletRow(job[q].user)] = q
  /\ job[q].op = "purchase" /\ pc[q] \in {"write", "commit"} /\ job[q].plan \in Undated =>
       \A s \in Ids :
         claim[s].by = "wallet" /\ claim[s].user = job[q].user /\ claim[s].plan = job[q].plan
           => grant[claim[s].grant].state = "revoked"

RequestInv(q) ==
  /\ StepOK(q) /\ ReviewOK(q) /\ GrantsOK(q)
  /\ HoldsCoupon(q) /\ HoldsTransfer(q) /\ HoldsWallet(q)

\* What the rows say of each other.
ClaimInv(s) ==
  /\ claim[s].status = "none" => claim[s].use = "none" /\ claim[s].by # "wallet"
  /\ claim[s].by = "wallet" => claim[s].status = "approved"
  /\ claim[s].status = "approved" =>
       /\ claim[s].grant \in Grants /\ grant[claim[s].grant].state # "none"
       /\ grant[claim[s].grant].user = claim[s].user
       /\ grant[claim[s].grant].plan = claim[s].plan

Held == {s \in Ids : claim[s].use = "held"}
MatchedOnce ==
  \A t, x \in Transfers : matched[t] # None /\ matched[t] = matched[x] => t = x

TablesInv ==
  /\ \A s \in Ids : ClaimInv(s)
  /\ NoDoubleSale
  /\ IsFiniteSet(Held) /\ uses = Cardinality(Held)
  /\ MatchedOnce

IInv == TypeOK /\ TablesInv /\ \A q \in Requests : RequestInv(q)

-----------------------------------------------------------------------------
LEMMA RowsIn ==
  /\ CouponRow \in Rows
  /\ \A s \in Ids : ClaimRow(s) \in Rows /\ MatchEntry(s) \in Rows
  /\ \A g \in Grants : GrantRow(g) \in Rows
  /\ \A t \in Transfers : TransferRow(t) \in Rows
  /\ \A u \in Students : WalletRow(u) \in Rows
BY DEF Rows

LEMMA InitEstablishes == Init => IInv
<1> SUFFICES ASSUME Init PROVE IInv
  OBVIOUS
<1>1. NoJob \in Job /\ NoClaim \in Claim /\ NoGrantRow \in Grant
  BY DEF NoJob, Job, NoClaim, Claim, NoGrantRow, Grant
<1>2. TypeOK
  BY <1>1, UsesType DEF Init, TypeOK
<1>3. Held = {}
  BY DEF Init, Held, NoClaim
<1>4. TablesInv
  BY <1>3, FS_EmptySet DEF Init, TablesInv, ClaimInv, NoClaim, NoDoubleSale, MatchedOnce
<1>5. \A q \in Requests : RequestInv(q)
  BY DEF Init, RequestInv, StepOK, ReviewOK, GrantsOK, HoldsCoupon, HoldsTransfer, HoldsWallet,
         NoJob, Reviews, Granting
<1>. QED BY <1>2, <1>4, <1>5 DEF IInv

\* Nothing that another request relies on changes as long as the tables stand
\* and it keeps its locks.
LEMMA BystanderKeeps ==
  ASSUME TypeOK, NEW o \in Requests, RequestInv(o), UNCHANGED tables,
         pc'[o] = pc[o], job'[o] = job[o], \A r \in Rows : lock[r] = o => lock'[r] = o
  PROVE  RequestInv(o)'
<1>1. job[o] \in Job
  BY DEF TypeOK
<1>2. StepOK(o)' /\ ReviewOK(o)' /\ GrantsOK(o)'
  BY DEF RequestInv, StepOK, ReviewOK, GrantsOK, Covers, tables
<1>3. HoldsCoupon(o)'
  BY RowsIn DEF RequestInv, HoldsCoupon, ReviewOK, Reviews, tables
<1>4. HoldsTransfer(o)'
  BY RowsIn DEF RequestInv, StepOK, HoldsTransfer, ReviewOK, Reviews, Unmatched, tables
<1>5. HoldsWallet(o)'
  BY RowsIn DEF RequestInv, StepOK, HoldsWallet, Granting, tables
<1>. QED BY <1>2, <1>3, <1>4, <1>5 DEF RequestInv

LEMMA TablesStand ==
  ASSUME TablesInv, UNCHANGED tables
  PROVE  TablesInv'
BY DEF TablesInv, ClaimInv, NoDoubleSale, Held, MatchedOnce, tables

\* A row that is taken is added to the locks there are.
LEMMA TakeGrows ==
  ASSUME TypeOK, NEW q \in Requests, NEW r0 \in Rows, Free(r0), Take(q, r0)
  PROVE  /\ lock' \in [Rows -> Requests \cup {None}] /\ lock'[r0] = q
         /\ \A o \in Requests, r \in Rows : lock[r] = o => lock'[r] = o
BY NoneIsNew DEF TypeOK, Free, Take

\* A statement that writes no row yet: the tables stand, the locks grow.
LEMMA MoveKeeps ==
  ASSUME IInv, NEW q \in Requests, UNCHANGED tables,
         lock' \in [Rows -> Requests \cup {None}],
         \A o \in Requests, r \in Rows : lock[r] = o => lock'[r] = o,
         NEW s \in Steps, pc' = [pc EXCEPT ![q] = s],
         NEW j \in Job, job' = [job EXCEPT ![q] = j],
         RequestInv(q)'
  PROVE  IInv'
<1>1. TypeOK /\ TablesInv /\ \A o \in Requests : RequestInv(o)
  BY DEF IInv
<1>2. TypeOK'
  BY <1>1 DEF TypeOK, tables
<1>3. ASSUME NEW o \in Requests PROVE RequestInv(o)'
  <2>1. CASE o = q
    BY <2>1
  <2>2. CASE o # q
    <3>1. pc'[o] = pc[o] /\ job'[o] = job[o]
      BY <1>1, <2>2 DEF TypeOK
    <3>. QED BY <1>1, <3>1, BystanderKeeps
  <2>. QED BY <2>1, <2>2
<1>. QED BY <1>1, <1>2, <1>3, TablesStand DEF IInv

LEMMA CloseFrees ==
  ASSUME TypeOK, NEW q \in Requests, Close(q)
  PROVE  /\ lock' \in [Rows -> Requests \cup {None}]
         /\ pc' \in [Requests -> Steps \cup {"idle"}] /\ job' \in [Requests -> Job]
         /\ RequestInv(q)'
         /\ \A o \in Requests \ {q} :
              /\ pc'[o] = pc[o] /\ job'[o] = job[o]
              /\ \A r \in Rows : lock[r] = o => lock'[r] = o
<1>1. NoJob \in Job
  BY DEF NoJob, Job
<1>2. pc'[q] = "idle" /\ job'[q] = NoJob
  BY DEF Close, TypeOK
<1>3. RequestInv(q)'
  BY <1>2 DEF RequestInv, StepOK, ReviewOK, GrantsOK, HoldsCoupon, HoldsTransfer, HoldsWallet,
              NoJob, Reviews, Granting
<1>. QED BY <1>1, <1>3 DEF Close, TypeOK

LEMMA RollBackKeeps ==
  ASSUME IInv, NEW q \in Requests, RollBack(q)
  PROVE  IInv'
<1>1. TypeOK /\ TablesInv /\ \A o \in Requests : RequestInv(o)
  BY DEF IInv
<1>2. Close(q) /\ UNCHANGED tables
  BY DEF RollBack
<1>3. TypeOK'
  BY <1>1, <1>2, CloseFrees DEF TypeOK, tables
<1>4. ASSUME NEW o \in Requests PROVE RequestInv(o)'
  <2>1. CASE o = q
    BY <1>1, <1>2, <2>1, CloseFrees
  <2>2. CASE o # q
    <3>1. /\ pc'[o] = pc[o] /\ job'[o] = job[o]
          /\ \A r \in Rows : lock[r] = o => lock'[r] = o
      BY <1>1, <1>2, <2>2, CloseFrees
    <3>. QED BY <1>1, <1>2, <3>1, BystanderKeeps
  <2>. QED BY <2>1, <2>2
<1>. QED BY <1>1, <1>2, <1>3, <1>4, TablesStand DEF IInv

-----------------------------------------------------------------------------
(***************************************************************************)
(* What each request reads before its transaction.                         *)
(***************************************************************************)

LEMMA BeginKeeps ==
  ASSUME IInv, NEW q \in Requests, NEW j \in Job, NEW s \in Steps, Begin(q, j, s),
         job'[q] = j /\ pc'[q] = s /\ UNCHANGED tables => RequestInv(q)'
  PROVE  IInv'
<1>1. TypeOK
  BY DEF IInv
<1>2. /\ UNCHANGED tables /\ UNCHANGED lock
      /\ pc' = [pc EXCEPT ![q] = s] /\ job' = [job EXCEPT ![q] = j]
  BY DEF Begin, tables
<1>3. job'[q] = j /\ pc'[q] = s
  BY <1>1, <1>2 DEF TypeOK
<1>4. /\ lock' \in [Rows -> Requests \cup {None}]
      /\ \A o \in Requests, r \in Rows : lock[r] = o => lock'[r] = o
  BY <1>1, <1>2 DEF TypeOK
<1>. QED BY <1>2, <1>3, <1>4, MoveKeeps

\* A grant that is found live covers what is asked for.
LEMMA SeenCovers ==
  ASSUME TypeOK, NEW u, NEW p, NEW g \in Seen(u, p)
  PROVE  /\ g \in Grants \cup {None}
         /\ g # None => grant[g].state = "live" /\ grant[g].user = u /\ grant[g].plan = p
BY DEF Seen, Live

LEMMA StartFilingKeeps ==
  ASSUME IInv, NEW q \in Requests, NEW u \in Students, NEW p \in Plans, NEW c \in BOOLEAN,
         StartSubmit(q, u, p, c) \/ StartPurchase(q, u, p, c)
  PROVE  IInv'
<1>1. PICK op \in {"submit", "purchase"} :
        Begin(q, [NoJob EXCEPT !.op = op, !.user = u, !.plan = p, !.coupon = c],
              IF c THEN "coupon" ELSE IF op = "submit" THEN "commit" ELSE "debit")
  BY DEF StartSubmit, StartPurchase
<1>2. PICK j : j = [NoJob EXCEPT !.op = op, !.user = u, !.plan = p, !.coupon = c]
  OBVIOUS
<1>3. /\ j \in Job /\ j.op = op /\ j.user = u /\ j.plan = p /\ j.coupon = c
      /\ j.seen = None /\ j.target = None
  BY <1>2 DEF NoJob, Job, Ops
<1>4. PICK s \in Steps :
        s = IF c THEN "coupon" ELSE IF op = "submit" THEN "commit" ELSE "debit"
  BY DEF Steps
<1>5. Begin(q, j, s)
  BY <1>1, <1>2, <1>4
<1>6. ASSUME job'[q] = j, pc'[q] = s, UNCHANGED tables PROVE RequestInv(q)'
  BY <1>3, <1>4, <1>6 DEF RequestInv, StepOK, ReviewOK, GrantsOK, HoldsCoupon, HoldsTransfer,
                          HoldsWallet, Reviews, Granting
<1>. QED BY <1>3, <1>5, <1>6, BeginKeeps

LEMMA StartManualKeeps ==
  ASSUME IInv, NEW q \in Requests, NEW u \in Students, NEW p \in Plans, StartManual(q, u, p)
  PROVE  IInv'
<1>1. PICK g \in Seen(u, p) :
        Begin(q, [NoJob EXCEPT !.op = "manual", !.user = u, !.plan = p, !.seen = g], "write")
  BY DEF StartManual
<1>2. TypeOK
  BY DEF IInv
<1>3. PICK j : j = [NoJob EXCEPT !.op = "manual", !.user = u, !.plan = p, !.seen = g]
  OBVIOUS
<1>4. /\ j \in Job /\ j.op = "manual" /\ j.user = u /\ j.plan = p /\ j.coupon = FALSE
      /\ j.seen = g /\ j.target = None
  BY <1>2, <1>3, SeenCovers DEF NoJob, Job, Ops
<1>5. Begin(q, j, "write") /\ "write" \in Steps
  BY <1>1, <1>3 DEF Steps
<1>6. ASSUME job'[q] = j, pc'[q] = "write", UNCHANGED tables PROVE RequestInv(q)'
  <2>1. GrantsOK(q)'
    BY <1>2, <1>4, <1>6, SeenCovers DEF GrantsOK, Covers, tables
  <2>. QED BY <1>4, <1>6, <2>1 DEF RequestInv, StepOK, ReviewOK, HoldsCoupon, HoldsTransfer,
                                   HoldsWallet, Reviews, Granting
<1>. QED BY <1>4, <1>5, <1>6, BeginKeeps

LEMMA ReviewBegins ==
  ASSUME IInv, NEW q \in Requests, NEW c \in Ids, claim[c].status = "pending",
         NEW op \in Reviews, NEW s \in {"write", "decide", "match"},
         s = (IF op = "approve" THEN "write" ELSE IF op = "reject" THEN "decide" ELSE "match"),
         NEW t \in Transfers \cup {None}, op = "transfer" => t \in Transfers,
         NEW p \in Plans \cup {None}, op # "reject" => p = claim[c].plan,
         NEW g \in Grants \cup {None},
         g # None => grant[g].state = "live" /\ grant[g].user = claim[c].user /\ grant[g].plan = p,
         NEW j \in Job, j.op = op, j.id = c, j.user = claim[c].user, j.plan = p,
         j.coupon = FALSE, j.transfer = t, j.seen = g, j.target = None,
         Begin(q, j, s)
  PROVE  IInv'
<1>1. claim[c].user \in Students \cup {None} /\ claim[c].by # "wallet"
  BY DEF IInv, TypeOK, TablesInv, ClaimInv, Claim
<1>2. s \in Steps
  BY DEF Steps
<1>3. ASSUME job'[q] = j, pc'[q] = s, UNCHANGED tables PROVE RequestInv(q)'
  <2>1. /\ job'[q].op = op /\ job'[q].id = c /\ job'[q].user = claim[c].user /\ job'[q].plan = p
        /\ job'[q].coupon = FALSE /\ job'[q].transfer = t /\ job'[q].seen = g
        /\ job'[q].target = None
    BY <1>3
  <2>2. GrantsOK(q)'
    BY <1>3, <2>1 DEF GrantsOK, Covers, tables
  <2>3. ReviewOK(q)'
    BY <1>1, <1>3, <2>1 DEF ReviewOK, tables
  <2>4. StepOK(q)' /\ HoldsCoupon(q)' /\ HoldsTransfer(q)' /\ HoldsWallet(q)'
    BY <1>3, <2>1 DEF StepOK, HoldsCoupon, HoldsTransfer, HoldsWallet, Reviews, Granting
  <2>. QED BY <2>2, <2>3, <2>4 DEF RequestInv
<1>. QED BY <1>2, <1>3, BeginKeeps

LEMMA StartReviewKeeps ==
  ASSUME IInv, NEW q \in Requests, NEW c \in Ids,
         \/ StartApprove(q, c) \/ StartReject(q, c)
         \/ \E t \in Transfers : StartTransfer(q, c, t)
  PROVE  IInv'
<1>1. TypeOK /\ claim[c].plan \in Plans \cup {None} /\ claim[c].user \in Students \cup {None}
  BY DEF IInv, TypeOK, Claim
<1>2. CASE StartApprove(q, c)
  <2>1. PICK g \in Seen(claim[c].user, claim[c].plan) :
          Begin(q, [NoJob EXCEPT !.op = "approve", !.id = c, !.user = claim[c].user,
                            !.plan = claim[c].plan, !.seen = g], "write")
    BY <1>2 DEF StartApprove
  <2>2. PICK j : j = [NoJob EXCEPT !.op = "approve", !.id = c, !.user = claim[c].user,
                            !.plan = claim[c].plan, !.seen = g]
    OBVIOUS
  <2>3. /\ g \in Grants \cup {None}
        /\ g # None => grant[g].state = "live" /\ grant[g].user = claim[c].user
                         /\ grant[g].plan = claim[c].plan
    BY <1>1, SeenCovers
  <2>4. /\ j \in Job /\ j.op = "approve" /\ j.id = c /\ j.user = claim[c].user
        /\ j.plan = claim[c].plan /\ j.coupon = FALSE /\ j.transfer = None
        /\ j.seen = g /\ j.target = None
    BY <1>1, <2>2, <2>3 DEF NoJob, Job, Ops
  <2>5. Begin(q, j, "write") /\ claim[c].status = "pending"
    BY <1>2, <2>1, <2>2 DEF StartApprove
  <2>. QED BY <1>1, <2>3, <2>4, <2>5, ReviewBegins DEF Reviews
<1>3. CASE StartReject(q, c)
  <2>1. Begin(q, [NoJob EXCEPT !.op = "reject", !.id = c, !.user = claim[c].user], "decide")
    BY <1>3 DEF StartReject
  <2>2. PICK j : j = [NoJob EXCEPT !.op = "reject", !.id = c, !.user = claim[c].user]
    OBVIOUS
  <2>4. /\ j \in Job /\ j.op = "reject" /\ j.id = c /\ j.user = claim[c].user
        /\ j.plan = None /\ j.coupon = FALSE /\ j.transfer = None
        /\ j.seen = None /\ j.target = None
    BY <1>1, <2>2 DEF NoJob, Job, Ops
  <2>5. Begin(q, j, "decide") /\ claim[c].status = "pending"
    BY <1>3, <2>1, <2>2 DEF StartReject
  <2>. QED BY <1>1, <2>4, <2>5, ReviewBegins DEF Reviews
<1>4. ASSUME NEW t \in Transfers, StartTransfer(q, c, t) PROVE IInv'
  <2>1. PICK g \in Seen(claim[c].user, claim[c].plan) :
          Begin(q, [NoJob EXCEPT !.op = "transfer", !.id = c, !.user = claim[c].user,
                            !.plan = claim[c].plan, !.transfer = t, !.seen = g], "match")
    BY <1>4 DEF StartTransfer
  <2>2. PICK j : j = [NoJob EXCEPT !.op = "transfer", !.id = c, !.user = claim[c].user,
                            !.plan = claim[c].plan, !.transfer = t, !.seen = g]
    OBVIOUS
  <2>3. /\ g \in Grants \cup {None}
        /\ g # None => grant[g].state = "live" /\ grant[g].user = claim[c].user
                         /\ grant[g].plan = claim[c].plan
    BY <1>1, SeenCovers
  <2>4. /\ j \in Job /\ j.op = "transfer" /\ j.id = c /\ j.user = claim[c].user
        /\ j.plan = claim[c].plan /\ j.coupon = FALSE /\ j.transfer = t
        /\ j.seen = g /\ j.target = None
    BY <1>1, <2>2, <2>3 DEF NoJob, Job, Ops
  <2>5. Begin(q, j, "match") /\ claim[c].status = "pending"
    BY <1>4, <2>1, <2>2 DEF StartTransfer
  <2>. QED BY <1>1, <2>3, <2>4, <2>5, ReviewBegins DEF Reviews
<1>. QED BY <1>2, <1>3, <1>4

LEMMA StartKeeps ==
  ASSUME IInv, NEW q \in Requests, Start(q)
  PROVE  IInv'
BY StartManualKeeps, StartFilingKeeps, StartReviewKeeps DEF Start

-----------------------------------------------------------------------------
(***************************************************************************)
(* The statements of a transaction.                                        *)
(***************************************************************************)

\* A statement that takes the free row r0, or none, and goes on to s.
LEMMA LockKeeps ==
  ASSUME IInv, NEW q \in Requests, NEW s \in Steps, Goto(q, s), UNCHANGED tables,
         NEW j \in Job, job' = [job EXCEPT ![q] = j],
         UNCHANGED lock \/ \E r0 \in Rows : Free(r0) /\ Take(q, r0),
         pc'[q] = s /\ job'[q] = j
           /\ (\A r \in Rows : lock[r] = q => lock'[r] = q) => RequestInv(q)'
  PROVE  IInv'
<1>1. TypeOK
  BY DEF IInv
<1>2. /\ lock' \in [Rows -> Requests \cup {None}]
      /\ \A o \in Requests, r \in Rows : lock[r] = o => lock'[r] = o
  <2>1. CASE UNCHANGED lock
    BY <1>1, <2>1 DEF TypeOK
  <2>2. CASE \E r0 \in Rows : Free(r0) /\ Take(q, r0)
    BY <1>1, <2>2, TakeGrows
  <2>. QED BY <2>1, <2>2
<1>3. pc' = [pc EXCEPT ![q] = s] /\ pc'[q] = s /\ job'[q] = j
  BY <1>1 DEF Goto, TypeOK
<1>4. RequestInv(q)'
  BY <1>2, <1>3
<1>. QED BY <1>2, <1>3, <1>4, MoveKeeps

\* The same for a request whose job stands, and what it is known to be.
LEMMA GoOnKeeps ==
  ASSUME IInv, NEW q \in Requests, NEW s \in Steps, Goto(q, s), UNCHANGED <<tables, job>>,
         UNCHANGED lock \/ \E r0 \in Rows : Free(r0) /\ Take(q, r0),
         pc'[q] = s /\ (\A r \in Rows : lock[r] = q => lock'[r] = q) => RequestInv(q)'
  PROVE  IInv'
<1>1. job[q] \in Job /\ job' = [job EXCEPT ![q] = job[q]]
  BY DEF IInv, TypeOK
<1>. QED BY <1>1, LockKeeps

LEMMA ClaimCouponKeeps ==
  ASSUME IInv, NEW q \in Requests, ClaimCoupon(q)
  PROVE  IInv'
<1>1. CASE RollBack(q)
  BY <1>1, RollBackKeeps
<1>2. CASE UsesLeft /\ Take(q, CouponRow)
  <2>1. PICK s \in {"commit", "debit"} :
          s = IF job[q].op = "submit" THEN "commit" ELSE "debit"
    OBVIOUS
  <2>2. /\ pc[q] = "coupon" /\ Free(CouponRow) /\ Take(q, CouponRow) /\ UsesLeft
        /\ Goto(q, s) /\ UNCHANGED <<tables, job>>
    BY <1>2, <2>1 DEF ClaimCoupon
  <2>3. TypeOK /\ RequestInv(q)
    BY DEF IInv
  <2>4. lock'[CouponRow] = q
    BY <2>2, <2>3, TakeGrows, RowsIn
  <2>5. ASSUME pc'[q] = s, \A r \in Rows : lock[r] = q => lock'[r] = q PROVE RequestInv(q)'
    BY <2>1, <2>2, <2>3, <2>4, <2>5
       DEF RequestInv, StepOK, ReviewOK, GrantsOK, Covers, HoldsCoupon, HoldsTransfer, HoldsWallet,
           UsesLeft, tables
  <2>6. s \in Steps
    BY DEF Steps
  <2>. QED BY <2>2, <2>5, <2>6, RowsIn, GoOnKeeps
<1>. QED BY <1>1, <1>2 DEF ClaimCoupon

LEMMA DebitKeeps ==
  ASSUME IInv, NEW q \in Requests, Debit(q)
  PROVE  IInv'
<1>1. CASE RollBack(q)
  BY <1>1, RollBackKeeps
<1>2. CASE Take(q, WalletRow(job[q].user)) /\ Goto(q, "read") /\ UNCHANGED <<tables, job>>
  <2>1. TypeOK /\ RequestInv(q) /\ pc[q] = "debit" /\ Free(WalletRow(job[q].user))
    BY DEF IInv, Debit
  <2>2. job[q].op = "purchase" /\ WalletRow(job[q].user) \in Rows
    BY <2>1, RowsIn DEF RequestInv, StepOK
  <2>3. lock'[WalletRow(job[q].user)] = q
    BY <1>2, <2>1, <2>2, TakeGrows
  <2>4. ASSUME pc'[q] = "read", \A r \in Rows : lock[r] = q => lock'[r] = q PROVE RequestInv(q)'
    BY <1>2, <2>1, <2>2, <2>3, <2>4, RowsIn
       DEF RequestInv, StepOK, ReviewOK, GrantsOK, Covers, HoldsCoupon, HoldsTransfer, HoldsWallet,
           tables
  <2>5. "read" \in Steps
    BY DEF Steps
  <2>. QED BY <1>2, <2>1, <2>2, <2>4, <2>5, GoOnKeeps
<1>. QED BY <1>1, <1>2 DEF Debit

\* Under the wallet's lock: whatever another purchase opened for this term has
\* been revoked, for it is not live.
LEMMA RecheckKeeps ==
  ASSUME IInv, NEW q \in Requests, Recheck(q)
  PROVE  IInv'
<1>1. CASE RollBack(q)
  BY <1>1, RollBackKeeps
<1>2. ASSUME ~Owned(q), NEW g \in Seen(job[q].user, job[q].plan),
             job' = [job EXCEPT ![q].seen = g], Goto(q, "write"), UNCHANGED <<tables, lock>>
      PROVE  IInv'
  <2>1. TypeOK /\ TablesInv /\ RequestInv(q) /\ pc[q] = "read" /\ job[q].op = "purchase"
    BY DEF IInv, Recheck, RequestInv, StepOK
  <2>2. /\ g \in Grants \cup {None}
        /\ g # None => grant[g].state = "live" /\ grant[g].user = job[q].user
                         /\ grant[g].plan = job[q].plan
    BY <2>1, SeenCovers
  <2>3. PICK j : j = [job[q] EXCEPT !.seen = g]
    OBVIOUS
  <2>4. /\ j \in Job /\ j.op = job[q].op /\ j.id = job[q].id /\ j.user = job[q].user
        /\ j.plan = job[q].plan /\ j.coupon = job[q].coupon /\ j.transfer = job[q].transfer
        /\ j.seen = g /\ j.target = job[q].target
    BY <2>1, <2>2, <2>3 DEF TypeOK, Job
  <2>5. job' = [job EXCEPT ![q] = j]
    BY <1>2, <2>1, <2>3 DEF TypeOK
  <2>6. ASSUME job[q].plan \in Undated, NEW s \in Ids, claim[s].by = "wallet",
               claim[s].user = job[q].user, claim[s].plan = job[q].plan
        PROVE  grant[claim[s].grant].state = "revoked"
    <3>1. /\ claim[s].grant \in Grants /\ grant[claim[s].grant].state # "none"
          /\ grant[claim[s].grant].user = job[q].user /\ grant[claim[s].grant].plan = job[q].plan
      BY <2>1, <2>6 DEF TablesInv, ClaimInv
    <3>2. Live(job[q].user, job[q].plan) = {}
      BY <1>2, <2>6 DEF Owned
    <3>3. grant[claim[s].grant] \in Grant
      BY <2>1, <3>1 DEF TypeOK
    <3>4. grant[claim[s].grant] # [state |-> "live", user |-> job[q].user, plan |-> job[q].plan]
      BY <3>1, <3>2 DEF Live
    <3>. QED BY <3>1, <3>3, <3>4 DEF Grant
  <2>7. ASSUME pc'[q] = "write", job'[q] = j, \A r \in Rows : lock[r] = q => lock'[r] = q
        PROVE  RequestInv(q)'
    <3>1. StepOK(q)' /\ ReviewOK(q)' /\ GrantsOK(q)'
      BY <1>2, <2>1, <2>2, <2>4, <2>7
         DEF RequestInv, StepOK, ReviewOK, GrantsOK, Covers, Granting, Reviews, tables
    <3>2. HoldsCoupon(q)' /\ HoldsTransfer(q)'
      BY <1>2, <2>1, <2>4, <2>7 DEF RequestInv, HoldsCoupon, HoldsTransfer, tables
    <3>3. HoldsWallet(q)'
      BY <1>2, <2>1, <2>4, <2>6, <2>7 DEF RequestInv, HoldsWallet, tables
    <3>. QED BY <3>1, <3>2, <3>3 DEF RequestInv
  <2>8. "write" \in Steps
    BY DEF Steps
  <2>9. UNCHANGED tables /\ UNCHANGED lock /\ Goto(q, "write") /\ j \in Job
    BY <1>2, <2>4
  <2>10. pc'[q] = "write" /\ job'[q] = j /\ (\A r \in Rows : lock[r] = q => lock'[r] = q)
           => RequestInv(q)'
    BY <2>7
  <2>. QED BY <2>5, <2>8, <2>9, <2>10, LockKeeps
<1>. QED BY <1>1, <1>2 DEF Recheck

\* Two rows are locked in one statement.
LEMMA MatchKeeps ==
  ASSUME IInv, NEW q \in Requests, Match(q)
  PROVE  IInv'
<1> DEFINE a == TransferRow(job[q].transfer)
           b == MatchEntry(job[q].id)
<1>1. CASE RollBack(q)
  BY <1>1, RollBackKeeps
<1>2. CASE /\ Unmatched(job[q].transfer, job[q].id)
           /\ lock' = [lock EXCEPT ![a] = q, ![b] = q]
           /\ Goto(q, "guard") /\ UNCHANGED <<tables, job>>
  <2>1. TypeOK /\ RequestInv(q) /\ pc[q] = "match" /\ Free(a) /\ Free(b)
    BY DEF IInv, Match
  <2>2. job[q].op = "transfer" /\ job[q] \in Job /\ a \in Rows /\ b \in Rows
    BY <2>1, RowsIn DEF RequestInv, StepOK, ReviewOK, Reviews, TypeOK
  <2>3. /\ lock' \in [Rows -> Requests \cup {None}] /\ lock'[a] = q /\ lock'[b] = q
        /\ \A o \in Requests, r \in Rows : lock[r] = o => lock'[r] = o
    <3> HIDE DEF a, b
    <3>. QED BY <1>2, <2>1, <2>2, NoneIsNew DEF TypeOK, Free
  <2>4. pc' = [pc EXCEPT ![q] = "guard"] /\ pc'[q] = "guard" /\ job' = [job EXCEPT ![q] = job[q]]
    BY <1>2, <2>1 DEF Goto, TypeOK
  <2>5. RequestInv(q)'
    BY <1>2, <2>1, <2>2, <2>3, <2>4
       DEF RequestInv, StepOK, ReviewOK, GrantsOK, Covers, HoldsCoupon, HoldsTransfer, HoldsWallet,
           Unmatched, tables
  <2>6. "guard" \in Steps
    BY DEF Steps
  <2>. QED BY <1>2, <2>2, <2>3, <2>4, <2>5, <2>6, MoveKeeps
<1>. QED BY <1>1, <1>2 DEF Match

LEMMA GuardKeeps ==
  ASSUME IInv, NEW q \in Requests, Guard(q)
  PROVE  IInv'
<1>1. CASE RollBack(q)
  BY <1>1, RollBackKeeps
<1>2. CASE Take(q, ClaimRow(job[q].id)) /\ Goto(q, "write") /\ UNCHANGED <<tables, job>>
  <2>1. TypeOK /\ RequestInv(q) /\ pc[q] = "guard" /\ Free(ClaimRow(job[q].id))
    BY DEF IInv, Guard
  <2>2. /\ job[q].op = "transfer" /\ job[q].coupon = FALSE /\ ClaimRow(job[q].id) \in Rows
        /\ TransferRow(job[q].transfer) \in Rows /\ MatchEntry(job[q].id) \in Rows
    BY <2>1, RowsIn DEF RequestInv, StepOK, ReviewOK, Reviews, TypeOK, Job
  <2>3. ASSUME pc'[q] = "write", \A r \in Rows : lock[r] = q => lock'[r] = q PROVE RequestInv(q)'
    BY <1>2, <2>1, <2>2, <2>3
       DEF RequestInv, StepOK, ReviewOK, GrantsOK, Covers, HoldsCoupon, HoldsTransfer, HoldsWallet,
           Granting, Unmatched, tables
  <2>4. "write" \in Steps
    BY DEF Steps
  <2>. QED BY <1>2, <2>1, <2>2, <2>3, <2>4, GoOnKeeps
<1>. QED BY <1>1, <1>2 DEF Guard

LEMMA WriteGrantKeeps ==
  ASSUME IInv, NEW q \in Requests, WriteGrant(q)
  PROVE  IInv'
<1>1. TypeOK /\ RequestInv(q) /\ pc[q] = "write" /\ job[q] \in Job
  BY DEF IInv, WriteGrant, TypeOK
<1>2. PICK s \in {"decide", "commit"} :
        s = (IF job[q].op = "approve" THEN "decide" ELSE "commit") /\ Goto(q, s)
  BY DEF WriteGrant
<1>3. PICK g \in Grants \cup {None} :
        /\ job' = [job EXCEPT ![q].target = g]
        /\ g # None => Covers(q, g)
        /\ UNCHANGED lock \/ \E r0 \in Rows : Free(r0) /\ Take(q, r0)
  <2>1. CASE job[q].seen # None
    BY <1>1, <2>1, RowsIn DEF WriteGrant, RequestInv, GrantsOK, Job
  <2>2. CASE job[q].seen = None
    <3>1. PICK g \in (IF job[q].plan \in Undated /\ Live(job[q].user, job[q].plan) # {}
                      THEN Live(job[q].user, job[q].plan) ELSE {None}) :
            job' = [job EXCEPT ![q].target = g]
      BY <2>2 DEF WriteGrant
    <3>2. g \in Grants \cup {None} /\ (g # None => Covers(q, g))
      BY <3>1 DEF Live, Covers
    <3>. QED BY <2>2, <3>1, <3>2 DEF WriteGrant
  <2>. QED BY <2>1, <2>2
<1>4. PICK j : j = [job[q] EXCEPT !.target = g]
  OBVIOUS
<1>5. /\ j \in Job /\ j.op = job[q].op /\ j.id = job[q].id /\ j.user = job[q].user
      /\ j.plan = job[q].plan /\ j.coupon = job[q].coupon /\ j.transfer = job[q].transfer
      /\ j.seen = job[q].seen /\ j.target = g
  BY <1>1, <1>3, <1>4 DEF Job
<1>6. job' = [job EXCEPT ![q] = j] /\ UNCHANGED tables /\ s \in Steps
  BY <1>1, <1>3, <1>4 DEF TypeOK, WriteGrant, Steps
<1>7. ASSUME pc'[q] = s, job'[q] = j, \A r \in Rows : lock[r] = q => lock'[r] = q
      PROVE  RequestInv(q)'
  <2>1. job[q].op \in Granting /\ job[q].op # "reject"
    BY <1>1 DEF RequestInv, StepOK, Granting
  <2>2. StepOK(q)' /\ ReviewOK(q)'
    BY <1>1, <1>2, <1>5, <1>6, <1>7, <2>1 DEF RequestInv, StepOK, ReviewOK, Reviews, tables
  <2>3. GrantsOK(q)'
    BY <1>1, <1>3, <1>5, <1>6, <1>7 DEF RequestInv, GrantsOK, Covers, tables
  <2>4. HoldsCoupon(q)'
    BY <1>1, <1>5, <1>6, <1>7, <2>1, RowsIn DEF RequestInv, HoldsCoupon, tables
  <2>5. HoldsTransfer(q)'
    BY <1>1, <1>5, <1>6, <1>7, <2>1, RowsIn
       DEF RequestInv, StepOK, ReviewOK, Reviews, HoldsTransfer, Unmatched, tables
  <2>6. HoldsWallet(q)'
    BY <1>1, <1>5, <1>6, <1>7, <2>1, RowsIn DEF RequestInv, StepOK, HoldsWallet, tables
  <2>. QED BY <2>2, <2>3, <2>4, <2>5, <2>6 DEF RequestInv
<1>8. pc'[q] = s /\ job'[q] = j /\ (\A r \in Rows : lock[r] = q => lock'[r] = q)
        => RequestInv(q)'
  BY <1>7
<1>9. Goto(q, s) /\ j \in Job /\ (UNCHANGED lock \/ \E r0 \in Rows : Free(r0) /\ Take(q, r0))
  BY <1>2, <1>3, <1>5
<1>. QED BY <1>6, <1>8, <1>9, LockKeeps

LEMMA DecideKeeps ==
  ASSUME IInv, NEW q \in Requests, Decide(q)
  PROVE  IInv'
<1>1. PICK s \in {"commit", "release"} :
        s = (IF job[q].op = "approve" THEN "commit" ELSE "release") /\ Goto(q, s)
  BY DEF Decide
<1>2. /\ TypeOK /\ RequestInv(q) /\ pc[q] = "decide" /\ Free(ClaimRow(job[q].id))
      /\ Take(q, ClaimRow(job[q].id)) /\ UNCHANGED <<tables, job>>
  BY DEF IInv, Decide
<1>3. job[q].op \in {"approve", "reject"} /\ job[q].coupon = FALSE /\ ClaimRow(job[q].id) \in Rows
  BY <1>2, RowsIn DEF RequestInv, StepOK, ReviewOK, Reviews, TypeOK, Job
<1>4. lock'[ClaimRow(job[q].id)] = q
  BY <1>2, <1>3, TakeGrows
<1>5. ASSUME pc'[q] = s, \A r \in Rows : lock[r] = q => lock'[r] = q PROVE RequestInv(q)'
  BY <1>1, <1>2, <1>3, <1>4, <1>5
     DEF RequestInv, StepOK, ReviewOK, GrantsOK, Covers, HoldsCoupon, HoldsTransfer, HoldsWallet,
         tables
<1>6. s \in Steps
  BY DEF Steps
<1>. QED BY <1>1, <1>2, <1>3, <1>5, <1>6, GoOnKeeps

LEMMA LockUseKeeps ==
  ASSUME IInv, NEW q \in Requests, LockUse(q)
  PROVE  IInv'
<1>1. /\ TypeOK /\ RequestInv(q) /\ pc[q] = "release" /\ Goto(q, "commit")
      /\ UNCHANGED <<tables, job>>
      /\ IF Releases(q) THEN Free(CouponRow) /\ Take(q, CouponRow) ELSE UNCHANGED lock
  BY DEF IInv, LockUse
<1>2. job[q].op = "reject" /\ job[q].coupon = FALSE /\ ClaimRow(job[q].id) \in Rows
  BY <1>1, RowsIn DEF RequestInv, StepOK, ReviewOK, Reviews, TypeOK, Job
<1>3. claim[job[q].id].use = "held" => lock'[CouponRow] = q
  BY <1>1, TakeGrows, RowsIn DEF Releases
<1>4. ASSUME pc'[q] = "commit", \A r \in Rows : lock[r] = q => lock'[r] = q PROVE RequestInv(q)'
  BY <1>1, <1>2, <1>3, <1>4
     DEF RequestInv, StepOK, ReviewOK, GrantsOK, Covers, HoldsCoupon, HoldsTransfer, HoldsWallet,
         tables
<1>5. "commit" \in Steps
  BY DEF Steps
<1>. QED BY <1>1, <1>4, <1>5, RowsIn, GoOnKeeps

-----------------------------------------------------------------------------
(***************************************************************************)
(* Commits.  What a commit changes, it has locked; what it has not locked  *)
(* it changes only in ways that nobody relies on.                          *)
(***************************************************************************)

\* A filed claim keeps its student and plan, never becomes a purchase, and gains
\* no use of the coupon.
ClaimsKept ==
  \A s \in Ids : claim[s].status # "none" =>
    /\ claim'[s].status # "none"
    /\ claim'[s].user = claim[s].user /\ claim'[s].plan = claim[s].plan
    /\ claim[s].by # "wallet" => claim'[s].by # "wallet"
    /\ claim'[s].use = "held" => claim[s].use = "held"

GrantsKept == \A g \in Grants : grant[g].state # "none" => grant'[g] = grant[g]

SalesKept(q) ==
  \A s \in Ids : claim'[s].by = "wallet" =>
    \/ claim[s].by = "wallet" /\ claim'[s] = claim[s]
    \/ lock[WalletRow(claim'[s].user)] = q

MatchesKept(q) ==
  \A t \in Transfers :
    \/ matched'[t] = matched[t]
    \/ lock[TransferRow(t)] = q /\ lock[MatchEntry(matched'[t])] = q

LEMMA CommitSpares ==
  ASSUME IInv, NEW q \in Requests, NEW o \in Requests \ {q}, Close(q),
         ClaimsKept, GrantsKept, SalesKept(q), MatchesKept(q),
         uses' = uses \/ lock[CouponRow] = q
  PROVE  RequestInv(o)'
<1>1. TypeOK /\ TablesInv /\ RequestInv(o) /\ job[o] \in Job /\ q # o
  BY DEF IInv, TypeOK
<1>2. /\ pc'[o] = pc[o] /\ job'[o] = job[o]
      /\ \A r \in Rows : lock[r] = o => lock'[r] = o
  BY <1>1, CloseFrees
<1>3. StepOK(o)' /\ ReviewOK(o)'
  BY <1>1, <1>2 DEF RequestInv, StepOK, ReviewOK, Reviews, ClaimsKept
<1>4. GrantsOK(o)'
  BY <1>1, <1>2 DEF RequestInv, GrantsOK, Covers, GrantsKept, Job
<1>5. HoldsCoupon(o)'
  <2>1. job[o].op = "reject" => job[o].id \in Ids /\ claim[job[o].id].status # "none"
    BY <1>1 DEF RequestInv, ReviewOK, Reviews
  <2>. QED BY <1>1, <1>2, <2>1, RowsIn DEF RequestInv, HoldsCoupon, ClaimsKept
<1>6. HoldsTransfer(o)'
  <2>1. job[o].op = "transfer" => job[o].id \in Ids /\ job[o].transfer \in Transfers
    BY <1>1 DEF RequestInv, StepOK, ReviewOK, Reviews
  <2>. QED BY <1>1, <1>2, <2>1, RowsIn DEF RequestInv, HoldsTransfer, Unmatched, MatchesKept
<1>7. HoldsWallet(o)'
  <2>1. job[o].op = "purchase" => job[o].user \in Students
    BY <1>1 DEF RequestInv, StepOK
  <2>2. job[o].op = "purchase" /\ pc[o] \in {"read", "write", "commit"} =>
          lock[WalletRow(job[o].user)] = o /\ lock'[WalletRow(job[o].user)] = o
    BY <1>1, <1>2, <2>1, RowsIn DEF RequestInv, HoldsWallet
  <2>3. ASSUME job[o].op = "purchase", pc[o] \in {"write", "commit"}, job[o].plan \in Undated,
               NEW s \in Ids, claim'[s].by = "wallet", claim'[s].user = job[o].user,
               claim'[s].plan = job[o].plan
        PROVE  grant'[claim'[s].grant].state = "revoked"
    <3>1. claim[s].by = "wallet" /\ claim'[s] = claim[s]
      BY <1>1, <2>2, <2>3 DEF SalesKept
    <3>2. grant[claim[s].grant].state = "revoked"
      BY <1>1, <2>3, <3>1 DEF RequestInv, HoldsWallet
    <3>3. claim[s].grant \in Grants
      BY <1>1, <3>1 DEF TablesInv, ClaimInv
    <3>. QED BY <3>1, <3>2, <3>3 DEF GrantsKept
  <2>. QED BY <1>2, <2>2, <2>3 DEF HoldsWallet
<1>. QED BY <1>3, <1>4, <1>5, <1>6, <1>7 DEF RequestInv

\* A commit that spares the others and leaves the tables right keeps everything.
LEMMA CommitLeaves ==
  ASSUME IInv, NEW q \in Requests, Close(q),
         ClaimsKept, GrantsKept, SalesKept(q), MatchesKept(q),
         uses' = uses \/ lock[CouponRow] = q,
         claim' \in [Ids -> Claim], grant' \in [Grants -> Grant],
         matched' \in [Transfers -> Ids \cup {None}], uses' \in 0 .. MaxUses,
         TablesInv'
  PROVE  IInv'
<1>1. TypeOK
  BY DEF IInv
<1>2. TypeOK'
  BY <1>1, CloseFrees DEF TypeOK
<1>3. ASSUME NEW o \in Requests PROVE RequestInv(o)'
  <2>1. CASE o = q
    BY <1>1, <2>1, CloseFrees
  <2>2. CASE o # q
    BY <2>2, CommitSpares
  <2>. QED BY <2>1, <2>2
<1>. QED BY <1>2, <1>3 DEF IInv

\* Claims that do not change keep what they say of their grants.
LEMMA OldClaimsStand ==
  ASSUME IInv, GrantsKept, NEW s \in Ids, claim'[s] = claim[s]
  PROVE  ClaimInv(s)'
BY DEF IInv, TablesInv, ClaimInv, GrantsKept

\* Without a new purchase nothing is sold twice.
LEMMA NoNewSale ==
  ASSUME IInv, GrantsKept,
         \A s \in Ids : claim'[s].by = "wallet" => claim[s].by = "wallet" /\ claim'[s] = claim[s]
  PROVE  NoDoubleSale'
<1>1. \A s \in Ids : claim'[s].by = "wallet" =>
        claim'[s] = claim[s] /\ claim[s].grant \in Grants
          /\ grant'[claim[s].grant] = grant[claim[s].grant] /\ claim[s].by = "wallet"
  BY DEF IInv, TablesInv, ClaimInv, GrantsKept
<1>2. NoDoubleSale
  BY DEF IInv, TablesInv
<1>. QED BY <1>1, <1>2 DEF NoDoubleSale

\* The uses are counted: one more held, one fewer, or none.
LEMMA UsesCounted ==
  ASSUME IInv,
         \/ uses' = uses /\ Held' = Held
         \/ \E s \in Ids : s \notin Held /\ Held' = Held \cup {s} /\ uses' = uses + 1
                             /\ uses < MaxUses
         \/ \E s \in Held : Held' = Held \ {s} /\ uses' = uses - 1
  PROVE  IsFiniteSet(Held') /\ uses' = Cardinality(Held') /\ uses' \in 0 .. MaxUses
<1>1. IsFiniteSet(Held) /\ uses = Cardinality(Held) /\ uses \in 0 .. MaxUses /\ MaxUses \in Nat
  BY UsesType DEF IInv, TablesInv, TypeOK
<1>2. CASE uses' = uses /\ Held' = Held
  BY <1>1, <1>2
<1>3. ASSUME NEW s \in Ids, s \notin Held, Held' = Held \cup {s}, uses' = uses + 1,
             uses < MaxUses
      PROVE  IsFiniteSet(Held') /\ uses' = Cardinality(Held') /\ uses' \in 0 .. MaxUses
  <2>1. IsFiniteSet(Held \cup {s}) /\ Cardinality(Held \cup {s}) = Cardinality(Held) + 1
    BY <1>1, <1>3, FS_AddElement
  <2>. QED BY <1>1, <1>3, <2>1
<1>4. ASSUME NEW s \in Held, Held' = Held \ {s}, uses' = uses - 1
      PROVE  IsFiniteSet(Held') /\ uses' = Cardinality(Held') /\ uses' \in 0 .. MaxUses
  <2>1. IsFiniteSet(Held \ {s}) /\ Cardinality(Held \ {s}) = Cardinality(Held) - 1
    BY <1>1, FS_RemoveElement
  <2>2. Cardinality(Held \ {s}) \in Nat
    BY <2>1, FS_CardinalityType
  <2>. QED BY <1>1, <1>4, <2>1, <2>2
<1>. QED BY <1>2, <1>3, <1>4

\* A new claim, pending or approved, with the use it spends.
LEMMA FreshClaim ==
  ASSUME IInv, NEW q \in Requests, pc[q] = "commit", NEW s \in Ids, claim[s].status = "none",
         NEW n \in Claim, n.status # "none", claim' = [claim EXCEPT ![s] = n],
         n.use = (IF job[q].coupon THEN "held" ELSE "none"), Spend(q),
         n.by = "wallet" => lock[WalletRow(n.user)] = q
  PROVE  /\ claim' \in [Ids -> Claim] /\ claim'[s] = n
         /\ \A x \in Ids \ {s} : claim'[x] = claim[x]
         /\ ClaimsKept /\ SalesKept(q) /\ (uses' = uses \/ lock[CouponRow] = q)
         /\ IsFiniteSet(Held') /\ uses' = Cardinality(Held') /\ uses' \in 0 .. MaxUses
<1>1. TypeOK /\ ClaimInv(s) /\ RequestInv(q)
  BY DEF IInv, TablesInv
<1>2. /\ claim' \in [Ids -> Claim] /\ claim'[s] = n
      /\ \A x \in Ids \ {s} : claim'[x] = claim[x]
  BY <1>1 DEF TypeOK
<1>3. ClaimsKept /\ SalesKept(q)
  BY <1>2 DEF ClaimsKept, SalesKept
<1>4. claim[s].use = "none" /\ (job[q].coupon => lock[CouponRow] = q /\ uses < MaxUses)
  BY <1>1 DEF ClaimInv, RequestInv, HoldsCoupon
<1>5. CASE job[q].coupon
  <2>1. Held' = Held \cup {s} /\ s \notin Held /\ uses' = uses + 1
    BY <1>2, <1>4, <1>5 DEF Held, Spend
  <2>. QED BY <1>2, <1>3, <1>4, <1>5, <2>1, UsesCounted
<1>6. CASE ~job[q].coupon
  <2>1. Held' = Held /\ uses' = uses
    BY <1>2, <1>4, <1>6 DEF Held, Spend
  <2>. QED BY <1>2, <1>3, <2>1, UsesCounted
<1>. QED BY <1>5, <1>6

\* The grant that a commit leaves behind a claim.
LEMMA GrantLeft ==
  ASSUME IInv, NEW q \in Requests, NEW g \in Grants, GrantWritten(q, g)
  PROVE  /\ grant' \in [Grants -> Grant] /\ GrantsKept
         /\ grant'[g].state # "none" /\ grant'[g].user = job[q].user
         /\ grant'[g].plan = job[q].plan
<1>1. TypeOK /\ RequestInv(q) /\ job[q] \in Job
  BY DEF IInv, TypeOK
<1>2. CASE job[q].target # None
  <2>1. g = job[q].target /\ UNCHANGED grant
    BY <1>2 DEF GrantWritten
  <2>2. Covers(q, g)
    BY <1>1, <1>2, <2>1 DEF RequestInv, GrantsOK
  <2>. QED BY <1>1, <2>1, <2>2 DEF TypeOK, GrantsKept, Covers
<1>3. CASE job[q].target = None
  <2>1. PICK n : n = [state |-> "live", user |-> job[q].user, plan |-> job[q].plan]
    OBVIOUS
  <2>2. n \in Grant /\ n.state = "live" /\ n.user = job[q].user /\ n.plan = job[q].plan
    BY <1>1, <2>1 DEF Grant, Job
  <2>3. grant[g].state = "none" /\ grant' = [grant EXCEPT ![g] = n]
    BY <1>3, <2>1 DEF GrantWritten
  <2>4. grant'[g] = n /\ \A h \in Grants \ {g} : grant'[h] = grant[h]
    BY <1>1, <2>3 DEF TypeOK
  <2>5. grant' \in [Grants -> Grant]
    BY <1>1, <2>2, <2>3 DEF TypeOK
  <2>. QED BY <2>2, <2>3, <2>4, <2>5 DEF GrantsKept
<1>. QED BY <1>2, <1>3

LEMMA CommitSubmitKeeps ==
  ASSUME IInv, NEW q \in Requests, pc[q] = "commit", CommitSubmit(q), Close(q)
  PROVE  IInv'
<1>1. TypeOK /\ job[q] \in Job
  BY DEF IInv, TypeOK
<1>2. PICK s \in Ids :
        /\ claim[s].status = "none"
        /\ claim' = [claim EXCEPT ![s] = [NoClaim EXCEPT
                       !.status = "pending", !.user = job[q].user, !.plan = job[q].plan,
                       !.use = IF job[q].coupon THEN "held" ELSE "none"]]
  BY DEF CommitSubmit
<1>3. PICK n : n = [NoClaim EXCEPT
                      !.status = "pending", !.user = job[q].user, !.plan = job[q].plan,
                      !.use = IF job[q].coupon THEN "held" ELSE "none"]
  OBVIOUS
<1>4. /\ n \in Claim /\ n.status = "pending" /\ n.by = "none" /\ n.status # "none"
      /\ n.by # "wallet"
      /\ n.use = IF job[q].coupon THEN "held" ELSE "none"
  BY <1>1, <1>3 DEF Claim, NoClaim, Job
<1>5. claim' = [claim EXCEPT ![s] = n] /\ Spend(q) /\ UNCHANGED <<grant, matched>>
  BY <1>2, <1>3 DEF CommitSubmit
<1>6. /\ claim' \in [Ids -> Claim] /\ claim'[s] = n /\ \A x \in Ids \ {s} : claim'[x] = claim[x]
      /\ ClaimsKept /\ SalesKept(q) /\ (uses' = uses \/ lock[CouponRow] = q)
      /\ IsFiniteSet(Held') /\ uses' = Cardinality(Held') /\ uses' \in 0 .. MaxUses
  <2>1. claim[s].status = "none"
    BY <1>2
  <2>2. n.use = (IF job[q].coupon THEN "held" ELSE "none")
    BY <1>4
  <2>. QED BY <1>4, <1>5, <2>1, <2>2, FreshClaim
<1>7. /\ GrantsKept /\ MatchesKept(q) /\ grant' \in [Grants -> Grant]
      /\ matched' \in [Transfers -> Ids \cup {None}]
  BY <1>1, <1>5 DEF GrantsKept, MatchesKept, TypeOK
<1>8. NoDoubleSale'
  BY <1>4, <1>6, <1>7, NoNewSale
<1>9. \A x \in Ids : ClaimInv(x)'
  <2>1. ClaimInv(s)'
    BY <1>4, <1>6 DEF ClaimInv
  <2>2. ASSUME NEW x \in Ids \ {s} PROVE ClaimInv(x)'
    BY <1>6, <1>7, OldClaimsStand
  <2>. QED BY <2>1, <2>2
<1>10. MatchedOnce'
  BY <1>5 DEF IInv, TablesInv, MatchedOnce
<1>11. TablesInv'
  BY <1>6, <1>8, <1>9, <1>10 DEF TablesInv
<1>. QED BY <1>6, <1>7, <1>11, CommitLeaves

\* What a purchase sells, every earlier purchase has lost.
LEMMA CommitSaleKeeps ==
  ASSUME IInv, NEW q \in Requests, pc[q] = "commit", CommitSale(q), Close(q)
  PROVE  IInv'
<1>1. TypeOK /\ job[q] \in Job /\ RequestInv(q) /\ job[q].op \in {"purchase", "manual"}
  BY DEF IInv, TypeOK, CommitSale
<1>2. PICK by \in {"manual", "wallet"} : by = IF job[q].op = "manual" THEN "manual" ELSE "wallet"
  OBVIOUS
<1>3. PICK s \in Ids, g \in Grants :
        claim[s].status = "none" /\ GrantWritten(q, g) /\ CreateApproved(q, s, g, by)
  BY <1>2 DEF CommitSale
<1>4. PICK n : n = [status |-> "approved", user |-> job[q].user,
                    plan |-> job[q].plan, grant |-> g, by |-> by,
                    use |-> IF job[q].coupon THEN "held" ELSE "none"]
  OBVIOUS
<1>5. /\ n \in Claim /\ n.status = "approved" /\ n.user = job[q].user /\ n.plan = job[q].plan
      /\ n.grant = g /\ n.by = by /\ n.use = IF job[q].coupon THEN "held" ELSE "none"
  BY <1>1, <1>4 DEF Claim, Job
<1>6. claim' = [claim EXCEPT ![s] = n] /\ Spend(q) /\ UNCHANGED matched
  BY <1>3, <1>4 DEF CommitSale, CreateApproved
<1>7. by = "wallet" => job[q].op = "purchase" /\ lock[WalletRow(job[q].user)] = q
  BY <1>1, <1>2 DEF RequestInv, HoldsWallet
<1>8. /\ claim' \in [Ids -> Claim] /\ claim'[s] = n /\ \A x \in Ids \ {s} : claim'[x] = claim[x]
      /\ ClaimsKept /\ SalesKept(q) /\ (uses' = uses \/ lock[CouponRow] = q)
      /\ IsFiniteSet(Held') /\ uses' = Cardinality(Held') /\ uses' \in 0 .. MaxUses
  <2>1. n.status # "none" /\ (n.by = "wallet" => lock[WalletRow(n.user)] = q)
    BY <1>5, <1>7
  <2>. QED BY <1>3, <1>5, <1>6, <2>1, FreshClaim
<1>9. /\ grant' \in [Grants -> Grant] /\ GrantsKept /\ grant'[g].state # "none"
      /\ grant'[g].user = job[q].user /\ grant'[g].plan = job[q].plan
  BY <1>3, GrantLeft
<1>10. MatchesKept(q) /\ matched' \in [Transfers -> Ids \cup {None}]
  BY <1>1, <1>6 DEF MatchesKept, TypeOK
<1>11. \A x \in Ids : ClaimInv(x)'
  <2>1. ClaimInv(s)'
    BY <1>5, <1>8, <1>9 DEF ClaimInv
  <2>2. ASSUME NEW x \in Ids \ {s} PROVE ClaimInv(x)'
    BY <1>8, <1>9, OldClaimsStand
  <2>. QED BY <2>1, <2>2
<1>12. NoDoubleSale'
  <2>1. CASE by = "manual"
    BY <1>5, <1>8, <1>9, <2>1, NoNewSale
  <2>2. CASE by = "wallet"
    <3>1. ASSUME job[q].plan \in Undated, NEW x \in Ids \ {s}, claim'[x].by = "wallet",
                 claim'[x].user = job[q].user, claim'[x].plan = job[q].plan
          PROVE  grant'[claim'[x].grant].state = "revoked"
      <4>1. claim'[x] = claim[x] /\ grant[claim[x].grant].state = "revoked"
        BY <1>1, <1>7, <1>8, <2>2, <3>1 DEF RequestInv, HoldsWallet
      <4>2. claim[x].grant \in Grants
        BY <3>1, <4>1 DEF IInv, TablesInv, ClaimInv
      <4>. QED BY <1>9, <4>1, <4>2 DEF GrantsKept
    <3>2. ASSUME NEW x \in Ids \ {s}, NEW y \in Ids \ {s}, x # y,
                 claim[x].by = "wallet", claim[y].by = "wallet",
                 claim[x].user = claim[y].user, claim[x].plan = claim[y].plan,
                 claim[x].plan \in Undated
          PROVE  grant'[claim[x].grant].state = "revoked" \/ grant'[claim[y].grant].state = "revoked"
      <4>1. claim[x].grant \in Grants /\ claim[y].grant \in Grants
        BY <3>2 DEF IInv, TablesInv, ClaimInv
      <4>2. grant[claim[x].grant].state = "revoked" \/ grant[claim[y].grant].state = "revoked"
        BY <3>2 DEF IInv, TablesInv, NoDoubleSale
      <4>. QED BY <1>9, <4>1, <4>2 DEF GrantsKept
    <3>3. ASSUME NEW x \in Ids, NEW y \in Ids, x # y,
                 claim'[x].by = "wallet", claim'[y].by = "wallet",
                 claim'[x].user = claim'[y].user, claim'[x].plan = claim'[y].plan,
                 claim'[x].plan \in Undated
          PROVE  grant'[claim'[x].grant].state = "revoked" \/ grant'[claim'[y].grant].state = "revoked"
      <4>1. CASE x = s
        BY <1>5, <1>8, <3>1, <3>3, <4>1
      <4>2. CASE y = s
        BY <1>5, <1>8, <3>1, <3>3, <4>2
      <4>3. CASE x # s /\ y # s
        BY <1>8, <3>2, <3>3, <4>3
      <4>. QED BY <4>1, <4>2, <4>3
    <3>. QED BY <3>3 DEF NoDoubleSale
  <2>. QED BY <2>1, <2>2
<1>13. MatchedOnce'
  BY <1>6 DEF IInv, TablesInv, MatchedOnce
<1>14. TablesInv'
  BY <1>8, <1>11, <1>12, <1>13 DEF TablesInv
<1>. QED BY <1>8, <1>9, <1>10, <1>14, CommitLeaves

\* The claim takes the grant it read the student and the plan for; a transfer
\* that is matched was nobody's, and so was the claim.
LEMMA CommitApprovalKeeps ==
  ASSUME IInv, NEW q \in Requests, pc[q] = "commit", CommitApproval(q), Close(q)
  PROVE  IInv'
<1>1. /\ TypeOK /\ TablesInv /\ job[q] \in Job /\ RequestInv(q)
      /\ job[q].op \in {"approve", "transfer"}
  BY DEF IInv, TypeOK, CommitApproval
<1>0. PICK s \in Ids : s = job[q].id
  BY <1>1 DEF RequestInv, ReviewOK, Reviews
<1>2. /\ claim[s] \in Claim /\ claim[s].status # "none" /\ claim[s].by # "wallet"
      /\ claim[s].user = job[q].user /\ claim[s].plan = job[q].plan
  BY <1>0, <1>1 DEF RequestInv, ReviewOK, Reviews, TypeOK
<1>3. PICK g \in Grants : GrantWritten(q, g) /\ Approved(q, g)
  BY DEF CommitApproval
<1>4. PICK n : n = [claim[s] EXCEPT !.status = "approved", !.grant = g,
                      !.by = IF job[q].op = "transfer" THEN "transfer" ELSE "review"]
  OBVIOUS
<1>5. /\ n \in Claim /\ n.status = "approved" /\ n.user = claim[s].user /\ n.plan = claim[s].plan
      /\ n.grant = g /\ n.by # "wallet" /\ n.use = claim[s].use
  BY <1>2, <1>4 DEF Claim
<1>6. claim' = [claim EXCEPT ![s] = n]
  BY <1>0, <1>1, <1>2, <1>3, <1>4 DEF Approved, TypeOK
<1>7. /\ claim' \in [Ids -> Claim] /\ claim'[s] = n /\ \A x \in Ids \ {s} : claim'[x] = claim[x]
  BY <1>1, <1>2, <1>5, <1>6 DEF TypeOK
<1>8. /\ grant' \in [Grants -> Grant] /\ GrantsKept /\ grant'[g].state # "none"
      /\ grant'[g].user = job[q].user /\ grant'[g].plan = job[q].plan
  BY <1>3, GrantLeft
<1>9. ClaimsKept /\ SalesKept(q)
  BY <1>2, <1>5, <1>7 DEF ClaimsKept, SalesKept
<1>10. IsFiniteSet(Held') /\ uses' = Cardinality(Held') /\ uses' \in 0 .. MaxUses /\ uses' = uses
  <2>1. Held' = Held /\ uses' = uses
    BY <1>2, <1>5, <1>7 DEF Held, CommitApproval
  <2>. QED BY <2>1, UsesCounted
<1>11. \A x \in Ids : ClaimInv(x)'
  <2>1. ClaimInv(s)'
    BY <1>2, <1>5, <1>7, <1>8 DEF ClaimInv
  <2>2. ASSUME NEW x \in Ids \ {s} PROVE ClaimInv(x)'
    BY <1>7, <1>8, OldClaimsStand
  <2>. QED BY <2>1, <2>2
<1>12. NoDoubleSale'
  BY <1>5, <1>7, <1>8, NoNewSale
<1>13. /\ matched' \in [Transfers -> Ids \cup {None}] /\ MatchesKept(q) /\ MatchedOnce'
  <2>1. CASE job[q].op = "approve"
    BY <1>1, <2>1 DEF CommitApproval, TypeOK, MatchesKept, TablesInv, MatchedOnce
  <2>2. CASE job[q].op = "transfer"
    <3>1. PICK t \in Transfers : t = job[q].transfer
      BY <1>1, <2>2 DEF RequestInv, StepOK
    <3>2. /\ lock[TransferRow(t)] = q /\ lock[MatchEntry(s)] = q
          /\ matched[t] = None /\ \A x \in Transfers : matched[x] # s
      BY <1>0, <1>1, <2>2, <3>1 DEF RequestInv, HoldsTransfer, Unmatched
    <3>3. matched' = [matched EXCEPT ![t] = s]
      BY <1>0, <2>2, <3>1 DEF CommitApproval
    <3>4. matched'[t] = s /\ \A x \in Transfers \ {t} : matched'[x] = matched[x]
      BY <1>1, <3>3 DEF TypeOK
    <3>5. matched' \in [Transfers -> Ids \cup {None}]
      BY <1>1, <1>2, <3>3 DEF TypeOK
    <3>6. MatchesKept(q)
      BY <3>2, <3>4 DEF MatchesKept
    <3>7. MatchedOnce'
      BY <1>1, <3>2, <3>4 DEF TablesInv, MatchedOnce
    <3>. QED BY <3>5, <3>6, <3>7
  <2>. QED BY <1>1, <2>1, <2>2
<1>14. TablesInv'
  BY <1>10, <1>11, <1>12, <1>13 DEF TablesInv
<1>. QED BY <1>7, <1>8, <1>9, <1>10, <1>13, <1>14, CommitLeaves

\* The use that is given back was held, and is no longer.
LEMMA CommitRejectionKeeps ==
  ASSUME IInv, NEW q \in Requests, pc[q] = "commit", CommitRejection(q), Close(q)
  PROVE  IInv'
<1>1. TypeOK /\ TablesInv /\ RequestInv(q) /\ job[q].op = "reject"
  BY DEF IInv, CommitRejection
<1>0. PICK s \in Ids : s = job[q].id
  BY <1>1 DEF RequestInv, ReviewOK, Reviews
<1>2. /\ claim[s] \in Claim /\ claim[s].status # "none" /\ claim[s].by # "wallet"
  BY <1>0, <1>1 DEF RequestInv, ReviewOK, Reviews, TypeOK
<1>3. PICK n : n = [claim[s] EXCEPT !.status = "rejected",
                                    !.use = IF Releases(q) THEN "released" ELSE claim[s].use]
  OBVIOUS
<1>4. /\ n \in Claim /\ n.status = "rejected" /\ n.user = claim[s].user /\ n.plan = claim[s].plan
      /\ n.by = claim[s].by /\ n.use = IF Releases(q) THEN "released" ELSE claim[s].use
  BY <1>2, <1>3 DEF Claim
<1>5. claim' = [claim EXCEPT ![s] = n] /\ UNCHANGED <<grant, matched>>
  BY <1>0, <1>1, <1>2, <1>3 DEF CommitRejection, TypeOK
<1>6. /\ claim' \in [Ids -> Claim] /\ claim'[s] = n /\ \A x \in Ids \ {s} : claim'[x] = claim[x]
  BY <1>1, <1>2, <1>4, <1>5 DEF TypeOK
<1>13. uses' = IF Releases(q) THEN uses - 1 ELSE uses
  BY DEF CommitRejection
<1>7. ClaimsKept /\ SalesKept(q)
  BY <1>0, <1>2, <1>4, <1>6 DEF ClaimsKept, SalesKept, Releases
<1>8. /\ GrantsKept /\ MatchesKept(q) /\ grant' \in [Grants -> Grant]
      /\ matched' \in [Transfers -> Ids \cup {None}] /\ MatchedOnce'
  BY <1>1, <1>5 DEF GrantsKept, MatchesKept, TypeOK, TablesInv, MatchedOnce
<1>9. /\ IsFiniteSet(Held') /\ uses' = Cardinality(Held') /\ uses' \in 0 .. MaxUses
      /\ (uses' = uses \/ lock[CouponRow] = q)
  <2>1. CASE Releases(q)
    <3>1. s \in Held /\ Held' = Held \ {s} /\ uses' = uses - 1
      BY <1>0, <1>2, <1>4, <1>6, <1>13, <2>1 DEF Held, Releases
    <3>2. lock[CouponRow] = q
      BY <1>0, <1>1, <2>1 DEF RequestInv, HoldsCoupon, Releases
    <3>. QED BY <3>1, <3>2, UsesCounted
  <2>2. CASE ~Releases(q)
    <3>1. Held' = Held /\ uses' = uses
      BY <1>0, <1>2, <1>4, <1>6, <1>13, <2>2 DEF Held
    <3>. QED BY <3>1, UsesCounted
  <2>. QED BY <2>1, <2>2
<1>10. \A x \in Ids : ClaimInv(x)'
  <2>1. ClaimInv(s)'
    BY <1>2, <1>4, <1>6 DEF ClaimInv
  <2>2. ASSUME NEW x \in Ids \ {s} PROVE ClaimInv(x)'
    BY <1>6, <1>8, OldClaimsStand
  <2>. QED BY <2>1, <2>2
<1>11. NoDoubleSale'
  BY <1>2, <1>4, <1>6, <1>8, NoNewSale
<1>12. TablesInv'
  BY <1>8, <1>9, <1>10, <1>11 DEF TablesInv
<1>. QED BY <1>6, <1>7, <1>8, <1>9, <1>12, CommitLeaves

\* A cancellation revokes a grant; its student and plan stand.
LEMMA CancelKeeps ==
  ASSUME IInv, NEW g \in Grants, Cancel(g)
  PROVE  IInv'
<1>1. TypeOK /\ TablesInv /\ grant[g] \in Grant /\ grant[g].state = "live"
  BY DEF IInv, TypeOK, Cancel
<1>2. PICK n : n = [grant[g] EXCEPT !.state = "revoked"]
  OBVIOUS
<1>3. n \in Grant /\ n.state = "revoked" /\ n.user = grant[g].user /\ n.plan = grant[g].plan
  BY <1>1, <1>2 DEF Grant
<1>4. grant' = [grant EXCEPT ![g] = n] /\ UNCHANGED <<claim, matched, uses, lock, pc, job>>
  BY <1>1, <1>2 DEF Cancel, TypeOK
<1>5. grant' \in [Grants -> Grant]
  BY <1>1, <1>3, <1>4 DEF TypeOK
<1>6. \A h \in Grants :
        /\ grant'[h].user = grant[h].user /\ grant'[h].plan = grant[h].plan
        /\ grant[h].state # "none" => grant'[h].state # "none"
        /\ grant[h].state = "revoked" => grant'[h].state = "revoked"
  BY <1>1, <1>3, <1>4 DEF TypeOK
<1>7. TypeOK'
  BY <1>1, <1>4, <1>5 DEF TypeOK
<1>8. TablesInv'
  <2>1. \A s \in Ids : ClaimInv(s)'
    BY <1>1, <1>4, <1>6 DEF TablesInv, ClaimInv
  <2>2. NoDoubleSale'
    BY <1>1, <1>4, <1>6 DEF TablesInv, ClaimInv, NoDoubleSale
  <2>3. (IsFiniteSet(Held) /\ uses = Cardinality(Held))' /\ MatchedOnce'
    BY <1>1, <1>4 DEF TablesInv, Held, MatchedOnce
  <2>. QED BY <2>1, <2>2, <2>3 DEF TablesInv
<1>9. ASSUME NEW q \in Requests PROVE RequestInv(q)'
  <2>1. RequestInv(q) /\ job[q] \in Job
    BY <1>1 DEF IInv, TypeOK
  <2>2. StepOK(q)' /\ ReviewOK(q)' /\ HoldsCoupon(q)' /\ HoldsTransfer(q)'
    BY <1>4, <2>1 DEF RequestInv, StepOK, ReviewOK, HoldsCoupon, HoldsTransfer, Unmatched
  <2>3. GrantsOK(q)'
    BY <1>4, <1>6, <2>1 DEF RequestInv, GrantsOK, Covers, Job
  <2>4. \A s \in Ids : claim[s].by = "wallet" => claim[s].grant \in Grants
    BY <1>1 DEF TablesInv, ClaimInv
  <2>5. HoldsWallet(q)'
    BY <1>4, <1>6, <2>1, <2>4 DEF RequestInv, HoldsWallet
  <2>. QED BY <2>2, <2>3, <2>5 DEF RequestInv
<1>. QED BY <1>7, <1>8, <1>9 DEF IInv

-----------------------------------------------------------------------------
(***************************************************************************)
(* The theorems.                                                           *)
(***************************************************************************)

LEMMA RunKeeps ==
  ASSUME IInv, NEW q \in Requests, Run(q)
  PROVE  IInv'
<1>1. CASE Commit(q)
  <2>1. pc[q] = "commit" /\ Close(q)
    BY <1>1 DEF Commit
  <2>. QED BY <1>1, <2>1, CommitSubmitKeeps, CommitSaleKeeps, CommitApprovalKeeps,
              CommitRejectionKeeps DEF Commit
<1>. QED BY <1>1, ClaimCouponKeeps, DebitKeeps, RecheckKeeps, MatchKeeps, GuardKeeps,
            WriteGrantKeeps, DecideKeeps, LockUseKeeps DEF Run

LEMMA NextKeeps == IInv /\ [Next]_vars => IInv'
<1> SUFFICES ASSUME IInv, [Next]_vars PROVE IInv'
  OBVIOUS
<1>1. CASE UNCHANGED vars
  <2>1. UNCHANGED tables /\ UNCHANGED <<lock, pc, job>>
    BY <1>1 DEF vars
  <2>2. TypeOK'
    BY <2>1 DEF IInv, TypeOK, tables
  <2>3. TablesInv'
    BY <2>1, TablesStand DEF IInv
  <2>4. ASSUME NEW q \in Requests PROVE RequestInv(q)'
    BY <2>1, BystanderKeeps DEF IInv
  <2>. QED BY <2>2, <2>3, <2>4 DEF IInv
<1>2. ASSUME NEW q \in Requests, Start(q) PROVE IInv'
  BY <1>2, StartKeeps
<1>3. ASSUME NEW q \in Requests, Run(q) PROVE IInv'
  BY <1>3, RunKeeps
<1>4. ASSUME NEW q \in Requests, Abort(q) PROVE IInv'
  BY <1>4, RollBackKeeps DEF Abort
<1>5. ASSUME NEW g \in Grants, Cancel(g) PROVE IInv'
  BY <1>5, CancelKeeps
<1>. QED BY <1>1, <1>2, <1>3, <1>4, <1>5 DEF Next

\* The inductive invariant: the rows agree with each other, and what each
\* request found under its locks is still so.
THEOREM ClaimsInvariant == Spec => []IInv
BY InitEstablishes, NextKeeps, PTL DEF Spec

\* Every column stays in its range; in particular the coupon's count never
\* passes max_uses and never falls below zero, however many requests claim the
\* last use or give one back at once.
THEOREM TypeCorrect == Spec => []TypeOK
<1>1. IInv => TypeOK
  BY DEF IInv
<1>. QED BY <1>1, ClaimsInvariant, PTL

\* The coupon's count is the number of uses that claims hold: submit and
\* purchaseFromWallet spend one with the claim they file, reject gives it back once.
THEOREM UsesAreHeldAlways == Spec => []UsesAreHeld
<1>1. IInv => UsesAreHeld
  BY DEF IInv, TablesInv, Held, UsesAreHeld
<1>. QED BY <1>1, ClaimsInvariant, PTL

\* No two purchases from the wallet opened the same term of a student, unless
\* the grant of one was revoked: purchaseFromWallet asks again under the wallet's lock.
THEOREM NoDoubleSaleAlways == Spec => []NoDoubleSale
<1>1. IInv => NoDoubleSale
  BY DEF IInv, TablesInv
<1>. QED BY <1>1, ClaimsInvariant, PTL

\* An approved claim has a grant of its student for its plan behind it, whichever
\* of the four paths approved it.
THEOREM ApprovedIsBackedAlways == Spec => []ApprovedIsBacked
<1>1. IInv => ApprovedIsBacked
  BY NoneIsNew DEF IInv, TablesInv, ClaimInv, ApprovedIsBacked
<1>. QED BY <1>1, ClaimsInvariant, PTL

\* A transfer that is matched stays matched, and no two transfers pay for one
\* claim: approveFromTransfer matches under the UNIQUE index.
THEOREM TransferPaysOnceAlways == Spec => TransferPaysOnce
<1> DEFINE Kept == \A t \in Transfers : matched[t] # None => matched'[t] = matched[t]
           Once == \A t, x \in Transfers :
                     matched'[t] # None /\ matched'[t] = matched'[x] => t = x
<1>1. IInv /\ [Next]_vars => [Kept /\ Once]_vars
  <2> SUFFICES ASSUME IInv, [Next]_vars PROVE Kept /\ Once
    OBVIOUS
  <2>1. Once
    <3>1. IInv'
      BY NextKeeps
    <3>2. MatchedOnce'
      BY <3>1 DEF IInv, TablesInv
    <3>. QED BY <3>2 DEF MatchedOnce
  <2>2. Kept
    <3>1. CASE UNCHANGED matched
      BY <3>1
    <3>2. ASSUME NEW q \in Requests, pc[q] = "commit", CommitApproval(q), job[q].op = "transfer"
          PROVE  Kept
      <4>1. matched[job[q].transfer] = None
        BY <3>2 DEF IInv, RequestInv, HoldsTransfer, Unmatched
      <4>. QED BY <3>2, <4>1 DEF CommitApproval, IInv, TypeOK
    <3>3. UNCHANGED matched \/ \E q \in Requests :
            pc[q] = "commit" /\ CommitApproval(q) /\ job[q].op = "transfer"
      <4>1. ASSUME NEW q \in Requests, Start(q) PROVE UNCHANGED matched
        BY <4>1 DEF Start, StartManual, StartSubmit, StartPurchase, StartApprove, StartReject,
                    StartTransfer, Begin, tables
      <4>2. ASSUME NEW q \in Requests, Run(q), ~Commit(q) PROVE UNCHANGED matched
        BY <4>2 DEF Run, ClaimCoupon, Debit, Recheck, Match, Guard, WriteGrant, Decide, LockUse,
                    RollBack, tables
      <4>3. ASSUME NEW q \in Requests, Commit(q)
            PROVE  UNCHANGED matched \/ (pc[q] = "commit" /\ CommitApproval(q)
                                           /\ job[q].op = "transfer")
        BY <4>3 DEF Commit, CommitSubmit, CommitSale, CommitApproval, CommitRejection
      <4>4. ASSUME NEW q \in Requests, Abort(q) PROVE UNCHANGED matched
        BY <4>4 DEF Abort, RollBack, tables
      <4>5. ASSUME NEW g \in Grants, Cancel(g) PROVE UNCHANGED matched
        BY <4>5 DEF Cancel
      <4>6. CASE UNCHANGED vars
        BY <4>6 DEF vars, tables
      <4>. QED BY <4>1, <4>2, <4>3, <4>4, <4>5, <4>6 DEF Next
    <3>. QED BY <3>1, <3>2, <3>3
  <2>. QED BY <2>1, <2>2
<1>2. Spec => [][Kept /\ Once]_vars
  BY <1>1, ClaimsInvariant, PTL DEF Spec
<1>. QED BY <1>2, PTL DEF TransferPaysOnce
=============================================================================
