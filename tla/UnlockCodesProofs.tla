-------------------------- MODULE UnlockCodesProofs --------------------------
(***************************************************************************)
(* Proofs about UnlockCodes for any number of requests, students and       *)
(* codes: a redemption that has passed its conditional update holds the    *)
(* row of the code, so what it found there is still so when it commits.    *)
(***************************************************************************)
EXTENDS UnlockCodes, SequenceTheorems, TLAPS

\* What only Create, Delete and the commit of a redemption or a pull change.
codeTables == <<made, redeemer, revoked, grants, loose, credits>>

LEMMA RowsApart ==
  /\ \A c, d \in Codes : CodeRow(c) = CodeRow(d) => c = d
  /\ \A c \in Codes : CodeRow(c) \in Rows
BY DEF CodeRow, Rows

\* What a pull does to a sequence of grants.
Ended(g)  == [g EXCEPT !.live = FALSE]
EndAll(s) == [i \in DOMAIN s |-> Ended(s[i])]

LEMMA EndedGrant ==
  ASSUME NEW g \in Grant
  PROVE  /\ Ended(g) \in Grant
         /\ Ended(g).holder = g.holder
         /\ Ended(g).live = FALSE
BY DEF Ended, Grant

LEMMA EndAllGrants ==
  ASSUME NEW s \in Seq(Grant)
  PROVE  /\ EndAll(s) \in Seq(Grant)
         /\ Len(EndAll(s)) = Len(s)
         /\ \A i \in 1 .. Len(s) : EndAll(s)[i].holder = s[i].holder /\ EndAll(s)[i].live = FALSE
<1>1. DOMAIN s = 1 .. Len(s) /\ Len(s) \in Nat
  BY LenProperties
<1>2. \A i \in 1 .. Len(s) : s[i] \in Grant
  BY ElementOfSeq
<1>3. EndAll(s) = [i \in 1 .. Len(s) |-> Ended(s[i])]
  BY <1>1 DEF EndAll
<1>4. EndAll(s) \in [1 .. Len(s) -> Grant]
  BY <1>2, <1>3, EndedGrant
<1>5. EndAll(s) \in Seq(Grant)
  <2>1. \A n \in Nat : [1 .. n -> Grant] \subseteq Seq(Grant)
    BY SeqDef, Zenon
  <2>2. QED
    BY <1>1, <1>4, <2>1
<1>6. Len(EndAll(s)) = Len(s)
  <2>1. DOMAIN EndAll(s) = 1 .. Len(s)
    BY <1>3
  <2>2. DOMAIN EndAll(s) = 1 .. Len(EndAll(s)) /\ Len(EndAll(s)) \in Nat
    BY <1>5, LenProperties
  <2>3. ASSUME NEW a \in Nat, NEW b \in Nat, 1 .. a = 1 .. b PROVE a = b
    <3>1. a \in 1 .. a \/ a = 0
      OBVIOUS
    <3>2. b \in 1 .. b \/ b = 0
      OBVIOUS
    <3>3. a <= b /\ b <= a
      BY <2>3, <3>1, <3>2
    <3>4. QED
      BY <3>3
  <2>4. QED
    BY <1>1, <2>1, <2>2, <2>3
<1>7. \A i \in 1 .. Len(s) : EndAll(s)[i] = Ended(s[i])
  BY <1>3
<1>8. ASSUME NEW i \in 1 .. Len(s)
      PROVE  EndAll(s)[i].holder = s[i].holder /\ EndAll(s)[i].live = FALSE
  <2>1. s[i] \in Grant /\ EndAll(s)[i] = Ended(s[i])
    BY <1>2, <1>7
  <2>2. QED
    BY <2>1, EndedGrant
<1>9. QED
  BY <1>5, <1>6, <1>8

LEMMA InitInv == Init => IInv
<1> SUFFICES ASSUME Init PROVE IInv
  OBVIOUS
<1>1. NoJob \in Job
  BY DEF NoJob, Job
<1>2. TypeOK
  BY <1>1 DEF Init, TypeOK
<1>3. SpentIffDelivered
  BY DEF Init, SpentIffDelivered, Receivers, Codes
<1>4. AnswersAreTrue /\ \A q \in Requests : StepOK(q) /\ HoldsCode(q)
  BY DEF Init, AnswersAreTrue, StepOK, HoldsCode, NoJob
<1>5. QED
  BY <1>2, <1>3, <1>4 DEF IInv

-----------------------------------------------------------------------------
(***************************************************************************)
(* Types.                                                                  *)
(***************************************************************************)

LEMMA StartTypes ==
  ASSUME TypeOK, NEW q \in Requests, Start(q)
  PROVE  TypeOK' /\ UNCHANGED <<tables, lock>>
<1>1. ASSUME NEW j \in Job, NEW s \in Steps, Begin(q, j, s)
      PROVE  TypeOK' /\ UNCHANGED <<tables, lock>>
  BY <1>1 DEF Begin, TypeOK, tables
<1>2. ASSUME NEW j \in Job, NEW a, Refuse(q, j, a),
             a \in {"locked", "invalid", "revoked", "again", "used", "course_unavailable",
                    "error", "not_found", "already", "wallet_code_used"}
      PROVE  TypeOK' /\ UNCHANGED <<tables, lock>>
  BY <1>2 DEF Refuse, TypeOK, tables
<1>3. ASSUME NEW u \in Students, NEW c \in Codes, StartRedeem(q, u, c)
      PROVE  TypeOK' /\ UNCHANGED <<tables, lock>>
  <2>1. [NoJob EXCEPT !.op = "redeem", !.code = c, !.user = u] \in Job
    BY DEF NoJob, Job, Ops
  <2>2. QED
    BY <1>1, <1>2, <1>3, <2>1 DEF StartRedeem, Steps
<1>4. ASSUME NEW c \in Codes, StartRevoke(q, c)
      PROVE  TypeOK' /\ UNCHANGED <<tables, lock>>
  <2>1. [NoJob EXCEPT !.op = "revoke", !.code = c, !.user = redeemer[c]] \in Job
    BY DEF NoJob, Job, Ops, TypeOK
  <2>2. QED
    BY <1>1, <1>2, <1>4, <2>1 DEF StartRevoke, Steps
<1>5. ASSUME NEW c \in Codes, StartRemove(q, c)
      PROVE  TypeOK' /\ UNCHANGED <<tables, lock>>
  <2>1. [NoJob EXCEPT !.op = "remove", !.code = c] \in Job
    BY DEF NoJob, Job, Ops
  <2>2. QED
    BY <1>1, <1>2, <1>5, <2>1 DEF StartRemove, Steps
<1>6. ASSUME NEW u \in Students, StartSubscribe(q, u)
      PROVE  TypeOK' /\ UNCHANGED <<tables, lock>>
  <2>1. [NoJob EXCEPT !.op = "subscribe", !.user = u, !.writes = TRUE] \in Job
    BY DEF NoJob, Job, Ops
  <2>2. QED
    BY <1>1, <1>6, <2>1 DEF StartSubscribe, Steps
<1>7. QED
  BY <1>3, <1>4, <1>5, <1>6 DEF Start

LEMMA FailTypes ==
  ASSUME TypeOK, NEW q \in Requests, NEW a \in {"used", "error"}, Fail(q, a)
  PROVE  TypeOK' /\ UNCHANGED tables
BY DEF Fail, Release, TypeOK, tables

\* A statement that succeeds and writes nothing anybody else can see.
LEMMA GotoTypes ==
  ASSUME TypeOK, NEW q \in Requests, NEW s \in Steps, Goto(q, s), UNCHANGED tables,
         job' \in [Requests -> Job],
         UNCHANGED lock \/ \E r : Take(q, r)
  PROVE  TypeOK' /\ UNCHANGED tables
<1>1. lock' \in [Rows -> Requests \cup {Nobody}]
  BY DEF TypeOK, Take
<1>2. pc' \in [Requests -> Steps \cup {"idle", "answered"}] /\ UNCHANGED answer
  BY DEF TypeOK, Goto
<1>3. QED
  BY <1>1, <1>2 DEF TypeOK, tables

LEMMA WritesTypes ==
  ASSUME TypeOK, NEW q \in Requests, NEW b \in BOOLEAN,
         job' = [job EXCEPT ![q].writes = b]
  PROVE  job' \in [Requests -> Job]
<1>1. ASSUME NEW j \in Job PROVE [j EXCEPT !.writes = b] \in Job
  BY DEF Job
<1>2. job[q] \in Job /\ job \in [Requests -> Job]
  BY DEF TypeOK
<1>3. job' = [job EXCEPT ![q] = [job[q] EXCEPT !.writes = b]]
  OBVIOUS
<1>4. QED
  BY <1>1, <1>2, <1>3

LEMMA QuietTypes ==
  ASSUME TypeOK, NEW q \in Requests,
         Spend(q) \/ Credit(q) \/ Enrol(q) \/ Write(q) \/ Overwrite(q) \/ Pull(q) \/ Settle(q)
  PROVE  TypeOK' /\ UNCHANGED tables
<1> USE DEF Steps
<1>0. ASSUME UNCHANGED job PROVE job' \in [Requests -> Job]
  BY <1>0 DEF TypeOK
<1>1. CASE Spend(q)
  BY <1>0, <1>1, FailTypes, GotoTypes DEF Spend
<1>2. CASE Credit(q)
  BY <1>0, <1>2, FailTypes, GotoTypes DEF Credit
<1>3. CASE Enrol(q)
  <2>1. \E b \in BOOLEAN : job' = [job EXCEPT ![q].writes = b]
    BY <1>3 DEF Enrol
  <2>2. QED
    BY <1>3, <2>1, WritesTypes, GotoTypes DEF Enrol
<1>4. CASE Write(q)
  BY <1>0, <1>4, FailTypes, GotoTypes DEF Write
<1>5. CASE Overwrite(q)
  BY <1>0, <1>5, GotoTypes DEF Overwrite
<1>6. CASE Pull(q)
  BY <1>0, <1>6, FailTypes, GotoTypes DEF Pull
<1>7. CASE Settle(q)
  <2>1. \E b \in BOOLEAN : job' = [job EXCEPT ![q].writes = b]
    BY <1>7 DEF Settle, CodeOnly
  <2>2. QED
    BY <1>7, <2>1, WritesTypes, GotoTypes DEF Settle
<1>8. QED
  BY <1>1, <1>2, <1>3, <1>4, <1>5, <1>6, <1>7

LEMMA CommitTypes ==
  ASSUME TypeOK, NEW q \in Requests, StepOK(q), Commit(q)
  PROVE  TypeOK'
<1>1. job[q] \in Job /\ job[q].op \in {"redeem", "revoke", "subscribe"}
  BY DEF TypeOK, Commit, StepOK
<1>2. lock' \in [Rows -> Requests \cup {Nobody}] /\ pc' \in [Requests -> Steps \cup {"idle", "answered"}]
      /\ job' = job
  BY DEF Commit, Release, TypeOK
<1>3. answer' = [answer EXCEPT ![q] = "done"]
  BY DEF Commit
<1>4. standing' \in [Students -> {"none", "active", "revoked"}]
      /\ source' \in [Students -> {"none", "code", "purchase"}]
  BY DEF Commit, EnrollmentWrite, SourceOf, TypeOK, Job
<1>5. /\ made' = made /\ loose' = loose
      /\ redeemer' \in [Codes -> Students \cup {Nobody}]
      /\ revoked' \in SUBSET Codes
      /\ grants' \in [CourseCodes -> Seq(Grant)]
      /\ credits' \in [WalletCodes -> Seq(Students)]
      /\ paid' \in SUBSET Students
  <2>1. CASE job[q].op = "redeem" /\ Delivered(q)
    <3>1. job[q].user \in Students /\ job[q].code \in Codes
      BY <2>1 DEF StepOK
    <3>2. Opened(job[q].user) \in Grant
      BY <3>1 DEF Grant, Opened
    <3>3. ASSUME NEW S, NEW s \in Seq(S), NEW e \in S PROVE Append(s, e) \in Seq(S)
      BY <3>3, AppendProperties
    <3>4. CASE job[q].code \in CourseCodes
      <4>1. grants[job[q].code] \in Seq(Grant)
        BY <3>4 DEF TypeOK
      <4>2. Append(grants[job[q].code], Opened(job[q].user))
              \in Seq(Grant)
        BY <3>2, <3>3, <4>1
      <4>3. QED
        BY <2>1, <3>1, <3>4, <4>2 DEF Delivered, TypeOK
    <3>5. CASE job[q].code \notin CourseCodes
      <4>1. job[q].code \in WalletCodes /\ credits[job[q].code] \in Seq(Students)
        BY <3>1, <3>5 DEF TypeOK, Codes
      <4>2. Append(credits[job[q].code], job[q].user) \in Seq(Students)
        BY <3>1, <3>3, <4>1
      <4>3. QED
        BY <2>1, <3>1, <3>5, <4>1, <4>2 DEF Delivered, TypeOK
    <3>6. QED
      BY <3>4, <3>5
  <2>2. CASE job[q].op = "revoke" /\ Pulled(q)
    <3>1. job[q].code \in Codes
      BY <2>2 DEF StepOK
    <3>2. ASSUME NEW c \in CourseCodes PROVE EndAll(grants[c]) \in Seq(Grant)
      BY EndAllGrants DEF TypeOK
    <3>3. UNCHANGED grants \/ (job[q].code \in CourseCodes
            /\ grants' = [grants EXCEPT ![job[q].code] = EndAll(grants[job[q].code])])
      BY <2>2 DEF Pulled, EndAll, Ended
    <3>4. grants' \in [CourseCodes -> Seq(Grant)]
      BY <3>2, <3>3 DEF TypeOK
    <3>5. QED
      BY <2>2, <3>1, <3>4 DEF Pulled, TypeOK
  <2>3. CASE job[q].op = "subscribe" /\ Subscribed(q)
    BY <2>3 DEF Subscribed, TypeOK, StepOK
  <2>4. QED
    BY <2>1, <2>2, <2>3 DEF Commit
<1>6. QED
  BY <1>2, <1>3, <1>4, <1>5 DEF TypeOK

LEMMA TypeStep ==
  ASSUME TypeOK, \A q \in Requests : StepOK(q), [Next]_vars
  PROVE  TypeOK'
<1>1. ASSUME NEW c \in Codes, Create(c) PROVE TypeOK'
  BY <1>1 DEF Create, TypeOK
<1>2. ASSUME NEW u \in Students, Unsubscribe(u) PROVE TypeOK'
  BY <1>2 DEF Unsubscribe, TypeOK
<1>3. ASSUME NEW q \in Requests, Delete(q) PROVE TypeOK'
  <2>1. \A s, t \in Seq(Grant) : s \o t \in Seq(Grant)
    BY ConcatProperties
  <2>2. << >> \in Seq(Grant)
    BY EmptySeq
  <2> DEFINE c == job[q].code
  <2>3. CASE UNCHANGED <<made, redeemer, revoked, grants, loose>>
    BY <1>3, <2>3 DEF Delete, TypeOK
  <2>4. CASE ~UNCHANGED <<made, redeemer, revoked, grants, loose>>
    <3>1. /\ made' = [made EXCEPT ![c] = "gone"] /\ redeemer' = [redeemer EXCEPT ![c] = Nobody]
          /\ revoked' = revoked \ {c}
          /\ loose' = IF c \in CourseCodes THEN loose \o grants[c] ELSE loose
          /\ grants' = [d \in CourseCodes |-> IF d = c THEN << >> ELSE grants[d]]
      BY <1>3, <2>4 DEF Delete
    <3>2. made' \in [Codes -> {"none", "made", "gone"}]
      BY <3>1 DEF TypeOK
    <3>3. redeemer' \in [Codes -> Students \cup {Nobody}] /\ revoked' \in SUBSET Codes
      BY <3>1 DEF TypeOK
    <3>4. loose' \in Seq(Grant)
      BY <2>1, <3>1 DEF TypeOK
    <3>5. grants' \in [CourseCodes -> Seq(Grant)]
      <4> HIDE DEF c
      <4>1. QED
        BY <2>2, <3>1 DEF TypeOK
    <3>6. QED
      BY <1>3, <3>2, <3>3, <3>4, <3>5 DEF Delete, TypeOK
  <2>5. QED
    BY <2>3, <2>4
<1>4. ASSUME NEW q \in Requests, Crash(q) PROVE TypeOK'
  BY <1>4 DEF Crash, Release, TypeOK, tables, NoJob, Job
<1>5. ASSUME NEW q \in Requests, Finish(q) PROVE TypeOK'
  BY <1>5 DEF Finish, TypeOK, tables, NoJob, Job
<1>6. CASE UNCHANGED vars
  BY <1>6 DEF vars, tables, TypeOK
<1>7. QED
  BY <1>1, <1>2, <1>3, <1>4, <1>5, <1>6, StartTypes, QuietTypes, CommitTypes DEF Next, Run

-----------------------------------------------------------------------------
(***************************************************************************)
(* What a step of one request leaves of the others, and of the codes.      *)
(***************************************************************************)

Moves(q) == Start(q) \/ Run(q) \/ Crash(q) \/ Finish(q)

\* The others stand where they stood and keep what they hold.
LEMMA OthersStay ==
  ASSUME TypeOK, NEW q \in Requests, Moves(q), NEW p \in Requests \ {q}
  PROVE  /\ pc'[p] = pc[p] /\ job'[p] = job[p] /\ answer'[p] = answer[p]
         /\ \A r \in Rows : lock[r] = p => lock'[r] = p
<1> DEFINE Stays == /\ pc'[p] = pc[p] /\ job'[p] = job[p] /\ answer'[p] = answer[p]
                    /\ \A r \in Rows : lock[r] = p => lock'[r] = p
<1>1. ASSUME NEW j, NEW s, Begin(q, j, s) PROVE Stays
  BY <1>1 DEF Begin, TypeOK
<1>2. ASSUME NEW j, NEW a, Refuse(q, j, a) PROVE Stays
  BY <1>2 DEF Refuse, TypeOK
<1>3. ASSUME NEW a, Fail(q, a) PROVE Stays
  BY <1>3 DEF Fail, Release, TypeOK
<1>4. ASSUME NEW r, Free(r), Take(q, r), NEW s, Goto(q, s), UNCHANGED job PROVE Stays
  BY <1>4, NobodyIsNew DEF Take, Free, Goto, TypeOK
<1>5. ASSUME NEW s, Goto(q, s), NEW b, job' = [job EXCEPT ![q].writes = b] \/ UNCHANGED job,
             UNCHANGED lock
      PROVE  Stays
  BY <1>5 DEF Goto, TypeOK
<1>6. CASE Start(q)
  BY <1>1, <1>2, <1>6 DEF Start, StartRedeem, StartRevoke, StartRemove, StartSubscribe
<1>7. CASE Spend(q) \/ Write(q) \/ Overwrite(q) \/ Pull(q)
  BY <1>3, <1>4, <1>7 DEF Spend, Write, Overwrite, Pull
<1>8. CASE Credit(q) \/ Enrol(q) \/ Settle(q)
  BY <1>3, <1>5, <1>8 DEF Credit, Enrol, Settle
<1>9. CASE Delete(q)
  BY <1>9 DEF Delete, TypeOK
<1>10. CASE Commit(q) \/ Crash(q) \/ Finish(q)
  BY <1>10 DEF Commit, Crash, Finish, Release, TypeOK
<1>11. QED
  BY <1>6, <1>7, <1>8, <1>9, <1>10 DEF Moves, Run

\* Only three steps of a request change what is known of codes, and they
\* change one code, whose row the request holds or is free.
LEMMA CodesStay ==
  ASSUME TypeOK, NEW q \in Requests, StepOK(q), Moves(q)
  PROVE  \/ UNCHANGED codeTables
         \/ Delete(q)
         \/ Commit(q) /\ job[q].op = "redeem" /\ Delivered(q)
         \/ Commit(q) /\ job[q].op = "revoke" /\ Pulled(q)
<1>1. CASE Start(q)
  BY <1>1, StartTypes DEF tables, codeTables
<1>2. CASE Spend(q) \/ Credit(q) \/ Enrol(q) \/ Write(q) \/ Overwrite(q) \/ Pull(q) \/ Settle(q)
  BY <1>2, QuietTypes DEF tables, codeTables
<1>3. CASE Commit(q)
  BY <1>3 DEF Commit, Subscribed, codeTables
<1>4. CASE Crash(q) \/ Finish(q)
  BY <1>4 DEF Crash, Finish, tables, codeTables
<1>5. QED
  BY <1>1, <1>2, <1>3, <1>4 DEF Moves, Run

\* The one that moves is at a step its operation reaches.
LEMMA MoverStep ==
  ASSUME TypeOK, NEW q \in Requests, StepOK(q), Moves(q)
  PROVE  StepOK(q)'
<1> pc \in [Requests -> Steps \cup {"idle", "answered"}] /\ job \in [Requests -> Job]
    /\ \A a : [answer EXCEPT ![q] = a][q] = a
  BY DEF TypeOK
<1>1. CASE Start(q)
  <2>1. ASSUME NEW u \in Students, NEW c \in Codes, StartRedeem(q, u, c) PROVE StepOK(q)'
    <3> DEFINE j == [NoJob EXCEPT !.op = "redeem", !.code = c, !.user = u]
    <3>1. j.op = "redeem" /\ j.code = c /\ j.user = u
      BY DEF NoJob
    <3> HIDE DEF j
    <3>2. Begin(q, j, "spend") \/ \E a : Refuse(q, j, a)
      BY <2>1 DEF StartRedeem, j
    <3>3. QED
      BY <3>1, <3>2 DEF Begin, Refuse, StepOK
  <2>2. ASSUME NEW c \in Codes, StartRevoke(q, c) PROVE StepOK(q)'
    <3> DEFINE j == [NoJob EXCEPT !.op = "revoke", !.code = c, !.user = redeemer[c]]
    <3>1. j.op = "revoke" /\ j.code = c
      BY DEF NoJob
    <3> HIDE DEF j
    <3>2. Begin(q, j, "pull") \/ \E a : Refuse(q, j, a)
      BY <2>2 DEF StartRevoke, j
    <3>3. QED
      BY <3>1, <3>2 DEF Begin, Refuse, StepOK
  <2>3. ASSUME NEW c \in Codes, StartRemove(q, c) PROVE StepOK(q)'
    <3> DEFINE j == [NoJob EXCEPT !.op = "remove", !.code = c]
    <3>1. j.op = "remove" /\ j.code = c
      BY DEF NoJob
    <3> HIDE DEF j
    <3>2. Begin(q, j, "delete") \/ \E a : Refuse(q, j, a)
      BY <2>3 DEF StartRemove, j
    <3>3. QED
      BY <3>1, <3>2 DEF Begin, Refuse, StepOK
  <2>4. ASSUME NEW u \in Students, StartSubscribe(q, u) PROVE StepOK(q)'
    BY <2>4 DEF StartSubscribe, Begin, StepOK, NoJob
  <2>5. QED
    BY <1>1, <2>1, <2>2, <2>3, <2>4 DEF Start
<1>2. ASSUME NEW a, Fail(q, a) PROVE StepOK(q)'
  BY <1>2 DEF Fail, StepOK
<1>3. CASE Spend(q)
  BY <1>2, <1>3 DEF Spend, Goto, StepOK
<1>4. CASE Credit(q)
  BY <1>2, <1>4 DEF Credit, Goto, StepOK
<1>5. CASE Enrol(q)
  BY <1>5 DEF Enrol, Goto, StepOK
<1>6. CASE Write(q)
  BY <1>2, <1>6 DEF Write, Goto, StepOK
<1>7. CASE Overwrite(q)
  BY <1>7 DEF Overwrite, Goto, StepOK
<1>8. CASE Pull(q)
  BY <1>2, <1>8 DEF Pull, Goto, StepOK
<1>9. CASE Settle(q)
  BY <1>9 DEF Settle, Goto, StepOK
<1>10. CASE Delete(q)
  BY <1>10 DEF Delete, StepOK
<1>11. CASE Commit(q)
  BY <1>11 DEF Commit, StepOK
<1>12. CASE Crash(q) \/ Finish(q)
  <2>1. answer'[q] = "none"
    BY <1>12 DEF Crash, Finish, StepOK, Steps
  <2>2. QED
    BY <1>12, <2>1 DEF Crash, Finish, StepOK, NoJob
<1>13. QED
  BY <1>1, <1>3, <1>4, <1>5, <1>6, <1>7, <1>8, <1>9, <1>10, <1>11, <1>12 DEF Moves, Run

\* Past its conditional update it holds the row of the code, which is unspent.
LEMMA MoverHolds ==
  ASSUME TypeOK, NEW q \in Requests, StepOK(q), HoldsCode(q), Moves(q)
  PROVE  HoldsCode(q)'
<1> USE DEF TypeOK
<1>1. CASE Start(q)
  <2>1. ASSUME NEW j, NEW a, Refuse(q, j, a) PROVE HoldsCode(q)'
    BY <2>1 DEF Refuse, HoldsCode
  <2>2. ASSUME NEW j, NEW s \in {"spend", "pull", "delete", "upsert"}, Begin(q, j, s)
        PROVE  HoldsCode(q)'
    BY <2>2 DEF Begin, HoldsCode
  <2>3. QED
    BY <1>1, <2>1, <2>2 DEF Start, StartRedeem, StartRevoke, StartRemove, StartSubscribe
<1>2. ASSUME NEW a, Fail(q, a) PROVE HoldsCode(q)'
  BY <1>2 DEF Fail, HoldsCode
<1>3. CASE Spend(q)
  <2>1. job[q].op = "redeem" /\ CodeRow(job[q].code) \in Rows
    BY <1>3, RowsApart DEF Spend, StepOK
  <2>2. CASE Unspent(job[q].code)
    <3>1. lock'[CodeRow(job[q].code)] = q /\ UNCHANGED <<tables, job>>
      BY <1>3, <2>1, <2>2 DEF Spend, Take
    <3>2. Unspent(job[q].code)'
      BY <2>2, <3>1 DEF Unspent, tables
    <3>3. QED
      BY <3>1, <3>2 DEF HoldsCode
  <2>3. QED
    BY <1>2, <1>3, <2>2 DEF Spend
<1>4. CASE Pull(q)
  <2>1. job[q].op = "revoke" /\ CodeRow(job[q].code) \in Rows
    BY <1>4, RowsApart DEF Pull, StepOK
  <2>2. QED
    BY <1>2, <1>4, <2>1 DEF Pull, Take, HoldsCode
<1>5. ASSUME job[q].op \in {"redeem", "revoke"},
             pc[q] \in {"credit", "enrol", "write", "settle", "update"},
             UNCHANGED tables, job'[q].op = job[q].op, job'[q].code = job[q].code,
             UNCHANGED lock \/ \E r : Take(q, r)
      PROVE  HoldsCode(q)'
  <2>1. job[q].code \in Codes /\ CodeRow(job[q].code) \in Rows
    BY <1>5, RowsApart DEF StepOK
  <2>2. lock[CodeRow(job[q].code)] = q /\ (job[q].op = "redeem" => Unspent(job[q].code))
    BY <1>5 DEF HoldsCode
  <2>3. lock'[CodeRow(job[q].code)] = q
    BY <1>5, <2>1, <2>2 DEF Take
  <2>4. Unspent(job[q].code) => Unspent(job[q].code)'
    BY <1>5 DEF Unspent, tables
  <2>5. QED
    BY <1>5, <2>2, <2>3, <2>4 DEF HoldsCode
<1>6. CASE Credit(q)
  BY <1>2, <1>5, <1>6 DEF Credit, StepOK
<1>7. CASE Enrol(q)
  BY <1>5, <1>7 DEF Enrol, StepOK
<1>8. CASE Write(q)
  BY <1>2, <1>5, <1>8 DEF Write, StepOK
<1>9. CASE Overwrite(q) /\ pc[q] = "update"
  BY <1>5, <1>9 DEF Overwrite, StepOK
<1>10. CASE Overwrite(q) /\ pc[q] = "upsert"
  BY <1>10 DEF Overwrite, StepOK, HoldsCode
<1>11. CASE Settle(q)
  BY <1>5, <1>11 DEF Settle, StepOK
<1>12. CASE Delete(q) \/ Commit(q) \/ Crash(q) \/ Finish(q)
  BY <1>12 DEF Delete, Commit, Crash, Finish, HoldsCode
<1>13. QED
  BY <1>1, <1>3, <1>4, <1>6, <1>7, <1>8, <1>9, <1>10, <1>11, <1>12 DEF Moves, Run, Overwrite

\* What another request holds is left alone: its code keeps its row's columns.
LEMMA HeldCodeStays ==
  ASSUME IInv, NEW q \in Requests, Moves(q), NEW c \in Codes,
         lock[CodeRow(c)] \in Requests \ {q}
  PROVE  made'[c] = made[c] /\ redeemer'[c] = redeemer[c] /\ (c \in revoked' <=> c \in revoked)
<1> TypeOK /\ StepOK(q) /\ HoldsCode(q)
  BY DEF IInv
<1>1. CASE UNCHANGED codeTables
  BY <1>1 DEF codeTables
<1>2. CASE Delete(q)
  <2>1. job[q].code \in Codes /\ Free(CodeRow(job[q].code))
    BY <1>2 DEF Delete, StepOK
  <2>2. c # job[q].code
    BY <2>1, NobodyIsNew DEF Free
  <2>3. QED
    BY <1>2, <2>2 DEF Delete, TypeOK
<1>3. CASE Commit(q) /\ job[q].op \in {"redeem", "revoke"} /\ (Delivered(q) \/ Pulled(q))
  <2>1. lock[CodeRow(job[q].code)] = q
    BY <1>3 DEF Commit, HoldsCode
  <2>2. c # job[q].code
    BY <2>1
  <2>3. QED
    BY <1>3, <2>2 DEF Commit, Delivered, Pulled, TypeOK
<1>4. QED
  BY <1>1, <1>2, <1>3, CodesStay

-----------------------------------------------------------------------------
(***************************************************************************)
(* The invariant.                                                          *)
(***************************************************************************)

\* The requests' part, whoever moves.
LEMMA RequestsKeep ==
  ASSUME IInv, [Next]_vars, NEW p \in Requests
  PROVE  StepOK(p)' /\ HoldsCode(p)'
<1> TypeOK /\ StepOK(p) /\ HoldsCode(p)
  BY DEF IInv
<1>1. ASSUME UNCHANGED <<lock, pc, job, answer, redeemer, revoked>>,
             \A c \in Codes : made[c] = "made" => made'[c] = "made"
      PROVE  StepOK(p)' /\ HoldsCode(p)'
  <2>1. StepOK(p)'
    BY <1>1 DEF StepOK
  <2>2. job[p].op = "redeem" /\ Unspent(job[p].code) => Unspent(job[p].code)'
    BY <1>1 DEF StepOK, Unspent
  <2>3. QED
    BY <1>1, <2>1, <2>2 DEF HoldsCode
<1>2. ASSUME NEW c \in Codes, Create(c) PROVE StepOK(p)' /\ HoldsCode(p)'
  BY <1>1, <1>2 DEF Create, TypeOK
<1>3. ASSUME NEW u \in Students, Unsubscribe(u) PROVE StepOK(p)' /\ HoldsCode(p)'
  BY <1>1, <1>3 DEF Unsubscribe
<1>4. CASE UNCHANGED vars
  BY <1>1, <1>4 DEF vars, tables
<1>5. ASSUME Moves(p) PROVE StepOK(p)' /\ HoldsCode(p)'
  BY <1>5, MoverStep, MoverHolds
<1>6. ASSUME NEW q \in Requests \ {p}, Moves(q) PROVE StepOK(p)' /\ HoldsCode(p)'
  <2>1. /\ pc'[p] = pc[p] /\ job'[p] = job[p] /\ answer'[p] = answer[p]
        /\ \A r \in Rows : lock[r] = p => lock'[r] = p
    BY <1>6, OthersStay
  <2>2. StepOK(p)'
    BY <2>1 DEF StepOK
  <2>3. ASSUME pc[p] \in {"credit", "enrol", "write", "settle", "update", "commit"},
               job[p].op \in {"redeem", "revoke"}
        PROVE  /\ lock'[CodeRow(job[p].code)] = p
               /\ job[p].op = "redeem" => Unspent(job[p].code)'
    <3>1. job[p].code \in Codes /\ CodeRow(job[p].code) \in Rows
      BY <2>3, RowsApart DEF StepOK
    <3>2. lock[CodeRow(job[p].code)] = p /\ (job[p].op = "redeem" => Unspent(job[p].code))
      BY <2>3 DEF HoldsCode
    <3>3. lock'[CodeRow(job[p].code)] = p
      BY <2>1, <3>1, <3>2
    <3>4. /\ made'[job[p].code] = made[job[p].code]
          /\ redeemer'[job[p].code] = redeemer[job[p].code]
          /\ job[p].code \in revoked' <=> job[p].code \in revoked
      BY <1>6, <3>1, <3>2, HeldCodeStays
    <3>5. Unspent(job[p].code) => Unspent(job[p].code)'
      BY <2>1, <3>4 DEF Unspent
    <3>6. QED
      BY <3>2, <3>3, <3>5
  <2>4. HoldsCode(p)'
    BY <2>1, <2>3 DEF HoldsCode
  <2>5. QED
    BY <2>2, <2>4
<1>7. QED
  BY <1>2, <1>3, <1>4, <1>5, <1>6 DEF Next, Moves

\* The commit of a redemption finds its code unspent.
LEMMA FoundUnspent ==
  ASSUME IInv, NEW q \in Requests, Commit(q), job[q].op = "redeem"
  PROVE  /\ job[q].code \in Codes /\ job[q].user \in Students
         /\ made[job[q].code] = "made"
         /\ redeemer[job[q].code] = Nobody /\ job[q].code \notin revoked
BY DEF IInv, Commit, StepOK, HoldsCode, Unspent

\* What a deletion does to a code: nothing, or its row goes, and what it opened
\* stays without it.
Erased(q, c) ==
  /\ pc[q] = "delete" /\ job[q].code = c
  /\ made[c] = "made" /\ made'[c] = "gone" /\ redeemer'[c] = Nobody /\ c \notin revoked'
  /\ c \in CourseCodes => loose' = loose \o grants[c] /\ grants'[c] = << >>
  /\ c \in WalletCodes => credits[c] = << >>

LEMMA DeleteErases ==
  ASSUME IInv, NEW q \in Requests, Delete(q), NEW c \in Codes
  PROVE  /\ credits' = credits
         /\ \/ Erased(q, c)
            \/ /\ made'[c] = made[c] /\ redeemer'[c] = redeemer[c]
               /\ c \in revoked' <=> c \in revoked
               /\ c \in CourseCodes => grants'[c] = grants[c]
<1>1. TypeOK /\ job[q].code \in Codes
  BY DEF IInv, StepOK, Delete
<1>2. CASE made[job[q].code] = "made"
             /\ (job[q].code \in WalletCodes => credits[job[q].code] = << >>)
  <2>1. CASE c = job[q].code
    BY <1>1, <1>2, <2>1 DEF Delete, TypeOK, Erased
  <2>2. CASE c # job[q].code
    BY <1>1, <1>2, <2>2 DEF Delete, TypeOK
  <2>3. QED
    BY <2>1, <2>2
<1>3. CASE ~(made[job[q].code] = "made"
               /\ (job[q].code \in WalletCodes => credits[job[q].code] = << >>))
  BY <1>3 DEF Delete
<1>4. QED
  BY <1>2, <1>3

\* No step of Next but these three touches the code's columns.
LEMMA NextCodes ==
  ASSUME IInv, [Next]_vars
  PROVE  \/ UNCHANGED codeTables
         \/ \E c \in Codes : Create(c)
         \/ \E q \in Requests : Delete(q)
         \/ \E q \in Requests : Commit(q) /\ job[q].op = "redeem" /\ Delivered(q)
         \/ \E q \in Requests : Commit(q) /\ job[q].op = "revoke" /\ Pulled(q)
<1>1. ASSUME NEW u \in Students, Unsubscribe(u) PROVE UNCHANGED codeTables
  BY <1>1 DEF Unsubscribe, codeTables
<1>2. CASE UNCHANGED vars
  BY <1>2 DEF vars, tables, codeTables
<1>3. ASSUME NEW q \in Requests, Moves(q)
      PROVE  \/ UNCHANGED codeTables
             \/ Delete(q)
             \/ Commit(q) /\ job[q].op = "redeem" /\ Delivered(q)
             \/ Commit(q) /\ job[q].op = "revoke" /\ Pulled(q)
  BY <1>3, CodesStay DEF IInv
<1>4. QED
  BY <1>1, <1>2, <1>3 DEF Next, Moves

\* How a code may change.
LEMMA CodeHistory ==
  ASSUME IInv, [Next]_vars, NEW c \in Codes
  PROVE  /\ redeemer[c] # Nobody \/ c \in revoked =>
              \/ made'[c] = "gone"
              \/ redeemer'[c] = redeemer[c] /\ (c \in revoked => c \in revoked')
         /\ made[c] = "gone" => made'[c] = "gone"
<1> TypeOK
  BY DEF IInv
<1> DEFINE History == /\ redeemer[c] # Nobody \/ c \in revoked =>
                            \/ made'[c] = "gone"
                            \/ redeemer'[c] = redeemer[c] /\ (c \in revoked => c \in revoked')
                      /\ made[c] = "gone" => made'[c] = "gone"
<1>1. CASE UNCHANGED codeTables
  BY <1>1 DEF codeTables
<1>2. ASSUME NEW d \in Codes, Create(d) PROVE History
  BY <1>2 DEF Create, TypeOK
<1>3. ASSUME NEW q \in Requests, Delete(q) PROVE History
  BY <1>3, DeleteErases DEF Erased
<1>4. ASSUME NEW q \in Requests, Commit(q), job[q].op = "redeem", Delivered(q) PROVE History
  BY <1>4, FoundUnspent DEF Delivered, TypeOK
<1>5. ASSUME NEW q \in Requests, Commit(q), job[q].op = "revoke", Pulled(q) PROVE History
  BY <1>5 DEF Pulled
<1>6. QED
  BY <1>1, <1>2, <1>3, <1>4, <1>5, NextCodes

\* The grants without a code only grow.
LEMMA LooseGrows ==
  ASSUME IInv, [Next]_vars
  PROVE  /\ loose \in Seq(Grant) /\ Len(loose) <= Len(loose') /\ Len(loose) \in Nat
         /\ Len(loose') \in Nat
         /\ \A i \in 1 .. Len(loose) : loose'[i] = loose[i]
<1> TypeOK
  BY DEF IInv
<1>1. loose \in Seq(Grant) /\ Len(loose) \in Nat
  BY LenProperties DEF TypeOK
<1>2. CASE UNCHANGED loose
  BY <1>1, <1>2
<1>3. ASSUME NEW c \in CourseCodes, loose' = loose \o grants[c]
      PROVE  /\ Len(loose) <= Len(loose') /\ Len(loose') \in Nat
             /\ \A i \in 1 .. Len(loose) : loose'[i] = loose[i]
  <2>1. grants[c] \in Seq(Grant) /\ Len(grants[c]) \in Nat
    BY LenProperties DEF TypeOK
  <2>2. /\ Len(loose') = Len(loose) + Len(grants[c])
        /\ \A i \in 1 .. Len(loose) + Len(grants[c]) :
             loose'[i] = IF i <= Len(loose) THEN loose[i] ELSE grants[c][i - Len(loose)]
    BY <1>1, <1>3, <2>1, ConcatProperties
  <2>3. QED
    BY <1>1, <2>1, <2>2
<1>4. UNCHANGED loose \/ \E c \in CourseCodes : loose' = loose \o grants[c]
  BY NextCodes DEF codeTables, Create, Delete, Delivered, Pulled
<1>5. QED
  BY <1>1, <1>2, <1>3, <1>4

\* A sequence of receivers that is empty has no grant behind it.
LEMMA NoReceivers ==
  ASSUME NEW s \in Seq(Grant), [i \in 1 .. Len(s) |-> s[i].holder] = << >>
  PROVE  s = << >>
<1>1. DOMAIN [i \in 1 .. Len(s) |-> s[i].holder] = 1 .. Len(s)
  OBVIOUS
<1>2. 1 .. Len(s) = {}
  BY <1>1
<1>3. Len(s) = 0
  <2>1. Len(s) \in Nat
    BY LenProperties
  <2>2. QED
    BY <1>2, <2>1
<1>4. QED
  BY <1>3, EmptySeq

\* A code that is not there names nobody.
LEMMA GoneStep ==
  ASSUME IInv, [Next]_vars, NEW c \in Codes, made'[c] # "made"
  PROVE  redeemer'[c] = Nobody
<1> TypeOK /\ (made[c] # "made" => redeemer[c] = Nobody)
  BY DEF IInv, SpentIffDelivered
<1>1. CASE UNCHANGED codeTables
  BY <1>1 DEF codeTables
<1>2. ASSUME NEW d \in Codes, Create(d) PROVE redeemer'[c] = Nobody
  BY <1>2 DEF Create, TypeOK
<1>3. ASSUME NEW q \in Requests, Delete(q) PROVE redeemer'[c] = Nobody
  BY <1>3, DeleteErases DEF Erased
<1>4. ASSUME NEW q \in Requests, Commit(q), job[q].op = "redeem", Delivered(q)
      PROVE  redeemer'[c] = Nobody
  BY <1>4, FoundUnspent DEF Delivered, TypeOK
<1>5. ASSUME NEW q \in Requests, Commit(q), job[q].op = "revoke", Pulled(q)
      PROVE  redeemer'[c] = Nobody
  BY <1>5 DEF Pulled
<1>6. QED
  BY <1>1, <1>2, <1>3, <1>4, <1>5, NextCodes

LEMMA SpentStep ==
  ASSUME IInv, [Next]_vars
  PROVE  SpentIffDelivered'
<1> TypeOK /\ SpentIffDelivered
  BY DEF IInv
<1> SUFFICES ASSUME NEW c \in Codes
             PROVE  Receivers(c)' = IF redeemer'[c] = Nobody THEN << >> ELSE << redeemer'[c] >>
  BY GoneStep DEF SpentIffDelivered
<1>0. Receivers(c) = IF redeemer[c] = Nobody THEN << >> ELSE << redeemer[c] >>
  BY DEF SpentIffDelivered
<1>1. ASSUME redeemer'[c] = redeemer[c], c \in WalletCodes => credits'[c] = credits[c],
             c \notin WalletCodes => grants'[c] = grants[c]
      PROVE  Receivers(c)' = IF redeemer'[c] = Nobody THEN << >> ELSE << redeemer'[c] >>
  BY <1>0, <1>1 DEF Receivers
<1>2. CASE UNCHANGED <<redeemer, grants, credits>>
  BY <1>1, <1>2
<1>3. ASSUME NEW q \in Requests, Commit(q), job[q].op = "redeem", Delivered(q)
      PROVE  Receivers(c)' = IF redeemer'[c] = Nobody THEN << >> ELSE << redeemer'[c] >>
  <2> DEFINE u == job[q].user
  <2>1. u \in Students /\ job[q].code \in Codes /\ redeemer[job[q].code] = Nobody
    BY <1>3, FoundUnspent
  <2>2. CASE c # job[q].code
    <3>1. redeemer'[c] = redeemer[c]
      BY <1>3, <2>2 DEF Delivered, TypeOK
    <3>2. c \in WalletCodes => credits'[c] = credits[c]
      BY <1>3, <2>2 DEF Delivered, TypeOK
    <3>3. c \notin WalletCodes => grants'[c] = grants[c]
      BY <1>3, <2>2 DEF Delivered, TypeOK, Codes
    <3>4. QED
      BY <1>1, <3>1, <3>2, <3>3
  <2>3. CASE c = job[q].code /\ c \in WalletCodes
    <3>1. credits[c] = << >>
      BY <1>0, <2>1, <2>3 DEF Receivers
    <3>2. credits'[c] = Append(<< >>, u)
      BY <1>3, <2>3, <3>1, CodesApart DEF Delivered, TypeOK
    <3>3. redeemer'[c] = u
      BY <1>3, <2>1, <2>3 DEF Delivered, TypeOK
    <3>4. QED
      BY <2>1, <2>3, <3>2, <3>3, NobodyIsNew DEF Receivers
  <2>4. CASE c = job[q].code /\ c \notin WalletCodes
    <3>1. c \in CourseCodes
      BY <2>4 DEF Codes
    <3>2. grants[c] = << >>
      <4>1. Receivers(c) = << >>
        BY <1>0, <2>1, <2>4
      <4>2. [i \in 1 .. Len(grants[c]) |-> grants[c][i].holder] = << >>
        BY <2>4, <4>1 DEF Receivers
      <4>3. grants[c] \in Seq(Grant)
        BY <3>1 DEF TypeOK
      <4>4. QED
        BY <4>2, <4>3, NoReceivers
    <3>3. grants'[c] = << Opened(u) >> /\ Opened(u).holder = u
      BY <1>3, <2>4, <3>1, <3>2 DEF Delivered, TypeOK, Opened
    <3>4. redeemer'[c] = u
      BY <1>3, <2>1, <2>4 DEF Delivered, TypeOK
    <3>5. Receivers(c)' = [i \in 1 .. 1 |-> u]
      BY <2>4, <3>3 DEF Receivers
    <3>6. QED
      BY <2>1, <3>4, <3>5, NobodyIsNew
  <2>5. QED
    BY <2>2, <2>3, <2>4
<1>4. ASSUME NEW q \in Requests, Commit(q), job[q].op = "revoke", Pulled(q)
      PROVE  Receivers(c)' = IF redeemer'[c] = Nobody THEN << >> ELSE << redeemer'[c] >>
  <2>1. UNCHANGED <<redeemer, credits>>
    BY <1>4 DEF Pulled
  <2>2. CASE grants'[c] = grants[c] \/ c \in WalletCodes
    BY <1>1, <2>1, <2>2
  <2>3. CASE grants'[c] # grants[c] /\ c \notin WalletCodes
    <3>1. c \in CourseCodes /\ grants[c] \in Seq(Grant)
      BY <2>3 DEF Codes, TypeOK
    <3>2. grants'[c] = EndAll(grants[c])
      <4>1. grants' = [grants EXCEPT ![job[q].code] = EndAll(grants[job[q].code])]
        BY <1>4, <2>3 DEF Pulled, EndAll, Ended
      <4>2. QED
        BY <2>3, <3>1, <4>1 DEF TypeOK
    <3>3. /\ Len(grants'[c]) = Len(grants[c])
          /\ \A i \in 1 .. Len(grants[c]) : grants'[c][i].holder = grants[c][i].holder
      BY <3>1, <3>2, EndAllGrants
    <3>4. Receivers(c)' = Receivers(c)
      BY <2>3, <3>3 DEF Receivers
    <3>5. QED
      BY <1>0, <2>1, <3>4
  <2>4. QED
    BY <2>2, <2>3
<1>5. ASSUME NEW q \in Requests, Delete(q)
      PROVE  Receivers(c)' = IF redeemer'[c] = Nobody THEN << >> ELSE << redeemer'[c] >>
  <2>1. CASE Erased(q, c)
    <3>1. redeemer'[c] = Nobody /\ (c \in WalletCodes => credits'[c] = << >>)
      BY <1>5, <2>1, DeleteErases DEF Erased
    <3>2. c \notin WalletCodes => grants'[c] = << >>
      BY <2>1 DEF Erased, Codes
    <3>3. Receivers(c)' = << >>
      BY <3>1, <3>2, EmptySeq DEF Receivers
    <3>4. QED
      BY <3>1, <3>3
  <2>2. CASE ~Erased(q, c)
    BY <1>1, <1>5, <2>2, DeleteErases DEF Codes
  <2>3. QED
    BY <2>1, <2>2
<1>6. QED
  BY <1>2, <1>3, <1>4, <1>5, NextCodes DEF codeTables, Create

\* Whoever a code names, it names after the step, or it was erased and left him
\* what it opened.
LEMMA NamedStays ==
  ASSUME IInv, [Next]_vars, NEW c \in Codes, NEW u \in Students,
         redeemer[c] = u \/ Left(u, c)
  PROVE  redeemer'[c] = u \/ Left(u, c)'
<1> TypeOK /\ u # Nobody
  BY NobodyIsNew DEF IInv
<1>1. CASE Left(u, c)
  <2>1. PICK i \in 1 .. Len(loose) : loose[i].holder = u
    BY <1>1 DEF Left
  <2>2. made'[c] = "gone"
    BY <1>1, CodeHistory DEF Left
  <2>3. i \in 1 .. Len(loose') /\ loose'[i].holder = u
    BY <2>1, LooseGrows
  <2>4. QED
    BY <1>1, <2>2, <2>3 DEF Left
<1>2. CASE redeemer[c] = u /\ redeemer'[c] # u
  <2>1. PICK q \in Requests : Delete(q) /\ Erased(q, c)
    <3>1. ~UNCHANGED codeTables
      BY <1>2 DEF codeTables
    <3>2. ASSUME NEW d \in Codes, Create(d) PROVE FALSE
      BY <1>2, <3>2 DEF Create
    <3>3. ASSUME NEW q \in Requests, Commit(q), job[q].op = "redeem", Delivered(q) PROVE FALSE
      BY <1>2, <3>3, FoundUnspent DEF Delivered, TypeOK
    <3>4. ASSUME NEW q \in Requests, Commit(q), job[q].op = "revoke", Pulled(q) PROVE FALSE
      BY <1>2, <3>4 DEF Pulled
    <3>5. QED
      BY <1>2, <3>1, <3>2, <3>3, <3>4, NextCodes, DeleteErases
  <2>2. Receivers(c) = << u >>
    BY <1>2 DEF IInv, SpentIffDelivered
  <2>3. c \in CourseCodes /\ c \notin WalletCodes
    <3>1. << u >> # << >>
      OBVIOUS
    <3>2. c \notin WalletCodes
      BY <2>1, <2>2, <3>1 DEF Erased, Receivers
    <3>3. QED
      BY <3>2 DEF Codes
  <2>4. loose' = loose \o grants[c] /\ loose \in Seq(Grant) /\ grants[c] \in Seq(Grant)
    BY <2>1, <2>3 DEF Erased, TypeOK
  <2>5. Len(grants[c]) \in Nat /\ Len(grants[c]) >= 1 /\ grants[c][1].holder = u
    <3>1. Receivers(c) = [i \in 1 .. Len(grants[c]) |-> grants[c][i].holder]
      BY <2>3 DEF Receivers
    <3>2. DOMAIN Receivers(c) = 1 .. Len(grants[c]) /\ 1 \in DOMAIN Receivers(c)
          /\ Receivers(c)[1] = u
      BY <2>2, <3>1
    <3>3. QED
      BY <2>4, <3>1, <3>2, LenProperties
  <2>6. Len(loose) + 1 \in 1 .. Len(loose') /\ loose'[Len(loose) + 1].holder = u
    <3>1. /\ Len(loose') = Len(loose) + Len(grants[c])
          /\ \A i \in 1 .. Len(loose) + Len(grants[c]) :
               loose'[i] = IF i <= Len(loose) THEN loose[i] ELSE grants[c][i - Len(loose)]
      BY <2>4, ConcatProperties
    <3>2. Len(loose) \in Nat
      BY <2>4, LenProperties
    <3>3. Len(loose) + 1 \in 1 .. Len(loose) + Len(grants[c])
      BY <2>5, <3>2
    <3>4. loose'[Len(loose) + 1] = grants[c][1]
      BY <3>1, <3>2, <3>3
    <3>5. QED
      BY <2>5, <3>1, <3>3, <3>4
  <2>7. made'[c] = "gone"
    BY <2>1 DEF Erased
  <2>8. QED
    BY <2>3, <2>6, <2>7 DEF Left
<1>3. QED
  BY <1>1, <1>2

LEMMA AnswersStep ==
  ASSUME IInv, [Next]_vars
  PROVE  AnswersAreTrue'
<1> TypeOK /\ AnswersAreTrue /\ \A q \in Requests : StepOK(q)
  BY DEF IInv
<1> DEFINE True(q) ==
      /\ job[q].op = "redeem" /\ answer[q] \in {"done", "again"} =>
           redeemer[job[q].code] = job[q].user \/ Left(job[q].user, job[q].code)
      /\ job[q].op = "revoke" /\ answer[q] \in {"done", "already"} =>
           job[q].code \in revoked \/ made[job[q].code] = "gone"
      /\ job[q].op = "remove" /\ answer[q] = "done" => made[job[q].code] = "gone"
<1> SUFFICES ASSUME NEW p \in Requests PROVE True(p)'
  BY DEF AnswersAreTrue
<1>0. True(p) /\ StepOK(p)
  BY DEF AnswersAreTrue
<1>1. ASSUME answer'[p] \notin {"done", "again", "already"} PROVE True(p)'
  BY <1>1
<1>2. ASSUME job'[p] = job[p], answer'[p] = answer[p] PROVE True(p)'
  <2>1. CASE job[p].op \in {"redeem", "revoke", "remove"}
    <3>1. job[p].code \in Codes /\ (job[p].op = "redeem" => job[p].user \in Students)
      BY <1>0, <2>1 DEF StepOK
    <3>2. /\ job[p].code \in revoked \/ made[job[p].code] = "gone" =>
               job[p].code \in revoked' \/ made'[job[p].code] = "gone"
          /\ made[job[p].code] = "gone" => made'[job[p].code] = "gone"
      BY <3>1, CodeHistory
    <3>3. ASSUME job[p].op = "redeem",
                 redeemer[job[p].code] = job[p].user \/ Left(job[p].user, job[p].code)
          PROVE  redeemer'[job[p].code] = job[p].user \/ Left(job[p].user, job[p].code)'
      <4>1. PICK c \in Codes, u \in Students : c = job[p].code /\ u = job[p].user
        BY <3>1, <3>3
      <4>2. redeemer'[c] = u \/ Left(u, c)'
        BY <3>3, <4>1, NamedStays
      <4>3. job'[p].code = c /\ job'[p].user = u
        BY <1>2, <4>1
      <4>4. QED
        BY <1>2, <4>1, <4>2, <4>3 DEF Left
    <3>4. QED
      BY <1>0, <1>2, <3>1, <3>2, <3>3 DEF Left
  <2>2. CASE job[p].op \notin {"redeem", "revoke", "remove"}
    BY <1>2, <2>2
  <2>3. QED
    BY <2>1, <2>2
<1>3. ASSUME UNCHANGED <<job, answer>> PROVE True(p)'
  BY <1>2, <1>3
<1>4. ASSUME NEW q \in Requests \ {p}, Moves(q) PROVE True(p)'
  BY <1>2, <1>4, OthersStay
<1>5. ASSUME Moves(p) PROVE True(p)'
  <2>1. CASE Start(p)
    <3>0. pc[p] # "answered" => answer[p] = "none"
      BY <1>0 DEF StepOK
    <3>1. ASSUME NEW j, NEW s, Begin(p, j, s) PROVE True(p)'
      BY <1>1, <3>0, <3>1 DEF Begin
    <3>2. ASSUME NEW j, NEW a, Refuse(p, j, a)
          PROVE  job'[p] = j /\ answer'[p] = a /\ UNCHANGED tables
      BY <3>2 DEF Refuse, TypeOK
    <3>3. ASSUME NEW j, NEW a, Refuse(p, j, a), a \notin {"again", "already", "done"}
          PROVE  True(p)'
      BY <1>1, <3>2, <3>3
    <3>4. ASSUME NEW u \in Students, NEW c \in Codes, StartRedeem(p, u, c) PROVE True(p)'
      <4> DEFINE j == [NoJob EXCEPT !.op = "redeem", !.code = c, !.user = u]
      <4>1. j.op = "redeem" /\ j.code = c /\ j.user = u
        BY DEF NoJob
      <4>2. Refuse(p, j, "again") /\ redeemer[c] = u => True(p)'
        BY <3>2, <4>1 DEF tables
      <4>3. \/ Begin(p, j, "spend")
            \/ \E a \in {"locked", "invalid", "revoked", "used", "course_unavailable"} :
                 Refuse(p, j, a)
            \/ Refuse(p, j, "again") /\ redeemer[c] = u
        <5> HIDE DEF j
        <5> /\ StartRedeem(p, u, c) <=>
                 \/ Refuse(p, j, "locked")
                 \/ made[c] # "made" /\ Refuse(p, j, "invalid")
                 \/ made[c] = "made" /\ c \in revoked /\ Refuse(p, j, "revoked")
                 \/ /\ made[c] = "made" /\ c \notin revoked /\ redeemer[c] # Nobody
                    /\ Refuse(p, j, IF PressedAgain(u, c) THEN "again" ELSE "used")
                 \/ /\ made[c] = "made" /\ c \notin revoked /\ redeemer[c] = Nobody
                    /\ \/ Begin(p, j, "spend")
                       \/ c \in CourseCodes /\ Refuse(p, j, "course_unavailable")
          BY Zenon DEF StartRedeem, j
        <5>1. CASE PressedAgain(u, c)
          BY <3>4, <5>1 DEF PressedAgain
        <5>2. CASE ~PressedAgain(u, c)
          BY <3>4, <5>2
        <5>3. QED
          BY <5>1, <5>2
      <4>4. QED
        <5> HIDE DEF j
        <5> QED
          BY <3>1, <3>3, <4>2, <4>3
    <3>5. ASSUME NEW c \in Codes, StartRevoke(p, c) PROVE True(p)'
      <4> DEFINE j == [NoJob EXCEPT !.op = "revoke", !.code = c, !.user = redeemer[c]]
      <4>1. j.op = "revoke" /\ j.code = c
        BY DEF NoJob
      <4>2. ASSUME Refuse(p, j, "already"), c \in revoked PROVE True(p)'
        <5> HIDE DEF j
        <5>1. job'[p] = j /\ answer'[p] = "already" /\ c \in revoked'
          BY <3>2, <4>2 DEF tables
        <5>2. QED
          BY <4>1, <5>1
      <4>3. \/ Begin(p, j, "pull")
            \/ Refuse(p, j, "not_found") \/ Refuse(p, j, "wallet_code_used")
            \/ Refuse(p, j, "already") /\ c \in revoked
        BY <3>5 DEF StartRevoke, j
      <4>4. QED
        <5> HIDE DEF j
        <5> QED
          BY <3>1, <3>3, <4>2, <4>3
    <3>6. ASSUME NEW c \in Codes, StartRemove(p, c) PROVE True(p)'
      <4>1. PICK j : \/ Begin(p, j, "delete")
                     \/ Refuse(p, j, "used") \/ Refuse(p, j, "not_found")
        <5>1. CASE made[c] = "made"
          BY <3>6, <5>1 DEF StartRemove
        <5>2. CASE made[c] # "made"
          BY <3>6, <5>2 DEF StartRemove
        <5>3. QED
          BY <5>1, <5>2
      <4>2. QED
        BY <3>1, <3>3, <4>1
    <3>7. ASSUME NEW u \in Students, StartSubscribe(p, u) PROVE True(p)'
      BY <3>1, <3>7 DEF StartSubscribe
    <3>8. QED
      BY <2>1, <3>4, <3>5, <3>6, <3>7 DEF Start
  <2>2. ASSUME NEW a \in {"used", "error"}, Fail(p, a) PROVE True(p)'
    BY <1>1, <2>2 DEF Fail, TypeOK
  <2>3. ASSUME pc[p] # "answered", UNCHANGED answer PROVE True(p)'
    BY <1>0, <1>1, <2>3 DEF StepOK
  <2>4. CASE Spend(p) \/ Credit(p) \/ Enrol(p) \/ Write(p) \/ Overwrite(p) \/ Pull(p) \/ Settle(p)
    BY <2>2, <2>3, <2>4 DEF Spend, Credit, Enrol, Write, Overwrite, Pull, Settle, Goto
  <2>5. CASE Delete(p)
    <3>1. job[p].op = "remove" /\ job[p].code \in Codes
      BY <1>0, <2>5 DEF Delete, StepOK
    <3>2. answer'[p] = "done" => made'[job[p].code] = "gone"
      BY <2>5, <3>1 DEF Delete, TypeOK
    <3>3. UNCHANGED job
      BY <2>5 DEF Delete
    <3>4. QED
      BY <3>1, <3>2, <3>3
  <2>6. CASE Commit(p)
    <3>1. UNCHANGED job /\ answer'[p] = "done"
      BY <2>6 DEF Commit, TypeOK
    <3>2. CASE job[p].op = "redeem"
      <4>1. Delivered(p)
        BY <2>6, <3>2 DEF Commit
      <4>2. redeemer'[job[p].code] = job[p].user
        BY <2>6, <3>2, <4>1, FoundUnspent DEF Delivered, TypeOK
      <4>3. QED
        BY <3>1, <3>2, <4>2
    <3>3. CASE job[p].op = "revoke"
      BY <2>6, <3>1, <3>3 DEF Commit, Pulled
    <3>4. QED
      BY <2>6, <3>1, <3>2, <3>3 DEF Commit
  <2>7. CASE Crash(p)
    BY <1>1, <1>0, <2>7 DEF Crash, StepOK, Steps
  <2>8. CASE Finish(p)
    BY <1>1, <2>8 DEF Finish, TypeOK
  <2>9. QED
    BY <1>5, <2>1, <2>4, <2>5, <2>6, <2>7, <2>8 DEF Moves, Run
<1>6. QED
  BY <1>3, <1>4, <1>5 DEF Next, Moves, Create, Unsubscribe, vars

\* What becomes of a grant that a code opened.
LEMMA GrantHistory ==
  ASSUME IInv, [Next]_vars, NEW c \in CourseCodes, NEW i \in 1 .. Len(grants[c])
  PROVE  \/ made'[c] = "gone" /\ loose' = loose \o grants[c]
         \/ grants'[c][i] = grants[c][i]
         \/ c \in revoked' /\ grants'[c][i] = [grants[c][i] EXCEPT !.live = FALSE]
<1> DEFINE History == \/ made'[c] = "gone" /\ loose' = loose \o grants[c]
                      \/ grants'[c][i] = grants[c][i]
                      \/ c \in revoked' /\ grants'[c][i] = [grants[c][i] EXCEPT !.live = FALSE]
<1> TypeOK /\ c \in Codes /\ grants[c] \in Seq(Grant)
  BY DEF IInv, TypeOK, Codes
<1>1. CASE UNCHANGED grants
  BY <1>1
<1>2. ASSUME NEW q \in Requests, Delete(q) PROVE History
  BY <1>2, DeleteErases DEF Erased
<1>3. ASSUME NEW q \in Requests, Commit(q), job[q].op = "redeem", Delivered(q) PROVE History
  <2>1. Opened(job[q].user) \in Grant
    BY <1>3, FoundUnspent DEF Grant, Opened
  <2>2. Append(grants[c], Opened(job[q].user))[i] = grants[c][i]
    BY <2>1, AppendProperties
  <2>3. QED
    BY <1>3, <2>2 DEF Delivered, TypeOK
<1>4. ASSUME NEW q \in Requests, Commit(q), job[q].op = "revoke", Pulled(q) PROVE History
  <2>1. CASE grants'[c] = grants[c]
    BY <2>1
  <2>2. CASE grants'[c] # grants[c]
    <3>1. /\ grants' = [grants EXCEPT ![job[q].code] = EndAll(grants[job[q].code])]
          /\ revoked' = revoked \cup {job[q].code}
      BY <1>4, <2>2 DEF Pulled, EndAll, Ended
    <3>2. c = job[q].code /\ grants'[c] = EndAll(grants[c])
      BY <2>2, <3>1 DEF TypeOK
    <3>3. EndAll(grants[c])[i] = Ended(grants[c][i])
      BY LenProperties DEF EndAll
    <3>4. QED
      BY <3>1, <3>2, <3>3 DEF Ended
  <2>3. QED
    BY <2>1, <2>2
<1>5. QED
  BY <1>1, <1>2, <1>3, <1>4, NextCodes DEF codeTables, Create

\* No delete sets out for a code that names its student.
LEMMA NoNewDelete ==
  ASSUME IInv, [Next]_vars, NEW c \in Codes, redeemer[c] # Nobody,
         NEW p \in Requests, pc'[p] = "delete", job'[p].code = c
  PROVE  pc[p] = "delete" /\ job[p].code = c
<1> TypeOK
  BY DEF IInv
<1>1. CASE UNCHANGED <<pc, job>>
  BY <1>1
<1>2. ASSUME NEW q \in Requests, Moves(q), q # p
      PROVE  pc[p] = "delete" /\ job[p].code = c
  BY <1>2, OthersStay
<1>3. ASSUME Moves(p) PROVE FALSE
  <2>1. CASE Start(p)
    <3>1. ASSUME NEW j, NEW s, Begin(p, j, s) PROVE s = "delete" /\ j.code = c
      BY <3>1 DEF Begin, TypeOK
    <3>2. ASSUME NEW j, NEW a, Refuse(p, j, a) PROVE FALSE
      BY <3>2 DEF Refuse, TypeOK
    <3>3. ASSUME NEW u \in Students, NEW d \in Codes, StartRedeem(p, u, d) PROVE FALSE
      BY <3>1, <3>2, <3>3 DEF StartRedeem
    <3>4. ASSUME NEW d \in Codes, StartRevoke(p, d) PROVE FALSE
      BY <3>1, <3>2, <3>4 DEF StartRevoke
    <3>5. ASSUME NEW d \in Codes, StartRemove(p, d) PROVE FALSE
      <4> DEFINE j == [NoJob EXCEPT !.op = "remove", !.code = d]
      <4>1. Begin(p, j, "delete") /\ Removable(d)
        BY <3>2, <3>5 DEF StartRemove
      <4>2. j.code = d
        BY DEF NoJob
      <4>3. j.code = c
        <5> HIDE DEF j
        <5>1. QED
          BY <3>1, <4>1
      <4>4. QED
        BY <4>1, <4>2, <4>3 DEF Removable
    <3>6. ASSUME NEW u \in Students, StartSubscribe(p, u) PROVE FALSE
      BY <3>1, <3>6 DEF StartSubscribe
    <3>7. QED
      BY <2>1, <3>3, <3>4, <3>5, <3>6 DEF Start
  <2>2. ASSUME NEW s, Goto(p, s), s # "delete" PROVE FALSE
    BY <2>2 DEF Goto, TypeOK
  <2>3. ASSUME NEW a, Fail(p, a) PROVE FALSE
    BY <2>3 DEF Fail, TypeOK
  <2>4. CASE Spend(p) \/ Credit(p) \/ Enrol(p) \/ Write(p) \/ Overwrite(p) \/ Pull(p) \/ Settle(p)
    BY <2>2, <2>3, <2>4 DEF Spend, Credit, Enrol, Write, Overwrite, Pull, Settle
  <2>5. CASE Delete(p) \/ Commit(p) \/ Crash(p) \/ Finish(p)
    BY <2>5 DEF Delete, Commit, Crash, Finish, TypeOK
  <2>6. QED
    BY <1>3, <2>1, <2>4, <2>5 DEF Moves, Run
<1>4. QED
  BY <1>1, <1>2, <1>3 DEF Next, Moves, Create, Unsubscribe, vars

\* A spent code that no delete can reach keeps its student and stays so.
LEMMA KeptStays ==
  ASSUME IInv, [Next]_vars, NEW c \in Codes, Kept(c)
  PROVE  redeemer'[c] = redeemer[c] /\ Kept(c)'
<1> TypeOK /\ redeemer[c] # Nobody
  BY DEF IInv, Kept
<1>1. ASSUME NEW q \in Requests PROVE ~Erased(q, c)
  <2>1. CASE c \in CourseCodes
    BY <2>1 DEF Kept, Erased
  <2>2. CASE c \notin CourseCodes
    <3>1. c \in WalletCodes /\ << redeemer[c] >> # << >>
      BY <2>2 DEF Codes
    <3>2. Receivers(c) = << redeemer[c] >>
      BY DEF IInv, SpentIffDelivered
    <3>3. credits[c] # << >>
      BY <3>1, <3>2 DEF Receivers
    <3>4. QED
      BY <3>1, <3>3 DEF Erased
  <2>3. QED
    BY <2>1, <2>2
<1>2. redeemer'[c] = redeemer[c]
  <2>1. CASE UNCHANGED codeTables
    BY <2>1 DEF codeTables
  <2>2. ASSUME NEW q \in Requests, Delete(q) PROVE redeemer'[c] = redeemer[c]
    BY <1>1, <2>2, DeleteErases
  <2>3. ASSUME NEW q \in Requests, Commit(q), job[q].op = "redeem", Delivered(q)
        PROVE  redeemer'[c] = redeemer[c]
    BY <2>3, FoundUnspent DEF Delivered, TypeOK
  <2>4. QED
    BY <2>1, <2>2, <2>3, NextCodes DEF Create, Pulled
<1>3. c \in CourseCodes => \A q \in Requests : pc'[q] = "delete" => job'[q].code # c
  BY NoNewDelete DEF Kept
<1>4. QED
  BY <1>2, <1>3 DEF Kept

LEMMA NextKeeps == IInv /\ [Next]_vars => IInv'
<1> SUFFICES ASSUME IInv, [Next]_vars PROVE IInv'
  OBVIOUS
<1>1. TypeOK'
  BY TypeStep DEF IInv
<1>2. QED
  BY <1>1, SpentStep, AnswersStep, RequestsKeep DEF IInv

-----------------------------------------------------------------------------
(***************************************************************************)
(* The theorems.                                                           *)
(***************************************************************************)

\* A redemption or a pull under way protects its code, at every step of every
\* interleaving (module UnlockCodes, IInv).
THEOREM RowsProtect == Spec => []IInv
<1>1. QED
  BY InitInv, NextKeeps, PTL DEF Spec

\* Every column of the tables, every lock and every answer keeps its type.
THEOREM TypeCorrect == Spec => []TypeOK
<1>1. IInv => TypeOK
  BY DEF IInv
<1>2. QED
  BY <1>1, RowsProtect, PTL

\* A code delivers once, and to the student it names, however many press at
\* once (redeem's conditional update).
THEOREM DeliversOnce == Spec => []SpentIffDelivered
<1>1. IInv => SpentIffDelivered
  BY DEF IInv
<1>2. QED
  BY <1>1, RowsProtect, PTL

\* Nobody is told that a code worked, is pulled or is deleted when it is not,
\* neither at the answer nor as long as it is being read.
THEOREM NobodyIsMisled == Spec => []AnswersAreTrue
<1>1. IInv => AnswersAreTrue
  BY DEF IInv
<1>2. QED
  BY <1>1, RowsProtect, PTL

\* A code that names its student and that no delete has read as unspent keeps
\* him, whatever runs; one that a stale delete erases leaves what it opened in
\* his name; a pull is undone by a delete alone, and only a pull of its code
\* ends a grant.
THEOREM NeverSpentAgain == Spec => SpentForGood
<1> DEFINE Stands ==
  /\ \A c \in Codes :
       /\ Kept(c) => redeemer'[c] = redeemer[c] /\ Kept(c)'
       /\ redeemer[c] # Nobody \/ c \in revoked =>
            \/ made'[c] = "gone"
            \/ redeemer'[c] = redeemer[c] /\ (c \in revoked => c \in revoked')
       /\ made[c] = "gone" => made'[c] = "gone"
  /\ \A c \in CourseCodes : \A i \in 1 .. Len(grants[c]) :
       \/ made'[c] = "gone" /\ loose' = loose \o grants[c]
       \/ grants'[c][i] = grants[c][i]
       \/ c \in revoked' /\ grants'[c][i] = [grants[c][i] EXCEPT !.live = FALSE]
  /\ \A i \in 1 .. Len(loose) : loose'[i] = loose[i]
<1>1. IInv /\ [Next]_vars => [Stands]_vars
  <2> SUFFICES ASSUME IInv, [Next]_vars PROVE Stands
    OBVIOUS
  <2>1. ASSUME NEW c \in Codes, Kept(c) PROVE redeemer'[c] = redeemer[c] /\ Kept(c)'
    BY <2>1, KeptStays
  <2>2. ASSUME NEW c \in CourseCodes, NEW i \in 1 .. Len(grants[c])
        PROVE  \/ made'[c] = "gone" /\ loose' = loose \o grants[c]
               \/ grants'[c][i] = grants[c][i]
               \/ c \in revoked' /\ grants'[c][i] = [grants[c][i] EXCEPT !.live = FALSE]
    BY GrantHistory
  <2>3. \A i \in 1 .. Len(loose) : loose'[i] = loose[i]
    BY LooseGrows
  <2>4. QED
    BY <2>1, <2>2, <2>3, CodeHistory
<1>2. QED
  BY <1>1, RowsProtect, PTL DEF Spec, SpentForGood
=============================================================================
