----------------------------- MODULE UnlockCodes -----------------------------
(***************************************************************************)
(* Unlock codes: an admin makes a code, a student redeems it for grants on *)
(* a course or for money in the wallet, and an admin pulls or deletes it.  *)
(* Requests of all kinds are in flight at once, next to the payments desk, *)
(* which writes the same enrollment rows.                                  *)
(*                                                                         *)
(* The course codes are those of one closed course; codes of different     *)
(* courses share no row.  A transaction's writes are kept in its job until *)
(* it commits; the rows it wrote stay locked (READ COMMITTED).             *)
(***************************************************************************)
EXTENDS Integers, Sequences, FiniteSets

CONSTANTS
  Requests,     \* concurrent HTTP requests
  Students,
  CourseCodes,  \* codes that open lessons of the course, or all of it
  WalletCodes,  \* codes that carry money
  Nobody        \* no student, no lock holder

Codes == CourseCodes \cup WalletCodes

ASSUME CodesApart == CourseCodes \cap WalletCodes = {}
ASSUME NobodyIsNew == Nobody \notin Requests \cup Students

VARIABLES
  made,      \* unlock_codes: "none" before create, "gone" after delete
  redeemer,  \* redeemed_by_user_id, set together with redeemed_at
  revoked,   \* the codes with a revoked_at
  grants,    \* access_grants that name each course code, in order of insertion
  loose,     \* access_grants whose code is erased: unlock_code_id is NULL
  credits,   \* wallet_transactions rows of kind code_topup, by code
  paid,      \* students with a live grant on the course from the payments desk
  standing,  \* enrollments.status; "none" is no row
  source,    \* enrollments.source
  lock,      \* which request holds the lock of a row
  pc, job, answer

tables == <<made, redeemer, revoked, grants, loose, credits, paid, standing, source>>
vars == <<tables, lock, pc, job, answer>>

CodeRow(c)   == <<"code", c>>
EnrolRow(u)  == <<"enrollment", u>>
Rows == {CodeRow(c) : c \in Codes} \cup {EnrolRow(u) : u \in Students}

Free(r)    == lock[r] = Nobody
Take(q, r) == lock' = [lock EXCEPT ![r] = q]
Release(q) == lock' = [r \in Rows |-> IF lock[r] = q THEN Nobody ELSE lock[r]]

Grant == [holder : Students, live : BOOLEAN]
Opened(u) == [holder |-> u, live |-> TRUE]

\* Student u holds a live grant on the course, not counting those of code c.
HoldsOther(u, c) ==
  \/ u \in paid
  \/ \E d \in CourseCodes \ {c} : \E i \in 1 .. Len(grants[d]) : grants[d][i] = Opened(u)
  \/ \E i \in 1 .. Len(loose) : loose[i] = Opened(u)

Ops   == {"redeem", "revoke", "remove", "subscribe"}
Steps == {"spend", "credit", "enrol", "write", "pull", "settle", "update",
          "delete", "upsert", "commit"}

\* user: who redeems or subscribes; for a pull, the redeemer that was read.
\* writes: whether the transaction has an enrollment write to commit.
Job   == [op : Ops \cup {"none"}, code : Codes \cup {Nobody},
          user : Students \cup {Nobody}, writes : BOOLEAN]
NoJob == [op |-> "none", code |-> Nobody, user |-> Nobody, writes |-> FALSE]

Init ==
  /\ made = [c \in Codes |-> "none"]
  /\ redeemer = [c \in Codes |-> Nobody]
  /\ revoked = {}
  /\ grants = [c \in CourseCodes |-> << >>] /\ loose = << >>
  /\ credits = [c \in WalletCodes |-> << >>]
  /\ paid = {}
  /\ standing \in [Students -> {"none", "revoked"}]
  /\ source = [u \in Students |-> IF standing[u] = "none" THEN "none" ELSE "purchase"]
  /\ lock = [r \in Rows |-> Nobody]
  /\ pc = [q \in Requests |-> "idle"]
  /\ job = [q \in Requests |-> NoJob]
  /\ answer = [q \in Requests |-> "none"]

-----------------------------------------------------------------------------
(***************************************************************************)
(* Control.                                                                *)
(***************************************************************************)

Begin(q, j, s) ==
  /\ pc[q] = "idle"
  /\ pc' = [pc EXCEPT ![q] = s]
  /\ job' = [job EXCEPT ![q] = j]
  /\ UNCHANGED <<tables, lock, answer>>

Refuse(q, j, a) ==
  /\ pc[q] = "idle"
  /\ pc' = [pc EXCEPT ![q] = "answered"]
  /\ job' = [job EXCEPT ![q] = j]
  /\ answer' = [answer EXCEPT ![q] = a]
  /\ UNCHANGED <<tables, lock>>

Goto(q, s) == pc' = [pc EXCEPT ![q] = s] /\ UNCHANGED answer

\* The transaction rolls back and its caller is answered.
Fail(q, a) ==
  /\ Release(q)
  /\ pc' = [pc EXCEPT ![q] = "answered"]
  /\ answer' = [answer EXCEPT ![q] = a]
  /\ UNCHANGED <<tables, job>>

-----------------------------------------------------------------------------
(***************************************************************************)
(* create: a batch of fresh codes, one transaction; here one code of it.   *)
(***************************************************************************)

Create(c) ==
  /\ made[c] = "none"
  /\ made' = [made EXCEPT ![c] = "made"]
  /\ UNCHANGED <<redeemer, revoked, grants, loose, credits, paid, standing, source, lock,
                 pc, job, answer>>

-----------------------------------------------------------------------------
(***************************************************************************)
(* redeem.                                                                 *)
(***************************************************************************)

\* The same student pressing twice gets the success screen again. (Mutant:
\* so does anybody else.)
PressedByAnyone(u, c) == redeemer[c] # Nobody
PressedAgain(u, c) == redeemer[c] = u

\* The attempt counters in Redis may refuse anybody, and an unpublished
\* course refuses its codes; then the code is read, before the transaction.
StartRedeem(q, u, c) ==
  LET j == [NoJob EXCEPT !.op = "redeem", !.code = c, !.user = u]
  IN  \/ Refuse(q, j, "locked")
      \/ /\ made[c] # "made"
         /\ Refuse(q, j, "invalid")
      \/ /\ made[c] = "made" /\ c \in revoked
         /\ Refuse(q, j, "revoked")
      \/ /\ made[c] = "made" /\ c \notin revoked /\ redeemer[c] # Nobody
         /\ Refuse(q, j, IF PressedAgain(u, c) THEN "again" ELSE "used")
      \/ /\ made[c] = "made" /\ c \notin revoked /\ redeemer[c] = Nobody
         /\ \/ Begin(q, j, "spend")
            \/ c \in CourseCodes /\ Refuse(q, j, "course_unavailable")

\* The predicate of the conditional update. (Mutant: the code's id alone.)
UnspentIfThere(c) == made[c] = "made"
Unspent(c) == made[c] = "made" /\ redeemer[c] = Nobody /\ c \notin revoked

Spend(q) ==
  LET c == job[q].code
  IN  /\ pc[q] = "spend"
      /\ Free(CodeRow(c))
      /\ IF Unspent(c)
         THEN /\ Take(q, CodeRow(c))
              /\ Goto(q, IF c \in WalletCodes THEN "credit" ELSE "enrol")
              /\ UNCHANGED <<tables, job>>
         ELSE Fail(q, "used")

\* creditWallet: the ledger's UNIQUE index on unlock_code_id.
Credit(q) ==
  /\ pc[q] = "credit"
  /\ IF credits[job[q].code] = << >>
     THEN Goto(q, "commit") /\ UNCHANGED <<tables, lock, job>>
     ELSE Fail(q, "used")

\* The enrollment as it stands: an active one is left exactly as it is.
Enrol(q) ==
  LET active == standing[job[q].user] = "active"
  IN  /\ pc[q] = "enrol"
      /\ job' = [job EXCEPT ![q].writes = ~active]
      /\ Goto(q, IF active THEN "commit"
                 ELSE IF standing[job[q].user] = "none" THEN "write" ELSE "update")
      /\ UNCHANGED <<tables, lock>>

\* The insert of a first enrollment, which the unique index of student and
\* course refuses when somebody else's has been committed.
Write(q) ==
  /\ pc[q] = "write"
  /\ Free(EnrolRow(job[q].user))
  /\ IF standing[job[q].user] = "none"
     THEN /\ Take(q, EnrolRow(job[q].user))
          /\ Goto(q, "commit")
          /\ UNCHANGED <<tables, job>>
     ELSE Fail(q, "error")

\* An update of the enrollment by its id, or the desk's upsert: it waits for
\* the row and does not look at it again.
Overwrite(q) ==
  /\ pc[q] \in {"update", "upsert"}
  /\ Free(EnrolRow(job[q].user))
  /\ Take(q, EnrolRow(job[q].user))
  /\ Goto(q, "commit")
  /\ UNCHANGED <<tables, job>>

Delivered(q) ==
  LET c == job[q].code
      u == job[q].user
  IN  /\ redeemer' = [redeemer EXCEPT ![c] = u]
      /\ IF c \in CourseCodes
         THEN /\ grants' = [grants EXCEPT ![c] = Append(@, Opened(u))]
              /\ UNCHANGED credits
         ELSE /\ credits' = [credits EXCEPT ![c] = Append(@, u)]
              /\ UNCHANGED grants
      /\ UNCHANGED <<made, revoked, loose, paid>>

-----------------------------------------------------------------------------
(***************************************************************************)
(* revoke, remove, and what payments does to the same enrollment.          *)
(***************************************************************************)

\* The read at the head of revoke's transaction, which locks nothing.
StartRevoke(q, c) ==
  LET j == [NoJob EXCEPT !.op = "revoke", !.code = c, !.user = redeemer[c]]
  IN  \/ /\ made[c] # "made"
         /\ Refuse(q, j, "not_found")
      \/ /\ made[c] = "made" /\ c \in revoked
         /\ Refuse(q, j, "already")
      \/ /\ made[c] = "made" /\ c \notin revoked
         /\ IF c \in WalletCodes /\ redeemer[c] # Nobody
            THEN Refuse(q, j, "wallet_code_used")
            ELSE Begin(q, j, "pull")

\* The update by id waits for the row; it fails only when the row is gone.
Pull(q) ==
  LET c == job[q].code
  IN  /\ pc[q] = "pull"
      /\ Free(CodeRow(c))
      /\ IF made[c] = "made"
         THEN /\ Take(q, CodeRow(c))
              /\ Goto(q, IF job[q].user # Nobody /\ c \in CourseCodes
                         THEN "settle" ELSE "commit")
              /\ UNCHANGED <<tables, job>>
         ELSE Fail(q, "error")

\* revokeCodeOnlyEnrollment, after the code's grants were updated.
CodeOnly(u, c) == standing[u] = "active" /\ source[u] = "code" /\ ~HoldsOther(u, c)

Settle(q) ==
  LET only == CodeOnly(job[q].user, job[q].code)
  IN  /\ pc[q] = "settle"
      /\ job' = [job EXCEPT ![q].writes = only]
      /\ Goto(q, IF only THEN "update" ELSE "commit")
      /\ UNCHANGED <<tables, lock>>

\* The code's grants lose their life if the read saw a redeemer.
Pulled(q) ==
  LET c == job[q].code
  IN  /\ revoked' = revoked \cup {c}
      /\ grants' = IF c \in CourseCodes /\ job[q].user # Nobody
                   THEN [grants EXCEPT ![c] =
                           [i \in DOMAIN @ |-> [@[i] EXCEPT !.live = FALSE]]]
                   ELSE grants
      /\ UNCHANGED <<made, redeemer, loose, credits, paid>>

\* What remove asks of the code as it reads it. (Mutant: that it is there.)
RemovableIfThere(c) == made[c] = "made"
Removable(c) == made[c] = "made" /\ redeemer[c] = Nobody

\* remove reads the code on its own...
StartRemove(q, c) ==
  LET j == [NoJob EXCEPT !.op = "remove", !.code = c]
  IN  IF Removable(c)
      THEN Begin(q, j, "delete")
      ELSE Refuse(q, j, IF made[c] = "made" THEN "used" ELSE "not_found")

\* ... and deletes it by id, whatever has been redeemed since. The foreign key
\* of the ledger refuses; by that of the grants (SET NULL) they name no code.
Delete(q) ==
  LET c == job[q].code
  IN  /\ pc[q] = "delete"
      /\ Free(CodeRow(c))
      /\ pc' = [pc EXCEPT ![q] = "answered"]
      /\ IF made[c] = "made" /\ (c \in WalletCodes => credits[c] = << >>)
         THEN /\ made' = [made EXCEPT ![c] = "gone"]
              /\ redeemer' = [redeemer EXCEPT ![c] = Nobody]
              /\ revoked' = revoked \ {c}
              /\ loose' = IF c \in CourseCodes THEN loose \o grants[c] ELSE loose
              /\ grants' = [d \in CourseCodes |-> IF d = c THEN << >> ELSE grants[d]]
              /\ answer' = [answer EXCEPT ![q] = "done"]
         ELSE /\ answer' = [answer EXCEPT ![q] = "error"]
              /\ UNCHANGED <<made, redeemer, revoked, grants, loose>>
      /\ UNCHANGED <<credits, paid, standing, source, lock, job>>

\* The desk's transaction: writePurchaseGrant's grant, then its upsert.
StartSubscribe(q, u) ==
  Begin(q, [NoJob EXCEPT !.op = "subscribe", !.user = u, !.writes = TRUE], "upsert")
Subscribed(q) ==
  /\ paid' = paid \cup {job[q].user}
  /\ UNCHANGED <<made, redeemer, revoked, grants, loose, credits>>

\* FinanceService.cancel revokes the grant and leaves the enrollment.
Unsubscribe(u) ==
  /\ u \in paid
  /\ paid' = paid \ {u}
  /\ UNCHANGED <<made, redeemer, revoked, grants, loose, credits, standing, source, lock,
                 pc, job, answer>>

-----------------------------------------------------------------------------
(***************************************************************************)
(* Commit, crash and the next request.                                     *)
(***************************************************************************)

\* The source a new or revived enrollment gets. (Mutant: the operation's name.)
SourceAsOp(q) == job[q].op
SourceOf(q) == IF job[q].op = "redeem" THEN "code" ELSE "purchase"

\* What the transaction wrote on the enrollment.
EnrollmentWrite(q) ==
  LET u == job[q].user
  IN  CASE ~job[q].writes -> UNCHANGED <<standing, source>>
        [] job[q].writes /\ job[q].op = "revoke" ->
             standing' = [standing EXCEPT ![u] = "revoked"] /\ UNCHANGED source
        [] job[q].writes /\ job[q].op # "revoke" ->
             /\ standing' = [standing EXCEPT ![u] = "active"]
             /\ source' = [source EXCEPT ![u] = SourceOf(q)]

Commit(q) ==
  /\ pc[q] = "commit"
  /\ \/ job[q].op = "redeem" /\ Delivered(q)
     \/ job[q].op = "revoke" /\ Pulled(q)
     \/ job[q].op = "subscribe" /\ Subscribed(q)
  /\ EnrollmentWrite(q)
  /\ Release(q)
  /\ pc' = [pc EXCEPT ![q] = "answered"]
  /\ answer' = [answer EXCEPT ![q] = "done"]
  /\ UNCHANGED job

\* The process or its connection dies; an open transaction rolls back.
Crash(q) ==
  /\ pc[q] \in Steps
  /\ Release(q)
  /\ pc' = [pc EXCEPT ![q] = "idle"]
  /\ job' = [job EXCEPT ![q] = NoJob]
  /\ UNCHANGED <<tables, answer>>

Finish(q) ==
  /\ pc[q] = "answered"
  /\ pc' = [pc EXCEPT ![q] = "idle"]
  /\ job' = [job EXCEPT ![q] = NoJob]
  /\ answer' = [answer EXCEPT ![q] = "none"]
  /\ UNCHANGED <<tables, lock>>

Start(q) ==
  \/ \E u \in Students, c \in Codes : StartRedeem(q, u, c)
  \/ \E c \in Codes : StartRevoke(q, c) \/ StartRemove(q, c)
  \/ \E u \in Students : StartSubscribe(q, u)

Run(q) ==
  \/ Spend(q) \/ Credit(q) \/ Enrol(q) \/ Write(q) \/ Overwrite(q)
  \/ Pull(q) \/ Settle(q) \/ Delete(q) \/ Commit(q)

Next ==
  \/ \E c \in Codes : Create(c)
  \/ \E u \in Students : Unsubscribe(u)
  \/ \E q \in Requests : Start(q) \/ Run(q) \/ Crash(q) \/ Finish(q)

Spec == Init /\ [][Next]_vars

-----------------------------------------------------------------------------
(***************************************************************************)
(* Properties.                                                             *)
(***************************************************************************)

\* Every column stays in its range: a code is made, spent and pulled by the
\* values the tables know, and an enrollment has one of the sources its
\* writers give it. (The unlock_codes, access_grants and enrollments tables.)
TypeOK ==
  /\ made \in [Codes -> {"none", "made", "gone"}]
  /\ redeemer \in [Codes -> Students \cup {Nobody}]
  /\ revoked \in SUBSET Codes
  /\ grants \in [CourseCodes -> Seq(Grant)]
  /\ loose \in Seq(Grant)
  /\ credits \in [WalletCodes -> Seq(Students)]
  /\ paid \in SUBSET Students
  /\ standing \in [Students -> {"none", "active", "revoked"}]
  /\ source \in [Students -> {"none", "code", "purchase"}]
  /\ lock \in [Rows -> Requests \cup {Nobody}]
  /\ pc \in [Requests -> Steps \cup {"idle", "answered"}]
  /\ job \in [Requests -> Job]
  /\ answer \in [Requests -> {"none", "locked", "invalid", "revoked", "again", "used",
                              "course_unavailable", "error", "done", "not_found",
                              "already", "wallet_code_used"}]

\* Who got something out of a code, in order.
Receivers(c) == IF c \in WalletCodes THEN credits[c]
                ELSE [i \in 1 .. Len(grants[c]) |-> grants[c][i].holder]

\* However many students press at once, a code delivers once and to the
\* student it names, and one that names a student has delivered; a code that
\* is not there names nobody, and no grant and no credit names it.
\* (redeem: "Single use is one conditional UPDATE inside the transaction".)
SpentIffDelivered ==
  \A c \in Codes :
    /\ Receivers(c) = IF redeemer[c] = Nobody THEN << >> ELSE << redeemer[c] >>
    /\ made[c] # "made" => redeemer[c] = Nobody

\* Code c was erased, and a grant that an erased code left is u's.
Left(u, c) ==
  c \in CourseCodes /\ made[c] = "gone" /\ \E i \in 1 .. Len(loose) : loose[i].holder = u

\* A student who is told that the code worked, now or on an earlier press, is
\* the one it worked for: the code names him, or it was erased and a grant it
\* left is his. An admin told that a code is pulled or deleted finds it so, or
\* finds a pulled one deleted since.
AnswersAreTrue ==
  \A q \in Requests :
    LET c == job[q].code
    IN  /\ job[q].op = "redeem" /\ answer[q] \in {"done", "again"} =>
             redeemer[c] = job[q].user \/ Left(job[q].user, c)
        /\ job[q].op = "revoke" /\ answer[q] \in {"done", "already"} =>
             c \in revoked \/ made[c] = "gone"
        /\ job[q].op = "remove" /\ answer[q] = "done" => made[c] = "gone"

\* A spent code that cannot be deleted: one of money, which the ledger's
\* foreign key keeps, or one that no delete has read as unspent.
Kept(c) ==
  /\ redeemer[c] # Nobody
  /\ c \in CourseCodes => \A q \in Requests : pc[q] = "delete" => job[q].code # c

\* A spent code stays and names its student for good, unless a delete that
\* read it before the redemption is still under way; even then nobody else
\* gets it, and what it opened stays open in the student's name. A pull is not
\* undone but by a delete, nothing erased comes back, and a grant that a code
\* opened dies only by a pull of that code. (remove: "Only a code nobody used.
\* A used one is history", which the delete under way is the exception to.)
SpentForGood ==
  [][/\ \A c \in Codes :
         /\ Kept(c) => redeemer'[c] = redeemer[c] /\ Kept(c)'
         /\ redeemer[c] # Nobody \/ c \in revoked =>
              \/ made'[c] = "gone"
              \/ redeemer'[c] = redeemer[c] /\ (c \in revoked => c \in revoked')
         /\ made[c] = "gone" => made'[c] = "gone"
     /\ \A c \in CourseCodes : \A i \in 1 .. Len(grants[c]) :
          \/ made'[c] = "gone" /\ loose' = loose \o grants[c]
          \/ grants'[c][i] = grants[c][i]
          \/ c \in revoked' /\ grants'[c][i] = [grants[c][i] EXCEPT !.live = FALSE]
     /\ \A i \in 1 .. Len(loose) : loose'[i] = loose[i]
    ]_vars

\* What a pulled code opened is closed. (revoke: "A used code's grants get
\* `revokedAt`".)
PulledIsClosed ==
  \A c \in CourseCodes \cap revoked : \A i \in 1 .. Len(grants[c]) : ~grants[c][i].live

\* A student with a live grant on the course has an active enrollment, which
\* every lesson asks for. (redeem: "Nothing reaches a lesson without an
\* active one".)
EntitledAreEnrolled ==
  \A u \in Students : HoldsOther(u, Nobody) => standing[u] = "active"

-----------------------------------------------------------------------------
(***************************************************************************)
(* The inductive invariant behind the properties that hold: a redemption   *)
(* past its conditional update, and a pull past its own, hold the code's   *)
(* row, and under the lock of a redemption the code is still unspent.      *)
(***************************************************************************)

\* Which operations reach which step, what their jobs carry, and that only a
\* request that is over has an answer.
StepOK(q) ==
  /\ pc[q] \in {"spend", "credit", "enrol", "write"} => job[q].op = "redeem"
  /\ pc[q] = "update" => job[q].op \in {"redeem", "revoke"}
  /\ pc[q] \in {"pull", "settle"} => job[q].op = "revoke"
  /\ pc[q] = "delete" => job[q].op = "remove"
  /\ pc[q] = "upsert" => job[q].op = "subscribe"
  /\ pc[q] = "commit" => job[q].op \in {"redeem", "revoke", "subscribe"}
  /\ job[q].op \in {"redeem", "subscribe"} => job[q].user \in Students
  /\ job[q].op \in {"redeem", "revoke", "remove"} => job[q].code \in Codes
  /\ pc[q] # "answered" => answer[q] = "none"

HoldsCode(q) ==
  /\ pc[q] \in {"credit", "enrol", "write", "settle", "update", "commit"}
  /\ job[q].op \in {"redeem", "revoke"}
  => /\ lock[CodeRow(job[q].code)] = q
     /\ job[q].op = "redeem" => Unspent(job[q].code)

IInv == /\ TypeOK /\ SpentIffDelivered /\ AnswersAreTrue
        /\ \A q \in Requests : StepOK(q) /\ HoldsCode(q)
=============================================================================
