--------------------------- MODULE QuizAttemptProofs ---------------------------
(***************************************************************************)
(* Proofs about QuizAttempt for any number of requests, tabs and           *)
(* questions.  What a request was admitted for under the lock of the paper *)
(* is still so when it writes; a teacher's mark does not hold that lock    *)
(* until its last statement, and needs the CHECK on the paper's state.     *)
(* The ranges of scores, tokens and counters, which are sums and maxima    *)
(* over the questions, come last.                                          *)
(***************************************************************************)
EXTENDS QuizAttempt, FiniteSetTheorems, WellFoundedInduction, TLAPS

\* Rows and jobs have their columns; {x.f} leaves a column f any value.
PaperOK(p) ==
  /\ p \in [state : {"in_progress", "abandoned"} \cup Finished, submitted : BOOLEAN,
            token : {p.token}, score : {p.score}]
  /\ p.submitted <=> p.state # "in_progress"
SlotOK(r) ==
  r \in [answer : {r.answer}, seq : {r.seq}, version : {r.version}, graded : BOOLEAN,
         mark : {r.mark}, by : {"teacher", None}]
JobOK(j) ==
  /\ j \in [op : Ops \cup {"none"}, tab : {j.tab}, token : {j.token}, seq : {j.seq},
            slot : Slots \cup {None}, answer : {j.answer}, mark : {j.mark}, was : {j.was},
            version : {j.version}, total : {j.total}, pending : {j.pending}]
  /\ j.op \in {"save", "grade", "regrade"} => j.slot \in Slots

SlotsOK(f) == f = [s \in Slots |-> f[s]] /\ \A s \in Slots : SlotOK(f[s])

TablesInv == PaperOK(paper) /\ SlotsOK(slot) /\ SittingIsUngraded /\ MarkedAsAnswered

Columns ==
  /\ slotLock \in [Slots -> Requests \cup {None}]
  /\ pc \in [Requests -> Steps \cup {"idle"}]
  /\ job = [q \in Requests |-> job[q]] /\ \A q \in Requests : JobOK(job[q])

UnderLock == {"save", "submit", "close", "reopen", "regrade"}

\* Who writes holds the paper, which is as it was admitted; who has marked a
\* question holds that question.
RequestInv(q) ==
  /\ pc[q] \in {"lock", "write"} => job[q].op \in UnderLock
  /\ pc[q] = "write" =>
       /\ paperLock = q
       /\ job[q].op \in {"submit", "close"} => Open
       /\ job[q].op = "regrade" => paper.state # "abandoned"
  /\ pc[q] \in {"mark", "sum", "total"} => job[q].op = "grade"
  /\ pc[q] \in {"sum", "total"} /\ Changed(q) => slotLock[job[q].slot] = q

IInv == TablesInv /\ Columns /\ \A q \in Requests : RequestInv(q)

-----------------------------------------------------------------------------
LEMMA NoJobOK == JobOK(NoJob)
BY DEF JobOK, NoJob

LEMMA InitEstablishes == Init => IInv
<1> SUFFICES ASSUME Init PROVE IInv
  OBVIOUS
<1>1. PaperOK(paper)
  BY DEF Init, PaperOK
<1>2. SlotsOK(slot)
  BY DEF Init, SlotsOK, SlotOK
<1>3. SittingIsUngraded /\ MarkedAsAnswered
  BY DEF Init, SittingIsUngraded, MarkedAsAnswered, Slots
<1>4. Columns
  BY NoJobOK DEF Init, Columns
<1>5. \A q \in Requests : RequestInv(q)
  BY DEF Init, RequestInv
<1>. QED BY <1>1, <1>2, <1>3, <1>4, <1>5 DEF IInv, TablesInv

\* A request that does not move keeps its promises as long as the paper it
\* holds stands and its locks are its own.
LEMMA BystanderKeeps ==
  ASSUME NEW o \in Requests, RequestInv(o), Columns, pc'[o] = pc[o], job'[o] = job[o],
         pc[o] = "write" => paper' = paper /\ paperLock' = o,
         \A s \in Slots : slotLock[s] = o => slotLock'[s] = o
  PROVE  RequestInv(o)'
BY DEF RequestInv, Columns, JobOK, Changed, Open, Ops

LEMMA TablesStand ==
  ASSUME TablesInv, UNCHANGED rows
  PROVE  TablesInv'
BY DEF TablesInv, PaperOK, SlotsOK, SlotOK, SittingIsUngraded, MarkedAsAnswered, rows

\* The paper of a request that writes is nobody else's.
LEMMA OneWriter ==
  ASSUME IInv, NEW q \in Requests, NEW o \in Requests \ {q}, paperLock \in {None, q}
  PROVE  pc[o] # "write"
BY NoneIsNew DEF IInv, RequestInv

LEMMA EndFrees ==
  ASSUME IInv, NEW q \in Requests, End(q)
  PROVE  /\ Columns' /\ RequestInv(q)'
         /\ \A o \in Requests \ {q} :
              /\ pc'[o] = pc[o] /\ job'[o] = job[o]
              /\ paperLock = o => paperLock' = o
              /\ \A s \in Slots : slotLock[s] = o => slotLock'[s] = o
<1>1. Columns
  BY DEF IInv
<1>2. pc'[q] = "idle" /\ job'[q] = NoJob
  BY <1>1 DEF End, Columns
<1>3. \A o \in Requests \ {q} : pc'[o] = pc[o] /\ job'[o] = job[o]
  BY <1>1 DEF End, Columns
<1>4. slotLock' \in [Slots -> Requests \cup {None}] /\ pc' \in [Requests -> Steps \cup {"idle"}]
  BY <1>1 DEF End, Columns
<1>5. job' = [o \in Requests |-> job'[o]] /\ \A o \in Requests : JobOK(job'[o])
  BY <1>1, <1>2, <1>3, NoJobOK DEF End, Columns
<1>6. Columns'
  BY <1>4, <1>5 DEF Columns
<1>7. RequestInv(q)'
  BY <1>2 DEF RequestInv
<1>. QED BY <1>1, <1>3, <1>6, <1>7 DEF End, Columns

\* A request that ends, having written the rows right, with the paper its own
\* or free if it wrote that.
LEMMA EndKeeps ==
  ASSUME IInv, NEW q \in Requests, End(q), TablesInv', paper' = paper \/ paperLock \in {None, q}
  PROVE  IInv'
<1>1. ASSUME NEW o \in Requests \ {q} PROVE RequestInv(o)'
  <2>1. pc[o] = "write" => paperLock = o /\ paper' = paper
    BY OneWriter DEF IInv, RequestInv
  <2>2. /\ pc'[o] = pc[o] /\ job'[o] = job[o] /\ (paperLock = o => paperLock' = o)
        /\ \A s \in Slots : slotLock[s] = o => slotLock'[s] = o
    BY EndFrees
  <2>. QED BY <2>1, <2>2, BystanderKeeps DEF IInv
<1>. QED BY <1>1, EndFrees DEF IInv

LEMMA RollBackKeeps ==
  ASSUME IInv, NEW q \in Requests, RollBack(q)
  PROVE  IInv'
<1>1. End(q) /\ UNCHANGED rows /\ paper' = paper
  BY DEF RollBack, rows
<1>2. TablesInv'
  BY <1>1, TablesStand DEF IInv
<1>. QED BY <1>1, <1>2, EndKeeps

\* A request that goes on to s with the job j, and may take locks that are free.
LEMMA MoveKeeps ==
  ASSUME IInv, NEW q \in Requests, TablesInv', paper' = paper \/ paperLock \in {None, q},
         NEW s \in Steps, Goto(q, s), NEW j, JobOK(j), job' = [job EXCEPT ![q] = j],
         paperLock' = paperLock \/ paperLock \in {None, q},
         slotLock' \in [Slots -> Requests \cup {None}],
         \A o \in Requests \ {q}, x \in Slots : slotLock[x] = o => slotLock'[x] = o,
         pc'[q] = s /\ job'[q] = j => RequestInv(q)'
  PROVE  IInv'
<1>1. Columns
  BY DEF IInv
<1>2. pc'[q] = s /\ job'[q] = j /\ \A o \in Requests \ {q} : pc'[o] = pc[o] /\ job'[o] = job[o]
  BY <1>1 DEF Columns, Goto
<1>3. pc' \in [Requests -> Steps \cup {"idle"}]
  BY <1>1 DEF Columns, Goto
<1>4. job' = [o \in Requests |-> job'[o]] /\ \A o \in Requests : JobOK(job'[o])
  BY <1>1, <1>2 DEF Columns
<1>5. Columns'
  BY <1>3, <1>4 DEF Columns
<1>6. ASSUME NEW o \in Requests \ {q} PROVE RequestInv(o)'
  <2>1. pc[o] = "write" => paper' = paper /\ paperLock' = o
    BY OneWriter DEF IInv, RequestInv
  <2>. QED BY <1>1, <1>2, <2>1, BystanderKeeps DEF IInv
<1>7. RequestInv(q)'
  BY <1>2
<1>. QED BY <1>5, <1>6, <1>7 DEF IInv

LEMMA BeginKeeps ==
  ASSUME IInv, NEW q \in Requests, NEW s \in {"rotate", "lock", "mark"}, NEW j, JobOK(j),
         s = "lock" => j.op \in UnderLock, s = "mark" => j.op = "grade", Begin(q, j, s)
  PROVE  IInv'
<1>1. /\ UNCHANGED <<rows, locks>> /\ Goto(q, s) /\ job' = [job EXCEPT ![q] = j]
  BY DEF Begin, Goto
<1>2. TablesInv' /\ paper' = paper /\ paperLock' = paperLock
  BY <1>1, TablesStand DEF IInv, rows, locks
<1>3. /\ slotLock' \in [Slots -> Requests \cup {None}]
      /\ \A o \in Requests \ {q}, x \in Slots : slotLock[x] = o => slotLock'[x] = o
  BY <1>1 DEF IInv, Columns, locks
<1>4. pc'[q] = s /\ job'[q] = j => RequestInv(q)'
  BY DEF RequestInv
<1>5. s \in Steps
  BY DEF Steps
<1>. QED BY <1>1, <1>2, <1>3, <1>4, <1>5, MoveKeeps

LEMMA StartKeeps ==
  ASSUME IInv, NEW q \in Requests, Start(q)
  PROVE  IInv'
<1>1. ASSUME NEW t \in Tabs, StartResume(q, t) PROVE IInv'
  <2>1. PICK j : j = [NoJob EXCEPT !.op = "resume", !.tab = t]
    OBVIOUS
  <2>2. JobOK(j) /\ Begin(q, j, "rotate")
    BY <1>1, <2>1 DEF StartResume, JobOK, NoJob, Ops
  <2>. QED BY <2>2, BeginKeeps
<1>2. ASSUME NEW t \in Tabs, StartSubmit(q, t) PROVE IInv'
  <2>1. PICK j : j = [NoJob EXCEPT !.op = "submit", !.tab = t, !.token = tabs[t].token]
    OBVIOUS
  <2>2. JobOK(j) /\ j.op = "submit" /\ Begin(q, j, "lock")
    BY <1>2, <2>1 DEF StartSubmit, JobOK, NoJob, Ops
  <2>. QED BY <2>2, BeginKeeps DEF UnderLock
<1>3. ASSUME NEW t \in Tabs, NEW s \in Choice, NEW a \in Answers, StartSave(q, t, s, a) PROVE IInv'
  <2>1. PICK j : j = [NoJob EXCEPT !.op = "save", !.tab = t, !.token = tabs[t].token,
                            !.seq = tabs[t].seq, !.slot = s, !.answer = a]
    OBVIOUS
  <2>2. JobOK(j) /\ j.op = "save" /\ Begin(q, j, "lock")
    BY <1>3, <2>1 DEF StartSave, JobOK, NoJob, Ops, Slots
  <2>. QED BY <2>2, BeginKeeps DEF UnderLock
<1>4. CASE StartClose(q)
  <2>1. PICK j : j = [NoJob EXCEPT !.op = "close"]
    OBVIOUS
  <2>2. JobOK(j) /\ j.op = "close" /\ Begin(q, j, "lock")
    BY <1>4, <2>1 DEF StartClose, JobOK, NoJob, Ops
  <2>. QED BY <2>2, BeginKeeps DEF UnderLock
<1>5. CASE StartReopen(q)
  <2>1. PICK j : j = [NoJob EXCEPT !.op = "reopen"]
    OBVIOUS
  <2>2. JobOK(j) /\ j.op = "reopen" /\ Begin(q, j, "lock")
    BY <1>5, <2>1 DEF StartReopen, JobOK, NoJob, Ops
  <2>. QED BY <2>2, BeginKeeps DEF UnderLock
<1>6. ASSUME NEW s \in Slots, NEW m, NEW a, StartGrade(q, s, m, a) PROVE IInv'
  <2>1. PICK j : j = [NoJob EXCEPT !.op = "grade", !.slot = s, !.mark = m, !.answer = a,
                            !.was = slot[s].mark]
    OBVIOUS
  <2>2. JobOK(j) /\ j.op = "grade" /\ Begin(q, j, "mark")
    BY <1>6, <2>1 DEF StartGrade, JobOK, NoJob, Ops
  <2>. QED BY <2>2, BeginKeeps
<1>7. ASSUME NEW s \in Choice, StartRegrade(q, s) PROVE IInv'
  <2>1. PICK j : j = [NoJob EXCEPT !.op = "regrade", !.slot = s, !.version = published]
    OBVIOUS
  <2>2. JobOK(j) /\ j.op = "regrade" /\ Begin(q, j, "lock")
    BY <1>7, <2>1 DEF StartRegrade, JobOK, NoJob, Ops, Slots
  <2>. QED BY <2>2, BeginKeeps DEF UnderLock
<1>. QED BY <1>1, <1>2, <1>3, <1>4, <1>5, <1>6, <1>7 DEF Start, Slots

-----------------------------------------------------------------------------
(***************************************************************************)
(* What the statements write.                                              *)
(***************************************************************************)

\* A paper that stays open or handed in, with another token.
LEMMA TokenKeeps ==
  ASSUME TablesInv, paper' = [paper EXCEPT !.token = @ + 1], UNCHANGED slot
  PROVE  TablesInv'
<1>1. PaperOK(paper)' /\ paper'.submitted = paper.submitted
  BY DEF TablesInv, PaperOK
<1>. QED BY <1>1 DEF TablesInv, SlotsOK, SlotOK, SittingIsUngraded, MarkedAsAnswered

\* A paper that is finished, whatever its total.
LEMMA FinishedOK ==
  ASSUME PaperOK(paper), NEW b \in BOOLEAN, NEW x, paper.submitted,
         paper' = [paper EXCEPT !.state = StateOf(b), !.score = x]
  PROVE  PaperOK(paper)' /\ paper'.submitted
BY DEF PaperOK, StateOf, Finished

LEMMA HandInKeeps ==
  ASSUME TablesInv, NEW q, HandIn(q)
  PROVE  TablesInv'
<1>1. slot' = EngineMarked /\ SlotsOK(slot) /\ PaperOK(paper)
  BY DEF HandIn, TablesInv
<1>2. PICK x : x = TotalOf(EngineMarked)
  OBVIOUS
<1>3. PICK b \in BOOLEAN : b = PendingOf(EngineMarked)
  BY DEF PendingOf
<1>4. paper' = [paper EXCEPT !.submitted = TRUE, !.state = StateOf(b), !.score = x]
  BY <1>2, <1>3 DEF HandIn
<1>5. PaperOK(paper)' /\ paper'.submitted
  BY <1>1, <1>4 DEF PaperOK, StateOf, Finished
<1>6. \A s \in Slots : SlotOK(slot[s]) /\
        slot'[s] = [slot[s] EXCEPT !.mark = Engine(s, slot[s].answer, slot[s].version),
                                   !.graded = TRUE]
  BY <1>1 DEF EngineMarked, SlotsOK
<1>7. ASSUME NEW s \in Slots
      PROVE  /\ SlotOK(slot'[s]) /\ slot'[s].graded
             /\ slot'[s].answer = slot[s].answer /\ slot'[s].version = slot[s].version
             /\ slot'[s].mark = Engine(s, slot[s].answer, slot[s].version)
  <2>1. PICK e : e = Engine(s, slot[s].answer, slot[s].version)
    OBVIOUS
  <2>2. SlotOK(slot[s]) /\ slot'[s] = [slot[s] EXCEPT !.mark = e, !.graded = TRUE]
    BY <1>6, <2>1
  <2>. QED BY <2>1, <2>2 DEF SlotOK
<1>8. SlotsOK(slot)'
  BY <1>1, <1>7 DEF SlotsOK, EngineMarked
<1>9. SittingIsUngraded' /\ MarkedAsAnswered'
  BY <1>5, <1>7 DEF SittingIsUngraded, MarkedAsAnswered, Slots
<1>. QED BY <1>5, <1>8, <1>9 DEF TablesInv

\* The question that a request writes, and the others.
LEMMA SlotWritten ==
  ASSUME SlotsOK(slot), NEW s \in Slots, NEW r, SlotOK(r), slot' = [slot EXCEPT ![s] = r]
  PROVE  SlotsOK(slot)' /\ slot'[s] = r /\ \A x \in Slots \ {s} : slot'[x] = slot[x]
BY DEF SlotsOK

\* A save meets no graded question, so no mark becomes untrue of its answer.
LEMMA SaveKeeps ==
  ASSUME IInv, NEW q \in Requests, Save(q)
  PROVE  IInv'
<1>1. PICK s \in Slots : s = job[q].slot
  BY DEF IInv, Columns, JobOK, Save
<1>2. End(q) /\ TablesInv
  BY DEF Save, IInv
<1>3. CASE UNCHANGED rows
  BY <1>2, <1>3, RollBackKeeps DEF RollBack
<1>4. CASE /\ ~slot[s].graded
           /\ slot' = [slot EXCEPT ![s].answer = job[q].answer, ![s].seq = job[q].seq]
           /\ UNCHANGED <<paper, late>>
  <2>1. PICK r : r = [slot[s] EXCEPT !.answer = job[q].answer, !.seq = job[q].seq]
    OBVIOUS
  <2>2. SlotOK(slot[s]) /\ SlotsOK(slot)
    BY <1>2 DEF TablesInv, SlotsOK
  <2>3. SlotOK(r) /\ r.graded = slot[s].graded
    BY <2>1, <2>2 DEF SlotOK
  <2>4. slot' = [slot EXCEPT ![s] = r]
    BY <1>4, <2>1, <2>2 DEF SlotsOK
  <2>5. SlotsOK(slot)' /\ slot'[s] = r /\ \A x \in Slots \ {s} : slot'[x] = slot[x]
    BY <2>2, <2>3, <2>4, SlotWritten
  <2>6. TablesInv'
    BY <1>2, <1>4, <2>3, <2>5 DEF TablesInv, PaperOK, SittingIsUngraded, MarkedAsAnswered, Slots
  <2>. QED BY <1>2, <1>4, <2>6, EndKeeps
<1>. QED BY <1>1, <1>3, <1>4 DEF Save

LEMMA CloseKeeps ==
  ASSUME IInv, NEW q \in Requests, Submit(q) \/ Close(q)
  PROVE  IInv'
<1>1. End(q) /\ paperLock = q /\ TablesInv
  BY DEF Submit, Close, IInv, RequestInv
<1>2. CASE HandIn(q)
  BY <1>1, <1>2, HandInKeeps, EndKeeps
<1>3. CASE paper' = [paper EXCEPT !.state = "abandoned", !.submitted = TRUE] /\ UNCHANGED slot
  <2>1. PaperOK(paper)' /\ paper'.submitted
    BY <1>1, <1>3 DEF TablesInv, PaperOK
  <2>2. TablesInv'
    BY <1>1, <1>3, <2>1 DEF TablesInv, SlotsOK, SlotOK, SittingIsUngraded, MarkedAsAnswered
  <2>. QED BY <1>1, <2>2, EndKeeps
<1>. QED BY <1>2, <1>3 DEF Submit, Close

\* Reopened, every question is ungraded: nothing of its mark is claimed.
LEMMA ReopenKeeps ==
  ASSUME IInv, NEW q \in Requests, Reopen(q)
  PROVE  IInv'
<1>1. /\ paperLock = q /\ job[q].op = "reopen" /\ TablesInv /\ JobOK(job[q]) /\ Columns
      /\ paperLock' = None /\ Goto(q, "reissue") /\ UNCHANGED <<slotLock, job>>
  BY DEF Reopen, IInv, RequestInv, Columns
<1>2. PaperOK(paper)' /\ ~paper'.submitted
  BY <1>1 DEF Reopen, TablesInv, PaperOK
<1>3. \A s \in Slots : slot'[s] = [slot[s] EXCEPT !.graded = FALSE] /\ SlotOK(slot[s])
  BY <1>1 DEF Reopen, Ungraded, TablesInv, SlotsOK
<1>4. \A s \in Slots : SlotOK(slot'[s]) /\ slot'[s].graded = FALSE
  BY <1>3 DEF SlotOK
<1>5. SlotsOK(slot)'
  BY <1>4 DEF SlotsOK, Reopen, Ungraded
<1>6. TablesInv'
  BY <1>2, <1>4, <1>5 DEF TablesInv, SittingIsUngraded, MarkedAsAnswered, Slots
<1>7. pc'[q] = "reissue" => RequestInv(q)'
  BY DEF RequestInv
<1>8. "reissue" \in Steps /\ job' = [job EXCEPT ![q] = job[q]]
  BY <1>1 DEF Steps, Columns
<1>9. paperLock \in {None, q} /\ slotLock' \in [Slots -> Requests \cup {None}]
  BY <1>1 DEF Columns
<1>10. \A o \in Requests \ {q}, x \in Slots : slotLock[x] = o => slotLock'[x] = o
  BY <1>1
<1>11. pc'[q] = "reissue" /\ job'[q] = job[q] => RequestInv(q)'
  BY <1>7
<1>. QED BY <1>1, <1>6, <1>8, <1>9, <1>10, <1>11, MoveKeeps

\* Statements that write the token only, or nothing.
LEMMA TokensKeep ==
  ASSUME IInv, NEW q \in Requests, Rotate(q) \/ Load(q) \/ Reissue(q)
  PROVE  IInv'
<1>1. CASE Rotate(q)
  <2>1. /\ paperLock = None /\ Goto(q, "load") /\ UNCHANGED <<locks, job>> /\ Columns
        /\ JobOK(job[q]) /\ TablesInv
    BY <1>1 DEF Rotate, IInv, Columns
  <2>2. TablesInv'
    <3>1. CASE paper' = paper
      BY <1>1, <2>1, <3>1, TablesStand DEF Rotate, rows
    <3>2. CASE paper' = [paper EXCEPT !.token = @ + 1]
      BY <1>1, <2>1, <3>2, TokenKeeps DEF Rotate
    <3>. QED BY <1>1, <3>1, <3>2 DEF Rotate
  <2>3. job' = [job EXCEPT ![q] = job[q]] /\ "load" \in Steps
    BY <2>1 DEF Columns, Steps
  <2>4. pc'[q] = "load" /\ job'[q] = job[q] => RequestInv(q)'
    BY DEF RequestInv
  <2>5. /\ slotLock' \in [Slots -> Requests \cup {None}] /\ paperLock' = paperLock
        /\ \A o \in Requests \ {q}, x \in Slots : slotLock[x] = o => slotLock'[x] = o
    BY <2>1 DEF Columns, locks
  <2>. QED BY <2>1, <2>2, <2>3, <2>4, <2>5, MoveKeeps
<1>2. CASE Load(q)
  BY <1>2, RollBackKeeps DEF Load
<1>3. CASE Reissue(q)
  BY <1>3, TokenKeeps, EndKeeps DEF Reissue, IInv
<1>. QED BY <1>1, <1>2, <1>3

LEMMA LockPaperKeeps ==
  ASSUME IInv, NEW q \in Requests, LockPaper(q)
  PROVE  IInv'
<1>1. CASE RollBack(q)
  BY <1>1, RollBackKeeps
<1>2. CASE Admits(q) /\ paperLock' = q /\ Goto(q, "write") /\ UNCHANGED <<rows, slotLock, job>>
  <2>1. /\ paperLock = None /\ job[q].op \in UnderLock /\ Columns /\ JobOK(job[q]) /\ TablesInv
        /\ RequestInv(q) /\ pc[q] = "lock"
    BY DEF LockPaper, IInv, RequestInv, Columns
  <2>2. TablesInv' /\ paper' = paper
    BY <1>2, <2>1, TablesStand DEF rows
  <2>3. job' = [job EXCEPT ![q] = job[q]] /\ "write" \in Steps
    BY <1>2, <2>1 DEF Columns, Steps
  <2>4. /\ job[q].op \in {"submit", "close"} => Open
        /\ job[q].op = "regrade" => paper.state # "abandoned"
    BY <1>2 DEF Admits
  <2>5. pc'[q] = "write" /\ job'[q] = job[q] => RequestInv(q)'
    BY <1>2, <2>1, <2>2, <2>4 DEF RequestInv, Open
  <2>6. /\ slotLock' \in [Slots -> Requests \cup {None}]
        /\ \A o \in Requests \ {q}, x \in Slots : slotLock[x] = o => slotLock'[x] = o
    BY <1>2, <2>1 DEF Columns
  <2>. QED BY <1>2, <2>1, <2>2, <2>3, <2>5, <2>6, MoveKeeps
<1>. QED BY <1>1, <1>2 DEF LockPaper

\* A teacher's statements before the last.
LEMMA MarkKeeps ==
  ASSUME IInv, NEW q \in Requests, Mark(q)
  PROVE  IInv'
<1>1. /\ Columns /\ JobOK(job[q]) /\ TablesInv /\ RequestInv(q) /\ pc[q] = "mark"
      /\ job[q].op = "grade" /\ Goto(q, "sum") /\ UNCHANGED <<rows, paperLock, job>>
  BY DEF Mark, IInv, RequestInv, Columns
<1>2. PICK s \in Slots : s = job[q].slot
  BY <1>1 DEF JobOK
<1>3. /\ slotLock' \in [Slots -> Requests \cup {None}]
      /\ \A o \in Requests \ {q}, x \in Slots : slotLock[x] = o => slotLock'[x] = o
      /\ Changed(q) => slotLock'[s] = q
  BY <1>1, <1>2, NoneIsNew DEF Mark, Columns
<1>4. TablesInv' /\ paper' = paper /\ paperLock' = paperLock
  BY <1>1, TablesStand DEF rows
<1>5. job' = [job EXCEPT ![q] = job[q]] /\ "sum" \in Steps
  BY <1>1 DEF Columns, Steps
<1>6. pc'[q] = "sum" /\ job'[q] = job[q] => RequestInv(q)'
  BY <1>1, <1>2, <1>3 DEF RequestInv, Changed
<1>. QED BY <1>1, <1>3, <1>4, <1>5, <1>6, MoveKeeps

LEMMA AddUpKeeps ==
  ASSUME IInv, NEW q \in Requests, AddUp(q)
  PROVE  IInv'
<1>1. /\ Columns /\ JobOK(job[q]) /\ TablesInv /\ RequestInv(q) /\ pc[q] = "sum"
      /\ job[q].op = "grade" /\ Goto(q, "total") /\ UNCHANGED <<rows, locks>>
  BY DEF AddUp, IInv, RequestInv, Columns
<1>2. PICK n, b : n = TotalOf(Marked(q)) /\ b = PendingOf(Marked(q))
  OBVIOUS
<1>3. PICK j : j = [job[q] EXCEPT !.total = n, !.pending = b]
  OBVIOUS
<1>4. /\ JobOK(j) /\ j.op = job[q].op /\ j.slot = job[q].slot /\ j.was = job[q].was
      /\ j.mark = job[q].mark /\ j.answer = job[q].answer
  BY <1>1, <1>3 DEF JobOK
<1>5. job' = [job EXCEPT ![q] = j]
  BY <1>1, <1>2, <1>3 DEF AddUp, Columns
<1>6. TablesInv' /\ paper' = paper /\ paperLock' = paperLock
  BY <1>1, TablesStand DEF rows, locks
<1>7. /\ slotLock' \in [Slots -> Requests \cup {None}]
      /\ \A o \in Requests \ {q}, x \in Slots : slotLock[x] = o => slotLock'[x] = o
  BY <1>1 DEF Columns, locks
<1>8. pc'[q] = "total" /\ job'[q] = j => RequestInv(q)'
  BY <1>1, <1>4 DEF RequestInv, Changed, locks
<1>9. "total" \in Steps
  BY DEF Steps
<1>. QED BY <1>1, <1>4, <1>5, <1>6, <1>7, <1>8, <1>9, MoveKeeps

\* What a teacher's transaction leaves of the questions.
LEMMA MarkedOK ==
  ASSUME IInv, NEW q \in Requests, pc[q] = "total", slot' = Marked(q)
  PROVE  /\ SlotsOK(slot)'
         /\ \A s \in Slots :
              \/ slot'[s] = slot[s]
              \/ /\ Changed(q) /\ s = job[q].slot /\ slotLock[s] = q
                 /\ slot'[s].by = "teacher" /\ slot'[s].graded
                 /\ slot'[s].seq = slot[s].seq /\ slot'[s].version = slot[s].version
<1>1. SlotsOK(slot) /\ JobOK(job[q]) /\ job[q].op = "grade"
  BY DEF IInv, TablesInv, Columns, RequestInv
<1>2. CASE ~Changed(q)
  <2>1. slot' = slot
    BY <1>2 DEF Marked
  <2>. QED BY <1>1, <2>1
<1>3. CASE Changed(q)
  <2>1. PICK s \in Slots : s = job[q].slot
    BY <1>1 DEF JobOK
  <2>2. slotLock[s] = q
    BY <1>3, <2>1 DEF IInv, RequestInv
  <2>3. PICK a : a = IF job[q].answer = None THEN slot[s].answer ELSE job[q].answer
    OBVIOUS
  <2>4. PICK r : r = [slot[s] EXCEPT !.mark = job[q].mark, !.graded = TRUE, !.by = "teacher",
                                     !.answer = a]
    OBVIOUS
  <2>5. /\ SlotOK(r) /\ r.by = "teacher" /\ r.graded /\ r.seq = slot[s].seq
        /\ r.version = slot[s].version
    BY <1>1, <2>4 DEF SlotsOK, SlotOK
  <2>6. slot' = [slot EXCEPT ![s] = r]
    BY <1>1, <1>3, <2>1, <2>3, <2>4 DEF Marked, SlotsOK, SlotOK
  <2>7. SlotsOK(slot)' /\ slot'[s] = r /\ \A x \in Slots \ {s} : slot'[x] = slot[x]
    BY <1>1, <2>5, <2>6, SlotWritten
  <2>. QED BY <1>3, <2>1, <2>2, <2>5, <2>7
<1>. QED BY <1>2, <1>3

\* The CHECK lets a mark into a paper that is handed in, and no other.
LEMMA TotalKeeps ==
  ASSUME IInv, NEW q \in Requests, Total(q)
  PROVE  IInv'
<1>1. End(q) /\ paperLock = None /\ pc[q] = "total" /\ TablesInv
  BY DEF Total, IInv
<1>2. CASE UNCHANGED rows
  BY <1>1, <1>2, RollBackKeeps DEF RollBack
<1>3. CASE /\ paper.submitted
           /\ paper' = [paper EXCEPT !.state = StateOf(job[q].pending), !.score = job[q].total]
           /\ slot' = Marked(q)
  <2>1. PaperOK(paper)' /\ paper'.submitted
    BY <1>1, <1>3 DEF TablesInv, PaperOK, StateOf, Finished
  <2>2. SlotsOK(slot)' /\ \A s \in Slots : slot'[s] = slot[s] \/ slot'[s].by = "teacher"
    BY <1>1, <1>3, MarkedOK
  <2>3. TablesInv'
    BY <1>1, <2>1, <2>2, NoneIsNew DEF TablesInv, SittingIsUngraded, MarkedAsAnswered, Slots
  <2>. QED BY <1>1, <2>3, EndKeeps
<1>. QED BY <1>2, <1>3 DEF Total, SubmittedStateConsistent

\* A question that moves to another version is marked again, because a graded
\* one is in a paper that is handed in and, under the lock, not abandoned.
LEMMA RegradeWrites ==
  ASSUME IInv, NEW q \in Requests, Regrade(q), ~UNCHANGED rows
  PROVE  /\ PaperOK(paper)' /\ paper'.submitted = paper.submitted /\ SlotsOK(slot)'
         /\ \A s \in Slots :
              \/ slot'[s] = slot[s]
              \/ /\ slot[s].by = None /\ slot'[s].by = None
                 /\ slot'[s].answer = slot[s].answer /\ slot'[s].seq = slot[s].seq
                 /\ slot'[s].graded = slot[s].graded
                 /\ slot[s].graded => slot'[s].mark = Engine(s, slot'[s].answer, slot'[s].version)
<1>1. /\ TablesInv /\ JobOK(job[q]) /\ job[q].op = "regrade" /\ paperLock = q
      /\ paper.state # "abandoned" /\ PaperOK(paper) /\ SlotsOK(slot)
  BY DEF Regrade, IInv, TablesInv, Columns, RequestInv
<1>2. PICK s \in Slots : s = job[q].slot
  BY <1>1 DEF JobOK
<1>3. PICK v, e : v = job[q].version /\ e = Engine(s, slot[s].answer, v)
  OBVIOUS
<1>4. PICK m : m = IF Again(s) THEN e ELSE slot[s].mark
  OBVIOUS
<1>5. PICK r : r = [slot[s] EXCEPT !.version = v, !.mark = m]
  OBVIOUS
<1>6. SlotOK(slot[s])
  BY <1>1 DEF SlotsOK
<1>7. /\ SlotOK(r) /\ r.version = v /\ r.mark = m /\ r.by = slot[s].by
      /\ r.answer = slot[s].answer /\ r.seq = slot[s].seq /\ r.graded = slot[s].graded
  BY <1>5, <1>6 DEF SlotOK
<1>8. PICK moved : moved = [slot EXCEPT ![s].version = job[q].version,
                              ![s].mark = IF Again(s) THEN Engine(s, slot[s].answer, job[q].version)
                                          ELSE slot[s].mark]
  OBVIOUS
<1>9. moved = [slot EXCEPT ![s] = r]
  BY <1>1, <1>3, <1>4, <1>5, <1>6, <1>8 DEF SlotsOK, SlotOK
<1>10. PICK b \in BOOLEAN : b = PendingOf(moved)
  BY DEF PendingOf
<1>16. PICK n : n = TotalOf(moved)
  OBVIOUS
<1>11. /\ slot[s].by = None /\ slot' = moved
       /\ paper' = IF Again(s) THEN [paper EXCEPT !.state = StateOf(b), !.score = n] ELSE paper
  BY <1>2, <1>8, <1>10, <1>16 DEF Regrade, Moves
<1>12. SlotsOK(slot)' /\ slot'[s] = r /\ \A x \in Slots \ {s} : slot'[x] = slot[x]
  BY <1>1, <1>7, <1>9, <1>11, SlotWritten
<1>13. PaperOK(paper)' /\ paper'.submitted = paper.submitted
  BY <1>1, <1>11 DEF PaperOK, StateOf, Finished, Again
<1>14. slot[s].graded => Again(s)
  BY <1>1 DEF TablesInv, SittingIsUngraded, PaperOK, Again
<1>15. slot[s].graded => slot'[s].mark = Engine(s, slot'[s].answer, slot'[s].version)
  BY <1>3, <1>4, <1>7, <1>12, <1>14
<1>. QED BY <1>7, <1>11, <1>12, <1>13, <1>15

LEMMA RegradeKeeps ==
  ASSUME IInv, NEW q \in Requests, Regrade(q)
  PROVE  IInv'
<1>1. End(q) /\ TablesInv /\ paperLock = q
  BY DEF Regrade, IInv, RequestInv
<1>2. CASE UNCHANGED rows
  BY <1>1, <1>2, RollBackKeeps DEF RollBack
<1>3. CASE ~UNCHANGED rows
  <2>1. /\ PaperOK(paper)' /\ paper'.submitted = paper.submitted /\ SlotsOK(slot)'
        /\ \A s \in Slots :
             \/ slot'[s] = slot[s]
             \/ /\ slot[s].by = None /\ slot'[s].by = None
                /\ slot'[s].graded = slot[s].graded
                /\ slot[s].graded => slot'[s].mark = Engine(s, slot'[s].answer, slot'[s].version)
    BY <1>3, RegradeWrites
  <2>2. TablesInv'
    BY <1>1, <2>1 DEF TablesInv, SittingIsUngraded, MarkedAsAnswered, Slots
  <2>. QED BY <1>1, <2>2, EndKeeps
<1>. QED BY <1>2, <1>3

-----------------------------------------------------------------------------
(***************************************************************************)
(* The theorems.                                                           *)
(***************************************************************************)

LEMMA RunKeeps ==
  ASSUME IInv, NEW q \in Requests, Run(q)
  PROVE  IInv'
BY TokensKeep, LockPaperKeeps, SaveKeeps, CloseKeeps, ReopenKeeps, MarkKeeps, AddUpKeeps,
   TotalKeeps, RegradeKeeps DEF Run

LEMMA StandsStill ==
  ASSUME IInv, UNCHANGED <<paper, slot, paperLock, slotLock, pc, job>>
  PROVE  IInv'
<1>1. TablesInv'
  BY DEF IInv, TablesInv, SittingIsUngraded, MarkedAsAnswered
<1>2. Columns'
  BY DEF IInv, Columns
<1>3. \A q \in Requests : RequestInv(q)'
  BY DEF IInv, RequestInv, Open, Changed
<1>. QED BY <1>1, <1>2, <1>3 DEF IInv

LEMMA NextKeeps == IInv /\ [Next]_vars => IInv'
<1> SUFFICES ASSUME IInv, [Next]_vars PROVE IInv'
  OBVIOUS
<1>1. CASE Expire \/ GrantTime \/ PublishEdit \/ UNCHANGED vars
  BY <1>1, StandsStill DEF Expire, GrantTime, PublishEdit, vars, rows, locks
<1>2. ASSUME NEW q \in Requests, Start(q) PROVE IInv'
  BY <1>2, StartKeeps
<1>3. ASSUME NEW q \in Requests, Run(q) PROVE IInv'
  BY <1>3, RunKeeps
<1>4. ASSUME NEW q \in Requests, Crash(q) \/ Victim(q) PROVE IInv'
  BY <1>4, RollBackKeeps DEF Crash, Victim
<1>. QED BY <1>1, <1>2, <1>3, <1>4 DEF Next

\* The questions are written by six statements and no other.
LEMMA Writers ==
  ASSUME [Next]_vars, ~UNCHANGED slot
  PROVE  \E q \in Requests :
           Save(q) \/ Submit(q) \/ Close(q) \/ Reopen(q) \/ Total(q) \/ Regrade(q)
<1>1. CASE Expire \/ GrantTime \/ PublishEdit \/ UNCHANGED vars
  BY <1>1 DEF Expire, GrantTime, PublishEdit, vars, rows
<1>2. ASSUME NEW q \in Requests, Start(q) PROVE UNCHANGED slot
  BY <1>2 DEF Start, StartResume, StartSubmit, StartSave, StartClose, StartReopen, StartGrade,
              StartRegrade, Begin, rows
<1>3. ASSUME NEW q \in Requests, Rotate(q) \/ Load(q) \/ LockPaper(q) \/ Reissue(q) \/ Mark(q)
                                   \/ AddUp(q) \/ Crash(q) \/ Victim(q)
      PROVE  UNCHANGED slot
  BY <1>3 DEF Rotate, Load, LockPaper, Reissue, Mark, AddUp, Crash, Victim, RollBack, rows
<1>. QED BY <1>1, <1>2, <1>3 DEF Next, Run

\* What each of them does to a question.
LEMMA HandInWrites ==
  ASSUME IInv, NEW q, HandIn(q), NEW s \in Slots
  PROVE  /\ slot'[s].answer = slot[s].answer /\ slot'[s].seq = slot[s].seq
         /\ slot'[s].version = slot[s].version
<1>1. PICK e : e = Engine(s, slot[s].answer, slot[s].version)
  OBVIOUS
<1>2. SlotOK(slot[s]) /\ slot'[s] = [slot[s] EXCEPT !.mark = e, !.graded = TRUE]
  BY <1>1 DEF IInv, TablesInv, SlotsOK, HandIn, EngineMarked
<1>. QED BY <1>2 DEF SlotOK

LEMMA ReopenWrites ==
  ASSUME IInv, NEW q, Reopen(q), NEW s \in Slots
  PROVE  /\ slot'[s].answer = slot[s].answer /\ slot'[s].seq = slot[s].seq
         /\ slot'[s].version = slot[s].version /\ slot'[s].mark = slot[s].mark
<1>1. SlotOK(slot[s]) /\ slot'[s] = [slot[s] EXCEPT !.graded = FALSE]
  BY DEF IInv, TablesInv, SlotsOK, Reopen, Ungraded
<1>. QED BY <1>1 DEF SlotOK

LEMMA SaveWrites ==
  ASSUME IInv, NEW q \in Requests, Save(q), NEW s \in Slots
  PROVE  \/ slot'[s] = slot[s]
         \/ /\ s = job[q].slot /\ Writes(q) /\ job[q].op = "save"
            /\ slot'[s].seq = job[q].seq /\ slot'[s].version = slot[s].version
<1>1. CASE UNCHANGED rows
  BY <1>1 DEF rows
<1>2. CASE /\ Writes(q)
           /\ slot' = [slot EXCEPT ![job[q].slot].answer = job[q].answer,
                                   ![job[q].slot].seq = job[q].seq]
  <2>1. SlotOK(slot[s]) /\ slot = [x \in Slots |-> slot[x]]
    BY DEF IInv, TablesInv, SlotsOK
  <2>2. CASE s = job[q].slot
    <3>1. slot'[s] = [slot[s] EXCEPT !.answer = job[q].answer, !.seq = job[q].seq]
      BY <1>2, <2>1, <2>2
    <3>. QED BY <1>2, <2>1, <2>2, <3>1 DEF SlotOK, Save
  <2>3. CASE s # job[q].slot
    BY <1>2, <2>1, <2>3
  <2>. QED BY <2>2, <2>3
<1>. QED BY <1>1, <1>2 DEF Save

LEMMA TotalWrites ==
  ASSUME IInv, NEW q \in Requests, Total(q), NEW s \in Slots
  PROVE  \/ slot'[s] = slot[s]
         \/ /\ paper.submitted /\ slotLock[s] = q /\ job[q].op = "grade"
            /\ slot'[s].seq = slot[s].seq /\ slot'[s].version = slot[s].version
<1>1. pc[q] = "total" /\ job[q].op = "grade"
  BY DEF Total, IInv, RequestInv
<1>2. CASE UNCHANGED rows
  BY <1>2 DEF rows
<1>3. CASE paper.submitted /\ slot' = Marked(q)
  BY <1>1, <1>3, MarkedOK
<1>. QED BY <1>2, <1>3 DEF Total, SubmittedStateConsistent

\* The inductive invariant: who writes holds the paper as it was admitted, who
\* has marked a question holds it, and the marks are those of the answers.
THEOREM PaperProtects == Spec => []IInv
BY InitEstablishes, NextKeeps, PTL DEF Spec

\* A paper that is not handed in has no graded question, whatever reopens,
\* marks and sweeps went before: the next save of its student is taken.
THEOREM SittingStaysOpen == Spec => []SittingIsUngraded
<1>1. IInv => SittingIsUngraded
  BY DEF IInv, TablesInv
<1>. QED BY <1>1, PaperProtects, PTL

\* The engine's mark is the mark of the answer and the version that stand in
\* the paper: saveAnswers never changes a graded answer, and regradePaper marks
\* every graded one that it moves.
THEOREM MarksAreOfAnswers == Spec => []MarkedAsAnswered
<1>1. IInv => MarkedAsAnswered
  BY DEF IInv, TablesInv
<1>. QED BY <1>1, PaperProtects, PTL

\* Until a paper is handed in its answers change only by a save with the token
\* in force and a newer number; afterwards only by a teacher who holds the
\* question.
THEOREM NoStaleTabWrites == Spec => OnlyTheLiveTabWrites
<1>1. ASSUME IInv, [Next]_vars, NEW s \in Slots,
             slot'[s].answer # slot[s].answer \/ slot'[s].seq # slot[s].seq
      PROVE  \E q \in Requests :
               IF paper.submitted
               THEN /\ slotLock[s] = q /\ job[q].op = "grade"
                    /\ slot'[s].seq = slot[s].seq
               ELSE /\ job[q].op = "save" /\ job[q].token = paper.token
                    /\ job[q].seq = slot'[s].seq /\ slot'[s].seq > slot[s].seq
  <2>1. PICK q \in Requests :
          Save(q) \/ Submit(q) \/ Close(q) \/ Reopen(q) \/ Total(q) \/ Regrade(q)
    BY <1>1, Writers
  <2>2. CASE Save(q)
    BY <1>1, <2>2, SaveWrites DEF Writes
  <2>3. CASE Submit(q) \/ Close(q)
    BY <1>1, <2>3, HandInWrites DEF Submit, Close
  <2>4. CASE Reopen(q)
    BY <1>1, <2>4, ReopenWrites
  <2>5. CASE Total(q)
    BY <1>1, <2>5, TotalWrites
  <2>6. CASE Regrade(q)
    BY <1>1, <2>6, RegradeWrites DEF rows
  <2>. QED BY <2>1, <2>2, <2>3, <2>4, <2>5, <2>6
<1>2. IInv /\ [Next]_vars =>
        [\A s \in Slots :
           slot'[s].answer # slot[s].answer \/ slot'[s].seq # slot[s].seq =>
             \E q \in Requests :
               IF paper.submitted
               THEN /\ slotLock[s] = q /\ job[q].op = "grade"
                    /\ slot'[s].seq = slot[s].seq
               ELSE /\ job[q].op = "save" /\ job[q].token = paper.token
                    /\ job[q].seq = slot'[s].seq /\ slot'[s].seq > slot[s].seq]_vars
  BY <1>1
<1>. QED BY <1>2, PaperProtects, PTL DEF Spec, OnlyTheLiveTabWrites

\* A regrade leaves a question with a teacher's mark where it is, and in a
\* paper that is handed in only another mark of a teacher replaces it.
THEOREM TeachersDecide == Spec => TeacherOutranks
<1>1. ASSUME IInv, [Next]_vars, NEW s \in Slots, slot[s].by = "teacher"
      PROVE  /\ slot'[s].version = slot[s].version
             /\ paper.submitted /\ slot'[s].mark # slot[s].mark =>
                  \E q \in Requests : job[q].op = "grade" /\ slotLock[s] = q
  <2>1. CASE UNCHANGED slot
    BY <2>1
  <2>2. ASSUME NEW q \in Requests, Save(q)
        PROVE  slot'[s].version = slot[s].version /\ (paper.submitted => slot'[s] = slot[s])
    BY <1>1, <2>2, SaveWrites DEF Writes
  <2>3. ASSUME NEW q \in Requests, Submit(q) \/ Close(q)
        PROVE  slot'[s].version = slot[s].version /\ ~paper.submitted
    <3>1. ~paper.submitted
      BY <1>1, <2>3 DEF Submit, Close, IInv, RequestInv, Open
    <3>2. CASE HandIn(q)
      BY <1>1, <3>1, <3>2, HandInWrites
    <3>3. CASE UNCHANGED slot
      BY <3>1, <3>3
    <3>. QED BY <2>3, <3>2, <3>3 DEF Submit, Close
  <2>4. ASSUME NEW q \in Requests, Reopen(q)
        PROVE  slot'[s].version = slot[s].version /\ slot'[s].mark = slot[s].mark
    BY <1>1, <2>4, ReopenWrites
  <2>5. ASSUME NEW q \in Requests, Total(q)
        PROVE  \/ slot'[s] = slot[s]
               \/ slot'[s].version = slot[s].version /\ job[q].op = "grade" /\ slotLock[s] = q
    BY <1>1, <2>5, TotalWrites
  <2>6. ASSUME NEW q \in Requests, Regrade(q) PROVE slot'[s] = slot[s]
    BY <1>1, <2>6, RegradeWrites, NoneIsNew DEF rows
  <2>. QED BY <1>1, <2>1, <2>2, <2>3, <2>4, <2>5, <2>6, Writers
<1>2. IInv /\ [Next]_vars =>
        [\A s \in Slots :
           slot[s].by = "teacher" =>
             /\ slot'[s].version = slot[s].version
             /\ paper.submitted /\ slot'[s].mark # slot[s].mark =>
                  \E q \in Requests : job[q].op = "grade" /\ slotLock[s] = q]_vars
  BY <1>1
<1>. QED BY <1>2, PaperProtects, PTL DEF Spec, TeacherOutranks

-----------------------------------------------------------------------------
(* Sums.  The sum of a finite set is a fold that takes its elements in an  *)
(* order of its own; what is shown is that the order does not matter.      *)

\* g holds the sum of c over every subset of S, as the fold makes it.
Sums(g, c, S) ==
  g = [x \in SUBSET S |-> IF x = {} THEN 0
                          ELSE c[CHOOSE y \in x : TRUE] + g[x \ {CHOOSE y \in x : TRUE}]]

\* Of some sets of elements of a finite set, one contains no other.
LEMMA LeastSubset ==
  ASSUME NEW S, IsFiniteSet(S), NEW T \in SUBSET SUBSET S, T # {}
  PROVE  \E x \in T : \A y \in T : y \subseteq x => y = x
<1>1. T \subseteq FiniteSubsetsOf(S)
  BY FS_Subset DEF FiniteSubsetsOf
<1>2. PICK x \in T : \A y \in T : ~(<<y, x>> \in StrictSubsetOrdering(S))
  BY <1>1, FS_StrictSubsetOrderingWellFounded, WFMin
<1>3. \A y \in T : y \subseteq x => y = x
  BY <1>2 DEF StrictSubsetOrdering
<1>. QED BY <1>3

LEMMA SumsStep ==
  ASSUME NEW S, NEW c, NEW g, Sums(g, c, S), NEW x \in SUBSET S
  PROVE  /\ x = {} => g[x] = 0
         /\ x # {} => \E y \in x : y = (CHOOSE z \in x : TRUE) /\ g[x] = c[y] + g[x \ {y}]
<1>1. x # {} => (CHOOSE z \in x : TRUE) \in x
  OBVIOUS
<1>2. g[x] = IF x = {} THEN 0 ELSE c[CHOOSE y \in x : TRUE] + g[x \ {CHOOSE y \in x : TRUE}]
  BY DEF Sums
<1>. QED BY <1>1, <1>2

\* Sums of the same numbers are the same.
Alike(c, d, S) == \A y \in S : c[y] = d[y]

LEMMA SumsAgree ==
  ASSUME NEW S, IsFiniteSet(S), NEW T, S \subseteq T, NEW c, NEW d, Alike(c, d, S),
         NEW g, NEW h, Sums(g, c, S), Sums(h, d, T)
  PROVE  \A x \in SUBSET S : g[x] = h[x]
<1> DEFINE Bad == {x \in SUBSET S : g[x] # h[x]}
<1>1. SUFFICES ASSUME Bad # {} PROVE FALSE
  OBVIOUS
<1>2. PICK x \in Bad : \A y \in Bad : y \subseteq x => y = x
  <2>1. Bad \in SUBSET SUBSET S
    OBVIOUS
  <2> HIDE DEF Bad
  <2>. QED BY <1>1, <2>1, LeastSubset
<1>3. x \in SUBSET S /\ x \in SUBSET T /\ g[x] # h[x]
  OBVIOUS
<1>4. x # {}
  BY <1>3, SumsStep
<1>5. PICK y \in x : y = (CHOOSE z \in x : TRUE) /\ g[x] = c[y] + g[x \ {y}]
  BY <1>3, <1>4, SumsStep
<1>6. h[x] = d[y] + h[x \ {y}]
  <2>1. h[x] = IF x = {} THEN 0
               ELSE d[CHOOSE z \in x : TRUE] + h[x \ {CHOOSE z \in x : TRUE}]
    BY <1>3 DEF Sums
  <2>. QED BY <1>4, <1>5, <2>1
<1>7. x \ {y} \in SUBSET S /\ x \ {y} \notin Bad
  BY <1>2, <1>3, <1>5
<1>8. g[x \ {y}] = h[x \ {y}]
  BY <1>7
<1>9. c[y] = d[y]
  BY <1>3, <1>5 DEF Alike
<1> HIDE DEF Bad
<1>. QED BY <1>3, <1>5, <1>6, <1>8, <1>9

LEMMA SumsAreIntegers ==
  ASSUME NEW S, IsFiniteSet(S), NEW c, \A y \in S : c[y] \in Int, NEW g, Sums(g, c, S)
  PROVE  \A x \in SUBSET S : g[x] \in Int
<1> DEFINE Bad == {x \in SUBSET S : g[x] \notin Int}
<1>1. SUFFICES ASSUME Bad # {} PROVE FALSE
  OBVIOUS
<1>2. PICK x \in Bad : \A y \in Bad : y \subseteq x => y = x
  <2>1. Bad \in SUBSET SUBSET S
    OBVIOUS
  <2> HIDE DEF Bad
  <2>. QED BY <1>1, <2>1, LeastSubset
<1>3. x \in SUBSET S /\ x # {}
  BY SumsStep
<1>4. PICK y \in x : g[x] = c[y] + g[x \ {y}]
  BY <1>3, SumsStep
<1>5. x \ {y} \in SUBSET S /\ x \ {y} \notin Bad
  BY <1>2, <1>3, <1>4
<1>6. g[x \ {y}] \in Int /\ c[y] \in Int
  BY <1>3, <1>5
<1>. QED BY <1>4, <1>6

\* There are sums: the one of a set is made of those of its subsets.
LEMMA SumsExist ==
  ASSUME NEW S, IsFiniteSet(S), NEW c PROVE \E g : Sums(g, c, S)
<1> DEFINE Bad == {x \in SUBSET S : ~\E g : Sums(g, c, x)}
<1>1. SUFFICES ASSUME Bad # {} PROVE FALSE
  BY Zenon
<1>2. PICK x \in Bad : \A y \in Bad : y \subseteq x => y = x
  <2>1. Bad \in SUBSET SUBSET S
    OBVIOUS
  <2> HIDE DEF Bad
  <2>. QED BY <1>1, <2>1, LeastSubset
<1> DEFINE F(z) == CHOOSE g : Sums(g, c, z)
           Pick(z) == CHOOSE y \in z : TRUE
           G == [z \in SUBSET x |->
                   IF z = {} THEN 0 ELSE c[Pick(z)] + F(z \ {Pick(z)})[z \ {Pick(z)}]]
<1>3. x \in SUBSET S /\ ~\E g : Sums(g, c, x)
  OBVIOUS
<1>4. \A z : z \subseteq x /\ z # x => Sums(F(z), c, z)
  <2> SUFFICES ASSUME NEW z, z \subseteq x, z # x PROVE Sums(F(z), c, z)
    OBVIOUS
  <2>1. z \in SUBSET S /\ z \notin Bad
    BY <1>2, <1>3
  <2>2. \E g : Sums(g, c, z)
    BY <2>1
  <2>. QED BY <2>2, Zenon
<1> HIDE DEF Bad, F, Pick
<1>5. ASSUME NEW z \in SUBSET x, z # x PROVE G[z] = F(z)[z]
  <2>1. Sums(F(z), c, z) /\ IsFiniteSet(z)
    BY <1>3, <1>4, <1>5, FS_Subset
  <2>2. CASE z = {}
    <3>1. F(z)[z] = 0 
      BY <2>1, <2>2, SumsStep
    <3>. QED BY <2>2, <3>1
  <2>3. CASE z # {}
    <3>1. Pick(z) \in z
      BY <2>3 DEF Pick
    <3>2. F(z)[z] = c[Pick(z)] + F(z)[z \ {Pick(z)}]
      <4>1. z \in SUBSET z
        OBVIOUS
      <4>2. F(z)[z] = IF z = {} THEN 0
                      ELSE c[CHOOSE y \in z : TRUE] + F(z)[z \ {CHOOSE y \in z : TRUE}]
        BY <2>1, <4>1 DEF Sums
      <4>. QED BY <2>3, <4>2 DEF Pick
    <3> DEFINE w == z \ {Pick(z)}
    <3>3. w \subseteq x /\ w # x /\ w \subseteq z /\ w \in SUBSET w
      BY <3>1
    <3>4. Sums(F(w), c, w) /\ IsFiniteSet(w)
      BY <1>3, <1>4, <3>3, FS_Subset
    <3> HIDE DEF w
    <3>5. F(w)[w] = F(z)[w]
      <4>1. Alike(c, c, w)
        BY DEF Alike
      <4>. QED BY <2>1, <3>3, <3>4, <4>1, SumsAgree
    <3>. QED BY <2>3, <3>2, <3>5 DEF w
  <2>. QED BY <2>2, <2>3
<1>6. ASSUME NEW z \in SUBSET x, z # {}
      PROVE  Pick(z) \in z /\ G[z \ {Pick(z)}] = F(z \ {Pick(z)})[z \ {Pick(z)}]
  <2>1. Pick(z) \in z
    BY <1>6 DEF Pick
  <2>2. z \ {Pick(z)} \in SUBSET x /\ z \ {Pick(z)} # x
    BY <2>1
  <2> HIDE DEF G
  <2>. QED BY <1>5, <2>1, <2>2
<1>7. G = [z \in SUBSET x |-> IF z = {} THEN 0 ELSE c[Pick(z)] + G[z \ {Pick(z)}]]
  BY <1>6
<1>8. Sums(G, c, x)
  <2> HIDE DEF G
  <2>. QED BY <1>7 DEF Sums, Pick
<1>. QED BY <1>3, <1>8

\* Of finitely many questions one has the greatest number.
LEMMA GreatestExists ==
  ASSUME NEW S, IsFiniteSet(S), S # {}, NEW f, \A s \in S : f[s] \in Int
  PROVE  \E s \in S : \A t \in S : f[s] >= f[t]
<1> DEFINE Above(x) == {y \in S : f[y] > f[x]}
           T == {Above(x) : x \in S}
<1>1. T \in SUBSET SUBSET S /\ T # {}
  OBVIOUS
<1>2. PICK t \in T : \A u \in T : u \subseteq t => u = t
  <2> HIDE DEF T
  <2>. QED BY <1>1, LeastSubset
<1>3. PICK x \in S : t = Above(x)
  BY <1>2
<1>4. ASSUME NEW y \in S, f[y] > f[x] PROVE FALSE
  <2>1. Above(y) \in T /\ Above(y) \subseteq Above(x)
    BY <1>4
  <2>2. Above(y) = Above(x)
    BY <1>2, <1>3, <2>1
  <2>3. y \in Above(x) /\ y \notin Above(y)
    BY <1>4
  <2>. QED BY <2>2, <2>3
<1>. QED BY <1>4

LEMMA SumIsASum ==
  ASSUME NEW f
  PROVE  \E g : /\ Sums(g, [s \in Slots |-> IF f[s].mark = None THEN 0 ELSE f[s].mark], Slots)
                /\ SumOf(f) = g[Slots]
<1> DEFINE c == [s \in Slots |-> IF f[s].mark = None THEN 0 ELSE f[s].mark]
           G(h) == [x \in SUBSET Slots |->
                      IF x = {} THEN 0
                      ELSE (IF f[CHOOSE y \in x : TRUE].mark = None THEN 0
                            ELSE f[CHOOSE y \in x : TRUE].mark) + h[x \ {CHOOSE y \in x : TRUE}]]
           h0 == CHOOSE h : h = G(h)
<1>1. SumOf(f) = h0[Slots]
  BY Zenon DEF SumOf, MapThenSumSet, MapThenFoldSet
<1>2. \A h : h = G(h) <=> Sums(h, c, Slots)
  <2> SUFFICES ASSUME NEW h PROVE h = G(h) <=> Sums(h, c, Slots)
    OBVIOUS
  <2> DEFINE H == [x \in SUBSET Slots |-> IF x = {} THEN 0
                    ELSE c[CHOOSE y \in x : TRUE] + h[x \ {CHOOSE y \in x : TRUE}]]
  <2>1. ASSUME NEW x \in SUBSET Slots, x # {}
        PROVE  c[CHOOSE y \in x : TRUE] = (IF f[CHOOSE y \in x : TRUE].mark = None THEN 0
                                          ELSE f[CHOOSE y \in x : TRUE].mark)
    <3>1. (CHOOSE y \in x : TRUE) \in Slots
      BY <2>1
    <3>. QED BY <3>1
  <2> HIDE DEF c
  <2>2. G(h) = H
    BY <2>1
  <2>3. Sums(h, c, Slots) <=> h = H
    BY Zenon DEF Sums
  <2> HIDE DEF G, H
  <2>. QED BY <2>2, <2>3
<1> HIDE DEF G, c
<1>3. \E h : h = G(h)
  <2>1. PICK h : Sums(h, c, Slots)
    BY SlotsAreSome, SumsExist
  <2>. QED BY <1>2, <2>1
<1>4. h0 = G(h0)
  BY <1>3
<1>. QED BY <1>1, <1>2, <1>4 DEF c

\* A total is floored at zero.
LEMMA TotalIsNatural ==
  ASSUME NEW f, \A s \in Slots : f[s].mark \in Marks
  PROVE  TotalOf(f) \in Nat
<1> DEFINE c == [s \in Slots |-> IF f[s].mark = None THEN 0 ELSE f[s].mark]
<1>1. PICK g : Sums(g, c, Slots) /\ SumOf(f) = g[Slots]
  BY SumIsASum
<1>2. \A s \in Slots : c[s] \in Int
  BY DEF Marks
<1> HIDE DEF c
<1>3. SumOf(f) \in Int
  BY <1>1, <1>2, SlotsAreSome, SumsAreIntegers
<1>4. \E x \in {0, SumOf(f)} : \A y \in {0, SumOf(f)} : x >= y
  BY <1>3
<1>5. TotalOf(f) \in {0, SumOf(f)} /\ TotalOf(f) >= 0
  BY <1>4 DEF TotalOf, Max
<1>. QED BY <1>3, <1>5

LEMMA NumbersGrow ==
  ASSUME slot \in [Slots -> Slot]
  PROVE  Max({slot[s].seq : s \in Slots}) + 1 \in Nat
<1> DEFINE f == [s \in Slots |-> slot[s].seq]
           N == {slot[s].seq : s \in Slots}
<1>1. \A s \in Slots : f[s] \in Int /\ slot[s].seq \in Nat
  BY DEF Slot
<1> HIDE DEF f
<1>2. PICK s \in Slots : \A t \in Slots : f[s] >= f[t]
  BY <1>1, SlotsAreSome, GreatestExists
<1>3. \E x \in N : \A y \in N : x >= y
  BY <1>2 DEF f
<1>4. Max(N) \in N
  BY <1>3 DEF Max
<1>. QED BY <1>1, <1>4

-----------------------------------------------------------------------------
(* Types. *)

LEMMA EngineMarks == ASSUME NEW s \in Slots, NEW a, NEW v PROVE Engine(s, a, v) \in Marks
BY DEF Engine, Marks, Slots

RowTypes == paper \in Paper /\ slot \in [Slots -> Slot] /\ late \in BOOLEAN
ControlTypes ==
  /\ paperLock \in Requests \cup {None} /\ slotLock \in [Slots -> Requests \cup {None}]
  /\ pc \in [Requests -> Steps \cup {"idle"}] /\ job \in [Requests -> Job]
  /\ \A q \in Requests : job[q].op = "regrade" => job[q].version \in 1 .. MaxVersion
OtherTypes ==
  published \in 1 .. MaxVersion /\ tabs \in [Tabs -> Tab] /\ presses \in 0 .. MaxPresses
Typed == RowTypes /\ ControlTypes /\ OtherTypes

LEMMA NoJobTyped == NoJob \in Job
<1>1. None \in Marks /\ 0 \in 0 .. MaxVersion /\ FALSE \in BOOLEAN
  BY BoundsType DEF Marks
<1>. QED BY <1>1 DEF NoJob, Job

LEMMA InitTyped == Init => Typed
<1> SUFFICES ASSUME Init PROVE Typed
  OBVIOUS
<1>1. RowTypes
  <2>1. paper \in Paper /\ late \in BOOLEAN
    BY DEF Init, Paper
  <2>2. None \in Marks /\ 1 \in 1 .. MaxVersion
    BY BoundsType DEF Marks
  <2>3. slot \in [Slots -> Slot]
    BY <2>2 DEF Init, Slot
  <2>. QED BY <2>1, <2>3 DEF RowTypes
<1>2. ControlTypes
  BY NoJobTyped DEF Init, ControlTypes, NoJob
<1>3. OtherTypes
  BY BoundsType DEF Init, OtherTypes, Tab
<1>. QED BY <1>1, <1>2, <1>3 DEF Typed

LEMMA EndTyped == ASSUME Typed, NEW q \in Requests, End(q) PROVE ControlTypes'
<1>1. paperLock' \in Requests \cup {None} /\ slotLock' \in [Slots -> Requests \cup {None}]
  BY DEF End, Typed, ControlTypes
<1>2. pc' \in [Requests -> Steps \cup {"idle"}] /\ job' \in [Requests -> Job]
  BY NoJobTyped DEF End, Typed, ControlTypes
<1>3. \A p \in Requests : job'[p].op = "regrade" => job'[p].version \in 1 .. MaxVersion
  BY DEF End, Typed, ControlTypes, NoJob
<1>. QED BY <1>1, <1>2, <1>3 DEF ControlTypes

LEMMA StartTyped == ASSUME Typed, NEW q \in Requests, Start(q) PROVE Typed'
<1>1. ASSUME NEW j \in Job, NEW s \in Steps, Begin(q, j, s),
             j.op = "regrade" => j.version \in 1 .. MaxVersion
      PROVE  RowTypes' /\ ControlTypes' /\ published' = published
  BY <1>1 DEF Begin, Typed, RowTypes, ControlTypes, rows, locks
<1>2. ASSUME Press PROVE presses' \in 0 .. MaxPresses
  BY <1>2, BoundsType DEF Press, Typed, OtherTypes
<1>3. /\ \A s \in Slots : slot[s] \in Slot
      /\ \A t \in Tabs : tabs[t] \in Tab
      /\ published \in 1 .. MaxVersion /\ published \in 0 .. MaxVersion /\ tabs \in [Tabs -> Tab]
      /\ presses \in 0 .. MaxPresses
  BY BoundsType DEF Typed, RowTypes, OtherTypes
<1>4. {"rotate", "lock", "mark"} \subseteq Steps
  BY DEF Steps
<1>5. ASSUME NEW t \in Tabs, StartResume(q, t) PROVE Typed'
  <2> DEFINE j == [NoJob EXCEPT !.op = "resume", !.tab = t]
  <2>1. j \in Job /\ j.op # "regrade"
    BY NoJobTyped DEF NoJob, Job, Ops
  <2>. QED BY <1>1, <1>2, <1>3, <1>4, <1>5, <2>1 DEF StartResume, Typed, OtherTypes
<1>6. ASSUME NEW t \in Tabs, StartSubmit(q, t) PROVE Typed'
  <2> DEFINE j == [NoJob EXCEPT !.op = "submit", !.tab = t, !.token = tabs[t].token]
  <2>1. j \in Job /\ j.op # "regrade"
    BY <1>3, NoJobTyped DEF NoJob, Job, Ops, Tab
  <2>. QED BY <1>1, <1>3, <1>4, <1>6, <2>1 DEF StartSubmit, Typed, OtherTypes
<1>7. ASSUME NEW t \in Tabs, NEW s \in Choice, NEW a \in Answers, StartSave(q, t, s, a) PROVE Typed'
  <2> DEFINE j == [NoJob EXCEPT !.op = "save", !.tab = t, !.token = tabs[t].token,
                            !.seq = tabs[t].seq, !.slot = s, !.answer = a]
  <2>1. j \in Job /\ j.op # "regrade"
    BY <1>3, NoJobTyped DEF NoJob, Job, Ops, Tab, Slots
  <2>2. tabs' \in [Tabs -> Tab]
    BY <1>3, <1>7 DEF StartSave, Tab
  <2>. QED BY <1>1, <1>3, <1>4, <1>7, <2>1, <2>2 DEF StartSave, Typed, OtherTypes
<1>8. ASSUME StartClose(q) \/ StartReopen(q) PROVE Typed'
  <2> DEFINE j(op) == [NoJob EXCEPT !.op = op]
  <2>1. \A op \in {"close", "reopen"} : j(op) \in Job /\ j(op).op # "regrade"
    BY NoJobTyped DEF NoJob, Job, Ops
  <2>. QED BY <1>1, <1>2, <1>3, <1>4, <1>8, <2>1 DEF StartClose, StartReopen, Typed, OtherTypes
<1>9. ASSUME NEW s \in Slots, NEW m \in {0, 1}, NEW a \in Answers \cup {None}, StartGrade(q, s, m, a)
      PROVE  Typed'
  <2> DEFINE j == [NoJob EXCEPT !.op = "grade", !.slot = s, !.mark = m, !.answer = a,
                            !.was = slot[s].mark]
  <2>1. j \in Job /\ j.op # "regrade"
    BY <1>3, NoJobTyped DEF NoJob, Job, Ops, Slot, Marks
  <2>. QED BY <1>1, <1>2, <1>3, <1>4, <1>9, <2>1 DEF StartGrade, Typed, OtherTypes
<1>10. ASSUME NEW s \in Choice, StartRegrade(q, s) PROVE Typed'
  <2> DEFINE j == [NoJob EXCEPT !.op = "regrade", !.slot = s, !.version = published]
  <2>1. j \in Job /\ j.version = published
    BY <1>3, NoJobTyped DEF NoJob, Job, Ops, Slots
  <2>. QED BY <1>1, <1>2, <1>3, <1>4, <1>10, <2>1 DEF StartRegrade, Typed, OtherTypes
<1>11. Choice \subseteq Slots
  BY DEF Slots
<1>. QED BY <1>5, <1>6, <1>7, <1>8, <1>9, <1>10, <1>11 DEF Start

LEMMA HandInTyped ==
  ASSUME Typed, NEW q \in Requests, HandIn(q)
  PROVE  paper' \in Paper /\ slot' \in [Slots -> Slot]
<1>1. \A s \in Slots : slot[s] \in Slot /\ EngineMarked[s] \in Slot
  BY EngineMarks DEF Typed, RowTypes, EngineMarked, Slot
<1>2. EngineMarked \in [Slots -> Slot]
  BY <1>1 DEF EngineMarked
<1>3. TotalOf(EngineMarked) \in Nat
  BY <1>1, TotalIsNatural DEF Slot
<1>4. StateOf(PendingOf(EngineMarked)) \in Finished
  BY DEF StateOf, Finished
<1>. QED BY <1>2, <1>3, <1>4 DEF HandIn, Typed, RowTypes, Paper

LEMMA MarkedTyped ==
  ASSUME Typed, NEW q \in Requests, job[q].op = "grade"
  PROVE  Marked(q) \in [Slots -> Slot]
<1>1. job[q] \in Job /\ slot \in [Slots -> Slot]
  BY DEF Typed, RowTypes, ControlTypes
<1> DEFINE s == job[q].slot
           r == [slot[s] EXCEPT !.mark = job[q].mark, !.graded = TRUE, !.by = "teacher",
                                !.answer = IF job[q].answer = None THEN @ ELSE job[q].answer]
<1>2. /\ Marked(q) = slot \/ Marked(q) = [slot EXCEPT ![s] = r]
  BY <1>1 DEF Marked
<1>3. s \in Slots => r \in Slot
  <2> SUFFICES ASSUME s \in Slots PROVE r \in Slot
    OBVIOUS
  <2>1. slot[s] \in Slot /\ job[q].mark \in Marks /\ job[q].answer \in Answers \cup {None}
    BY <1>1 DEF Job
  <2>2. (IF job[q].answer = None THEN slot[s].answer ELSE job[q].answer) \in Answers \cup {None}
    BY <2>1 DEF Slot
  <2> HIDE DEF s
  <2>. QED BY <2>1, <2>2 DEF Slot
<1> HIDE DEF r
<1>. QED BY <1>1, <1>2, <1>3

LEMMA RegradeTyped ==
  ASSUME Typed, NEW q \in Requests, Regrade(q)
  PROVE  RowTypes'
<1> DEFINE s == job[q].slot
           mark == IF Again(s) THEN Engine(s, slot[s].answer, job[q].version) ELSE slot[s].mark
           moved == [slot EXCEPT ![s].version = job[q].version, ![s].mark = mark]
<1>1. /\ job[q] \in Job /\ job[q].version \in 1 .. MaxVersion
      /\ slot \in [Slots -> Slot] /\ paper \in Paper
  BY DEF Typed, RowTypes, ControlTypes, Regrade
<1>2. moved \in [Slots -> Slot]
  <2>1. s \in Slots => mark \in Marks
    BY <1>1, EngineMarks DEF Slot
  <2> HIDE DEF mark
  <2>. QED BY <1>1, <2>1 DEF Slot
<1>3. TotalOf(moved) \in Nat
  <2> HIDE DEF moved
  <2>. QED BY <1>2, TotalIsNatural DEF Slot
<1>4. StateOf(PendingOf(moved)) \in Finished
  BY DEF StateOf, Finished
<1>5. \/ UNCHANGED rows
      \/ /\ slot' = moved /\ UNCHANGED late
         /\ paper' = IF Again(s) THEN [paper EXCEPT !.state = StateOf(PendingOf(moved)),
                                                   !.score = TotalOf(moved)] ELSE paper
  BY DEF Regrade
<1> HIDE DEF moved
<1>. QED BY <1>1, <1>2, <1>3, <1>4, <1>5 DEF Typed, RowTypes, rows, Paper

LEMMA RunTyped == ASSUME IInv, Typed, NEW q \in Requests, Run(q) PROVE Typed'
<1>1. published' = published /\ presses' = presses
  BY DEF Run
<1>2. /\ job[q] \in Job /\ job \in [Requests -> Job]
      /\ slot \in [Slots -> Slot] /\ paper \in Paper /\ late \in BOOLEAN
  BY DEF Typed, RowTypes, ControlTypes
<1>3. ASSUME RowTypes', ControlTypes', UNCHANGED tabs PROVE Typed'
  BY <1>1, <1>3 DEF Typed, OtherTypes
<1>4. ASSUME NEW s \in Steps, Goto(q, s), UNCHANGED <<locks, job>> PROVE ControlTypes'
  BY <1>4 DEF Goto, locks, Typed, ControlTypes
<1>5. ASSUME UNCHANGED rows PROVE RowTypes'
  BY <1>5 DEF rows, Typed, RowTypes
<1>6. {"load", "write", "reissue", "sum", "total"} \subseteq Steps
  BY DEF Steps
<1>7. CASE Rotate(q)
  <2>1. RowTypes'
    BY <1>2, <1>7 DEF Rotate, RowTypes, Paper
  <2>. QED BY <1>3, <1>4, <1>6, <1>7, <2>1 DEF Rotate
<1>8. CASE Load(q)
  <2>1. tabs' \in [Tabs -> Tab]
    BY <1>2, <1>8, NumbersGrow DEF Load, Typed, OtherTypes, Tab, Paper
  <2>. QED BY <1>1, <1>5, <1>8, <2>1, EndTyped DEF Load, RollBack, Typed, OtherTypes
<1>9. CASE LockPaper(q)
  <2>1. CASE RollBack(q)
    BY <1>3, <1>5, <1>9, <2>1, EndTyped DEF RollBack, LockPaper
  <2>2. CASE paperLock' = q /\ Goto(q, "write") /\ UNCHANGED <<rows, slotLock, job>>
    <3>1. ControlTypes'
      BY <1>6, <2>2 DEF Goto, Typed, ControlTypes
    <3>. QED BY <1>3, <1>5, <1>9, <2>2, <3>1 DEF LockPaper
  <2>. QED BY <1>9, <2>1, <2>2 DEF LockPaper
<1>10. CASE Save(q)
  <2>1. slot' \in [Slots -> Slot] /\ paper' = paper /\ late' = late
    BY <1>2, <1>10 DEF Save, rows, Slot, Job
  <2>. QED BY <1>2, <1>3, <1>10, <2>1, EndTyped DEF Save, RowTypes
<1>11. CASE Submit(q)
  BY <1>2, <1>3, <1>11, EndTyped, HandInTyped DEF Submit, RowTypes
<1>12. CASE Close(q)
  <2>1. paper' \in Paper /\ slot' \in [Slots -> Slot]
    BY <1>2, <1>12, HandInTyped DEF Close, Paper
  <2>. QED BY <1>2, <1>3, <1>12, <2>1, EndTyped DEF Close, RowTypes
<1>13. CASE Reopen(q)
  <2>1. slot' \in [Slots -> Slot]
    BY <1>2, <1>13 DEF Reopen, Ungraded, Slot
  <2>2. RowTypes'
    BY <1>2, <1>13, <2>1 DEF Reopen, RowTypes, Paper
  <2>3. ControlTypes'
    BY <1>6, <1>13 DEF Reopen, Goto, Typed, ControlTypes
  <2>. QED BY <1>3, <1>13, <2>2, <2>3 DEF Reopen
<1>14. CASE Reissue(q)
  <2>1. RowTypes'
    BY <1>2, <1>14 DEF Reissue, RowTypes, Paper
  <2>. QED BY <1>3, <1>14, <2>1, EndTyped DEF Reissue
<1>15. CASE Mark(q)
  <2>1. slotLock' \in [Slots -> Requests \cup {None}]
    BY <1>15 DEF Mark, Typed, ControlTypes
  <2>2. ControlTypes'
    BY <1>6, <1>15, <2>1 DEF Mark, Goto, Typed, ControlTypes
  <2>. QED BY <1>3, <1>5, <1>15, <2>2 DEF Mark
<1>16. CASE AddUp(q)
  <2>1. job[q].op = "grade"
    BY <1>16 DEF AddUp, IInv, RequestInv
  <2>2. TotalOf(Marked(q)) \in Nat /\ PendingOf(Marked(q)) \in BOOLEAN
    BY <2>1, MarkedTyped, TotalIsNatural DEF Slot, PendingOf
  <2>3. /\ job' \in [Requests -> Job]
        /\ \A p \in Requests : job'[p].op = job[p].op /\ job'[p].version = job[p].version
    BY <1>2, <1>16, <2>2 DEF AddUp, Job
  <2>4. ControlTypes'
    BY <1>6, <1>16, <2>3 DEF AddUp, Goto, locks, Typed, ControlTypes
  <2>. QED BY <1>3, <1>5, <1>16, <2>4 DEF AddUp
<1>17. CASE Total(q)
  <2>1. job[q].op = "grade"
    BY <1>17 DEF Total, IInv, RequestInv
  <2>2. RowTypes'
    <3>1. CASE UNCHANGED rows
      BY <1>5, <3>1
    <3>2. CASE /\ paper' = [paper EXCEPT !.state = StateOf(job[q].pending), !.score = job[q].total]
               /\ slot' = Marked(q)
               /\ UNCHANGED late
      <4>1. StateOf(job[q].pending) \in Finished /\ job[q].total \in Nat
        BY <1>2 DEF StateOf, Finished, Job
      <4>. QED BY <1>2, <2>1, <3>2, <4>1, MarkedTyped DEF RowTypes, Paper
    <3>. QED BY <1>17, <3>1, <3>2 DEF Total
  <2>. QED BY <1>3, <1>17, <2>2, EndTyped DEF Total
<1>18. CASE Regrade(q)
  BY <1>3, <1>18, EndTyped, RegradeTyped DEF Regrade
<1>. QED BY <1>7, <1>8, <1>9, <1>10, <1>11, <1>12, <1>13, <1>14, <1>15, <1>16, <1>17,
               <1>18 DEF Run

LEMMA NextTyped == IInv /\ Typed /\ [Next]_vars => Typed'
<1> SUFFICES ASSUME IInv, Typed, [Next]_vars PROVE Typed'
  OBVIOUS
<1>1. CASE Expire \/ GrantTime \/ PublishEdit
  <2>1. RowTypes' /\ ControlTypes'
    BY <1>1 DEF Expire, GrantTime, PublishEdit, rows, locks, Typed, RowTypes, ControlTypes
  <2>2. OtherTypes'
    BY <1>1, BoundsType DEF Expire, GrantTime, PublishEdit, Press, Typed, OtherTypes
  <2>. QED BY <2>1, <2>2 DEF Typed
<1>2. ASSUME NEW q \in Requests, Crash(q) \/ Victim(q) PROVE Typed'
  <2>1. ControlTypes' /\ RowTypes'
    BY <1>2, EndTyped DEF Crash, Victim, RollBack, rows, Typed, RowTypes
  <2>2. OtherTypes'
    BY <1>2, BoundsType DEF Crash, Victim, Press, Typed, OtherTypes
  <2>. QED BY <2>1, <2>2 DEF Typed
<1>3. CASE UNCHANGED vars
  BY <1>3 DEF vars, rows, Typed, RowTypes, ControlTypes, OtherTypes
<1>. QED BY <1>1, <1>2, <1>3, StartTyped, RunTyped DEF Next

\* Every column keeps its range at every step; above all, a score is never
\* negative, whatever wrong answers cost.
THEOREM ScoreIsNeverNegative == Spec => []TypeOK
<1>1. Typed => TypeOK
  BY DEF Typed, RowTypes, ControlTypes, OtherTypes, TypeOK
<1>. QED BY <1>1, InitTyped, NextTyped, PaperProtects, PTL DEF Spec
=============================================================================
