----------------------------- MODULE QuizAttempt -----------------------------
(***************************************************************************)
(* One sitting of a quiz.  The student saves answers from tabs that carry  *)
(* the attempt's token and a counter of their own, and hands the paper in; *)
(* a sweeper closes it when its time is up; an admin reopens it or grants  *)
(* time; a teacher marks answers by hand, and a corrected question is      *)
(* marked again.  All of these are in flight at once.                      *)
(*                                                                         *)
(* Save, submit, close, regrade and reopen lock the attempt's row before   *)
(* its questions; a teacher's mark locks the question first.  Writes are   *)
(* seen when their transaction commits (READ COMMITTED).                   *)
(***************************************************************************)
EXTENDS Integers, FiniteSets, FiniteSetsExt

CONSTANTS
  Requests,    \* concurrent HTTP requests and sweeper calls
  Tabs,        \* browser tabs of the student
  Choice,      \* slots the engine marks
  Essay,       \* slots only a teacher marks
  MaxSeq,      \* model bound on the counter of a tab
  MaxPresses,  \* model bound on resumes, crashes and what admins do
  MaxVersion,  \* model bound on versions of a choice question
  None         \* nobody, nothing, no answer, no mark

Slots == Choice \cup Essay

ASSUME SlotsApart == Choice \cap Essay = {}
\* start refuses a paper of no questions.
ASSUME SlotsAreSome == Slots # {} /\ IsFiniteSet(Slots)
ASSUME BoundsType == MaxSeq \in Nat /\ MaxPresses \in Nat /\ MaxVersion \in Nat \ {0}
ASSUME NoneIsNew == None \notin Requests \cup Tabs \cup Slots \cup Int \cup {"a", "b", "teacher"}

VARIABLES
  paper,      \* quiz_attempts: state, submitted_at, attempt_token, score
  slot,       \* attempt_questions
  late,       \* now is past deadline + extra time + grace
  published,  \* the latest ready version of the choice questions
  tabs,       \* what each tab was loaded with
  presses,    \* how often a bounded operation was started
  paperLock, slotLock,
  pc, job

rows == <<paper, slot, late>>
vars == <<rows, published, tabs, presses, paperLock, slotLock, pc, job>>

Answers  == {"a", "b"}
Finished == {"submitted", "pending_review"}

Paper == [state : {"in_progress", "abandoned"} \cup Finished, submitted : BOOLEAN,
          token : Nat, score : Nat]

\* A wrong answer may cost a mark. by: graded_by, set on a mark a teacher gave.
Marks == {0 - 1, 0, 1, None}
Slot == [answer : Answers \cup {None}, seq : Nat, version : 1 .. MaxVersion,
         graded : BOOLEAN, mark : Marks, by : {"teacher", None}]

Tab == [token : Nat \cup {None}, seq : Nat]

Ops   == {"resume", "save", "submit", "close", "reopen", "grade", "regrade"}
Steps == {"rotate", "load", "lock", "write", "mark", "sum", "total", "reissue"}

\* was: the mark a teacher's transaction found; total and pending: what it has
\* added up.
Job == [op : Ops \cup {"none"}, tab : Tabs \cup {None}, token : Nat \cup {None},
        seq : Nat, slot : Slots \cup {None}, answer : Answers \cup {None},
        mark : Marks, was : Marks, version : 0 .. MaxVersion, total : Nat, pending : BOOLEAN]
NoJob == [op |-> "none", tab |-> None, token |-> None, seq |-> 0, slot |-> None,
          answer |-> None, mark |-> None, was |-> None, version |-> 0, total |-> 0, pending |-> FALSE]

\* start has created the attempt and shown it in no tab yet.
Init ==
  /\ paper = [state |-> "in_progress", submitted |-> FALSE, token |-> 0, score |-> 0]
  /\ slot = [s \in Slots |-> [answer |-> None, seq |-> 0, version |-> 1, graded |-> FALSE,
                              mark |-> None, by |-> None]]
  /\ late = FALSE
  /\ published = 1
  /\ tabs = [t \in Tabs |-> [token |-> None, seq |-> 0]]
  /\ presses = 0
  /\ paperLock = None
  /\ slotLock = [s \in Slots |-> None]
  /\ pc = [q \in Requests |-> "idle"]
  /\ job = [q \in Requests |-> NoJob]

-----------------------------------------------------------------------------
(***************************************************************************)
(* Control.                                                                *)
(***************************************************************************)

locks == <<paperLock, slotLock>>

Open == paper.state = "in_progress" /\ ~paper.submitted

Begin(q, j, s) ==
  /\ pc[q] = "idle"
  /\ pc' = [pc EXCEPT ![q] = s]
  /\ job' = [job EXCEPT ![q] = j]
  /\ UNCHANGED <<rows, published, locks>>

Press == presses < MaxPresses /\ presses' = presses + 1

Goto(q, s) == pc' = [pc EXCEPT ![q] = s]

\* The request is over: it holds no lock, and its slot serves another one.
End(q) ==
  /\ paperLock' = IF paperLock = q THEN None ELSE paperLock
  /\ slotLock' = [s \in Slots |-> IF slotLock[s] = q THEN None ELSE slotLock[s]]
  /\ pc' = [pc EXCEPT ![q] = "idle"]
  /\ job' = [job EXCEPT ![q] = NoJob]

RollBack(q) == End(q) /\ UNCHANGED rows

\* Nobody else has written the question and not committed yet.
SlotFree(q, s) == slotLock[s] \in {None, q}
SlotsFree(q)   == \A s \in Slots : SlotFree(q, s)

-----------------------------------------------------------------------------
(***************************************************************************)
(* Marks.                                                                  *)
(***************************************************************************)

\* gradeQuestion: the answer against the key of its version, of which an
\* edit may be a correction; an essay is left for a teacher.
Key(v) == IF v % 2 = 1 THEN "a" ELSE "b"
Engine(s, answer, v) ==
  CASE s \in Essay                      -> None
    [] s \in Choice /\ answer = None    -> 0
    [] s \in Choice /\ answer = Key(v)  -> 1
    [] OTHER                            -> 0 - 1

\* gradeAttempt, over questions as they are in f: an unmarked one adds
\* nothing and keeps the paper pending; a total is never negative. (Mutant: it
\* may be.)
SumOf(f) == MapThenSumSet(LAMBDA s : IF f[s].mark = None THEN 0 ELSE f[s].mark, Slots)
TotalUnfloored(f) == SumOf(f)
TotalOf(f) == Max({0, SumOf(f)})

PendingOf(f) == \E s \in Slots : f[s].mark = None
StateOf(pending) == IF pending THEN "pending_review" ELSE "submitted"

\* Every question as the engine marks it: graded_by is not written.
EngineMarked == [s \in Slots |-> [slot[s] EXCEPT
                   !.mark = Engine(s, slot[s].answer, slot[s].version), !.graded = TRUE]]

-----------------------------------------------------------------------------
(***************************************************************************)
(* The student.                                                            *)
(***************************************************************************)

\* resume rotates the token in a statement of its own, and loads the paper
\* in another.
StartResume(q, t) ==
  Press /\ Begin(q, [NoJob EXCEPT !.op = "resume", !.tab = t], "rotate") /\ UNCHANGED tabs

Rotate(q) ==
  /\ pc[q] = "rotate"
  /\ paperLock = None
  /\ paper' = IF paper.submitted THEN paper ELSE [paper EXCEPT !.token = @ + 1]
  /\ Goto(q, "load")
  /\ UNCHANGED <<slot, late, tabs, locks, job>>

Load(q) ==
  /\ pc[q] = "load"
  /\ tabs' = [tabs EXCEPT ![job[q].tab] =
                [token |-> paper.token, seq |-> Max({slot[s].seq : s \in Slots}) + 1]]
  /\ RollBack(q)

\* saveAnswers: the check before the transaction. The model saves one answer
\* at a time; a tab may have several saves on their way.
StartSave(q, t, s, a) ==
  /\ Open /\ ~late
  /\ tabs[t].token = paper.token
  /\ tabs[t].seq <= MaxSeq
  /\ Begin(q, [NoJob EXCEPT !.op = "save", !.tab = t, !.token = tabs[t].token,
                            !.seq = tabs[t].seq, !.slot = s, !.answer = a], "lock")
  /\ tabs' = [tabs EXCEPT ![t].seq = @ + 1]
  /\ UNCHANGED presses

StartSubmit(q, t) ==
  /\ tabs[t].token # None
  /\ Begin(q, [NoJob EXCEPT !.op = "submit", !.tab = t, !.token = tabs[t].token], "lock")
  /\ UNCHANGED <<tabs, presses>>

\* The predicate of the save's update. (Mutant: the sequence number alone.)
StillWrites(q) == slot[job[q].slot].seq < job[q].seq
Writes(q) ==
  /\ slot[job[q].slot].seq < job[q].seq
  /\ paper.token = job[q].token
  /\ ~paper.submitted

Save(q) ==
  LET s == job[q].slot
  IN  /\ pc[q] = "write" /\ job[q].op = "save"
      /\ End(q)
      /\ IF Writes(q) /\ ~slot[s].graded
         THEN /\ SlotFree(q, s)
              /\ slot' = [slot EXCEPT ![s].answer = job[q].answer, ![s].seq = job[q].seq]
              /\ UNCHANGED <<paper, late>>
         ELSE UNCHANGED rows
      /\ UNCHANGED tabs

\* gradeAndFinalise, with the claim of submit or closeOverdue before it.
HandIn(q) ==
  /\ SlotsFree(q)
  /\ slot' = EngineMarked
  /\ paper' = [paper EXCEPT !.submitted = TRUE, !.state = StateOf(PendingOf(EngineMarked)),
                            !.score = TotalOf(EngineMarked)]

Submit(q) ==
  /\ pc[q] = "write" /\ job[q].op = "submit"
  /\ HandIn(q)
  /\ End(q)
  /\ UNCHANGED <<late, tabs>>

-----------------------------------------------------------------------------
(***************************************************************************)
(* The clock and the sweeper.                                              *)
(***************************************************************************)

Expire ==
  /\ ~late /\ ~paper.submitted
  /\ late' = TRUE
  /\ UNCHANGED <<paper, slot, published, tabs, presses, locks, pc, job>>

\* OverdueService.sweep finds the candidate; closeOverdue reads it again
\* without its deadline.
StartClose(q) ==
  /\ late /\ Open
  /\ Begin(q, [NoJob EXCEPT !.op = "close"], "lock")
  /\ UNCHANGED <<tabs, presses>>

\* Which of the two is a setting of the quiz, read on the way.
Close(q) ==
  /\ pc[q] = "write" /\ job[q].op = "close"
  /\ \/ HandIn(q)
     \/ /\ paper' = [paper EXCEPT !.state = "abandoned", !.submitted = TRUE]
        /\ UNCHANGED slot
  /\ End(q)
  /\ UNCHANGED <<late, tabs>>

-----------------------------------------------------------------------------
(***************************************************************************)
(* Admins and teachers.                                                    *)
(***************************************************************************)

GrantTime ==
  /\ Press
  /\ paperLock = None
  /\ late' = FALSE
  /\ UNCHANGED <<paper, slot, published, tabs, locks, pc, job>>

StartReopen(q) == Press /\ Begin(q, [NoJob EXCEPT !.op = "reopen"], "lock") /\ UNCHANGED tabs

Ungraded == [s \in Slots |-> [slot[s] EXCEPT !.graded = FALSE]]

\* The seconds granted may or may not be enough for the hard stop to be ahead.
Reopen(q) ==
  /\ pc[q] = "write" /\ job[q].op = "reopen"
  /\ SlotsFree(q)
  /\ paper' = [paper EXCEPT !.state = "in_progress", !.submitted = FALSE]
  /\ slot' = Ungraded
  /\ late' \in {late, FALSE}
  /\ paperLock' = None
  /\ Goto(q, "reissue")
  /\ UNCHANGED <<tabs, slotLock, job>>

\* reissueToken, after the commit.
Reissue(q) ==
  /\ pc[q] = "reissue"
  /\ paperLock = None
  /\ paper' = [paper EXCEPT !.token = @ + 1]
  /\ End(q)
  /\ UNCHANGED <<slot, late, tabs>>

\* ManualGradingService.grade: a mark, and on a choice question perhaps another
\* answer. It does not ask for the state of the paper.
StartGrade(q, s, m, a) ==
  /\ Press
  /\ Begin(q, [NoJob EXCEPT !.op = "grade", !.slot = s, !.mark = m, !.answer = a,
                            !.was = slot[s].mark], "mark")
  /\ UNCHANGED tabs

\* The mark it found sent back again is not a teacher's mark.
Changed(q) == job[q].was # job[q].mark \/ job[q].answer # None

\* The row is written, or not even that where nothing but a note could be.
Mark(q) ==
  /\ pc[q] = "mark"
  /\ \/ /\ slotLock[job[q].slot] = None
        /\ slotLock' = [slotLock EXCEPT ![job[q].slot] = q]
     \/ ~Changed(q) /\ UNCHANGED slotLock
  /\ Goto(q, "sum")
  /\ UNCHANGED <<rows, tabs, paperLock, job>>

Marked(q) ==
  LET s == job[q].slot
  IN  IF Changed(q)
      THEN [slot EXCEPT ![s].mark = job[q].mark, ![s].graded = TRUE, ![s].by = "teacher",
                        ![s].answer = IF job[q].answer = None THEN @ ELSE job[q].answer]
      ELSE slot

\* recomputeScoreTx adds up what it reads, its own mark included ...
AddUp(q) ==
  /\ pc[q] = "sum"
  /\ job' = [job EXCEPT ![q].total = TotalOf(Marked(q)), ![q].pending = PendingOf(Marked(q))]
  /\ Goto(q, "total")
  /\ UNCHANGED <<rows, tabs, locks>>

\* (Mutant: a database without the constraint.)
Unconstrained == TRUE
SubmittedStateConsistent == paper.submitted

\* ... and updates the attempt, which the CHECK on its state may refuse.
Total(q) ==
  /\ pc[q] = "total"
  /\ paperLock = None
  /\ IF SubmittedStateConsistent
     THEN /\ paper' = [paper EXCEPT !.state = StateOf(job[q].pending), !.score = job[q].total]
          /\ slot' = Marked(q)
          /\ UNCHANGED late
     ELSE UNCHANGED rows
  /\ End(q)
  /\ UNCHANGED tabs

PublishEdit ==
  /\ published < MaxVersion
  /\ published' = published + 1
  /\ UNCHANGED <<rows, tabs, presses, locks, pc, job>>

\* regradeEntry reads the version to move to, and the papers on another one,
\* before any paper's transaction.
StartRegrade(q, s) ==
  /\ Press
  /\ slot[s].version # published /\ paper.state # "abandoned"
  /\ Begin(q, [NoJob EXCEPT !.op = "regrade", !.slot = s, !.version = published], "lock")
  /\ UNCHANGED tabs

\* What regradePaper moves, read under the lock. (Mutant: also a question
\* that a teacher has marked.)
MovesAny(q) == slot[job[q].slot].version # job[q].version
Moves(q) ==
  /\ slot[job[q].slot].version # job[q].version
  /\ slot[job[q].slot].by = None

\* A graded answer of a finished paper is marked again and the paper added up;
\* an answer that the new version does not offer stays where it is.
\* (Mutant: one that waits for a teacher is not finished.)
AgainIfComplete(s) == paper.state = "submitted" /\ slot[s].graded
Again(s) == paper.state \in Finished /\ slot[s].graded

Regrade(q) ==
  LET s == job[q].slot
      moved == [slot EXCEPT ![s].version = job[q].version,
                            ![s].mark = IF Again(s) THEN Engine(s, slot[s].answer, job[q].version) ELSE @]
  IN  /\ pc[q] = "write" /\ job[q].op = "regrade"
      /\ \/ /\ Moves(q)
            /\ SlotFree(q, s)
            /\ slot' = moved
            /\ paper' = IF Again(s)
                        THEN [paper EXCEPT !.state = StateOf(PendingOf(moved)),
                                           !.score = TotalOf(moved)]
                        ELSE paper
            /\ UNCHANGED late
         \/ ~Moves(q) /\ UNCHANGED rows
         \/ slot[s].answer # None /\ UNCHANGED rows
      /\ End(q)
      /\ UNCHANGED tabs

-----------------------------------------------------------------------------
(***************************************************************************)
(* The lock of the attempt's row, with the condition each asks under it.   *)
(***************************************************************************)

\* (Mutant: the sweeper claims the paper as its student does.)
AdmitsHolder(q) == job[q].op \in {"submit", "close"} => Open /\ paper.token = job[q].token
Admits(q) ==
  CASE job[q].op = "submit"  -> Open /\ paper.token = job[q].token
    [] job[q].op = "close"   -> Open
    [] job[q].op = "regrade" -> paper.state # "abandoned"
    [] OTHER -> TRUE

LockPaper(q) ==
  /\ pc[q] = "lock"
  /\ paperLock = None
  /\ IF Admits(q)
     THEN paperLock' = q /\ Goto(q, "write") /\ UNCHANGED <<rows, slotLock, job>>
     ELSE RollBack(q)
  /\ UNCHANGED tabs

\* The process dies, or the connection does.
Crash(q) ==
  /\ pc[q] # "idle"
  /\ Press
  /\ RollBack(q)
  /\ UNCHANGED <<published, tabs>>

\* A teacher's mark waits for the paper of somebody who waits for its
\* question: the database breaks the cycle. (Where it breaks it on the other
\* side, that is Crash.)
Cycle(q) ==
  /\ pc[q] = "total" /\ slotLock[job[q].slot] = q
  /\ \E r \in Requests \ {q} :
       /\ paperLock = r /\ pc[r] = "write"
       /\ job[r].op \in {"save", "regrade"} => job[r].slot = job[q].slot
Victim(q) == Cycle(q) /\ RollBack(q) /\ UNCHANGED <<published, tabs, presses>>

Start(q) ==
  \/ \E t \in Tabs :
       \/ StartResume(q, t)
       \/ StartSubmit(q, t)
       \/ \E s \in Choice, a \in Answers : StartSave(q, t, s, a)
  \/ StartClose(q)
  \/ StartReopen(q)
  \/ \E s \in Slots, m \in {0, 1} : StartGrade(q, s, m, None)
  \/ \E s \in Choice, m \in {0, 1}, a \in Answers : StartGrade(q, s, m, a)
  \/ \E s \in Choice : StartRegrade(q, s)

Run(q) ==
  /\ \/ Rotate(q) \/ Load(q) \/ LockPaper(q) \/ Save(q) \/ Submit(q) \/ Close(q)
     \/ Reopen(q) \/ Reissue(q) \/ Mark(q) \/ AddUp(q) \/ Total(q) \/ Regrade(q)
  /\ UNCHANGED <<published, presses>>

Next ==
  \/ Expire \/ GrantTime \/ PublishEdit
  \/ \E q \in Requests : Start(q) \/ Run(q) \/ Crash(q) \/ Victim(q)

Spec == Init /\ [][Next]_vars

\* The sweeper runs every minute, a statement that can run does, a lock is not
\* given to later comers for ever (row locks queue), and cycles are broken.
\* Crashes are finitely many: they are presses.
Fairness ==
  /\ \A q \in Requests : SF_vars(Run(q))
  /\ SF_vars(\E q \in Requests : StartClose(q))
  /\ WF_vars(\E q \in Requests : Victim(q))
FairSpec == Spec /\ Fairness

-----------------------------------------------------------------------------
(***************************************************************************)
(* Properties.                                                             *)
(***************************************************************************)

\* Every column stays in its range; in particular a score is never negative,
\* though a wrong answer may cost a mark. (gradeAttempt's floor at zero.)
TypeOK ==
  /\ paper \in Paper
  /\ slot \in [Slots -> Slot]
  /\ late \in BOOLEAN
  /\ published \in 1 .. MaxVersion
  /\ tabs \in [Tabs -> Tab]
  /\ presses \in 0 .. MaxPresses
  /\ paperLock \in Requests \cup {None}
  /\ slotLock \in [Slots -> Requests \cup {None}]
  /\ pc \in [Requests -> Steps \cup {"idle"}]
  /\ job \in [Requests -> Job]

\* A paper that has not been handed in has no graded question, whatever
\* reopens, marks and sweeps went before: the student can still save every
\* answer of it. (reopen: "a reopened student's very first save would hit
\* that same guard".)
SittingIsUngraded == ~paper.submitted => \A s \in Slots : ~slot[s].graded

\* The engine's mark is the mark of the answer that stands in the paper,
\* under the version it stands under: no save slipped past a submit, a
\* sweep or a regrade. (saveAnswers: "an autosave racing a submit must not
\* overwrite a marked answer".)
MarkedAsAnswered ==
  \A s \in Choice :
    slot[s].graded /\ slot[s].by = None =>
      slot[s].mark = Engine(s, slot[s].answer, slot[s].version)

\* Until the paper is handed in an answer changes only by a save that carries
\* the token in force and a newer number than the answer it replaces: neither
\* an older tab nor a late packet overwrites anything. Afterwards it changes
\* only by a teacher's correction. (saveAnswers: "a stale tab ... updates zero
\* rows instead of overwriting a newer answer".)
OnlyTheLiveTabWrites ==
  [][\A s \in Slots :
       slot'[s].answer # slot[s].answer \/ slot'[s].seq # slot[s].seq =>
         \E q \in Requests :
           IF paper.submitted
           THEN /\ slotLock[s] = q /\ job[q].op = "grade"
                /\ slot'[s].seq = slot[s].seq
           ELSE /\ job[q].op = "save" /\ job[q].token = paper.token
                /\ job[q].seq = slot'[s].seq /\ slot'[s].seq > slot[s].seq
    ]_vars

\* Correcting a key never touches what a teacher marked: a question with a
\* teacher's mark keeps its version, and in a finished paper that stays
\* finished the mark changes only to another one a teacher gave.
\* (RegradeService: "the teacher's own decision outranks an automatic one".)
TeacherOutranks ==
  [][\A s \in Slots :
       slot[s].by = "teacher" =>
         /\ slot'[s].version = slot[s].version
         /\ paper.submitted /\ slot'[s].mark # slot[s].mark =>
              \E q \in Requests : job[q].op = "grade" /\ slotLock[s] = q
    ]_vars

\* A paper whose time is up is closed or given time. (OverdueService: "A
\* student who closes the laptop still gets graded".)
OverdueIsClosed == (late /\ ~paper.submitted) ~> (~late \/ paper.submitted)

\* The total of a finished paper is that of its marks, and it is pending
\* while one is missing. (grade: "the question's mark and the attempt's
\* total must move together".)
TotalIsOfMarks ==
  paper.state \in Finished =>
    paper.score = TotalOf(slot) /\ paper.state = StateOf(PendingOf(slot))

\* A regrade moves an answer to a newer version of its question. (Its
\* header: "Every answer ... that sits on an OLDER version than the latest".)
OnlyOlderMoves == [][\A s \in Choice : slot'[s].version >= slot[s].version]_vars
=============================================================================
