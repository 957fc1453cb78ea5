----------------------------- MODULE ArenaMatch ------------------------------
(***************************************************************************)
(* One match of the arena: two students race for each question.  The match *)
(* lives in Redis; every change to it loads it under the lock m:<id>, lets *)
(* the pure engine judge, records a finished match in PostgreSQL, saves    *)
(* and schedules it.  The requests of the students, the sweeper of each    *)
(* process, a process that closes and a process that boots all do this at  *)
(* once.  The process that made the match is "owner"; any other, a later   *)
(* one or one that overlaps it in a deploy, is "other".                    *)
(*                                                                         *)
(* Times are relative: match.left is stageEndsAt less the clock, frozen    *)
(* while the match is paused, and Pass takes one tick off.  A request that *)
(* waited for the lock is judged at the time it was received, job.age      *)
(* ticks ago.                                                              *)
(***************************************************************************)
EXTENDS Integers, FiniteSets

CONSTANTS
  Questions,  \* questions of the match
  Rules,      \* ARENA_RULES in ticks: [vs, question, reveal, grace, resumeMin]
  MaxAge,     \* longest wait of an answer for the lock, in ticks (LOCK_WAIT_MS)
  Budgets     \* bounds, [requests, flaps, mishaps]; a mishap is an error, a crash,
              \* a deploy or a lease that runs out under its holder

Side == {"a", "b"}
Other(s) == IF s = "a" THEN "b" ELSE "a"
Boot == {"owner", "other"}
Slot == Side \cup Boot  \* a request of each student, the timer of each process

VARIABLES
  match,    \* arena:m:<id> in Redis
  row,      \* arena_matches, the row of this match
  stats,    \* points that arena_stats gained from it
  tracked,  \* whether arena:due and arena:live hold it
  present,  \* what the presence keys say of each student
  up,       \* life of each process
  lock,     \* holder of arena:lock:m:<id>
  job,      \* what each slot is doing
  told,     \* answers each student was told are right
  lapsed,   \* a lease ran out under a holder that still lived
  failed,   \* a record was answered with an error
  budget    \* what is left of each bound

vars == <<match, row, stats, tracked, present, up, lock, job, told, lapsed, failed, budget>>

Ends == {"none", "completed", "forfeit", "abandoned", "aborted"}
Points == [Side -> 0..3]
NoAwards == [s \in Side |-> -1]
Zero == [s \in Side |-> 0]

NewMatch == [index |-> 1, stage |-> "vs", left |-> Rules.vs,
             online |-> [s \in Side |-> TRUE], grace |-> Zero,
             answer |-> [s \in Side |-> "none"], score |-> Zero,
             end |-> "none", winner |-> "none", awards |-> NoAwards]
NoJob == [pc |-> "idle", boot |-> "owner", age |-> 0, draft |-> NewMatch, result |-> "none"]
NoRow == [end |-> "none", points |-> NoAwards]

TypeOK ==
  /\ match.index \in 1..Questions /\ match.stage \in {"vs", "question", "reveal", "ended"}
  /\ match.left \in (-MaxAge)..(Rules.vs + Rules.question + Rules.reveal)
  /\ match.end \in Ends /\ (match.end # "none") = (match.stage = "ended")
  /\ match.winner \in {"none"} \cup Side /\ match.awards \in Points \cup {NoAwards}
  /\ row.end \in Ends /\ row.points \in Points \cup {NoAwards} /\ stats \in Points
  /\ tracked \subseteq {"due", "live"}
  /\ \A b \in Boot : up[b] \in {"down", "booting", "up", "closing"}
  /\ lock \in Slot \cup {"free"}
  /\ \A x \in Slot : job[x].pc \in {"idle", "wait", "record", "save"}

-----------------------------------------------------------------------------
\* The engine: what a judgement makes of a match m, age ticks ago.

Paused(m) == m.end = "none" /\ \E s \in Side : ~m.online[s]

\* Mutant: an end that leaves the stage.
FinishKeepingStage(m, winner, why) == [m EXCEPT !.end = why, !.winner = winner, !.left = 0]

Finish(m, winner, why) ==
  [m EXCEPT !.stage = "ended", !.end = why, !.winner = winner, !.left = 0]

OpenQuestion(m, i, age) ==
  [m EXCEPT !.index = i, !.stage = "question", !.left = Rules.question - age,
            !.answer = [s \in Side |-> "none"]]

CloseRound(m, age) == [m EXCEPT !.stage = "reveal", !.left = Rules.reveal - age]

CompletedWinner(m) ==
  IF \E s \in Side : m.score[s] > m.score[Other(s)]
  THEN CHOOSE s \in Side : m.score[s] > m.score[Other(s)]
  ELSE "none"

\* The one who stayed must be online to take the match: else wait for him.
SettleGrace(m, age) ==
  LET expired == {s \in Side : ~m.online[s] /\ m.grace[s] + age <= 0}
  IN CASE expired = Side -> Finish(m, "none", "abandoned")
       [] \E s \in expired : m.online[Other(s)] ->
            Finish(m, Other(CHOOSE s \in expired : TRUE), "forfeit")
       [] OTHER -> m

\* Each stage begun ends after the time it was begun at, so the code's loop
\* takes at most one turn.
Advance(m, age) ==
  CASE m.end # "none" -> m
    [] Paused(m) -> SettleGrace(m, age)
    [] ~Paused(m) /\ m.end = "none" /\ m.left + age > 0 -> m
    [] OTHER ->
         CASE m.stage = "vs" -> OpenQuestion(m, 1, age)
           [] m.stage = "question" -> CloseRound(m, age)
           [] m.stage = "reveal" /\ m.index < Questions -> OpenQuestion(m, m.index + 1, age)
           [] OTHER -> Finish(m, CompletedWinner(m), "completed")

Late(m, index) == m.end # "none" \/ index < m.index \/ (index = m.index /\ m.stage = "reveal")
Takes(m, s, index) ==
  index = m.index /\ m.stage = "question" /\ ~Paused(m) /\ m.answer[s] = "none"

\* Mutant: the first right answer leaves the question open.
AnswerLeavingOpen(m, s, index, right, age) ==
  LET a == Advance(m, age)
      b == [a EXCEPT !.answer[s] = IF right THEN "right" ELSE "wrong",
                     !.score[s] = IF right THEN @ + 1 ELSE @]
  IN CASE Late(a, index) -> [draft |-> a, result |-> "late"]
       [] ~Late(a, index) /\ ~Takes(a, s, index) -> [draft |-> a, result |-> "ignored"]
       [] OTHER -> [draft |-> IF a.answer[Other(s)] # "none" THEN CloseRound(b, age) ELSE b,
                    result |-> b.answer[s]]

Answer(m, s, index, right, age) ==
  LET a == Advance(m, age)
      b == [a EXCEPT !.answer[s] = IF right THEN "right" ELSE "wrong",
                     !.score[s] = IF right THEN @ + 1 ELSE @]
  IN CASE Late(a, index) -> [draft |-> a, result |-> "late"]
       [] ~Late(a, index) /\ ~Takes(a, s, index) -> [draft |-> a, result |-> "ignored"]
       [] OTHER -> [draft |-> IF right \/ a.answer[Other(s)] # "none" THEN CloseRound(b, age) ELSE b,
                    result |-> b.answer[s]]

Disconnect(m, s) ==
  IF m.end # "none" \/ ~m.online[s] THEN m
  ELSE [m EXCEPT !.online[s] = FALSE, !.grace[s] = Rules.grace,
                 !.left = IF Paused(m) \/ @ > 0 THEN @ ELSE 0]

Reconnect(m, s) ==
  LET on == [m EXCEPT !.online[s] = TRUE, !.grace[s] = 0]
      floor == IF m.stage = "question" THEN Rules.resumeMin ELSE 0
  IN IF m.end # "none" \/ m.online[s] THEN m
     ELSE Advance(IF Paused(on) \/ on.left > floor THEN on ELSE [on EXCEPT !.left = floor], 0)

Leave(m, s) == IF m.end # "none" THEN m ELSE Finish(m, Other(s), "forfeit")
\* Mutant: an abort that does not look at the end.
AbortAgain(m) == Finish(m, "none", "aborted")
Abort(m) == IF m.end # "none" THEN m ELSE Finish(m, "none", "aborted")

-----------------------------------------------------------------------------
\* The service. What a timer does under the lock depends on the life of its
\* process: one that boots ends the orphans of older ones before it serves, one
\* that closes ends the matches it made.

LookAt(m, s) ==
  CASE present[s] = m.online[s] -> m
    [] present[s] /\ ~m.online[s] -> Reconnect(m, s)
    [] OTHER -> Disconnect(m, s)

Tick(b) ==
  IF b = "owner" THEN Advance(LookAt(LookAt(match, "a"), "b"), 0) ELSE Abort(match)

Timed(b) ==
  CASE up[b] = "up" -> Tick(b)
    [] up[b] = "booting" /\ b # "owner" -> Abort(match)
    [] up[b] = "closing" /\ b = "owner" -> Abort(match)
    [] OTHER -> match

Init ==
  /\ match = NewMatch /\ row = NoRow /\ stats = Zero /\ tracked = {"due", "live"}
  /\ present = [s \in Side |-> TRUE]
  /\ up = [b \in Boot |-> IF b = "owner" THEN "up" ELSE "down"]
  /\ lock = "free" /\ job = [x \in Slot |-> NoJob]
  /\ told = Zero /\ lapsed = FALSE /\ failed = FALSE
  /\ budget \in Budgets

Spend(bound) == budget[bound] > 0 /\ budget' = [budget EXCEPT ![bound] = @ - 1]

\* A request reaches a process and polls for the lock.
Request(s) ==
  /\ job[s].pc = "idle" /\ present[s] /\ Spend("requests")
  /\ \E b \in Boot : /\ up[b] \in {"up", "closing"}
                     /\ job' = [job EXCEPT ![s] = [NoJob EXCEPT !.pc = "wait", !.boot = b]]
  /\ UNCHANGED <<match, row, stats, tracked, present, up, lock, told, lapsed, failed>>

\* A process that has closed is gone; one that has booted serves.
Life(x) ==
  IF x \in Side THEN up
  ELSE [up EXCEPT ![x] = IF @ = "closing" THEN "down" ELSE "up"]

\* Mutant: a running match is not scheduled again.
ScheduleOnce(m) == tracked' = IF m.end # "none" THEN {} ELSE tracked \ {"due"}

\* A running match is scheduled, a finished one is forgotten.
Schedule(m) == tracked' = IF m.end # "none" THEN {} ELSE tracked \cup {"due"}

\* Mutant: the lock is not held while the match is recorded and saved.
CommitUnlocked(x, b, j) ==
  /\ job' = [job EXCEPT ![x] =
       IF j.draft = match THEN NoJob
       ELSE [NoJob EXCEPT !.pc = IF j.draft.end # "none" THEN "record" ELSE "save",
                          !.boot = b, !.draft = j.draft, !.result = j.result]]
  /\ up' = IF j.draft = match THEN Life(x) ELSE up
  /\ UNCHANGED lock

\* The holder x of the lock has loaded the match and judged: an unchanged match
\* is answered at once, a finished one is recorded before it is saved.
Commit(x, b, j) ==
  IF j.draft = match
  THEN /\ job' = [job EXCEPT ![x] = NoJob]
       /\ up' = Life(x)
       /\ UNCHANGED lock
  ELSE /\ job' = [job EXCEPT ![x] = [NoJob EXCEPT
                    !.pc = IF j.draft.end # "none" THEN "record" ELSE "save",
                    !.boot = b, !.draft = j.draft, !.result = j.result]]
       /\ lock' = x
       /\ UNCHANGED up

\* SET NX succeeds. A client may send the index of a question gone by.
Enter(s) ==
  /\ job[s].pc = "wait" /\ lock = "free"
  /\ \/ \E right \in BOOLEAN, i \in 1..Questions :
          Commit(s, job[s].boot, Answer(match, s, i, right, job[s].age))
     \/ Commit(s, job[s].boot, [draft |-> Leave(match, s), result |-> "none"])
  /\ UNCHANGED <<match, row, stats, tracked, present, told, lapsed, failed, budget>>

\* The sweeper takes the match when it is due, closeOrphans and the shutdown
\* when it is live. Only the sweeper schedules or forgets an unchanged match.
Fire(b) ==
  /\ job[b].pc = "idle" /\ lock = "free"
  /\ \/ up[b] = "up" /\ "due" \in tracked
     \/ up[b] \in {"booting", "closing"} /\ "live" \in tracked
  /\ Commit(b, b, [draft |-> Timed(b), result |-> "none"])
  /\ IF up[b] = "up" /\ Timed(b) = match THEN Schedule(match) ELSE UNCHANGED tracked
  /\ UNCHANGED <<match, row, stats, present, told, lapsed, failed, budget>>

Base(m, s) ==
  CASE m.end \notin {"completed", "forfeit"} -> 0
    [] m.end \in {"completed", "forfeit"} /\ m.winner = "none" -> 1
    [] OTHER -> IF m.winner = s THEN 3 ELSE 0

\* Mutant: the points are given again when the row is there.
RecordAgain(x) ==
  /\ job[x].pc = "record"
  /\ \E points \in [Side -> {0, 1, 3}] :
       /\ \A s \in Side : points[s] <= Base(job[x].draft, s)
       /\ row' = [end |-> job[x].draft.end, points |-> points]
       /\ stats' = [s \in Side |-> stats[s] + points[s]]
       /\ job' = [job EXCEPT ![x].pc = "save", ![x].draft.awards = points]
  /\ UNCHANGED <<match, tracked, present, up, lock, told, lapsed, failed, budget>>

\* The transaction of records.record: the points that the day's ceilings leave,
\* unless the row is there. An error may come after the commit.
Record(x) ==
  /\ job[x].pc = "record"
  /\ \E points \in [Side -> {0, 1, 3}], write, error \in BOOLEAN :
       /\ \A s \in Side : points[s] <= Base(job[x].draft, s)
       /\ write => row.end = "none"
       /\ ~write => points = Zero /\ (row.end # "none" \/ error)
       /\ IF error THEN Spend("mishaps") ELSE UNCHANGED budget
       /\ failed' = (failed \/ error)
       /\ row' = IF write THEN [end |-> job[x].draft.end, points |-> points] ELSE row
       /\ stats' = [s \in Side |-> stats[s] + points[s]]
       /\ job' = [job EXCEPT ![x].pc = "save",
                             ![x].draft.awards = IF error THEN Zero ELSE row'.points]
  /\ UNCHANGED <<match, tracked, present, up, lock, told, lapsed>>

Unlock(x) == lock' = IF lock = x THEN "free" ELSE lock

\* Save, schedule, unlock and answer.
Save(x) ==
  /\ job[x].pc = "save"
  /\ match' = job[x].draft
  /\ Schedule(job[x].draft)
  /\ Unlock(x)
  /\ told' = IF job[x].result = "right" THEN [told EXCEPT ![x] = @ + 1] ELSE told
  /\ up' = Life(x)
  /\ job' = [job EXCEPT ![x] = NoJob]
  /\ UNCHANGED <<row, stats, present, lapsed, failed, budget>>

\* Redis refuses the save, or the schedule after it: the handler throws.
Fault(x) ==
  /\ job[x].pc = "save" /\ Spend("mishaps")
  /\ match' \in {match, job[x].draft}
  /\ Unlock(x)
  /\ up' = Life(x)
  /\ job' = [job EXCEPT ![x] = NoJob]
  /\ UNCHANGED <<row, stats, tracked, present, told, lapsed, failed>>

\* 503 arena_busy, or nothing live to end.
GiveUp(x) ==
  /\ \/ x \in Side /\ job[x].pc = "wait" /\ lock # "free"
     \/ /\ x \in Boot /\ up[x] \in {"booting", "closing"} /\ job[x].pc = "idle"
        /\ lock # "free" \/ "live" \notin tracked
  /\ up' = Life(x)
  /\ job' = [job EXCEPT ![x] = NoJob]
  /\ UNCHANGED <<match, row, stats, tracked, present, lock, told, lapsed, failed, budget>>

\* SIGTERM: the sweeper stops.
Close(b) ==
  /\ up[b] = "up" /\ job[b].pc = "idle" /\ Spend("mishaps")
  /\ up' = [up EXCEPT ![b] = "closing"]
  /\ UNCHANGED <<match, row, stats, tracked, present, lock, job, told, lapsed, failed>>

\* A container that died is started again; in a deploy the new one may come first.
Start ==
  /\ up["other"] = "down"
  /\ IF up["owner"] = "down" THEN UNCHANGED budget ELSE Spend("mishaps")
  /\ up' = [up EXCEPT !["other"] = "booting"]
  /\ UNCHANGED <<match, row, stats, tracked, present, lock, job, told, lapsed, failed>>

\* The stream or the beat of a student stops, or comes back.
Flap(s) ==
  /\ Spend("flaps")
  /\ present' = [present EXCEPT ![s] = ~@]
  /\ tracked' = tracked \cup {"due"}
  /\ UNCHANGED <<match, row, stats, up, lock, job, told, lapsed, failed>>

Crash(b) ==
  /\ up[b] # "down" /\ Spend("mishaps")
  /\ up' = [up EXCEPT ![b] = "down"]
  /\ job' = [x \in Slot |-> IF job[x].boot = b \/ x = b THEN NoJob ELSE job[x]]
  /\ UNCHANGED <<match, row, stats, tracked, present, lock, told, lapsed, failed>>

\* The lease of a holder that died runs out, or of one whose transaction takes
\* longer than LOCK_TTL_MS.
Expire ==
  /\ lock # "free" /\ job[lock].pc # "save"
  /\ lock' = "free"
  /\ IF job[lock].pc = "record" THEN lapsed' = TRUE /\ Spend("mishaps")
                                 ELSE UNCHANGED <<lapsed, budget>>
  /\ UNCHANGED <<match, row, stats, tracked, present, up, job, told, failed>>

Older(m) ==
  CASE m.end # "none" -> m
    [] Paused(m) -> [m EXCEPT !.grace = [s \in Side |->
                       IF m.online[s] \/ m.grace[s] = 0 THEN m.grace[s] ELSE m.grace[s] - 1]]
    [] OTHER -> [m EXCEPT !.left = IF @ > -MaxAge THEN @ - 1 ELSE @]

\* A tick of the clock. What a holder does under a live lease is shorter; a
\* transaction that is longer loses its lease first.
Pass ==
  /\ \A x \in Slot : (lock = x => job[x].pc = "idle") /\ (job[x].pc = "wait" => job[x].age < MaxAge)
  /\ match' = Older(match)
  /\ job' = [x \in Slot |-> IF job[x].pc = "wait" THEN [job[x] EXCEPT !.age = @ + 1] ELSE job[x]]
  /\ UNCHANGED <<row, stats, tracked, present, up, lock, told, lapsed, failed, budget>>

Serve(x) == (x \in Side /\ Enter(x)) \/ Record(x) \/ Save(x) \/ GiveUp(x)

Next ==
  \/ \E s \in Side : Request(s) \/ Flap(s)
  \/ \E b \in Boot : Fire(b) \/ Close(b) \/ Crash(b)
  \/ \E x \in Slot : Serve(x) \/ Fault(x)
  \/ Start \/ Expire \/ Pass

Restart == up["owner"] = "down" /\ Start
LeaseOut == lock # "free" /\ job[lock].pc # "record" /\ Expire

\* Timers and the steps of a handler run to their end, a lease of a dead holder
\* runs out, time passes, and a container that died is started again.
Fairness ==
  /\ \A b \in Boot : WF_vars(Fire(b))
  /\ \A x \in Slot : WF_vars(Serve(x))
  /\ WF_vars(Restart) /\ WF_vars(LeaseOut) /\ WF_vars(Pass)

Spec == Init /\ [][Next]_vars /\ Fairness
-----------------------------------------------------------------------------
\* The first right answer takes the question and closes it for both: no
\* question ever gives two points. (arena-engine.ts, rules 1 and 3.)
Asked == IF match.stage = "vs" THEN 0 ELSE match.index
OnePointPerQuestion == match.score["a"] + match.score["b"] <= Asked

\* An answer that was told it is right has scored in the match that is kept,
\* whatever else ran meanwhile, unless a lease ran out under its holder.
\* (ArenaService: "every change to a match goes through withLock".)
ToldRightIsScored == ~lapsed => \A s \in Side : told[s] <= match.score[s]

\* Across retries, crashes between the record and the save, and leases that
\* ran out, the points of a match are given once and the points shown are those
\* given, or zeros after an error. (records.record: "the same result".)
ShownPointsAreGiven ==
  /\ stats = (IF row.end = "none" THEN Zero ELSE row.points)
  /\ match.awards # NoAwards =>
       match.awards = row.points \/ (failed /\ match.awards = Zero)

\* How a match ended never changes: no sweep, boot, deploy or late request
\* ends it again, unless a lease ran out under its holder.
EndIsFinal ==
  [][match.end # "none" /\ ~lapsed =>
       /\ match'.end = match.end /\ match'.winner = match.winner
       /\ match'.awards = match.awards]_vars

\* Once the students stop coming and going the match ends and is swept no more,
\* across crashes and restarts. (ArenaService: no student waits for ever.)
Over == match.end # "none" /\ tracked = {}
MatchEnds == <>[]Over
=============================================================================
