--------------------------- MODULE ReferralsProofs ---------------------------
(***************************************************************************)
(* Proofs about Referrals for any number of referrals, sweepers, admins    *)
(* and changes of the settings.  What the ledger tells of a referral is    *)
(* written in the last step of a transaction, from what was read in the    *)
(* steps before; so what is kept besides is that a transaction holds the   *)
(* row of its referral from the conditional UPDATE on, and the wallet of   *)
(* each side from the moment it read the balance, and that what it is      *)
(* about to write is still what those rows say.                            *)
(***************************************************************************)
EXTENDS Referrals, FiniteSetTheorems, TLAPS

\* What the code assumes of its constants: nobody refers himself, and rewards
\* are amounts (referrals_not_self; the settings' schema).
Bounds ==
  /\ Refs # {} /\ IsFiniteSet(Refs)
  /\ \A r \in Refs : ReferrerOf[r] # r
  /\ \A p \in Programs : \A side \in Side : p[side] \in Nat
  /\ MonthlyCap \in Nat

Statuses == {"joined", "credited", "reversed", "blocked", "voided"}
RefSet == [status : Statuses, reward : [Side -> Nat], reversedCents : Nat]
RowSet == [ref : Refs, side : Side, cents : Nat \ {0}, kind : {"reward", "reversal"}]
JobSet == [pc : {"idle", "advisory", "decide", "move", "commit"} \cup Side,
           op : {"none", "reward", "reverse", "void"}, ref : Refs,
           from : Statuses, to : Statuses, cents : [Side -> Nat]]

Types ==
  /\ ref \in [Refs -> RefSet] /\ ledger \in SUBSET RowSet
  /\ balance \in [Wallets -> Nat] /\ program \in Programs
  /\ job \in [Jobs -> JobSet]
  /\ \A j, k \in Jobs : \A what : <<what, j>> \in held /\ <<what, k>> \in held => j = k

-----------------------------------------------------------------------------
\* UNIQUE (referral_id, user_id, kind).
OneRowEach ==
  \A x, y \in ledger : x.ref = y.ref /\ x.side = y.side /\ x.kind = y.kind => x = y

\* What the rows of a referral say, one by one.
Told(r) ==
  /\ ref[r].status \in {"joined", "blocked"} => ref[r].reward = Nothing
  /\ \A x \in ledger : x.ref = r /\ x.kind = "reward" => x.cents = ref[r].reward[x.side]
  /\ \A side \in Side : ref[r].reward[side] > 0 =>
       \E x \in ledger : x.ref = r /\ x.side = side /\ x.kind = "reward"
  /\ \A x \in ledger : x.ref = r /\ x.kind = "reversal" =>
       ref[r].status \in {"reversed", "voided"} /\ x.cents <= ref[r].reward[x.side]
  /\ ref[r].reversedCents = Given(r, "referrer", "reversal") + Given(r, "friend", "reversal")

\* The transaction has the row of its referral; it has read the wallet of a side.
Deep(j) == job[j].pc \in {"referrer", "friend", "commit"}
Done(j, side) == job[j].pc = "commit" \/ (job[j].pc = "friend" /\ side = "referrer")

\* The reward that it gives, or that it takes back.
Stake(j, side) ==
  CASE job[j].op = "reward" -> job[j].cents[side]
    [] job[j].op # "reward" /\ job[j].from = "credited" -> ref[job[j].ref].reward[side]
    [] OTHER -> 0

\* Where each operation comes from and where it goes.
Planned(j) ==
  /\ job[j].pc \in {"advisory", "decide"} => job[j].op = "reward"
  /\ job[j].pc # "idle" => \/ job[j].op = "reward" /\ job[j].from = "joined"
                           \/ job[j].op = "reverse" /\ job[j].from = "credited"
                           \/ job[j].op = "void" /\ job[j].from \in {"joined", "blocked", "credited"}
  /\ job[j].pc = "move" \/ Deep(j) =>
       (job[j].op = "reward" =>
          job[j].to = "credited" \/ (job[j].to = "blocked" /\ job[j].cents = Nothing))
  /\ Deep(j) => /\ job[j].op = "reverse" => job[j].to = "reversed"
                /\ job[j].op = "void" => job[j].to = "voided"

\* What it holds, and that what it read of it is still so.
Guarded(j) ==
  /\ Deep(j) => /\ <<<<"referral", job[j].ref>>, j>> \in held
                /\ ref[job[j].ref].status = job[j].from
  /\ \A side \in Side :
       /\ Done(j, side) /\ Stake(j, side) > 0 =>
            <<<<"wallet", Owner(job[j].ref, side)>>, j>> \in held
       /\ Deep(j) /\ job[j].op # "reward" =>
            job[j].cents[side] =
              IF Done(j, side) THEN Least(Stake(j, side), balance[Owner(job[j].ref, side)])
              ELSE Stake(j, side)

\* A sweeper that counted the month keeps the others of this referrer out.
Counted(j) ==
  job[j].op = "reward" =>
    /\ job[j].pc \in {"decide", "move"} \/ Deep(j) =>
         <<<<"referrer", ReferrerOf[job[j].ref]>>, j>> \in held
    /\ (job[j].pc = "move" \/ Deep(j)) /\ job[j].to = "credited" =>
         ThisMonth(ReferrerOf[job[j].ref]) < MonthlyCap

\* The specification without its fairness.
Safe == Init /\ [][Next]_vars

IInv ==
  /\ Types /\ OneRowEach /\ CapHolds
  /\ \A r \in Refs : Told(r)
  /\ \A j \in Jobs : Planned(j) /\ Guarded(j) /\ Counted(j)

-----------------------------------------------------------------------------
\* A fold of one element: the function that the fold chooses is the one below.
LEMMA SumOfOne == ASSUME NEW c \in Int PROVE SumSet({c}) = c
<1> DEFINE Pick(s) == CHOOSE x \in s : TRUE
           Body(g) == [s \in SUBSET {c} |-> IF s = {} THEN 0 ELSE Pick(s) + g[s \ {Pick(s)}]]
           f == [s \in SUBSET {c} |-> IF s = {} THEN 0 ELSE c]
           iter == CHOOSE g : g = Body(g)
<1>1. \A s \in SUBSET {c} : s = {} \/ (s = {c} /\ Pick(s) = c /\ s \ {Pick(s)} = {})
  OBVIOUS
<1>2. f = Body(f)
  BY <1>1
<1>3. iter = Body(iter)
  BY <1>2
<1>4. SumSet({c}) = iter[{c}]
  BY DEF SumSet, FoldSet, MapThenFoldSet
<1> HIDE DEF iter
<1>5. iter[{}] = 0
  BY <1>3
<1>6. iter[{c}] = c + iter[{}]
  BY <1>1, <1>3
<1>. QED BY <1>4, <1>5, <1>6

LEMMA SumOfNone == SumSet({}) = 0
<1> DEFINE Pick(s) == CHOOSE x \in s : TRUE
           Body(g) == [s \in SUBSET {} |-> IF s = {} THEN 0 ELSE Pick(s) + g[s \ {Pick(s)}]]
           f == [s \in SUBSET {} |-> 0]
           iter == CHOOSE g : g = Body(g)
<1>1. f = Body(f)
  OBVIOUS
<1>2. iter = Body(iter)
  BY <1>1
<1>3. SumSet({}) = iter[{}]
  BY DEF SumSet, FoldSet, MapThenFoldSet
<1> HIDE DEF iter
<1>. QED BY <1>2, <1>3

\* What rows that agree on their amount add up to: the amount, once.
LEMMA SumOfRows ==
  ASSUME NEW L
  PROVE  /\ L = {} => SumSet({x.cents : x \in L}) = 0
         /\ \A c \in Int : L # {} /\ (\A x \in L : x.cents = c) => SumSet({x.cents : x \in L}) = c
<1>1. L = {} => {x.cents : x \in L} = {}
  OBVIOUS
<1>2. ASSUME NEW c \in Int, L # {}, \A x \in L : x.cents = c PROVE {x.cents : x \in L} = {c}
  BY <1>2
<1>. QED BY <1>1, <1>2, SumOfOne, SumOfNone

\* Given, in a ledger with one row of each side and kind.
LEMMA GivenIsTheRow ==
  ASSUME ledger \in SUBSET RowSet, OneRowEach, NEW r, NEW side, NEW kind
  PROVE  /\ (\A x \in ledger : ~(x.ref = r /\ x.side = side /\ x.kind = kind))
            => Given(r, side, kind) = 0
         /\ \A x \in ledger : x.ref = r /\ x.side = side /\ x.kind = kind
            => Given(r, side, kind) = x.cents
<1> DEFINE M == {y \in ledger : y.ref = r /\ y.side = side /\ y.kind = kind}
<1>1. Given(r, side, kind) = SumSet({x.cents : x \in M})
  BY DEF Given
<1>2. \A y : y \in M <=> y \in ledger /\ y.ref = r /\ y.side = side /\ y.kind = kind
  OBVIOUS
<1> HIDE DEF M
<1>3. M = {} => SumSet({x.cents : x \in M}) = 0
  BY SumOfRows
<1>4. ASSUME NEW y \in M PROVE SumSet({x.cents : x \in M}) = y.cents
  <2>1. y.cents \in Int /\ M # {} /\ \A x \in M : x.cents = y.cents
    BY <1>2, <1>4 DEF RowSet, OneRowEach
  <2>. QED BY <2>1, SumOfRows
<1>. QED BY <1>1, <1>2, <1>3, <1>4

-----------------------------------------------------------------------------
LEMMA TakeLocks ==
  ASSUME Types, NEW j \in Jobs, NEW what, Take(what, j)
  PROVE  /\ \A i, k \in Jobs : \A w : <<w, i>> \in held' /\ <<w, k>> \in held' => i = k
         /\ held \subseteq held' /\ <<what, j>> \in held'
BY DEF Types, Take, Free

LEMMA ReleaseLocks ==
  ASSUME Types, NEW j \in Jobs, Release(j)
  PROVE  /\ \A i, k \in Jobs : \A w : <<w, i>> \in held' /\ <<w, k>> \in held' => i = k
         /\ \A k \in Jobs \ {j} : \A w : <<w, k>> \in held => <<w, k>> \in held'
BY DEF Types, Release

\* A transaction that does not move is still what it was, if nobody wrote the
\* rows that it holds, and if the month it counted has not grown.
LEMMA BystanderKeeps ==
  ASSUME IInv, NEW k \in Jobs, job'[k] = job[k],
         \A w : <<w, k>> \in held => <<w, k>> \in held',
         balance' \in [Wallets -> Nat],
         Deep(k) => ref'[job[k].ref] = ref[job[k].ref],
         \A w \in Wallets : <<<<"wallet", w>>, k>> \in held => balance'[w] = balance[w],
         /\ job[k].op = "reward" /\ (job[k].pc = "move" \/ Deep(k)) /\ job[k].to = "credited"
         => ThisMonth(ReferrerOf[job[k].ref])' <= ThisMonth(ReferrerOf[job[k].ref]),
         \A s : ThisMonth(s) \in Int /\ ThisMonth(s)' \in Int, MonthlyCap \in Int
  PROVE  Planned(k)' /\ Guarded(k)' /\ Counted(k)'
<1>1. Planned(k) /\ Guarded(k) /\ Counted(k) /\ job[k] \in JobSet
  BY DEF IInv, Types
<1>2. Deep(k)' = Deep(k) /\ \A side : Done(k, side)' = Done(k, side)
  BY DEF Deep, Done
<1>3. \A side : Done(k, side) => Deep(k)
  BY DEF Deep, Done
<1>4. Deep(k) => \A side \in Side : Stake(k, side)' = Stake(k, side)
  BY DEF Stake
<1>5. Planned(k)'
  BY <1>1, <1>2 DEF Planned
<1>6. Counted(k)'
  BY <1>1, <1>2 DEF Counted
<1>7. \A side \in Side : Owner(job[k].ref, side) \in Wallets
  BY <1>1 DEF Wallets, JobSet
<1>8. \A side \in Side : Stake(k, side) \in Nat
  BY <1>1 DEF IInv, Types, Stake, JobSet, RefSet
<1>9. \A w \in Wallets : balance[w] \in Nat /\ balance'[w] \in Nat
  BY DEF IInv, Types
<1>10. Guarded(k)'
  <2>1. Deep(k) => <<<<"referral", job[k].ref>>, k>> \in held' /\ ref'[job[k].ref].status = job[k].from
    BY <1>1 DEF Guarded
  <2>2. ASSUME NEW side \in Side
        PROVE  /\ Done(k, side) /\ Stake(k, side) > 0 =>
                    <<<<"wallet", Owner(job[k].ref, side)>>, k>> \in held'
               /\ Deep(k) /\ job[k].op # "reward" =>
                    job[k].cents[side] =
                      IF Done(k, side) THEN Least(Stake(k, side), balance'[Owner(job[k].ref, side)])
                      ELSE Stake(k, side)
    <3>1. /\ Done(k, side) /\ Stake(k, side) > 0 =>
                    <<<<"wallet", Owner(job[k].ref, side)>>, k>> \in held
          /\ Deep(k) /\ job[k].op # "reward" =>
                    job[k].cents[side] =
                      IF Done(k, side) THEN Least(Stake(k, side), balance[Owner(job[k].ref, side)])
                      ELSE Stake(k, side)
      BY <1>1 DEF Guarded
    <3>. QED BY <3>1, <1>7, <1>8, <1>9 DEF Least
  <2>. QED BY <1>2, <1>3, <1>4, <2>1, <2>2 DEF Guarded
<1>. QED BY <1>5, <1>6, <1>10

LEMMA MonthsAreCounted ==
  ASSUME Bounds, IInv
  PROVE  \A s : ThisMonth(s) \in Int
<1> SUFFICES ASSUME NEW s PROVE ThisMonth(s) \in Int
  OBVIOUS
<1>1. IsFiniteSet({r \in Refs : ReferrerOf[r] = s /\ ref[r].status \in {"credited", "reversed"}})
  BY FS_Subset DEF Bounds
<1>. QED BY <1>1, FS_CardinalityType DEF ThisMonth

LEMMA NoJobIsAJob == Bounds => NoJob \in JobSet /\ NoJob.pc = "idle" /\ NoJob.op = "none"
BY DEF Bounds, NoJob, JobSet, Statuses, Nothing

LEMMA InitEstablishes == Bounds /\ Init => IInv
<1> SUFFICES ASSUME Bounds, Init PROVE IInv
  OBVIOUS
<1>1. NewRef \in RefSet /\ NewRef.status = "joined" /\ NewRef.reward = Nothing /\ NewRef.reversedCents = 0
  BY DEF NewRef, RefSet, Statuses, Nothing
<1>2. Types
  BY <1>1, NoJobIsAJob DEF Init, Types
<1>3. \A r \in Refs : ref[r] = NewRef
  BY DEF Init
<1>4. \A r, side, kind : Given(r, side, kind) = 0
  <2> SUFFICES ASSUME NEW r, NEW side, NEW kind PROVE Given(r, side, kind) = 0
    OBVIOUS
  <2>1. {y \in ledger : y.ref = r /\ y.side = side /\ y.kind = kind} = {}
    BY DEF Init
  <2>. QED BY <2>1, SumOfRows DEF Given
<1>5. \A r \in Refs : Told(r)
  BY <1>1, <1>3, <1>4 DEF Told, Init, Nothing
<1>6. CapHolds
  <2>1. \A s : {r \in Refs : ReferrerOf[r] = s /\ ref[r].status \in {"credited", "reversed"}} = {}
    BY <1>1, <1>3
  <2>2. \A s : ThisMonth(s) = 0
    BY <2>1, FS_EmptySet DEF ThisMonth
  <2>. QED BY <2>2 DEF CapHolds, Bounds
<1>7. \A j \in Jobs : Planned(j) /\ Guarded(j) /\ Counted(j)
  <2>1. \A j \in Jobs : job[j].pc = "idle" /\ job[j].op = "none"
    BY NoJobIsAJob DEF Init
  <2>. QED BY <2>1 DEF Planned, Guarded, Counted, Deep, Done
<1>. QED BY <1>2, <1>5, <1>6, <1>7 DEF IInv, OneRowEach, Init

\* A step of one transaction that writes no row.
LEMMA StepKeeps ==
  ASSUME Bounds, IInv, NEW j \in Jobs,
         UNCHANGED <<ref, ledger, balance>>, program' \in Programs,
         job' \in [Jobs -> JobSet], \A k \in Jobs \ {j} : job'[k] = job[k],
         \A i, k \in Jobs : \A w : <<w, i>> \in held' /\ <<w, k>> \in held' => i = k,
         \A k \in Jobs \ {j} : \A w : <<w, k>> \in held => <<w, k>> \in held',
         Planned(j)' /\ Guarded(j)' /\ Counted(j)'
  PROVE  IInv'
<1>1. Types' /\ OneRowEach'
  BY DEF IInv, Types, OneRowEach
<1>2. \A s : ThisMonth(s)' = ThisMonth(s)
  BY DEF ThisMonth
<1>3. CapHolds'
  BY <1>2 DEF IInv, CapHolds
<1>4. \A r \in Refs : Told(r)'
  <2>1. \A r \in Refs : Told(r)
    BY DEF IInv
  <2>. QED BY <2>1 DEF Told, Given
<1>5. ASSUME NEW k \in Jobs PROVE Planned(k)' /\ Guarded(k)' /\ Counted(k)'
  <2>1. CASE k = j
    BY <2>1
  <2>2. CASE k # j
    <3>1. \A s : ThisMonth(s) \in Int /\ ThisMonth(s)' \in Int
      BY <1>2, MonthsAreCounted
    <3>2. balance' \in [Wallets -> Nat] /\ MonthlyCap \in Int
      BY DEF IInv, Types, Bounds
    <3>. QED BY <1>2, <2>2, <3>1, <3>2, BystanderKeeps
  <2>. QED BY <2>1, <2>2
<1>. QED BY <1>1, <1>3, <1>4, <1>5 DEF IInv

LEMMA EndKeeps ==
  ASSUME Bounds, IInv, NEW j \in Jobs, End(j), UNCHANGED <<ref, ledger, balance>>,
         program' \in Programs
  PROVE  IInv'
<1>1. job' = [job EXCEPT ![j] = NoJob] /\ Release(j) /\ Types
  BY DEF End, IInv
<1>2. /\ job' \in [Jobs -> JobSet] /\ \A k \in Jobs \ {j} : job'[k] = job[k]
      /\ job'[j].pc = "idle" /\ job'[j].op = "none"
  BY <1>1, NoJobIsAJob DEF Types
<1>3. Planned(j)' /\ Guarded(j)' /\ Counted(j)'
  BY <1>2 DEF Planned, Guarded, Counted, Deep, Done
<1>. QED BY <1>1, <1>2, <1>3, ReleaseLocks, StepKeeps

LEMMA BeginKeeps ==
  ASSUME Bounds, IInv, NEW j \in Jobs, NEW r \in Refs, NEW op, NEW pc,
         Begin(j, op, r, pc),
         \/ op = "reward" /\ pc = "advisory" /\ ref[r].status = "joined"
         \/ op = "reverse" /\ pc = "move" /\ ref[r].status = "credited"
         \/ op = "void" /\ pc = "move" /\ ref[r].status \in {"joined", "blocked", "credited"}
  PROVE  IInv'
<1>1. /\ job' = [job EXCEPT ![j] = [NoJob EXCEPT !.pc = pc, !.op = op, !.ref = r,
                                                  !.from = ref[r].status]]
      /\ UNCHANGED <<ref, ledger, balance, program, held>> /\ Types
  BY DEF Begin, IInv
<1>2. NoJob \in JobSet /\ ref[r].status \in Statuses
  BY <1>1, NoJobIsAJob DEF Types, RefSet
<1>3. /\ job' \in [Jobs -> JobSet] /\ \A k \in Jobs \ {j} : job'[k] = job[k]
      /\ job'[j].pc = pc /\ job'[j].op = op /\ job'[j].from = ref[r].status
  BY <1>1, <1>2 DEF Types, JobSet
<1>4. Planned(j)' /\ Guarded(j)' /\ Counted(j)'
  BY <1>3 DEF Planned, Guarded, Counted, Deep, Done
<1>. QED BY <1>1, <1>3, <1>4, StepKeeps DEF Types

LEMMA AdvisoryKeeps ==
  ASSUME Bounds, IInv, NEW j \in Jobs, Advisory(j)
  PROVE  IInv'
<1>1. /\ job[j].pc = "advisory" /\ Take(<<"referrer", ReferrerOf[job[j].ref]>>, j)
      /\ job' = [job EXCEPT ![j].pc = "decide"]
      /\ UNCHANGED <<ref, ledger, balance, program>> /\ Types /\ Planned(j)
  BY DEF Advisory, IInv
<1>2. /\ job' \in [Jobs -> JobSet] /\ \A k \in Jobs \ {j} : job'[k] = job[k]
      /\ job'[j] = [job[j] EXCEPT !.pc = "decide"] /\ job[j] \in JobSet
  BY <1>1 DEF Types, JobSet
<1>3. job'[j].pc = "decide" /\ job'[j].op = job[j].op /\ job'[j].from = job[j].from
      /\ job'[j].ref = job[j].ref
  BY <1>2 DEF JobSet
<1>4. <<<<"referrer", ReferrerOf[job[j].ref]>>, j>> \in held' /\ held \subseteq held'
  BY <1>1, TakeLocks
<1>5. Planned(j)' /\ Guarded(j)' /\ Counted(j)'
  BY <1>1, <1>3, <1>4 DEF Planned, Guarded, Counted, Deep, Done
<1>. QED BY <1>1, <1>2, <1>4, <1>5, TakeLocks, StepKeeps DEF Types

LEMMA DecideKeeps ==
  ASSUME Bounds, IInv, NEW j \in Jobs, Decide(j)
  PROVE  IInv'
<1>1. /\ job[j].pc = "decide" /\ UNCHANGED <<ref, ledger, balance, program>>
      /\ Types /\ Planned(j) /\ Counted(j)
  BY DEF Decide, IInv
<1>2. CASE End(j)
  BY <1>1, <1>2, EndKeeps DEF Types
<1>3. CASE ~End(j)
  <2> DEFINE s == ReferrerOf[job[j].ref]
  <2>1. /\ UNCHANGED held
        /\ \E to \in {"blocked", "credited"}, cents \in {Nothing, [side \in Side |-> program[side]]} :
             /\ job' = [job EXCEPT ![j].pc = "move", ![j].to = to, ![j].cents = cents]
             /\ to = "blocked" => cents = Nothing
             /\ to = "credited" => ~(ThisMonth(s) >= MonthlyCap)
    BY <1>1, <1>3 DEF Decide
  <2>2. PICK to \in {"blocked", "credited"}, cents \in {Nothing, [side \in Side |-> program[side]]} :
             /\ job' = [job EXCEPT ![j].pc = "move", ![j].to = to, ![j].cents = cents]
             /\ to = "blocked" => cents = Nothing
             /\ to = "credited" => ~(ThisMonth(s) >= MonthlyCap)
    BY <2>1
  <2>3. cents \in [Side -> Nat] /\ job[j] \in JobSet
    BY <1>1 DEF Nothing, Bounds, Types
  <2>4. /\ job' \in [Jobs -> JobSet] /\ \A k \in Jobs \ {j} : job'[k] = job[k]
        /\ job'[j].pc = "move" /\ job'[j].to = to /\ job'[j].cents = cents
        /\ job'[j].op = job[j].op /\ job'[j].from = job[j].from /\ job'[j].ref = job[j].ref
    BY <1>1, <2>2, <2>3 DEF Types, JobSet, Statuses
  <2>5. \A x : ThisMonth(x)' = ThisMonth(x)
    BY <1>1 DEF ThisMonth
  <2>6. to = "credited" => ThisMonth(s) < MonthlyCap
    BY <2>2, MonthsAreCounted DEF Bounds
  <2>7. Planned(j)' /\ Guarded(j)'
    BY <1>1, <2>2, <2>4 DEF Planned, Guarded, Deep, Done
  <2>8. Counted(j)'
    BY <1>1, <2>1, <2>4, <2>5, <2>6 DEF Counted, Deep
  <2>. QED BY <1>1, <2>1, <2>4, <2>7, <2>8, StepKeeps DEF Types
<1>. QED BY <1>2, <1>3

LEMMA MoveKeeps ==
  ASSUME Bounds, IInv, NEW j \in Jobs, Move(j)
  PROVE  IInv'
<1> DEFINE r == job[j].ref
<1>1. /\ job[j].pc = "move" /\ UNCHANGED <<ref, ledger, balance, program>>
      /\ Types /\ Planned(j) /\ Counted(j) /\ job[j] \in JobSet /\ r \in Refs /\ ref[r] \in RefSet
  BY DEF Move, IInv, Types, JobSet
<1>2. CASE ref[r].status # job[j].from
  BY <1>1, <1>2, EndKeeps DEF Move, Types
<1>3. CASE ref[r].status = job[j].from
  <2>1. /\ Take(<<"referral", r>>, j)
        /\ job' = [job EXCEPT ![j].pc = "referrer", ![j].to = Target(j), ![j].cents = AtStake(j)]
    BY <1>1, <1>3 DEF Move
  <2>2. Target(j) \in Statuses /\ AtStake(j) \in [Side -> Nat]
    BY <1>1 DEF Target, AtStake, JobSet, Statuses, RefSet, Nothing
  <2>3. /\ job' \in [Jobs -> JobSet] /\ \A k \in Jobs \ {j} : job'[k] = job[k]
        /\ job'[j].pc = "referrer" /\ job'[j].to = Target(j) /\ job'[j].cents = AtStake(j)
        /\ job'[j].op = job[j].op /\ job'[j].from = job[j].from /\ job'[j].ref = r
    BY <1>1, <2>1, <2>2 DEF Types, JobSet, Side
  <2>4. <<<<"referral", r>>, j>> \in held' /\ held \subseteq held'
    BY <1>1, <2>1, TakeLocks
  <2>5. Planned(j)'
    BY <1>1, <2>3 DEF Planned, Deep, Target, AtStake
  <2>6. Guarded(j)'
    <3>1. \A side \in Side : ~Done(j, side)'
      BY <2>3 DEF Done
    <3>2. job[j].op # "reward" => \A side \in Side : AtStake(j)[side] = Stake(j, side)'
      BY <1>1, <2>3 DEF AtStake, Stake, Nothing
    <3>. QED BY <1>1, <1>3, <2>3, <2>4, <3>1, <3>2 DEF Guarded
  <2>7. Counted(j)'
    <3>1. \A x : ThisMonth(x)' = ThisMonth(x)
      BY <1>1 DEF ThisMonth
    <3>. QED BY <1>1, <2>3, <2>4, <3>1 DEF Counted, Deep, Target
  <2>. QED BY <1>1, <2>1, <2>3, <2>4, <2>5, <2>6, <2>7, TakeLocks, StepKeeps DEF Types
<1>. QED BY <1>2, <1>3

LEMMA OwnersApart ==
  ASSUME Bounds, NEW r \in Refs
  PROVE  /\ Owner(r, "referrer") # Owner(r, "friend")
         /\ \A side \in Side : Owner(r, side) \in Wallets
BY DEF Bounds, Owner, Wallets, Side

LEMMA LockWalletKeeps ==
  ASSUME Bounds, IInv, NEW j \in Jobs, LockWallet(j)
  PROVE  IInv'
<1> DEFINE r == job[j].ref
           here == job[j].pc
           w == Owner(r, here)
           left == IF job[j].op = "reward" THEN job[j].cents[here]
                   ELSE Least(job[j].cents[here], balance[w])
<1>1. /\ here \in Side /\ UNCHANGED <<ref, ledger, balance, program>>
      /\ Types /\ Planned(j) /\ Guarded(j) /\ Counted(j)
      /\ job[j] \in JobSet /\ r \in Refs /\ ref[r] \in RefSet
      /\ IF job[j].cents[here] = 0 THEN UNCHANGED held ELSE Take(<<"wallet", w>>, j)
      /\ job' = [job EXCEPT ![j].pc = IF here = "referrer" THEN "friend" ELSE "commit",
                            ![j].cents[here] = left]
  BY DEF LockWallet, IInv, Types, JobSet
<1>2. w \in Wallets /\ balance[w] \in Nat /\ left \in Nat
  BY <1>1, OwnersApart DEF Types, Least, JobSet
<1>3. /\ job' \in [Jobs -> JobSet] /\ \A k \in Jobs \ {j} : job'[k] = job[k]
      /\ job'[j].pc = (IF here = "referrer" THEN "friend" ELSE "commit")
      /\ job'[j].cents = [job[j].cents EXCEPT ![here] = left]
      /\ job'[j].op = job[j].op /\ job'[j].from = job[j].from /\ job'[j].ref = r
      /\ job'[j].to = job[j].to
  <2> HIDE DEF left
  <2>. QED BY <1>1, <1>2 DEF Types, JobSet, Side
<1>4. /\ held \subseteq held'
      /\ job[j].cents[here] # 0 => <<<<"wallet", w>>, j>> \in held'
      /\ \A i, k \in Jobs : \A x : <<x, i>> \in held' /\ <<x, k>> \in held' => i = k
  BY <1>1, TakeLocks DEF Types
<1>5. \A side \in Side : /\ Done(j, side)' <=> Done(j, side) \/ side = here
                         /\ ~Done(j, here)
  BY <1>1, <1>3 DEF Done, Side
<1>6. Deep(j) /\ Deep(j)'
  BY <1>1, <1>3 DEF Deep, Side
<1>7. /\ job'[j].cents[here] = left
      /\ \A side \in Side \ {here} : job'[j].cents[side] = job[j].cents[side]
  <2> HIDE DEF left
  <2>. QED BY <1>1, <1>3 DEF JobSet, Side
<1>8. \A side \in Side : Stake(j, side)' = Stake(j, side)
  BY <1>1, <1>3, <1>7 DEF Stake
<1>9. Planned(j)'
  <2>1. job[j].cents = Nothing /\ job[j].op = "reward" => job'[j].cents = Nothing
    BY <1>1, <1>3 DEF Nothing, Side, JobSet
  <2>. QED BY <1>1, <1>3, <1>6, <2>1 DEF Planned, Side
<1>10. job[j].cents[here] = Stake(j, here)
  BY <1>1, <1>5, <1>6 DEF Guarded, Stake
<1>11. Guarded(j)'
  <2>1. <<<<"referral", r>>, j>> \in held' /\ ref'[r].status = job'[j].from
    BY <1>1, <1>3, <1>4, <1>6 DEF Guarded
  <2>2. ASSUME NEW side \in Side
        PROVE  /\ Done(j, side)' /\ Stake(j, side)' > 0 => <<<<"wallet", Owner(r, side)>>, j>> \in held'
               /\ job[j].op # "reward" =>
                    job'[j].cents[side] =
                      IF Done(j, side)' THEN Least(Stake(j, side)', balance[Owner(r, side)])
                      ELSE Stake(j, side)'
    <3>1. CASE side = here
      BY <1>2, <1>4, <1>5, <1>7, <1>8, <1>10, <3>1
    <3>2. CASE side # here
      BY <1>1, <1>4, <1>5, <1>6, <1>7, <1>8, <3>2 DEF Guarded
    <3>. QED BY <3>1, <3>2
  <2> HIDE DEF left
  <2>. QED BY <1>1, <1>3, <2>1, <2>2 DEF Guarded
<1>12. Counted(j)'
  <2>1. \A x : ThisMonth(x)' = ThisMonth(x)
    BY <1>1 DEF ThisMonth
  <2>. QED BY <1>1, <1>3, <1>4, <1>6, <2>1 DEF Counted
<1>. QED BY <1>1, <1>3, <1>4, <1>9, <1>11, <1>12, StepKeeps DEF Types

-----------------------------------------------------------------------------
\* What a commit that does not roll back writes.
Written(j) ==
  LET r == job[j].ref
      cents == job[j].cents
      sign == IF job[j].op = "reward" THEN 1 ELSE -1
  IN /\ ref' = [ref EXCEPT ![r] =
                  [status |-> job[j].to,
                   reward |-> IF job[j].op = "reward" THEN cents ELSE @.reward,
                   reversedCents |-> ReversedCents(j)]]
     /\ ledger' = ledger \cup Rows(j)
     /\ balance' = [w \in Wallets |-> balance[w] +
          sign * SumSet({x.cents : x \in {y \in Rows(j) : Owner(r, y.side) = w}})]

LEMMA RowsOfJob ==
  ASSUME Bounds, Types, NEW j \in Jobs
  PROVE  /\ Rows(j) \in SUBSET RowSet
         /\ \A x \in Rows(j) : /\ x.ref = job[j].ref /\ x.cents = job[j].cents[x.side] /\ x.cents > 0
                               /\ x.kind = IF job[j].op = "reward" THEN "reward" ELSE "reversal"
         /\ \A side \in Side : job[j].cents[side] > 0 => \E x \in Rows(j) : x.side = side
         /\ \A x, y \in Rows(j) : x.side = y.side => x = y
<1> DEFINE Row(side) == [ref |-> job[j].ref, side |-> side, cents |-> job[j].cents[side],
                         kind |-> IF job[j].op = "reward" THEN "reward" ELSE "reversal"]
<1>1. job[j].ref \in Refs /\ \A side \in Side : job[j].cents[side] \in Nat
  BY DEF Types, JobSet
<1>2. Rows(j) = {Row(side) : side \in {x \in Side : job[j].cents[x] > 0}}
  BY DEF Rows
<1>3. \A side \in Side : job[j].cents[side] > 0 => Row(side) \in RowSet
  BY <1>1 DEF RowSet
<1>4. \A side \in Side :
        /\ Row(side).ref = job[j].ref /\ Row(side).side = side /\ Row(side).cents = job[j].cents[side]
        /\ Row(side).kind = IF job[j].op = "reward" THEN "reward" ELSE "reversal"
  OBVIOUS
<1> HIDE DEF Row
<1>5. \A x \in Rows(j) : \E side \in Side : job[j].cents[side] > 0 /\ x = Row(side)
  BY <1>2
<1>6. \A side \in Side : job[j].cents[side] > 0 => Row(side) \in Rows(j)
  BY <1>2
<1>. QED BY <1>3, <1>4, <1>5, <1>6

\* Each wallet moves by the amount of its side, and the others do not.
LEMMA BalancesWritten ==
  ASSUME Bounds, Types, NEW j \in Jobs, Written(j)
  PROVE  LET r == job[j].ref
             sign == IF job[j].op = "reward" THEN 1 ELSE -1
         IN  /\ \A side \in Side :
                  balance'[Owner(r, side)] = balance[Owner(r, side)] + sign * job[j].cents[side]
             /\ \A w \in Wallets : (\A side \in Side : w # Owner(r, side) \/ job[j].cents[side] = 0)
                  => balance'[w] = balance[w]
<1> DEFINE r == job[j].ref
           sign == IF job[j].op = "reward" THEN 1 ELSE -1
           At(w) == {y \in Rows(j) : Owner(r, y.side) = w}
<1>1. job[j] \in JobSet /\ r \in Refs /\ balance \in [Wallets -> Nat]
  BY DEF Types, JobSet
<1>2. \A w \in Wallets : balance'[w] = balance[w] + sign * SumSet({x.cents : x \in At(w)})
  BY DEF Written
<1>3. ASSUME NEW side \in Side
      PROVE  SumSet({x.cents : x \in At(Owner(r, side))}) = job[j].cents[side]
  <2>1. \A x \in Rows(j) : Owner(r, x.side) = Owner(r, side) => x.side = side
    BY <1>1, OwnersApart, RowsOfJob DEF Side, RowSet
  <2>2. \A x \in At(Owner(r, side)) : x.cents = job[j].cents[side] /\ x.cents > 0
    BY <2>1, RowsOfJob
  <2>3. job[j].cents[side] > 0 => At(Owner(r, side)) # {}
    BY RowsOfJob
  <2>4. job[j].cents[side] \in Nat
    BY <1>1 DEF JobSet
  <2> HIDE DEF At
  <2>. QED BY <2>2, <2>3, <2>4, SumOfRows
<1>4. ASSUME NEW w \in Wallets, \A side \in Side : w # Owner(r, side) \/ job[j].cents[side] = 0
      PROVE  SumSet({x.cents : x \in At(w)}) = 0
  <2>1. At(w) = {}
    BY <1>4, RowsOfJob DEF RowSet
  <2>. QED BY <2>1, SumOfRows
<1> HIDE DEF At
<1>5. \A side \in Side : Owner(r, side) \in Wallets /\ job[j].cents[side] \in Nat
  BY <1>1, OwnersApart DEF JobSet
<1>6. ASSUME NEW side \in Side
      PROVE  balance'[Owner(r, side)] = balance[Owner(r, side)] + sign * job[j].cents[side]
  BY <1>2, <1>3, <1>5
<1>7. ASSUME NEW w \in Wallets, \A side \in Side : w # Owner(r, side) \/ job[j].cents[side] = 0
      PROVE  balance'[w] = balance[w]
  <2>1. balance'[w] = balance[w] + sign * 0 /\ balance[w] \in Nat
    BY <1>1, <1>2, <1>4, <1>7
  <2>. QED BY <2>1
<1>. QED BY <1>6, <1>7

\* What a transaction knows when it commits: that it takes back no more than was
\* given and no more than the wallet holds, and that it has locked what it writes.
LEMMA CommitKnows ==
  ASSUME Bounds, IInv, NEW j \in Jobs, job[j].pc = "commit"
  PROVE  LET r == job[j].ref
             cents == job[j].cents
         IN  /\ r \in Refs /\ job[j] \in JobSet /\ ref[r] \in RefSet /\ Deep(j)
             /\ ref[r].status = job[j].from
             /\ \A side \in Side : cents[side] \in Nat
             /\ <<<<"referral", r>>, j>> \in held
             /\ \A side \in Side :
                  cents[side] > 0 => <<<<"wallet", Owner(r, side)>>, j>> \in held
             /\ \/ /\ job[j].op = "reward" /\ ref[r].status = "joined"
                   /\ job[j].to = "credited" \/ (job[j].to = "blocked" /\ cents = Nothing)
                \/ /\ job[j].op # "reward" /\ job[j].to \in {"reversed", "voided"}
                   /\ ref[r].status \in {"joined", "blocked", "credited"}
                   /\ \A side \in Side :
                        /\ cents[side] <= balance[Owner(r, side)]
                        /\ cents[side] <= ref[r].reward[side]
                        /\ ref[r].status = "credited" =>
                             cents[side] = Least(ref[r].reward[side], balance[Owner(r, side)])
<1> DEFINE r == job[j].ref
           cents == job[j].cents
<1>1. /\ job[j] \in JobSet /\ Planned(j) /\ Guarded(j) /\ Deep(j) /\ \A side \in Side : Done(j, side)
      /\ balance \in [Wallets -> Nat]
  BY DEF IInv, Types, Deep, Done
<1>2. r \in Refs /\ ref[r] \in RefSet /\ \A side \in Side : cents[side] \in Nat
  BY <1>1 DEF IInv, Types, JobSet
<1>3. <<<<"referral", r>>, j>> \in held /\ ref[r].status = job[j].from
  BY <1>1 DEF Guarded
<1>4. CASE job[j].op = "reward"
  <2>1. \A side \in Side : Stake(j, side) = cents[side]
    BY <1>4 DEF Stake
  <2>2. ref[r].status = "joined"
    BY <1>1, <1>3, <1>4 DEF Planned
  <2>3. job[j].to = "credited" \/ (job[j].to = "blocked" /\ cents = Nothing)
    BY <1>1, <1>4 DEF Planned
  <2>4. \A side \in Side : cents[side] > 0 => <<<<"wallet", Owner(r, side)>>, j>> \in held
    BY <1>1, <2>1 DEF Guarded
  <2>. QED BY <1>1, <1>2, <1>3, <1>4, <2>2, <2>3, <2>4
<1>5. CASE job[j].op # "reward"
  <2>1. job[j].to \in {"reversed", "voided"} /\ ref[r].status \in {"joined", "blocked", "credited"}
    BY <1>1, <1>3, <1>5 DEF Planned
  <2>2. ASSUME NEW side \in Side
        PROVE  /\ cents[side] = Least(Stake(j, side), balance[Owner(r, side)])
               /\ Stake(j, side) > 0 => <<<<"wallet", Owner(r, side)>>, j>> \in held
    BY <1>1, <1>5 DEF Guarded
  <2>3. ASSUME NEW side \in Side
        PROVE  /\ Stake(j, side) \in Nat /\ Stake(j, side) <= ref[r].reward[side]
               /\ ref[r].status = "credited" => Stake(j, side) = ref[r].reward[side]
    BY <1>2, <1>3, <1>5 DEF Stake, RefSet
  <2>4. \A side \in Side : balance[Owner(r, side)] \in Nat /\ ref[r].reward[side] \in Nat
    BY <1>1, <1>2, OwnersApart DEF RefSet
  <2>5. \A x, y, z \in Nat : x <= z => /\ Least(x, y) <= y /\ Least(x, y) <= z
                                       /\ Least(x, y) > 0 => x > 0
    BY DEF Least
  <2>6. ASSUME NEW side \in Side
        PROVE  /\ cents[side] <= balance[Owner(r, side)] /\ cents[side] <= ref[r].reward[side]
               /\ cents[side] > 0 => Stake(j, side) > 0
               /\ ref[r].status = "credited" =>
                    cents[side] = Least(ref[r].reward[side], balance[Owner(r, side)])
    <3>1. cents[side] = Least(Stake(j, side), balance[Owner(r, side)])
      BY <2>2
    <3>2. /\ Stake(j, side) \in Nat /\ Stake(j, side) <= ref[r].reward[side]
          /\ balance[Owner(r, side)] \in Nat /\ ref[r].reward[side] \in Nat
      BY <2>3, <2>4
    <3>3. ref[r].status = "credited" => Stake(j, side) = ref[r].reward[side]
      BY <2>3
    <3> HIDE DEF cents
    <3>. QED BY <2>5, <3>1, <3>2, <3>3
  <2>. QED BY <1>1, <1>2, <1>3, <1>5, <2>1, <2>2, <2>6
<1>. QED BY <1>4, <1>5

\* The count of a month grows by one at most, and only for the referrer of a
\* reward.
LEMMA MonthStep ==
  ASSUME Bounds, IInv, NEW j \in Jobs, job[j].pc = "commit", Written(j)
  PROVE  \A s : /\ ThisMonth(s) \in Nat /\ ThisMonth(s)' \in Nat
                /\ ThisMonth(s)' <= ThisMonth(s) + 1
                /\ s # ReferrerOf[job[j].ref] \/ job[j].op # "reward" \/ job[j].to # "credited"
                   => ThisMonth(s)' <= ThisMonth(s)
<1> SUFFICES ASSUME NEW s
             PROVE  /\ ThisMonth(s) \in Nat /\ ThisMonth(s)' \in Nat
                    /\ ThisMonth(s)' <= ThisMonth(s) + 1
                    /\ s # ReferrerOf[job[j].ref] \/ job[j].op # "reward" \/ job[j].to # "credited"
                       => ThisMonth(s)' <= ThisMonth(s)
  OBVIOUS
<1> DEFINE r == job[j].ref
           Old == {q \in Refs : ReferrerOf[q] = s /\ ref[q].status \in {"credited", "reversed"}}
           New == {q \in Refs : ReferrerOf[q] = s /\ ref'[q].status \in {"credited", "reversed"}}
<1>1. r \in Refs /\ ref \in [Refs -> RefSet]
  BY CommitKnows DEF IInv, Types
<1>2. ref'[r].status = job[j].to /\ \A q \in Refs \ {r} : ref'[q] = ref[q]
  BY <1>1 DEF Written
<1>3. IsFiniteSet(Old) /\ IsFiniteSet(New)
  BY FS_Subset DEF Bounds
<1>4. New \subseteq Old \cup {r}
  BY <1>2
<1>5. s # ReferrerOf[r] \/ job[j].op # "reward" \/ job[j].to # "credited" => New \subseteq Old
  <2>1. CASE s # ReferrerOf[r]
    BY <1>2, <2>1
  <2>2. CASE job[j].op = "reward" /\ job[j].to # "credited"
    <3>1. ref'[r].status = "blocked"
      BY <1>2, <2>2, CommitKnows
    <3>. QED BY <1>2, <3>1
  <2>3. CASE job[j].op # "reward"
    <3>1. job[j].to = "reversed" => ref[r].status = "credited"
      <4>1. Planned(j) /\ job[j].from = ref[r].status /\ Deep(j)
        BY CommitKnows DEF IInv
      <4>. QED BY <2>3, <4>1 DEF Planned
    <3>2. ref'[r].status \in {"reversed", "voided"}
      BY <1>2, <2>3, CommitKnows
    <3>. QED BY <1>2, <3>1, <3>2
  <2>. QED BY <2>1, <2>2, <2>3
<1>6. ThisMonth(s) = Cardinality(Old) /\ ThisMonth(s)' = Cardinality(New)
  BY DEF ThisMonth
<1>7. Cardinality(Old) \in Nat /\ Cardinality(New) \in Nat
  BY <1>3, FS_CardinalityType
<1> HIDE DEF Old, New
<1>8. /\ IsFiniteSet(Old \cup {r}) /\ Cardinality(Old \cup {r}) \in Nat
      /\ Cardinality(Old \cup {r}) <= Cardinality(Old) + 1
  <2>1. CASE r \in Old
    <3> DEFINE More == Old \cup {r}
    <3>1. More = Old
      BY <2>1
    <3> HIDE DEF More
    <3>2. IsFiniteSet(More) /\ Cardinality(More) \in Nat /\ Cardinality(More) <= Cardinality(Old) + 1
      BY <1>3, <1>7, <3>1
    <3>. QED BY <3>2 DEF More
  <2>2. CASE r \notin Old
    <3>1. Cardinality(Old \cup {r}) = Cardinality(Old) + 1 /\ IsFiniteSet(Old \cup {r})
      BY <1>3, <2>2, FS_AddElement
    <3>. QED BY <1>7, <3>1
  <2>. QED BY <2>1, <2>2
<1>9. Cardinality(New) <= Cardinality(Old \cup {r})
  BY <1>4, <1>8, FS_Subset
<1>10. New \subseteq Old => Cardinality(New) <= Cardinality(Old)
  BY <1>3, FS_Subset
<1>. QED BY <1>5, <1>6, <1>7, <1>8, <1>9, <1>10

LEMMA CommitTypes ==
  ASSUME Bounds, IInv, NEW j \in Jobs, job[j].pc = "commit", Written(j)
  PROVE  ref' \in [Refs -> RefSet] /\ ledger' \in SUBSET RowSet /\ balance' \in [Wallets -> Nat]
<1> DEFINE r == job[j].ref
           cents == job[j].cents
<1>1. Types
  BY DEF IInv
<1>2. ref' \in [Refs -> RefSet]
  <2>1. job[j].to \in Statuses /\ cents \in [Side -> Nat] /\ ref[r].reward \in [Side -> Nat]
    BY CommitKnows DEF JobSet, RefSet
  <2>2. ReversedCents(j) \in Nat
    BY <2>1 DEF ReversedCents, Side
  <2>. QED BY <1>1, <2>1, <2>2 DEF Written, Types, RefSet
<1>3. ledger' \in SUBSET RowSet
  BY <1>1, RowsOfJob DEF Types, Written
<1>4. balance' \in [Wallets -> Nat]
  <2>1. ASSUME NEW w \in Wallets PROVE balance'[w] \in Nat
    <3>1. CASE \A side \in Side : w # Owner(r, side) \/ cents[side] = 0
      BY <1>1, <3>1, BalancesWritten DEF Types
    <3>2. CASE \E side \in Side : w = Owner(r, side)
      <4>1. PICK side \in Side : w = Owner(r, side)
        BY <3>2
      <4>2. balance'[w] = balance[w] + (IF job[j].op = "reward" THEN 1 ELSE -1) * cents[side]
        BY <1>1, <4>1, BalancesWritten
      <4>3. balance[w] \in Nat /\ cents[side] \in Nat
            /\ (job[j].op # "reward" => cents[side] <= balance[w])
        BY <1>1, <4>1, CommitKnows DEF Types
      <4>4. CASE job[j].op = "reward"
        BY <4>2, <4>3, <4>4
      <4>5. CASE job[j].op # "reward"
        <5>1. balance'[w] = balance[w] - cents[side]
          BY <4>2, <4>3, <4>5
        <5>. QED BY <4>3, <4>5, <5>1
      <4>. QED BY <4>4, <4>5
    <3>. QED BY <3>1, <3>2
  <2>. QED BY <2>1 DEF Written
<1>. QED BY <1>2, <1>3, <1>4

\* The ledger tells the referral that the transaction wrote, and the others as
\* before.
LEMMA CommitTells ==
  ASSUME Bounds, IInv, NEW j \in Jobs, job[j].pc = "commit", Written(j), ~Clash(j)
  PROVE  OneRowEach' /\ \A q \in Refs : Told(q)'
<1>0. job[j].ref \in Refs
  BY CommitKnows
<1> SUFFICES ASSUME NEW r \in Refs, r = job[j].ref PROVE OneRowEach' /\ \A q \in Refs : Told(q)'
  BY <1>0
<1> DEFINE cents == job[j].cents
<1>1. /\ Types /\ OneRowEach /\ \A q \in Refs : Told(q)
      /\ ledger \in SUBSET RowSet /\ r \in Refs /\ ref \in [Refs -> RefSet]
      /\ \A side \in Side : cents[side] \in Nat
  BY CommitKnows DEF IInv, Types
<1>2. /\ Rows(j) \in SUBSET RowSet
      /\ \A x \in Rows(j) : /\ x.ref = r /\ x.cents = cents[x.side] /\ x.cents > 0
                            /\ x.kind = IF job[j].op = "reward" THEN "reward" ELSE "reversal"
      /\ \A side \in Side : cents[side] > 0 => \E x \in Rows(j) : x.side = side
      /\ \A x, y \in Rows(j) : x.side = y.side => x = y
  BY <1>1, RowsOfJob
<1>3. /\ ledger' = ledger \cup Rows(j) /\ ledger' \in SUBSET RowSet
      /\ \A q \in Refs \ {r} : ref'[q] = ref[q]
      /\ ref'[r].status = job[j].to /\ ref'[r].reversedCents = ReversedCents(j)
      /\ ref'[r].reward = IF job[j].op = "reward" THEN cents ELSE ref[r].reward
  BY <1>1, CommitTypes DEF Written
<1>4. OneRowEach'
  <2> SUFFICES ASSUME NEW x \in ledger', NEW y \in ledger',
                      x.ref = y.ref, x.side = y.side, x.kind = y.kind
               PROVE  x = y
    BY DEF OneRowEach
  <2>1. CASE x \in ledger /\ y \in ledger
    BY <1>1, <2>1 DEF OneRowEach
  <2>2. CASE x \in Rows(j) /\ y \in Rows(j)
    BY <1>2, <2>2
  <2>3. CASE (x \in ledger /\ y \in Rows(j)) \/ (y \in ledger /\ x \in Rows(j))
    BY <2>3 DEF Clash
  <2>. QED BY <1>3, <2>1, <2>2, <2>3
<1>5. ASSUME NEW q \in Refs, q # r PROVE Told(q)'
  <2>1. \A x : x \in ledger' /\ x.ref = q <=> x \in ledger /\ x.ref = q
    BY <1>2, <1>3, <1>5
  <2>2. \A side, kind : {y \in ledger' : y.ref = q /\ y.side = side /\ y.kind = kind}
                        = {y \in ledger : y.ref = q /\ y.side = side /\ y.kind = kind}
    BY <2>1
  <2>3. \A side, kind : Given(q, side, kind)' = Given(q, side, kind)
    BY <2>2 DEF Given
  <2>4. ref'[q] = ref[q] /\ Told(q)
    BY <1>1, <1>3, <1>5
  <2>5. /\ \A x \in ledger' : x.ref = q /\ x.kind = "reward" => x.cents = ref'[q].reward[x.side]
        /\ \A side \in Side : ref'[q].reward[side] > 0 =>
             \E x \in ledger' : x.ref = q /\ x.side = side /\ x.kind = "reward"
        /\ \A x \in ledger' : x.ref = q /\ x.kind = "reversal" =>
             ref'[q].status \in {"reversed", "voided"} /\ x.cents <= ref'[q].reward[x.side]
    BY <2>1, <2>4 DEF Told
  <2>. QED BY <2>3, <2>4, <2>5 DEF Told
<1>6. \A side, kind :
        /\ (\A x \in ledger' : ~(x.ref = r /\ x.side = side /\ x.kind = kind))
           => Given(r, side, kind)' = 0
        /\ \A x \in ledger' : x.ref = r /\ x.side = side /\ x.kind = kind
           => Given(r, side, kind)' = x.cents
  <2> SUFFICES ASSUME NEW side, NEW kind
               PROVE  /\ (\A x \in ledger' : ~(x.ref = r /\ x.side = side /\ x.kind = kind))
                         => Given(r, side, kind)' = 0
                      /\ \A x \in ledger' : x.ref = r /\ x.side = side /\ x.kind = kind
                         => Given(r, side, kind)' = x.cents
    OBVIOUS
  <2>0. ledger' \in SUBSET RowSet
    BY <1>3
  <2> DEFINE L == ledger'
             M == {y \in L : y.ref = r /\ y.side = side /\ y.kind = kind}
             sum == SumSet({x.cents : x \in M})
  <2>1. Given(r, side, kind)' = sum
    BY DEF Given
  <2>2. \A x, y \in L : x.ref = y.ref /\ x.side = y.side /\ x.kind = y.kind => x = y
    BY <1>4 DEF OneRowEach
  <2>3. L \in SUBSET RowSet
    BY <2>0
  <2>4. \A y : y \in M <=> y \in L /\ y.ref = r /\ y.side = side /\ y.kind = kind
    OBVIOUS
  <2> HIDE DEF M, L
  <2>5. (M = {} => sum = 0) /\ \A y \in M : sum = y.cents
    <3>1. M = {} => SumSet({x.cents : x \in M}) = 0
      BY SumOfRows
    <3>2. ASSUME NEW y \in M PROVE SumSet({x.cents : x \in M}) = y.cents
      <4>1. y.cents \in Int /\ M # {} /\ \A x \in M : x.cents = y.cents
        BY <2>2, <2>3, <2>4, <3>2 DEF RowSet
      <4>. QED BY <4>1, SumOfRows
    <3>. QED BY <3>1, <3>2
  <2> HIDE DEF sum
  <2>. QED BY <2>1, <2>4, <2>5 DEF L
<1>7. Told(r)'
  <2>1. CASE job[j].op = "reward"
    <3>1. /\ ref[r].status = "joined"
          /\ job[j].to = "credited" \/ (job[j].to = "blocked" /\ cents = Nothing)
      BY <2>1, CommitKnows
    <3>2. Told(r) /\ ref[r].reward = Nothing
      BY <1>1, <3>1 DEF Told
    <3>3. \A x \in ledger : x.ref # r
      BY <1>1, <3>1, <3>2 DEF Told, RowSet, Nothing
    <3>4. \A x \in ledger' : x.ref = r => x \in Rows(j) /\ x.kind = "reward"
      BY <1>2, <1>3, <2>1, <3>3
    <3>5. Given(r, "referrer", "reversal")' = 0 /\ Given(r, "friend", "reversal")' = 0
      BY <1>6, <3>4
    <3>6. /\ ref'[r].reward = cents /\ ref'[r].reversedCents = 0
          /\ ref'[r].status \in {"joined", "blocked"} => cents = Nothing
      BY <1>3, <2>1, <3>1 DEF ReversedCents
    <3>7. \A side \in Side : cents[side] > 0 =>
             \E x \in ledger' : x.ref = r /\ x.side = side /\ x.kind = "reward"
      BY <1>2, <1>3, <2>1
    <3>. QED BY <1>2, <3>4, <3>5, <3>6, <3>7 DEF Told
  <2>2. CASE job[j].op # "reward"
    <3>1. /\ job[j].to \in {"reversed", "voided"}
          /\ ref[r].status \in {"joined", "blocked", "credited"}
          /\ \A side \in Side : cents[side] <= ref[r].reward[side]
      BY <2>2, CommitKnows
    <3>2. Told(r)
      BY <1>1
    <3>3. \A x \in ledger : x.ref = r => x.kind = "reward"
      BY <1>1, <3>1, <3>2 DEF Told, RowSet
    <3>4. \A x \in ledger' : x.ref = r => \/ x \in ledger /\ x.kind = "reward"
                                          \/ x \in Rows(j) /\ x.kind = "reversal"
      BY <1>2, <1>3, <2>2, <3>3
    <3>5. \A side \in Side : Given(r, side, "reversal")' = cents[side]
      <4> SUFFICES ASSUME NEW side \in Side PROVE Given(r, side, "reversal")' = cents[side]
        OBVIOUS
      <4>1. CASE cents[side] > 0
        <5>1. PICK x \in Rows(j) : x.side = side
          BY <1>2, <4>1
        <5>2. x \in ledger' /\ x.ref = r /\ x.side = side /\ x.kind = "reversal" /\ x.cents = cents[side]
          BY <1>2, <1>3, <2>2, <5>1
        <5>. QED BY <1>6, <5>2
      <4>2. CASE cents[side] = 0
        <5>1. \A x \in ledger' : ~(x.ref = r /\ x.side = side /\ x.kind = "reversal")
          BY <1>2, <3>4, <4>2
        <5>. QED BY <1>6, <4>2, <5>1
      <4>. QED BY <1>1, <4>1, <4>2
    <3>6. /\ ref'[r].reward = ref[r].reward /\ ref'[r].status \in {"reversed", "voided"}
          /\ ref'[r].reversedCents = cents["referrer"] + cents["friend"]
      BY <1>3, <2>2, <3>1 DEF ReversedCents
    <3>7. \A x \in ledger' : x.ref = r /\ x.kind = "reversal" =>
            x.cents <= ref'[r].reward[x.side]
      BY <1>2, <3>1, <3>4, <3>6 DEF RowSet
    <3>8. /\ \A x \in ledger' : x.ref = r /\ x.kind = "reward" => x.cents = ref'[r].reward[x.side]
          /\ \A side \in Side : ref'[r].reward[side] > 0 =>
               \E x \in ledger' : x.ref = r /\ x.side = side /\ x.kind = "reward"
      BY <1>3, <3>2, <3>4, <3>6 DEF Told
    <3>9. ref'[r].reversedCents = Given(r, "referrer", "reversal")' + Given(r, "friend", "reversal")'
      BY <3>5, <3>6 DEF Side
    <3>. QED BY <3>6, <3>7, <3>8, <3>9 DEF Told
  <2>. QED BY <2>1, <2>2
<1>. QED BY <1>4, <1>5, <1>7

\* The transactions that are still open hold nothing of what this one wrote.
LEMMA CommitSpares ==
  ASSUME Bounds, IInv, NEW j \in Jobs, job[j].pc = "commit", Written(j), End(j),
         NEW k \in Jobs, k # j
  PROVE  Planned(k)' /\ Guarded(k)' /\ Counted(k)'
<1> DEFINE r == job[j].ref
           s == ReferrerOf[job[k].ref]
<1>1. /\ Types /\ Guarded(k) /\ Counted(k) /\ Counted(j) /\ job[k] \in JobSet
      /\ ref \in [Refs -> RefSet] /\ r \in Refs /\ Deep(j)
      /\ \A what : <<what, j>> \in held => <<what, k>> \notin held
  BY CommitKnows DEF IInv, Types
<1>2. job'[k] = job[k] /\ \A w : <<w, k>> \in held => <<w, k>> \in held'
  BY <1>1, ReleaseLocks DEF End, Types
<1>3. balance' \in [Wallets -> Nat]
  BY CommitTypes
<1>4. Deep(k) => ref'[job[k].ref] = ref[job[k].ref]
  <2>1. \A q \in Refs \ {r} : ref'[q] = ref[q]
    BY <1>1 DEF Written
  <2>2. <<<<"referral", r>>, j>> \in held
    BY CommitKnows
  <2>3. Deep(k) => <<<<"referral", job[k].ref>>, k>> \in held
    BY <1>1 DEF Guarded
  <2>4. Deep(k) => job[k].ref # r
    BY <1>1, <2>2, <2>3
  <2>. QED BY <1>1, <2>1, <2>4 DEF JobSet
<1>5. ASSUME NEW w \in Wallets, <<<<"wallet", w>>, k>> \in held PROVE balance'[w] = balance[w]
  <2>1. \A side \in Side : w # Owner(r, side) \/ job[j].cents[side] = 0
    <3> SUFFICES ASSUME NEW side \in Side, job[j].cents[side] # 0 PROVE w # Owner(r, side)
      OBVIOUS
    <3>1. job[j].cents[side] > 0
      BY <1>1 DEF Types, JobSet
    <3>2. <<<<"wallet", Owner(r, side)>>, j>> \in held
      BY <3>1, CommitKnows
    <3>. QED BY <1>1, <1>5, <3>2
  <2>. QED BY <1>1, <2>1, BalancesWritten
<1>6. ASSUME job[k].op = "reward", job[k].pc = "move" \/ Deep(k), job[k].to = "credited"
      PROVE  ThisMonth(s)' <= ThisMonth(s)
  <2>1. <<<<"referrer", s>>, k>> \in held
    BY <1>1, <1>6 DEF Counted
  <2>2. job[j].op = "reward" => <<<<"referrer", ReferrerOf[r]>>, j>> \in held
    BY <1>1 DEF Counted
  <2>3. s # ReferrerOf[r] \/ job[j].op # "reward"
    BY <1>1, <2>1, <2>2
  <2>4. s' = s
    BY <1>2
  <2>. QED BY <2>3, <2>4, MonthStep
<1>7. \A x : ThisMonth(x) \in Int /\ ThisMonth(x)' \in Int
  BY MonthStep
<1>8. MonthlyCap \in Int
  BY DEF Bounds
<1>. QED BY <1>2, <1>3, <1>4, <1>5, <1>6, <1>7, <1>8, BystanderKeeps

LEMMA CommitKeepsCap ==
  ASSUME Bounds, IInv, NEW j \in Jobs, job[j].pc = "commit", Written(j)
  PROVE  CapHolds'
<1> SUFFICES ASSUME NEW q \in Refs PROVE ThisMonth(ReferrerOf[q])' <= MonthlyCap
  BY DEF CapHolds
<1> DEFINE s == ReferrerOf[q]
<1>1. /\ ThisMonth(s) \in Nat /\ ThisMonth(s)' \in Nat /\ ThisMonth(s)' <= ThisMonth(s) + 1
      /\ s # ReferrerOf[job[j].ref] \/ job[j].op # "reward" \/ job[j].to # "credited"
         => ThisMonth(s)' <= ThisMonth(s)
  BY MonthStep
<1>2. ThisMonth(s) <= MonthlyCap /\ MonthlyCap \in Nat
  BY DEF IInv, CapHolds, Bounds
<1>3. s = ReferrerOf[job[j].ref] /\ job[j].op = "reward" /\ job[j].to = "credited"
      => ThisMonth(s) < MonthlyCap
  <2>1. Counted(j) /\ Deep(j)
    BY CommitKnows DEF IInv
  <2>. QED BY <2>1 DEF Counted
<1>. QED BY <1>1, <1>2, <1>3

LEMMA CommitKeeps ==
  ASSUME Bounds, IInv, NEW j \in Jobs, Commit(j)
  PROVE  IInv'
<1>1. job[j].pc = "commit" /\ End(j) /\ UNCHANGED program /\ Types
  BY DEF Commit, IInv
<1>2. CASE Clash(j)
  BY <1>1, <1>2, EndKeeps DEF Commit, Types
<1>3. CASE ~Clash(j)
  <2>1. Written(j)
    BY <1>3 DEF Commit, Written
  <2>2. job' = [job EXCEPT ![j] = NoJob] /\ Release(j)
    BY <1>1 DEF End
  <2>3. job' \in [Jobs -> JobSet] /\ job'[j].pc = "idle" /\ job'[j].op = "none"
    BY <1>1, <2>2, NoJobIsAJob DEF Types
  <2>4. Types'
    BY <1>1, <2>1, <2>2, <2>3, CommitTypes, ReleaseLocks DEF Types
  <2>5. Planned(j)' /\ Guarded(j)' /\ Counted(j)'
    BY <2>3 DEF Planned, Guarded, Counted, Deep, Done
  <2>6. OneRowEach' /\ \A q \in Refs : Told(q)'
    BY <1>1, <1>3, <2>1, CommitTells
  <2>7. \A k \in Jobs \ {j} : Planned(k)' /\ Guarded(k)' /\ Counted(k)'
    BY <1>1, <2>1, CommitSpares
  <2>8. CapHolds'
    BY <1>1, <2>1, CommitKeepsCap
  <2>. QED BY <2>4, <2>5, <2>6, <2>7, <2>8 DEF IInv
<1>. QED BY <1>2, <1>3

\* A step in which no transaction moves, and no wallet that one has locked.
LEMMA OutsideKeeps ==
  ASSUME Bounds, IInv, UNCHANGED <<ref, ledger, held, job>>, program' \in Programs,
         balance' \in [Wallets -> Nat],
         \A w \in Wallets : ~Free(<<"wallet", w>>) => balance'[w] = balance[w]
  PROVE  IInv'
<1>1. Types' /\ OneRowEach'
  BY DEF IInv, Types, OneRowEach
<1>2. \A s : ThisMonth(s)' = ThisMonth(s)
  BY DEF ThisMonth
<1>3. CapHolds'
  BY <1>2 DEF IInv, CapHolds
<1>4. \A r \in Refs : Told(r)'
  <2>1. (\A r \in Refs : Told(r)) /\ ref' = ref /\ ledger' = ledger
    BY DEF IInv
  <2>2. \A r, side, kind : Given(r, side, kind)' = Given(r, side, kind)
    BY <2>1 DEF Given
  <2>. QED BY <2>1, <2>2 DEF Told
<1>5. ASSUME NEW k \in Jobs PROVE Planned(k)' /\ Guarded(k)' /\ Counted(k)'
  <2>1. \A s : ThisMonth(s) \in Int /\ ThisMonth(s)' \in Int
    BY <1>2, MonthsAreCounted
  <2>2. MonthlyCap \in Int
    BY DEF Bounds
  <2>3. \A w \in Wallets : <<<<"wallet", w>>, k>> \in held => balance'[w] = balance[w]
    BY DEF Free
  <2>. QED BY <1>2, <2>1, <2>2, <2>3, BystanderKeeps
<1>. QED BY <1>1, <1>3, <1>4, <1>5 DEF IInv

LEMMA PurchaseKeeps ==
  ASSUME Bounds, IInv, NEW w \in Wallets, Purchase(w)
  PROVE  IInv'
<1>1. PICK cents \in 1..balance[w] : balance' = [balance EXCEPT ![w] = @ - cents]
  BY DEF Purchase
<1>2. balance \in [Wallets -> Nat]
  BY DEF IInv, Types
<1>3. balance[w] - cents \in Nat
  BY <1>1, <1>2
<1>4. balance' \in [Wallets -> Nat] /\ \A x \in Wallets \ {w} : balance'[x] = balance[x]
  BY <1>1, <1>2, <1>3
<1>. QED BY <1>4, OutsideKeeps DEF Purchase, IInv, Types

LEMMA NextKeeps == Bounds /\ IInv /\ [Next]_vars => IInv'
<1> SUFFICES ASSUME Bounds, IInv, [Next]_vars PROVE IInv'
  OBVIOUS
<1>1. ASSUME NEW r \in Refs, NEW j \in Replicas, StartReward(j, r) PROVE IInv'
  BY <1>1, BeginKeeps DEF StartReward, Jobs
<1>2. ASSUME NEW r \in Refs, NEW j \in Replicas, StartReverse(j, r) PROVE IInv'
  BY <1>2, BeginKeeps DEF StartReverse, Jobs
<1>3. ASSUME NEW r \in Refs, NEW j \in Admins, StartVoid(j, r) PROVE IInv'
  BY <1>3, BeginKeeps DEF StartVoid, Jobs
<1>4. ASSUME NEW j \in Jobs, Step(j) PROVE IInv'
  BY <1>4, AdvisoryKeeps, DecideKeeps, MoveKeeps, LockWalletKeeps, CommitKeeps DEF Step
<1>5. ASSUME NEW j \in Jobs, RollBack(j) PROVE IInv'
  BY <1>5, EndKeeps DEF RollBack, IInv, Types
<1>6. ASSUME NEW w \in Wallets, Purchase(w) PROVE IInv'
  BY <1>6, PurchaseKeeps
<1>7. CASE (\E r \in Refs : Pay(r) \/ Refund(r)) \/ UpdateProgram \/ UNCHANGED vars
  BY <1>7, OutsideKeeps DEF Pay, Refund, UpdateProgram, vars, IInv, Types
<1>. QED BY <1>1, <1>2, <1>3, <1>4, <1>5, <1>6, <1>7 DEF Next

THEOREM InvariantAlways == ASSUME Bounds PROVE Safe => []IInv
<1>1. Safe => Init /\ [][Next]_vars
  BY DEF Safe
<1>2. Init => IInv
  BY InitEstablishes
<1>3. IInv /\ [Next]_vars => IInv'
  BY NextKeeps
<1>. QED BY <1>1, <1>2, <1>3, PTL

-----------------------------------------------------------------------------
LEMMA TwoAtMost ==
  ASSUME NEW S, NEW a, NEW b, S \subseteq {a, b} PROVE Cardinality(S) <= 2
<1>1. IsFiniteSet({b}) /\ Cardinality({b}) = 1
  BY FS_Singleton
<1>2. {a, b} = {b} \cup {a}
  OBVIOUS
<1>3. IsFiniteSet({a, b}) /\ Cardinality({a, b}) <= 2 /\ Cardinality({a, b}) \in Nat
  <2>1. CASE a = b
    <3>1. {a, b} = {b}
      BY <2>1
    <3>. QED BY <1>1, <3>1
  <2>2. CASE a # b
    <3>1. a \notin {b}
      BY <2>2
    <3>2. Cardinality({b} \cup {a}) = 1 + 1 /\ IsFiniteSet({b} \cup {a})
      BY <1>1, <3>1, FS_AddElement
    <3>. QED BY <1>2, <3>2
  <2>. QED BY <2>1, <2>2
<1>4. IsFiniteSet(S) /\ Cardinality(S) <= Cardinality({a, b}) /\ Cardinality(S) \in Nat
  BY <1>3, FS_Subset, FS_CardinalityType
<1>. QED BY <1>3, <1>4

LEMMA InvariantTells == IInv => LedgerTellsReferral
<1> SUFFICES ASSUME IInv, NEW r \in Refs
    PROVE /\ \A side \in Side :
               /\ Cardinality({x \in ledger : x.ref = r /\ x.side = side}) <= 2
               /\ Given(r, side, "reward") = ref[r].reward[side]
               /\ Given(r, side, "reversal") <= ref[r].reward[side]
               /\ ref[r].status \in {"joined", "blocked"} => ref[r].reward[side] = 0
               /\ Given(r, side, "reversal") > 0 => ref[r].status \in {"reversed", "voided"}
          /\ ref[r].reversedCents = Given(r, "referrer", "reversal") + Given(r, "friend", "reversal")
  BY DEF LedgerTellsReferral
<1>1. Told(r) /\ OneRowEach /\ ledger \in SUBSET RowSet /\ ref[r] \in RefSet
  BY DEF IInv, Types
<1>2. ASSUME NEW side \in Side
      PROVE  /\ Cardinality({x \in ledger : x.ref = r /\ x.side = side}) <= 2
             /\ Given(r, side, "reward") = ref[r].reward[side]
             /\ Given(r, side, "reversal") <= ref[r].reward[side]
             /\ ref[r].status \in {"joined", "blocked"} => ref[r].reward[side] = 0
             /\ Given(r, side, "reversal") > 0 => ref[r].status \in {"reversed", "voided"}
  <2> DEFINE S == {x \in ledger : x.ref = r /\ x.side = side}
             first == CHOOSE x \in S : x.kind = "reward"
             second == CHOOSE x \in S : x.kind = "reversal"
  <2>1. Cardinality(S) <= 2
    <3>1. ASSUME NEW x \in S PROVE x = first \/ x = second
      <4>1. \A y \in S : y.kind = x.kind => y = x
        BY <1>1 DEF OneRowEach
      <4>2. x.kind = "reward" \/ x.kind = "reversal"
        BY <1>1 DEF RowSet
      <4>. QED BY <4>1, <4>2
    <3> HIDE DEF S, first, second
    <3>2. S \subseteq {first, second}
      BY <3>1
    <3>. QED BY <3>2, TwoAtMost
  <2>2. ref[r].reward[side] \in Nat
    BY <1>1 DEF RefSet
  <2>3. Given(r, side, "reward") = ref[r].reward[side]
    <3>1. CASE ref[r].reward[side] > 0
      <4>1. PICK x \in ledger : x.ref = r /\ x.side = side /\ x.kind = "reward"
        BY <1>1, <3>1 DEF Told
      <4>. QED BY <1>1, <4>1, GivenIsTheRow DEF Told
    <3>2. CASE ref[r].reward[side] = 0
      <4>1. \A x \in ledger : ~(x.ref = r /\ x.side = side /\ x.kind = "reward")
        BY <1>1, <3>2 DEF Told, RowSet
      <4>. QED BY <1>1, <3>2, <4>1, GivenIsTheRow
    <3>. QED BY <2>2, <3>1, <3>2
  <2>4. /\ Given(r, side, "reversal") <= ref[r].reward[side]
        /\ Given(r, side, "reversal") > 0 => ref[r].status \in {"reversed", "voided"}
    <3>1. CASE \E x \in ledger : x.ref = r /\ x.side = side /\ x.kind = "reversal"
      <4>1. PICK x \in ledger : x.ref = r /\ x.side = side /\ x.kind = "reversal"
        BY <3>1
      <4>. QED BY <1>1, <4>1, GivenIsTheRow DEF Told
    <3>2. CASE ~\E x \in ledger : x.ref = r /\ x.side = side /\ x.kind = "reversal"
      <4>1. Given(r, side, "reversal") = 0
        BY <1>1, <3>2, GivenIsTheRow
      <4>. QED BY <2>2, <4>1
    <3>. QED BY <3>1, <3>2
  <2>5. ref[r].status \in {"joined", "blocked"} => ref[r].reward[side] = 0
    BY <1>1 DEF Told, Nothing
  <2>. QED BY <2>1, <2>3, <2>4, <2>5
<1>. QED BY <1>1, <1>2 DEF Told

\* The ledger tells the referral: rewards and reversals of a referral are what
\* the referral records, however the transactions interleave or die.
THEOREM LedgerTellsReferralAlways == ASSUME Bounds PROVE Safe => []LedgerTellsReferral
BY InvariantAlways, InvariantTells, PTL

\* No referrer is rewarded for more friends in a month than the cap.
THEOREM CapHoldsAlways == ASSUME Bounds PROVE Safe => []CapHolds
<1>1. IInv => CapHolds
  BY DEF IInv
<1>. QED BY <1>1, InvariantAlways, PTL

\* Each referral, each wallet and each lock stays what the schema says it is.
THEOREM TypeCorrect == ASSUME Bounds PROVE Safe => []TypeOK
<1>1. IInv => TypeOK
  BY DEF IInv, Types, TypeOK, RefSet, RowSet, Statuses
<1>. QED BY <1>1, InvariantAlways, PTL

\* A referral is written by nothing but the commit of a transaction.
LEMMA OnlyCommitWrites ==
  ASSUME [Next]_vars, ref' # ref
  PROVE  \E j \in Jobs : job[j].pc = "commit" /\ Written(j)
<1>1. PICK j \in Jobs : Commit(j)
  <2>1. ~UNCHANGED vars /\ ~UpdateProgram /\ (\A w \in Wallets : ~Purchase(w))
        /\ (\A r \in Refs : ~Pay(r) /\ ~Refund(r))
    BY DEF vars, UpdateProgram, Purchase, Pay, Refund
  <2>2. \A r \in Refs : \A j : ~StartReward(j, r) /\ ~StartReverse(j, r) /\ ~StartVoid(j, r)
    BY DEF StartReward, StartReverse, StartVoid, Begin
  <2>3. \A j \in Jobs : ~RollBack(j) /\ ~Advisory(j) /\ ~Decide(j) /\ ~Move(j) /\ ~LockWallet(j)
    BY DEF RollBack, Advisory, Decide, Move, LockWallet
  <2>. QED BY <2>1, <2>2, <2>3 DEF Next, Step
<1>2. ~Clash(j)
  BY <1>1 DEF Commit
<1>. QED BY <1>1, <1>2 DEF Commit, Written

LEMMA StepLeavesNothing ==
  ASSUME Bounds, IInv, [Next]_vars, NEW r \in Refs
  PROVE  LeavesNothing(r)
<1> SUFFICES ASSUME ref[r].status = "credited", ref'[r].status # "credited"
    PROVE /\ ref'[r].status \in {"reversed", "voided"}
          /\ \A side \in Side :
               balance[Owner(r, side)] - balance'[Owner(r, side)]
                 = Least(balance[Owner(r, side)], ref[r].reward[side])
  BY DEF LeavesNothing
<1>1. PICK j \in Jobs : job[j].pc = "commit" /\ Written(j)
  BY OnlyCommitWrites
<1>2. Types /\ ref \in [Refs -> RefSet]
  BY DEF IInv, Types
<1>3. job[j].ref = r /\ ref'[r].status = job[j].to
  BY <1>1, <1>2 DEF Written
<1>4. /\ job[j].op # "reward" /\ job[j].to \in {"reversed", "voided"}
      /\ \A side \in Side :
           job[j].cents[side] = Least(ref[r].reward[side], balance[Owner(r, side)])
  BY <1>1, <1>3, CommitKnows
<1>5. ASSUME NEW side \in Side
      PROVE  balance[Owner(r, side)] - balance'[Owner(r, side)]
               = Least(balance[Owner(r, side)], ref[r].reward[side])
  <2>1. balance[Owner(r, side)] \in Nat /\ ref[r].reward[side] \in Nat /\ job[j].cents[side] \in Nat
    BY <1>2, OwnersApart DEF Types, RefSet, JobSet
  <2>2. balance'[Owner(r, side)] = balance[Owner(r, side)] + (-1) * job[j].cents[side]
    BY <1>1, <1>2, <1>3, <1>4, BalancesWritten
  <2>3. job[j].cents[side] = Least(ref[r].reward[side], balance[Owner(r, side)])
    BY <1>4
  <2>. QED BY <2>1, <2>2, <2>3 DEF Least
<1>. QED BY <1>3, <1>4, <1>5

\* A referral leaves credited with its rewards: each side gives back its reward,
\* or all its wallet holds at that very step.
THEOREM ReversalLeavesNothingAlways == ASSUME Bounds PROVE Safe => ReversalLeavesNothing
<1>1. IInv /\ [Next]_vars => [\A r \in Refs : LeavesNothing(r)]_vars
  BY StepLeavesNothing
<1>2. Safe => [][Next]_vars
  BY DEF Safe
<1>. QED BY <1>1, <1>2, InvariantAlways, PTL DEF ReversalLeavesNothing
=====
