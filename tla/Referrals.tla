------------------------------ MODULE Referrals ------------------------------
(***************************************************************************)
(* A friend who signed up through a student's link pays for the first      *)
(* time: the sweeper credits both wallets, or blocks the referral.  When   *)
(* that payment is refunded the sweeper takes the rewards back; an admin   *)
(* may void a referral at any time.  The sweepers of several replicas and  *)
(* the admins run their transactions at once (READ COMMITTED), while the   *)
(* students spend from the same wallets.  A transaction's writes are seen  *)
(* when it commits; until then it holds the locks of the rows it wrote.    *)
(*                                                                         *)
(* A friend is named by his referral, of which he has one at most; he has  *)
(* one real payment.  All rewards fall in one month.                       *)
(***************************************************************************)
EXTENDS Integers, FiniteSets, FiniteSetsExt

CONSTANTS
  Refs,        \* referrals, and the friends they brought
  ReferrerOf,  \* [Refs -> students]
  Replicas,    \* processes with a sweeper
  Admins,
  Programs,    \* settings: records [enabled, referrer, friend]
  MonthlyCap,
  MaxChanges,  \* bound: changes of the settings
  MaxRollBacks \* bound: transactions that die

Side == {"referrer", "friend"}
Owner(r, side) == IF side = "referrer" THEN ReferrerOf[r] ELSE r
Wallets == {Owner(r, side) : r \in Refs, side \in Side}
Jobs == Replicas \cup Admins

VARIABLES
  ref,      \* referrals
  ledger,   \* wallet_transactions of kind referral_reward and referral_reversal
  balance,  \* wallets.balance_cents
  pay,      \* the friend's first real payment
  program,  \* referral_program
  held,     \* locks: pairs <<what, job>>
  job,
  budget    \* what is left of each bound

vars == <<ref, ledger, balance, pay, program, held, job, budget>>

Nothing == [side \in Side |-> 0]
NewRef == [status |-> "joined", reward |-> Nothing, reversedCents |-> 0]
NoJob == [pc |-> "idle", op |-> "none", ref |-> CHOOSE r \in Refs : TRUE,
          from |-> "joined", to |-> "joined", cents |-> Nothing]

TypeOK ==
  /\ \A r \in Refs :
       /\ ref[r].status \in {"joined", "credited", "reversed", "blocked", "voided"}
       /\ ref[r].reversedCents \in Nat
  /\ \A w \in Wallets : balance[w] \in Nat
  /\ \A x \in ledger : x.kind \in {"reward", "reversal"} /\ x.cents \in Nat \ {0}
  /\ program \in Programs
  /\ \A j, k \in Jobs : \A x \in held : <<x[1], j>> \in held /\ <<x[1], k>> \in held => j = k

-----------------------------------------------------------------------------
Free(what) == \A j \in Jobs : <<what, j>> \notin held
Take(what, j) == Free(what) /\ held' = held \cup {<<what, j>>}
Release(j) == held' = {x \in held : x[2] # j}
End(j) == Release(j) /\ job' = [job EXCEPT ![j] = NoJob]

Init ==
  /\ ref = [r \in Refs |-> NewRef]
  /\ ledger = {} /\ balance = [w \in Wallets |-> 0]
  /\ pay = [r \in Refs |-> "none"]
  /\ program \in Programs
  /\ held = {} /\ job = [j \in Jobs |-> NoJob]
  /\ budget = [changes |-> MaxChanges, rollbacks |-> MaxRollBacks]

Begin(j, op, r, pc) ==
  /\ job[j].pc = "idle"
  /\ job' = [job EXCEPT ![j] = [NoJob EXCEPT !.pc = pc, !.op = op, !.ref = r,
                                             !.from = ref[r].status]]
  /\ UNCHANGED <<ref, ledger, balance, pay, program, held, budget>>

StartReward(j, r) ==
  /\ ref[r].status = "joined" /\ pay[r] = "paid"
  /\ Begin(j, "reward", r, "advisory")

\* Mutant: the reversals stop with the program.
StartReverseEnabled(j, r) ==
  /\ ref[r].status = "credited" /\ pay[r] = "refunded" /\ program.enabled
  /\ Begin(j, "reverse", r, "move")

StartReverse(j, r) ==
  /\ ref[r].status = "credited" /\ pay[r] = "refunded"
  /\ Begin(j, "reverse", r, "move")

StartVoid(j, r) ==
  /\ ref[r].status \in {"joined", "blocked", "credited"}
  /\ Begin(j, "void", r, "move")

\* Mutant: they do not.
AdvisoryUnlocked(j) ==
  /\ job[j].pc = "advisory"
  /\ job' = [job EXCEPT ![j].pc = "decide"]
  /\ UNCHANGED <<ref, ledger, balance, pay, program, held, budget>>

\* One referrer's rewards serialise.
Advisory(j) ==
  /\ job[j].pc = "advisory"
  /\ Take(<<"referrer", ReferrerOf[job[j].ref]>>, j)
  /\ job' = [job EXCEPT ![j].pc = "decide"]
  /\ UNCHANGED <<ref, ledger, balance, pay, program, budget>>

ThisMonth(s) ==
  Cardinality({r \in Refs : ReferrerOf[r] = s /\ ref[r].status \in {"credited", "reversed"}})

\* Mutant: what looks like abuse is left as it is.
DecideSilently(j) ==
  /\ job[j].pc = "decide"
  /\ IF ~program.enabled \/ pay[job[j].ref] # "paid" THEN End(j)
     ELSE \/ End(j)
          \/ /\ job' = [job EXCEPT ![j].pc = "move", ![j].to = "credited",
                                   ![j].cents = [side \in Side |-> program[side]]]
             /\ UNCHANGED held
  /\ UNCHANGED <<ref, ledger, balance, pay, program, budget>>

\* The settings, the payment, the people and the month's count, as committed.
Decide(j) ==
  LET r == job[j].ref
      Plan(to, cents) ==
        job' = [job EXCEPT ![j].pc = "move", ![j].to = to, ![j].cents = cents]
  IN /\ job[j].pc = "decide"
     /\ IF ~program.enabled \/ pay[r] # "paid" THEN End(j)
        ELSE /\ \E abuse \in BOOLEAN :
                  IF abuse \/ ThisMonth(ReferrerOf[r]) >= MonthlyCap
                  THEN Plan("blocked", Nothing)
                  ELSE Plan("credited", [side \in Side |-> program[side]])
             /\ UNCHANGED held
     /\ UNCHANGED <<ref, ledger, balance, pay, program, budget>>

Target(j) ==
  CASE job[j].op = "reward" -> job[j].to
    [] job[j].op = "reverse" -> "reversed"
    [] OTHER -> "voided"

\* The rewards at stake: those to give, or those once given.
AtStake(j) ==
  CASE job[j].op = "reward" -> job[j].cents
    [] job[j].from = "credited" -> ref[job[j].ref].reward
    [] OTHER -> Nothing

\* The conditional UPDATE: it waits for the row and looks at the status again.
Move(j) ==
  LET r == job[j].ref
  IN /\ job[j].pc = "move" /\ Free(<<"referral", r>>)
     /\ IF ref[r].status = job[j].from
        THEN /\ Take(<<"referral", r>>, j)
             /\ job' = [job EXCEPT ![j].pc = "referrer", ![j].to = Target(j),
                                   ![j].cents = AtStake(j)]
        ELSE End(j)
     /\ UNCHANGED <<ref, ledger, balance, pay, program, budget>>

Least(x, y) == IF x < y THEN x ELSE y

\* Mutant: the balance is read without FOR UPDATE.
ReadWallet(j) ==
  /\ job[j].pc \in Side
  /\ job' = [job EXCEPT ![j].pc = IF @ = "referrer" THEN "friend" ELSE "commit",
                        ![j].cents[job[j].pc] =
                           IF job[j].op = "reward" THEN @
                           ELSE Least(@, balance[Owner(job[j].ref, job[j].pc)])]
  /\ UNCHANGED <<ref, ledger, balance, pay, program, held, budget>>

\* FOR UPDATE of a wallet: a credit of the reward, a debit of what is left of it.
LockWallet(j) ==
  LET side == job[j].pc
      w == Owner(job[j].ref, side)
  IN /\ side \in Side
     /\ IF job[j].cents[side] = 0 THEN UNCHANGED held ELSE Take(<<"wallet", w>>, j)
     /\ job' = [job EXCEPT ![j].pc = IF side = "referrer" THEN "friend" ELSE "commit",
                           ![j].cents[side] =
                              IF job[j].op = "reward" THEN @ ELSE Least(@, balance[w])]
     /\ UNCHANGED <<ref, ledger, balance, pay, program, budget>>

Rows(j) ==
  {[ref |-> job[j].ref, side |-> side, cents |-> job[j].cents[side],
    kind |-> IF job[j].op = "reward" THEN "reward" ELSE "reversal"] :
       side \in {x \in Side : job[j].cents[x] > 0}}

\* UNIQUE (referral_id, user_id, kind): the second row of a kind rolls back.
Clash(j) ==
  \E x \in Rows(j), y \in ledger : x.ref = y.ref /\ x.side = y.side /\ x.kind = y.kind

\* Mutant: what was once given, not what could be taken back.
ReversedInFull(j) ==
  LET given == ref[job[j].ref].reward
  IN IF job[j].op = "reward" THEN 0 ELSE given["referrer"] + given["friend"]

ReversedCents(j) ==
  IF job[j].op = "reward" THEN 0 ELSE job[j].cents["referrer"] + job[j].cents["friend"]

Commit(j) ==
  LET r == job[j].ref
      cents == job[j].cents
      sign == IF job[j].op = "reward" THEN 1 ELSE -1
  IN /\ job[j].pc = "commit"
     /\ IF Clash(j) THEN UNCHANGED <<ref, ledger, balance>>
        ELSE /\ ref' = [ref EXCEPT ![r] =
                          [status |-> job[j].to,
                           reward |-> IF job[j].op = "reward" THEN cents ELSE @.reward,
                           reversedCents |-> ReversedCents(j)]]
             /\ ledger' = ledger \cup Rows(j)
             /\ balance' = [w \in Wallets |-> balance[w] +
                  sign * SumSet({x.cents : x \in {y \in Rows(j) : Owner(r, y.side) = w}})]
     /\ End(j)
     /\ UNCHANGED <<pay, program, budget>>

\* The database or the process dies: the transaction never was.
RollBack(j) ==
  /\ job[j].pc # "idle" /\ budget.rollbacks > 0
  /\ budget' = [budget EXCEPT !.rollbacks = @ - 1]
  /\ End(j)
  /\ UNCHANGED <<ref, ledger, balance, pay, program>>

\* The desk approves the friend's payment, and finance refunds it.
Pay(r) ==
  /\ pay[r] = "none" /\ pay' = [pay EXCEPT ![r] = "paid"]
  /\ UNCHANGED <<ref, ledger, balance, program, held, job, budget>>
Refund(r) ==
  /\ pay[r] = "paid" /\ pay' = [pay EXCEPT ![r] = "refunded"]
  /\ UNCHANGED <<ref, ledger, balance, program, held, job, budget>>

\* A purchase from a wallet, under its lock.
Purchase(w) ==
  /\ Free(<<"wallet", w>>)
  /\ \E cents \in 1..balance[w] : balance' = [balance EXCEPT ![w] = @ - cents]
  /\ UNCHANGED <<ref, ledger, pay, program, held, job, budget>>

UpdateProgram ==
  /\ budget.changes > 0 /\ budget' = [budget EXCEPT !.changes = @ - 1]
  /\ program' \in Programs \ {program}
  /\ UNCHANGED <<ref, ledger, balance, pay, held, job>>

Step(j) == Advisory(j) \/ Decide(j) \/ Move(j) \/ LockWallet(j) \/ Commit(j)

Next ==
  \/ \E r \in Refs, j \in Replicas : StartReward(j, r) \/ StartReverse(j, r)
  \/ \E r \in Refs, j \in Admins : StartVoid(j, r)
  \/ \E j \in Jobs : Step(j) \/ RollBack(j)
  \/ \E r \in Refs : Pay(r) \/ Refund(r)
  \/ \E w \in Wallets : Purchase(w)
  \/ UpdateProgram

\* A sweep goes through every candidate each minute, and a transaction that has
\* begun goes on.
Fairness ==
  /\ \A r \in Refs : /\ SF_vars(\E j \in Replicas : StartReward(j, r))
                     /\ SF_vars(\E j \in Replicas : StartReverse(j, r))
  /\ \A j \in Jobs : WF_vars(Step(j))

Spec == Init /\ [][Next]_vars /\ Fairness

-----------------------------------------------------------------------------
Given(r, side, kind) ==
  SumSet({x.cents : x \in {y \in ledger : y.ref = r /\ y.side = side /\ y.kind = kind}})

\* The ledger says what the referral says: a reward is given once per side, of
\* the amounts the referral keeps whatever the settings became, only by a
\* credited referral, and what came back is what reversed_cents adds up.
\* (ReferralsService.reward and takeBack; schema.prisma, Referral.)
LedgerTellsReferral ==
  \A r \in Refs :
    /\ \A side \in Side :
         /\ Cardinality({x \in ledger : x.ref = r /\ x.side = side}) <= 2
         /\ Given(r, side, "reward") = ref[r].reward[side]
         /\ Given(r, side, "reversal") <= ref[r].reward[side]
         /\ ref[r].status \in {"joined", "blocked"} => ref[r].reward[side] = 0
         /\ Given(r, side, "reversal") > 0 => ref[r].status \in {"reversed", "voided"}
    /\ ref[r].reversedCents = Given(r, "referrer", "reversal") + Given(r, "friend", "reversal")

\* No referrer has more rewarded referrals in a month than the cap, however many
\* sweepers reward his friends at once. (reward: "two friends paying in the same
\* second cannot both read 9 this month under a cap of 10".)
CapHolds == \A s \in {ReferrerOf[r] : r \in Refs} : ThisMonth(s) <= MonthlyCap

\* A referral leaves credited with its rewards: each side gives back its reward,
\* or all its wallet holds at that moment, even if it spends meanwhile.
\* (takeBack: "the balance read and the debit see the same number".)
LeavesNothing(r) ==
  ref[r].status = "credited" /\ ref'[r].status # "credited" =>
    /\ ref'[r].status \in {"reversed", "voided"}
    /\ \A side \in Side :
         LET w == Owner(r, side)
         IN balance[w] - balance'[w] = Least(balance[w], ref[r].reward[side])
ReversalLeavesNothing == [][\A r \in Refs : LeavesNothing(r)]_vars

\* A reward whose payment was refunded, even between the sweeper's look at the
\* payment and the commit of the reward, is taken back in the end, whatever the
\* settings. (ReferralSweeper: "reversals first, and regardless of the switches".)
Owed(r) == ref[r].status = "credited" /\ pay[r] = "refunded"
RefundIsFollowed == \A r \in Refs : Owed(r) ~> ~Owed(r)

\* A friend who has paid does not wait for ever: his referral is rewarded,
\* blocked or voided, unless he is refunded or the program is off.
Waits(r) == ref[r].status = "joined" /\ pay[r] = "paid" /\ program.enabled
PaidIsSettled == \A r \in Refs : Waits(r) ~> ~Waits(r)
=============================================================================
