# Verification of the ayman-platform API

The platform sells courses to students. A Next.js front end (`apps/web`) and a
WhatsApp gateway (`services/wa`) stand around one NestJS API (`apps/api`),
which is the only writer of a PostgreSQL database and keeps short-lived state in
Redis. Every request runs some reads, usually one Prisma transaction at
PostgreSQL's default isolation (READ COMMITTED), and answers. Correctness
therefore rests on what a transaction locks, on conditional updates
(`updateMany ... where status = 'pending'`), on unique indexes and CHECKs, and on
what was read *before* the transaction and is believed inside it. That is what
these modules are about: requests interleaved statement by statement.

## 1. Inventory

Paths are relative to `src/apps/api/src/modules/`.

| Component | State | Operations | Correct when |
|---|---|---|---|
| Wallet (`wallet/`) | `wallets.balance_cents` (cached), `wallet_transactions` (append-only ledger), `wallet_topups` | submit, approve, reject a top-up; admin credit and debit; `creditWallet` / `debitWallet` called by purchases, refunds, codes, referrals | balance is the ledger's sum, never negative; every source pays once; a review is final; a retried key answers truthfully |
| Payments desk (`payments/payments.service.ts`) | `payment_submissions`, `access_grants`, `enrollments` | submit, approve, reject, approveFromTransfer, purchaseFromWallet, adminManualSubscribe, cancel | an approval has its grant; nothing is sold twice; money taken opens something |
| Finance (`payments/finance.service.ts`) | grants, `refunds`, wallet | cancel with refund, reinstate, extend | a refund stays within what was paid |
| Coupons (`coupons/coupon-ledger.ts`) | `coupons.redeemed_count`, redemptions | claim, record, release | the count is the number of uses held and stays under its ceiling |
| Transfers (`payments/transfers.service.ts`) | `incoming_transfers`, learned handles | ingest (SMS or notification), settle on a claim or a book order, learn a sender, dismiss | one transfer pays for one thing, once |
| Unlock codes (`unlock-codes/`) | `unlock_codes`, grants, enrollments, wallet rows | create, redeem, revoke, remove | a code delivers once, to the student it names; a pulled code is closed |
| Quiz (`quiz/`) | `quiz_attempts`, `attempt_questions`, question versions | start, resume, save, submit, sweep, reopen, extra time, mark by hand, regrade | answers of the live tab only; marks are those of the answers; totals are those of the marks; nothing stays open for ever |
| Referrals (`referrals/`) | `referrals`, wallet rows | sweep: reward or block, reverse after a refund; void by an admin; settings | a reward once per side, within the monthly cap, followed by its reversal if the payment is refunded, within what the wallets hold |
| Book orders (`book-orders/`, `book-orders/courier/`) | `book_orders` with receipt and hold, courier reports, the claim of a push | order, pay, match to a transfer, read the receipt, print, ship, push to the courier, its webhook, return, reject, delete | a paid order is paid by one transfer, a duplicate is held, a rejection is final, a parcel is pushed once |
| Progress (`progress/`) | `lesson_progress` | heartbeat, complete, record a result | a retake never takes a pass away |
| Arena (`arena/`) | matches in Redis under a lock with a lease, `arena:due` and `arena:live`, `arena_matches` and `arena_stats`, presence | lobby and challenges; answer, leave, sweep, boot, close, record | one point per question, an end is final and its points given once, every match ends |
| Password reset (`password-reset/`), sign-in and devices (`auth/`, `sessions/`) | reset requests with their status and attempts; sessions | request, deliver, confirm; sign in, evict a device | a code resets one password once, messages stay under their cap |
| Outreach, campaigns, contacts (`outreach/`, `auto-outreach/`, `marketing/`) | send queues claimed by crons | claim, send, back off | nobody is written to twice |
| WhatsApp gateway (`src/services/wa`) | socket, credentials, receipts | connect, reconnect, send | reconnects without losing its credentials |
| Audit log (`src/apps/api/src/audit`) | `audit_log`, a hash chain under one advisory lock | `recordTx` in any transaction, `verifyChain` by pages | an untampered trail verifies |
| Content, catalog, video mirror, homework, assistant, analytics, administration, web | rows edited one at a time, external calls, reports | | |

How they interact: purchases, refunds, unlock codes and referrals all write the
wallet through `wallet-ledger.ts`; claims, purchases, codes and cancellations all
write `access_grants` and `enrollments`; transfers approve claims and book orders;
a referral is rewarded for the friend's first payment and reversed with it; claims and purchases consume coupons; hand-in, sweeping, marking by
hand and regrading all write the same attempt and its questions. Crons
(`overdue.service.ts` each minute, referral, outreach, expiry and publishing
sweepers) act on the same rows as requests.

What is hard: two people pressing at the same moment (two admins on one claim,
two students with one code, two tabs of one student), a press that is retried
while its first try still runs, a notice delivered twice, a process that dies in
a transaction, a value read before the transaction and used in it, and lock
orders that differ between operations. `PROJECT.json` lists each hazard at its
line with the properties that would catch it.

## 2. How the models are built

`Wallet`, `UnlockCodes`, `Claims` and `QuizAttempt` use one scheme, and so do
`Referrals`, `BookOrders`, `Transfers`, `PasswordReset` and `AuditTrail` as far as
they need it.

* **A request is a small process**: `pc[q]` is the statement it stands at,
  `job[q]` what it was asked and what it has captured. `Start...` actions are the
  reads before the transaction, with every early return (`Refuse`); each later
  action is one statement of the transaction; `Commit` publishes. A slot serves
  any number of requests, one after another.
* **READ COMMITTED**: what a transaction writes is seen by the others when it
  commits, so its effects are applied in its commit (or in the last statement
  where nobody can observe the difference because the row is locked). What it
  has written but not committed is locked: `lock[row] = q`. A statement that needs
  a locked row is not enabled, and when it runs it evaluates its WHERE on the
  committed row, as PostgreSQL re-checks a conditional update after a wait.
* **Unique indexes** are lockable entries: an insert waits for an uncommitted
  duplicate and fails on a committed one.
* **Failures**: any request may die at any statement (`Crash`, `Abort`), which
  rolls its transaction back and tells nobody; a cycle of waits is broken by
  choosing a victim (`DeadlockVictim`, `Victim`; in Claims the same `Abort`).
* **Locks that are not row locks.** Advisory locks of a transaction (referrals,
  password reset, the audit chain) are held until it ends. The lock of an arena
  match is a Redis key with a lease: it outlives a holder that died until the
  lease runs out, and may run out under a holder that is slow (`Expire`, and
  `lapsed` remembers it). Operations that lock nothing at all, as nearly all of
  book orders, are a read and a later write by id.
* **Reads without slots.** `Transfers` keeps no slots for the desk and the student:
  `begun` holds whatever some request has read leave to write (a pending claim, an
  order that waits for its payment, one that is or is not deleted), and the write
  may come at any time from then on, and again. That is any number of requests of
  any delay, which is more than slots would allow, and in fewer states. A request
  that dies is one that never writes.
* **Mutants**: next to a definition stand the forms of it a plausible bug would
  give it (for instance `GuardByIdOnly` next to `Guard`); they are used by nothing.

| Module | Models | State ↔ code |
|---|---|---|
| `WalletContract` | what `wallet-ledger.ts` promises in its header and the migration enforces by CHECK, UNIQUE and trigger: the abstract specification | `statement[u]`: the ledger rows of a student |
| `Wallet` (+ `MCWallet`) | `wallet.service.ts`, `wallet-ledger.ts`, and the wallet side of `purchaseFromWallet` and of `FinanceService.cancel` | `balance`, `statement`, `topup`, `owner`: the three tables; `after`: RETURNING `balance_cents` |
| `UnlockCodes` (+ `MCUnlockCodes`) | `unlock-codes.service.ts`, next to `writePurchaseGrant` and a cancellation, which write the same enrollments | `made`, `redeemer`, `revoked`: `unlock_codes`; `grants` (by code), `loose` (their code is erased), `paid`: `access_grants`; `standing`, `source`: `enrollments`; `credits`: ledger rows by code |
| `Claims` (+ `MCClaims`) | `payments.service.ts` on claims, purchases and manual sales, `coupon-ledger.ts`, the settlement of a transfer | `claim` with its coupon use, `grant`, `matched`, `uses` |
| `QuizAttempt` (+ `MCQuizAttempt`) | one sitting: `attempt.service.ts`, `overdue.service.ts`, reopening and extra time, `manual-grading.service.ts`, `regrade.service.ts` | `paper`: the attempt; `slot`: its questions; `tabs`: what each browser tab was loaded with; `late`: the clock is past the hard stop |
| `Referrals` | `referrals.service.ts`, `referral-sweeper.service.ts`: sweepers of several replicas, admins, purchases from the same wallets | `ref`: `referrals`; `ledger`, `balance`: wallet rows of the two kinds; `held`: advisory and row locks |
| `Transfers` | `transfers.service.ts`, `learnFromApproval`, `approveFromTransfer` and `markPaidFromTransfer` | `rows`: `incoming_transfers`; `known`: learned senders; `thing`, `deleted`: claims and orders; `capture`: what runs behind each notice; `begun`: the requests that have read and not written |
| `BookOrders` | `book-orders.service.ts`, the courier's push and webhook, the reading of receipts | `order`: `book_orders`; `seen`: what the courier accepted and reported; `slot`: requests under way |
| `ArenaMatch` | the engine `arena-engine.ts`, `arena.service.ts`, store, sweeper and records: one match, its two students and two processes | `match`: `arena:m:<id>`; `row`, `stats`: PostgreSQL; `tracked`: the sorted sets; `lock`: the lease |
| `PasswordReset` | `password-reset.service.ts` | `row`: `password_reset_requests`; `work`: request and delivery; `guess`: confirmations; `wire`, `resets`: what really happened |
| `AuditTrail` | `audit.service.ts`, `chain.ts` | `log`: `audit_log`; `next`: its sequence; `tx`: open transactions; `walk`: a verification |
| `Services` (+ `MCServices`) | the six modules above side by side, their assumptions, and their properties under one name; `MCServices` has the sizes of the run | `part`: which of them moves |
| `WalletProofs`, `UnlockCodesProofs`, `ClaimsProofs`, `QuizAttemptProofs`, `AuditTrailProofs`, `PasswordResetProofs`, `ReferralsProofs`, `ServicesProofs` | theorems | |

Abstractions worth knowing: amounts are small numbers, names and payloads are
model values; the instant is one bit (`late`) where only a deadline matters; a
course has one plan that extends by time (`Dated`, the monthly or whole-course
plan with its expiry) and one that does not (`Undated`, a term); what a code
opens is one grant; an edit of a question alternates the right answer, so that
regrading changes marks; a wrong choice costs a mark, so that totals can go
below zero before they are floored; in the arena, times are ticks relative to
now; a hash of the audit chain is named by its row; every transfer has the same
amount, which is when one can be mistaken for another. Audit rows, notices and pushes are left out:
no modelled decision reads them.

## 3. Runs

| Run | Question | Instance | Distinct states |
|---|---|---|---|
| `wallet` | Do all wallet operations together keep the contract, answer truthfully and end? | 2 requests, 2 students (one can pay twice), 1 top-up id, 2 keys, amounts {1}, at most 1 waiting top-up, 4 rows | 222,507 |
| `wallet_refund_cap` (violation) | Do refunds of one purchase stay within its price? | same | |
| `unlock_codes` | Does a code deliver once, to the right student, and stay spent? | 2 requests, 2 students, a course code, a wallet code | 608,398 (with symmetry) |
| `unlock_pull` (violation) | Is a pulled code closed? | same | |
| `unlock_enrollment` (violation) | Is a student with a live grant always enrolled? | same | |
| `claims` | Coupon uses, double sale, backing grants, transfers paid once | 2 requests, 1 student, a dated and an undated plan, 2 claims, 2 grants, 2 transfers, ceiling 1 | 1,339,565 (with symmetry) |
| `claims_coupon` (violation) | Do a claim's status and its coupon use agree? | same | |
| `claims_payment_opens` (violation) | Does every payment open a live grant? | same | |
| `quiz_attempt` | Saves, hand-in, sweep, reopening, marking, regrading of one paper | 2 requests, 2 tabs, a choice and an essay question, 2 saves per tab, 2 admin actions or crashes, 2 versions | 173,222 |
| `quiz_marks` (violation) | Is the total that of the marks? | 1 tab | |
| `quiz_regrade_back` (violation) | Does a regrade only move forward? | 1 tab, 3 versions | |
| `services` | Arena, referrals, book orders, transfers, password reset, audit trail: the properties of each, with liveness of the first two | seven parts, below | 186,072 |

**`services`** checks components that share no state in one run. `part` is chosen
at the start; its module moves and all others rest in their initial states, so
that states of the parts add up and are not multiplied, and the fairness is that
of the part that moves. The parts:

* `arena`: 2 questions, two students, two processes; the bound `Budgets` is one of
  three requests; one request and two losses of presence; one request, or one
  loss of presence, and a mishap (an error, a crash, a deploy, a lost lease).
* `one friend`: one referral, two replicas and an admin, two programs (one of them
  off), one change of the settings, one roll-back. `two friends`: of one referrer
  under a cap of one, two replicas of which one also voids.
* `books`: a parcel with two pushes, courier and manual returns (5 operations); a
  payment and two of all operations of the desk, the student and the courier on one
  order from three statuses; two payments of two orders with two pictures, next to
  an operation of the desk. The courier reports each thing once per order, as the
  UNIQUE of its reports has it.
* `money`: a claim and an order of one student, an SMS that may already be there, two
  captures and at most two rows; requests of the desk and the student without bound.
* `reset`: three requests, two of one number, limits of one per number and one
  message, two guesses, two confirmations at once.
* `trail`: two writers, five ids, pages of two rows, so that a verification takes
  three pages while others commit.

**Why these bounds are enough to be interesting.** Every hazard listed is a
conflict of two actors, so two requests reach it; a slot is reused, so a third
and a fourth request may come after either ends. Two students are needed where
ownership matters (codes, keys, wallets). Two ids of each kind let one be used
twice and let two collide. One coupon use and one waiting top-up make the limit
bite at once. Four ledger rows allow a purchase, two refunds and one more.
Versions go to 3 only where a regrade can be overtaken by another. Each bound is
a named constant (`MaxRows`, `MaxPending`, `MaxUses`, `MaxSeq`, `MaxPresses`,
`MaxVersion`) or the size of a set of ids.

**Symmetry** is used in `UnlockCodes` and `Claims`, whose runs check invariants
and action properties only; requests, students, ids, grants and transfers are told
apart by nothing in those modules. Runs with liveness use no symmetry.

**Deadlock** is checked in Wallet, UnlockCodes and Claims. It is off for
QuizAttempt and `services`: when the paper is handed in and marked, the match has
ended or the codes are spent, and the bounded actions are used up, nothing is left
to happen.

**Fairness.** `Wallet!Fairness` is strong fairness of each request's statements:
a statement that can run does, and row locks queue, so a waiter is not passed
over for ever; a crash may end a request instead. Without it `Answered` would only
say that a scheduler may stop. `QuizAttempt!Fairness` adds that the sweeper,
which runs every minute, gets to start whenever an overdue paper is there again
and again, and that the database breaks cycles of waits. `Referrals!Fairness`: a sweep
each minute goes through every candidate, so that whichever replica comes first
takes a referral that is a candidate again and again (strong fairness of the two
starts), and a transaction that has begun goes on (weak fairness of its
statements; the advisory lock, referral and wallets are always taken in this
order, so no cycle needs breaking). `ArenaMatch!Fairness` is weak fairness of what
the process does by itself: timers fire, a handler goes on, a lease runs out
(except under a live transaction: that is a fault, never assumed), time passes, and
a container that died is started again; in `MatchEnds` the students' comings and
goings are bounded. Nothing is assumed of
students, admins or teachers: they need never act.

### Properties

* **Wallet.** `Contract` (refinement): whatever interleaves, the statements are
  those of `WalletContract`. `BalanceIsLedger`: the cached balance is the sum of
  the rows at every commit. `ApprovedIffCredited`: a top-up is approved exactly
  when its owner has its credit. `AnswersAreTrue`: "done" and "replayed" are said
  only of a row that is there. `ReviewedOnce`: a review is final. `Answered`: no
  wait is for ever.
* **UnlockCodes.** `SpentIffDelivered`: a code names a student exactly when that
  student, and nobody else, got what it carries, once. `AnswersAreTrue`: who is told
  that a code worked is named by it, or holds a grant that the code left when it was
  erased. `SpentForGood`: a spent code stays and names its student, *unless a delete
  that read it as unspent is under way* (`Kept`); such a delete may erase a course
  code with the name of its student, but nobody else ever gets it, what it opened
  stays open in his name (`loose`), and a grant that a code opened dies only by a
  pull of that code.
* **Claims.** `UsesAreHeld`, `NoDoubleSale`, `ApprovedIsBacked`,
  `TransferPaysOnce`, and the coupon ceiling in `TypeOK`.
* **QuizAttempt.** `OnlyTheLiveTabWrites`, `MarkedAsAnswered`,
  `SittingIsUngraded`, `TeacherOutranks`, `OverdueIsClosed`, and the floor of a
  total in `TypeOK`.
* **Arena.** `OnePointPerQuestion`: the race for a question has one winner at
  most. `ToldRightIsScored`: an answer told right is in the match that is kept.
  `ShownPointsAreGiven`: through retries, crashes between record and save, and
  lost leases, points are given once and shown as given. `EndIsFinal`.
  `MatchEnds`: across crashes and restarts a match ends and is swept no more.
* **Referrals.** `LedgerTellsReferral`: rewards and reversals in the ledger are
  those the referral states, once per side. `CapHolds`. `ReversalLeavesNothing`: each side
  gives back its reward or all its wallet holds then. `RefundIsFollowed`: a reward
  whose payment is refunded, even while the reward commits, is taken back in the
  end. `PaidIsSettled`: a friend who paid is rewarded, blocked or voided in the end.
* **Book orders.** `RejectedIsFinal`: also under a payment or a report that read
  the order before. `PushedOncePerReturn`: the courier accepts a parcel once, and
  again for each recorded return, lost answers excepted. `DuplicateIsHeld`: of two
  orders paid with one transfer one has been held once both readings end, though
  they lock nothing.
* **Transfers.** `TransferPaysOnce`: a transfer names one thing and a thing is named
  by one transfer, what a transfer settled it names, and what it names is never
  pending or waiting for its payment again, however late somebody approves, rejects,
  deletes or restores what he has read.
* **Password reset.** `SendLimitsHold`, `OneResetPerCode`.
* **Audit trail.** `ChainVerifies`: transactions of several rows, roll-backs, gaps in
  the ids and commits between two pages never break a verification.

### Disagreements the runs show

Each is a run that TLC refutes; the quoted sentence is from the repository.

1. `RefundsWithinPrice`: `FinanceService.cancel` computes the cap of a refund
   before its transaction and never looks again; two cancellations in flight both
   pass it and both credit the wallet.
2. `PulledIsClosed`: `revoke` believes the redeemer it read; a redemption that
   commits before its update leaves live grants behind a revoked code.
3. `EntitledAreEnrolled`: `revokeCodeOnlyEnrollment` decides from unlocked reads
   and revokes the enrollment by id after a subscription has revived it.
4. `CountAndStatusAgree`: `approve` and `reject` update the claim by id; with both
   in flight an approved claim has released its coupon.
5. `PaymentOpens`: `writePurchaseGrant` extends a grant by the id read earlier,
   even if it has been cancelled since.
6. `TotalIsOfMarks`: two teachers marking two questions of one paper at once; the
   total that stands misses one mark.
7. `OnlyOlderMoves`: a regrade overtaken by a newer edit moves answers back.

## 4. Proofs

Every invariant and every action property that a passing run checks is also a
theorem, proved by TLAPS for every value of the constants. Only liveness is left
to TLC (end of this section).

The assumptions are those the modules state and TLC evaluates on every run:

* Wallet, UnlockCodes, Claims, QuizAttempt (`OpeningType`, `AmountsArePositive`,
  `ColumnsApart`, `CodesApart`, `NobodyIsNew`, `BoundsType`, `PlansApart`,
  `UsesType`, `NoneIsNew`, `SlotsAreSome`): amounts are positive integers, opening
  balances are not negative, a code opens lessons or carries money and not both, a
  plan is sold by time or as a term and not both, the ceiling of a coupon is a
  natural number, a paper has finitely many questions and at least one (`start`
  refuses an empty one), and the marker for "nobody" is none of the ids.
* Services: a match has at least one question and a resumed one gets no more time
  than a stage may have (`ArenaAssumption`); a claim is no order
  (`TransferAssumption`); no writer and no request is called "free", the name of a
  lock that nobody holds (`TrailAssumption`, `ResetAssumption`, which also makes the
  requests finitely many); nobody refers himself, and rewards are natural numbers
  (`ReferralAssumption`, twice: the CHECK `referrals_not_self` and the schema of the
  settings); requests about orders are finitely many at a time and an order begins
  in one of its statuses (`BookAssumption`).

**`WalletProofs`**: `IInv` is inductive and from it follow `TypeOK`, the
refinement `Contract`, `ReviewedOnce`, `ApprovedIffCredited` and `AnswersAreTrue`
(what an answer relies on, a line or a rejection, lasts: `Lasting`).

The argument: the system is correct because *a value captured under a row lock is
still true while the lock is held*. Type correctness and the contract are not
inductive alone: that `Commit` writes a legal row depends on what `after[q]` has
to do with the balance now. `IInv` therefore adds

* `LocksHold(q)`: from the debit or credit on, `q` holds the wallet row and
  `after[q]` is the balance plus its amount; from the ledger insert on, it holds
  the entry of its source and nobody has committed that source; past its guard, a
  review holds the top-up, which is still pending;
* `StepOK(q)`, `JobOK(q)`: which operations reach which statement, and that the
  job carries what they need;
* `Cached`: the balance is what the last row says; `Owned`: a filed top-up has an
  owner.

Each action is one lemma (`MoveKeeps`, `InsertRowKeeps`, ..., `CommitKeeps`).
`QuietStep` serves the actions that leave the tables alone and `BystanderKeeps`
the requests that do not move; `CommitSpares` says why a commit of one request
does not disturb another: they cannot hold the same rows.

`BalanceIsLedger` says that the balance is a *sum*, a fold over a set whose elements
are taken in an order that nobody knows (a CHOOSE). No induction over data is
available to the prover, so what is needed of sums is proved once, from the
well-foundedness of strict inclusion (`LeastSubset`: of some subsets of a finite set
one contains no other, so a least counterexample can be taken): there are sums
(`SumsExist`), the same numbers have the same sum (`SumsAgree`), and any element may
be taken first (`SumsSplit`). So a row appended adds its amount (`TotalOfAppend`), and
a commit moves balance and sum by the same (`CommitAdds`, from `LocksHold`).

The contract's own promises, that `Chained` (every row states the balance before it
plus its amount), `NeverOverdrawn` and `EverySourceOnce` hold and histories only
grow, are proved of `WalletContract` for any students and sources
(`ContractTypes`, `ContractChained`, `ContractNeverOverdrawn`, `ContractSourceOnce`,
`ContractHistory`) and carried to the requests by the refinement: `MoneyIsSafe`.

**`UnlockCodesProofs`**: `TypeOK`, `SpentIffDelivered`, `AnswersAreTrue` and
`SpentForGood`. The single use of a code is *one conditional update*, and what
makes it enough is the lock that the update leaves behind: `HoldsCode(q)` says
that a redemption or a pull past its update holds the row of its code, and that
under a redemption the code is still unspent. So two redemptions never reach
their commits together (`FoundUnspent`), a pull waits for a redemption under way,
and only a redemption, a pull, `create` and `remove` change a code
(`NextCodes`, `CodeHistory`). `remove` decides from an unlocked read and deletes by
id, so no lock protects a spent course code from it. What is proved of it is in two
parts. A code that no delete is about is one that none can be about later: it is
spent, and `remove` refuses a spent code (`NoNewDelete`, `KeptStays`). A code that is
erased takes its student along and moves its grants as they are to those that name no
code, which no step touches any more (`DeleteErases`, `LooseGrows`); the credit of a
wallet code refuses the delete. `StepOK(q)` again ties steps to operations.

**`ClaimsProofs`**: `TypeOK`, `UsesAreHeld`, `NoDoubleSale`, `ApprovedIsBacked` and
`TransferPaysOnce`. Nothing of this is inductive alone, because a commit writes
what its transaction found statements earlier; `IInv` says for each request what
still holds of it. Under a lock, everything: a use of the coupon is left for who
passed `claimCoupon`, and is still to be given back by the rejection that has
both the claim and the coupon (`HoldsCoupon`); the transfer and the claim are both
unmatched (`HoldsTransfer`); every earlier purchase of the term is revoked
(`HoldsWallet`). Without a lock, only what no step ever changes: the student and
the plan of a filed claim (`ReviewOK`) and of a grant (`GrantsOK`), which is all
that `ApprovedIsBacked` needs. That the grant is still *live* is not among them,
and `PaymentOpens` is indeed violated. `CommitSpares` says why a commit leaves the
other requests right: it changes a match, a purchase or the count only where it
holds the lock, and a grant row never except from nothing. `UsesCounted` does the
arithmetic of the count over the finite set of claims that hold a use.

**`QuizAttemptProofs`**: `SittingIsUngraded`, `MarkedAsAnswered`,
`OnlyTheLiveTabWrites` and `TeacherOutranks`, for any number of requests, tabs and
questions. `IInv` adds what admission under the lock of the paper guarantees until
the write: whoever writes holds the paper, a submit or a close finds it open, a
regrade finds it not abandoned. That last one is what `MarkedAsAnswered` rests on:
a graded question is in a paper that is handed in, so a regrade that moves it
marks it again. A teacher's mark does not hold the paper until its last statement;
it is kept out of an open one by the CHECK on the paper's state alone, and what
it holds from the beginning is the question (`slotLock`), which is why no other
transaction can have changed it (`MarkedOK`). On top of this, `TypeOK`
(`ScoreIsNeverNegative`): a wrong answer may cost a mark, so a total is a sum of
integers of either sign (`SumIsASum`, with the lemmas about sums of `WalletProofs`),
floored at zero (`TotalIsNatural`), whether a hand-in, a teacher's mark or a regrade
adds it up; a tab is loaded with the greatest of the numbers so far
(`GreatestExists`); and a regrade carries a version there is.

**`AuditTrailProofs`**: `TrailAlwaysVerifies`, for any number of writers, any
number of rows and any length of a page (assuming `Bounds`: two natural numbers,
and "free" names no writer). The chain of the committed rows is not inductive,
because a transaction of several rows continues what it wrote itself. `IInv` says
that whoever has begun holds the lock (`HoldsChain`), that its rows continue the
chain of the committed ones and are newer than all of them *and than the place of
a verification*, and that a verification expects the last row up to its place
(`WalkInv`). A commit between two pages therefore only adds rows ahead. The tail
is a maximum over a finite set: `MaxExists` proves that there is one from the
well-foundedness of strict inclusion, and `TailUnique` and `TailExists` are all
that the rest uses of it. `PageIsAPrefix` shows that a page has no gaps.
`TrailTypes` is its `TypeOK`.

**`PasswordResetProofs`**: `CodeResetsOnce`, for any number of requests and of
confirmations at once. A confirmation flips the row in one statement and writes
the password in a later one; `Flipped` says that in between it is alone with the row
and nothing has been written, `Right` that it stands at a code that was sent and
counted, and `Sent` that the message precedes every status in which a code can be
guessed. `SendLimitsAlways`: the limits per number and of messages are each counted
in one statement and written in another, so no invariant of the rows alone keeps
them. `LimitInvariant` adds that whoever counted holds the advisory lock (`Serial`)
and that the room it found is still there: nobody else can file or send in between,
and finite sets that grow by one stay within the limit. `ResetTypes` is `TypeOK`.

**`ReferralsProofs`**: `LedgerTellsReferralAlways`, `CapHoldsAlways`,
`ReversalLeavesNothingAlways` and `TypeCorrect`, for any number of referrals,
replicas, admins and changes of the settings. A transaction writes the rows of both
sides and the referral in its last step, from what it read in several steps before.
`IInv` says what of that still stands: it holds the referral from the conditional
update on, whose status is what it came from; it holds the wallet of each side from
the moment it read its balance, and takes back the lesser of the reward and *that*
balance (`Guarded`); a sweeper that counted the month holds the advisory lock of the
referrer and its count is still below the cap (`Counted`); an operation goes only
where it may (`Planned`). Of the tables: the rows of a referral are those it states
(`Told`) and there is one per side and kind (`OneRowEach`, the UNIQUE index, which
the lock on the referral makes unreachable). A referrer may be the friend of another
referral, so wallets are shared between referrals; nothing assumes otherwise.

**`ServicesProofs`** has the theorems about `Services`, under the names of the
properties that the run `services` checks.

* *Services proved elsewhere.* The audit trail, password reset and referrals stand in
  `Services` under other names of variables. Their actions there and in their
  own modules are the same formulas (`OneFriendSteps`, `TwoFriendsSteps`), so that a
  behaviour of `Services` is one of each service that moves or rests (`TrailRuns`,
  `ResetRuns`, `OneRuns`, `TwoRuns`), and what the service promises always is
  promised here. Which of the two referral programs moves is chosen once
  (`PartStays`).
* *Transfers* (`MoneyInv`). `TransferPaysOnce` compares what settled a thing with what
  the rows name. `Money!Allowed` is the CHECK (a claim or an order, not both) and the
  UNIQUE targets; `SettledOK` says that what settled a thing names it and that
  what is named is decided; `CaptureOK`, that the row and the thing a capture
  carries between its steps are there; `BegunOK`, that the desk learns from and links
  only a claim that is decided. `Decided` is
  what lasts: no write, however stale, makes a thing pending or unpaid again
  (`StatusBecomes`).
* *Book orders* (`BooksInv`). Nothing is locked between a read and the write by id, so
  what must be kept does not speak of single orders. `PushesOK`: what the courier
  has accepted and the calls under way are no more than the returns, the lost
  answers and the claim of the order together; it is an inequality over the
  requests, whose number changes by one with every call (`CallsChange`). `TwinsOK`: of
  two orders that show the same transfer one is held, *or some request is still to
  look, or to hold*: each reading writes before it looks, so the later one sees
  the earlier. A rejection is final although a payment or a report writes by id
  what it read before: the CHECK `book_orders_rejected_status_matches` refuses it
  (`MovingKeeps`, for every kind of step).
* *Arena* (`ArenaInv`). The engine is a set of functions of a match, about which the
  lemmas of *The engine* are stated once: a judgement keeps a match well formed and
  takes no point away (`MatchOK`, `Judges`), whichever of answer, timer, leave and
  reconnection made it. `OnePointPerQuestion` is the clause of `MatchOK`
  that the points of both sides are no more than the questions closed so far. For the service, `HolderOK`: a handler
  that is about to record or save holds the lock, the match has not ended meanwhile
  and it judged the match as it is, so that what it writes takes no point away,
  *unless a lease has run out under a live transaction* (`lapsed`, where the
  properties promise less). `AwardsOK` and the row: the points a match shows are those
  of the row, written once, through any number of retries, crashes between record
  and save, and restarts.
* `TypesAlways` is the type invariant of them all.

Only model-checked: liveness (`Answered`, `OverdueIsClosed`, `RefundIsFollowed`,
`PaidIsSettled`, `MatchEnds`), which the prover does not do. Not stated as
theorems because they are false: the seven properties of section 3 that TLC refutes.

## 5. What is not modelled

`PROJECT.json` gives the reason for each component. Within the modelled ones:

* buying curriculum months (several grants at once), editing a claim, refunds of
  cash sales, reinstating and extending grants; reading the text of bank notices;
  coupons other than their count;
* starting a sitting with its allowance of attempts, flags and the event log;
  overriding a total;
* signing up through a referral link, and months other than the present one;
* creating and editing a book order, its prices and stock, `markFree` of a paid
  order, and typing in tracking numbers;
* the arena's lobby (queue, challenges, pairing), the choice of questions and the
  leaderboard;
* the human check before a password reset, and days and hours other than the
  present ones.

Some things the code does are accepted by the properties, because it documents or
plainly intends them: an arena match recorded by a process that dies before it
saves may be shown as aborted with the points that were given; a courier call
that times out releases its claim although the courier may have accepted
(`seen.lost`); two captures of one notice that both find nothing keep two rows,
of which one settles; a reward that the wallet can no longer give back is taken
back in part.

Two disagreements are stated in the properties that hold, as what they leave out,
and have no run of their own. `UnlockCodesService.remove` says that a used code "is
pulled, not erased" (`unlock-codes/unlock-codes.service.ts:504`), but deletes by id
what it read as unused; a redemption that commits in between is erased with the name
of its student (`Kept` in `SpentForGood` is where this is let through). And a
rejection of a claim that read it before a transfer settled it leaves a transfer that
names a rejected claim: the same two lines of `reject` as in `CountAndStatusAgree`.
`TransferPaysOnce` therefore asks that what a transfer names is never open again,
and not that it is approved.

## 6. Plan

Done: `WalletContract`, `Wallet`, `UnlockCodes`, `Claims`, `QuizAttempt`,
`PasswordReset`, `AuditTrail`, `Referrals`, `Transfers`, `BookOrders`, `ArenaMatch`,
and for all of them a proof of every invariant and action property that is checked.

Next, in this order:

1. **Two sittings** of a quiz: `start` with its allowance and `recordQuizResultTx`.
2. An abstract specification of a referral (joined, rewarded or blocked, reversed)
   and of a transfer (kept, named, settled), with `Referrals` and `Transfers` shown to
   implement them.
3. Claim-before-send of the outreach and campaign runners; the arena's lobby.
