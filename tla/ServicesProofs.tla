---------------------------- MODULE ServicesProofs ----------------------------
(***************************************************************************)
(* The theorems of the services, side by side.  A service that stands here *)
(* under other names and has proofs of its own (the audit log, the reset   *)
(* of a password, the referrals) is the one that those are about: its      *)
(* actions are the same formulas, so every behaviour of Services is a      *)
(* behaviour of the service, which moves or rests, and what always holds   *)
(* of it holds.  The transfers, the orders of books and the arena are      *)
(* proved here, each by an inductive invariant of its own that no part     *)
(* but it can disturb.                                                     *)
(***************************************************************************)
EXTENDS Services, FiniteSetTheorems, TLAPS

TrailP == INSTANCE AuditTrailProofs WITH next <- nextId, lock <- chainLock, MaxRows <- MaxTrail
ResetP == INSTANCE PasswordResetProofs WITH row <- codes, lock <- codeLock
OneP == INSTANCE ReferralsProofs WITH
  Refs <- One.refs, ReferrerOf <- One.referrerOf, Replicas <- One.replicas,
  Admins <- One.admins, Programs <- One.programs, MonthlyCap <- One.cap,
  MaxChanges <- One.changes, MaxRollBacks <- One.rollbacks
TwoP == INSTANCE ReferralsProofs WITH
  Refs <- Two.refs, ReferrerOf <- Two.referrerOf, Replicas <- Two.replicas,
  Admins <- Two.admins, Programs <- Two.programs, MonthlyCap <- Two.cap,
  MaxChanges <- Two.changes, MaxRollBacks <- Two.rollbacks

-----------------------------------------------------------------------------
(* The audit log. *)

LEMMA TrailRuns == Spec => TrailP!Spec
<1>1. Trail!Init <=> TrailP!Init
  BY Zenon DEF Trail!Init, TrailP!Init, Trail!Genesis, TrailP!Genesis, Trail!NoTx, TrailP!NoTx,
      Trail!NoWalk, TrailP!NoWalk
<1>2. Trail!Next <=> TrailP!Next
  BY Zenon
  DEF Trail!Next, TrailP!Next, Trail!Genesis, TrailP!Genesis, Trail!NoTx, TrailP!NoTx,
      Trail!NoWalk, TrailP!NoWalk, Trail!Ids, TrailP!Ids, Trail!ChainTail, TrailP!ChainTail,
      Trail!Max, TrailP!Max, Trail!Locked, TrailP!Locked, Trail!Page, TrailP!Page,
      Trail!Before, TrailP!Before, Trail!Linked, TrailP!Linked, Trail!End, TrailP!End,
      Trail!Commit, TrailP!Commit, Trail!RollBack, TrailP!RollBack, Trail!BeginWalk,
      TrailP!BeginWalk, Trail!ReadPage, TrailP!ReadPage, Trail!TakeLock, TrailP!TakeLock,
      Trail!ReadTail, TrailP!ReadTail, Trail!Insert, TrailP!Insert, Trail!Cardinality,
      TrailP!Cardinality, Trail!IsFiniteSet, TrailP!IsFiniteSet
<1>3. Init => TrailP!Init
  BY <1>1 DEF Init
<1>4. [Next]_vars => [TrailP!Next]_(TrailP!vars)
  BY <1>2 DEF Next, vars, trail, TrailP!vars
<1>. QED BY <1>3, <1>4, PTL DEF Spec, TrailP!Spec

LEMMA TrailBounds == TrailP!Bounds
BY TrailAssumption DEF TrailP!Bounds

\* A page of the log that is verified while rows are written shows no break
\* (AuditService.verifyChain).
THEOREM ChainVerifiesAlways == Spec => []ChainVerifies
<1>1. TrailP!ChainVerifies => ChainVerifies
  BY Zenon DEF ChainVerifies, Trail!ChainVerifies, TrailP!ChainVerifies, Trail!ChainTail,
      TrailP!ChainTail,
      Trail!Ids, TrailP!Ids, Trail!Max, TrailP!Max, Trail!Genesis, TrailP!Genesis,
      Trail!Cardinality, TrailP!Cardinality
<1>2. TrailP!Spec => []TrailP!ChainVerifies
  BY TrailBounds, TrailP!TrailAlwaysVerifies
<1>. QED BY <1>1, <1>2, TrailRuns, PTL

-----------------------------------------------------------------------------
(* The reset of a forgotten password. *)

LEMMA ResetRuns == Spec => ResetP!Spec
<1>1. Reset!Init <=> ResetP!Init
  BY Zenon DEF Reset!Init, ResetP!Init, Reset!NoRow, ResetP!NoRow, Reset!NoWork, ResetP!NoWork,
      Reset!NoGuess, ResetP!NoGuess
<1>2. Reset!Next <=> ResetP!Next
  BY Zenon
  DEF Reset!Next, ResetP!Next, Reset!SendStatuses, ResetP!SendStatuses, Reset!NoRow,
      ResetP!NoRow, Reset!NoWork, ResetP!NoWork, Reset!NoGuess, ResetP!NoGuess, Reset!Filed,
      ResetP!Filed, Reset!AllFiled, ResetP!AllFiled, Reset!Locked, ResetP!Locked,
      Reset!Unlocked, ResetP!Unlocked, Reset!Count, ResetP!Count, Reset!Insert,
      ResetP!Insert, Reset!Find, ResetP!Find, Reset!Sends, ResetP!Sends, Reset!Cap,
      ResetP!Cap, Reset!Claim, ResetP!Claim, Reset!Send, ResetP!Send, Reset!Mark,
      ResetP!Mark, Reset!Crash, ResetP!Crash, Reset!Expire, ResetP!Expire, Reset!Idle,
      ResetP!Idle, Reset!Guess, ResetP!Guess, Reset!Use, ResetP!Use, Reset!Write,
      ResetP!Write, Reset!Cardinality, ResetP!Cardinality, Reset!IsFiniteSet,
      ResetP!IsFiniteSet
<1>3. Init => ResetP!Init
  BY <1>1 DEF Init
<1>4. [Next]_vars => [ResetP!Next]_(ResetP!vars)
  BY <1>2 DEF Next, vars, reset, ResetP!vars
<1>. QED BY <1>3, <1>4, PTL DEF Spec, ResetP!Spec

LEMMA ResetBounds == ResetP!Bounds
<1>1. IsFiniteSet(Requests) <=> ResetP!IsFiniteSet(Requests)
  BY Zenon DEF IsFiniteSet, ResetP!IsFiniteSet
<1>. QED BY <1>1, ResetAssumption DEF ResetP!Bounds

\* However many requests and deliveries race, the stack sends no more codes than
\* its cap, and one at most for a request (PasswordResetService, LOCK_LABEL).
THEOREM SendLimitsAlways == Spec => []SendLimitsHold
<1>1. ResetP!SendLimitsHold => SendLimitsHold
  BY Zenon DEF SendLimitsHold, Reset!SendLimitsHold, ResetP!SendLimitsHold, Reset!Filed, ResetP!Filed,
      Reset!Cardinality, ResetP!Cardinality, Reset!IsFiniteSet, ResetP!IsFiniteSet
<1>2. ResetP!Spec => []ResetP!SendLimitsHold
  BY ResetBounds, ResetP!SendLimitsAlways
<1>. QED BY <1>1, <1>2, ResetRuns, PTL

\* One code resets one password once, within its guesses, after its message has
\* gone (PasswordResetService.confirm).
THEOREM OneResetAlways == Spec => []OneResetPerCode
<1>1. ResetP!OneResetPerCode => OneResetPerCode
  BY Zenon DEF OneResetPerCode, Reset!OneResetPerCode, ResetP!OneResetPerCode
<1>2. ResetP!Spec => []ResetP!OneResetPerCode
  BY ResetBounds, ResetP!CodeResetsOnce
<1>. QED BY <1>1, <1>2, ResetRuns, PTL

-----------------------------------------------------------------------------
(* The referrals, of one friend and of two. *)

\* The part that moves is chosen once.
LEMMA PartStays ==
  /\ Spec /\ part = "two friends" => [](part = "two friends")
  /\ Spec /\ part # "two friends" => [](part # "two friends")
<1>1. [Next]_vars => part' = part
  BY DEF Next, vars
<1>2. part = "two friends" /\ [Next]_vars => (part = "two friends")'
  BY <1>1
<1>3. part # "two friends" /\ [Next]_vars => (part # "two friends")'
  BY <1>1
<1>. QED BY <1>2, <1>3, PTL DEF Spec


LEMMA OneFriendWallets == OneFriend!Wallets = OneP!Wallets
BY DEF OneFriend!Wallets, OneP!Wallets, OneFriend!Owner, OneP!Owner, OneFriend!Side,
       OneP!Side

LEMMA OneFriendSteps == OneFriend!Next <=> OneP!Next
<1> USE OneFriendWallets DEF OneFriend!Side, OneP!Side, OneFriend!Owner, OneP!Owner, OneFriend!Nothing,
      OneP!Nothing, OneFriend!NewRef, OneP!NewRef, OneFriend!NoJob, OneP!NoJob,
      OneFriend!Free, OneP!Free, OneFriend!Release, OneP!Release, OneFriend!End, OneP!End,
      OneFriend!ReversedCents, OneP!ReversedCents, OneFriend!SumSet, OneP!SumSet,
      OneFriend!FoldSet, OneP!FoldSet, OneFriend!MapThenFoldSet, OneP!MapThenFoldSet,
      OneFriend!Rows, OneP!Rows, OneFriend!Clash, OneP!Clash, OneFriend!Jobs, OneP!Jobs,
      OneFriend!Take, OneP!Take, OneFriend!Begin, OneP!Begin, OneFriend!ThisMonth,
      OneP!ThisMonth, OneFriend!Cardinality, OneP!Cardinality, OneFriend!IsFiniteSet,
      OneP!IsFiniteSet, OneFriend!Target, OneP!Target, OneFriend!AtStake, OneP!AtStake,
      OneFriend!Least, OneP!Least
<1>1. \A j, r : OneFriend!StartReward(j, r) <=> OneP!StartReward(j, r)
  BY Zenon DEF OneFriend!StartReward, OneP!StartReward
<1>2. \A j, r : OneFriend!StartReverse(j, r) <=> OneP!StartReverse(j, r)
  BY Zenon DEF OneFriend!StartReverse, OneP!StartReverse
<1>3. \A j, r : OneFriend!StartVoid(j, r) <=> OneP!StartVoid(j, r)
  BY Zenon DEF OneFriend!StartVoid, OneP!StartVoid
<1>4. \A j : OneFriend!Advisory(j) <=> OneP!Advisory(j)
  BY Zenon DEF OneFriend!Advisory, OneP!Advisory
<1>5. \A j : OneFriend!Decide(j) <=> OneP!Decide(j)
  BY Zenon DEF OneFriend!Decide, OneP!Decide
<1>6. \A j : OneFriend!Move(j) <=> OneP!Move(j)
  BY Zenon DEF OneFriend!Move, OneP!Move
<1>7. \A j : OneFriend!LockWallet(j) <=> OneP!LockWallet(j)
  BY Zenon DEF OneFriend!LockWallet, OneP!LockWallet
<1>8. \A j : OneFriend!Commit(j) <=> OneP!Commit(j)
  BY Zenon DEF OneFriend!Commit, OneP!Commit
<1>9. \A j : OneFriend!RollBack(j) <=> OneP!RollBack(j)
  BY Zenon DEF OneFriend!RollBack, OneP!RollBack
<1>10. \A r : OneFriend!Pay(r) <=> OneP!Pay(r)
  BY Zenon DEF OneFriend!Pay, OneP!Pay
<1>11. \A r : OneFriend!Refund(r) <=> OneP!Refund(r)
  BY Zenon DEF OneFriend!Refund, OneP!Refund
<1>12. \A w : OneFriend!Purchase(w) <=> OneP!Purchase(w)
  BY Zenon DEF OneFriend!Purchase, OneP!Purchase
<1>13. OneFriend!UpdateProgram <=> OneP!UpdateProgram
  BY Zenon DEF OneFriend!UpdateProgram, OneP!UpdateProgram
<1>. QED BY Zenon, <1>1, <1>2, <1>3, <1>4, <1>5, <1>6, <1>7, <1>8, <1>9, <1>10, <1>11, <1>12, <1>13
  DEF OneFriend!Next, OneP!Next, OneFriend!Step, OneP!Step

LEMMA OneFriendSame ==
  /\ OneFriend!Init <=> OneP!Init
  /\ OneFriend!Next <=> OneP!Next
  /\ OneFriend!LedgerTellsReferral <=> OneP!LedgerTellsReferral
  /\ OneFriend!CapHolds <=> OneP!CapHolds
  /\ \A r : OneFriend!LeavesNothing(r) <=> OneP!LeavesNothing(r)
<1>1. OneFriend!Init <=> OneP!Init
  BY Zenon, OneFriendWallets
  DEF OneFriend!Init, OneP!Init, OneFriend!NewRef, OneP!NewRef, OneFriend!Nothing,
      OneP!Nothing, OneFriend!NoJob, OneP!NoJob, OneFriend!Side, OneP!Side, OneFriend!Jobs,
      OneP!Jobs
<1>2. OneFriend!Next <=> OneP!Next
  BY OneFriendSteps
<1>3. OneFriend!LedgerTellsReferral <=> OneP!LedgerTellsReferral
  BY Zenon
  DEF OneFriend!LedgerTellsReferral, OneP!LedgerTellsReferral, OneFriend!Given, OneP!Given,
      OneFriend!Side, OneP!Side, OneFriend!SumSet, OneP!SumSet, OneFriend!FoldSet,
      OneP!FoldSet, OneFriend!MapThenFoldSet, OneP!MapThenFoldSet, OneFriend!Cardinality,
      OneP!Cardinality, OneFriend!IsFiniteSet, OneP!IsFiniteSet
<1>4. OneFriend!CapHolds <=> OneP!CapHolds
  BY Zenon DEF OneFriend!CapHolds, OneP!CapHolds, OneFriend!ThisMonth, OneP!ThisMonth,
      OneFriend!Cardinality, OneP!Cardinality, OneFriend!IsFiniteSet, OneP!IsFiniteSet
<1>5. \A r : OneFriend!LeavesNothing(r) <=> OneP!LeavesNothing(r)
  BY Zenon DEF OneFriend!LeavesNothing, OneP!LeavesNothing, OneFriend!Owner, OneP!Owner,
      OneFriend!Side, OneP!Side, OneFriend!Least, OneP!Least
<1>. QED BY <1>1, <1>2, <1>3, <1>4, <1>5

LEMMA TwoFriendsWallets == TwoFriends!Wallets = TwoP!Wallets
BY DEF TwoFriends!Wallets, TwoP!Wallets, TwoFriends!Owner, TwoP!Owner, TwoFriends!Side,
       TwoP!Side

LEMMA TwoFriendsSteps == TwoFriends!Next <=> TwoP!Next
<1> USE TwoFriendsWallets DEF TwoFriends!Side, TwoP!Side, TwoFriends!Owner, TwoP!Owner, TwoFriends!Nothing,
      TwoP!Nothing, TwoFriends!NewRef, TwoP!NewRef, TwoFriends!NoJob, TwoP!NoJob,
      TwoFriends!Free, TwoP!Free, TwoFriends!Release, TwoP!Release, TwoFriends!End,
      TwoP!End, TwoFriends!ReversedCents, TwoP!ReversedCents, TwoFriends!SumSet,
      TwoP!SumSet, TwoFriends!FoldSet, TwoP!FoldSet, TwoFriends!MapThenFoldSet,
      TwoP!MapThenFoldSet, TwoFriends!Rows, TwoP!Rows, TwoFriends!Clash, TwoP!Clash,
      TwoFriends!Jobs, TwoP!Jobs, TwoFriends!Take, TwoP!Take, TwoFriends!Begin, TwoP!Begin,
      TwoFriends!ThisMonth, TwoP!ThisMonth, TwoFriends!Cardinality, TwoP!Cardinality,
      TwoFriends!IsFiniteSet, TwoP!IsFiniteSet, TwoFriends!Target, TwoP!Target,
      TwoFriends!AtStake, TwoP!AtStake, TwoFriends!Least, TwoP!Least
<1>1. \A j, r : TwoFriends!StartReward(j, r) <=> TwoP!StartReward(j, r)
  BY Zenon DEF TwoFriends!StartReward, TwoP!StartReward
<1>2. \A j, r : TwoFriends!StartReverse(j, r) <=> TwoP!StartReverse(j, r)
  BY Zenon DEF TwoFriends!StartReverse, TwoP!StartReverse
<1>3. \A j, r : TwoFriends!StartVoid(j, r) <=> TwoP!StartVoid(j, r)
  BY Zenon DEF TwoFriends!StartVoid, TwoP!StartVoid
<1>4. \A j : TwoFriends!Advisory(j) <=> TwoP!Advisory(j)
  BY Zenon DEF TwoFriends!Advisory, TwoP!Advisory
<1>5. \A j : TwoFriends!Decide(j) <=> TwoP!Decide(j)
  BY Zenon DEF TwoFriends!Decide, TwoP!Decide
<1>6. \A j : TwoFriends!Move(j) <=> TwoP!Move(j)
  BY Zenon DEF TwoFriends!Move, TwoP!Move
<1>7. \A j : TwoFriends!LockWallet(j) <=> TwoP!LockWallet(j)
  BY Zenon DEF TwoFriends!LockWallet, TwoP!LockWallet
<1>8. \A j : TwoFriends!Commit(j) <=> TwoP!Commit(j)
  BY Zenon DEF TwoFriends!Commit, TwoP!Commit
<1>9. \A j : TwoFriends!RollBack(j) <=> TwoP!RollBack(j)
  BY Zenon DEF TwoFriends!RollBack, TwoP!RollBack
<1>10. \A r : TwoFriends!Pay(r) <=> TwoP!Pay(r)
  BY Zenon DEF TwoFriends!Pay, TwoP!Pay
<1>11. \A r : TwoFriends!Refund(r) <=> TwoP!Refund(r)
  BY Zenon DEF TwoFriends!Refund, TwoP!Refund
<1>12. \A w : TwoFriends!Purchase(w) <=> TwoP!Purchase(w)
  BY Zenon DEF TwoFriends!Purchase, TwoP!Purchase
<1>13. TwoFriends!UpdateProgram <=> TwoP!UpdateProgram
  BY Zenon DEF TwoFriends!UpdateProgram, TwoP!UpdateProgram
<1>. QED BY Zenon, <1>1, <1>2, <1>3, <1>4, <1>5, <1>6, <1>7, <1>8, <1>9, <1>10, <1>11, <1>12, <1>13
  DEF TwoFriends!Next, TwoP!Next, TwoFriends!Step, TwoP!Step

LEMMA TwoFriendsSame ==
  /\ TwoFriends!Init <=> TwoP!Init
  /\ TwoFriends!Next <=> TwoP!Next
  /\ TwoFriends!LedgerTellsReferral <=> TwoP!LedgerTellsReferral
  /\ TwoFriends!CapHolds <=> TwoP!CapHolds
  /\ \A r : TwoFriends!LeavesNothing(r) <=> TwoP!LeavesNothing(r)
<1>1. TwoFriends!Init <=> TwoP!Init
  BY Zenon, TwoFriendsWallets
  DEF TwoFriends!Init, TwoP!Init, TwoFriends!NewRef, TwoP!NewRef, TwoFriends!Nothing,
      TwoP!Nothing, TwoFriends!NoJob, TwoP!NoJob, TwoFriends!Side, TwoP!Side,
      TwoFriends!Jobs, TwoP!Jobs
<1>2. TwoFriends!Next <=> TwoP!Next
  BY TwoFriendsSteps
<1>3. TwoFriends!LedgerTellsReferral <=> TwoP!LedgerTellsReferral
  BY Zenon
  DEF TwoFriends!LedgerTellsReferral, TwoP!LedgerTellsReferral, TwoFriends!Given,
      TwoP!Given, TwoFriends!Side, TwoP!Side, TwoFriends!SumSet, TwoP!SumSet,
      TwoFriends!FoldSet, TwoP!FoldSet, TwoFriends!MapThenFoldSet, TwoP!MapThenFoldSet,
      TwoFriends!Cardinality, TwoP!Cardinality, TwoFriends!IsFiniteSet, TwoP!IsFiniteSet
<1>4. TwoFriends!CapHolds <=> TwoP!CapHolds
  BY Zenon DEF TwoFriends!CapHolds, TwoP!CapHolds, TwoFriends!ThisMonth, TwoP!ThisMonth,
      TwoFriends!Cardinality, TwoP!Cardinality, TwoFriends!IsFiniteSet, TwoP!IsFiniteSet
<1>5. \A r : TwoFriends!LeavesNothing(r) <=> TwoP!LeavesNothing(r)
  BY Zenon DEF TwoFriends!LeavesNothing, TwoP!LeavesNothing, TwoFriends!Owner, TwoP!Owner,
      TwoFriends!Side, TwoP!Side, TwoFriends!Least, TwoP!Least
<1>. QED BY <1>1, <1>2, <1>3, <1>4, <1>5

LEMMA OneRuns == Spec /\ part # "two friends" => OneP!Safe
<1>1. Init /\ part # "two friends" => OneP!Init
  BY OneFriendSame DEF Init
<1>2. part # "two friends" /\ [Next]_vars => [OneP!Next]_(OneP!vars)
  BY OneFriendSame DEF Next, vars, referrals, OneP!vars
<1>3. part # "two friends" /\ [Next]_vars => (part # "two friends")'
  BY DEF Next, vars
<1>. QED BY <1>1, <1>2, <1>3, PTL DEF Spec, OneP!Safe

LEMMA OneBounds == OneP!Bounds
<1>1. IsFiniteSet(One.refs) <=> OneP!IsFiniteSet(One.refs)
  BY Zenon DEF IsFiniteSet, OneP!IsFiniteSet
<1>. QED BY <1>1, ReferralAssumption DEF ReferralBounds, OneP!Bounds, OneP!Side

LEMMA TwoRuns == Spec /\ part = "two friends" => TwoP!Safe
<1>1. Init /\ part = "two friends" => TwoP!Init
  BY TwoFriendsSame DEF Init
<1>2. part = "two friends" /\ [Next]_vars => [TwoP!Next]_(TwoP!vars)
  BY TwoFriendsSame DEF Next, vars, referrals, TwoP!vars
<1>3. part = "two friends" /\ [Next]_vars => (part = "two friends")'
  BY DEF Next, vars
<1>. QED BY <1>1, <1>2, <1>3, PTL DEF Spec, TwoP!Safe

LEMMA TwoBounds == TwoP!Bounds
<1>1. IsFiniteSet(Two.refs) <=> TwoP!IsFiniteSet(Two.refs)
  BY Zenon DEF IsFiniteSet, TwoP!IsFiniteSet
<1>. QED BY <1>1, ReferralAssumption DEF ReferralBounds, TwoP!Bounds, TwoP!Side

\* The ledger tells the referral, however sweepers and admins interleave or die
\* (ReferralsService.reward and takeBack).
THEOREM LedgerTellsReferralAlways == Spec => []LedgerTellsReferral
<1>1. Spec /\ part # "two friends" => []OneP!LedgerTellsReferral
  BY OneRuns, OneBounds, OneP!LedgerTellsReferralAlways, PTL
<1>2. Spec /\ part = "two friends" => []TwoP!LedgerTellsReferral
  BY TwoRuns, TwoBounds, TwoP!LedgerTellsReferralAlways, PTL
<1>3. part # "two friends" /\ OneP!LedgerTellsReferral => LedgerTellsReferral
  BY OneFriendSame DEF LedgerTellsReferral
<1>4. part = "two friends" /\ TwoP!LedgerTellsReferral => LedgerTellsReferral
  BY TwoFriendsSame DEF LedgerTellsReferral
<1>5. part = "two friends" \/ part # "two friends"
  OBVIOUS
<1>. QED BY <1>1, <1>2, <1>3, <1>4, <1>5, PartStays, PTL

\* No referrer is rewarded for more friends in a month than the cap (reward).
THEOREM CapHoldsAlways == Spec => []CapHolds
<1>1. Spec /\ part # "two friends" => []OneP!CapHolds
  BY OneRuns, OneBounds, OneP!CapHoldsAlways, PTL
<1>2. Spec /\ part = "two friends" => []TwoP!CapHolds
  BY TwoRuns, TwoBounds, TwoP!CapHoldsAlways, PTL
<1>3. part # "two friends" /\ OneP!CapHolds => CapHolds
  BY OneFriendSame DEF CapHolds
<1>4. part = "two friends" /\ TwoP!CapHolds => CapHolds
  BY TwoFriendsSame DEF CapHolds
<1>5. part = "two friends" \/ part # "two friends"
  OBVIOUS
<1>. QED BY <1>1, <1>2, <1>3, <1>4, <1>5, PartStays, PTL

\* A referral leaves credited with its rewards, or with all its wallets hold
\* (takeBack).
THEOREM ReversalLeavesNothingAlways == Spec => ReversalLeavesNothing
<1> DEFINE OneLeaves == \A r \in One.refs : OneP!LeavesNothing(r)
           TwoLeaves == \A r \in Two.refs : TwoP!LeavesNothing(r)
           Leaves == IF part = "two friends" THEN \A r \in Two.refs : TwoFriends!LeavesNothing(r)
                     ELSE \A r \in One.refs : OneFriend!LeavesNothing(r)
<1>1. Spec /\ part # "two friends" => [][OneLeaves]_referrals
  <2>1. OneP!Safe => OneP!ReversalLeavesNothing
    BY OneBounds, OneP!ReversalLeavesNothingAlways
  <2>2. [OneLeaves]_(OneP!vars) => [OneLeaves]_referrals
    BY DEF OneP!vars, referrals
  <2>. QED BY <2>1, <2>2, OneRuns, PTL DEF OneP!ReversalLeavesNothing
<1>2. Spec /\ part = "two friends" => [][TwoLeaves]_referrals
  <2>1. TwoP!Safe => TwoP!ReversalLeavesNothing
    BY TwoBounds, TwoP!ReversalLeavesNothingAlways
  <2>2. [TwoLeaves]_(TwoP!vars) => [TwoLeaves]_referrals
    BY DEF TwoP!vars, referrals
  <2>. QED BY <2>1, <2>2, TwoRuns, PTL DEF TwoP!ReversalLeavesNothing
<1>3. part # "two friends" /\ [OneLeaves]_referrals => [Leaves]_referrals
  BY OneFriendSame
<1>4. part = "two friends" /\ [TwoLeaves]_referrals => [Leaves]_referrals
  BY TwoFriendsSame
<1>5. part = "two friends" \/ part # "two friends"
  OBVIOUS
<1>. QED BY <1>1, <1>2, <1>3, <1>4, <1>5, PartStays, PTL DEF ReversalLeavesNothing

-----------------------------------------------------------------------------
(* The incoming transfers. *)

CaptureSet == [pc : {"idle", "store", "upgrade", "match", "pay", "learn"},
               handle : Handles \cup {"none"}, row : Nat, thing : Money!Things \cup {"none"},
               learns : BOOLEAN]
ThingSet(x) == IF x \in Claims THEN {"pending", "approved", "rejected"}
               ELSE {"address_only", "paid"}

MoneyTypes ==
  /\ \E n \in Nat : transfers \in [1..n -> Money!Row]
  /\ DOMAIN thing = Money!Things /\ \A x \in Money!Things : thing[x] \in ThingSet(x)
  /\ deleted \subseteq Orders /\ capture \in [Captures -> CaptureSet]

\* Nobody asks for it any more.
Decided(x) == thing[x] \notin {"pending", "address_only"}

\* What a capture is about is there; the desk learns from and links only what
\* somebody has decided.
CaptureOK(k) ==
  /\ capture[k].pc \in {"upgrade", "match", "pay", "learn"} => capture[k].row \in DOMAIN transfers
  /\ capture[k].pc \in {"pay", "learn"} => capture[k].thing \in Money!Things
BegunOK ==
  \A c \in Claims :
    (\E q \in begun : q.thing = c /\ q.op \in {"look", "learn", "link"}) => Decided(c)

\* What is named is decided, and what settled a thing names it.
SettledOK(x) ==
  /\ paidBy[x] \subseteq Money!Naming(x)
  /\ Money!Naming(x) # {} => Decided(x)

MoneyInv ==
  /\ MoneyTypes /\ DOMAIN paidBy = Money!Things /\ Money!Allowed(transfers)
  /\ \A k \in Captures : CaptureOK(k)
  /\ BegunOK /\ \A x \in Money!Things : SettledOK(x)

\* What a read gives leave to is none of learnFromApproval.
LEMMA LeaveOps ==
  ASSUME NEW status, NEW gone, NEW q \in Money!Leave(status, gone)
  PROVE  q.op \in {"decide", "pay", "delete", "restore"}
BY DEF Money!Leave, Money!Request

LEMMA MoneyInit == Money!Init => MoneyInv
<1> SUFFICES ASSUME Money!Init PROVE MoneyInv
  OBVIOUS
<1>1. PICK sms \in 0..1 : transfers = [t \in 1..sms |-> Money!Bare("none")]
  BY DEF Money!Init
<1>2. Money!Bare("none") \in Money!Row /\ Money!Bare("none").claim = "none"
        /\ Money!Bare("none").order = "none"
  BY DEF Money!Bare, Money!Row
<1>3. transfers \in [1..sms -> Money!Row] /\ sms \in Nat
  BY <1>1, <1>2
<1>4. \A t \in DOMAIN transfers : transfers[t].claim = "none" /\ transfers[t].order = "none"
  BY <1>1, <1>2
<1>5. ASSUME NEW x \in Money!Things PROVE Money!Naming(x) = {}
  <2>1. x # "none"
    BY TransferAssumption DEF Money!Things
  <2>. QED BY <1>4, <2>1 DEF Money!Naming
<1>6. Money!NoCapture \in CaptureSet /\ Money!NoCapture.pc = "idle"
  BY DEF Money!NoCapture, CaptureSet
<1>7. MoneyTypes /\ DOMAIN paidBy = Money!Things
  BY <1>3, <1>6 DEF MoneyTypes, Money!Init, ThingSet
<1>8. Money!Allowed(transfers)
  BY <1>4 DEF Money!Allowed
<1>9. \A k \in Captures : CaptureOK(k)
  BY <1>6 DEF Money!Init, CaptureOK
<1>10. BegunOK
  BY LeaveOps DEF Money!Init, BegunOK
<1>11. \A x \in Money!Things : SettledOK(x)
  BY <1>5 DEF Money!Init, SettledOK
<1>. QED BY <1>7, <1>8, <1>9, <1>10, <1>11 DEF MoneyInv

\* A step that names nothing new in the rows, and opens nothing again.
LEMMA NamesKept ==
  ASSUME MoneyInv, MoneyTypes', DOMAIN transfers \subseteq DOMAIN transfers',
         \A t \in DOMAIN transfers' :
           IF t \in DOMAIN transfers
           THEN transfers'[t].claim = transfers[t].claim /\ transfers'[t].order = transfers[t].order
           ELSE transfers'[t].claim = "none" /\ transfers'[t].order = "none",
         paidBy' = paidBy,
         \A x \in Money!Things : Decided(x) => Decided(x)',
         \A k \in Captures : CaptureOK(k)', BegunOK'
  PROVE  MoneyInv'
<1>1. ASSUME NEW x \in Money!Things PROVE Money!Naming(x)' = Money!Naming(x)
  <2>1. x # "none"
    BY TransferAssumption DEF Money!Things
  <2>2. \A t : t \in Money!Naming(x)' <=> t \in Money!Naming(x)
    BY <2>1 DEF Money!Naming
  <2>. QED BY <2>2
<1>2. Money!Allowed(transfers)'
  BY DEF MoneyInv, Money!Allowed
<1>3. \A x \in Money!Things : SettledOK(x)'
  BY <1>1 DEF MoneyInv, SettledOK
<1>. QED BY <1>2, <1>3 DEF MoneyInv

\* A transfer that names nothing names x: the constraints say that it may, and x
\* is decided.
LEMMA NamesOne ==
  ASSUME MoneyInv, MoneyTypes', NEW t \in DOMAIN transfers, NEW x \in Money!Things,
         transfers' = Money!Names(t, x), Money!Unclaimed(t, x), Money!Allowed(transfers)',
         thing'[x] \notin {"pending", "address_only"},
         \A y \in Money!Things \ {x} : thing'[y] = thing[y],
         DOMAIN paidBy' = Money!Things,
         paidBy'[x] \subseteq paidBy[x] \cup {t}, \A y \in Money!Things \ {x} : paidBy'[y] = paidBy[y],
         \A k \in Captures : CaptureOK(k)', BegunOK'
  PROVE  MoneyInv'
<1>1. PICK n \in Nat : transfers \in [1..n -> Money!Row]
  BY DEF MoneyInv, MoneyTypes
<1>2. /\ DOMAIN transfers' = DOMAIN transfers
      /\ \A u \in DOMAIN transfers \ {t} : transfers'[u] = transfers[u]
      /\ x \in Claims => transfers'[t].claim = x /\ transfers'[t].order = transfers[t].order
           /\ transfers[t].claim = "none"
      /\ x \in Orders => transfers'[t].order = x /\ transfers'[t].claim = transfers[t].claim
           /\ transfers[t].order = "none"
  BY <1>1, TransferAssumption DEF Money!Names, Money!Unclaimed, Money!Row, Money!Things
<1>3. \A y \in Money!Things \ {x} : Money!Naming(y)' = Money!Naming(y)
  BY <1>2, TransferAssumption DEF Money!Naming, Money!Things
<1>4. Money!Naming(x)' = Money!Naming(x) \cup {t}
  BY <1>2, TransferAssumption DEF Money!Naming, Money!Things
<1>5. SettledOK(x)'
  BY <1>4 DEF MoneyInv, SettledOK, Decided
<1>6. \A y \in Money!Things \ {x} : SettledOK(y)'
  BY <1>3 DEF MoneyInv, SettledOK, Decided
<1>. QED BY <1>5, <1>6 DEF MoneyInv

LEMMA NewestIsLast ==
  ASSUME NEW n \in Nat, DOMAIN transfers = 1..n, DOMAIN transfers # {}
  PROVE  Money!Newest \in DOMAIN transfers /\ Money!Newest \in Nat
<1>1. n \in DOMAIN transfers /\ \A y \in DOMAIN transfers : n >= y
  OBVIOUS
<1>2. Money!Newest \in DOMAIN transfers
  BY <1>1 DEF Money!Newest, Money!Max
<1>. QED BY <1>2

LEMMA MoneyCounts == \A S : Money!Cardinality(S) = Cardinality(S)
BY Zenon DEF Cardinality, Money!Cardinality, IsFiniteSet, Money!IsFiniteSet

\* A row of its own is the next one.
LEMMA NextRow ==
  ASSUME NEW n \in Nat, DOMAIN transfers = 1..n PROVE Money!Cardinality(DOMAIN transfers) = n
BY FS_Interval, MoneyCounts

\* The steps of a capture that write no row.
LEMMA LookKeeps ==
  ASSUME MoneyInv, NEW handle \in Handles \cup {"none"}, Money!Look(handle) PROVE MoneyInv'
<1>1. PICK n \in Nat : transfers \in [1..n -> Money!Row]
  BY DEF MoneyInv, MoneyTypes
<1>2. PICK k \in Captures, found \in CaptureSet :
        /\ found.pc = "upgrade" => DOMAIN transfers # {} /\ found.row = Money!Newest
        /\ found.pc \in {"idle", "store", "upgrade"}
        /\ capture' = [capture EXCEPT ![k] = found]
  <2> DEFINE found == [Money!NoCapture EXCEPT !.handle = handle, !.pc =
                     CASE DOMAIN transfers = {} -> "store"
                       [] DOMAIN transfers # {} /\ handle # "none"
                         /\ transfers[Money!Newest].handle = "none"
                            /\ transfers[Money!Newest].claim = "none" -> "upgrade"
                       [] OTHER -> "idle",
                   !.row = IF DOMAIN transfers = {} THEN 0 ELSE Money!Newest]
             put == IF found.pc = "idle" THEN Money!NoCapture ELSE found
  <2>1. PICK k \in Captures : capture' = [capture EXCEPT ![k] = put]
    <3>1. Money!Idle # {} => (CHOOSE k \in Money!Idle : TRUE) \in Captures
      BY DEF Money!Idle
    <3>. QED BY <3>1 DEF Money!Look
  <2>2. Money!NoCapture \in CaptureSet /\ Money!NoCapture.pc = "idle"
    BY DEF Money!NoCapture, CaptureSet
  <2>3. DOMAIN transfers # {} => Money!Newest \in Nat
    BY <1>1, NewestIsLast
  <2>4. found \in CaptureSet /\ found.pc \in {"idle", "store", "upgrade"}
        /\ (found.pc = "upgrade" => DOMAIN transfers # {} /\ found.row = Money!Newest)
    BY <2>3 DEF Money!NoCapture, CaptureSet
  <2> HIDE DEF found
  <2>5. put \in CaptureSet /\ put.pc \in {"idle", "store", "upgrade"}
        /\ (put.pc = "upgrade" => DOMAIN transfers # {} /\ put.row = Money!Newest)
    BY <2>2, <2>4
  <2>. QED BY <2>1, <2>5
<1>3. UNCHANGED <<transfers, thing, deleted, begun, paidBy>>
  BY DEF Money!Look
<1>4. capture \in [Captures -> CaptureSet] /\ capture' \in [Captures -> CaptureSet]
  BY <1>2 DEF MoneyInv, MoneyTypes
<1>5. MoneyTypes'
  BY <1>3, <1>4 DEF MoneyInv, MoneyTypes, ThingSet
<1>6. \A j \in Captures : CaptureOK(j)'
  BY <1>1, <1>2, <1>3, <1>4, NewestIsLast DEF MoneyInv, CaptureOK
<1>7. BegunOK' /\ \A x \in Money!Things : Decided(x)' = Decided(x)
  BY <1>3 DEF MoneyInv, BegunOK, Decided
<1>. QED BY <1>3, <1>5, <1>6, <1>7, NamesKept

LEMMA CaptureKeeps ==
  ASSUME MoneyInv, NEW k \in Captures, NEW new \in CaptureSet,
         capture' = [capture EXCEPT ![k] = new], UNCHANGED <<transfers, thing, deleted, begun, paidBy>>,
         new.pc \in {"upgrade", "match", "pay", "learn"} => new.row \in DOMAIN transfers,
         new.pc \in {"pay", "learn"} => new.thing \in Money!Things
  PROVE  MoneyInv'
<1>1. capture \in [Captures -> CaptureSet] /\ capture' \in [Captures -> CaptureSet]
  BY DEF MoneyInv, MoneyTypes
<1>2. MoneyTypes'
  BY <1>1 DEF MoneyInv, MoneyTypes, ThingSet
<1>3. \A j \in Captures : CaptureOK(j)'
  BY <1>1 DEF MoneyInv, CaptureOK
<1>4. BegunOK' /\ \A x \in Money!Things : Decided(x)' = Decided(x)
  BY DEF MoneyInv, BegunOK, Decided
<1>. QED BY <1>2, <1>3, <1>4, NamesKept

\* A write that decides, deletes or restores, and what learnFromApproval reads.
LEMMA DeskKeeps ==
  ASSUME MoneyInv, UNCHANGED <<transfers, capture, paidBy>>,
         DOMAIN thing' = Money!Things, \A x \in Money!Things : thing'[x] \in ThingSet(x),
         deleted' \subseteq Orders,
         \A x \in Money!Things : Decided(x) => Decided(x)',
         \A q \in begun' : q.op \in {"look", "learn", "link"} =>
           \/ q \in begun
           \/ \A c \in Claims : q.thing = c => Decided(c)'
  PROVE  MoneyInv'
<1>1. MoneyTypes'
  BY DEF MoneyInv, MoneyTypes, ThingSet
<1>2. \A k \in Captures : CaptureOK(k)'
  BY DEF MoneyInv, CaptureOK
<1>3. BegunOK'
  BY DEF MoneyInv, BegunOK, Money!Things
<1>. QED BY <1>1, <1>2, <1>3, NamesKept

LEMMA MoneyNothing == Money!NoCapture \in CaptureSet /\ Money!NoCapture.pc = "idle"
BY DEF Money!NoCapture, CaptureSet

LEMMA KeepKeeps == ASSUME MoneyInv, NEW k \in Captures, Money!Keep(k) PROVE MoneyInv'
<1> DEFINE id == IF capture[k].pc = "store" THEN Money!Cardinality(DOMAIN transfers) + 1 ELSE capture[k].row
<1>1. PICK n \in Nat : transfers \in [1..n -> Money!Row]
  BY DEF MoneyInv, MoneyTypes
<1>2. /\ capture \in [Captures -> CaptureSet] /\ capture[k] \in CaptureSet /\ CaptureOK(k)
      /\ capture[k].pc \in {"store", "upgrade"} /\ UNCHANGED <<known, thing, deleted, begun, paidBy, runs>>
  BY DEF MoneyInv, MoneyTypes, Money!Keep
<1>3. /\ capture[k].pc = "store" => id = n + 1
      /\ capture[k].pc = "upgrade" => id \in 1..n
  BY <1>1, <1>2, NextRow DEF CaptureOK
<1>4. PICK new : /\ new \in Money!Row
                 /\ transfers' = [t \in DOMAIN transfers \cup {id} |-> IF t = id THEN new ELSE transfers[t]]
                 /\ capture[k].pc = "store" => new.claim = "none" /\ new.order = "none"
                 /\ capture[k].pc = "upgrade" => new.claim = transfers[id].claim
                      /\ new.order = transfers[id].order
  <2>1. CASE capture[k].pc = "store"
    <3>1. Money!Bare(capture[k].handle) \in Money!Row /\ Money!Bare(capture[k].handle).claim = "none"
          /\ Money!Bare(capture[k].handle).order = "none"
      BY <1>2 DEF Money!Bare, Money!Row, CaptureSet
    <3>2. transfers' = [t \in DOMAIN transfers \cup {id} |-> IF t = id THEN Money!Bare(capture[k].handle) ELSE transfers[t]]
      BY <2>1 DEF Money!Keep
    <3>. QED BY <2>1, <3>1, <3>2
  <2>2. CASE capture[k].pc = "upgrade"
    <3> DEFINE new == [transfers[id] EXCEPT !.handle = capture[k].handle]
    <3>1. new \in Money!Row /\ new.claim = transfers[id].claim /\ new.order = transfers[id].order
      <4>1. transfers[id] \in Money!Row /\ capture[k].handle \in Handles \cup {"none"}
        BY <1>1, <1>2, <1>3, <2>2 DEF CaptureSet
      <4> HIDE DEF id
      <4>. QED BY <4>1 DEF Money!Row
    <3>2. transfers' = [t \in DOMAIN transfers \cup {id} |-> IF t = id THEN new ELSE transfers[t]]
      BY <2>2 DEF Money!Keep
    <3>. QED BY <2>2, <3>1, <3>2
  <2>. QED BY <1>2, <2>1, <2>2
<1>5. \E m \in Nat : transfers' \in [1..m -> Money!Row] /\ 1..n \subseteq 1..m /\ id \in 1..m
  <2>1. CASE capture[k].pc = "store"
    <3>1. DOMAIN transfers \cup {id} = 1..(n + 1)
      BY <1>1, <1>3, <2>1
    <3>. QED BY <1>1, <1>3, <1>4, <2>1, <3>1
  <2>2. CASE capture[k].pc = "upgrade"
    <3>1. DOMAIN transfers \cup {id} = 1..n
      BY <1>1, <1>3, <2>2
    <3>. QED BY <1>1, <1>3, <1>4, <2>2, <3>1
  <2>. QED BY <1>2, <2>1, <2>2
<1>6. DOMAIN transfers \subseteq DOMAIN transfers' /\ id \in DOMAIN transfers'
  BY <1>1, <1>5
<1>7. PICK next \in CaptureSet :
        /\ capture' = [capture EXCEPT ![k] = next]
        /\ next.pc \in {"idle", "match"} /\ (next.pc = "match" => next.row = id)
  <2>1. id \in Nat
    BY <1>3, <1>2
  <2> HIDE DEF id
  <2>2. [capture[k] EXCEPT !.pc = "match", !.row = id] \in CaptureSet
    BY <1>2, <2>1 DEF CaptureSet
  <2>3. CASE capture[k].handle = "none"
    BY <1>2, <2>3, MoneyNothing DEF Money!Keep
  <2>4. CASE capture[k].handle # "none"
    <3>1. capture' = [capture EXCEPT ![k] = [capture[k] EXCEPT !.pc = "match", !.row = id]]
      BY <1>2, <2>4 DEF Money!Keep, id
    <3>. QED BY <1>2, <2>2, <3>1 DEF CaptureSet
  <2>. QED BY <2>3, <2>4
<1> HIDE DEF id
<1>8. MoneyTypes'
  BY <1>2, <1>5, <1>7 DEF MoneyInv, MoneyTypes, ThingSet
<1>9. \A j \in Captures : CaptureOK(j)'
  BY <1>2, <1>6, <1>7 DEF MoneyInv, CaptureOK
<1>10. BegunOK' /\ \A x \in Money!Things : Decided(x)' = Decided(x)
  BY <1>2 DEF MoneyInv, BegunOK, Decided
<1>11. \A t \in DOMAIN transfers' :
         IF t \in DOMAIN transfers
         THEN transfers'[t].claim = transfers[t].claim /\ transfers'[t].order = transfers[t].order
         ELSE transfers'[t].claim = "none" /\ transfers'[t].order = "none"
  BY <1>1, <1>2, <1>3, <1>4
<1>. QED BY <1>2, <1>6, <1>8, <1>9, <1>10, <1>11, NamesKept

LEMMA MatchKeeps == ASSUME MoneyInv, NEW k \in Captures, Money!Match(k) PROVE MoneyInv'
<1>1. /\ capture[k] \in CaptureSet /\ capture[k].pc = "match" /\ capture[k].row \in DOMAIN transfers
      /\ UNCHANGED <<transfers, thing, deleted, begun, paidBy>>
  BY DEF MoneyInv, MoneyTypes, CaptureOK, Money!Match
<1>2. PICK mine \in SUBSET Money!Things :
        capture' = [capture EXCEPT ![k] =
          IF Money!Cardinality(mine) # 1 THEN Money!NoCapture
          ELSE [@ EXCEPT !.pc = "pay", !.thing = CHOOSE x \in mine : TRUE,
                         !.learns = known[capture[k].handle] = "nobody"]]
  BY DEF Money!Match
<1>3. CASE Money!Cardinality(mine) # 1
  BY <1>1, <1>2, <1>3, MoneyNothing, CaptureKeeps
<1>4. CASE Money!Cardinality(mine) = 1
  <2>1. mine # {}
    BY <1>4, FS_EmptySet, MoneyCounts
  <2>2. (CHOOSE x \in mine : TRUE) \in Money!Things
    BY <2>1
  <2> DEFINE new == [capture[k] EXCEPT !.pc = "pay", !.thing = CHOOSE x \in mine : TRUE,
                                       !.learns = known[capture[k].handle] = "nobody"]
  <2>3. new \in CaptureSet /\ new.pc = "pay" /\ new.row = capture[k].row /\ new.thing \in Money!Things
    BY <1>1, <2>2 DEF CaptureSet
  <2>4. capture' = [capture EXCEPT ![k] = new]
    BY <1>2, <1>4
  <2> HIDE DEF new
  <2>. QED BY <1>1, <2>3, <2>4, CaptureKeeps
<1>. QED BY <1>3, <1>4

LEMMA SettleKeeps == ASSUME MoneyInv, NEW k \in Captures, Money!Settle(k) PROVE MoneyInv'
<1> DEFINE t == capture[k].row
           x == capture[k].thing
<1>1. /\ capture \in [Captures -> CaptureSet] /\ capture[k] \in CaptureSet /\ capture[k].pc = "pay"
      /\ t \in DOMAIN transfers /\ x \in Money!Things /\ UNCHANGED <<known, runs>>
  BY DEF MoneyInv, MoneyTypes, CaptureOK, Money!Settle
<1>2. CASE Money!Unclaimed(t, x) /\ Money!Outstanding(x) /\ Money!Allowed(Money!Names(t, x))
  <2>1. /\ transfers' = Money!Names(t, x)
        /\ thing' = [thing EXCEPT ![x] = IF x \in Claims THEN "approved" ELSE "paid"]
        /\ deleted' = deleted /\ begun' = begun \cup Money!Leave(thing', deleted)
        /\ paidBy' = [paidBy EXCEPT ![x] = @ \cup {t}]
        /\ capture' = [capture EXCEPT ![k] =
             IF @.learns /\ OwnerOf[x] # "guest" THEN [@ EXCEPT !.pc = "learn"] ELSE Money!NoCapture]
    BY <1>2 DEF Money!Settle, Money!Becomes
  <2>2. PICK n \in Nat : transfers \in [1..n -> Money!Row]
    BY DEF MoneyInv, MoneyTypes
  <2>3. transfers' \in [1..n -> Money!Row] /\ DOMAIN transfers' = DOMAIN transfers
    BY <1>1, <2>1, <2>2 DEF Money!Names, Money!Row, Money!Things
  <2>4. PICK new \in CaptureSet :
          /\ capture' = [capture EXCEPT ![k] = new] /\ new.row \in Nat
          /\ new.pc = "idle" \/ (new.pc = "learn" /\ new.row = t /\ new.thing = x)
    <3>1. [capture[k] EXCEPT !.pc = "learn"] \in CaptureSet
      BY <1>1 DEF CaptureSet
    <3>2. CASE capture[k].learns /\ OwnerOf[x] # "guest"
      <4>1. capture' = [capture EXCEPT ![k] = [capture[k] EXCEPT !.pc = "learn"]]
        BY <1>1, <2>1, <3>2
      <4>. QED BY <1>1, <3>1, <4>1 DEF CaptureSet
    <3>3. CASE ~(capture[k].learns /\ OwnerOf[x] # "guest")
      <4>1. capture' = [capture EXCEPT ![k] = Money!NoCapture]
        BY <1>1, <2>1, <3>3
      <4>. QED BY <4>1, MoneyNothing DEF CaptureSet
    <3>. QED BY <3>2, <3>3
  <2>5. /\ DOMAIN thing' = Money!Things /\ thing'[x] \in ThingSet(x)
        /\ thing'[x] \notin {"pending", "address_only"}
        /\ \A y \in Money!Things \ {x} : thing'[y] = thing[y]
    BY <1>1, <2>1 DEF MoneyInv, MoneyTypes, ThingSet, Decided
  <2>6. MoneyTypes'
    BY <1>1, <2>1, <2>3, <2>4, <2>5 DEF MoneyInv, MoneyTypes, ThingSet
  <2>7. \A j \in Captures : CaptureOK(j)'
    BY <1>1, <2>3, <2>4 DEF MoneyInv, CaptureOK
  <2>8. BegunOK'
    <3>1. \A y \in Money!Things : Decided(y) => Decided(y)'
      BY <2>5 DEF Decided
    <3>2. \A q \in begun' : q.op \in {"look", "learn", "link"} => q \in begun
      BY <2>1, LeaveOps
    <3>. QED BY <3>1, <3>2 DEF MoneyInv, BegunOK, Money!Things
  <2>9. /\ DOMAIN paidBy' = Money!Things /\ paidBy'[x] \subseteq paidBy[x] \cup {t}
        /\ \A y \in Money!Things \ {x} : paidBy'[y] = paidBy[y]
    BY <1>1, <2>1 DEF MoneyInv
  <2>10. Money!Allowed(transfers)'
    BY <1>2, <2>1 DEF Money!Allowed
  <2>. QED BY <1>1, <1>2, <2>1, <2>5, <2>6, <2>7, <2>8, <2>9, <2>10, NamesOne
<1>3. CASE ~(Money!Unclaimed(t, x) /\ Money!Outstanding(x) /\ Money!Allowed(Money!Names(t, x)))
  BY <1>1, <1>3, MoneyNothing, CaptureKeeps DEF Money!Settle
<1>. QED BY <1>2, <1>3

LEMMA LearnKeeps == ASSUME MoneyInv, NEW k \in Captures, Money!Learn(k) PROVE MoneyInv'
BY MoneyNothing, CaptureKeeps DEF Money!Learn

\* The desk, and whoever pays, deletes or restores an order.
LEMMA BecomesKeeps ==
  ASSUME MoneyInv, NEW status, NEW gone \in SUBSET Orders, Money!Becomes(status, gone),
         DOMAIN status = Money!Things, \A x \in Money!Things : status[x] \in ThingSet(x),
         \A x \in Money!Things : status[x] = thing[x] \/ status[x] \notin {"pending", "address_only"},
         UNCHANGED <<transfers, known, capture, paidBy, runs>>
  PROVE  MoneyInv'
<1>1. thing' = status /\ deleted' = gone /\ begun' = begun \cup Money!Leave(status, gone)
  BY DEF Money!Becomes
<1>2. \A y \in Money!Things : Decided(y) => Decided(y)'
  BY <1>1 DEF Decided
<1>3. \A q \in begun' : q.op \in {"look", "learn", "link"} => q \in begun
  BY <1>1, LeaveOps
<1>. QED BY <1>1, <1>2, <1>3, DeskKeeps

LEMMA ApproveKeeps == ASSUME MoneyInv, NEW c \in Claims, Money!Approve(c) PROVE MoneyInv'
<1>1. /\ c \in Money!Things /\ DOMAIN thing = Money!Things
      /\ \A y \in Money!Things : thing[y] \in ThingSet(y)
  BY DEF MoneyInv, MoneyTypes, Money!Things
<1>2. /\ UNCHANGED <<transfers, known, deleted, capture, paidBy, runs>>
      /\ thing' = [thing EXCEPT ![c] = "approved"]
      /\ begun' = begun \cup {Money!Request("look", c, 0)}
  BY DEF Money!Approve
<1>3. DOMAIN thing' = Money!Things /\ \A y \in Money!Things : thing'[y] \in ThingSet(y)
  BY <1>1, <1>2 DEF ThingSet
<1>4. Decided(c)' /\ \A y \in Money!Things : Decided(y) => Decided(y)'
  BY <1>1, <1>2 DEF Decided
<1>5. \A q \in begun' : q \in begun \/ q.thing = c
  BY <1>2 DEF Money!Request
<1>6. deleted' \subseteq Orders
  BY <1>2 DEF MoneyInv, MoneyTypes
<1>. QED BY <1>2, <1>3, <1>4, <1>5, <1>6, DeskKeeps

\* A status that closes a thing, and a status that stays.
LEMMA StatusBecomes ==
  ASSUME MoneyInv, NEW x \in Money!Things, NEW new \in ThingSet(x),
         new \notin {"pending", "address_only"}
  PROVE  LET status == [thing EXCEPT ![x] = new]
         IN  /\ DOMAIN status = Money!Things
             /\ \A y \in Money!Things :
                  /\ status[y] \in ThingSet(y)
                  /\ status[y] = thing[y] \/ status[y] \notin {"pending", "address_only"}
<1>1. DOMAIN thing = Money!Things /\ \A y \in Money!Things : thing[y] \in ThingSet(y)
  BY DEF MoneyInv, MoneyTypes
<1>. QED BY <1>1

LEMMA RejectKeeps == ASSUME MoneyInv, NEW c \in Claims, Money!Reject(c) PROVE MoneyInv'
<1>1. c \in Money!Things /\ "rejected" \in ThingSet(c) /\ deleted \in SUBSET Orders
  BY DEF MoneyInv, MoneyTypes, Money!Things, ThingSet
<1>. QED BY <1>1, StatusBecomes, BecomesKeeps DEF Money!Reject

LEMMA OrderKeeps ==
  ASSUME MoneyInv, NEW o \in Orders, Money!Submit(o) \/ Money!Delete(o) \/ Money!Restore(o)
  PROVE  MoneyInv'
<1>1. /\ o \in Money!Things /\ "paid" \in ThingSet(o)
      /\ deleted \in SUBSET Orders /\ deleted \cup {o} \in SUBSET Orders
      /\ deleted \ {o} \in SUBSET Orders
  BY TransferAssumption DEF MoneyInv, MoneyTypes, Money!Things, ThingSet
<1>2. DOMAIN thing = Money!Things /\ \A x \in Money!Things : thing[x] \in ThingSet(x)
  BY DEF MoneyInv, MoneyTypes
<1>3. CASE Money!Submit(o)
  BY <1>1, <1>3, StatusBecomes, BecomesKeeps DEF Money!Submit
<1>4. CASE Money!Delete(o)
  BY <1>1, <1>2, <1>4, BecomesKeeps DEF Money!Delete
<1>5. CASE Money!Restore(o)
  BY <1>1, <1>2, <1>5, BecomesKeeps DEF Money!Restore
<1>. QED BY <1>3, <1>4, <1>5

\* learnFromApproval, of what somebody has decided.
LEMMA AskKeeps ==
  ASSUME MoneyInv, NEW c \in Claims, Decided(c), NEW op, NEW t,
         begun' = begun \cup {Money!Request(op, c, t)},
         UNCHANGED <<transfers, thing, deleted, capture, paidBy, runs>>
  PROVE  MoneyInv'
<1>1. \A q \in begun' : q \in begun \/ q.thing = c
  BY DEF Money!Request
<1>2. DOMAIN thing' = Money!Things /\ (\A y \in Money!Things : thing'[y] \in ThingSet(y))
        /\ deleted' \subseteq Orders
  BY DEF MoneyInv, MoneyTypes, ThingSet
<1>3. \A y : Decided(y)' = Decided(y)
  BY DEF Decided
<1>. QED BY <1>1, <1>2, <1>3, DeskKeeps

LEMMA BegunDecided ==
  ASSUME MoneyInv, NEW c \in Claims, NEW t, NEW op \in {"look", "learn", "link"},
         Money!Request(op, c, t) \in begun
  PROVE  Decided(c)
BY DEF MoneyInv, BegunOK, Money!Request

LEMMA LearningKeeps ==
  ASSUME MoneyInv, NEW c \in Claims,
         Money!Candidate(c) \/ \E t \in DOMAIN transfers : Money!DeskLearn(c, t)
  PROVE  MoneyInv'
<1>1. CASE Money!Candidate(c)
  BY <1>1, BegunDecided, AskKeeps DEF Money!Candidate
<1>2. ASSUME NEW t \in DOMAIN transfers, Money!DeskLearn(c, t) PROVE MoneyInv'
  BY <1>2, BegunDecided, AskKeeps DEF Money!DeskLearn
<1>. QED BY <1>1, <1>2

LEMMA LinkKeeps ==
  ASSUME MoneyInv, NEW c \in Claims, NEW t \in DOMAIN transfers, Money!Link(c, t)
  PROVE  MoneyInv'
<1>1. /\ c \in Money!Things /\ Decided(c) /\ DOMAIN thing = Money!Things
      /\ UNCHANGED <<known, thing, deleted, capture, begun, paidBy, runs>>
      /\ \A y : Decided(y)' = Decided(y)
  BY BegunDecided DEF MoneyInv, MoneyTypes, Money!Things, Money!Link, Decided
<1>2. BegunOK' /\ DOMAIN paidBy' = Money!Things
  BY <1>1 DEF MoneyInv, BegunOK
<1>3. CASE transfers' = transfers
  <2>1. MoneyTypes' /\ \A k \in Captures : CaptureOK(k)'
    BY <1>1, <1>3 DEF MoneyInv, MoneyTypes, ThingSet, CaptureOK
  <2>. QED BY <1>1, <1>2, <1>3, <2>1, NamesKept
<1>4. CASE transfers[t].claim = "none" /\ Money!Allowed(Money!Names(t, c))
             /\ transfers' = Money!Names(t, c)
  <2>1. Money!Unclaimed(t, c) /\ Money!Allowed(transfers)'
    BY <1>4, TransferAssumption DEF Money!Unclaimed, Money!Allowed
  <2>2. PICK n \in Nat : transfers \in [1..n -> Money!Row]
    BY DEF MoneyInv, MoneyTypes
  <2>3. transfers' \in [1..n -> Money!Row] /\ DOMAIN transfers' = DOMAIN transfers
    BY <1>1, <1>4, <2>2 DEF Money!Names, Money!Row
  <2>4. MoneyTypes'
    BY <1>1, <2>3 DEF MoneyInv, MoneyTypes, ThingSet
  <2>5. \A j \in Captures : CaptureOK(j)'
    BY <1>1, <2>3 DEF MoneyInv, CaptureOK
  <2>6. thing' = thing /\ thing'[c] \notin {"pending", "address_only"} /\ paidBy' = paidBy
    BY <1>1 DEF Decided
  <2>. QED BY <1>1, <1>2, <1>4, <2>1, <2>4, <2>5, <2>6, NamesOne
<1>. QED BY <1>3, <1>4 DEF Money!Link

LEMMA DismissKeeps == ASSUME MoneyInv, NEW t \in DOMAIN transfers, Money!Dismiss(t) PROVE MoneyInv'
<1>1. PICK n \in Nat : transfers \in [1..n -> Money!Row]
  BY DEF MoneyInv, MoneyTypes
<1>2. /\ transfers' = [transfers EXCEPT ![t].dismissed = TRUE]
      /\ UNCHANGED <<known, thing, deleted, capture, begun, paidBy, runs>>
  BY DEF Money!Dismiss
<1>3. transfers' \in [1..n -> Money!Row] /\ DOMAIN transfers' = DOMAIN transfers
      /\ \A u \in DOMAIN transfers : transfers'[u].claim = transfers[u].claim
           /\ transfers'[u].order = transfers[u].order
  BY <1>1, <1>2 DEF Money!Row
<1>4. MoneyTypes'
  BY <1>2, <1>3 DEF MoneyInv, MoneyTypes, ThingSet
<1>5. (\A j \in Captures : CaptureOK(j)') /\ BegunOK'
  BY <1>2, <1>3 DEF MoneyInv, CaptureOK, BegunOK, Decided
<1>6. \A x \in Money!Things : Decided(x)' = Decided(x)
  BY <1>2 DEF Decided
<1>. QED BY <1>2, <1>3, <1>4, <1>5, <1>6, NamesKept

LEMMA DieKeeps == ASSUME MoneyInv, NEW k \in Captures, Money!Die(k) PROVE MoneyInv'
BY MoneyNothing, CaptureKeeps DEF Money!Die

LEMMA MoneyStep == MoneyInv /\ [Money!Next]_(Money!vars) => MoneyInv'
<1> SUFFICES ASSUME MoneyInv, [Money!Next]_(Money!vars) PROVE MoneyInv'
  OBVIOUS
<1>1. ASSUME NEW h \in Handles \cup {"none"}, Money!Look(h) PROVE MoneyInv'
  BY <1>1, LookKeeps
<1>2. ASSUME NEW k \in Captures,
             \/ Money!Keep(k) \/ Money!Match(k) \/ Money!Settle(k) \/ Money!Learn(k) \/ Money!Die(k)
      PROVE MoneyInv'
  BY <1>2, KeepKeeps, MatchKeeps, SettleKeeps, LearnKeeps, DieKeeps
<1>3. ASSUME NEW c \in Claims,
             \/ Money!Approve(c) \/ Money!Reject(c) \/ Money!Candidate(c)
             \/ \E t \in DOMAIN transfers : Money!DeskLearn(c, t) \/ Money!Link(c, t)
      PROVE  MoneyInv'
  BY <1>3, ApproveKeeps, RejectKeeps, LearningKeeps, LinkKeeps
<1>4. ASSUME NEW o \in Orders, Money!Submit(o) \/ Money!Delete(o) \/ Money!Restore(o) PROVE MoneyInv'
  BY <1>4, OrderKeeps
<1>5. ASSUME NEW t \in DOMAIN transfers, Money!Dismiss(t) PROVE MoneyInv'
  BY <1>5, DismissKeeps
<1>6. CASE UNCHANGED Money!vars
  <2>1. UNCHANGED <<transfers, thing, deleted, capture, begun, paidBy>>
    BY <1>6 DEF Money!vars
  <2>. QED BY <2>1 DEF MoneyInv, MoneyTypes, ThingSet, Money!Allowed, CaptureOK, BegunOK, Decided,
      SettledOK, Money!Naming
<1>. QED BY <1>1, <1>2, <1>3, <1>4, <1>5, <1>6 DEF Money!Next

LEMMA OneAtMost ==
  ASSUME NEW S, \A x, y \in S : x = y PROVE Money!Cardinality(S) <= 1
<1>1. CASE S = {}
  BY <1>1, FS_EmptySet, MoneyCounts
<1>2. CASE S # {}
  <2>1. PICK x : S = {x}
    BY <1>2
  <2>. QED BY <2>1, FS_Singleton, MoneyCounts
<1>. QED BY <1>1, <1>2

LEMMA MoneyPaysOnce == MoneyInv => Money!TransferPaysOnce
<1> SUFFICES ASSUME MoneyInv PROVE Money!TransferPaysOnce
  OBVIOUS
<1>1. Money!Allowed(transfers) /\ \A x \in Money!Things : SettledOK(x)
  BY DEF MoneyInv
<1>2. ASSUME NEW t \in DOMAIN transfers
      PROVE Money!Cardinality({x \in Money!Things : t \in Money!Naming(x)}) <= 1
  <2> DEFINE S == {x \in Money!Things : t \in Money!Naming(x)}
  <2>1. \A x \in S : x # "none" /\ (transfers[t].claim = x \/ transfers[t].order = x)
    BY TransferAssumption DEF Money!Naming, Money!Things
  <2>2. transfers[t].claim = "none" \/ transfers[t].order = "none"
    BY <1>1 DEF Money!Allowed
  <2>3. \A x, y \in S : x = y
    <3> HIDE DEF S
    <3>. QED BY <2>1, <2>2
  <2> HIDE DEF S
  <2>4. Money!Cardinality(S) <= 1
    BY <2>3, OneAtMost
  <2>. QED BY <2>4 DEF S
<1>3. ASSUME NEW x \in Money!Things PROVE Money!Cardinality(Money!Naming(x)) <= 1
  <2>1. PICK n \in Nat : transfers \in [1..n -> Money!Row]
    BY DEF MoneyInv, MoneyTypes
  <2>2. \A t, u \in Money!Naming(x) : t = u
    <3>1. \A t \in Money!Naming(x) : t \in DOMAIN transfers /\ (x \in Claims => transfers[t].claim = x)
                               /\ (x \in Orders => transfers[t].order = x)
      BY <2>1, TransferAssumption DEF Money!Naming, Money!Things, Money!Row
    <3>. QED BY <1>1, <3>1, TransferAssumption DEF Money!Allowed, Money!Things
  <2>. QED BY <2>2, OneAtMost
<1>. QED BY <1>1, <1>2, <1>3 DEF Money!TransferPaysOnce, SettledOK, Decided

\* A transfer pays for one thing, a claim or an order is paid by one, and what a
\* transfer names is not asked for again, however captures, the desk and the
\* students interleave or die, and however late they write what they decided on
\* an earlier read (TransfersService.ingest and learnFromApproval,
\* approveFromTransfer, markPaidFromTransfer, approve, reject, submitPayment,
\* softDelete, restore).
THEOREM TransferPaysOnceAlways == Spec => []TransferPaysOnce
<1>1. Init => MoneyInv
  BY MoneyInit DEF Init
<1>2. MoneyInv /\ [Next]_vars => MoneyInv'
  BY MoneyStep DEF Next, vars, money, Money!vars
<1>3. MoneyInv => TransferPaysOnce
  BY MoneyPaysOnce DEF TransferPaysOnce
<1>. QED BY <1>1, <1>2, <1>3, PTL DEF Spec

-----------------------------------------------------------------------------
(* The orders of printed books. *)

Statuses == Books!Live \cup {"rejected"}
Ops == {"none", "pay", "print", "ship many"} \cup UNION {p.ops : p \in Plans}
Pcs == {"idle", "read", "receipt", "write", "report", "claim", "call", "reading", "look", "hold"}
RequestSet == [pc : Pcs, op : Ops, order : Books!Ordered \cup {Books!NoJob.order},
               to : Statuses \cup {"none"}, pic : Pictures \cup {"none"}, ref : BOOLEAN]
OrderSet == [status : Statuses, deleted : BOOLEAN, held : BOOLEAN, sent : BOOLEAN,
             pic : Pictures \cup {"none"}, ref : BOOLEAN]
SeenSet == [accepted : Nat, returns : Nat, lost : Nat, held : BOOLEAN, away : BOOLEAN,
            unread : BOOLEAN, reports : SUBSET Books!Reports]

BooksTypes ==
  /\ order \in [Books!Ordered -> OrderSet] /\ seen \in [Books!Ordered -> SeenSet]
       /\ slot \in [Slots -> RequestSet]
  /\ {"orders", "ops"} \subseteq DOMAIN plan /\ plan.orders \subseteq Books!Ordered
       /\ plan.ops \subseteq Ops

\* What a request is about; only a return is written as one.
RequestOK(r) ==
  /\ r.pc # "idle" => r.order \in plan.orders
  /\ r.pc \in {"receipt", "write"} /\ r.to = "returned" => r.op = "return"
  /\ r.pc = "report" => r.op \in Books!Reports

\* A push stands for one call of the courier, under way or accepted; a return, and a
\* lost answer, for one more.
Calls(o) == {j \in Slots : slot[j].pc = "call" /\ slot[j].order = o}
Bit(b) == IF b THEN 1 ELSE 0
PushesOK(o) ==
  seen[o].accepted + Cardinality(Calls(o)) <= seen[o].returns + seen[o].lost + Bit(order[o].sent)

\* Of two orders whose readings found the transfer, one is held or a request is still
\* to look, or to hold.
Watcher(r) == r.pc = "hold" \/ (r.pc = "look" /\ r.ref)
Shows(o) == order[o].ref /\ order[o].status # "rejected" /\ ~seen[o].away /\ ~seen[o].unread
TwinsOK(o, p) ==
  Shows(o) /\ Shows(p) =>
    \/ seen[o].held \/ seen[p].held
    \/ \E j \in Slots : slot[j].order \in {o, p} /\ Watcher(slot[j])

BooksInv ==
  /\ BooksTypes /\ \A j \in Slots : RequestOK(slot[j])
  /\ \A o \in Books!Ordered : PushesOK(o) /\ (order[o].deleted => seen[o].away)
  /\ \A o, p \in plan.orders : o # p => TwinsOK(o, p)

\* One request moves on, and writes the row of one order.
Moving(j, o, new, r, s) ==
  /\ slot' = [slot EXCEPT ![j] = new] /\ new \in RequestSet /\ RequestOK(new)
  /\ order' = [order EXCEPT ![o] = r] /\ r \in OrderSet
  /\ seen' = [seen EXCEPT ![o] = s] /\ s \in SeenSet
  /\ DOMAIN plan' = DOMAIN plan /\ plan'.orders = plan.orders /\ plan'.ops = plan.ops
  /\ slot[j].pc # "idle" => slot[j].order = o
  /\ new.pc # "idle" => new.order = o
  /\ order[o].status = "rejected" => r.status = "rejected"
  /\ r.deleted => s.away \/ order[o].deleted
  /\ seen[o].away => s.away
  /\ seen[o].unread => s.unread
  /\ seen[o].held => s.held
  /\ s.accepted + Bit(new.pc = "call") + seen[o].returns + seen[o].lost + Bit(order[o].sent)
       <= seen[o].accepted + Bit(slot[j].pc = "call") + s.returns + s.lost + Bit(r.sent)
  /\ r.ref /\ ~order[o].ref => Watcher(new)
  /\ Watcher(slot[j]) => \/ Watcher(new) \/ s.held \/ s.unread
                         \/ slot[j].pc = "look" /\ ~Books!Twin(o)

LEMMA NoRequest ==
  /\ Books!NoJob \in RequestSet /\ Books!NoJob.pc = "idle" /\ RequestOK(Books!NoJob)
       /\ ~Watcher(Books!NoJob)
BY DEF Books!NoJob, RequestSet, Pcs, Ops, RequestOK, Watcher

LEMMA BooksInit == Books!Init => BooksInv
<1> SUFFICES ASSUME Books!Init PROVE BooksInv
  OBVIOUS
<1>1. /\ plan \in Plans /\ {"orders", "ops"} \subseteq DOMAIN plan
      /\ plan.from \subseteq Statuses /\ plan.orders \subseteq Books!Ordered /\ plan.ops \subseteq Ops
  BY BookAssumption DEF Books!Init, Books!Ordered, Ops, Statuses
<1>2. \A o \in Books!Ordered : seen[o] = Books!Unseen
  BY DEF Books!Init
<1>3. \A status \in Statuses : Books!NoOrder(status) \in OrderSet
  BY DEF Books!NoOrder, OrderSet
<1>4. PICK status \in [plan.orders -> plan.from] :
        order = [o \in Books!Ordered |-> Books!NoOrder(IF o \in plan.orders THEN status[o] ELSE "delivered")]
  BY DEF Books!Init
<1>5. order \in [Books!Ordered -> OrderSet] /\ \A o \in Books!Ordered : ~order[o].deleted
        /\ ~order[o].ref /\ ~order[o].sent
  <2>1. \A o \in Books!Ordered : (IF o \in plan.orders THEN status[o] ELSE "delivered") \in Statuses
    BY <1>1, <1>4 DEF Statuses, Books!Live
  <2>. QED BY <1>3, <1>4, <2>1 DEF Books!NoOrder
<1>6. Books!Unseen \in SeenSet /\ Books!Unseen.accepted = 0 /\ Books!Unseen.returns = 0
        /\ Books!Unseen.lost = 0
  BY DEF Books!Unseen, SeenSet
<1>7. BooksTypes /\ \A j \in Slots : slot[j] = Books!NoJob
  BY <1>1, <1>5, <1>6, NoRequest DEF BooksTypes, Books!Init
<1>8. ASSUME NEW o \in Books!Ordered PROVE PushesOK(o)
  <2>1. Calls(o) = {}
    BY <1>7, NoRequest DEF Calls
  <2>2. Cardinality(Calls(o)) = 0
    BY <2>1, FS_EmptySet
  <2>. QED BY <1>1, <1>2, <1>5, <1>6, <2>2 DEF PushesOK, Bit
<1>9. \A o, p \in plan.orders : TwinsOK(o, p)
  BY <1>1, <1>5 DEF TwinsOK, Shows
<1>. QED BY <1>1, <1>5, <1>7, <1>8, <1>9, NoRequest DEF BooksInv

LEMMA CallsChange ==
  ASSUME BooksInv, NEW j \in Slots, NEW o \in plan.orders, NEW new, NEW r, NEW s,
         Moving(j, o, new, r, s)
  PROVE  /\ Cardinality(Calls(o)) \in Nat
         /\ Cardinality(Calls(o)') = Cardinality(Calls(o)) - Bit(slot[j].pc = "call") + Bit(new.pc = "call")
         /\ \A p \in Books!Ordered \ {o} : Calls(p)' = Calls(p)
<1>1. /\ slot \in [Slots -> RequestSet] /\ slot' \in [Slots -> RequestSet]
      /\ slot'[j] = new /\ \A i \in Slots \ {j} : slot'[i] = slot[i]
      /\ slot[j].pc # "idle" => slot[j].order = o
      /\ new.pc # "idle" => new.order = o
  BY DEF BooksInv, BooksTypes, Moving
<1>2. IsFiniteSet(Calls(o)) /\ Cardinality(Calls(o)) \in Nat
  <2>1. IsFiniteSet(Calls(o))
    BY BookAssumption, FS_Subset DEF Calls
  <2>. QED BY <2>1, FS_CardinalityType
<1>3. \A p \in Books!Ordered \ {o} : Calls(p)' = Calls(p)
  BY <1>1 DEF Calls
<1>4. CASE slot[j].pc = "call" /\ new.pc = "call"
  <2>1. Calls(o)' = Calls(o)
    BY <1>1, <1>4 DEF Calls
  <2>. QED BY <1>2, <1>3, <1>4, <2>1 DEF Bit
<1>5. CASE slot[j].pc = "call" /\ new.pc # "call"
  <2>1. Calls(o)' = Calls(o) \ {j} /\ j \in Calls(o)
    BY <1>1, <1>5 DEF Calls
  <2>2. Cardinality(Calls(o)') = Cardinality(Calls(o)) - 1
    BY <1>2, <2>1, FS_RemoveElement
  <2>. QED BY <1>2, <1>3, <1>5, <2>2 DEF Bit
<1>6. CASE slot[j].pc # "call" /\ new.pc = "call"
  <2>1. Calls(o)' = Calls(o) \cup {j} /\ j \notin Calls(o)
    BY <1>1, <1>6 DEF Calls
  <2>2. Cardinality(Calls(o)') = Cardinality(Calls(o)) + 1
    BY <1>2, <2>1, FS_AddElement
  <2>. QED BY <1>2, <1>3, <1>6, <2>2 DEF Bit
<1>7. CASE slot[j].pc # "call" /\ new.pc # "call"
  <2>1. Calls(o)' = Calls(o)
    BY <1>1, <1>7 DEF Calls
  <2>. QED BY <1>2, <1>3, <1>7, <2>1 DEF Bit
<1>. QED BY <1>4, <1>5, <1>6, <1>7

LEMMA MovingKeeps ==
  ASSUME BooksInv, NEW j \in Slots, NEW o \in plan.orders, NEW new, NEW r, NEW s,
         Moving(j, o, new, r, s)
  PROVE  BooksInv' /\ \A p \in Books!Ordered : order[p].status = "rejected" => order'[p].status = "rejected"
<1>1. BooksTypes' /\ BooksTypes /\ plan'.orders = plan.orders /\ o \in Books!Ordered
  BY DEF BooksInv, BooksTypes, Moving
<1>2. /\ slot'[j] = new /\ \A i \in Slots \ {j} : slot'[i] = slot[i]
      /\ order'[o] = r /\ \A p \in Books!Ordered \ {o} : order'[p] = order[p]
      /\ seen'[o] = s /\ \A p \in Books!Ordered \ {o} : seen'[p] = seen[p]
  BY <1>1 DEF BooksTypes, Moving
<1>3. \A i \in Slots : RequestOK(slot[i])'
  BY <1>1, <1>2 DEF BooksInv, Moving, RequestOK
<1>4. ASSUME NEW p \in Books!Ordered PROVE PushesOK(p)' /\ (order[p].deleted => seen[p].away)'
  <2>1. CASE p = o
    <3>1. /\ s.accepted + Bit(new.pc = "call") + seen[o].returns + seen[o].lost + Bit(order[o].sent)
               <= seen[o].accepted + Bit(slot[j].pc = "call") + s.returns + s.lost + Bit(r.sent)
          /\ PushesOK(o) /\ s \in SeenSet /\ seen[o] \in SeenSet
      BY <1>1 DEF Moving, BooksInv, BooksTypes
    <3>2. \A b : Bit(b) \in {0, 1}
      BY DEF Bit
    <3>3. PushesOK(o)'
      BY <1>2, <3>1, <3>2, CallsChange DEF PushesOK, SeenSet, Bit
    <3>4. r.deleted => s.away
      BY <1>1 DEF Moving, BooksInv
    <3>. QED BY <1>2, <2>1, <3>3, <3>4
  <2>2. CASE p # o
    <3>1. Calls(p)' = Calls(p)
      BY <2>2, CallsChange
    <3>. QED BY <1>2, <2>2, <3>1 DEF BooksInv, PushesOK, Bit
  <2>. QED BY <2>1, <2>2
<1>5. /\ order[o].status = "rejected" => r.status = "rejected"
      /\ seen[o].away => s.away
      /\ seen[o].unread => s.unread
      /\ seen[o].held => s.held
      /\ r.ref /\ ~order[o].ref => Watcher(new)
      /\ Watcher(slot[j]) => Watcher(new) \/ s.held \/ s.unread \/ (slot[j].pc = "look" /\ ~Books!Twin(o))
      /\ Watcher(new) => new.order = o
      /\ Watcher(slot[j]) => slot[j].order = o
  BY DEF Moving, Watcher
<1>6. ASSUME NEW p \in plan.orders, p # o PROVE TwinsOK(o, p)' /\ TwinsOK(p, o)'
  <2>1. SUFFICES ASSUME Shows(o)', Shows(p)', ~seen'[o].held, ~seen'[p].held
                 PROVE  \E i \in Slots : slot'[i].order \in {o, p} /\ Watcher(slot'[i])
    BY DEF TwinsOK, Watcher
  <2>2. Shows(p) /\ r.ref /\ ~s.away /\ ~s.unread /\ ~seen[o].away /\ ~seen[o].unread
        /\ order[o].status # "rejected" /\ ~s.held /\ ~seen[o].held /\ ~seen[p].held
    BY <1>1, <1>2, <1>5, <1>6, <2>1 DEF Shows, BooksTypes
  <2>3. CASE Watcher(new)
    BY <1>2, <1>5, <2>3
  <2>4. CASE ~Watcher(new)
    <3>1. order[o].ref /\ Shows(o)
      BY <1>5, <2>2, <2>4 DEF Shows
    <3>2. PICK i \in Slots : slot[i].order \in {o, p} /\ Watcher(slot[i])
      BY <1>6, <2>2, <3>1 DEF BooksInv, TwinsOK
    <3>3. i # j
      <4>1. SUFFICES ASSUME Watcher(slot[j]) PROVE FALSE
        BY <3>2
      <4>2. ~Books!Twin(o)
        BY <1>5, <2>2, <2>4, <4>1
      <4>3. ~order[p].deleted /\ order[p].status # "rejected" /\ order[p].ref
        BY <1>1, <2>2 DEF BooksInv, BooksTypes, Shows
      <4>. QED BY <1>6, <4>2, <4>3 DEF Books!Twin
    <3>. QED BY <1>2, <3>2, <3>3
  <2>. QED BY <2>3, <2>4
<1>7. ASSUME NEW p \in plan.orders, NEW q \in plan.orders, p # q, p # o, q # o
      PROVE  TwinsOK(p, q)'
  <2>1. SUFFICES ASSUME Shows(p)', Shows(q)', ~seen'[p].held, ~seen'[q].held
                 PROVE  \E i \in Slots : slot'[i].order \in {p, q} /\ Watcher(slot'[i])
    BY DEF TwinsOK, Watcher
  <2>2. Shows(p) /\ Shows(q) /\ ~seen[p].held /\ ~seen[q].held
    BY <1>1, <1>2, <1>7, <2>1 DEF Shows, BooksTypes
  <2>3. PICK i \in Slots : slot[i].order \in {p, q} /\ Watcher(slot[i])
    BY <1>7, <2>2 DEF BooksInv, TwinsOK
  <2>4. i # j
    BY <1>5, <1>7, <2>3
  <2>. QED BY <1>2, <2>3, <2>4
<1>8. \A p, q \in plan.orders : p # q => TwinsOK(p, q)'
  BY <1>6, <1>7
<1>9. \A p \in Books!Ordered : order[p].status = "rejected" => order'[p].status = "rejected"
  BY <1>2, <1>5
<1>. QED BY <1>1, <1>3, <1>4, <1>8, <1>9 DEF BooksInv

\* A request that writes nothing.
LEMMA AsideKeeps ==
  ASSUME BooksInv, NEW j \in Slots, NEW o \in plan.orders, NEW new \in RequestSet, RequestOK(new),
         slot' = [slot EXCEPT ![j] = new], UNCHANGED <<order, seen>>,
         DOMAIN plan' = DOMAIN plan, plan'.orders = plan.orders, plan'.ops = plan.ops,
         slot[j].pc # "idle" => slot[j].order = o,
         new.pc # "idle" => new.order = o,
         new.pc = "call" => slot[j].pc = "call",
         Watcher(slot[j]) => Watcher(new) \/ (slot[j].pc = "look" /\ ~Books!Twin(o))
  PROVE  Moving(j, o, new, order[o], seen[o])
<1>1. /\ order' = [order EXCEPT ![o] = order[o]] /\ order[o] \in OrderSet
      /\ seen' = [seen EXCEPT ![o] = seen[o]] /\ seen[o] \in SeenSet
  BY DEF BooksInv, BooksTypes
<1>2. /\ seen[o].accepted \in Nat /\ seen[o].returns \in Nat /\ seen[o].lost \in Nat
      /\ Bit(new.pc = "call") <= Bit(slot[j].pc = "call") /\ \A b : Bit(b) \in {0, 1}
  BY <1>1 DEF Bit, SeenSet

<1>3. seen[o].accepted + Bit(new.pc = "call") + seen[o].returns + seen[o].lost + Bit(order[o].sent)
       <= seen[o].accepted + Bit(slot[j].pc = "call") + seen[o].returns + seen[o].lost + Bit(order[o].sent)
  BY <1>2
<1>. QED BY <1>1, <1>3 DEF Moving

LEMMA RequestTypes ==
  ASSUME BooksInv, NEW j \in Slots, slot[j].pc # "idle"
  PROVE  /\ slot[j] \in RequestSet /\ slot[j].order \in plan.orders /\ slot[j].order \in Books!Ordered
         /\ RequestOK(slot[j]) /\ order[slot[j].order] \in OrderSet /\ seen[slot[j].order] \in SeenSet
BY DEF BooksInv, BooksTypes, RequestOK

\* What a request becomes when it has read its order.
LEMMA ReadGives ==
  ASSUME BooksInv, NEW op \in Ops, NEW o \in plan.orders, NEW pic \in Pictures \cup {"none"}
  PROVE  /\ Books!AfterRead(op, o, pic) \in RequestSet /\ RequestOK(Books!AfterRead(op, o, pic))
         /\ Books!AfterRead(op, o, pic).order = o /\ Books!AfterRead(op, o, pic).pc # "call"
<1> DEFINE asked == [Books!NoJob EXCEPT !.op = op, !.order = o, !.pic = pic]
           Good(n) == n \in RequestSet /\ RequestOK(n) /\ n.order = o /\ n.pc # "call"
<1>1. o \in Books!Ordered
  BY DEF BooksInv, BooksTypes
<1>2. /\ asked \in RequestSet /\ asked.order = o /\ asked.to = "none" /\ asked.op = op
  BY <1>1, NoRequest DEF RequestSet, Books!NoJob
<1>3. Books!ReportTo(op, o) \in Statuses \cup {"none"}
  BY DEF Books!ReportTo, Statuses, Books!Live, Books!Shippable
<1>4. op \in DOMAIN Books!Moves => Books!Moves[op].to \in Statuses
        /\ (Books!Moves[op].to = "returned" => op = "return")
  BY DEF Books!Moves, Statuses, Books!Live, Books!Shippable, Books!SubmitPayment, Books!MarkPaid,
      Books!MarkPrinting, Books!MarkShipped,
         Books!MarkDelivered, Books!MarkReturned, Books!ConfirmReceived, Books!Reject
<1>. HIDE DEF asked
<1>5. Good([asked EXCEPT !.pc = "receipt", !.to = "paid"])
  BY <1>1, <1>2 DEF RequestSet, RequestOK, Pcs, Statuses, Books!Live, Books!Shippable
<1>6. Good([asked EXCEPT !.pc = "claim"])
  BY <1>1, <1>2 DEF RequestSet, RequestOK, Pcs
<1>7. Good([asked EXCEPT !.pc = "read", !.op = "print"])
  BY <1>1, <1>2 DEF RequestSet, RequestOK, Pcs, Ops
<1>8. Good([asked EXCEPT !.pc = "write", !.to = "shipped"])
  BY <1>1, <1>2 DEF RequestSet, RequestOK, Pcs, Statuses, Books!Live
<1>9. op \in Books!Reports => Good([asked EXCEPT !.pc = "report", !.to = Books!ReportTo(op, o)])
  BY <1>1, <1>2, <1>3 DEF RequestSet, RequestOK, Pcs
<1>10. op \in DOMAIN Books!Moves => Good([asked EXCEPT !.pc = "write", !.to = Books!Moves[op].to])
  BY <1>1, <1>2, <1>4 DEF RequestSet, RequestOK, Pcs
<1>11. Good([asked EXCEPT !.pc = "write"])
  BY <1>1, <1>2 DEF RequestSet, RequestOK, Pcs
<1> DEFINE paid == [asked EXCEPT !.pc = "receipt", !.to = "paid"]
           sent == [asked EXCEPT !.pc = "claim"]
           print == [asked EXCEPT !.pc = "read", !.op = "print"]
           ship == [asked EXCEPT !.pc = "write", !.to = "shipped"]
           reported == [asked EXCEPT !.pc = "report", !.to = Books!ReportTo(op, o)]
           move == [asked EXCEPT !.pc = "write", !.to = Books!Moves[op].to]
           other == [asked EXCEPT !.pc = "write"]
<1>12. Books!AfterRead(op, o, pic) =
         CASE op = "pay" -> paid [] op = "push" -> sent [] op = "print many" -> print
           [] op = "ship many" -> ship [] op \in Books!Reports -> reported
           [] op \in DOMAIN Books!Moves \ {"pay"} -> move [] OTHER -> other
  BY Zenon DEF Books!AfterRead, asked
<1>13. /\ Good(paid) /\ Good(sent) /\ Good(print) /\ Good(ship) /\ Good(other)
       /\ op \in Books!Reports => Good(reported)
       /\ op \in DOMAIN Books!Moves => Good(move)
  BY <1>5, <1>6, <1>7, <1>8, <1>9, <1>10, <1>11
<1>. HIDE DEF paid, sent, print, ship, reported, move, other, Good
<1>14. Good(Books!AfterRead(op, o, pic))
  BY <1>12, <1>13
<1>. QED BY <1>14 DEF Good

LEMMA BeginMoves ==
  ASSUME BooksInv, NEW op \in plan.ops \cup {"pay"}, NEW o \in plan.orders, Books!Begin(op, o)
  PROVE  \E j \in Slots : \E new : Moving(j, o, new, order[o], seen[o])
<1>1. op \in Ops
  BY DEF BooksInv, BooksTypes, Ops
<1>2. PICK j \in Slots, pic \in Pictures \cup {"none"} :
        slot[j].pc = "idle" /\ slot' = [slot EXCEPT ![j] = Books!AfterRead(op, o, pic)]
  <2>1. (CHOOSE j \in Books!Idle : TRUE) \in Books!Idle
    BY DEF Books!Begin
  <2>2. PICK pic \in IF op = "pay" THEN Pictures ELSE {"none"} :
          slot' = [slot EXCEPT ![CHOOSE j \in Books!Idle : TRUE] = Books!AfterRead(op, o, pic)]
    BY DEF Books!Begin
  <2>3. pic \in Pictures \cup {"none"}
    BY <2>2
  <2>. QED BY <2>1, <2>2, <2>3 DEF Books!Idle
<1>3. DOMAIN plan' = DOMAIN plan /\ plan'.orders = plan.orders /\ plan'.ops = plan.ops
      /\ UNCHANGED <<order, seen>>
  <2>1. {"orders", "ops"} \subseteq DOMAIN plan
    BY DEF BooksInv, BooksTypes
  <2>2. plan' = [plan EXCEPT !.payments = @ - 1] \/ plan' = [plan EXCEPT !.requests = @ - 1]
    BY DEF Books!Begin
  <2>. QED BY <2>1, <2>2 DEF Books!Begin
<1>4. ~Watcher(slot[j])
  BY <1>2 DEF Watcher
<1>. QED BY <1>1, <1>2, <1>3, <1>4, ReadGives, AsideKeeps

LEMMA AsideMoves ==
  ASSUME BooksInv, NEW j \in Slots, Books!Read(j) \/ Books!Receipt(j)
  PROVE  \E new : Moving(j, slot[j].order, new, order[slot[j].order], seen[slot[j].order])
<1> DEFINE o == slot[j].order
<1>1. /\ slot[j].pc \in {"read", "receipt"} /\ UNCHANGED <<order, seen, plan>> /\ ~Watcher(slot[j])
  BY DEF Books!Read, Books!Receipt, Watcher
<1>2. slot[j] \in RequestSet /\ o \in plan.orders /\ RequestOK(slot[j])
  BY <1>1, RequestTypes
<1>3. CASE slot' = [slot EXCEPT ![j] = Books!NoJob]
  BY <1>1, <1>2, <1>3, NoRequest, AsideKeeps
<1>4. CASE slot' = [slot EXCEPT ![j] = Books!AfterRead(slot[j].op, o, "none")]
  <2>1. slot[j].op \in Ops
    BY <1>2 DEF RequestSet
  <2>. QED BY <1>1, <1>2, <1>4, <2>1, ReadGives, AsideKeeps
<1>5. ASSUME slot[j].pc = "receipt",
             NEW new, new = [slot[j] EXCEPT !.pc = "write"]
                      \/ new = [slot[j] EXCEPT !.pc = "write", !.pic = "none"],
             slot' = [slot EXCEPT ![j] = new]
      PROVE  Moving(j, o, new, order[o], seen[o])
  <2>1. new \in RequestSet /\ new.order = o /\ new.pc = "write" /\ RequestOK(new)
    BY <1>2, <1>5 DEF RequestSet, RequestOK, Pcs
  <2>. QED BY <1>1, <1>2, <1>5, <2>1, AsideKeeps
<1>6. CASE slot[j].pc = "receipt" /\ slot' = [slot EXCEPT ![j].pc = "write"]
  BY <1>5, <1>6
<1>7. CASE slot[j].pc = "receipt" /\ slot' = [slot EXCEPT ![j].pc = "write", ![j].pic = "none"]
  <2>1. slot' = [slot EXCEPT ![j] = [slot[j] EXCEPT !.pc = "write", !.pic = "none"]]
    BY <1>7 DEF BooksInv, BooksTypes
  <2>. QED BY <1>5, <1>7, <2>1
<1>8. \/ slot' = [slot EXCEPT ![j] = Books!NoJob]
      \/ slot' = [slot EXCEPT ![j] = Books!AfterRead(slot[j].op, o, "none")]
      \/ slot[j].pc = "receipt" /\ slot' = [slot EXCEPT ![j].pc = "write"]
      \/ slot[j].pc = "receipt" /\ slot' = [slot EXCEPT ![j].pc = "write", ![j].pic = "none"]
  BY DEF Books!Read, Books!Receipt
<1>. QED BY <1>3, <1>4, <1>6, <1>7, <1>8
LEMMA WriteMoves ==
  ASSUME BooksInv, NEW j \in Slots, Books!Write(j)
  PROVE  \E new, r, s : Moving(j, slot[j].order, new, r, s)
<1> DEFINE o == slot[j].order
           op == slot[j].op
           to == slot[j].to
<1>1. /\ slot[j].pc = "write" /\ UNCHANGED plan /\ ~Watcher(slot[j])
  BY DEF Books!Write, Watcher
<1>2. /\ slot[j] \in RequestSet /\ o \in plan.orders /\ o \in Books!Ordered /\ RequestOK(slot[j])
      /\ order[o] \in OrderSet /\ seen[o] \in SeenSet
  BY <1>1, RequestTypes
<1>3. CASE Books!Refused(o, to)
  <2>1. slot' = [slot EXCEPT ![j] = Books!NoJob] /\ UNCHANGED <<order, seen>>
    BY <1>3 DEF Books!Write
  <2>. QED BY <1>1, <1>2, <2>1, NoRequest, AsideKeeps
<1>4. CASE ~Books!Refused(o, to)
  <2> DEFINE r == [Books!Moved(o, to) EXCEPT !.deleted = IF op = "delete" THEN TRUE ELSE @ /\ op # "restore",
                                       !.held = @ /\ op # "clear",
                                       !.pic = IF op = "pay" THEN slot[j].pic ELSE @]
             s == [seen[o] EXCEPT !.away = @ \/ op = "delete",
                                  !.returns = IF op = "return" THEN @ + 1 ELSE @]
             new == IF op = "pay" THEN [Books!NoJob EXCEPT !.pc = "reading", !.order = o] ELSE Books!NoJob
  <2>1. /\ order' = [order EXCEPT ![o] = r] /\ seen' = [seen EXCEPT ![o] = s]
        /\ slot' = [slot EXCEPT ![j] = new]
    BY <1>2, <1>4 DEF Books!Write, BooksInv, BooksTypes
  <2>2. to \in Statuses \cup {"none"} /\ slot[j].pic \in Pictures \cup {"none"}
    BY <1>2 DEF RequestSet
  <2>3. /\ Books!Moved(o, to) \in OrderSet
        /\ Books!Moved(o, to).deleted = order[o].deleted /\ Books!Moved(o, to).ref = order[o].ref
        /\ Books!Moved(o, to).status = IF to = "none" THEN order[o].status ELSE to
        /\ Books!Moved(o, to).sent = (order[o].sent /\ to # "returned")
    BY <1>2, <2>2 DEF Books!Moved, OrderSet
  <2>4. /\ r \in OrderSet /\ r.status = Books!Moved(o, to).status /\ r.ref = order[o].ref
        /\ r.sent = (order[o].sent /\ to # "returned")
        /\ r.deleted => order[o].deleted \/ op = "delete"
    BY <2>2, <2>3 DEF OrderSet
  <2>5. /\ s \in SeenSet /\ s.accepted = seen[o].accepted /\ s.lost = seen[o].lost
        /\ s.away = (seen[o].away \/ op = "delete") /\ s.unread = seen[o].unread
             /\ s.held = seen[o].held
        /\ s.returns = IF op = "return" THEN seen[o].returns + 1 ELSE seen[o].returns
    <3>1. (IF op = "return" THEN seen[o].returns + 1 ELSE seen[o].returns) \in Nat
          /\ seen[o].away \in BOOLEAN /\ (seen[o].away \/ op = "delete") \in BOOLEAN
      BY <1>2 DEF SeenSet
    <3>. QED BY <1>2, <3>1 DEF SeenSet
  <2>6. new \in RequestSet /\ RequestOK(new) /\ new.pc # "call" /\ (new.pc # "idle" => new.order = o)
    <3>1. [Books!NoJob EXCEPT !.pc = "reading", !.order = o] \in RequestSet
      BY <1>2, NoRequest DEF RequestSet, Pcs
    <3>2. /\ [Books!NoJob EXCEPT !.pc = "reading", !.order = o].pc = "reading"
          /\ [Books!NoJob EXCEPT !.pc = "reading", !.order = o].order = o
      BY NoRequest DEF RequestSet
    <3>3. CASE op = "pay"
      BY <1>2, <3>1, <3>2, <3>3 DEF RequestOK
    <3>4. CASE op # "pay"
      BY <3>4, NoRequest
    <3>. QED BY <3>3, <3>4
  <2>7. order[o].status = "rejected" => r.status = "rejected"
    BY <1>4, <2>3, <2>4 DEF Books!Refused
  <2>8. to = "returned" => op = "return"
    BY <1>1, <1>2 DEF RequestOK
  <2>. HIDE DEF r, s, new
  <2>9. seen[o].accepted \in Nat /\ seen[o].returns \in Nat /\ seen[o].lost \in Nat
    BY <1>2 DEF SeenSet
  <2>10. s.accepted + Bit(new.pc = "call") + seen[o].returns + seen[o].lost + Bit(order[o].sent)
           <= seen[o].accepted + Bit(slot[j].pc = "call") + s.returns + s.lost + Bit(r.sent)
    <3>1. /\ Bit(new.pc = "call") = 0 /\ Bit(slot[j].pc = "call") = 0
          /\ Bit(order[o].sent) \in {0, 1} /\ Bit(r.sent) \in {0, 1}
          /\ to # "returned" => Bit(r.sent) = Bit(order[o].sent)
      BY <1>1, <2>4, <2>6 DEF Bit
    <3>. QED BY <2>5, <2>8, <2>9, <3>1
  <2>11. Moving(j, o, new, r, s)
    BY <1>1, <2>1, <2>4, <2>5, <2>6, <2>7, <2>10 DEF Moving
  <2>. QED BY <2>11
<1>. QED BY <1>3, <1>4

LEMMA ReportMoves ==
  ASSUME BooksInv, NEW j \in Slots, Books!Report(j)
  PROVE  \E new, r, s : Moving(j, slot[j].order, new, r, s)
<1> DEFINE o == slot[j].order
           op == slot[j].op
           to == slot[j].to
<1>1. /\ slot[j].pc = "report" /\ UNCHANGED plan /\ ~Watcher(slot[j])
      /\ slot' = [slot EXCEPT ![j] = Books!NoJob]
  BY DEF Books!Report, Watcher
<1>2. /\ slot[j] \in RequestSet /\ o \in plan.orders /\ o \in Books!Ordered /\ op \in Books!Reports
      /\ order[o] \in OrderSet /\ seen[o] \in SeenSet
  BY <1>1, RequestTypes DEF RequestOK
<1>3. CASE op \in seen[o].reports \/ Books!Refused(o, to)
  <2>1. UNCHANGED <<order, seen>>
    BY <1>3 DEF Books!Report
  <2>. QED BY <1>1, <1>2, <2>1, NoRequest, AsideKeeps
<1>4. CASE ~(op \in seen[o].reports \/ Books!Refused(o, to))
  <2> DEFINE r == Books!Moved(o, to)
             s == [seen[o] EXCEPT !.reports = @ \cup {op},
                                  !.returns = IF to = "returned" THEN @ + 1 ELSE @]
  <2>1. order' = [order EXCEPT ![o] = r] /\ seen' = [seen EXCEPT ![o] = s]
    BY <1>2, <1>4 DEF Books!Report, BooksInv, BooksTypes
  <2>2. to \in Statuses \cup {"none"}
    BY <1>2 DEF RequestSet
  <2>3. /\ r \in OrderSet /\ r.deleted = order[o].deleted /\ r.ref = order[o].ref
        /\ r.status = IF to = "none" THEN order[o].status ELSE to
        /\ r.sent = (order[o].sent /\ to # "returned")
    BY <1>2, <2>2 DEF Books!Moved, OrderSet
  <2>4. /\ s \in SeenSet /\ s.accepted = seen[o].accepted /\ s.lost = seen[o].lost
        /\ s.away = seen[o].away /\ s.unread = seen[o].unread /\ s.held = seen[o].held
        /\ s.returns = IF to = "returned" THEN seen[o].returns + 1 ELSE seen[o].returns
    <3>1. seen[o].reports \cup {op} \in SUBSET Books!Reports /\ seen[o].returns \in Nat
      BY <1>2 DEF SeenSet
    <3>2. (IF to = "returned" THEN seen[o].returns + 1 ELSE seen[o].returns) \in Nat
      BY <3>1
    <3>. QED BY <1>2, <3>1, <3>2 DEF SeenSet
  <2>5. order[o].status = "rejected" => r.status = "rejected"
    BY <1>4, <2>3 DEF Books!Refused
  <2>. HIDE DEF r, s
  <2>6. seen[o].accepted \in Nat /\ seen[o].returns \in Nat /\ seen[o].lost \in Nat
    BY <1>2 DEF SeenSet
  <2>7. s.accepted + Bit(Books!NoJob.pc = "call") + seen[o].returns + seen[o].lost + Bit(order[o].sent)
           <= seen[o].accepted + Bit(slot[j].pc = "call") + s.returns + s.lost + Bit(r.sent)
    <3>1. /\ Bit(Books!NoJob.pc = "call") = 0 /\ Bit(slot[j].pc = "call") = 0
          /\ Bit(order[o].sent) \in {0, 1} /\ Bit(r.sent) \in {0, 1}
          /\ to # "returned" => Bit(r.sent) = Bit(order[o].sent)
      BY <1>1, <2>3, NoRequest DEF Bit
    <3>. QED BY <2>4, <2>6, <3>1
  <2>8. Moving(j, o, Books!NoJob, r, s)
    BY <1>1, <2>1, <2>3, <2>4, <2>5, <2>7, NoRequest DEF Moving
  <2>. QED BY <2>8
<1>. QED BY <1>3, <1>4

\* The steps that push.
LEMMA PushMoves ==
  ASSUME BooksInv, NEW j \in Slots, Books!Claim(j) \/ Books!Call(j)
  PROVE  \E new, r, s : Moving(j, slot[j].order, new, r, s)
<1> DEFINE o == slot[j].order
<1>1. slot[j].pc \in {"claim", "call"} /\ UNCHANGED plan /\ ~Watcher(slot[j])
  BY DEF Books!Claim, Books!Call, Watcher
<1>2. /\ slot[j] \in RequestSet /\ o \in plan.orders /\ o \in Books!Ordered /\ RequestOK(slot[j])
      /\ order[o] \in OrderSet /\ seen[o] \in SeenSet
      /\ order \in [Books!Ordered -> OrderSet] /\ seen \in [Books!Ordered -> SeenSet]
  BY <1>1, RequestTypes DEF BooksInv, BooksTypes
<1>3. /\ order' = [order EXCEPT ![o] = order'[o]] /\ seen' = [seen EXCEPT ![o] = seen'[o]]
      /\ order'[o] \in OrderSet /\ seen'[o] \in SeenSet
      /\ order'[o].status = order[o].status /\ order'[o].deleted = order[o].deleted
      /\ order'[o].ref = order[o].ref /\ seen'[o].away = seen[o].away
      /\ seen'[o].unread = seen[o].unread /\ seen'[o].held = seen[o].held
  <2>1. /\ order' = order \/ order' = [order EXCEPT ![o].sent = TRUE] \/ order' = [order EXCEPT ![o].sent = FALSE]
        /\ \/ seen' = seen \/ seen' = [seen EXCEPT ![o].accepted = @ + 1]
           \/ seen' = [seen EXCEPT ![o].accepted = @ + 1, ![o].lost = @ + 1]
    BY DEF Books!Claim, Books!Call
  <2>2. PICK b \in BOOLEAN : order' = [order EXCEPT ![o] = [order[o] EXCEPT !.sent = b]]
    <3>1. order[o].sent \in BOOLEAN /\ order = [order EXCEPT ![o] = [order[o] EXCEPT !.sent = order[o].sent]]
      BY <1>2 DEF OrderSet
    <3>. QED BY <1>2, <2>1, <3>1
  <2>3. PICK a \in Nat, l \in Nat : seen' = [seen EXCEPT ![o] = [seen[o] EXCEPT !.accepted = a, !.lost = l]]
    <3> DEFINE With(a, l) == [seen EXCEPT ![o] = [seen[o] EXCEPT !.accepted = a, !.lost = l]]
               acc == seen[o].accepted
               out == seen[o].lost
    <3>1. acc \in Nat /\ out \in Nat
      BY <1>2 DEF SeenSet
    <3>2. seen' = seen => seen' = With(acc, out)
      <4>1. seen[o] = [seen[o] EXCEPT !.accepted = acc, !.lost = out]
        BY <1>2 DEF SeenSet
      <4>. QED BY <1>2, <4>1
    <3>3. seen' = [seen EXCEPT ![o].accepted = @ + 1] => seen' = With(acc + 1, out)
      <4>1. [seen[o] EXCEPT !.accepted = @ + 1] = [seen[o] EXCEPT !.accepted = acc + 1, !.lost = out]
        BY <1>2 DEF SeenSet
      <4>. QED BY <1>2, <4>1
    <3>4. seen' = [seen EXCEPT ![o].accepted = @ + 1, ![o].lost = @ + 1] => seen' = With(acc + 1, out + 1)
      BY <1>2
    <3>5. \E a \in Nat, l \in Nat : seen' = With(a, l)
      <4> HIDE DEF With, acc, out
      <4>1. acc + 1 \in Nat /\ out + 1 \in Nat
        BY <3>1
      <4>. QED BY <2>1, <3>1, <3>2, <3>3, <3>4, <4>1
    <3>. QED BY <3>5
  <2>4. /\ order'[o] \in OrderSet /\ order' = [order EXCEPT ![o] = order'[o]]
        /\ order'[o].status = order[o].status /\ order'[o].deleted = order[o].deleted
        /\ order'[o].ref = order[o].ref
    BY <1>2, <2>2 DEF OrderSet
  <2>5. /\ seen'[o] \in SeenSet /\ seen' = [seen EXCEPT ![o] = seen'[o]]
        /\ seen'[o].away = seen[o].away /\ seen'[o].unread = seen[o].unread
        /\ seen'[o].held = seen[o].held
    BY <1>2, <2>3 DEF SeenSet
  <2>. QED BY <2>4, <2>5
<1> DEFINE Counted(new) ==
             seen'[o].accepted + Bit(new.pc = "call") + seen[o].returns + seen[o].lost + Bit(order[o].sent)
               <= seen[o].accepted + Bit(slot[j].pc = "call") + seen'[o].returns + seen'[o].lost + Bit(order'[o].sent)
           Becomes(new) == /\ new \in RequestSet /\ slot' = [slot EXCEPT ![j] = new] /\ RequestOK(new)
                           /\ new.pc # "idle" => new.order = o
<1>4. \E new : Becomes(new) /\ Counted(new)
  <2>1. seen[o].accepted \in Nat /\ seen[o].returns \in Nat /\ seen[o].lost \in Nat
    BY <1>2 DEF SeenSet
  <2>2. CASE Books!Claim(j)
    <3>1. CASE order[o].sent \/ order[o].deleted
      <4>1. slot' = [slot EXCEPT ![j] = Books!NoJob] /\ UNCHANGED <<order, seen>>
              /\ slot[j].pc = "claim"
        BY <2>2, <3>1 DEF Books!Claim
      <4>2. Counted(Books!NoJob)
        BY <2>1, <4>1, NoRequest DEF Bit
      <4>3. Becomes(Books!NoJob)
        BY <4>1, NoRequest
      <4>. QED BY <4>2, <4>3
    <3>2. CASE ~(order[o].sent \/ order[o].deleted)
      <4> DEFINE new == [slot[j] EXCEPT !.pc = "call"]
      <4>1. /\ slot' = [slot EXCEPT ![j] = new] /\ order'[o].sent = TRUE /\ UNCHANGED seen
            /\ slot[j].pc = "claim"
        BY <1>2, <2>2, <3>2 DEF Books!Claim, OrderSet
      <4>2. new \in RequestSet /\ new.pc = "call" /\ new.order = o /\ RequestOK(new)
        BY <1>2 DEF RequestSet, Pcs, RequestOK
      <4>3. Becomes(new)
        BY <4>1, <4>2
      <4>. HIDE DEF new
      <4>4. Counted(new)
        BY <2>1, <3>2, <4>1, <4>2 DEF Bit
      <4>. QED BY <4>3, <4>4
    <3>. QED BY <3>1, <3>2
  <2>3. CASE Books!Call(j) /\ slot' = [slot EXCEPT ![j].pc = "read", ![j].op = "ship many"]
                           /\ seen' = [seen EXCEPT ![o].accepted = @ + 1] /\ UNCHANGED order
    <3> DEFINE new == [slot[j] EXCEPT !.pc = "read", !.op = "ship many"]
    <3>1. slot' = [slot EXCEPT ![j] = new] /\ slot[j].pc = "call"
      BY <2>3 DEF Books!Call, BooksInv, BooksTypes
    <3>2. new \in RequestSet /\ new.pc = "read" /\ new.order = o /\ RequestOK(new)
      BY <1>2 DEF RequestSet, Pcs, Ops, RequestOK
    <3>3. seen'[o].accepted = seen[o].accepted + 1 /\ seen'[o].returns = seen[o].returns
          /\ seen'[o].lost = seen[o].lost
      BY <1>2, <2>3 DEF SeenSet
    <3>4. Becomes(new)
      BY <3>1, <3>2
    <3>. HIDE DEF new
    <3>5. Bit(slot[j].pc = "call") = 1 /\ Bit(new.pc = "call") = 0 /\ Bit(order[o].sent) \in {0, 1}
          /\ Bit(order'[o].sent) = Bit(order[o].sent)
      BY <2>3, <3>1, <3>2 DEF Bit
    <3>6. Counted(new)
      BY <2>1, <3>3, <3>5
    <3>. QED BY <3>4, <3>6
  <2>4. CASE /\ Books!Call(j) /\ slot' = [slot EXCEPT ![j] = Books!NoJob]
                  /\ order' = [order EXCEPT ![o].sent = FALSE]
             /\ \/ UNCHANGED seen
                \/ seen' = [seen EXCEPT ![o].accepted = @ + 1, ![o].lost = @ + 1]
    <3>1. slot[j].pc = "call" /\ order'[o].sent = FALSE
      BY <1>2, <2>4 DEF Books!Call, OrderSet
    <3>2. /\ seen'[o].returns = seen[o].returns
          /\ \/ seen'[o].accepted = seen[o].accepted /\ seen'[o].lost = seen[o].lost
             \/ seen'[o].accepted = seen[o].accepted + 1 /\ seen'[o].lost = seen[o].lost + 1
      BY <1>2, <2>4 DEF SeenSet
    <3>3. Counted(Books!NoJob)
      BY <2>1, <2>4, <3>1, <3>2, NoRequest DEF Bit
    <3>4. Becomes(Books!NoJob)
      BY <2>4, NoRequest
    <3>. QED BY <3>3, <3>4
  <2>. QED BY <2>2, <2>3, <2>4 DEF Books!Call
<1>5. PICK new : Becomes(new) /\ Counted(new)
  BY <1>4
<1>6. Moving(j, o, new, order'[o], seen'[o])
  <2>1. /\ slot' = [slot EXCEPT ![j] = new] /\ new \in RequestSet /\ RequestOK(new)
        /\ new.pc # "idle" => new.order = o
    BY <1>5
  <2>2. seen'[o].accepted + Bit(new.pc = "call") + seen[o].returns + seen[o].lost + Bit(order[o].sent)
          <= seen[o].accepted + Bit(slot[j].pc = "call") + seen'[o].returns + seen'[o].lost + Bit(order'[o].sent)
    BY <1>5
  <2>3. DOMAIN plan' = DOMAIN plan /\ plan'.orders = plan.orders /\ plan'.ops = plan.ops
    BY <1>1
  <2>. HIDE DEF o, Becomes, Counted
  <2>4. slot[j].order = o
    BY DEF o
  <2>. QED BY <1>1, <1>3, <2>1, <2>2, <2>3, <2>4 DEF Moving
<1>. QED BY <1>6

\* The steps that read a receipt.
LEMMA ReadingMoves ==
  ASSUME BooksInv, NEW j \in Slots, Books!Reading(j) \/ Books!Look(j) \/ Books!Hold(j) \/ Books!GiveUp(j)
  PROVE  \E new, r, s : Moving(j, slot[j].order, new, r, s)
<1> DEFINE o == slot[j].order
<1>1. slot[j].pc # "idle" /\ UNCHANGED plan
  BY DEF Books!Reading, Books!Look, Books!Hold, Books!GiveUp
<1>2. /\ slot[j] \in RequestSet /\ o \in plan.orders /\ o \in Books!Ordered /\ RequestOK(slot[j])
      /\ order[o] \in OrderSet /\ seen[o] \in SeenSet
      /\ order \in [Books!Ordered -> OrderSet] /\ seen \in [Books!Ordered -> SeenSet]
      /\ slot \in [Slots -> RequestSet]
  BY <1>1, RequestTypes DEF BooksInv, BooksTypes
<1>3. /\ order = [order EXCEPT ![o] = order[o]] /\ seen = [seen EXCEPT ![o] = seen[o]]
      /\ seen[o].accepted \in Nat /\ seen[o].returns \in Nat /\ seen[o].lost \in Nat
      /\ \A b : Bit(b) \in {0, 1} /\ (b = FALSE => Bit(b) = 0)
  BY <1>2 DEF SeenSet, Bit
<1>4. ASSUME NEW got \in BOOLEAN, slot[j].pc = "reading",
             order' = [order EXCEPT ![o].ref = got],
             slot' = [slot EXCEPT ![j].pc = "look", ![j].ref = got], UNCHANGED seen
      PROVE  \E new, r, s : Moving(j, o, new, r, s)
  <2> DEFINE new == [slot[j] EXCEPT !.pc = "look", !.ref = got]
             r == [order[o] EXCEPT !.ref = got]
  <2>1. /\ new \in RequestSet /\ new.pc = "look" /\ new.order = o /\ new.ref = got /\ RequestOK(new)
        /\ slot' = [slot EXCEPT ![j] = new]
    BY <1>2, <1>4 DEF RequestSet, Pcs, RequestOK
  <2>2. /\ r \in OrderSet /\ r.status = order[o].status /\ r.deleted = order[o].deleted
        /\ r.sent = order[o].sent /\ r.ref = got /\ order' = [order EXCEPT ![o] = r]
    BY <1>2, <1>4 DEF OrderSet
  <2>. HIDE DEF new, r
  <2>3. Bit(new.pc = "call") = 0 /\ Bit(slot[j].pc = "call") = 0
    BY <1>4, <2>1 DEF Bit
  <2>4. seen[o].accepted + Bit(new.pc = "call") + seen[o].returns + seen[o].lost + Bit(order[o].sent)
          <= seen[o].accepted + Bit(slot[j].pc = "call") + seen[o].returns + seen[o].lost + Bit(r.sent)
    BY <1>3, <2>2, <2>3
  <2>5. Moving(j, o, new, r, seen[o])
    BY <1>1, <1>2, <1>3, <1>4, <2>1, <2>2, <2>4 DEF Moving, Watcher
  <2>. QED BY <2>5
<1>5. CASE slot[j].pc = "reading" /\ slot' = [slot EXCEPT ![j] = Books!NoJob]
             /\ UNCHANGED <<order, seen>>
  <2>1. ~Watcher(slot[j])
    BY <1>5 DEF Watcher
  <2>. QED BY <1>1, <1>2, <1>5, <2>1, NoRequest, AsideKeeps
<1>6. CASE Books!Look(j)
  <2>1. CASE slot' = [slot EXCEPT ![j] = Books!NoJob] /\ ~(slot[j].ref /\ Books!Twin(o))
    <3>1. Watcher(slot[j]) => slot[j].pc = "look" /\ ~Books!Twin(o)
      BY <1>6, <2>1 DEF Watcher, Books!Look
    <3>. QED BY <1>1, <1>2, <1>6, <2>1, <3>1, NoRequest, AsideKeeps DEF Books!Look
  <2>2. CASE slot' = [slot EXCEPT ![j] = [slot[j] EXCEPT !.pc = "hold"]]
    <3> DEFINE new == [slot[j] EXCEPT !.pc = "hold"]
    <3>1. new \in RequestSet /\ new.pc = "hold" /\ new.order = o /\ RequestOK(new) /\ Watcher(new)
      BY <1>2 DEF RequestSet, Pcs, RequestOK, Watcher
    <3>. HIDE DEF new
    <3>2. slot' = [slot EXCEPT ![j] = new]
      BY <2>2 DEF new
    <3>. QED BY <1>1, <1>2, <1>6, <3>1, <3>2, AsideKeeps DEF Books!Look
  <2>3. PICK short \in BOOLEAN :
          slot' = [slot EXCEPT ![j] =
            IF short \/ (slot[j].ref /\ Books!Twin(o)) THEN [slot[j] EXCEPT !.pc = "hold"] ELSE Books!NoJob]
    BY <1>2, <1>6 DEF Books!Look
  <2>. QED BY <2>1, <2>2, <2>3
<1>7. CASE Books!Hold(j)
  <2> DEFINE r == [order[o] EXCEPT !.held = TRUE]
             s == [seen[o] EXCEPT !.held = TRUE]
  <2>1. /\ r \in OrderSet /\ r.status = order[o].status /\ r.deleted = order[o].deleted
        /\ r.sent = order[o].sent /\ r.ref = order[o].ref /\ order' = [order EXCEPT ![o] = r]
    BY <1>2, <1>7 DEF OrderSet, Books!Hold
  <2>2. /\ s \in SeenSet /\ s.accepted = seen[o].accepted /\ s.lost = seen[o].lost
        /\ s.returns = seen[o].returns /\ s.away = seen[o].away /\ s.unread = seen[o].unread
        /\ s.held = TRUE /\ seen' = [seen EXCEPT ![o] = s]
    BY <1>2, <1>7 DEF SeenSet, Books!Hold
  <2>3. slot' = [slot EXCEPT ![j] = Books!NoJob] /\ slot[j].pc = "hold"
    BY <1>7 DEF Books!Hold
  <2>. HIDE DEF r, s
  <2>4. s.accepted + Bit(Books!NoJob.pc = "call") + seen[o].returns + seen[o].lost + Bit(order[o].sent)
          <= seen[o].accepted + Bit(slot[j].pc = "call") + s.returns + s.lost + Bit(r.sent)
    BY <1>3, <2>1, <2>2, <2>3, NoRequest
  <2>5. Moving(j, o, Books!NoJob, r, s)
    BY <1>1, <1>2, <2>1, <2>2, <2>3, <2>4, NoRequest DEF Moving
  <2>. QED BY <2>5
<1>8. CASE Books!GiveUp(j)
  <2> DEFINE s == [seen[o] EXCEPT !.unread = @ \/ slot[j].pc \in {"look", "hold"}]
  <2>1. /\ s \in SeenSet /\ s.accepted = seen[o].accepted /\ s.lost = seen[o].lost
        /\ s.returns = seen[o].returns /\ s.away = seen[o].away /\ s.held = seen[o].held
        /\ s.unread = (seen[o].unread \/ slot[j].pc \in {"look", "hold"})
        /\ seen' = [seen EXCEPT ![o] = s]
    BY <1>2, <1>8 DEF SeenSet, Books!GiveUp
  <2>2. slot' = [slot EXCEPT ![j] = Books!NoJob] /\ UNCHANGED order
    BY <1>8 DEF Books!GiveUp
  <2>. HIDE DEF s
  <2>3. s.accepted + Bit(Books!NoJob.pc = "call") + seen[o].returns + seen[o].lost + Bit(order[o].sent)
          <= seen[o].accepted + Bit(slot[j].pc = "call") + s.returns + s.lost + Bit(order[o].sent)
    BY <1>3, <2>1, NoRequest DEF Bit
  <2>4. Moving(j, o, Books!NoJob, order[o], s)
    BY <1>1, <1>2, <1>3, <2>1, <2>2, <2>3, NoRequest DEF Moving, Watcher
  <2>. QED BY <2>4
<1>. QED BY <1>4, <1>5, <1>6, <1>7, <1>8 DEF Books!Reading

LEMMA BooksStep ==
  BooksInv /\ [Books!Next]_(Books!vars) =>
    BooksInv' /\ \A o \in Books!Ordered : order[o].status = "rejected" => order'[o].status = "rejected"
<1> SUFFICES ASSUME BooksInv, [Books!Next]_(Books!vars)
             PROVE  BooksInv' /\ \A o \in Books!Ordered : order[o].status = "rejected" => order'[o].status = "rejected"
  OBVIOUS
<1>1. CASE UNCHANGED Books!vars
  <2>1. UNCHANGED <<order, seen, slot, plan>>
    BY <1>1 DEF Books!vars
  <2>. QED BY <2>1 DEF BooksInv, BooksTypes, RequestOK, PushesOK, Calls, TwinsOK, Shows, Watcher
<1>2. ASSUME NEW op \in plan.ops \cup {"pay"}, NEW o \in plan.orders, Books!Begin(op, o)
      PROVE  \E j \in Slots : \E new, r, s : Moving(j, o, new, r, s)
  BY <1>2, BeginMoves
<1>3. ASSUME NEW j \in Slots,
             Books!Read(j) \/ Books!Receipt(j) \/ Books!Write(j) \/ Books!Report(j) \/ Books!Claim(j) \/ Books!Call(j)
               \/ Books!Reading(j) \/ Books!Look(j) \/ Books!Hold(j) \/ Books!GiveUp(j)
      PROVE  slot[j].order \in plan.orders /\ \E new, r, s : Moving(j, slot[j].order, new, r, s)
  <2>1. slot[j].order \in plan.orders
    <3>1. slot[j].pc # "idle"
      BY <1>3 DEF Books!Read, Books!Receipt, Books!Write, Books!Report, Books!Claim, Books!Call,
          Books!Reading, Books!Look, Books!Hold, Books!GiveUp
    <3>. QED BY <3>1, RequestTypes
  <2>2. \E new, r, s : Moving(j, slot[j].order, new, r, s)
    BY <1>3, AsideMoves, WriteMoves, ReportMoves, PushMoves, ReadingMoves
  <2>. QED BY <2>1, <2>2
<1>. QED BY <1>1, <1>2, <1>3, MovingKeeps DEF Books!Next

LEMMA BooksPushes == BooksInv => Books!PushedOncePerReturn
<1> SUFFICES ASSUME BooksInv, NEW o \in Books!Ordered
      PROVE seen[o].accepted <= 1 + seen[o].returns + seen[o].lost
  BY DEF Books!PushedOncePerReturn
<1>1. seen[o].accepted \in Nat /\ seen[o].returns \in Nat /\ seen[o].lost \in Nat
  BY DEF BooksInv, BooksTypes, SeenSet
<1>2. IsFiniteSet(Calls(o))
  BY BookAssumption, FS_Subset DEF Calls
<1>3. Cardinality(Calls(o)) \in Nat
  BY <1>2, FS_CardinalityType
<1>4. seen[o].accepted + Cardinality(Calls(o)) <= seen[o].returns + seen[o].lost + Bit(order[o].sent)
  BY DEF BooksInv, PushesOK
<1>. QED BY <1>1, <1>3, <1>4 DEF Bit

LEMMA BooksTwins == BooksInv => Books!DuplicateIsHeld
<1> SUFFICES ASSUME BooksInv, NEW o \in plan.orders, NEW p \in plan.orders, o # p,
                    Books!Settled(o), Books!Settled(p)
             PROVE  seen[o].held \/ seen[p].held
  BY DEF Books!DuplicateIsHeld
<1>1. TwinsOK(o, p) /\ Shows(o) /\ Shows(p)
  BY DEF BooksInv, Books!Settled, Shows
<1>2. \A j \in Slots : slot[j].order \in {o, p} => ~Watcher(slot[j])
  BY DEF Books!Settled, Watcher
<1>. QED BY <1>1, <1>2 DEF TwinsOK

LEMMA BooksTyped == BooksInv => Books!TypeOK
BY DEF BooksInv, BooksTypes, Books!TypeOK, OrderSet, SeenSet, RequestSet, Statuses, Pcs

LEMMA BooksAlways == Spec => []BooksInv
<1>1. Init => BooksInv
  BY BooksInit DEF Init
<1>2. BooksInv /\ [Next]_vars => BooksInv'
  BY BooksStep DEF Next, vars, books, Books!vars
<1>. QED BY <1>1, <1>2, PTL DEF Spec

\* A rejected order stays rejected, even under a write that read it before
\* (BookOrdersService; book_orders_rejected_status_matches).
THEOREM RejectedIsFinalAlways == Spec => RejectedIsFinal
<1>1. BooksInv /\ [Next]_vars
        => [\A o \in Books!Ordered : order[o].status = "rejected" => order'[o].status = "rejected"]_(Books!vars)
  BY BooksStep DEF Next, vars, books, Books!vars
<1>. QED BY <1>1, BooksAlways, PTL DEF Spec, RejectedIsFinal, Books!RejectedIsFinal

\* The courier accepts an order once, and once for each return and each lost answer
\* (BookOrdersCourierService.sendOne: the claim).
THEOREM PushedOncePerReturnAlways == Spec => []PushedOncePerReturn
<1>1. BooksInv => PushedOncePerReturn
  BY BooksPushes DEF PushedOncePerReturn
<1>. QED BY <1>1, BooksAlways, PTL

\* Of two orders that one transfer paid, one has been held when both readings have
\* ended (BookOrdersService.readReceiptAfterwards).
THEOREM DuplicateIsHeldAlways == Spec => []DuplicateIsHeld
<1>1. BooksInv => DuplicateIsHeld
  BY BooksTwins DEF DuplicateIsHeld
<1>. QED BY <1>1, BooksAlways, PTL

-----------------------------------------------------------------------------
(* The engine of the arena. *)

Stages == {"vs", "question", "reveal", "ended"}
Lefts == (-MaxAge)..(Rules.vs + Rules.question + Rules.reveal)
MatchSet == [index : 1..Questions, stage : Stages, left : Lefts,
             online : [Arena!Side -> BOOLEAN], grace : [Arena!Side -> Int],
             answer : [Arena!Side -> {"none", "right", "wrong"}], score : [Arena!Side -> Nat],
             end : Arena!Ends, winner : {"none"} \cup Arena!Side, awards : Arena!Points \cup {Arena!NoAwards}]

\* No question has given two points, and one that is open has given none; a match that
\* has ended has left its stage.
MatchOK(m) ==
  /\ m \in MatchSet /\ (m.end # "none") = (m.stage = "ended")
  /\ m.stage = "vs" => m.index = 1 /\ m.score["a"] + m.score["b"] <= 0
  /\ m.stage = "question" => m.score["a"] + m.score["b"] <= m.index - 1
  /\ m.stage \in {"reveal", "ended"} => m.score["a"] + m.score["b"] <= m.index

\* What a judgement may make of a match: it takes no point away, gives no prize, and
\* leaves a match that has ended as it is.
Judges(m, d) ==
  /\ MatchOK(d) /\ d.awards = m.awards /\ \A s \in Arena!Side : d.score[s] >= m.score[s]
  /\ m.end # "none" => d = m

LEMMA Sides == Arena!Side = {"a", "b"} /\ \A s \in Arena!Side : Arena!Other(s) \in Arena!Side
  /\ Arena!Other(s) # s
BY DEF Arena!Side, Arena!Other

LEMMA JudgesSelf == ASSUME NEW m, MatchOK(m) PROVE Judges(m, m)
BY DEF Judges, MatchOK, MatchSet

LEMMA JudgesOn ==
  ASSUME NEW m, NEW d, NEW e, MatchOK(m), Judges(m, d), Judges(d, e) PROVE Judges(m, e)
<1>1. m.score \in [Arena!Side -> Nat] /\ d.score \in [Arena!Side -> Nat]
        /\ e.score \in [Arena!Side -> Nat]
  BY DEF Judges, MatchOK, MatchSet
<1>2. \A s \in Arena!Side : e.score[s] >= m.score[s]
  BY <1>1 DEF Judges
<1>. QED BY <1>2 DEF Judges

\* What an engine step writes, that gives no point.
LEMMA JudgesStep ==
  ASSUME NEW m, NEW d, MatchOK(m), MatchOK(d), m.end = "none",
         d.awards = m.awards, d.score = m.score
  PROVE  Judges(m, d)
BY DEF Judges, MatchOK, MatchSet

LEMMA FinishJudges ==
  ASSUME NEW m, MatchOK(m), m.end = "none", NEW winner \in {"none"} \cup Arena!Side,
         NEW why \in Arena!Ends \ {"none"}
  PROVE  Judges(m, Arena!Finish(m, winner, why))
<1> DEFINE d == Arena!Finish(m, winner, why)
<1>1. 0 \in Lefts
  BY ArenaAssumption DEF Lefts
<1>2. /\ d \in MatchSet /\ d.stage = "ended" /\ d.end = why /\ d.score = m.score
      /\ d.awards = m.awards /\ d.index = m.index
  BY <1>1 DEF Arena!Finish, MatchOK, MatchSet, Stages
<1>3. m.score["a"] + m.score["b"] <= m.index
  BY Sides DEF MatchOK, MatchSet, Stages
<1> HIDE DEF d
<1>4. MatchOK(d)
  BY <1>2, <1>3 DEF MatchOK
<1>5. Judges(m, d)
  BY <1>2, <1>4, JudgesStep
<1>. QED BY <1>5 DEF d

LEMMA OpenJudges ==
  ASSUME NEW m, MatchOK(m), NEW i \in 1..Questions, NEW age \in 0..MaxAge,
         (m.stage = "vs" /\ i = 1) \/ (m.stage = "reveal" /\ i = m.index + 1)
  PROVE  Judges(m, Arena!OpenQuestion(m, i, age))
<1> DEFINE d == Arena!OpenQuestion(m, i, age)
<1>1. Rules.question - age \in Lefts
  BY ArenaAssumption DEF Lefts
<1>2. /\ d \in MatchSet /\ d.stage = "question" /\ d.end = m.end /\ d.score = m.score
      /\ d.awards = m.awards /\ d.index = i /\ m.end = "none"
  BY <1>1 DEF Arena!OpenQuestion, MatchOK, MatchSet, Stages
<1>3. m.score["a"] + m.score["b"] <= i - 1
  BY Sides DEF MatchOK, MatchSet, Stages
<1> HIDE DEF d
<1>4. MatchOK(d)
  BY <1>2, <1>3 DEF MatchOK
<1>5. Judges(m, d)
  BY <1>2, <1>4, JudgesStep
<1>. QED BY <1>5 DEF d

LEMMA CloseOK ==
  ASSUME NEW m \in MatchSet, m.end = "none", m.score["a"] + m.score["b"] <= m.index,
         NEW age \in 0..MaxAge
  PROVE  MatchOK(Arena!CloseRound(m, age)) /\ Arena!CloseRound(m, age).awards = m.awards
         /\ Arena!CloseRound(m, age).score = m.score
<1> DEFINE d == Arena!CloseRound(m, age)
<1>1. Rules.reveal - age \in Lefts
  BY ArenaAssumption DEF Lefts
<1>2. /\ d \in MatchSet /\ d.stage = "reveal" /\ d.end = m.end /\ d.score = m.score
      /\ d.awards = m.awards /\ d.index = m.index
  BY <1>1 DEF Arena!CloseRound, MatchSet, Stages
<1> HIDE DEF d
<1>4. MatchOK(d)
  BY <1>2 DEF MatchOK
<1>. QED BY <1>2, <1>4 DEF d

LEMMA SettleJudges ==
  ASSUME NEW m, MatchOK(m), m.end = "none", NEW age PROVE Judges(m, Arena!SettleGrace(m, age))
<1> DEFINE expired == {s \in Arena!Side : ~m.online[s] /\ m.grace[s] + age <= 0}
<1>1. Judges(m, Arena!Finish(m, "none", "abandoned"))
  BY FinishJudges DEF Arena!Ends
<1>2. ASSUME NEW s \in expired PROVE Judges(m, Arena!Finish(m, Arena!Other(CHOOSE t \in expired : TRUE), "forfeit"))
  <2>1. (CHOOSE t \in expired : TRUE) \in expired
    BY <1>2
  <2>2. Arena!Other(CHOOSE t \in expired : TRUE) \in Arena!Side
    BY <2>1, Sides
  <2> HIDE DEF expired
  <2>. QED BY <2>2, FinishJudges DEF Arena!Ends
<1>3. Judges(m, m)
  BY JudgesSelf
<1> DEFINE given == Arena!Finish(m, "none", "abandoned")
           won == Arena!Finish(m, Arena!Other(CHOOSE t \in expired : TRUE), "forfeit")
           stays == \E s \in expired : m.online[Arena!Other(s)]
<1>4. Arena!SettleGrace(m, age) = CASE expired = Arena!Side -> given [] stays -> won [] OTHER -> m
  BY Zenon DEF Arena!SettleGrace
<1>5. Judges(m, given) /\ (stays => Judges(m, won))
  BY <1>1, <1>2
<1> HIDE DEF given, won, stays, expired
<1>. QED BY <1>3, <1>4, <1>5

LEMMA AdvanceJudges ==
  ASSUME NEW m, MatchOK(m), NEW age \in 0..MaxAge PROVE Judges(m, Arena!Advance(m, age))
<1>1. CASE m.end # "none"
  BY <1>1, JudgesSelf DEF Arena!Advance, Arena!Paused
<1>2. CASE Arena!Paused(m)
  <2>1. m.end = "none"
    BY <1>2 DEF Arena!Paused
  <2>2. Arena!Advance(m, age) = Arena!SettleGrace(m, age)
    BY <1>2, <2>1 DEF Arena!Advance
  <2>. QED BY <2>1, <2>2, SettleJudges
<1>3. CASE ~Arena!Paused(m) /\ m.end = "none" /\ m.left + age > 0
  <2>1. Arena!Advance(m, age) = m
    BY <1>3 DEF Arena!Advance
  <2>. QED BY <2>1, JudgesSelf
<1>4. CASE ~Arena!Paused(m) /\ m.end = "none" /\ ~(m.left + age > 0)
  <2>1. CASE m.stage = "vs"
    <3>1. Arena!Advance(m, age) = Arena!OpenQuestion(m, 1, age)
      BY <1>4, <2>1 DEF Arena!Advance
    <3>2. 1 \in 1..Questions
      BY ArenaAssumption
    <3>. QED BY <2>1, <3>1, <3>2, OpenJudges
  <2>2. CASE m.stage = "question"
    <3>1. Arena!Advance(m, age) = Arena!CloseRound(m, age)
      BY <1>4, <2>2 DEF Arena!Advance
    <3>2. m \in MatchSet /\ m.score["a"] + m.score["b"] <= m.index
      BY <2>2, Sides DEF MatchOK, MatchSet
    <3>3. MatchOK(Arena!CloseRound(m, age)) /\ Arena!CloseRound(m, age).awards = m.awards
          /\ Arena!CloseRound(m, age).score = m.score
      BY <1>4, <3>2, CloseOK
    <3>. QED BY <1>4, <3>1, <3>3, JudgesStep
  <2>3. CASE m.stage = "reveal" /\ m.index < Questions
    <3>1. Arena!Advance(m, age) = Arena!OpenQuestion(m, m.index + 1, age)
      BY <1>4, <2>3 DEF Arena!Advance
    <3>2. m.index + 1 \in 1..Questions
      BY <2>3, ArenaAssumption DEF MatchOK, MatchSet
    <3>. QED BY <2>3, <3>1, <3>2, OpenJudges
  <2>4. CASE m.stage \notin {"vs", "question"} /\ ~(m.stage = "reveal" /\ m.index < Questions)
    <3>1. Arena!Advance(m, age) = Arena!Finish(m, Arena!CompletedWinner(m), "completed")
      BY <1>4, <2>4 DEF Arena!Advance
    <3>2. Arena!CompletedWinner(m) \in {"none"} \cup Arena!Side
      BY DEF Arena!CompletedWinner
    <3>3. "completed" \in Arena!Ends \ {"none"}
      BY DEF Arena!Ends
    <3>. QED BY <1>4, <3>1, <3>2, <3>3, FinishJudges
  <2>. QED BY <2>1, <2>2, <2>3, <2>4
<1>. QED BY <1>1, <1>2, <1>3, <1>4

LEMMA LeaveJudges ==
  ASSUME NEW m, MatchOK(m) PROVE Judges(m, Arena!Abort(m))
           /\ \A s \in Arena!Side : Judges(m, Arena!Leave(m, s))
<1>1. {"aborted", "forfeit"} \subseteq Arena!Ends \ {"none"}
  BY DEF Arena!Ends
<1>2. CASE m.end # "none"
  BY <1>2, JudgesSelf DEF Arena!Abort, Arena!Leave
<1>3. CASE m.end = "none"
  BY <1>1, <1>3, Sides, FinishJudges DEF Arena!Abort, Arena!Leave
<1>. QED BY <1>2, <1>3

LEMMA DisconnectJudges ==
  ASSUME NEW m, MatchOK(m), NEW s \in Arena!Side PROVE Judges(m, Arena!Disconnect(m, s))
<1>1. CASE m.end # "none" \/ ~m.online[s]
  BY <1>1, JudgesSelf DEF Arena!Disconnect
<1>2. CASE m.end = "none" /\ m.online[s]
  <2> DEFINE left == IF Arena!Paused(m) \/ m.left > 0 THEN m.left ELSE 0
             d == [m EXCEPT !.online[s] = FALSE, !.grace[s] = Rules.grace, !.left = left]
  <2>1. left \in Lefts
    BY ArenaAssumption DEF Lefts, MatchOK, MatchSet
  <2>2. Arena!Disconnect(m, s) = d
    BY <1>2 DEF Arena!Disconnect
  <2> HIDE DEF left
  <2>3. Rules.grace \in Int /\ m \in MatchSet
    BY ArenaAssumption DEF MatchOK
  <2>4. /\ d \in MatchSet /\ d.stage = m.stage /\ d.end = m.end /\ d.score = m.score
        /\ d.awards = m.awards /\ d.index = m.index
    BY <2>1, <2>3 DEF MatchSet
  <2> HIDE DEF d
  <2>5. MatchOK(d)
    BY <2>4 DEF MatchOK
  <2>6. Judges(m, d)
    BY <1>2, <2>4, <2>5, JudgesStep
  <2>. QED BY <2>2, <2>6
<1>. QED BY <1>1, <1>2

LEMMA ReconnectJudges ==
  ASSUME NEW m, MatchOK(m), NEW s \in Arena!Side PROVE Judges(m, Arena!Reconnect(m, s))
<1>1. CASE m.end # "none" \/ m.online[s]
  BY <1>1, JudgesSelf DEF Arena!Reconnect
<1>2. CASE m.end = "none" /\ ~m.online[s]
  <2> DEFINE on == [m EXCEPT !.online[s] = TRUE, !.grace[s] = 0]
             floor == IF m.stage = "question" THEN Rules.resumeMin ELSE 0
             d == IF Arena!Paused(on) \/ on.left > floor THEN on ELSE [on EXCEPT !.left = floor]
  <2>1. Arena!Reconnect(m, s) = Arena!Advance(d, 0)
    BY <1>2 DEF Arena!Reconnect
  <2>2. floor \in Lefts
    BY ArenaAssumption DEF Lefts
  <2>3. m \in MatchSet
    BY DEF MatchOK
  <2>4. /\ on \in MatchSet /\ on.stage = m.stage /\ on.end = m.end /\ on.score = m.score
        /\ on.awards = m.awards /\ on.index = m.index
    <3>1. /\ [m.online EXCEPT ![s] = TRUE] \in [Arena!Side -> BOOLEAN]
          /\ [m.grace EXCEPT ![s] = 0] \in [Arena!Side -> Int]
      BY <2>3 DEF MatchSet
    <3> HIDE DEF floor, d
    <3>. QED BY <2>3, <3>1 DEF MatchSet
  <2> HIDE DEF on, floor
  <2>5. /\ d \in MatchSet /\ d.stage = m.stage /\ d.end = m.end /\ d.score = m.score
        /\ d.awards = m.awards /\ d.index = m.index
    BY <2>2, <2>4 DEF MatchSet
  <2> HIDE DEF d
  <2>6. MatchOK(d)
    BY <2>5 DEF MatchOK
  <2>7. Judges(m, d)
    BY <1>2, <2>5, <2>6, JudgesStep
  <2>8. Judges(d, Arena!Advance(d, 0))
    BY <2>6, AdvanceJudges, ArenaAssumption
  <2>. QED BY <2>1, <2>7, <2>8, JudgesOn
<1>. QED BY <1>1, <1>2

LEMMA LookJudges ==
  ASSUME NEW m, MatchOK(m), NEW s \in Arena!Side PROVE Judges(m, Arena!LookAt(m, s))
<1> DEFINE rec == Arena!Reconnect(m, s)
           dis == Arena!Disconnect(m, s)
           same == present[s] = m.online[s]
           back == present[s] /\ ~m.online[s]
<1>1. Arena!LookAt(m, s) = CASE same -> m [] back -> rec [] OTHER -> dis
  BY Zenon DEF Arena!LookAt
<1>2. Judges(m, m) /\ Judges(m, rec) /\ Judges(m, dis)
  BY JudgesSelf, ReconnectJudges, DisconnectJudges
<1> HIDE DEF rec, dis, same, back
<1>. QED BY <1>1, <1>2

LEMMA TimedJudges ==
  ASSUME MatchOK(match), NEW b \in Arena!Boot PROVE Judges(match, Arena!Timed(b))
<1>1. Judges(match, Arena!LookAt(match, "a"))
  BY LookJudges, Sides
<1>2. Judges(Arena!LookAt(match, "a"), Arena!LookAt(Arena!LookAt(match, "a"), "b"))
  BY <1>1, LookJudges, Sides DEF Judges
<1>3. Judges(Arena!LookAt(Arena!LookAt(match, "a"), "b"), Arena!Advance(Arena!LookAt(Arena!LookAt(match, "a"), "b"), 0))
  BY <1>2, AdvanceJudges, ArenaAssumption DEF Judges
<1>4. Judges(match, Arena!Advance(Arena!LookAt(Arena!LookAt(match, "a"), "b"), 0))
  BY <1>1, <1>2, <1>3, JudgesOn
<1>5. Judges(match, Arena!Tick(b))
  BY <1>4, LeaveJudges DEF Arena!Tick
<1> DEFINE ticks == Arena!Tick(b)
           ends == Arena!Abort(match)
           boots == up[b] = "booting" /\ b # "owner"
           closes == up[b] = "closing" /\ b = "owner"
           serves == up[b] = "up"
<1>6. Arena!Timed(b) = CASE serves -> ticks [] boots -> ends [] closes -> ends [] OTHER -> match
  BY Zenon DEF Arena!Timed
<1>7. Judges(match, ticks) /\ Judges(match, ends) /\ Judges(match, match)
  BY <1>5, LeaveJudges, JudgesSelf
<1> HIDE DEF ticks, ends, boots, closes, serves
<1>. QED BY <1>6, <1>7

Results == {"none", "right", "wrong", "late", "ignored"}

LEMMA AnswerJudges ==
  ASSUME NEW m, MatchOK(m), NEW s \in Arena!Side, NEW i \in 1..Questions, NEW right \in BOOLEAN,
         NEW age \in 0..MaxAge
  PROVE  /\ Judges(m, Arena!Answer(m, s, i, right, age).draft)
         /\ Arena!Answer(m, s, i, right, age).result \in Results
         /\ Arena!Answer(m, s, i, right, age).result = "right" =>
              Arena!Answer(m, s, i, right, age).draft.score[s] >= m.score[s] + 1
<1> DEFINE a == Arena!Advance(m, age)
           b == [a EXCEPT !.answer[s] = IF right THEN "right" ELSE "wrong",
                          !.score[s] = IF right THEN @ + 1 ELSE @]
           closed == right \/ a.answer[Arena!Other(s)] # "none"
           after == IF closed THEN Arena!CloseRound(b, age) ELSE b
           Good(z) == /\ Judges(m, z.draft) /\ z.result \in Results
                      /\ z.result = "right" => z.draft.score[s] >= m.score[s] + 1
<1>1. Judges(m, a)
  BY AdvanceJudges
<1>2. Good([draft |-> a, result |-> "late"]) /\ Good([draft |-> a, result |-> "ignored"])
  BY <1>1 DEF Results
<1>3. ASSUME ~Arena!Late(a, i), Arena!Takes(a, s, i)
      PROVE Good([draft |-> after, result |-> b.answer[s]])
  <2> HIDE DEF a
  <2>1. /\ a \in MatchSet /\ a.end = "none" /\ a.stage = "question"
        /\ a.score["a"] + a.score["b"] <= a.index - 1 /\ m.end = "none"
        /\ a.awards = m.awards /\ MatchOK(a) /\ a.index \in Nat
    BY <1>1, <1>3 DEF Judges, MatchOK, MatchSet, Arena!Late, Arena!Takes
  <2>2. /\ a.score \in [Arena!Side -> Nat] /\ m.score \in [Arena!Side -> Nat]
             /\ a.answer \in [Arena!Side -> {"none", "right", "wrong"}]
        /\ \A t \in Arena!Side : a.score[t] >= m.score[t]
    BY <1>1, <2>1 DEF Judges, MatchOK, MatchSet
  <2>3. /\ b \in MatchSet /\ b.end = "none" /\ b.stage = "question" /\ b.index = a.index
        /\ b.awards = a.awards /\ b.answer[s] = (IF right THEN "right" ELSE "wrong")
        /\ b.score = [a.score EXCEPT ![s] = IF right THEN @ + 1 ELSE @]
    <3>1. (IF right THEN a.score[s] + 1 ELSE a.score[s]) \in Nat
      BY <2>2
    <3>2. [a.score EXCEPT ![s] = IF right THEN @ + 1 ELSE @] \in [Arena!Side -> Nat]
      BY <2>2, <3>1
    <3>3. [a.answer EXCEPT ![s] = IF right THEN "right" ELSE "wrong"] \in [Arena!Side -> {"none", "right", "wrong"}]
      BY <2>2
    <3>. QED BY <2>1, <2>2, <3>2, <3>3 DEF MatchSet
  <2>4. /\ b.score["a"] + b.score["b"] <= a.index
        /\ ~right => b.score = a.score
        /\ \A t \in Arena!Side : b.score[t] >= m.score[t]
        /\ right => b.score[s] >= m.score[s] + 1
    BY <2>1, <2>2, <2>3, Sides
  <2> HIDE DEF b
  <2>5. CASE closed
    <3>1. MatchOK(after) /\ after.awards = b.awards /\ after.score = b.score
      BY <2>3, <2>4, <2>5, CloseOK
    <3> HIDE DEF after
    <3>. QED BY <2>1, <2>3, <2>4, <3>1 DEF Judges, Results
  <2>6. CASE ~closed
    <3>1. MatchOK(b)
      BY <2>1, <2>3, <2>4, <2>6 DEF MatchOK
    <3>2. after = b
      BY <2>6
    <3> HIDE DEF after
    <3>. QED BY <2>1, <2>3, <2>4, <3>1, <3>2 DEF Judges, Results
  <2>. QED BY <2>5, <2>6
<1> DEFINE late == [draft |-> a, result |-> "late"]
           none == [draft |-> a, result |-> "ignored"]
           takes == [draft |-> after, result |-> b.answer[s]]
           isLate == Arena!Late(a, i)
           isTaken == Arena!Takes(a, s, i)
<1>4. Arena!Answer(m, s, i, right, age) =
        CASE isLate -> late [] ~isLate /\ ~isTaken -> none [] OTHER -> takes
  BY Zenon DEF Arena!Answer
<1>5. Good(late) /\ Good(none) /\ (~isLate /\ isTaken => Good(takes))
  BY <1>2, <1>3
<1> HIDE DEF late, none, takes, isLate, isTaken, Good
<1>6. Good(Arena!Answer(m, s, i, right, age))
  BY <1>4, <1>5
<1>. QED BY <1>6 DEF Good

LEMMA OlderJudges ==
  ASSUME NEW m, MatchOK(m) PROVE Judges(m, Arena!Older(m))
<1> DEFINE waits == [m EXCEPT !.grace = [s \in Arena!Side |->
                       IF m.online[s] \/ m.grace[s] = 0 THEN m.grace[s] ELSE m.grace[s] - 1]]
           older == [m EXCEPT !.left = IF @ > -MaxAge THEN @ - 1 ELSE @]
           ended == m.end # "none"
           paused == Arena!Paused(m)
<1>1. Arena!Older(m) = CASE ended -> m [] paused -> waits [] OTHER -> older
  BY Zenon DEF Arena!Older
<1>2. m.end = "none" => Judges(m, waits)
  <2>1. [s \in Arena!Side |-> IF m.online[s] \/ m.grace[s] = 0 THEN m.grace[s] ELSE m.grace[s] - 1]
          \in [Arena!Side -> Int]
    BY DEF MatchOK, MatchSet
  <2>2. /\ waits \in MatchSet /\ waits.stage = m.stage /\ waits.end = m.end
        /\ waits.score = m.score /\ waits.awards = m.awards /\ waits.index = m.index
    BY <2>1 DEF MatchOK, MatchSet
  <2> HIDE DEF waits
  <2>3. MatchOK(waits)
    BY <2>2 DEF MatchOK
  <2>. QED BY <2>2, <2>3, JudgesStep
<1>3. m.end = "none" => Judges(m, older)
  <2>1. (IF m.left > -MaxAge THEN m.left - 1 ELSE m.left) \in Lefts
    BY ArenaAssumption DEF MatchOK, MatchSet, Lefts
  <2>2. /\ older \in MatchSet /\ older.stage = m.stage /\ older.end = m.end
        /\ older.score = m.score /\ older.awards = m.awards /\ older.index = m.index
    BY <2>1 DEF MatchOK, MatchSet
  <2> HIDE DEF older
  <2>3. MatchOK(older)
    BY <2>2 DEF MatchOK
  <2>. QED BY <2>2, <2>3, JudgesStep
<1>4. Judges(m, m)
  BY JudgesSelf
<1>5. paused => ~ended
  BY DEF Arena!Paused
<1>6. (~ended => Judges(m, waits)) /\ (~ended => Judges(m, older))
  BY <1>2, <1>3
<1> HIDE DEF waits, older, paused, ended
<1>. QED BY <1>1, <1>4, <1>5, <1>6

-----------------------------------------------------------------------------
(* The service of the arena. *)

HandlerSet == [pc : {"idle", "wait", "record", "save"}, boot : Arena!Boot, age : 0..MaxAge,
               draft : MatchSet, result : Results]

\* The points shown are those of the row, or zeros after an error.
AwardsOK(m) ==
  m.awards # Arena!NoAwards =>
    (row.end # "none" /\ m.awards = row.points) \/ (failed /\ m.awards = Arena!Zero)

ArenaTypes ==
  /\ MatchOK(match) /\ handler \in [Arena!Slot -> HandlerSet]
  /\ row.end \in Arena!Ends /\ row.points \in Arena!Points \cup {Arena!NoAwards}
       /\ stats \in Arena!Points
  /\ tracked \subseteq {"due", "live"}
  /\ up \in [Arena!Boot -> {"down", "booting", "up", "closing"}]
  /\ lock \in Arena!Slot \cup {"free"} /\ told \in [Arena!Side -> Nat]
  /\ lapsed \in BOOLEAN /\ failed \in BOOLEAN

\* A handler that writes holds the lock, unless a lease has run out, and judged the
\* match as it is, which had not ended.
Writes(x) == handler[x].pc \in {"record", "save"}
HolderOK(x) ==
  /\ Writes(x) => lock = x /\ match.end = "none"
  /\ Writes(x) => \A s \in Arena!Side : handler[x].draft.score[s] >= match.score[s]
  /\ Writes(x) /\ handler[x].result = "right" => x \in Arena!Side
       /\ handler[x].draft.score[x] >= match.score[x] + 1

ArenaInv ==
  /\ ArenaTypes
  /\ AwardsOK(match)
  /\ \A x \in Arena!Slot : /\ MatchOK(handler[x].draft) /\ AwardsOK(handler[x].draft)
                           /\ handler[x].pc = "record" => handler[x].draft.end # "none"
  /\ row.end = "none" => row.points = Arena!NoAwards
  /\ stats = IF row.end = "none" THEN Arena!Zero ELSE row.points
  /\ ~lapsed => \A x \in Arena!Slot : HolderOK(x)
  /\ ~lapsed => \A s \in Arena!Side : told[s] <= match.score[s]

LEMMA ArenaSlots ==
  /\ Arena!Slot = {"a", "b", "owner", "other"} /\ Arena!Side \subseteq Arena!Slot
       /\ Arena!Boot \subseteq Arena!Slot
  /\ Arena!Side \cap Arena!Boot = {} /\ "free" \notin Arena!Slot /\ "owner" \in Arena!Boot
BY DEF Arena!Slot, Arena!Side, Arena!Boot

LEMMA NewMatchOK ==
  MatchOK(Arena!NewMatch) /\ Arena!NewMatch.awards = Arena!NoAwards /\ Arena!NewMatch.end = "none"
    /\ Arena!NewMatch.score = Arena!Zero
<1>1. Rules.vs \in Lefts /\ 1 \in 1..Questions
  BY ArenaAssumption DEF Lefts
<1>2. /\ Arena!NewMatch \in MatchSet /\ Arena!NewMatch.awards = Arena!NoAwards
           /\ Arena!NewMatch.end = "none"
      /\ Arena!NewMatch.score = Arena!Zero /\ Arena!NewMatch.stage = "vs" /\ Arena!NewMatch.index = 1
  BY <1>1 DEF Arena!NewMatch, MatchSet, Stages, Arena!Zero, Arena!Ends
<1>3. Arena!Zero["a"] + Arena!Zero["b"] <= 0
  BY Sides DEF Arena!Zero
<1> HIDE DEF Arena!NewMatch
<1>. QED BY <1>2, <1>3 DEF MatchOK

LEMMA NoHandler ==
  /\ Arena!NoJob \in HandlerSet /\ Arena!NoJob.pc = "idle" /\ MatchOK(Arena!NoJob.draft)
       /\ AwardsOK(Arena!NoJob.draft)
<1>1. Arena!NewMatch \in MatchSet /\ 0 \in 0..MaxAge
  BY NewMatchOK, ArenaAssumption DEF MatchOK
<1>2. /\ Arena!NoJob \in HandlerSet /\ Arena!NoJob.pc = "idle" /\ Arena!NoJob.draft = Arena!NewMatch
  BY <1>1, ArenaSlots DEF Arena!NoJob, HandlerSet, Results
<1>. QED BY <1>2, NewMatchOK DEF AwardsOK

LEMMA ArenaInit == Arena!Init => ArenaInv
<1> SUFFICES ASSUME Arena!Init PROVE ArenaInv
  OBVIOUS
<1>1. MatchOK(match) /\ match.awards = Arena!NoAwards /\ match.score = Arena!Zero
  BY NewMatchOK DEF Arena!Init
<1>2. handler = [x \in Arena!Slot |-> Arena!NoJob] /\ handler \in [Arena!Slot -> HandlerSet]
  BY NoHandler DEF Arena!Init
<1>3. row.end = "none" /\ row.points = Arena!NoAwards /\ stats = Arena!Zero /\ told = Arena!Zero
  BY DEF Arena!Init, Arena!NoRow
<1>4. Arena!Zero \in Arena!Points /\ Arena!Zero \in [Arena!Side -> Nat]
  BY DEF Arena!Zero, Arena!Points
<1>5. ArenaTypes
  BY <1>1, <1>2, <1>3, <1>4, ArenaSlots DEF ArenaTypes, Arena!Init, Arena!Ends
<1>6. \A x \in Arena!Slot : HolderOK(x)
  BY <1>2, NoHandler DEF HolderOK, Writes
<1>7. \A s \in Arena!Side : told[s] <= match.score[s]
  BY <1>1, <1>3 DEF Arena!Zero
<1>. QED BY <1>1, <1>2, <1>3, <1>5, <1>6, <1>7, NoHandler DEF ArenaInv, AwardsOK

\* A step that keeps the match, its row and what the students were told; a handler
\* that still writes is as it was, and holds the lock unless a lease ran out.
LEMMA RestKeeps ==
  ASSUME ArenaInv, UNCHANGED <<match, row, stats, told, failed>>,
         lapsed' \in BOOLEAN, lapsed => lapsed', tracked' \subseteq {"due", "live"},
         up' \in [Arena!Boot -> {"down", "booting", "up", "closing"}],
         lock' \in Arena!Slot \cup {"free"}, handler' \in [Arena!Slot -> HandlerSet],
         \A x \in Arena!Slot : \/ handler'[x].draft = handler[x].draft
                               \/ MatchOK(handler'[x].draft) /\ AwardsOK(handler'[x].draft),
         \A x \in Arena!Slot : handler'[x].pc \in {"record", "save"} =>
                           handler'[x] = handler[x] /\ (lapsed' \/ lock' = x)
  PROVE  ArenaInv'
<1>1. \A m : AwardsOK(m)' <=> AwardsOK(m)
  BY DEF AwardsOK
<1>2. ArenaTypes'
  BY DEF ArenaInv, ArenaTypes
<1>3. AwardsOK(match)' /\ \A x \in Arena!Slot : AwardsOK(handler[x].draft)'
  <2>1. AwardsOK(match)'
    BY <1>1 DEF ArenaInv, AwardsOK
  <2>2. ASSUME NEW x \in Arena!Slot PROVE AwardsOK(handler'[x].draft)
    BY DEF ArenaInv
  <2>. QED BY <2>1, <2>2 DEF AwardsOK
<1>4. \A x \in Arena!Slot : MatchOK(handler'[x].draft)
        /\ (handler'[x].pc = "record" => handler'[x].draft.end # "none")
  BY DEF ArenaInv
<1>5. ASSUME ~lapsed', NEW x \in Arena!Slot PROVE HolderOK(x)'
  BY <1>5 DEF ArenaInv, HolderOK, Writes
<1>6. ~lapsed' => \A s \in Arena!Side : told'[s] <= match'.score[s]
  BY DEF ArenaInv
<1>. QED BY <1>2, <1>3, <1>4, <1>5, <1>6 DEF ArenaInv

LEMMA LifeTyped ==
  ASSUME up \in [Arena!Boot -> {"down", "booting", "up", "closing"}], NEW x \in Arena!Slot
  PROVE  Arena!Life(x) \in [Arena!Boot -> {"down", "booting", "up", "closing"}]
BY ArenaSlots DEF Arena!Life, Arena!Slot

LEMMA RequestKeeps == ASSUME ArenaInv, NEW s \in Arena!Side, Arena!Request(s) PROVE ArenaInv'
<1>1. PICK b \in Arena!Boot : handler' = [handler EXCEPT ![s] = [Arena!NoJob EXCEPT !.pc = "wait", !.boot = b]]
  BY DEF Arena!Request
<1>2. /\ [Arena!NoJob EXCEPT !.pc = "wait", !.boot = b] \in HandlerSet
      /\ [Arena!NoJob EXCEPT !.pc = "wait", !.boot = b].draft = Arena!NoJob.draft
      /\ [Arena!NoJob EXCEPT !.pc = "wait", !.boot = b].pc = "wait"
  BY NoHandler DEF HandlerSet
<1>3. /\ handler \in [Arena!Slot -> HandlerSet] /\ s \in Arena!Slot
      /\ \A x \in Arena!Slot : handler[x].pc \in {"record", "save"} => lapsed \/ lock = x
  BY ArenaSlots DEF ArenaInv, ArenaTypes, HolderOK, Writes
<1>4. /\ UNCHANGED <<match, row, stats, told, failed, lapsed, tracked, up, lock>>
      /\ lapsed \in BOOLEAN /\ tracked \subseteq {"due", "live"}
      /\ up \in [Arena!Boot -> {"down", "booting", "up", "closing"}]
           /\ lock \in Arena!Slot \cup {"free"}
  BY DEF Arena!Request, ArenaInv, ArenaTypes
<1>. QED BY <1>1, <1>2, <1>3, <1>4, NoHandler, RestKeeps

\* Steps that write no handler but those they end.
LEMMA EndsKeeps ==
  ASSUME ArenaInv, UNCHANGED <<match, row, stats, told, failed, lock>>,
         lapsed' = lapsed, tracked' \subseteq {"due", "live"},
         up' \in [Arena!Boot -> {"down", "booting", "up", "closing"}],
         handler' \in [Arena!Slot -> HandlerSet],
         \A x \in Arena!Slot : handler'[x] = handler[x] \/ handler'[x] = Arena!NoJob
  PROVE  ArenaInv'
<1>1. /\ handler \in [Arena!Slot -> HandlerSet] /\ handler' \in [Arena!Slot -> HandlerSet]
      /\ \A x \in Arena!Slot : handler[x].pc \in {"record", "save"} => lapsed \/ lock = x
      /\ lapsed \in BOOLEAN /\ lock \in Arena!Slot \cup {"free"}
  BY DEF ArenaInv, ArenaTypes, HolderOK, Writes
<1>. QED BY <1>1, NoHandler, RestKeeps

LEMMA GiveUpKeeps == ASSUME ArenaInv, NEW x \in Arena!Slot, Arena!GiveUp(x) PROVE ArenaInv'
<1>1. /\ UNCHANGED <<match, row, stats, told, failed, lock, lapsed, tracked>>
      /\ up' = Arena!Life(x) /\ handler' = [handler EXCEPT ![x] = Arena!NoJob]
  BY DEF Arena!GiveUp
<1>2. handler \in [Arena!Slot -> HandlerSet] /\ tracked \subseteq {"due", "live"}
      /\ Arena!Life(x) \in [Arena!Boot -> {"down", "booting", "up", "closing"}]
  BY LifeTyped DEF ArenaInv, ArenaTypes
<1>. QED BY <1>1, <1>2, NoHandler, EndsKeeps

LEMMA HostKeeps ==
  ASSUME ArenaInv, Arena!Start \/ (\E s \in Arena!Side : Arena!Flap(s)) \/ (\E b \in Arena!Boot : Arena!Close(b) \/ Arena!Crash(b))
  PROVE  ArenaInv'
<1>1. /\ UNCHANGED <<match, row, stats, told, failed, lock, lapsed>>
      /\ tracked' = tracked \/ tracked' = tracked \cup {"due"}
      /\ up' = up \/ \E b \in Arena!Boot, l \in {"down", "booting", "closing"} : up' = [up EXCEPT ![b] = l]
      /\ handler' = handler \/ \E b : handler' = [x \in Arena!Slot |-> IF handler[x].boot = b \/ x = b THEN Arena!NoJob ELSE handler[x]]
  BY DEF Arena!Start, Arena!Flap, Arena!Close, Arena!Crash, Arena!Boot
<1>2. /\ handler \in [Arena!Slot -> HandlerSet] /\ tracked \subseteq {"due", "live"}
      /\ up \in [Arena!Boot -> {"down", "booting", "up", "closing"}]
  BY DEF ArenaInv, ArenaTypes
<1>3. tracked' \subseteq {"due", "live"} /\ up' \in [Arena!Boot -> {"down", "booting", "up", "closing"}]
  BY <1>1, <1>2
<1>4. handler' \in [Arena!Slot -> HandlerSet]
        /\ \A x \in Arena!Slot : handler'[x] = handler[x] \/ handler'[x] = Arena!NoJob
  BY <1>1, <1>2, NoHandler
<1>. QED BY <1>1, <1>3, <1>4, EndsKeeps

LEMMA ExpireKeeps == ASSUME ArenaInv, Arena!Expire PROVE ArenaInv'
<1>1. /\ lock # "free" /\ handler[lock].pc # "save" /\ lock' = "free"
      /\ UNCHANGED <<match, row, stats, tracked, up, handler, told, failed>>
      /\ lapsed' = TRUE \/ (lapsed' = lapsed /\ handler[lock].pc # "record")
  BY DEF Arena!Expire
<1>2. /\ handler \in [Arena!Slot -> HandlerSet] /\ tracked \subseteq {"due", "live"}
           /\ lapsed \in BOOLEAN
      /\ up \in [Arena!Boot -> {"down", "booting", "up", "closing"}]
      /\ \A x \in Arena!Slot : handler[x].pc \in {"record", "save"} => lapsed \/ lock = x
  BY DEF ArenaInv, ArenaTypes, HolderOK, Writes
<1>3. \A x \in Arena!Slot : handler[x].pc \in {"record", "save"} => lapsed'
  BY <1>1, <1>2
<1>4. lapsed' \in BOOLEAN /\ (lapsed => lapsed')
  BY <1>1, <1>2
<1>. QED BY <1>1, <1>2, <1>3, <1>4, RestKeeps

\* The holder of the lock has judged the match.
LEMMA CommitKeeps ==
  ASSUME ArenaInv, NEW x \in Arena!Slot, handler[x].pc \notin {"record", "save"}, lock = "free", NEW b \in Arena!Boot,
         NEW d, NEW result \in Results, Judges(match, d),
         result = "right" => x \in Arena!Side /\ d.score[x] >= match.score[x] + 1,
         Arena!Commit(x, b, [draft |-> d, result |-> result]), tracked' \subseteq {"due", "live"},
         UNCHANGED <<match, row, stats, told, failed, lapsed>>
  PROVE  ArenaInv'
<1>1. /\ handler \in [Arena!Slot -> HandlerSet]
           /\ up \in [Arena!Boot -> {"down", "booting", "up", "closing"}]
      /\ lapsed \in BOOLEAN /\ \A y \in Arena!Slot : handler[y].pc \in {"record", "save"} => lapsed
  BY ArenaSlots DEF ArenaInv, ArenaTypes, HolderOK, Writes
<1>2. CASE d = match
  <2>1. handler' = [handler EXCEPT ![x] = Arena!NoJob] /\ up' = Arena!Life(x) /\ UNCHANGED lock
    BY <1>2 DEF Arena!Commit
  <2>2. up' \in [Arena!Boot -> {"down", "booting", "up", "closing"}]
    BY <1>1, <2>1, LifeTyped
  <2>. QED BY <1>1, <2>1, <2>2, NoHandler, EndsKeeps
<1>3. CASE d # match
  <2> DEFINE new == [Arena!NoJob EXCEPT !.pc = IF d.end # "none" THEN "record" ELSE "save",
                                  !.boot = b, !.draft = d, !.result = result]
  <2>1. handler' = [handler EXCEPT ![x] = new] /\ lock' = x /\ UNCHANGED up
    BY <1>3 DEF Arena!Commit
  <2>2. /\ new \in HandlerSet /\ new.draft = d /\ new.result = result /\ new.pc \in {"record", "save"}
        /\ new.pc = "record" => d.end # "none"
    BY NoHandler DEF HandlerSet, Judges, MatchOK
  <2> HIDE DEF new
  <2>3. match.end = "none" /\ d.awards = match.awards /\ MatchOK(d)
          /\ \A s \in Arena!Side : d.score[s] >= match.score[s]
    BY <1>3 DEF Judges
  <2>4. \A m : AwardsOK(m)' <=> AwardsOK(m)
    BY DEF AwardsOK
  <2>5. AwardsOK(d)
    BY <2>3 DEF ArenaInv, AwardsOK
  <2>6. handler' \in [Arena!Slot -> HandlerSet] /\ handler'[x] = new
          /\ \A y \in Arena!Slot \ {x} : handler'[y] = handler[y]
    BY <1>1, <2>1, <2>2
  <2>7. ArenaTypes'
    BY <2>1, <2>6 DEF ArenaInv, ArenaTypes
  <2>8. AwardsOK(match)'
    BY DEF ArenaInv, AwardsOK
  <2>9. ASSUME NEW y \in Arena!Slot
        PROVE  /\ MatchOK(handler'[y].draft) /\ AwardsOK(handler[y].draft)'
               /\ handler'[y].pc = "record" => handler'[y].draft.end # "none"
    <3>1. CASE y = x
      <4>1. AwardsOK(d)'
        BY <2>5 DEF AwardsOK
      <4>. QED BY <2>2, <2>3, <2>6, <3>1, <4>1 DEF AwardsOK
    <3>2. CASE y # x
      BY <2>6, <3>2 DEF ArenaInv, AwardsOK
    <3>. QED BY <3>1, <3>2
  <2>10. ASSUME ~lapsed', NEW y \in Arena!Slot PROVE HolderOK(y)'
    <3>1. CASE y = x
      <4>1. handler'[y] = new /\ lock' = y
        BY <2>1, <2>6, <3>1
      <4>. QED BY <2>2, <2>3, <3>1, <4>1 DEF HolderOK, Writes
    <3>2. CASE y # x
      BY <1>1, <2>6, <2>10, <3>2 DEF HolderOK, Writes
    <3>. QED BY <3>1, <3>2
  <2>. QED BY <2>7, <2>8, <2>9, <2>10 DEF ArenaInv
<1>. QED BY <1>2, <1>3

LEMMA EnterKeeps == ASSUME ArenaInv, NEW s \in Arena!Side, Arena!Enter(s) PROVE ArenaInv'
<1>1. /\ s \in Arena!Slot /\ handler[s].pc = "wait" /\ lock = "free" /\ handler[s].boot \in Arena!Boot
      /\ handler[s].age \in 0..MaxAge /\ MatchOK(match) /\ tracked' \subseteq {"due", "live"}
      /\ UNCHANGED <<match, row, stats, told, failed, lapsed>>
  BY ArenaSlots DEF ArenaInv, ArenaTypes, HandlerSet, Arena!Enter
<1>2. ASSUME NEW right \in BOOLEAN, NEW i \in 1..Questions,
             Arena!Commit(s, handler[s].boot, Arena!Answer(match, s, i, right, handler[s].age))
      PROVE  ArenaInv'
  <2> DEFINE r == Arena!Answer(match, s, i, right, handler[s].age)
  <2>1. /\ Judges(match, r.draft) /\ r.result \in Results
        /\ r.result = "right" => r.draft.score[s] >= match.score[s] + 1
    BY <1>1, AnswerJudges
  <2> HIDE DEF r
  <2>2. Arena!Commit(s, handler[s].boot, r)
    BY <1>2 DEF r
  <2>3. Arena!Commit(s, handler[s].boot, [draft |-> r.draft, result |-> r.result])
    BY <2>2 DEF Arena!Commit
  <2>. QED BY <1>1, <2>1, <2>3, CommitKeeps
<1>3. CASE Arena!Commit(s, handler[s].boot, [draft |-> Arena!Leave(match, s), result |-> "none"])
  <2>1. Judges(match, Arena!Leave(match, s)) /\ "none" \in Results
    BY <1>1, LeaveJudges DEF Results
  <2>. QED BY <1>1, <1>3, <2>1, CommitKeeps
<1>. QED BY <1>2, <1>3 DEF Arena!Enter

LEMMA FireKeeps == ASSUME ArenaInv, NEW b \in Arena!Boot, Arena!Fire(b) PROVE ArenaInv'
<1>1. /\ b \in Arena!Slot /\ handler[b].pc = "idle" /\ lock = "free" /\ MatchOK(match)
      /\ tracked' \subseteq {"due", "live"} /\ UNCHANGED <<match, row, stats, told, failed, lapsed>>
  BY ArenaSlots DEF ArenaInv, ArenaTypes, Arena!Fire, Arena!Schedule
<1>2. Judges(match, Arena!Timed(b)) /\ "none" \in Results
  BY <1>1, TimedJudges DEF Results
<1>3. Arena!Commit(b, b, [draft |-> Arena!Timed(b), result |-> "none"])
  BY DEF Arena!Fire
<1>. QED BY <1>1, <1>2, <1>3, CommitKeeps

\* A handler saves its draft, or fails to, and ends.
LEMMA EndingKeeps ==
  ASSUME ArenaInv, NEW x \in Arena!Slot, Writes(x),
         match' = match \/ match' = handler[x].draft,
         UNCHANGED <<row, stats, lapsed, failed>>, Arena!Unlock(x), up' = Arena!Life(x),
         handler' = [handler EXCEPT ![x] = Arena!NoJob], tracked' \subseteq {"due", "live"},
         told' = told \/ (match' = handler[x].draft /\ handler[x].result = "right"
                            /\ told' = [told EXCEPT ![x] = @ + 1])
  PROVE  ArenaInv'
<1>1. /\ handler \in [Arena!Slot -> HandlerSet]
           /\ up \in [Arena!Boot -> {"down", "booting", "up", "closing"}]
      /\ lock \in Arena!Slot \cup {"free"} /\ told \in [Arena!Side -> Nat] /\ MatchOK(match)
      /\ MatchOK(handler[x].draft) /\ AwardsOK(match) /\ AwardsOK(handler[x].draft)
  BY DEF ArenaInv, ArenaTypes
<1>2. handler' \in [Arena!Slot -> HandlerSet] /\ handler'[x] = Arena!NoJob
        /\ \A y \in Arena!Slot \ {x} : handler'[y] = handler[y]
  BY <1>1, NoHandler
<1>3. lock' \in Arena!Slot \cup {"free"} /\ up' \in [Arena!Boot -> {"down", "booting", "up", "closing"}]
  BY <1>1, LifeTyped DEF Arena!Unlock
<1>4. told' \in [Arena!Side -> Nat]
  BY <1>1
<1>5. ArenaTypes'
  BY <1>1, <1>2, <1>3, <1>4 DEF ArenaInv, ArenaTypes
<1>6. AwardsOK(match)'
  BY <1>1 DEF AwardsOK
<1>7. ASSUME NEW y \in Arena!Slot
      PROVE  /\ MatchOK(handler'[y].draft) /\ AwardsOK(handler[y].draft)'
             /\ handler'[y].pc = "record" => handler'[y].draft.end # "none"
  <2>1. CASE y = x
    BY <1>2, <2>1, NoHandler DEF AwardsOK
  <2>2. CASE y # x
    BY <1>2, <2>2 DEF ArenaInv, AwardsOK
  <2>. QED BY <2>1, <2>2
<1>8. ASSUME ~lapsed' PROVE (\A y \in Arena!Slot : HolderOK(y)')
               /\ \A s \in Arena!Side : told'[s] <= match'.score[s]
  <2>1. /\ \A y \in Arena!Slot \ {x} : ~Writes(y)
        /\ \A s \in Arena!Side : handler[x].draft.score[s] >= match.score[s]
             /\ told[s] <= match.score[s]
        /\ handler[x].result = "right" => x \in Arena!Side
             /\ handler[x].draft.score[x] >= match.score[x] + 1
    BY <1>8 DEF ArenaInv, HolderOK
  <2>2. \A y \in Arena!Slot : ~Writes(y)'
    BY <1>2, <2>1, NoHandler DEF Writes
  <2>3. match.score \in [Arena!Side -> Nat] /\ handler[x].draft.score \in [Arena!Side -> Nat]
    BY <1>1 DEF MatchOK, MatchSet
  <2>4. \A s \in Arena!Side : told'[s] <= match'.score[s]
    <3>1. CASE told' = told
      BY <1>1, <2>1, <2>3, <3>1
    <3>2. CASE match' = handler[x].draft /\ handler[x].result = "right"
                 /\ told' = [told EXCEPT ![x] = @ + 1]
      BY <1>1, <2>1, <2>3, <3>2
    <3>. QED BY <3>1, <3>2
  <2>. QED BY <2>2, <2>4 DEF HolderOK
<1>. QED BY <1>5, <1>6, <1>7, <1>8 DEF ArenaInv

LEMMA SaveKeeps == ASSUME ArenaInv, NEW x \in Arena!Slot, Arena!Save(x) \/ Arena!Fault(x)
      PROVE ArenaInv'
<1>1. /\ Writes(x) /\ UNCHANGED <<row, stats, lapsed, failed>> /\ Arena!Unlock(x) /\ up' = Arena!Life(x)
      /\ handler' = [handler EXCEPT ![x] = Arena!NoJob] /\ match' \in {match, handler[x].draft}
  BY DEF Arena!Save, Arena!Fault, Writes
<1>2. tracked' \subseteq {"due", "live"}
  BY DEF ArenaInv, ArenaTypes, Arena!Save, Arena!Fault, Arena!Schedule
<1>3. told' = told \/ (match' = handler[x].draft /\ handler[x].result = "right"
                            /\ told' = [told EXCEPT ![x] = @ + 1])
  BY DEF Arena!Save, Arena!Fault
<1>. QED BY <1>1, <1>2, <1>3, EndingKeeps

LEMMA RecordKeeps == ASSUME ArenaInv, NEW x \in Arena!Slot, Arena!Record(x) PROVE ArenaInv'
<1>1. PICK points \in [Arena!Side -> {0, 1, 3}], write \in BOOLEAN, error \in BOOLEAN :
        /\ write => row.end = "none"
        /\ ~write => points = Arena!Zero /\ (row.end # "none" \/ error)
        /\ failed' = (failed \/ error)
        /\ row' = IF write THEN [end |-> handler[x].draft.end, points |-> points] ELSE row
        /\ stats' = [s \in Arena!Side |-> stats[s] + points[s]]
        /\ handler' = [handler EXCEPT ![x].pc = "save",
                              ![x].draft.awards = IF error THEN Arena!Zero ELSE row'.points]
  BY DEF Arena!Record
<1>2. /\ handler \in [Arena!Slot -> HandlerSet] /\ handler[x].pc = "record" /\ Writes(x)
      /\ UNCHANGED <<match, tracked, up, lock, told, lapsed>>
  BY DEF Arena!Record, ArenaInv, ArenaTypes, Writes
<1>3. /\ points \in Arena!Points /\ Arena!Zero \in Arena!Points /\ handler[x].draft.end # "none"
           /\ handler[x].draft \in MatchSet
      /\ MatchOK(handler[x].draft) /\ handler[x].draft.end \in Arena!Ends
  BY <1>2 DEF Arena!Points, Arena!Zero, ArenaInv, MatchOK, MatchSet
<1>4. /\ row'.end \in Arena!Ends /\ row'.points \in Arena!Points \cup {Arena!NoAwards}
      /\ row'.end = "none" => row'.points = Arena!NoAwards
      /\ row.end # "none" => row' = row
      /\ write => row'.end # "none"
  BY <1>1, <1>3 DEF ArenaInv, ArenaTypes
<1>5. stats' = (IF row'.end = "none" THEN Arena!Zero ELSE row'.points) /\ stats' \in Arena!Points
  <2>1. stats \in Arena!Points /\ stats = (IF row.end = "none" THEN Arena!Zero ELSE row.points)
    BY DEF ArenaInv, ArenaTypes
  <2>2. CASE write
    <3>1. stats = Arena!Zero /\ row'.points = points /\ row'.end # "none"
      BY <1>1, <1>3, <2>1, <2>2
    <3>2. \A s \in Arena!Side : stats[s] + points[s] = points[s]
      BY <3>1, <1>3 DEF Arena!Zero, Arena!Points
    <3>3. stats' = points
      BY <1>1, <1>3, <3>2 DEF Arena!Points
    <3>. QED BY <3>1, <3>3, <1>3
  <2>3. CASE ~write
    <3>1. points = Arena!Zero /\ row' = row
      BY <1>1, <2>3
    <3>2. \A s \in Arena!Side : stats[s] + points[s] = stats[s]
      BY <3>1, <2>1 DEF Arena!Zero, Arena!Points
    <3>3. stats' = stats
      BY <1>1, <2>1, <3>2 DEF Arena!Points
    <3>. QED BY <2>1, <3>1, <3>3
  <2>. QED BY <2>2, <2>3
<1> DEFINE given == IF error THEN Arena!Zero ELSE row'.points
           d == [handler[x].draft EXCEPT !.awards = given]
           new == [handler[x] EXCEPT !.pc = "save", !.draft = d]
<1>6. /\ given \in Arena!Points \cup {Arena!NoAwards}
      /\ given # Arena!NoAwards => (row'.end # "none" /\ given = row'.points) \/ (failed' /\ given = Arena!Zero)
  BY <1>1, <1>3, <1>4
<1>7. handler' = [handler EXCEPT ![x] = new]
  BY <1>1, <1>2
<1> HIDE DEF given
<1>8. /\ MatchOK(d) /\ d \in MatchSet /\ d.awards = given /\ d.score = handler[x].draft.score
           /\ d.end # "none"
  BY <1>3, <1>6 DEF MatchOK, MatchSet
<1> HIDE DEF d
<1>9. /\ new \in HandlerSet /\ new.draft = d /\ new.result = handler[x].result /\ new.pc = "save"
  BY <1>2, <1>8 DEF HandlerSet
<1> HIDE DEF new
<1>10. handler' \in [Arena!Slot -> HandlerSet] /\ handler'[x] = new
         /\ \A y \in Arena!Slot \ {x} : handler'[y] = handler[y]
  BY <1>2, <1>7, <1>9
<1>11. failed' \in BOOLEAN /\ (failed => failed')
  BY <1>1 DEF ArenaInv, ArenaTypes
<1>12. \A m : AwardsOK(m) => (m.awards # Arena!NoAwards =>
              (row'.end # "none" /\ m.awards = row'.points) \/ (failed' /\ m.awards = Arena!Zero))
  BY <1>4, <1>11 DEF AwardsOK
<1>13. ArenaTypes'
  BY <1>2, <1>4, <1>5, <1>10, <1>11 DEF ArenaInv, ArenaTypes
<1>14. AwardsOK(match)'
  BY <1>2, <1>12 DEF ArenaInv, AwardsOK
<1>15. ASSUME NEW y \in Arena!Slot
       PROVE  /\ MatchOK(handler'[y].draft) /\ AwardsOK(handler[y].draft)'
              /\ handler'[y].pc = "record" => handler'[y].draft.end # "none"
  <2>1. CASE y = x
    <3>1. handler'[y] = new
      BY <1>10, <2>1
    <3>. QED BY <1>6, <1>8, <1>9, <3>1 DEF AwardsOK
  <2>2. CASE y # x
    BY <1>10, <1>12, <2>2 DEF ArenaInv, AwardsOK
  <2>. QED BY <2>1, <2>2
<1>16. ASSUME ~lapsed', NEW y \in Arena!Slot PROVE HolderOK(y)'
  <2>1. HolderOK(y) /\ HolderOK(x)
    BY <1>2, <1>16 DEF ArenaInv
  <2>2. CASE y = x
    <3>1. handler'[y] = new
      BY <1>10, <2>2
    <3>. QED BY <1>2, <1>8, <1>9, <2>1, <2>2, <3>1 DEF HolderOK, Writes
  <2>3. CASE y # x
    BY <1>2, <1>10, <2>1, <2>3 DEF HolderOK, Writes
  <2>. QED BY <2>2, <2>3
<1>17. ~lapsed' => \A s \in Arena!Side : told'[s] <= match'.score[s]
  BY <1>2 DEF ArenaInv
<1>. QED BY <1>4, <1>5, <1>13, <1>14, <1>15, <1>16, <1>17 DEF ArenaInv

LEMMA PassKeeps == ASSUME ArenaInv, Arena!Pass PROVE ArenaInv'
<1>1. /\ Judges(match, match') /\ match'.awards = match.awards /\ MatchOK(match')
      /\ \A s \in Arena!Side : match'.score[s] >= match.score[s]
  BY OlderJudges DEF ArenaInv, ArenaTypes, Arena!Pass, Judges
<1>2. UNCHANGED <<row, stats, tracked, up, lock, told, lapsed, failed>>
  BY DEF Arena!Pass
<1>3. ASSUME NEW x \in Arena!Slot
      PROVE  /\ handler'[x] \in HandlerSet /\ handler'[x].pc = handler[x].pc
                  /\ handler'[x].draft = handler[x].draft
  <2>1. handler[x] \in HandlerSet
    BY DEF ArenaInv, ArenaTypes
  <2>2. CASE handler[x].pc = "wait"
    <3>1. handler'[x] = [handler[x] EXCEPT !.age = @ + 1] /\ handler[x].age + 1 \in 0..MaxAge
      BY <2>1, <2>2, ArenaAssumption DEF Arena!Pass, HandlerSet
    <3>. QED BY <2>1, <3>1 DEF HandlerSet
  <2>3. CASE handler[x].pc # "wait"
    BY <2>1, <2>3 DEF Arena!Pass
  <2>. QED BY <2>2, <2>3
<1>4. handler' \in [Arena!Slot -> HandlerSet]
  <2>1. handler' = [x \in Arena!Slot |-> handler'[x]]
    BY DEF Arena!Pass
  <2> DEFINE f == handler'
  <2>2. f = [x \in Arena!Slot |-> f[x]] /\ \A x \in Arena!Slot : f[x] \in HandlerSet
    BY <2>1, <1>3
  <2> HIDE DEF f
  <2>3. f \in [Arena!Slot -> HandlerSet]
    BY <2>2
  <2>. QED BY <2>3 DEF f
<1>5. ArenaTypes'
  BY <1>1, <1>2, <1>4 DEF ArenaInv, ArenaTypes
<1>6. AwardsOK(match)' /\ \A x \in Arena!Slot : AwardsOK(handler[x].draft)'
  BY <1>1, <1>2, <1>3 DEF ArenaInv, AwardsOK
<1>7. \A x \in Arena!Slot : MatchOK(handler'[x].draft)
        /\ (handler'[x].pc = "record" => handler'[x].draft.end # "none")
  BY <1>3 DEF ArenaInv
<1>8. ASSUME ~lapsed', NEW x \in Arena!Slot PROVE HolderOK(x)'
  <2>1. ~Writes(x)
    BY <1>2, <1>8 DEF ArenaInv, HolderOK, Writes, Arena!Pass
  <2>. QED BY <1>3, <2>1 DEF HolderOK, Writes
<1>9. ~lapsed' => \A s \in Arena!Side : told'[s] <= match'.score[s]
  <2>1. /\ match.score \in [Arena!Side -> Nat] /\ match'.score \in [Arena!Side -> Nat]
             /\ told \in [Arena!Side -> Nat]
    BY <1>1 DEF ArenaInv, ArenaTypes, MatchOK, MatchSet
  <2>. QED BY <1>1, <1>2, <2>1 DEF ArenaInv
<1>. QED BY <1>2, <1>5, <1>6, <1>7, <1>8, <1>9 DEF ArenaInv

LEMMA ArenaNext == ArenaInv /\ Arena!Next => ArenaInv'
<1> SUFFICES ASSUME ArenaInv, Arena!Next PROVE ArenaInv'
  OBVIOUS
<1>1. ASSUME NEW s \in Arena!Side, Arena!Request(s) \/ Arena!Flap(s) PROVE ArenaInv'
  BY <1>1, RequestKeeps, HostKeeps
<1>2. ASSUME NEW b \in Arena!Boot, Arena!Fire(b) \/ Arena!Close(b) \/ Arena!Crash(b) PROVE ArenaInv'
  BY <1>2, FireKeeps, HostKeeps
<1>3. ASSUME NEW x \in Arena!Slot, Arena!Serve(x) \/ Arena!Fault(x) PROVE ArenaInv'
  BY <1>3, EnterKeeps, RecordKeeps, SaveKeeps, GiveUpKeeps DEF Arena!Serve
<1>4. CASE Arena!Start \/ Arena!Expire \/ Arena!Pass
  BY <1>4, HostKeeps, ExpireKeeps, PassKeeps
<1>. QED BY <1>1, <1>2, <1>3, <1>4 DEF Arena!Next

LEMMA ArenaStep == ArenaInv /\ [Arena!Next]_(Arena!vars) => ArenaInv'
<1>1. ArenaInv /\ UNCHANGED Arena!vars => ArenaInv'
  <2> SUFFICES ASSUME ArenaInv, UNCHANGED Arena!vars PROVE ArenaInv'
    OBVIOUS
  <2>1. UNCHANGED <<match, row, stats, tracked, up, lock, handler, told, lapsed, failed>>
    BY DEF Arena!vars
  <2>2. /\ handler' \in [Arena!Slot -> HandlerSet] /\ tracked' \subseteq {"due", "live"}
             /\ lapsed' \in BOOLEAN
        /\ up' \in [Arena!Boot -> {"down", "booting", "up", "closing"}]
    BY <2>1 DEF ArenaInv, ArenaTypes
  <2>. QED BY <2>1, <2>2, EndsKeeps
<1>. QED BY <1>1, ArenaNext

\* Only a handler that writes, or the clock, changes the match.
LEMMA EndStays ==
  ASSUME ArenaInv, [Arena!Next]_(Arena!vars), match.end # "none", ~lapsed
  PROVE  match'.end = match.end /\ match'.winner = match.winner /\ match'.awards = match.awards
<1>1. \A x \in Arena!Slot : ~Writes(x)
  BY DEF ArenaInv, HolderOK
<1>2. CASE Arena!Pass
  BY <1>2, OlderJudges DEF ArenaInv, ArenaTypes, Arena!Pass, Judges
<1>3. CASE \E x \in Arena!Slot : Arena!Save(x) \/ Arena!Fault(x)
  BY <1>1, <1>3 DEF Writes, Arena!Save, Arena!Fault
<1>4. CASE UNCHANGED match
  BY <1>4
<1>5. CASE Arena!Next
  <2>1. ASSUME NEW s \in Arena!Side, Arena!Request(s) \/ Arena!Flap(s) PROVE UNCHANGED match
    BY <2>1 DEF Arena!Request, Arena!Flap
  <2>2. ASSUME NEW b \in Arena!Boot, Arena!Fire(b) \/ Arena!Close(b) \/ Arena!Crash(b)
        PROVE UNCHANGED match
    BY <2>2 DEF Arena!Fire, Arena!Close, Arena!Crash
  <2>3. ASSUME NEW x \in Arena!Slot, Arena!Serve(x) \/ Arena!Fault(x)
        PROVE UNCHANGED match \/ Arena!Save(x) \/ Arena!Fault(x)
    BY <2>3 DEF Arena!Serve, Arena!Enter, Arena!Record, Arena!GiveUp
  <2>4. CASE Arena!Start \/ Arena!Expire
    BY <2>4, <1>4 DEF Arena!Start, Arena!Expire
  <2>. QED BY <1>2, <1>3, <1>4, <1>5, <2>1, <2>2, <2>3, <2>4 DEF Arena!Next
<1>. QED BY <1>4, <1>5 DEF Arena!vars

LEMMA ArenaTyped == ArenaInv => Arena!TypeOK
BY DEF ArenaInv, ArenaTypes, MatchOK, MatchSet, Stages, Lefts, HandlerSet, Arena!TypeOK

LEMMA ArenaPoints == ArenaInv => Arena!OnePointPerQuestion
BY Sides DEF ArenaInv, ArenaTypes, MatchOK, MatchSet, Stages, Arena!OnePointPerQuestion, Arena!Asked

LEMMA ArenaAlways == Spec => []ArenaInv
<1>1. Init => ArenaInv
  BY ArenaInit DEF Init
<1>2. ArenaInv /\ [Next]_vars => ArenaInv'
  BY ArenaStep DEF Next, vars, arena, Arena!vars
<1>. QED BY <1>1, <1>2, PTL DEF Spec

\* The first right answer takes a question: none gives two points
\* (arena-engine.ts, rules 1 and 3).
THEOREM OnePointPerQuestionAlways == Spec => []OnePointPerQuestion
<1>1. ArenaInv => OnePointPerQuestion
  BY ArenaPoints DEF OnePointPerQuestion
<1>. QED BY <1>1, ArenaAlways, PTL

\* An answer told right has scored in the match that is kept, unless a lease ran out
\* under its holder (ArenaService: every change to a match goes through withLock).
THEOREM ToldRightIsScoredAlways == Spec => []ToldRightIsScored
<1>1. ArenaInv => ToldRightIsScored
  BY DEF ArenaInv, ToldRightIsScored, Arena!ToldRightIsScored
<1>. QED BY <1>1, ArenaAlways, PTL

\* The points of a match are given once, and those shown are those given, or zeros
\* after an error (records.record: "the same result").
THEOREM ShownPointsAreGivenAlways == Spec => []ShownPointsAreGiven
<1>1. ArenaInv => ShownPointsAreGiven
  BY DEF ArenaInv, AwardsOK, ShownPointsAreGiven, Arena!ShownPointsAreGiven
<1>. QED BY <1>1, ArenaAlways, PTL

\* No sweep, boot, deploy or late request ends a match again, unless a lease ran out
\* under its holder.
THEOREM EndIsFinalAlways == Spec => EndIsFinal
<1>1. ArenaInv /\ [Next]_vars
        => [match.end # "none" /\ ~lapsed =>
              /\ match'.end = match.end /\ match'.winner = match.winner
              /\ match'.awards = match.awards]_(Arena!vars)
  BY EndStays DEF Next, vars, arena, Arena!vars
<1>. QED BY <1>1, ArenaAlways, PTL DEF Spec, EndIsFinal, Arena!EndIsFinal
-----------------------------------------------------------------------------
(* The types of all. *)

LEMMA MoneyTyped == MoneyInv => Money!TypeOK
<1> SUFFICES ASSUME MoneyInv PROVE Money!TypeOK
  OBVIOUS
<1>1. PICK n \in Nat : transfers \in [1..n -> Money!Row]
  BY DEF MoneyInv, MoneyTypes
<1>2. DOMAIN transfers = 1..Money!Cardinality(DOMAIN transfers)
  BY <1>1, FS_Interval, MoneyCounts
<1>3. \A t \in DOMAIN transfers : transfers[t] \in Money!Row
  BY <1>1
<1>4. /\ \A c \in Claims : thing[c] \in {"pending", "approved", "rejected"}
      /\ \A o \in Orders : thing[o] \in {"address_only", "paid"}
      /\ deleted \subseteq Orders
  BY TransferAssumption DEF MoneyInv, MoneyTypes, ThingSet, Money!Things
<1>5. \A x \in Money!Things : paidBy[x] \subseteq DOMAIN transfers
  BY DEF MoneyInv, SettledOK, Money!Naming
<1>. QED BY <1>2, <1>3, <1>4, <1>5 DEF Money!TypeOK

LEMMA MoneyAlways == Spec => []MoneyInv
<1>1. Init => MoneyInv
  BY MoneyInit DEF Init
<1>2. MoneyInv /\ [Next]_vars => MoneyInv'
  BY MoneyStep DEF Next, vars, money, Money!vars
<1>. QED BY <1>1, <1>2, PTL DEF Spec

LEMMA TrailTyped == Spec => []Trail!TypeOK
<1>1. TrailP!TypeOK => Trail!TypeOK
  BY Zenon DEF Trail!TypeOK, TrailP!TypeOK
<1>2. TrailP!Spec => []TrailP!TypeOK
  BY TrailBounds, TrailP!TrailTypes
<1>. QED BY <1>1, <1>2, TrailRuns, PTL

LEMMA ResetTyped == Spec => []Reset!TypeOK
<1>1. ResetP!TypeOK => Reset!TypeOK
  BY Zenon DEF Reset!TypeOK, ResetP!TypeOK, Reset!SendStatuses, ResetP!SendStatuses
<1>2. ResetP!Spec => []ResetP!TypeOK
  BY ResetBounds, ResetP!ResetTypes
<1>. QED BY <1>1, <1>2, ResetRuns, PTL

FriendsTyped == IF part = "two friends" THEN TwoFriends!TypeOK ELSE OneFriend!TypeOK

LEMMA ReferralsTyped == Spec => []FriendsTyped
<1>1. Spec /\ part # "two friends" => []OneP!TypeOK
  BY OneRuns, OneBounds, OneP!TypeCorrect, PTL
<1>2. Spec /\ part = "two friends" => []TwoP!TypeOK
  BY TwoRuns, TwoBounds, TwoP!TypeCorrect, PTL
<1>3. part # "two friends" /\ OneP!TypeOK => FriendsTyped
  BY Zenon, OneFriendWallets DEF FriendsTyped, OneFriend!TypeOK, OneP!TypeOK, OneFriend!Jobs, OneP!Jobs
<1>4. part = "two friends" /\ TwoP!TypeOK => FriendsTyped
  BY Zenon, TwoFriendsWallets DEF FriendsTyped, TwoFriends!TypeOK, TwoP!TypeOK, TwoFriends!Jobs,
      TwoP!Jobs
<1>5. part = "two friends" \/ part # "two friends"
  OBVIOUS
<1>. QED BY <1>1, <1>2, <1>3, <1>4, <1>5, PartStays, PTL

\* The variables of every service keep their types, the part that moves and those
\* that rest.
THEOREM TypesAlways == Spec => []TypesOK
<1>1. ArenaInv /\ BooksInv /\ MoneyInv /\ Reset!TypeOK /\ Trail!TypeOK /\ FriendsTyped => TypesOK
  BY ArenaTyped, BooksTyped, MoneyTyped DEF FriendsTyped, TypesOK
<1>. QED BY <1>1, ArenaAlways, BooksAlways, MoneyAlways, TrailTyped, ResetTyped, ReferralsTyped, PTL
=============================================================================
