------------------------------ MODULE Services -------------------------------
(***************************************************************************)
(* The services that share no state, side by side: part says which of them *)
(* moves in a behaviour, and the others rest where they begin, so that the *)
(* states of all are those of one added to those of the next.              *)
(***************************************************************************)
EXTENDS Integers, FiniteSets

CONSTANTS
  Questions, Rules, MaxAge, Budgets,                      \* ArenaMatch
  One, Two,                                               \* Referrals, twice, as records
  Slots, Pictures, Plans,                                 \* BookOrders
  Captures, Handles, Claims, Orders, OwnerOf, MaxTransfers, MaxRuns,  \* Transfers
  Requests, PhoneOf, Limits, Guesses,                     \* PasswordReset
  Writers, MaxTrail, PageSize                             \* AuditTrail

\* Rules of at least nothing; a question resumed has no more time than a stage may.
ASSUME ArenaAssumption ==
  /\ Questions \in Nat \ {0} /\ MaxAge \in Nat
  /\ Rules.vs \in Nat /\ Rules.question \in Nat /\ Rules.reveal \in Nat /\ Rules.grace \in Nat
  /\ Rules.resumeMin \in 0..(Rules.vs + Rules.question + Rules.reveal)
\* A claim is no order, and "none" is neither.
ASSUME TransferAssumption == Claims \cap Orders = {} /\ "none" \notin Claims \cup Orders
\* "free" is no writer.
ASSUME TrailAssumption == MaxTrail \in Nat /\ PageSize \in Nat /\ "free" \notin Writers
\* "free" is no request.
ASSUME ResetAssumption ==
  /\ Limits.attempts \in Nat /\ Limits.perPhone \in Nat /\ Limits.sends \in Nat
  /\ Requests # {} /\ IsFiniteSet(Requests) /\ "free" \notin Requests
\* Nobody refers himself, and rewards are amounts.
ReferralBounds(size) ==
  /\ size.refs # {} /\ IsFiniteSet(size.refs) /\ size.cap \in Nat
  /\ \A r \in size.refs : size.referrerOf[r] # r
  /\ \A p \in size.programs : p["referrer"] \in Nat /\ p["friend"] \in Nat
ASSUME ReferralAssumption == ReferralBounds(One) /\ ReferralBounds(Two)

VARIABLES
  part,
  match, row, stats, tracked, present, up, lock, handler, told, lapsed, failed, bounds,
  ref, ledger, balance, pay, program, held, job, budget,
  order, seen, slot, plan,
  transfers, known, thing, deleted, capture, begun, paidBy, runs,
  codes, codeLock, work, guess, wire, resets,
  log, nextId, chainLock, tx, walk

arena == <<match, row, stats, tracked, present, up, lock, handler, told, lapsed, failed, bounds>>
referrals == <<ref, ledger, balance, pay, program, held, job, budget>>
books == <<order, seen, slot, plan>>
money == <<transfers, known, thing, deleted, capture, begun, paidBy, runs>>
reset == <<codes, codeLock, work, guess, wire, resets>>
trail == <<log, nextId, chainLock, tx, walk>>
vars == <<part, arena, referrals, books, money, reset, trail>>


Arena == INSTANCE ArenaMatch WITH job <- handler, budget <- bounds
OneFriend == INSTANCE Referrals WITH
  Refs <- One.refs, ReferrerOf <- One.referrerOf, Replicas <- One.replicas,
  Admins <- One.admins, Programs <- One.programs, MonthlyCap <- One.cap,
  MaxChanges <- One.changes, MaxRollBacks <- One.rollbacks
TwoFriends == INSTANCE Referrals WITH
  Refs <- Two.refs, ReferrerOf <- Two.referrerOf, Replicas <- Two.replicas,
  Admins <- Two.admins, Programs <- Two.programs, MonthlyCap <- Two.cap,
  MaxChanges <- Two.changes, MaxRollBacks <- Two.rollbacks
Books == INSTANCE BookOrders
Money == INSTANCE Transfers WITH rows <- transfers, MaxRows <- MaxTransfers
Reset == INSTANCE PasswordReset WITH row <- codes, lock <- codeLock
Trail == INSTANCE AuditTrail WITH next <- nextId, lock <- chainLock, MaxRows <- MaxTrail

\* The requests under way are finitely many; an order begins in a status of the table.
ASSUME BookAssumption ==
  /\ IsFiniteSet(Slots)
  /\ \A p \in Plans : /\ {"orders", "ops"} \subseteq DOMAIN p
                      /\ p.from \subseteq Books!Live \cup {"rejected"}

Init ==
  /\ part \in {"arena", "one friend", "two friends", "books", "money", "reset", "trail"}
  /\ Arena!Init
  /\ part # "arena" => bounds = CHOOSE b \in Budgets : TRUE
  /\ IF part = "two friends" THEN TwoFriends!Init ELSE OneFriend!Init
  /\ part # "one friend" => program.enabled
  /\ Books!Init
  /\ part # "books" => plan = CHOOSE p \in Plans : TRUE
  /\ Money!Init
  /\ part # "money" => transfers = <<>>
  /\ Reset!Init /\ Trail!Init

Next ==
  \/ /\ part = "arena" /\ Arena!Next
     /\ UNCHANGED <<part, referrals, books, money, reset, trail>>
  \/ /\ part = "one friend" /\ OneFriend!Next
     /\ UNCHANGED <<part, arena, books, money, reset, trail>>
  \/ /\ part = "two friends" /\ TwoFriends!Next
     /\ UNCHANGED <<part, arena, books, money, reset, trail>>
  \/ /\ part = "books" /\ Books!Next
     /\ UNCHANGED <<part, arena, referrals, money, reset, trail>>
  \/ /\ part = "money" /\ Money!Next
     /\ UNCHANGED <<part, arena, referrals, books, reset, trail>>
  \/ /\ part = "reset" /\ Reset!Next
     /\ UNCHANGED <<part, arena, referrals, books, money, trail>>
  \/ /\ part = "trail" /\ Trail!Next
     /\ UNCHANGED <<part, arena, referrals, books, money, reset>>

\* The fairness of the part that moves.
Fairness ==
  /\ \A b \in Arena!Boot : WF_arena(part = "arena" /\ Arena!Fire(b))
  /\ \A x \in Arena!Slot : WF_arena(part = "arena" /\ Arena!Serve(x))
  /\ WF_arena(part = "arena" /\ Arena!Restart) /\ WF_arena(part = "arena" /\ Arena!LeaseOut)
  /\ WF_arena(part = "arena" /\ Arena!Pass)
  /\ \A r \in One.refs :
       /\ SF_referrals(part = "one friend" /\ \E j \in One.replicas : OneFriend!StartReward(j, r))
       /\ SF_referrals(part = "one friend" /\ \E j \in One.replicas : OneFriend!StartReverse(j, r))
  /\ \A j \in OneFriend!Jobs : WF_referrals(part = "one friend" /\ OneFriend!Step(j))

Spec == Init /\ [][Next]_vars /\ Fairness

TypesOK ==
  /\ Arena!TypeOK /\ Books!TypeOK /\ Money!TypeOK /\ Reset!TypeOK /\ Trail!TypeOK
  /\ IF part = "two friends" THEN TwoFriends!TypeOK ELSE OneFriend!TypeOK

OnePointPerQuestion == Arena!OnePointPerQuestion
ToldRightIsScored == Arena!ToldRightIsScored
ShownPointsAreGiven == Arena!ShownPointsAreGiven
EndIsFinal == Arena!EndIsFinal
MatchEnds == <>[](part = "arena" => Arena!Over)

LedgerTellsReferral ==
  IF part = "two friends" THEN TwoFriends!LedgerTellsReferral ELSE OneFriend!LedgerTellsReferral
CapHolds == IF part = "two friends" THEN TwoFriends!CapHolds ELSE OneFriend!CapHolds
ReversalLeavesNothing ==
  [][IF part = "two friends" THEN \A r \in Two.refs : TwoFriends!LeavesNothing(r)
     ELSE \A r \in One.refs : OneFriend!LeavesNothing(r)]_referrals
RefundIsFollowed ==
  \A r \in One.refs : part = "one friend" /\ OneFriend!Owed(r) ~> ~OneFriend!Owed(r)
PaidIsSettled ==
  \A r \in One.refs : part = "one friend" /\ OneFriend!Waits(r) ~> ~OneFriend!Waits(r)

RejectedIsFinal == Books!RejectedIsFinal
PushedOncePerReturn == Books!PushedOncePerReturn
DuplicateIsHeld == Books!DuplicateIsHeld
TransferPaysOnce == Money!TransferPaysOnce
SendLimitsHold == Reset!SendLimitsHold
OneResetPerCode == Reset!OneResetPerCode
ChainVerifies == Trail!ChainVerifies
=============================================================================
