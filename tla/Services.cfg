SPECIFICATION Spec
CONSTANTS
  Questions = 2
  Rules <- MCRules
  MaxAge = 1
  Budgets <- MCBudgets
  One <- MCOne
  Two <- MCTwo
  Slots = {"j1", "j2"}
  Pictures = {"x", "y"}
  Plans <- MCPlans
  Captures = {"k1", "k2"}
  Handles = {"h"}
  Claims = {"c"}
  Orders = {"o"}
  OwnerOf <- MCOwnerOf
  MaxTransfers = 2
  MaxRuns = 2
  Requests = {"r1", "r2", "r3"}
  PhoneOf <- MCPhoneOf
  Limits <- MCLimits
  Guesses = {"g1", "g2"}
  Writers = {"w1", "w2"}
  MaxTrail = 5
  PageSize = 2
INVARIANTS
  TypesOK
  OnePointPerQuestion
  ToldRightIsScored
  ShownPointsAreGiven
  LedgerTellsReferral
  CapHolds
  PushedOncePerReturn
  DuplicateIsHeld
  TransferPaysOnce
  SendLimitsHold
  OneResetPerCode
  ChainVerifies
PROPERTIES
  EndIsFinal
  MatchEnds
  ReversalLeavesNothing
  RefundIsFollowed
  PaidIsSettled
  RejectedIsFinal
CHECK_DEADLOCK FALSE
