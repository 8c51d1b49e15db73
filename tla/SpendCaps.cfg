SPECIFICATION Spec
CONSTANTS
  r1 = r1  r2 = r2  c1 = c1  u1 = u1  p1 = p1
  Users <- MCUsers
  Properties <- MCProperties
  UserOf <- MCUserOf
  PropertyOf <- MCPropertyOf
  Estimate <- MCEstimate
  TierCap <- MCTierCap
  Requests = {r1, r2}
  Calls = {}
  Charges <- MCCharges
  FreeCap = 2  PropertyCap = 3  GlobalCap = 3
  RateLimit = 1  RateWindow = 1
  MaxDuration = 1  SweepAge = 1  DayLen = 2
  MaxBill = 3  LastStart = 1  MaxNow = 3
INVARIANTS TypeOK CapsHold SweeperSparesTheLiving KnownSpendIsKept
PROPERTIES SettledIsFinal ImplementsBudget
SYMMETRY RequestSymmetry
CHECK_DEADLOCK FALSE
