SPECIFICATION Spec
CONSTANTS
  r1 = r1  r2 = r2  c1 = c1  u1 = u1  p1 = p1
  Users <- MCUsers
  Properties <- MCProperties
  UserOf <- MCUserOf
  PropertyOf <- MCPropertyOf
  Estimate <- MCEstimate
  TierCap <- MCTierCap
  Requests = {r1}
  Calls = {}
  Charges <- UnitCharge
  FreeCap = 2  PropertyCap = 4  GlobalCap = 9
  RateLimit = 1  RateWindow = 1
  MaxDuration = 1  SweepAge = 1  DayLen = 4
  MaxBill = 1  LastStart = 1  MaxNow = 3
INVARIANT PaidTurnsAreBooked
CHECK_DEADLOCK FALSE
