SPECIFICATION FairSpec
CONSTANTS
  r1 = r1  r2 = r2  c1 = c1  u1 = u1  p1 = p1
  Users <- MCUsers
  Properties <- MCProperties
  UserOf <- MCUserOf
  PropertyOf <- MCPropertyOf
  Estimate <- MCEstimate
  TierCap <- MCTierCap
  Requests = {r1}
  Calls = {c1}
  Charges <- UnitCharge
  FreeCap = 2  PropertyCap = 4  GlobalCap = 9
  RateLimit = 1  RateWindow = 1
  MaxDuration = 1  SweepAge = 1  DayLen = 2
  MaxBill = 2  LastStart = 1  MaxNow = 4
PROPERTY HoldsAreReleased
CHECK_DEADLOCK FALSE
