SPECIFICATION FairSpec
CONSTANTS
  a1 = a1  a2 = a2  s1 = s1  s2 = s2
  Actions = {a1, a2}
  Slots = {s1, s2}
  MaxAttempts = 2
  MaxFaults = 3
  NoAction = NoAction
CHECK_DEADLOCK FALSE
INVARIANTS TypeOK AppliedOnce ConfirmedMeansApplied ReplayKeepsOrder
PROPERTY QueueDrains
