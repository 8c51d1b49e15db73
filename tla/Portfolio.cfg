SPECIFICATION Spec
CONSTANTS
  r1 = r1  r2 = r2  r3 = r3
  Requests = {r1, r2, r3}
  Units = {"minute", "hour"}
  Cap <- MCCap
  BucketOf <- MCBucketOf
  Lease = 2  MaxDuration = 1
  LastAsk = 3  MaxNow = 5  MaxFaults = 2
  None = None
SYMMETRY MCSymmetry
INVARIANTS TypeOK OneQueryAtATime RateHolds
CHECK_DEADLOCK FALSE
