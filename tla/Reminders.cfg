SPECIFICATION FairSpec
CONSTANTS
  r1 = r1  r2 = r2  h1 = h1  t1 = t1  t2 = t2
  Reminders = {r1, r2}
  Hotels = {h1}
  HotelOf <- MCHotelOf
  FireAt <- MCFireAt
  Direct = {r1}
  Leavers = {r1}
  Ticks = {t1, t2}
  Batch = 1
  Lease = 1  MaxDuration = 1
  Nobody = Nobody  Gone = Gone
  MaxFaults = 1
INVARIANTS TypeOK OneDeliverer CancelIsHonoured
PROPERTIES FiredWhereItAimed DueIsSettled
