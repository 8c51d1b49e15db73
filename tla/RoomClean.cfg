SPECIFICATION Spec
CONSTANTS
  t1 = t1  t2 = t2  t3 = t3
  Taps = {t1, t2, t3}
  Before = Before
  DedupeWindow = 2  MinClean = 3  MaxClean = 4
  MaxDuration = 1  MaxNow = 5
SYMMETRY TapSymmetry
INVARIANTS TypeOK TimesFitStatus StartsCountOnce DedupeSparesCleans PausesFitTheClean
CHECK_DEADLOCK FALSE
