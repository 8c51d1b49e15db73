SPECIFICATION Spec
CONSTANTS
  q1 = q1  q2 = q2  w1 = w1  w2 = w2
  Requests = {q1, q2}
  Summarizers = {w1, w2}
  Shapes <- AnyTurn
  Threshold = 2  MaxRows = 6  MaxClock = 4
SYMMETRY Interchangeable
INVARIANTS TypeOK CountersAreExact FoldedOnce
PROPERTY TidyFoldKeepsResults
CHECK_DEADLOCK FALSE
