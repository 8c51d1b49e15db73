SPECIFICATION Spec
CONSTANTS
  a = a  b = b  x = x  q1 = q1  q2 = q2  q3 = q3
  Cards = {a, b}
  Staged = {}
  Expirable = {}
  Reads = {}
  Resolvers = {q1, q2}
  NewTurns = FALSE
INVARIANT SingleFlight
CHECK_DEADLOCK FALSE
