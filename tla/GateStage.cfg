SPECIFICATION Spec
CONSTANTS
  a = a  b = b  x = x  q1 = q1  q2 = q2  q3 = q3
  Cards = {a, b}
  Staged = {}
  Expirable = {a}
  Reads = {x}
  Resolvers = {q1, q2}
  NewTurns = TRUE
INVARIANTS TypeOK RunIsNeverDisowned
PROPERTIES VerdictStands ImplementsConsent
CHECK_DEADLOCK FALSE
