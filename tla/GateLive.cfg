SPECIFICATION FairSpec
CONSTANTS
  a = a  b = b  x = x  q1 = q1  q2 = q2  q3 = q3
  Cards = {a, b}
  Staged = {a, b}
  Expirable = {a}
  Reads = {}
  Resolvers = {q1, q2, q3}
  NewTurns = FALSE
INVARIANTS RunsAtMostOnce ResumeOnlyWhenResolved SingleFlightOnceStaged
PROPERTY TurnIsResumed
CHECK_DEADLOCK FALSE
