SPECIFICATION FairSpec
CONSTANTS
  q1 = q1  q2 = q2  w1 = w1  w2 = w2
  Requests = {q1}
  Summarizers = {w1}
  Shapes <- OneRowTurns
  Threshold = 3  MaxRows = 5  MaxClock = 8
PROPERTY LongConversationsAreFolded
CHECK_DEADLOCK FALSE
