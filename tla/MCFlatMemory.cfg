SPECIFICATION FairSpec
CONSTANTS
  Null = Null
  Handles = {h1, h2}
  Queues = {q1, q2}
  Nights = {n1, n2}
  MaxRecords = 2
  MaxPending = 2
  MaxDoubts = 1
  h1 = h1
  h2 = h2
  q1 = q1
  q2 = q2
  n1 = n1
  n2 = n2
INVARIANTS AnswersCurrent EachOnce
PROPERTIES LogSpec CapacityReturns
