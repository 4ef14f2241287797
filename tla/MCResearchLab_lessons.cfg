SPECIFICATION Spec
CONSTANTS
  Null = Null
  Torn = Torn
  Callers = {c1}
  LastSlot = 2
  LastCommit = 0
  MaxPending = 1
  MaxSources = 1
  MaxFaults = 0
  Readers = TRUE
INVARIANT LessonsReachNextCycle
