SPECIFICATION FairSpec
CONSTANTS
  Null = Null
  Torn = Torn
  Callers = {c1, c2}
  LastSlot = 1
  LastCommit = 1
  MaxPending = 1
  MaxSources = 2
  MaxFaults = 1
  Readers = TRUE
INVARIANT OneCommand
PROPERTY CycleCompletes
INVARIANT AdrsFresh
