SPECIFICATION Spec
CONSTANTS
  Null = Null
  Torn = Torn
  Callers = {c1}
  LastSlot = 2
  LastCommit = 1
  MaxPending = 1
  MaxSources = 1
  MaxFaults = 1
  Readers = FALSE
INVARIANT AcceptEarned
INVARIANT MaterializedIsDerived
PROPERTY CycleSpec
