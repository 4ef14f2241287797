SPECIFICATION Spec
CONSTANTS
  Null = Null
  Torn = Torn
  Callers = {c1}
  LastSlot = 1
  LastCommit = 1
  MaxPending = 1
  MaxSources = 1
  MaxFaults = 0
  Readers = FALSE
INVARIANT AbandonPossible
