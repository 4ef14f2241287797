SPECIFICATION Spec
CONSTANTS
  Null = Null
  NoIndex = NoIndex
  Handles = {h1}
  Ids = {i1}
  Texts = {t1}
  Backends = {"lexical"}
  MaxRecords = 1
  MaxQueue = 1
  PowerFails = TRUE
INVARIANT AckedDurable
