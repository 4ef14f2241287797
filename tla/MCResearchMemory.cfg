SPECIFICATION FairSpec
CONSTANTS
  Null = Null
  NoIndex = NoIndex
  Handles = {h1, h2}
  Ids = {i1, i2}
  Texts = {t1, t2}
  Backends = {"auto", "ruvector"}
  MaxRecords = 1
  MaxQueue = 2
  PowerFails = TRUE
INVARIANTS RecordsCurrent IndexCurrent WrittenSurvives 
PROPERTIES StoreSpec CloseReleases
