SPECIFICATION ToolsSpec
CONSTANTS
  Nights = {n1, n2}
  Rows <- MCRows
  DayOf <- MCDayOf
  PullRequests <- MCPullRequests
  MergedPrs <- MCPullRequests
  Pending <- MCPending
  Window = 2
  Idle = Idle
  MaxRows = 4
  Paths = {"p", "q"}
  Texts = {t1, t2}
  Absent = Absent
  NoLimit = NoLimit
  Declarable <- MCDeclarable
  Ages = {1}
  Days = {0, 2}
  Commits = {c1, c2}
  Missing = Missing
  MaxWrites = 2
  Versions = {"v1", "v2", "v3", "v4"}
  FilesOf <- MCFilesOf
  Protected = {"gate", "scripts"}
  Unsound = {".."}
  NoPath = NoPath
  PageSize = 2
  MaxFiles = 4
  Undecided = Undecided
  MaxPushes = 2
  CommitIds = {"c1", "c2"}
  Trees <- MCTrees
  TreeOf <- MCTreeOf
  None = None
  Spoiled = Spoiled
  MaxChanges = 2
  PoliciesOf <- MCPoliciesOf
  RecordsOf <- MCRecordsOf
  Unissued = Unissued
  MaxEvidence = 3
  MaxClock = 4
  Baseline <- MCBaseline
  Answers <- MCAnswers
  Today = 10
  Lookback = 7
  MaxResults = 2
  MaxChunks = 2
  NotAtom = NotAtom
  NoTotal = NoTotal
  NoScan = NoScan
  Configs <- MCConfigs
  FirstDays <- MCFirstDays
  NoSlot = NoSlot
  NoHour = NoHour
  MaxTicks = 26
INVARIANTS NightsKept SignalsSeeNights FreshMeansUnchanged UntouchedIsFresh EligibleIsOneHead VerifiedEvidence AnchorsBind ReceiptHolds ScanIsWhole SlotFollowsClock
PROPERTY RefusalIsFinal
SYMMETRY Symmetry
CHECK_DEADLOCK FALSE
