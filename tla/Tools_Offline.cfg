SPECIFICATION ToolsSpec
CONSTANTS
  NMiners = 2
  Cores = 4
  VerifyUs = 30000
  None = NoTime
  NoTime = NoTime
  Automatic = Automatic
  Absent = Absent
  Options <- MCOptions
  UserAnswers <- MCAnswers
  Scenarios <- MCScenarios
  Ids = {"m", "u", "r"}
  MinerIds = {"m"}
  SeedIds = {}
  PublicIds = {"u"}
  RemoteIds = {"r"}
  ListedIds = {"m", "u"}
  Unknown = Unknown
  NodeIds = {"m", "u"}
  RegisteredIds = {"m"}
  HistoryLimit = 2
  MaxCycles = 3
  MaxAlerts = 1
  HeightRange = 2
  NoFile = NoFile
  Torn = Torn
  FirstWindow = 1
  LastWindow = 16
  Columns = 3
  RecentN = 2
  MaxLines = 6
  NoState = NoState
  Idle = Idle
  ListedSeeds = {"seed1", "seed2"}
  Configs <- MCConfigs
  MaxAttempts = 2
  MaxTexts = 2
  Old = Old
  CallAttempts = 2
  NodeAttempts = 2
  NumBlocks = 2
  MaxDiff = 1
  MaxCallFaults = 3
  MaxGrowth = 3
INVARIANTS
  TimelineHolds
  UpgradesRoll
  ActivityInTurn
  DiscoverySeesAll
  PassIsEarned
  HistogramIsWhole
  SavedPairBelongs
  SavedConfigStarts
  VerdictIsEarned
PROPERTIES
  AddressesStay
CHECK_DEADLOCK FALSE
