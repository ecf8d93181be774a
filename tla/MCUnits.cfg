\* One small instance of every unit.
SPECIFICATION MCSpec
CONSTANTS
  RingSize = 4
  Pointer = {p1, p2}
  NULL = NULL
  ArrayInitial = 2
  ArrayMax = 6
  Stored = {p1}
  NoPtr = NULL
  Item = {"a", "b", "c"}
  ListName = {"L", "M"}
  Rank <- MCRank
  MaxExcess = 1
  Nothing = Nothing
  KeyOf <- MCKeys
  HashOf <- MCHash
  HashValue = {v1, v2}
  EstimatedSize = 1
  DensityNumer = 1
  DensityDenom = 6
  GrowthNumer = 2
  GrowthDenom = 1
  NoValue = NULL
  Element_ = {e1, e2}
  Junk = Junk
  MaxItems = 3
  Class = {"item", "framework", "hotel"}
  cls_parent <- MCParent
  Constructs = {"item", "framework"}
  Destructs = {"item", "framework", "hotel"}
  Obj = {o1}
  Thread_ = {t1, t2}
  Increment = 2
  MaxHeld = 2
  BaseClass = BaseClass
  Thread = {t1, t2}
  WordBits = 2
  Requests <- MCRequests
  Quiet = Quiet
  User = {t1, t2, t3}
  NoThread = NULL
  MaxSignals = 3
  Offered <- MCOffered
  Priority <- MCPriority
  MaxCount = 3
  Directories <- MCDirs
  Reference <- MCReference
  Configured <- MCConfigured
  Environments <- MCEnvironments
  Inputs <- MCInputs
  MaxText = 8
  MaxStreams = 2
  FileDesc = {3, 4}
  NoSuffix = "none"
  Described <- MCDescribed
  Redirections <- MCRedirections
  MessageLengths = {1, 2, 5}
  PrefixLengths = {0, 2}
  SuffixLengths = {0, 1}
  WordBytes = 3
  ByteBits = 2
  CrcBits = 5
  CRC_POLYNOMIAL = {0, 2}
  Messages <- MCMessages
  VarKinds = {"bool", "verbose", "values", "flags", "int", "uint", "ulong"}
  Texts <- MCTexts
  SetTo <- MCSetTo
  ValueList <- MCValueList
  FlagList <- MCFlagList
  IntBits = 8
  LongBits = 12
  SuffixShift = 2
  Args <- MCArgs
  Delimiter = ","
  MaxArgs = 3
  MaxBehind = 1
  EnvNames = {"HOME", "LANG", "PATH"}
  EnvValues <- MCEnvValues
  Minors <- MCMinors
  EnvLists <- MCEnvLists
  ProcessEnv <- MCProcessEnv
  Undefined = Undefined
  FileOf <- MCFileOf
  PathOf <- MCPathOf
  FileConfigs <- MCFileConfigs
  OverrideFile = "over"
  NullValue = "NULL"
  MaxReads = 2
INVARIANTS FreeSlotsExact LinksAgree CountIsHeld OneUser BroadcastReachesSleepers
INVARIANTS RuntimeStaged DirectoriesResolved StreamsKept LinesWhole PiecesAgree
INVARIANTS ValuesReadBack ArgvExact EnvironIsMap FirstFileWins
PROPERTIES RingIsQueue ListsAreSequences TableIsMap ElementsKept OperationsAtomic
CHECK_DEADLOCK FALSE
