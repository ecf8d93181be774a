\* What is promised and not kept, one unit after the other.
SPECIFICATION MCSpec
VIEW MCView
CONSTANTS
  Item = {"a", "b"}
  ListName = {"L"}
  Rank <- MCRank
  MaxExcess = 1
  Nothing = Nothing
  MaxStreams = 2
  FileDesc = {3}
  NoSuffix = "none"
  Described <- MCDescribed
  Redirections <- MCRedirections
  MessageLengths = {1, 3}
  PrefixLengths = {0}
  SuffixLengths = {0}
  Args <- MCArgs
  Delimiter = ","
  MaxArgs = 1
  MaxBehind = 1
  EnvNames = {"LANG", "PATH"}
  EnvValues <- MCEnvValues
  Minors <- MCMinors
  EnvLists <- MCEnvLists
  ProcessEnv <- MCProcessEnv
  Undefined = Undefined
  VarKinds = {"verbose"}
  Texts <- MCTexts
  SetTo <- MCSetTo
  ValueList <- MCValueList
  FlagList <- MCFlagList
  IntBits = 8
  LongBits = 12
  SuffixShift = 2
INVARIANT SomePromiseKept
CHECK_DEADLOCK FALSE
