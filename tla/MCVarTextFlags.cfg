\* Flags alone: is a flag found by its name?
SPECIFICATION VarTextSpec
CONSTANTS
  VarKinds = {"flags"}
  Texts <- MCTexts
  SetTo <- MCSetTo
  ValueList <- MCValueList
  FlagList <- MCFlagList
  IntBits = 8
  LongBits = 12
  SuffixShift = 2
INVARIANT FlagsReadBack
CHECK_DEADLOCK FALSE
