\* A framework in which everything may fail; a variable with a synonym and one
\* without, in nested groups, in all layers.
SPECIFICATION MCSpec
CONSTANTS
  Static <- MCStatic
  Dynamic <- MCDynamic
  Missing <- MCMissing
  Selections <- FaultySelections
  Kinds = {"default", "own", "noregister"}
  MayFail = {"variables", "cb_register", "dlopen", "comp_register", "comp_open", "cb_open", "cb_close"}
  MaxUsers = 3
  MaxLeaked = 1
  MaxRetained = 0
  Variables <- MCVariables
  Synonyms <- MCSynonyms
  Original <- MCOriginal
  Groups <- MCGroups
  NoGroup = "none"
  GroupOf <- MCGroupOf
  Parent <- MCGroupParent
  Configs <- MCConfigs
INVARIANTS RefcntExact HeldIsOpen NoDanglingComponent NoStaleVariable OpenedComponents
INVARIANTS ResolvedAsDocumented OverrideKept SourceTruthful GroupCoversVariables
CHECK_DEADLOCK FALSE
