\* Does a variable's own name win over its synonym?
SPECIFICATION VarSpec
CONSTANTS
  Variables <- MCVariables
  Synonyms <- MCSynonyms
  Original <- MCOriginal
  Groups <- MCGroups
  NoGroup = "none"
  GroupOf <- MCGroupOf
  Parent <- MCGroupParent
  Configs <- NamedConfigs
INVARIANT OriginalNameWins
