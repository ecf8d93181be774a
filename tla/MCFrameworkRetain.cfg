\* Nothing fails; a client retains a plugin while it is loaded.
SPECIFICATION Spec
CONSTANTS
  Static <- MCStatic
  Dynamic <- MCDynamic
  Missing <- MCMissing
  Selections <- MetSelections
  Kinds = {"default"}
  MayFail = {}
  MaxUsers = 1
  MaxLeaked = 0
  MaxRetained = 1
INVARIANT RetainedStaysLoaded
CHECK_DEADLOCK FALSE
