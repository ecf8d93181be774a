\* Registrations succeed; clients retain plugins.
SPECIFICATION Spec
CONSTANTS
  Static <- MCStatic
  Dynamic <- MCDynamic
  Missing <- MCMissing
  Selections <- MetSelections
  Kinds = {"default", "own", "noregister"}
  MayFail = {"comp_open", "cb_open"}
  MaxUsers = 3
  MaxLeaked = 0
  MaxRetained = 2
INVARIANTS ClosedIsClean
PROPERTY ImplementsService
CHECK_DEADLOCK FALSE
