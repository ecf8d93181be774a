\* One name, no failures: is a break always seen?
SPECIFICATION Spec
CONSTANTS
  Names = {a}
  Threads = {t1, t2}
  NoThread = NoThread
  NoName = NoName
  StartMayFail = FALSE
  MaxHolders <- OneEach
  MaxEvents <- OneEach
PROPERTY BreakStopsEvents
SYMMETRY ThreadSymmetry
CHECK_DEADLOCK FALSE
