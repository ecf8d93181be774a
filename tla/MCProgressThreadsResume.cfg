\* One name; a resume may fail to create the thread.
SPECIFICATION Spec
CONSTANTS
  Names = {a}
  Threads = {t1, t2}
  NoThread = NoThread
  NoName = NoName
  StartMayFail = TRUE
  MaxHolders <- OneEach
  MaxEvents <- OneEach
INVARIANT StoppedCanResume
SYMMETRY ThreadSymmetry
CHECK_DEADLOCK FALSE
