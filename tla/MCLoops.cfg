\* Two names, of which a resume may fail; three rooms and as many occupants;
\* three threads at the lock.
SPECIFICATION MCSpec
CONSTANTS
  Names = {"a", "b"}
  Threads = {t1, t2}
  NoThread = NoThread
  NoName = "none"
  StartMayFail = TRUE
  MaxHolders <- MCHolders
  MaxEvents <- MCEvents
  num_rooms = 3
  Occupants = {o1, o2, o3}
  NULL = NULL
  Spinner = {s1, s2, s3}
  WordLimit = 3
INVARIANTS RefcountExact NoOrphanThread PausedRunsNothing
INVARIANTS StackExact TimerHasOccupant LockedSumExact
PROPERTIES StopTerminates EventsProcessed StayEnds SomeoneGetsLock
CHECK_DEADLOCK FALSE
