\* Two threads that hold references: is the count updated atomically?
SPECIFICATION ObjectSpec
CONSTANTS
  Class = {"item"}
  cls_parent <- MCParent
  Constructs = {"item"}
  Destructs = {"item"}
  Obj = {o1}
  Thread_ = {t1, t2}
  Increment = 2
  MaxHeld = 2
  BaseClass = BaseClass
INVARIANT UpdatesAtomic
CHECK_DEADLOCK FALSE
