SPECIFICATION Spec
CONSTANTS
  Cpus = {c1, c2}
  Threads = {t1, t2}
  MayBlock = {t1, t2}
  MayDisable = FALSE
  Idle = Idle
  None = None
CHECK_DEADLOCK FALSE
INVARIANTS
  OneRunQueue
