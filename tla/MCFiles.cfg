SPECIFICATION MCSpec
CONSTANTS
  t1 = t1
  t2 = t2
  n0 = n0
  n1 = n1
  None = None
  Tables = {t1, t2}
  Files = {f1, f2}
  MaxFd = 2
  Timeouts = {0, 1}
  MaxKeys = 1
  MaxUptime = 1
CHECK_DEADLOCK FALSE
INVARIANTS
  ReferencesCounted
  NamesSound
  TextAgrees
  StructuresSound
