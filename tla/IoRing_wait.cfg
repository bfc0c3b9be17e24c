SPECIFICATION Spec
CONSTANTS
  Threads = {t1}
  Cpus = {c1}
  Ops = {"nop"}
  Timeouts = {1}
  Never = 99
  Links = {"none"}
  Centries = 2
  Sentries = 2
  IndexMod = 4
  MaxSqes = 2
  MaxUptime = 1
CHECK_DEADLOCK FALSE
INVARIANTS
  NoLostCompletion
