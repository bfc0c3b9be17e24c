SPECIFICATION MCSpec
CONSTANTS
  Cpus = {c1, c2}
  Objects = {o1}
  None = None
  Idle = Idle
  One = c1
  q1 = q1
  Crowd = {t1, t2, t3}
  Users = {u1, u2, u3, u4}
  Writers = {u3, u4}
CHECK_DEADLOCK FALSE
PROPERTIES
  WaitsEnd
  QueuedRuns
  GraceEnds
  WritersGetIn
  TimedAnswered
