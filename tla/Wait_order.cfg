SPECIFICATION MCSpec
CONSTANTS
  Cpus = {c1, c2, c3}
  Threads = {t1, t2}
  MayBlock = {}
  MayDisable = TRUE
  Idle = Idle
  None = None
  RaceThreads = {x1}
  RaceCpus = {d1, d2}
  RaceWakers = {w1, w2}
  PairThreads = {y1, y2}
  PairCpus = {d3, d4}
  PairWakers = {w3}
  q1 = q1
  q2 = q2
CHECK_DEADLOCK FALSE
INVARIANTS
  LocksAcyclic
