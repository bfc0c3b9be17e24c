SPECIFICATION MCSpec
CONSTANTS
  Cpus = {r1, r2}
  Objects = {o1, o2}
  c1 = c1
  s1 = s1
  s2 = s2
  s3 = s3
  None = None
  Cores = {c1, c2}
  AllSpaces = {"kernel", "user"}
  Kernel = "kernel"
  Frames = {f1, f2}
  Changing = {"user"}
  Large = {}
  QueueSize = 4
CHECK_DEADLOCK FALSE
INVARIANTS
  OnePlace
  SafeFreeFresh
  AllocatorsIntact
  SpaceIntact
  NoStaleTranslation
  NothingHalfLoaded
  NamespaceSound
PROPERTIES
  NamesKept
