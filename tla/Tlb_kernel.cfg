SPECIFICATION TlbSpec
CONSTANTS
  Cores = {c1, c2}
  None = None
  AllSpaces = {k, s}
  Kernel = k
  Frames = {f1, f2}
  Changing = {k}
  Large = {}
  QueueSize = 4
CHECK_DEADLOCK FALSE
INVARIANTS
  NoStaleTranslation
