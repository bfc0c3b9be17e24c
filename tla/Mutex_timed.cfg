SPECIFICATION Spec
CONSTANTS
  Threads = {t1, t2}
  Timeouts = {"some"}
  MaxSpin = 1
  MaxDepth = 1
  DepthMod = 8
  None = None
INVARIANTS
  MutualExclusion
