SPECIFICATION MCSpec
CONSTANTS
  Threads = {t1, t2, t3}
  Timeouts = {"zero", "some", "never"}
  MaxSpin = 1
  MaxDepth = 2
  DepthMod = 4
  None = None
  Users = {u1, u2, u3, u4}
  Writers = {u3, u4}
  Cpus = {c1, c2, c3}
  TicketMod = 4
  MaxWrites = 2
CHECK_DEADLOCK FALSE
INVARIANTS
  OwnerHolds
  Counted
  NoLostWakeup
  NobodyLeftAsleep
  SnapshotWhole
PROPERTIES
  ImplementsLock
  OthersImplementLock
