SPECIFICATION MCSpec
CONSTANTS
  Threads = {t1, t2, t3}
  Procs = {p1, p2}
  First = p1
  Main = t1
  t1 = t1
  t2 = t2
  t3 = t3
  c1 = c1
  p1 = p1
  p2 = p2
  None = None
  x = x
  y = y
  NoteCapacity = 2
  Places = {x, y}
  MaxNotesSent = 4
  Users = {t1, t2, t3}
  PipeSize = 3
  MaxBytes = 6
  Peers = {p1, p2}
  SocketSize = 4
  PacketSizes = {1, 2}
  Backlogs = {1, 2}
  MaxPackets = 2
CHECK_DEADLOCK FALSE
INVARIANTS
  
  CountedHolders
  KillTellsAll
  StreamInOrder
  NobodyMissed
  SurfacesListed
  NoGhosts
  ProgramsCurrent
