SPECIFICATION Spec
CONSTANTS
  hi = hi
  lo = lo
  recvq = recvq
  sendq = sendq
  None = None
  Idle = idle
  Main = hi
  Thread = {hi, lo, idle}
  Obj = {recvq, sendq}
  PrioMax = 3
  BasePrio <- MCBasePrio
  InitTick <- MCInitTick
  TickMod = 7
  App <- AppMail
  DevOps = {"send"}
  LockMax = 1
  Delays = {1}
  Timeouts = {0, 2, None}
  Flag = "FIFO"
  Message = {m1, m2}
  Size = 2
SYMMETRY Alike
INVARIANTS
  NobodyStranded
  DeadlineKept
PROPERTIES
  ImplementsBuffer
