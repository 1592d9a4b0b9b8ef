SPECIFICATION Spec
CONSTANTS
  hi = hi
  lo = lo
  event = event
  None = None
  Idle = idle
  Main = hi
  Thread = {hi, lo, idle}
  Obj = {event}
  PrioMax = 3
  BasePrio <- MCBasePrio
  InitTick <- MCInitTick
  TickMod = 5
  App <- AppEvent
  DevOps = {"send"}
  LockMax = 1
  Delays = {1}
  Timeouts = {0, 1}
  Flag = "FIFO"
  EventFlag = {e1, e2}
SYMMETRY Alike
INVARIANTS
  NoMissedEvent
  RecvedSatisfies
