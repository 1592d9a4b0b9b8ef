SPECIFICATION Spec
CONSTANTS
  hi = hi
  mid = mid
  lo = lo
  None = None
  Idle = idle
  Main = hi
  Thread = {hi, mid, lo, idle}
  Obj = {m1, m2}
  PrioMax = 4
  BasePrio <- MCBasePrio
  InitTick <- MCInitTick
  TickMod = 8
  App <- AppNested
  DevOps = {}
  LockMax = 0
  Delays = {1}
  Timeouts = {2, None}
  HoldMax = 2
INVARIANTS
  PriorityRestored
