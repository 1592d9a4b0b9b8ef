SPECIFICATION Spec
CONSTANTS
  hi = hi
  mid = mid
  lo = lo
  None = None
  Idle = idle
  Main = hi
  Thread = {hi, mid, lo, idle}
  Obj = {m1}
  PrioMax = 4
  BasePrio <- MCBasePrio
  InitTick <- MCInitTick
  TickMod = 8
  App <- AppAll
  DevOps = {}
  LockMax = 0
  Delays = {1}
  Timeouts = {0, 2, None}
  HoldMax = 2
INVARIANTS
  ReadyIsQueued
  HoldsAgree
  WaitersByPriority
  OwnerInherits
  PriorityRestored
  GrantPreempts
