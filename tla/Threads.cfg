SPECIFICATION Spec
CONSTANTS
  hi = hi
  a = a
  b = b
  None = None
  Idle = idle
  Main = hi
  Thread = {hi, a, b, idle}
  Obj = {}
  PrioMax = 3
  BasePrio <- MCBasePrio
  InitTick <- MCInitTick
  TickMod = 7
  App <- AppAll
  DevOps = {}
  LockMax = 1
  Delays = {1, 2}
  Prios = {0, 1}
  Targets <- MCTargets
INVARIANTS
  FreedIsGone
  ListsMatchStat
  GroupMatchesQueues
  OneRunning
PROPERTIES
  WakesOnTime
