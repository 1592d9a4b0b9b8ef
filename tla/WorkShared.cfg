SPECIFICATION Spec
CONSTANTS
  a = a
  b = b
  Worker = worker
  sem = sem
  None = None
  Idle = idle
  Main = a
  Thread = {a, b, worker, idle}
  Obj = {sem}
  PrioMax = 3
  BasePrio <- MCBasePrio
  InitTick <- MCInitTick
  TickMod = 5
  App <- AppWork
  DevOps = {"dowork"}
  LockMax = 1
  Delays = {1}
  Now = {w1}
  Later = {w2}
INVARIANTS
  NoStrandedWork
  AcceptedWorkKept
  TimerFindsQueue
PROPERTIES
  CompletionWakesAll
