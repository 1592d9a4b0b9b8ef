SPECIFICATION Spec
CONSTANTS
  hi = hi
  lo = lo
  s1 = s1
  None = None
  Idle = idle
  Main = hi
  Thread = {hi, lo, idle}
  Obj = {s1}
  PrioMax = 3
  BasePrio <- MCBasePrio
  InitTick <- MCInitTick
  TickMod = 8
  App <- AppShared
  DevOps = {"release", "trytake"}
  LockMax = 1
  Delays = {1}
  Flag <- PrioFlag
  InitValue <- NoTokens
  ValueMax = 2
  Timeouts = {0, 2, None}
  ResetValues = {0, 2}
INVARIANTS
  DetachFindsThread
