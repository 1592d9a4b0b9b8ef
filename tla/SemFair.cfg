SPECIFICATION FairSpec
CONSTANTS
  hi = hi
  lo = lo
  s1 = s1
  None = None
  Idle = idle
  Main = hi
  Thread = {hi, lo, idle}
  Obj = {s1}
  PrioMax = 3
  BasePrio <- PeerPrio
  InitTick <- MCInitTick
  TickMod = 8
  App <- AppPeers
  DevOps = {}
  LockMax = 1
  Delays = {1}
  Flag <- PrioFlag
  InitValue <- NoTokens
  ValueMax = 2
  Timeouts = {2}
  ResetValues = {0, 2}
PROPERTIES
  TimedTakeReturns
  SleepEnds
  ReadyRuns
