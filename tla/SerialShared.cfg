SPECIFICATION Spec
CONSTANTS
  app = app
  shell = shell
  rx_sem = rx_sem
  None = None
  Idle = idle
  Main = app
  Thread = {app, shell, idle}
  Obj = {rx_sem}
  PrioMax = 2
  BasePrio <- MCBasePrio
  InitTick <- MCInitTick
  TickMod = 4
  App <- AppSerial
  DevOps = {"rx"}
  LockMax = 1
  Delays = {}
  Char = {c1, c2}
  BufSz = 3
  Burst = 3
  ValueMax = 2
  Lengths = {2}
SYMMETRY Alike
INVARIANTS
  ShellHearsInput
PROPERTIES
  ImplementsLossyBuffer
