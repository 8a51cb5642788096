SPECIFICATION Spec
CONSTANTS
  a = a
  b = b
  u = u
  Thread <- MCThread
  Users <- MCUsers
  Yielders <- MCKernel
  NULL = NULL
  BOOT = BOOT
  Masked <- MCBoth
  MaxDepth = 2
  TickMod = 1
PROPERTIES
  EveryThreadRuns
  ImplementsRoundRobin
