SPECIFICATION Spec
CONSTANTS
  a = a
  b = b
  u = u
  Thread <- MCThread
  Users <- MCUsers
  Yielders <- MCKernel
  NULL = NULL
  BOOT = BOOT
  Masked <- MCStart
  MaxDepth = 4
  TickMod = 1
CHECK_DEADLOCK FALSE
INVARIANT SwitchMotiveInvisible
