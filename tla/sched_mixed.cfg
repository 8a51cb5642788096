SPECIFICATION Spec
CONSTANTS
  a = a
  b = b
  u = u
  Thread <- MCThread
  Users <- MCUsers
  Yielders <- MCKernel
  NULL = NULL
  BOOT = BOOT
  Masked <- MCBoth
  MaxDepth = 4
  TickMod = 2
INVARIANTS
  SavedContextsIntact
  Esp0IsOwners
  InterruptsRestored
  LinesWhole
  IInv
SYMMETRY MCSymmetry
PROPERTY RoundRobinSafety
