SPECIFICATION Spec
CONSTANTS
  p1 = p1
  p2 = p2
  Proc <- MCTwo
  HeapSize = 16
  Hdr = 2
  Align = 2
  WordSize = 64
  Sizes <- MCSizes
  NULL = NULL
INVARIANTS
  HeapSound
  NothingLost
  DoubleFreePanics
CHECK_DEADLOCK FALSE
SYMMETRY MCSymmetry
