SPECIFICATION Spec
CONSTANTS
  t = t
  u = u
  task = task
  vmo = vmo
  Proc <- MCProc
  Kinds <- MCKinds
  CAP_NONE = CAP_NONE
  NULL = NULL
  Initial = 1
  MaxCap = 4
  MaxObj = 4
  EpochMod = 5
INVARIANT PointUseSafe
