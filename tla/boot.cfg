SPECIFICATION KmainSpec
CONSTANTS
  PageSize = 4
  MaxPages = 34
  MaxAddr = 0
  NoMem = NoMem
  Machines <- MCMachines
  Kernel <- MCKernel
  LowEnd = 8
  Top = 136
  BitsPerByte = 4
  Slots = 16
  Dirs = 9
  PmapLowEnd = 32
  UserCodeVA = 32
  UserStackVA = 33
  KernBase = 48
  SmokeVA = 64
  HeapBase = 80
  HeapPages = 2
  ThreadVABase = 96
  None = None
INVARIANTS
  BitmapApart
  Reachable
  TlbAgrees
  UserConfined
  GuardPages
  OwnedOnce
PROPERTY ImplementsSpace
CHECK_DEADLOCK FALSE
