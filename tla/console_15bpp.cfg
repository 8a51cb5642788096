SPECIFICATION Spec
CONSTANTS
  b = b
  t = t
  None = None
  Thread <- MCThread
  Boot = b
  Word = 256
  BufSize = 22
  Scripts <- MC15Scripts
  Cols = 5
  Rows = 3
  FontWidth = 3
  FontHeight = 2
  Font <- MCFont
  Modes <- MC15Modes
  Elapsed = {1, 3}
  Scale = 4
  Bits = 12
  StampFmt <- MCStamp
  LevelFmt <- MCLevel
  FacFmt <- MCFac
INVARIANTS
  ShowsLog
CHECK_DEADLOCK FALSE
