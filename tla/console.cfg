SPECIFICATION Spec
CONSTANTS
  b = b
  t = t
  None = None
  Thread <- MCThread
  Boot = b
  Word = 256
  BufSize = 22
  Scripts <- MCScripts
  Cols = 5
  Rows = 3
  FontWidth = 3
  FontHeight = 2
  Font <- MCFont
  Modes <- MCModes
  Elapsed = {1, 3}
  Scale = 4
  Bits = 12
  StampFmt <- MCStamp
  LevelFmt <- MCLevel
  FacFmt <- MCFac
INVARIANTS
  ShowsLog
  StampsRight
  PrintsRight
  BufferHolds
CHECK_DEADLOCK FALSE
