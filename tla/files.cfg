SPECIFICATION Spec
CONSTANTS
  p1 = p1
  p2 = p2
  None = None
  Proc <- MCProc
  Trees <- MCTrees
  Sessions <- MCSessions
  Root = 1
  Cwd = 2
  Name <- MCName
  MaxLinks = 3
  PathMax = 5
  ThisYear = 2025
  Stdin <- MCStdin
INVARIANTS
  RmComplete
  RmKeeps
  
  MkdirDone
  TouchDone
  CatOutput
  NamesRight
  ArgumentsRight
PROPERTY Terminates
CHECK_DEADLOCK FALSE
