SPECIFICATION Spec
CONSTANTS
  PageSize = 3
  MaxPages = 4
  MaxAddr = 13
  NoMem = NoMem
INVARIANTS
  CounterFollows
PROPERTIES
  ImplementsPool
