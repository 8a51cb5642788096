SPECIFICATION Spec
CONSTANTS
  a = a
  u = u
  Thread <- MCThread
  Users <- MCUsers
  Drivers <- MCDrivers
  Irq <- MCIrq
  Causes <- MCCauses
INVARIANTS
  HandlersForReal
  FramesRight
  ReportTrue
PROPERTY EveryLineServed
