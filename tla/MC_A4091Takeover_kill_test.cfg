CONSTANTS
  d1 = d1
  d2 = d2
  Local = Local
  NoServer = NoServer
  Drivers <- MCDriversOne
  Options <- MCOptionsKillTest
  TestFlags = {}
SPECIFICATION Spec
INVARIANTS
  DriverServerNeedsTask
