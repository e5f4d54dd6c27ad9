CONSTANTS
  d1 = d1
  d2 = d2
  Local = Local
  NoServer = NoServer
  Drivers <- MCDriversOne
  Options <- MCOptionsDma
  TestFlags = {}
SPECIFICATION Spec
INVARIANTS
  ExclusiveAccess
