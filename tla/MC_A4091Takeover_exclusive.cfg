CONSTANTS
  d1 = d1
  d2 = d2
  Local = Local
  NoServer = NoServer
  Drivers <- MCDriversOne
  Options <- MCOptionsSuite
  TestFlags = {}
SPECIFICATION Spec
INVARIANT
  ExclusiveAccess
