CONSTANTS
  d1 = d1
  d2 = d2
  Local = Local
  NoServer = NoServer
  Drivers <- MCDriversTwo
  Options <- MCOptionsTest
  TestFlags = {}
SPECIFICATION Spec
INVARIANTS
  NoServerLost
