CONSTANTS
  d1 = d1
  d2 = d2
  Local = Local
  NoServer = NoServer
  Drivers <- MCDriversOne
  Options <- MCOptionsAll
  TestFlags = {}
SPECIFICATION Spec
INVARIANTS
  TypeOK
  OwnershipInv
  NoServerLost
  ExitReleases
  DriversRestoredAtExit
PROPERTIES
  Termination
  SessionRefinement
