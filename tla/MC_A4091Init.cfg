CONSTANTS
  AbortTimeout <- MCAbortTimeout
  MaxTicks <- MCMaxTicks
  MaxScsiEvents <- MCMaxScsiEvents
SPECIFICATION Spec
INVARIANTS
  NoLateAbort
PROPERTIES
  InitReturns
