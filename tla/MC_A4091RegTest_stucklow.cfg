CONSTANTS
  Faults <- MCScratchLowFaults
  Rotations <- MCRotations
SPECIFICATION Spec
INVARIANTS
  StuckLowReported
