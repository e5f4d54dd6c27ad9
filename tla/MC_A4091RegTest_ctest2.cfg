CONSTANTS
  Faults <- MCCtest2Faults
  Rotations <- MCRotations
SPECIFICATION Spec
INVARIANTS
  FaultDetected
