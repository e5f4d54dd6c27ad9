CONSTANTS
  Faults <- MCFaults
  Rotations <- MCRotations
SPECIFICATION Spec
INVARIANTS
  TypeOK
  HealthyPasses
  FaultDetected
  DiagnosisExact
