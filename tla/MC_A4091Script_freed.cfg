CONSTANTS
  MaxPasses <- MCMaxPasses
  PerfPasses <- MCPerfPasses
  MaxRounds <- MCMaxRounds
SPECIFICATION Spec
PROPERTIES
  NoDmaIntoFreedBuffer
