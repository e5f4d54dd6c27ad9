CONSTANTS
  MaxPasses <- MCMaxPasses
  PerfPasses <- MCPerfPasses
  MaxRounds <- MCMaxRounds
SPECIFICATION Spec
INVARIANTS
  TypeOK
  CompletionIsCurrent
PROPERTIES
  
  ScriptReturns
