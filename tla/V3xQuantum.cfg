SPECIFICATION Spec
CONSTANTS
  Names <- MCNames
  Mappings = {"pi"}
  MappedValue <- MCMappedValue
  FunctionImpls <- NoOverloads
  Instructions <- DefaultInstructions
  VariableDecls <- QuantumDecls
  FunctionDecls <- QuantumDefs
  Initializations <- QuantumInits
  Statements <- QuantumOthers
  MaxVisits = 5
  MaxAnalyses = 1
INVARIANT IndicesInRange
INVARIANT MeasuresPaired
INVARIANT NothingLost
CHECK_DEADLOCK FALSE
