SPECIFICATION Spec
CONSTANTS
  Names <- MCNames
  Mappings = {"pi"}
  MappedValue <- MCMappedValue
  FunctionImpls <- NoOverloads
  Instructions <- NoOverloads
  VariableDecls <- CallsDecls
  FunctionDecls <- CallsDefs
  Initializations <- CallsInits
  Statements <- CallsOthers
  MaxVisits = 3
  MaxAnalyses = 1
INVARIANT NoInternalError
CHECK_DEADLOCK FALSE
