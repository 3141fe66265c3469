SPECIFICATION Spec
CONSTANTS
  Names <- MCNames
  Mappings = {"pi"}
  MappedValue <- MCMappedValue
  FunctionImpls <- NoOverloads
  Instructions <- NoOverloads
  VariableDecls <- ScopesDecls
  FunctionDecls <- ScopesDefs
  Initializations <- ScopesInits
  Statements <- ScopesOthers
  MaxVisits = 4
  MaxAnalyses = 1
INVARIANT OneScopeWhenIdle
CHECK_DEADLOCK FALSE
