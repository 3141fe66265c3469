SPECIFICATION Spec
CONSTANTS
  Names <- MCNames
  Mappings = {"pi"}
  MappedValue <- MCMappedValue
  FunctionImpls <- NoOverloads
  Instructions <- NoOverloads
  VariableDecls <- ScopesDecls
  FunctionDecls <- ScopesDefs
  Initializations <- ScopesInits
  Statements <- ScopesOthers
  MaxVisits = 3
  MaxAnalyses = 2
INVARIANT ConfigurationUnchanged
CHECK_DEADLOCK FALSE
