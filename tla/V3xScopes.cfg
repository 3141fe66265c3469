SPECIFICATION Spec
CONSTANTS
  Names <- MCNames
  Mappings = {"pi"}
  MappedValue <- MCMappedValue
  FunctionImpls <- NoOverloads
  Instructions <- NoOverloads
  VariableDecls <- ScopesDecls
  FunctionDecls <- ScopesDefs
  Initializations <- ScopesInits
  Statements <- ScopesOthers
  MaxVisits = 5
  MaxAnalyses = 2
INVARIANT TypeOK
INVARIANT ScopesAccountedFor
INVARIANT LexicalScoping
INVARIANT TableHoldsNewest
PROPERTY OuterScopesUntouched
CHECK_DEADLOCK FALSE
