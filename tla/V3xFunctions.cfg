SPECIFICATION FairSpec
CONSTANTS
  Names <- MCNames
  Mappings = {"pi"}
  MappedValue <- MCMappedValue
  FunctionImpls <- AbsImpls
  Instructions <- NoOverloads
  VariableDecls <- FunctionsDecls
  FunctionDecls <- FunctionsDefs
  Initializations <- FunctionsInits
  Statements <- FunctionsOthers
  MaxVisits = 5
  MaxAnalyses = 1
PROPERTY AnalysisEnds
PROPERTY ImplementsCallOrder
INVARIANT NoRecursion
INVARIANT ReturnsMatchSignature
INVARIANT TreeClosed
INVARIANT NothingLost
CHECK_DEADLOCK FALSE
