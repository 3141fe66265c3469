SPECIFICATION Spec
CONSTANTS
  IntBits = 4
  ApiVersions = {10, 11, 12}
  FileVersions = {10, 11, 12}
  Names <- MCNames
  Lowercase <- MCLowercase
  Mappings <- DefaultMappings
  Functions <- DefaultFunctions
  Instructions <- DefaultInstructions
  ErrorModels <- DefaultErrorModels
  QubitCounts <- ValueQubits
  Bundles <- ValueBundles
  MappingDecls <- ValueMappings
  VariableDecls <- ValueVariables
  SubcircuitDecls <- ValueSubcircuits
  ErrorModelDecls <- ValueErrorModels
  Headers <- ValueHeaders
  Conditions <- Nothing
  MaxErrors = 0
  MaxStatements = 3
  MaxDepth = 2
CHECK_DEADLOCK FALSE
INVARIANT TypeOK
INVARIANT MeaningPreserved
INVARIANT MappingsListed
INVARIANT MappingsHold
INVARIANT OperandsFit
INVARIANT GotosResolved
PROPERTY ErrorModelKept
