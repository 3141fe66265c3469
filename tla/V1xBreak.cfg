SPECIFICATION Spec
CONSTANTS
  IntBits = 4
  ApiVersions = {12}
  FileVersions = {12}
  Names <- MCNames
  Lowercase <- MCLowercase
  Mappings <- DefaultMappings
  Functions <- DefaultFunctions
  Instructions <- DefaultInstructions
  ErrorModels <- DefaultErrorModels
  QubitCounts <- TwoQubits
  Bundles <- ControlBundles
  MappingDecls <- ControlMappings
  VariableDecls <- Nothing
  SubcircuitDecls <- ControlSubcircuits
  ErrorModelDecls <- Nothing
  Headers <- ControlHeaders
  Conditions <- ControlConditions
  MaxErrors = 0
  MaxStatements = 3
  MaxDepth = 2
CHECK_DEADLOCK FALSE
INVARIANT JumpsInsideLoops
