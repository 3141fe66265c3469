SPECIFICATION Spec
CONSTANTS
  MaxInt = 1000
  Doubles <- MCDoubles
  MaxDepth = 9
  Texts <- MCTexts
  Missing = "none"
  EndOfFile = "empty"
  Stated <- MCStated
  Parsed <- MCParsed
  Analyzed <- MCAnalyzed
  Trees <- MCTrees
  Calls <- MCCalls
  FileTexts <- MCFileTexts
  StreamTexts <- MCStreamTexts
  MaxCalls = 2
  MaxChanges = 2
CHECK_DEADLOCK FALSE
INVARIANT TypeOK
INVARIANT VersionSupported
INVARIANT HandlesAccountedFor
INVARIANT LiteralsChecked
INVARIANT MeaningAsWritten
INVARIANT KindsAsWritten
INVARIANT ErrorsPointAtInnermost
PROPERTY ImplementsContract
