CONSTANTS
  Nothing = Nothing
  Mate = 100
  Infinity = 200
  CellCount = 12
  MaxQsearchPly = 1
  MaxDepth = 4
  Aspiration = 1
  Games <- SomeGames
  Helpers = {"helper"}
SPECIFICATION Spec
INVARIANTS EvidenceIsTrue CompletedIsExact MatesAreForced
PROPERTIES SearchEnds
CHECK_DEADLOCK FALSE
