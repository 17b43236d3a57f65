CONSTANTS
  Internal = internal
  External = external
  First = internal
  Clock = 2
  Increment = 1
  TurnLimit = 1
  StartLimit = 1
  Scale = 20
  Fractions = {0, 4, 8, 12, 16}
  Stability = 3
  OpeningPlies = 1
  MaxDepth = 5
  MaxPlies = 4
  MaxLines = 2
  OutputSlots = 1
  PipeSlots = 1
  MaxChat = 2
SPECIFICATION FairSpec
INVARIANTS AnswersTheTurn FailuresAreDeserved ReserveIsKept
PROPERTIES MatchReturns
CHECK_DEADLOCK FALSE
