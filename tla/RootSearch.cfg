CONSTANTS
  Size = 5
  WinLength = 3
  Nothing = Nothing
  Cells <- BoardCells
  Lines <- BoardLines
  LineCells <- BoardWindows
  Near <- BoardNear
  Center <- BoardCenter
  Ways = 4
  MaxNumber = 1000
  Requests <- SomeRequests
  Book <- SomeBook
  Symmetries <- BoardSymmetries
  Tactic <- NoTactic
  TacticPlies = 0
  MaxEntries = 4
  MaxScore = 10
  Names = {left, right}
  Builds <- SomeBuilds
  Analyse <- SomeAnalysis
  MaxSeen = 6
  Askings <- SomeAskings
  Slots <- ParitySlots
  SlotOf <- ParityOf
SPECIFICATION BookedSpec
SYMMETRY FileSymmetry
CHECK_DEADLOCK FALSE
INVARIANTS ProofsAreForced AnswersAreTheBest FactsComeFirst OpeningsAgree
