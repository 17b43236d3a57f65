CONSTANTS
  Nothing = Nothing
  Size = 4
  Cells <- BoardCells
  Lines <- BoardLines
  Symmetries <- BoardSymmetries
  Preference <- BoardOrder
  Tactic <- Forks
  TacticPlies = 3
  Roots <- FirstInner
  Limits = {"none"}
  WidenBatch = 4
  ResidentLimit = 200
  MaxPersisted = 200
  Infinity = 1000
  MaxSolves = 1
SPECIFICATION Spec
INVARIANTS ExportSucceeds
CHECK_DEADLOCK FALSE
