CONSTANTS
  Nothing = Nothing
  Size = 3
  Cells <- BoardCells
  Lines <- BoardLines
  Symmetries <- BoardSymmetries
  Tactic <- Forks
  TacticPlies = 3
  Configurations <- OneSearch
  MaxJobs = 1
  Infinity = 1000
SPECIFICATION Spec
INVARIANTS MergedWitnessVerifies
CHECK_DEADLOCK FALSE
