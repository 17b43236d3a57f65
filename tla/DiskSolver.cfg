CONSTANTS
  Nothing = Nothing
  Size = 3
  Cells <- BoardCells
  Lines <- BoardLines
  Symmetries <- BoardSymmetries
  Tactic <- Forks
  TacticPlies = 3
  Configurations <- SomeSearches
  MaxJobs = 1
  Infinity = 1000
SPECIFICATION Spec
INVARIANTS WorkingOutcomesAreTrue CommittedIsConsistent WitnessIsAccepted DoneJobsMerge PublishedStrategyVerifies
CHECK_DEADLOCK FALSE
