CONSTANTS
  Nothing = Nothing
  Size = 3
  Cells <- BoardCells
  Lines <- BoardLines
  Symmetries <- BoardSymmetries
  Preference <- BoardOrder
  Tactic <- Forks
  TacticPlies = 3
  Roots <- SomeRoots
  Limits = {"none", "fork"}
  WidenBatch = 4
  ResidentLimit = 44
  MaxPersisted = 44
  Infinity = 1000
  MaxSolves = 2
SPECIFICATION Spec
INVARIANTS OutcomesAreTrue CheckpointLoads StrategyVerifies
CHECK_DEADLOCK FALSE
PROPERTIES SolveReturns
