CONSTANTS
  a = a b = b c = c d = d e = e
  Cells = {a, b, c, d, e}
  Nothing = Nothing
  WinLength = 3
  Center <- c
  Near <- CrossNear
  LineCells <- CrossWindows
  Weight <- WeightOf
  CenterWeight <- OwnerWeight
  Activate <- Clamped
  MaxWalk = 5
  Asked <- SearchedGames
  Records <- SomeRecords
  Lines <- Cross
SPECIFICATION SearchSpec
INVARIANTS RedoStaysLegal SidecarsStayExact SearchUnwinds
PROPERTIES ImplementsTimeline
