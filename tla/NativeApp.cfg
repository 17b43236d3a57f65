CONSTANTS
  a = a b = b c = c first = first second = second
  Nothing = Nothing
  Cells = {a, b, c}
  Lines <- RowOfThree
  Configs = {first, second}
  FirstConfig = first
  Evaluators = {pattern, learned}
  Pattern = pattern
  Books <- OneBook
  MaxInfos = 1
  Openings <- OneOpening
  Records <- OneRecord
  MaxRequestId = 5
SPECIFICATION FairSpec
INVARIANTS ReplyIsNotSearchedAgain ShownBookIsUsed
PROPERTIES ImplementsDuel AiReplies CloseEnds
CHECK_DEADLOCK FALSE
