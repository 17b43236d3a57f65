CONSTANTS
  Principal = p
  Helpers = {h1}
  Capped = FALSE
  MaxNodes = 0
  HasClock = TRUE
  MaxDepth = 1
  PollStride = 2
SPECIFICATION FairSpec
PROPERTIES TeamReturns InterruptionEndsSearch
