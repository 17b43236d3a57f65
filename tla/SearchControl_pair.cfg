CONSTANTS
  Principal = p
  Helpers = {h1}
  Capped = TRUE
  MaxNodes = 3
  HasClock = TRUE
  MaxDepth = 2
  PollStride = 2
SPECIFICATION FairSpec
INVARIANTS ExactAdmission AdmittedMatchesWork
PROPERTIES ImplementsLifecycle
