SPECIFICATION FairSpec
CONSTANTS
  Threads = {a, b}
  NSlots = 2
  Keys = {0, 1, 2}
  Depths = {1, 2}
  Generations = 3
  VersionMax = 5
  Entries <- Contended
  Warm <- Rivals
INVARIANTS WriterIsAlone KnowledgeIsKept EvictionIsReasonable
PROPERTIES ImplementsAtomicBucket OperationsEnd
