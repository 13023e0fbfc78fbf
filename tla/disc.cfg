SPECIFICATION WatchedSpec
CONSTANTS
  Messages = {m1, m2}
  NULL = NULL
  MaxBlock = 3
  Confirmations = 1
  ReorgDepth = 1
  ActivateAfter = 1
  ChunkSize = 1
  DISCOVERY_BATCH_LIMIT = 1
  StartLatest = FALSE
  Faults = {"throw", "progressError", "watcherDown"}
  MaxCrashes = 1
  MaxFailures = 1
\* The chain of the model is finite.
CHECK_DEADLOCK FALSE
INVARIANTS TypeOK ClaimedFinal ScanCovers
PROPERTIES ActivatesOnlyWhenStale EverySentClaimed
