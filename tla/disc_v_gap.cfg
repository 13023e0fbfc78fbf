SPECIFICATION UnwatchedSpec
CONSTANTS
  Messages = {m1}
  NULL = NULL
  MaxBlock = 3
  Confirmations = 1
  ReorgDepth = 1
  ActivateAfter = 1
  ChunkSize = 2
  DISCOVERY_BATCH_LIMIT = 1
  StartLatest = FALSE
  Faults = {"watcherDown"}
  MaxCrashes = 0
  MaxFailures = 0
CHECK_DEADLOCK FALSE
PROPERTIES EverySentClaimed
