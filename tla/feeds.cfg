SPECIFICATION FairSpec
CONSTANTS
  Events = {1, 2}
  Streams <- MCStreams
  NULL = NULL
  MaxBlock = 3
  Confirmations = 1
  ReorgDepth = 1
  MAX_LIMIT = 2
  Window = 2
INVARIANTS TypeOK ImmutableIsFinal StreamComplete
PROPERTIES EveryEventServed
\* The chain of the model is finite.
CHECK_DEADLOCK FALSE
