\* Two instances, one crash, every kind of failed call.
CONSTANTS
  m1 = m1
  t1 = t1
  t2 = t2
  a1 = a1
  a2 = a2
  NULL = NULL
  FOREIGN = FOREIGN
  Messages = {m1}
  Relayable = {m1}
  Nonced = {m1}
  TxIds = {t1, t2}
  Actors = {a1, a2}
  MAX_RELAY_RETRIES = 1
  IRIS_POLL_CONCURRENCY = 1
  TICK_BATCH = 2
  Backoff <- MCBackoff
  StuckTxThreshold = 0
  MaxAttestationAge = 0
  IrisMode = "iris"
  Faults = {"throw", "lostResponse", "dropTx", "revertTx", "foreign"}
  MaxCrashes = 1
SPECIFICATION Spec
SYMMETRY InstanceSymmetry
INVARIANTS DeliveredSound
PROPERTIES ImplementsLifecycle
