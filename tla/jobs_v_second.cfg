\* An accidental second instance.
CONSTANTS
  m1 = m1
  t1 = t1
  t2 = t2
  a1 = a1
  a2 = a2
  NULL = NULL
  FOREIGN = FOREIGN
  Messages = {m1}
  Relayable = {m1}
  Nonced = {}
  TxIds = {t1, t2}
  Actors = {a1, a2}
  MAX_RELAY_RETRIES = 1
  IRIS_POLL_CONCURRENCY = 1
  TICK_BATCH = 1
  Backoff <- MCBackoff
  StuckTxThreshold = 1
  MaxAttestationAge = 1
  IrisMode = "iris"
  Faults = {}
  MaxCrashes = 0
SPECIFICATION Spec
PROPERTIES NoBlindResubmit
