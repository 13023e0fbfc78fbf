\* One instance that crashes once; only one message is polled per tick.
CONSTANTS
  m1 = m1
  m2 = m2
  t1 = t1
  t2 = t2
  a1 = a1
  NULL = NULL
  FOREIGN = FOREIGN
  Messages = {m1, m2}
  Relayable = {m1, m2}
  Nonced = {}
  TxIds = {t1, t2}
  Actors = {a1}
  MAX_RELAY_RETRIES = 1
  IRIS_POLL_CONCURRENCY = 1
  TICK_BATCH = 2
  Backoff <- MCBackoff
  StuckTxThreshold = 0
  MaxAttestationAge = 1
  IrisMode = "iris"
  Faults = {"dropTx"}
  MaxCrashes = 1
SPECIFICATION FairSpec
PROPERTIES EventuallyTerminal
