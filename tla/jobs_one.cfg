\* One instance that stays up, two messages; transactions revert and drop out, others deliver too.
CONSTANTS
  m1 = m1
  m2 = m2
  t1 = t1
  t2 = t2
  t3 = t3
  a1 = a1
  NULL = NULL
  FOREIGN = FOREIGN
  Messages = {m1, m2}
  Relayable = {m1, m2}
  Nonced = {m1, m2}
  TxIds = {t1, t2, t3}
  Actors = {a1}
  MAX_RELAY_RETRIES = 2
  IRIS_POLL_CONCURRENCY = 1
  TICK_BATCH = 2
  Backoff <- MCBackoff
  StuckTxThreshold = 1
  MaxAttestationAge = 1
  IrisMode = "iris"
  Faults = {"dropTx", "revertTx", "foreign"}
  MaxCrashes = 0
SPECIFICATION Spec
SYMMETRY MessageSymmetry
INVARIANTS TypeOK InFlightTracked OwnDeliveryRecorded RetriesExhausted
PROPERTY NoBlindResubmit
