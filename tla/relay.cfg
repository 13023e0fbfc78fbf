CONSTANTS
  r1 = r1  r2 = r2  r3 = r3
  p1 = p1  k1 = k1
  NULL = NULL
  Requests = {r1, r2, r3}
  Payloads = {p1}
  Keys = {k1}
  MaxTxs = 2
  PayloadOf <- MCPayloadOf
  KeyOf <- MCKeyOf
  ConfiguredChain = {r1, r2, r3}
  AllowedTarget = {r1, r2, r3}
  AllowedSelector = {r1, r2, r3}
  FeePaid = {r1, r2, r3}
  DEDUP_TTL = 1
  MaxCrashes = 1
  Faults = {"lostResponse", "dbError", "noteError"}
SPECIFICATION FairSpec
INVARIANTS TypeOK LockOwned
PROPERTIES NoDoubleBroadcast BackfillSound ImplementsContract EveryRequestAnswered
\* Requests are finitely many; the server rests when all are answered.
CHECK_DEADLOCK FALSE
