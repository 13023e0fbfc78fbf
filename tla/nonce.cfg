CONSTANTS
  c1 = c1  c2 = c2  c3 = c3  c4 = c4
  NULL = NULL
  Calls = {c1, c2, c3, c4}
  JobCalls = {c1, c2}
  MaxNonce = 3
  MaxCrashes = 1
  Faults = {"rpcError", "lostResponse", "replace", "drop"}
SPECIFICATION FairSpec
INVARIANT TypeOK
INVARIANT NonceFree
INVARIANT NoHole
PROPERTY ResetReseeds
PROPERTY EveryCallEnds
\* The account rests once every call is over.
CHECK_DEADLOCK FALSE
