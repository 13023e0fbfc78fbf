SPECIFICATION Spec
CHECK_DEADLOCK FALSE
CONSTANTS
  Hub = "hub"
  NULL = NULL
  Malformed = Malformed
  Deployments <- MCDeployments
  Bps = 10
  shieldFeeBps = 3
  NetFees <- MCNetFees
  Bases <- MCBases
  Edits <- MCEdits
  MaxEdits = 2
  Requests <- MCRequests
  Messages = {1, 2}
  Burns <- MCBurns
  MaxRetries = 1
INVARIANTS LoadersAgree AcceptedIsPaid
PROPERTIES OutcomeTrue EveryClaimedEnds
