SPECIFICATION HttpSpec
CONSTANTS
  Clients = {c1}
  Frontend = c1
  NULL = NULL
  Capacity = 5
  Cost = 3
  Rate = 2
  SweepAfter = 3
  Messages = {m1, m2, m3}
  Limit = 2
  MaxTime = 3
  Chains = {hub, client}
  Poll = 1
  BlockTime = 1
  MaxLag = 1
  MaxWait = 2
INVARIANTS LazyIsExact NothingSkipped HealthSound
PROPERTY EveryDeliverySeen
