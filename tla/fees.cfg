SPECIFICATION Spec
CONSTANTS
  Handlers = {h1, h2}
  NULL = NULL
  TTL = 3
  Buffer = 3
  MaxQuotes = 3
  Readings <- MCReadings
  MIN_PRICE = 10
  MAX_PRICE = 40
  StaticPrice = 5
  GasPrices = {0, 7, 11}
  Tiers = {transfer, shield}
  ShieldTiers = {shield}
  GAS_ESTIMATES <- MCGasEstimates
  Unit = 10
  Bps = 100
  FEE_FLOOR = 9
  profitMarginBps = 15
  shieldFeeBps = 7
\* Schedules are finitely many.
CHECK_DEADLOCK FALSE
INVARIANTS TypeOK HonoredUntilExpiry PricedByFeed ShieldTiersWhole
