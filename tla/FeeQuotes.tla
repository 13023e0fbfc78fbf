------------------------------ MODULE FeeQuotes ------------------------------
(***************************************************************************)
(* Fee quotes of one chain: GET /fees handlers in FeeCalculator.           *)
(* getSchedule, the ETH/USD price source they refresh, and resolve, which  *)
(* POST /relay asks whether a quote still stands.                          *)
(*                                                                         *)
(* A handler awaits the feed and then the gas price, so several may be     *)
(* regenerating at once.  A quote's life is kept as expiresIn = expiresAt  *)
(* - now, which stops at -Buffer, where no one accepts it any more; since  *)
(* is how long ago a handler read the clock.                               *)
(***************************************************************************)
EXTENDS ShieldFee

CONSTANTS
  Handlers,        \* GET /fees requests in flight
  NULL,
  TTL,             \* feeTtlSeconds
  Buffer,          \* TTL * feeVarianceBufferBps / 10000
  MaxQuotes,       \* bound: schedules ever generated
  Readings,        \* answers of the feed: [price, stale]
  MIN_PRICE, MAX_PRICE,
  StaticPrice,     \* ETH_USD_PRICE_STATIC
  GasPrices,
  Tiers,           \* the schedule's fee keys
  ShieldTiers,     \* SHIELD_FEE_TIERS
  GAS_ESTIMATES,
  Unit,            \* 1e18 * PRICE_SCALE / USDC_UNIT
  FEE_FLOOR,
  profitMarginBps

ASSUME FeeAssumption ==
  /\ TTL \in Nat \ {0} /\ Buffer \in Nat /\ MaxQuotes \in Nat
  /\ Readings \subseteq [price : Nat, stale : BOOLEAN]
  /\ MIN_PRICE \in Nat /\ MAX_PRICE \in Nat /\ StaticPrice \in Nat
  /\ GasPrices \subseteq Nat
  /\ ShieldTiers \subseteq Tiers /\ GAS_ESTIMATES \in [Tiers -> Nat]
  /\ Unit \in Nat \ {0} /\ FEE_FLOOR \in Nat /\ profitMarginBps \in Nat
  /\ NULL \notin Nat

VARIABLES
  quotes,     \* the schedules generated so far, by counter
  counter,
  current, previous,   \* the slot: counters of two schedules, or NULL
  lastGood, degraded,  \* ChainlinkPriceSource
  handler,    \* Handlers -> stage and since
  raced       \* history: two requests were regenerating at once

vars == <<quotes, counter, current, previous, lastGood, degraded, handler, raced>>
slot == <<current, previous>>
feed == <<lastGood, degraded>>

Ids == 1..MaxQuotes
Stages == {"idle", "refresh", "gas"}
Quote == [expiresIn : (-Buffer)..TTL, gasPrice : Nat, price : Nat, fees : [Tiers -> Nat]]
-----------------------------------------------------------------------------
(* Fee arithmetic.                                                         *)

computeFeeUsdcRaw(gasEstimate, gasPrice, price) ==
  LET cost == (gasEstimate * gasPrice * price) \div Unit
      fee == (cost * (Bps + profitMarginBps)) \div Bps
  IN IF fee > FEE_FLOOR THEN fee ELSE FEE_FLOOR

feesAt(gasPrice, price) ==
  [key \in Tiers |->
     LET net == computeFeeUsdcRaw(GAS_ESTIMATES[key], gasPrice, price)
     IN IF key \in ShieldTiers THEN grossUpForShieldFee(net) ELSE net]
-----------------------------------------------------------------------------
(* The price source.                                                       *)

\* current(): the last accepted reading, before the first one the static price.
currentPrice == IF lastGood # NULL THEN lastGood ELSE StaticPrice

\* A reading that is fresh and within the clamp.
Accepted(r) == ~r.stale /\ r.price >= MIN_PRICE /\ r.price <= MAX_PRICE
AcceptedPrices == {r.price : r \in {x \in Readings : Accepted(x)}}

\* Mutant: a rejected reading forgets the last good one.
refresh_Forgets(h) ==
  /\ handler[h].stage = "refresh"
  /\ \/ \E r \in Readings : Accepted(r) /\ lastGood' = r.price /\ degraded' = FALSE
     \/ degraded' = TRUE /\ lastGood' = NULL
  /\ handler' = [handler EXCEPT ![h].stage = "gas"]
  /\ UNCHANGED <<quotes, counter, slot, raced>>

\* The feed answers, or fails; a reading that is stale or out of the clamp is
\* rejected.  Nothing is ever thrown.
refresh(h) ==
  /\ handler[h].stage = "refresh"
  /\ \/ \E r \in Readings : Accepted(r) /\ lastGood' = r.price /\ degraded' = FALSE
     \/ degraded' = TRUE /\ UNCHANGED lastGood
  /\ handler' = [handler EXCEPT ![h].stage = "gas"]
  /\ UNCHANGED <<quotes, counter, slot, raced>>
-----------------------------------------------------------------------------
(* getSchedule                                                             *)

Expired(id) == quotes[id].expiresIn <= 0

InFlight == {h \in Handlers : handler[h].stage # "idle"}

\* Mutant: an unexpired schedule is regenerated too.
getSchedule_Always(h) ==
  /\ handler[h].stage = "idle"
  /\ counter < MaxQuotes
  /\ handler' = [handler EXCEPT ![h] = [stage |-> "refresh", since |-> 0]]
  /\ raced' = (raced \/ InFlight # {})
  /\ UNCHANGED <<quotes, counter, slot, feed>>

\* A request that finds no unexpired schedule starts to make one; any other
\* request is answered with current and changes nothing.
getSchedule(h) ==
  /\ handler[h].stage = "idle"
  /\ counter < MaxQuotes
  /\ current # NULL => Expired(current)
  /\ handler' = [handler EXCEPT ![h] = [stage |-> "refresh", since |-> 0]]
  /\ raced' = (raced \/ InFlight # {})
  /\ UNCHANGED <<quotes, counter, slot, feed>>

\* Mutant: the time the handler waited is added to the quote's life.
regenerate_Extended(h) ==
  /\ handler[h].stage = "gas"
  /\ counter < MaxQuotes
  /\ counter' = counter + 1
  /\ \E gasPrice \in GasPrices :
       quotes' = [quotes EXCEPT ![counter + 1] =
                    [expiresIn |-> TTL + handler[h].since, gasPrice |-> gasPrice,
                     price |-> currentPrice, fees |-> feesAt(gasPrice, currentPrice)]]
  /\ previous' = current
  /\ current' = counter + 1
  /\ handler' = [handler EXCEPT ![h] = [stage |-> "idle", since |-> 0]]
  /\ UNCHANGED <<feed, raced>>

\* The gas price is in: the schedule is made with the clock read at the start,
\* takes the current slot, and what was there becomes previous.
regenerate(h) ==
  /\ handler[h].stage = "gas"
  /\ counter < MaxQuotes
  /\ counter' = counter + 1
  /\ \E gasPrice \in GasPrices :
       quotes' = [quotes EXCEPT ![counter + 1] =
                    [expiresIn |-> TTL - handler[h].since, gasPrice |-> gasPrice,
                     price |-> currentPrice, fees |-> feesAt(gasPrice, currentPrice)]]
  /\ previous' = current
  /\ current' = counter + 1
  /\ handler' = [handler EXCEPT ![h] = [stage |-> "idle", since |-> 0]]
  /\ UNCHANGED <<feed, raced>>

\* getFeeData throws: 500, and the slot stays as it was.
gasPriceFails(h) ==
  /\ handler[h].stage = "gas"
  /\ handler' = [handler EXCEPT ![h] = [stage |-> "idle", since |-> 0]]
  /\ UNCHANGED <<quotes, counter, slot, feed, raced>>

Elapse ==
  /\ quotes' = [id \in Ids |->
       IF id <= counter /\ quotes[id].expiresIn > -Buffer
       THEN [quotes[id] EXCEPT !.expiresIn = @ - 1] ELSE quotes[id]]
  /\ handler' = [h \in Handlers |->
       IF h \in InFlight /\ handler[h].since < TTL + Buffer
       THEN [handler[h] EXCEPT !.since = @ + 1] ELSE handler[h]]
  /\ UNCHANGED <<counter, slot, feed, raced>>

\* resolve: one of the two slots, until expiresAt + buffer.
resolve(id) ==
  /\ id \in {current, previous}
  /\ quotes[id].expiresIn + Buffer > 0
-----------------------------------------------------------------------------
NoFees == [key \in Tiers |-> 0]

Init ==
  /\ quotes = [id \in Ids |-> [expiresIn |-> -Buffer, gasPrice |-> 0,
                               price |-> 0, fees |-> NoFees]]
  /\ counter = 0 /\ current = NULL /\ previous = NULL
  /\ lastGood = NULL /\ degraded = TRUE
  /\ handler = [h \in Handlers |-> [stage |-> "idle", since |-> 0]]
  /\ raced = FALSE

Next ==
  \/ \E h \in Handlers :
       getSchedule(h) \/ refresh(h) \/ regenerate(h) \/ gasPriceFails(h)
  \/ Elapse

Spec == Init /\ [][Next]_vars
-----------------------------------------------------------------------------
(* Properties.                                                             *)

\* Type invariant of the schedules, the slot, the price source, the handlers.
TypeOK ==
  /\ quotes \in [Ids -> Quote]
  /\ counter \in 0..MaxQuotes
  /\ current \in Ids \union {NULL} /\ previous \in Ids \union {NULL}
  /\ lastGood \in Nat \union {NULL} /\ degraded \in BOOLEAN
  /\ handler \in [Handlers -> [stage : Stages, since : 0..(TTL + Buffer)]]
  /\ raced \in BOOLEAN

\* "A quote is honored until expiresAt + buffer": every schedule a client was
\* given is resolved until then, although only two of them are kept - as long
\* as no two requests regenerate at once and the buffer is no longer than the
\* TTL (2000 bps of it by default; env.ts:179 sets no upper limit).
HonoredUntilExpiry ==
  ~raced /\ Buffer <= TTL =>
    \A id \in 1..counter : quotes[id].expiresIn + Buffer > 0 => resolve(id)

\* Quotes are priced with an accepted reading; the static price serves only
\* until the first one and never comes back, however many readings the feed
\* then refuses.
PricedByFeed ==
  \A i, j \in 1..counter :
    /\ quotes[i].price \in {StaticPrice} \union AcceptedPrices
    /\ i < j /\ quotes[i].price # StaticPrice => quotes[j].price \in AcceptedPrices

\* Of a quote paid by a fee note under a shield tier, what reaches the relayer after
\* the pool's shield fee is what was computed for the gas, or one unit more
\* (grossUpForShieldFee).
ShieldTiersWhole ==
  \A id \in 1..counter, key \in ShieldTiers :
    LET net == computeFeeUsdcRaw(GAS_ESTIMATES[key], quotes[id].gasPrice,
                                 quotes[id].price)
    IN Shielded(quotes[id].fees[key]) \in net..(net + 1)
=============================================================================
