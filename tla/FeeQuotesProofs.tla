--------------------------- MODULE FeeQuotesProofs ---------------------------
(* Proofs about FeeQuotes, for any prices, rates, TTL, buffer and requests. *)
EXTENDS FeeQuotes, TLAPS

-----------------------------------------------------------------------------
(* The inductive invariant.                                                *)

\* The newest schedule is current, the slot's other schedule exists.
Slots ==
  /\ current = IF counter = 0 THEN NULL ELSE counter
  /\ previous \in 1..counter \union {NULL}

\* While no two requests raced, one request regenerates at a time,
\* and the schedule it replaces had expired when it started; the schedule that
\* one had replaced expired a whole TTL before; every older one is past its
\* buffer.
OneInFlight == ~raced => \A g, h \in InFlight : g = h

Spent(id) == quotes[id].expiresIn = -Buffer

Waning ==
  ~raced /\ Buffer <= TTL =>
    /\ current # NULL => \A h \in InFlight :
         Spent(current) \/ quotes[current].expiresIn + handler[h].since <= 0
    /\ current # NULL /\ previous # NULL =>
         Spent(previous) \/ quotes[previous].expiresIn + TTL <= quotes[current].expiresIn
    /\ \A id \in 1..counter : id \notin {current, previous} => Spent(id)

\* Every schedule lists the fees of its own gas price and ETH price.
Computed == \A id \in 1..counter : quotes[id].fees = feesAt(quotes[id].gasPrice, quotes[id].price)

\* A schedule not priced statically was made after an accepted reading, which
\* the source keeps.
Priced ==
  /\ lastGood # NULL => lastGood \in AcceptedPrices
  /\ \A id \in 1..counter : quotes[id].price # StaticPrice => lastGood # NULL
  /\ PricedByFeed

-----------------------------------------------------------------------------
(* Fee arithmetic.                                                         *)

LEMMA DivNat ==
  ASSUME NEW a \in Nat, NEW b \in Nat \ {0}
  PROVE  /\ a \div b \in Nat
         /\ (a \div b) * b <= a /\ a < (a \div b) * b + b
  OBVIOUS

LEMMA TimesNat == ASSUME NEW a \in Nat, NEW b \in Nat PROVE a * b \in Nat
  OBVIOUS

LEMMA FeeNat ==
  ASSUME NEW e \in Nat, NEW g \in Nat, NEW p \in Nat
  PROVE  computeFeeUsdcRaw(e, g, p) \in Nat
  <1> DEFINE cost == (e * g * p) \div Unit
             fee == (cost * (Bps + profitMarginBps)) \div Bps
  <1>1. e * g \in Nat
    BY TimesNat
  <1>2. e * g * p \in Nat
    BY <1>1, TimesNat
  <1>3. cost \in Nat
    BY <1>2, DivNat, FeeAssumption
  <1>4. Bps + profitMarginBps \in Nat
    BY FeeAssumption, ShieldFeeAssumption
  <1>5. cost * (Bps + profitMarginBps) \in Nat
    BY <1>3, <1>4, TimesNat
  <1>6. fee \in Nat
    BY <1>5, DivNat, ShieldFeeAssumption
  <1> QED BY <1>6, FeeAssumption DEF computeFeeUsdcRaw

\* The ceiling division of grossUpForShieldFee.
LEMMA GrossUp ==
  ASSUME NEW net \in Nat
  PROVE  /\ grossUpForShieldFee(net) \in Nat
         /\ net * Bps <= grossUpForShieldFee(net) * (Bps - shieldFeeBps)
         /\ grossUpForShieldFee(net) * (Bps - shieldFeeBps)
              < net * Bps + (Bps - shieldFeeBps)
  <1> DEFINE d == Bps - shieldFeeBps
             a == net * Bps + d - 1
             v == a \div d
  <1>1. d \in Nat \ {0} /\ net * Bps \in Nat /\ a \in Nat
    BY ShieldFeeAssumption, TimesNat
  <1>2. v \in Nat /\ v * d <= a /\ a < v * d + d
    BY <1>1, DivNat
  <1>3. v * d \in Nat
    BY <1>1, <1>2, TimesNat
  <1>4. net * Bps <= v * d /\ v * d < net * Bps + d
    BY <1>1, <1>2, <1>3
  <1>5. CASE shieldFeeBps = 0
    <2>1. grossUpForShieldFee(net) = net /\ d = Bps
      BY <1>5, ShieldFeeAssumption DEF grossUpForShieldFee
    <2> QED BY <1>1, <2>1
  <1>6. CASE shieldFeeBps # 0
    BY <1>2, <1>4, <1>6 DEF grossUpForShieldFee
  <1> QED BY <1>5, <1>6

\* What the pool leaves of a grossed-up note is the net fee, or one unit more.
LEMMA Whole ==
  ASSUME NEW net \in Nat
  PROVE  Shielded(grossUpForShieldFee(net)) \in net..(net + 1)
  <1> DEFINE v == grossUpForShieldFee(net)
             f == shieldFeeBps
             w == (v * f) \div Bps
             s == v - w
  <1>1. /\ v \in Nat /\ net * Bps <= v * (Bps - f) /\ v * (Bps - f) < net * Bps + (Bps - f)
    BY GrossUp
  <1> HIDE DEF v
  <1>2. f \in Nat /\ f < Bps /\ Bps \in Nat \ {0}
    BY ShieldFeeAssumption
  <1>3. v * f \in Nat
    BY <1>1, <1>2, TimesNat
  <1>4. w \in Nat /\ w * Bps <= v * f /\ v * f < w * Bps + Bps
    BY <1>2, <1>3, DivNat
  <1> HIDE DEF w
  <1>5. v * (Bps - f) = v * Bps - v * f /\ s * Bps = v * Bps - w * Bps /\ s \in Int
    BY <1>1, <1>2, <1>4
  <1>6. net * Bps <= s * Bps /\ s * Bps < (net + 2) * Bps
    <2>1. (net + 2) * Bps = net * Bps + Bps + Bps
      BY <1>2
    <2>2. /\ net * Bps \in Int /\ v * Bps \in Int /\ w * Bps \in Int
          /\ v * f \in Int /\ s * Bps \in Int
      BY <1>1, <1>2, <1>4, <1>5
    <2> QED BY <1>1, <1>2, <1>4, <1>5, <2>1, <2>2
  <1>7. net <= s /\ s < net + 2
    BY <1>2, <1>5, <1>6
  <1>8. Shielded(v) = s
    BY DEF Shielded, w
  <1>9. Shielded(v) \in net..(net + 1)
    BY <1>5, <1>7, <1>8
  <1> QED BY <1>9 DEF v

LEMMA FeesNat ==
  ASSUME NEW g \in Nat, NEW p \in Nat
  PROVE  feesAt(g, p) \in [Tiers -> Nat]
  <1>1. \A key \in Tiers : computeFeeUsdcRaw(GAS_ESTIMATES[key], g, p) \in Nat
    BY FeeNat, FeeAssumption
  <1>2. \A net \in Nat : grossUpForShieldFee(net) \in Nat
    BY GrossUp
  <1> QED BY <1>1, <1>2 DEF feesAt

-----------------------------------------------------------------------------
(* Types.                                                                  *)

LEMMA PriceNat ==
  ASSUME TypeOK
  PROVE  currentPrice \in Nat
  BY FeeAssumption DEF TypeOK, currentPrice

LEMMA ReadingNat == AcceptedPrices \subseteq Nat
  BY FeeAssumption DEF AcceptedPrices

\* What the actions write.
LEMMA HandlerUpdates ==
  ASSUME TypeOK, NEW h \in Handlers
  PROVE  /\ handler[h] \in [stage : Stages, since : 0..(TTL + Buffer)]
         /\ [handler[h] EXCEPT !.stage = "gas"] =
              [stage |-> "gas", since |-> handler[h].since]
         /\ [handler[h] EXCEPT !.since = @ + 1] =
              [stage |-> handler[h].stage, since |-> handler[h].since + 1]
  BY DEF TypeOK

LEMMA QuoteUpdates ==
  ASSUME TypeOK, NEW id \in Ids
  PROVE  /\ quotes[id] \in Quote
         /\ [quotes[id] EXCEPT !.expiresIn = @ - 1] =
              [expiresIn |-> quotes[id].expiresIn - 1, gasPrice |-> quotes[id].gasPrice,
               price |-> quotes[id].price, fees |-> quotes[id].fees]
  BY DEF TypeOK, Quote

\* The schedule a regeneration makes.
LEMMA Regenerated ==
  ASSUME TypeOK, NEW h \in Handlers, regenerate(h)
  PROVE  /\ counter \in Nat /\ counter + 1 \in Ids
         /\ counter' = counter + 1 /\ current' = counter + 1 /\ previous' = current
         /\ \E g \in GasPrices : quotes'[counter + 1] =
              [expiresIn |-> TTL - handler[h].since, gasPrice |-> g,
               price |-> currentPrice, fees |-> feesAt(g, currentPrice)]
         /\ \A id \in Ids : id # counter + 1 => quotes'[id] = quotes[id]
  <1>1. counter \in Nat /\ counter + 1 \in Ids
    BY FeeAssumption DEF TypeOK, regenerate, Ids
  <1> QED BY <1>1 DEF regenerate, TypeOK

LEMMA TypedStep == TypeOK /\ [Next]_vars => TypeOK'
  <1> SUFFICES ASSUME TypeOK, [Next]_vars PROVE TypeOK'
    OBVIOUS
  <1> USE FeeAssumption
  <1>1. ASSUME NEW h \in Handlers, getSchedule(h) PROVE TypeOK'
    <2>1. handler' \in [Handlers -> [stage : Stages, since : 0..(TTL + Buffer)]]
      BY <1>1 DEF getSchedule, TypeOK, Stages
    <2>2. raced' \in BOOLEAN
      BY <1>1 DEF getSchedule, TypeOK
    <2> QED BY <1>1, <2>1, <2>2 DEF getSchedule, TypeOK, slot, feed
  <1>2. ASSUME NEW h \in Handlers, refresh(h) PROVE TypeOK'
    <2>1. handler' \in [Handlers -> [stage : Stages, since : 0..(TTL + Buffer)]]
      BY <1>2, HandlerUpdates DEF refresh, TypeOK, Stages
    <2>2. lastGood' \in Nat \union {NULL}
      BY <1>2 DEF refresh, TypeOK
    <2>3. degraded' \in BOOLEAN
      BY <1>2 DEF refresh
    <2> QED BY <1>2, <2>1, <2>2, <2>3 DEF refresh, TypeOK, slot
  <1>3. ASSUME NEW h \in Handlers, regenerate(h) PROVE TypeOK'
    <2>1. handler' \in [Handlers -> [stage : Stages, since : 0..(TTL + Buffer)]]
      BY <1>3 DEF regenerate, TypeOK, Stages
    <2>2. counter' \in 0..MaxQuotes /\ current' \in Ids /\ previous' \in Ids \union {NULL}
      BY <1>3, Regenerated DEF TypeOK, Ids
    <2>3. quotes' \in [Ids -> Quote]
      <3>1. PICK g \in GasPrices :
              quotes' = [quotes EXCEPT ![counter + 1] =
                    [expiresIn |-> TTL - handler[h].since, gasPrice |-> g,
                     price |-> currentPrice, fees |-> feesAt(g, currentPrice)]]
        BY <1>3 DEF regenerate
      <3>2. TTL - handler[h].since \in (-Buffer)..TTL
        <4>1. handler[h].since \in 0..(TTL + Buffer)
          BY HandlerUpdates
        <4> QED BY <4>1
      <3>3. g \in Nat /\ currentPrice \in Nat /\ feesAt(g, currentPrice) \in [Tiers -> Nat]
        BY PriceNat, FeesNat
      <3>4. [expiresIn |-> TTL - handler[h].since, gasPrice |-> g,
             price |-> currentPrice, fees |-> feesAt(g, currentPrice)] \in Quote
        BY <3>2, <3>3 DEF Quote
      <3> QED BY <3>1, <3>4 DEF TypeOK
    <2> QED BY <1>3, <2>1, <2>2, <2>3 DEF regenerate, TypeOK, feed
  <1>4. ASSUME NEW h \in Handlers, gasPriceFails(h) PROVE TypeOK'
    <2>1. handler' \in [Handlers -> [stage : Stages, since : 0..(TTL + Buffer)]]
      BY <1>4 DEF gasPriceFails, TypeOK, Stages
    <2> QED BY <1>4, <2>1 DEF gasPriceFails, TypeOK, slot, feed
  <1>5. CASE Elapse
    <2>1. quotes' \in [Ids -> Quote]
      <3>1. ASSUME NEW id \in Ids, quotes[id].expiresIn > -Buffer
            PROVE  [quotes[id] EXCEPT !.expiresIn = @ - 1] \in Quote
        <4>1. quotes[id] \in Quote
          BY QuoteUpdates
        <4>2. quotes[id].expiresIn - 1 \in (-Buffer)..TTL
          BY <3>1, <4>1 DEF Quote
        <4> QED BY <4>1, <4>2, QuoteUpdates DEF Quote
      <3> QED BY <1>5, <3>1 DEF Elapse, TypeOK
    <2>2. handler' \in [Handlers -> [stage : Stages, since : 0..(TTL + Buffer)]]
      <3>1. ASSUME NEW h \in Handlers, handler[h].since < TTL + Buffer
            PROVE  [handler[h] EXCEPT !.since = @ + 1] \in
                     [stage : Stages, since : 0..(TTL + Buffer)]
        <4>1. handler[h] \in [stage : Stages, since : 0..(TTL + Buffer)]
          BY HandlerUpdates
        <4>2. handler[h].since + 1 \in 0..(TTL + Buffer)
          BY <3>1, <4>1
        <4> QED BY <4>1, <4>2, HandlerUpdates
      <3> QED BY <1>5, <3>1 DEF Elapse, TypeOK
    <2> QED BY <1>5, <2>1, <2>2 DEF Elapse, TypeOK, slot, feed
  <1>6. CASE UNCHANGED vars
    BY <1>6 DEF vars, TypeOK, slot, feed
  <1> QED BY <1>1, <1>2, <1>3, <1>4, <1>5, <1>6 DEF Next

LEMMA InitTyped == Init => TypeOK
  <1> SUFFICES ASSUME Init PROVE TypeOK
    OBVIOUS
  <1> USE FeeAssumption
  <1>1. quotes \in [Ids -> Quote]
    BY DEF Init, Quote, NoFees
  <1>2. handler \in [Handlers -> [stage : Stages, since : 0..(TTL + Buffer)]]
    BY DEF Init, Stages
  <1>3. degraded \in BOOLEAN /\ raced \in BOOLEAN
    BY DEF Init
  <1> QED BY <1>1, <1>2, <1>3 DEF Init, TypeOK

-----------------------------------------------------------------------------
(* Schedules and slots.                                                    *)

\* Time only shortens a schedule's life, as far as the end of its buffer.
LEMMA Elapsed ==
  ASSUME TypeOK, Elapse, NEW id \in 1..counter
  PROVE  /\ id \in Ids
         /\ quotes'[id].expiresIn =
              IF Spent(id) THEN -Buffer ELSE quotes[id].expiresIn - 1
         /\ quotes'[id].gasPrice = quotes[id].gasPrice
         /\ quotes'[id].price = quotes[id].price
         /\ quotes'[id].fees = quotes[id].fees
  <1>1. id \in Ids /\ id <= counter
    BY FeeAssumption DEF TypeOK, Ids
  <1>2. quotes[id].expiresIn \in (-Buffer)..TTL
    BY <1>1, QuoteUpdates DEF Quote
  <1>3. quotes'[id] = IF quotes[id].expiresIn > -Buffer
                      THEN [quotes[id] EXCEPT !.expiresIn = @ - 1] ELSE quotes[id]
    BY <1>1 DEF Elapse
  <1>4. quotes[id].expiresIn > -Buffer <=> ~Spent(id)
    BY <1>2, FeeAssumption DEF Spent
  <1> QED BY <1>1, <1>3, <1>4, QuoteUpdates DEF Spent

\* A step makes the schedule after the newest, or makes none and changes no
\* price and no fee.
LEMMA MadeOrKept ==
  ASSUME TypeOK, [Next]_vars
  PROVE  \/ \E h \in Handlers : regenerate(h)
         \/ /\ counter' = counter /\ current' = current /\ previous' = previous
            /\ \A id \in 1..counter :
                 /\ quotes'[id].gasPrice = quotes[id].gasPrice
                 /\ quotes'[id].price = quotes[id].price
                 /\ quotes'[id].fees = quotes[id].fees
  <1>1. CASE Elapse
    BY <1>1, Elapsed DEF Elapse, slot
  <1>2. ASSUME NEW h \in Handlers, getSchedule(h) \/ refresh(h) \/ gasPriceFails(h)
        PROVE  quotes' = quotes /\ counter' = counter /\ slot' = slot
    BY <1>2 DEF getSchedule, refresh, gasPriceFails
  <1> QED BY <1>1, <1>2 DEF Next, vars, slot

LEMMA SlotsStep == TypeOK /\ Slots /\ [Next]_vars => Slots'
  <1> SUFFICES ASSUME TypeOK, Slots, [Next]_vars PROVE Slots'
    OBVIOUS
  <1>1. ASSUME NEW h \in Handlers, regenerate(h) PROVE Slots'
    BY <1>1, Regenerated DEF Slots
  <1>2. CASE counter' = counter /\ current' = current /\ previous' = previous
    BY <1>2 DEF Slots
  <1> QED BY <1>1, <1>2, MadeOrKept

LEMMA ComputedStep == TypeOK /\ Computed /\ [Next]_vars => Computed'
  <1> SUFFICES ASSUME TypeOK, Computed, [Next]_vars,
                      NEW id \in 1..counter'
               PROVE  quotes'[id].fees = feesAt(quotes'[id].gasPrice, quotes'[id].price)
    BY DEF Computed
  <1>1. ASSUME NEW h \in Handlers, regenerate(h)
        PROVE  quotes'[id].fees = feesAt(quotes'[id].gasPrice, quotes'[id].price)
    <2>1. id \in Ids /\ (id = counter + 1 \/ id \in 1..counter)
      BY <1>1, Regenerated, FeeAssumption DEF TypeOK, Ids
    <2>2. CASE id = counter + 1
      <3>1. PICK g \in GasPrices : quotes'[counter + 1] =
              [expiresIn |-> TTL - handler[h].since, gasPrice |-> g,
               price |-> currentPrice, fees |-> feesAt(g, currentPrice)]
        BY <1>1, Regenerated
      <3> QED BY <2>2, <3>1
    <2>3. CASE id \in 1..counter
      <3>1. quotes'[id] = quotes[id]
        BY <1>1, <2>1, <2>3, Regenerated
      <3> QED BY <2>3, <3>1 DEF Computed
    <2> QED BY <2>1, <2>2, <2>3
  <1> QED BY <1>1, MadeOrKept DEF Computed

-----------------------------------------------------------------------------
(* Prices.                                                                 *)

\* Once the source holds a reading it holds an accepted one for good.
LEMMA FeedStep ==
  ASSUME TypeOK, Priced, [Next]_vars
  PROVE  /\ lastGood' # NULL => lastGood' \in AcceptedPrices
         /\ lastGood # NULL => lastGood' # NULL
  <1>1. ASSUME NEW h \in Handlers, refresh(h)
        PROVE  lastGood' \in AcceptedPrices \/ lastGood' = lastGood
    BY <1>1 DEF refresh, AcceptedPrices
  <1>2. \/ \E h \in Handlers : refresh(h)
        \/ lastGood' = lastGood
    BY DEF Next, getSchedule, regenerate, gasPriceFails, Elapse, vars, feed
  <1>3. NULL \notin AcceptedPrices
    BY ReadingNat, FeeAssumption
  <1> QED BY <1>1, <1>2, <1>3 DEF Priced

LEMMA PricedStep == TypeOK /\ Priced /\ [Next]_vars => Priced'
  <1> SUFFICES ASSUME TypeOK, Priced, [Next]_vars PROVE Priced'
    OBVIOUS
  <1>1. ASSUME NEW h \in Handlers, regenerate(h) PROVE Priced'
    <2>1. lastGood' = lastGood
      BY <1>1 DEF regenerate, feed
    <2>2. quotes'[counter + 1].price = currentPrice
      <3>1. PICK g \in GasPrices : quotes'[counter + 1] =
              [expiresIn |-> TTL - handler[h].since, gasPrice |-> g,
               price |-> currentPrice, fees |-> feesAt(g, currentPrice)]
        BY <1>1, Regenerated
      <3> QED BY <3>1
    <2>3. \A id \in 1..counter' :
            \/ id = counter + 1
            \/ id \in 1..counter /\ quotes'[id].price = quotes[id].price
      BY <1>1, Regenerated, FeeAssumption DEF TypeOK, Ids
    <2>4. \A id \in 1..counter' :
            /\ quotes'[id].price # StaticPrice => lastGood' # NULL
            /\ quotes'[id].price \in {StaticPrice} \union AcceptedPrices
      BY <2>1, <2>2, <2>3 DEF Priced, PricedByFeed, currentPrice
    <2>5. ASSUME NEW i \in 1..counter', NEW j \in 1..counter',
                 i < j, quotes'[i].price # StaticPrice
          PROVE  quotes'[j].price \in AcceptedPrices
      <3>1. counter \in Nat /\ counter' = counter + 1
        BY <1>1, Regenerated
      <3>2. i \in 1..counter
        BY <2>5, <3>1
      <3>3. quotes[i].price # StaticPrice
        BY <2>3, <2>5, <3>1, <3>2
      <3>4. CASE j = counter + 1
        BY <2>2, <3>2, <3>3, <3>4 DEF Priced, currentPrice
      <3>5. CASE j \in 1..counter /\ quotes'[j].price = quotes[j].price
        BY <2>5, <3>2, <3>3, <3>5 DEF Priced, PricedByFeed
      <3> QED BY <2>3, <3>4, <3>5
    <2> QED BY <2>1, <2>4, <2>5 DEF Priced, PricedByFeed
  <1>2. CASE /\ counter' = counter
             /\ \A id \in 1..counter : quotes'[id].price = quotes[id].price
    BY <1>2, FeedStep DEF Priced, PricedByFeed
  <1> QED BY <1>1, <1>2, MadeOrKept
-----------------------------------------------------------------------------
(* Resolution.                                                             *)

\* Who is regenerating after a step.
LEMMA OneInFlightStep == TypeOK /\ OneInFlight /\ [Next]_vars => OneInFlight'
  <1> SUFFICES ASSUME TypeOK, OneInFlight, [Next]_vars PROVE OneInFlight'
    OBVIOUS
  <1>1. ASSUME NEW h \in Handlers, getSchedule(h) PROVE OneInFlight'
    <2>1. InFlight' \subseteq InFlight \union {h}
      BY <1>1 DEF getSchedule, InFlight, TypeOK
    <2>2. ~raced' => InFlight = {}
      BY <1>1 DEF getSchedule
    <2> QED BY <2>1, <2>2 DEF OneInFlight
  <1>2. ASSUME InFlight' \subseteq InFlight, raced' = raced PROVE OneInFlight'
    BY <1>2 DEF OneInFlight
  <1>3. ASSUME NEW h \in Handlers, refresh(h) \/ regenerate(h) \/ gasPriceFails(h)
        PROVE  InFlight' \subseteq InFlight /\ raced' = raced
    BY <1>3 DEF refresh, regenerate, gasPriceFails, InFlight, TypeOK
  <1>4. ASSUME Elapse PROVE InFlight' \subseteq InFlight /\ raced' = raced
    BY <1>4, HandlerUpdates DEF Elapse, InFlight, TypeOK
  <1>5. ASSUME UNCHANGED vars PROVE InFlight' \subseteq InFlight /\ raced' = raced
    BY <1>5 DEF vars, InFlight
  <1> QED BY <1>1, <1>2, <1>3, <1>4, <1>5 DEF Next

\* A quote and a handler are where TypeOK puts them.
LEMMA Ranges ==
  ASSUME TypeOK
  PROVE  /\ \A id \in 1..counter : id \in Ids /\ quotes[id].expiresIn \in (-Buffer)..TTL
         /\ \A h \in Handlers : handler[h].since \in 0..(TTL + Buffer)
         /\ counter \in Nat
  <1>1. counter \in Nat /\ \A id \in 1..counter : id \in Ids
    BY FeeAssumption DEF TypeOK, Ids
  <1>2. \A id \in Ids : quotes[id].expiresIn \in (-Buffer)..TTL
    BY QuoteUpdates DEF Quote
  <1> QED BY <1>1, <1>2, HandlerUpdates

LEMMA WaningStep ==
  TypeOK /\ Slots /\ OneInFlight /\ Waning /\ [Next]_vars => Waning'
  <1> SUFFICES ASSUME TypeOK, Slots, OneInFlight, Waning, [Next]_vars,
                      ~raced', Buffer <= TTL
               PROVE  /\ current' # NULL => \A h \in InFlight' :
                           \/ quotes'[current'].expiresIn = -Buffer
                           \/ quotes'[current'].expiresIn + handler'[h].since <= 0
                      /\ current' # NULL /\ previous' # NULL =>
                           \/ quotes'[previous'].expiresIn = -Buffer
                           \/ quotes'[previous'].expiresIn + TTL <= quotes'[current'].expiresIn
                      /\ \A id \in 1..counter' :
                           id \notin {current', previous'} => quotes'[id].expiresIn = -Buffer
    BY DEF Waning, Spent
  <1>a. ~raced
    BY DEF Next, getSchedule, refresh, regenerate, gasPriceFails, Elapse, vars
  <1>b. /\ current # NULL => \A h \in InFlight :
             Spent(current) \/ quotes[current].expiresIn + handler[h].since <= 0
        /\ current # NULL /\ previous # NULL =>
             Spent(previous) \/ quotes[previous].expiresIn + TTL <= quotes[current].expiresIn
        /\ \A id \in 1..counter : id \notin {current, previous} => Spent(id)
    BY <1>a DEF Waning
  <1>c. /\ current # NULL => current = counter /\ current \in 1..counter
        /\ previous # NULL => previous \in 1..counter
    BY Ranges, FeeAssumption DEF Slots
  <1>1. ASSUME NEW h \in Handlers, getSchedule(h)
        PROVE  /\ UNCHANGED <<quotes, counter, slot>>
               /\ current # NULL => \A g \in InFlight' :
                    quotes[current].expiresIn + handler'[g].since <= 0
    <2>1. InFlight = {}
      BY <1>1 DEF getSchedule
    <2>2. InFlight' \subseteq {h} /\ handler'[h].since = 0
      BY <1>1, <2>1 DEF getSchedule, InFlight, TypeOK
    <2>3. current # NULL => quotes[current].expiresIn <= 0
      BY <1>1 DEF getSchedule, Expired
    <2> QED BY <1>1, <1>c, <2>2, <2>3, Ranges, FeeAssumption DEF getSchedule
  <1>2. ASSUME NEW h \in Handlers, refresh(h) \/ gasPriceFails(h)
        PROVE  /\ UNCHANGED <<quotes, counter, slot>>
               /\ \A g \in InFlight' : g \in InFlight /\ handler'[g].since = handler[g].since
    <2>1. CASE refresh(h)
      <3>1. handler' = [handler EXCEPT ![h] = [handler[h] EXCEPT !.stage = "gas"]]
            /\ handler[h].stage = "refresh"
        BY <2>1 DEF refresh
      <3> QED BY <2>1, <3>1, HandlerUpdates DEF refresh, InFlight, TypeOK
    <2>2. CASE gasPriceFails(h)
      BY <2>2 DEF gasPriceFails, InFlight, TypeOK
    <2> QED BY <1>2, <2>1, <2>2
  <1>3. ASSUME NEW h \in Handlers, regenerate(h)
        PROVE  /\ InFlight' = {}
               /\ current # NULL =>
                    \/ quotes'[previous'].expiresIn = -Buffer
                    \/ quotes'[previous'].expiresIn + TTL <= quotes'[current'].expiresIn
               /\ \A id \in 1..counter' :
                    id \notin {current', previous'} => quotes'[id].expiresIn = -Buffer
    <2>1. h \in InFlight /\ InFlight' = {}
      BY <1>3, <1>a DEF regenerate, InFlight, OneInFlight, TypeOK
    <2>2. PICK g \in GasPrices : quotes'[counter + 1] =
            [expiresIn |-> TTL - handler[h].since, gasPrice |-> g,
             price |-> currentPrice, fees |-> feesAt(g, currentPrice)]
      BY <1>3, Regenerated
    <2>3. quotes'[current'].expiresIn = TTL - handler[h].since
      BY <1>3, <2>2, Regenerated
    <2>4. \A id \in 1..counter : quotes'[id] = quotes[id]
      BY <1>3, Regenerated, Ranges
    <2>5. ASSUME current # NULL
          PROVE  \/ quotes'[previous'].expiresIn = -Buffer
                 \/ quotes'[previous'].expiresIn + TTL <= quotes'[current'].expiresIn
      <3>1. previous' = current /\ quotes'[current] = quotes[current]
        BY <1>3, <1>c, <2>4, <2>5, Regenerated
      <3>2. Spent(current) \/ quotes[current].expiresIn + handler[h].since <= 0
        BY <1>b, <2>1, <2>5
      <3> QED BY <1>c, <2>3, <2>5, <3>1, <3>2, Ranges, FeeAssumption DEF Spent
    <2>6. ASSUME NEW id \in 1..counter', id \notin {current', previous'}
          PROVE  quotes'[id].expiresIn = -Buffer
      <3>1. id \in 1..counter /\ id # current
        BY <1>3, <2>6, Regenerated
      <3>2. current # NULL
        BY <3>1, Ranges, FeeAssumption DEF Slots
      <3>3. CASE id # previous
        BY <1>b, <2>4, <3>1, <3>3 DEF Spent
      <3>4. CASE id = previous
        <4>1. previous # NULL
          BY <3>1, <3>4, Ranges, FeeAssumption
        <4>2. Spent(id) \/ quotes[id].expiresIn + TTL <= quotes[current].expiresIn
          BY <1>b, <3>2, <3>4, <4>1
        <4>3. Spent(current) \/ quotes[current].expiresIn + handler[h].since <= 0
          BY <1>b, <2>1, <3>2
        <4>4. quotes[current].expiresIn <= 0
          BY <1>c, <3>2, <4>3, Ranges, FeeAssumption DEF Spent
        <4>5. quotes[id].expiresIn = -Buffer
          BY <1>c, <3>1, <3>2, <4>2, <4>4, Ranges, FeeAssumption DEF Spent
        <4> QED BY <2>4, <3>1, <4>5
      <3> QED BY <3>3, <3>4
    <2> QED BY <2>1, <2>5, <2>6
  <1>4. CASE Elapse
    <2>1. /\ counter' = counter /\ current' = current /\ previous' = previous
          /\ InFlight' \subseteq InFlight
          /\ \A h \in InFlight : handler'[h].since <= handler[h].since + 1
                                 /\ handler'[h].since \in Int
      <3>1. \A h \in Handlers :
              /\ handler'[h].stage = handler[h].stage
              /\ handler'[h].since \in {handler[h].since, handler[h].since + 1}
        BY <1>4, HandlerUpdates DEF Elapse
      <3> QED BY <1>4, <3>1, Ranges DEF Elapse, slot, InFlight
    <2>2. \A id \in 1..counter :
            quotes'[id].expiresIn = IF Spent(id) THEN -Buffer ELSE quotes[id].expiresIn - 1
      BY <1>4, Elapsed
    <2>3. ASSUME current # NULL, NEW h \in InFlight
          PROVE  \/ quotes'[current].expiresIn = -Buffer
                 \/ quotes'[current].expiresIn + handler'[h].since <= 0
      <3>1. handler[h].since \in Nat
        BY Ranges, FeeAssumption DEF InFlight
      <3> QED BY <1>b, <1>c, <2>1, <2>2, <2>3, <3>1, Ranges, FeeAssumption
    <2>4. ASSUME current # NULL, previous # NULL
          PROVE  \/ quotes'[previous].expiresIn = -Buffer
                 \/ quotes'[previous].expiresIn + TTL <= quotes'[current].expiresIn
      <3>1. CASE Spent(previous)
        BY <1>c, <2>2, <2>4, <3>1
      <3>2. CASE ~Spent(previous)
        <4>1. quotes[previous].expiresIn + TTL <= quotes[current].expiresIn
          BY <1>b, <2>4, <3>2
        <4>2. ~Spent(current)
          BY <1>c, <2>4, <4>1, Ranges, FeeAssumption DEF Spent
        <4> QED BY <1>c, <2>2, <2>4, <3>2, <4>1, <4>2, Ranges, FeeAssumption
      <3> QED BY <3>1, <3>2
    <2> QED BY <1>b, <2>1, <2>2, <2>3, <2>4
  <1>5. CASE UNCHANGED vars
    BY <1>5, <1>b DEF vars, InFlight, Spent
  <1>6. ASSUME NEW h \in Handlers, regenerate(h)
        PROVE current' # NULL /\ previous' = current
    BY <1>6, Regenerated, FeeAssumption
  <1>7. ASSUME UNCHANGED <<quotes, counter, slot>>
        PROVE  /\ current' # NULL /\ previous' # NULL =>
                    \/ quotes'[previous'].expiresIn = -Buffer
                    \/ quotes'[previous'].expiresIn + TTL <= quotes'[current'].expiresIn
               /\ \A id \in 1..counter' :
                    id \notin {current', previous'} => quotes'[id].expiresIn = -Buffer
    BY <1>7, <1>b DEF slot, Spent
  <1>8. ASSUME NEW h \in Handlers, getSchedule(h) \/ refresh(h) \/ gasPriceFails(h)
        PROVE  current' # NULL => \A g \in InFlight' :
                           \/ quotes'[current'].expiresIn = -Buffer
                           \/ quotes'[current'].expiresIn + handler'[g].since <= 0
    BY <1>1, <1>2, <1>8, <1>b DEF slot, Spent
  <1> QED BY <1>1, <1>2, <1>3, <1>4, <1>5, <1>6, <1>7, <1>8 DEF Next

-----------------------------------------------------------------------------
(* The theorems.                                                           *)

Inv == TypeOK /\ Slots /\ OneInFlight /\ Waning /\ Computed /\ Priced

LEMMA InitInv == Init => Inv
  <1> SUFFICES ASSUME Init PROVE Inv
    OBVIOUS
  <1>1. counter = 0 /\ current = NULL /\ previous = NULL /\ lastGood = NULL
        /\ 1..counter = {}
    BY DEF Init
  <1>2. InFlight = {}
    BY DEF Init, InFlight
  <1> QED BY <1>1, <1>2, InitTyped
       DEF Inv, Slots, OneInFlight, Waning, Computed, Priced, PricedByFeed

LEMMA Invariance == Spec => []Inv
  <1>1. Inv /\ [Next]_vars => Inv'
    BY TypedStep, SlotsStep, OneInFlightStep, WaningStep, ComputedStep, PricedStep DEF Inv
  <1> QED BY <1>1, InitInv, PTL DEF Spec

\* Schedules, slot, price source and handlers keep their types; in particular
\* a schedule's life never exceeds its TTL, and its fees are natural numbers.
THEOREM TypeCorrect == Spec => []TypeOK
  <1>1. Inv => TypeOK
    BY DEF Inv
  <1> QED BY <1>1, Invariance, PTL

\* FeeCalculator.resolve honors every schedule it ever handed out until
\* expiresAt + buffer, with two slots only, for any TTL and any buffer up to it,
\* unless two requests regenerated at once.
THEOREM Honored == Spec => []HonoredUntilExpiry
  <1>1. Inv => HonoredUntilExpiry
    <2> SUFFICES ASSUME Inv, ~raced, Buffer <= TTL, NEW id \in 1..counter,
                        quotes[id].expiresIn + Buffer > 0
                 PROVE  id \in {current, previous}
      BY DEF HonoredUntilExpiry, resolve
    <2>1. ~Spent(id)
      BY Ranges, FeeAssumption DEF Inv, Spent
    <2> QED BY <2>1 DEF Inv, Waning
  <1> QED BY <1>1, Invariance, PTL

\* FeeCalculator prices every schedule with a reading ChainlinkPriceSource
\* accepted, or statically before the first of them and never again after.
THEOREM PricedFromFeed == Spec => []PricedByFeed
  <1>1. Inv => PricedByFeed
    BY DEF Inv, Priced
  <1> QED BY <1>1, Invariance, PTL

\* grossUpForShieldFee is exact: for every gas price, ETH price, margin and
\* shield fee rate below 100%, the pool leaves the relayer the net fee or one
\* unit more.
THEOREM ShieldFeesWhole == Spec => []ShieldTiersWhole
  <1>1. Inv => ShieldTiersWhole
    <2> SUFFICES ASSUME Inv, NEW id \in 1..counter, NEW key \in ShieldTiers
                 PROVE  LET net == computeFeeUsdcRaw(GAS_ESTIMATES[key],
                                     quotes[id].gasPrice, quotes[id].price)
                        IN Shielded(quotes[id].fees[key]) \in net..(net + 1)
      BY DEF ShieldTiersWhole
    <2> DEFINE net == computeFeeUsdcRaw(GAS_ESTIMATES[key], quotes[id].gasPrice,
                                        quotes[id].price)
    <2>1. id \in Ids /\ quotes[id].gasPrice \in Nat /\ quotes[id].price \in Nat
      BY Ranges, QuoteUpdates DEF Inv, Quote
    <2>2. key \in Tiers /\ GAS_ESTIMATES[key] \in Nat
      BY FeeAssumption
    <2>3. net \in Nat
      BY <2>1, <2>2, FeeNat
    <2>4. quotes[id].fees[key] = grossUpForShieldFee(net)
      BY <2>2 DEF Inv, Computed, feesAt
    <2> HIDE DEF net
    <2>5. Shielded(quotes[id].fees[key]) \in net..(net + 1)
      BY <2>3, <2>4, Whole
    <2> QED BY <2>5 DEF net
  <1> QED BY <1>1, Invariance, PTL
=============================================================================
