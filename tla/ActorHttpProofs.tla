--------------------------- MODULE ActorHttpProofs ---------------------------
(* Proofs about ActorHttp: the rate limiter, the delivered feed and the     *)
(* health reports, for any deliveries, limits, chains, polling intervals    *)
(* and waits.                                                               *)
EXTENDS ActorHttp, WellFoundedInduction, TLAPS

-----------------------------------------------------------------------------
(* The rate limiter, alone and behind the endpoints: the lazily refilled,  *)
(* swept bucket is exact for every capacity, cost, rate and sweep time.    *)

\* The two invariants of the run are inductive only together: the type bounds
\* what the reference bucket holds, exactness says that the lazy one holds it.
Exact == TypeOK /\ LazyIsExact

\* A full bucket is what a client idle for longer than the sweep time has.
LEMMA LongIdleIsFull ==
  ASSUME NEW n \in Nat, NEW i \in Nat, i >= SweepAfter
  PROVE  Capped(n + i * Rate) = Capacity
<1>1. Rate \in Nat /\ SweepAfter \in Nat /\ Capacity \in Nat /\ SweepAfter * Rate >= Capacity
  BY RateAssumption
<1>2. i * Rate \in Nat /\ i * Rate >= SweepAfter * Rate
  BY <1>1
<1> QED
  BY <1>1, <1>2 DEF Capped

\* One more unit of time adds one Rate, whether it is capped now or later.
LEMMA OneMoreUnit ==
  ASSUME NEW n \in Nat, NEW i \in Nat
  PROVE  Capped(n + (i + 1) * Rate) = Capped(Capped(n + i * Rate) + Rate)
<1>1. Rate \in Nat /\ Capacity \in Nat
  BY RateAssumption
<1>2. i * Rate \in Nat /\ (i + 1) * Rate = i * Rate + Rate
  BY <1>1
<1> QED
  BY <1>1, <1>2 DEF Capped

LEMMA ExactInit ==
  ASSUME Init PROVE Exact
BY RateAssumption DEF Init, Exact, TypeOK, LazyIsExact, Refilled

LEMMA ExactAllowed ==
  ASSUME Exact, NEW c \in Clients, allowed(c) PROVE Exact'
<1>0. Capacity \in Nat /\ Cost \in Nat /\ Rate \in Nat /\ SweepAfter \in Nat /\ NULL \notin Nat
  BY RateAssumption
<1>1. Refilled(c) = ideal[c] /\ ideal[c] \in 0..Capacity /\ ideal[c] >= Cost
  BY DEF Exact, TypeOK, LazyIsExact, allowed
<1>2. ideal[c] - Cost \in 0..Capacity
  BY <1>0, <1>1
<1>3. tokens'[c] = ideal[c] - Cost /\ idle'[c] = 0 /\ ideal'[c] = ideal[c] - Cost
  BY <1>1 DEF Exact, TypeOK, allowed
<1>4. TypeOK'
  BY <1>0, <1>1, <1>2 DEF Exact, TypeOK, allowed
<1>5. ASSUME NEW d \in Clients PROVE Refilled(d)' = ideal'[d]
  <2>1. CASE d = c
    <3>1. tokens'[c] # NULL /\ tokens'[c] + idle'[c] * Rate = tokens'[c]
      BY <1>0, <1>2, <1>3
    <3>2. Capped(tokens'[c]) = tokens'[c]
      BY <1>0, <1>2, <1>3 DEF Capped
    <3> QED
      BY <2>1, <3>1, <3>2, <1>3 DEF Refilled
  <2>2. CASE d # c
    <3>1. tokens'[d] = tokens[d] /\ idle'[d] = idle[d] /\ ideal'[d] = ideal[d]
      BY <2>2 DEF Exact, TypeOK, allowed
    <3> QED
      BY <3>1 DEF Exact, LazyIsExact, Refilled
  <2> QED BY <2>1, <2>2
<1> QED
  BY <1>4, <1>5 DEF Exact, LazyIsExact

LEMMA ExactLimited ==
  ASSUME Exact, NEW c \in Clients, limited(c) PROVE Exact'
<1>0. Capacity \in Nat /\ Rate \in Nat /\ SweepAfter \in Nat /\ NULL \notin Nat
  BY RateAssumption
<1>1. Refilled(c) = ideal[c] /\ ideal[c] \in 0..Capacity
  BY DEF Exact, TypeOK, LazyIsExact
<1>2. tokens'[c] = ideal[c] /\ idle'[c] = 0 /\ ideal'[c] = ideal[c]
  BY <1>1 DEF Exact, TypeOK, limited
<1>3. TypeOK'
  BY <1>0, <1>1 DEF Exact, TypeOK, limited
<1>4. ASSUME NEW d \in Clients PROVE Refilled(d)' = ideal'[d]
  <2>1. CASE d = c
    <3>1. tokens'[c] # NULL /\ tokens'[c] + idle'[c] * Rate = tokens'[c]
      BY <1>0, <1>1, <1>2
    <3>2. Capped(tokens'[c]) = tokens'[c]
      BY <1>0, <1>1, <1>2 DEF Capped
    <3> QED
      BY <2>1, <3>1, <3>2, <1>2 DEF Refilled
  <2>2. CASE d # c
    <3>1. tokens'[d] = tokens[d] /\ idle'[d] = idle[d] /\ ideal'[d] = ideal[d]
      BY <2>2 DEF Exact, TypeOK, limited
    <3> QED
      BY <3>1 DEF Exact, LazyIsExact, Refilled
  <2> QED BY <2>1, <2>2
<1> QED
  BY <1>3, <1>4 DEF Exact, LazyIsExact

LEMMA ExactSweep ==
  ASSUME Exact, sweep PROVE Exact'
<1>0. Capacity \in Nat /\ SweepAfter \in Nat
  BY RateAssumption
<1>1. TypeOK'
  BY DEF Exact, TypeOK, sweep
<1>2. ASSUME NEW d \in Clients PROVE Refilled(d)' = ideal'[d]
  <2>0. /\ idle[d] \in Nat /\ ideal' = ideal /\ idle' = idle /\ Refilled(d) = ideal[d]
        /\ tokens[d] \in Nat \union {NULL}
        /\ tokens'[d] = IF idle[d] > SweepAfter THEN NULL ELSE tokens[d]
    BY <1>0, <1>2 DEF Exact, TypeOK, LazyIsExact, sweep
  <2>1. CASE idle[d] > SweepAfter /\ tokens[d] # NULL
    <3>1. Capped(tokens[d] + idle[d] * Rate) = Capacity
      BY <1>0, <2>0, <2>1, LongIdleIsFull
    <3>2. ideal[d] = Capacity
      BY <2>0, <2>1, <3>1 DEF Refilled
    <3> QED
      BY <2>0, <2>1, <3>2 DEF Refilled
  <2>2. CASE idle[d] > SweepAfter /\ tokens[d] = NULL
    BY <2>0, <2>2 DEF Refilled
  <2>3. CASE ~(idle[d] > SweepAfter)
    BY <2>0, <2>3 DEF Refilled
  <2> QED BY <2>1, <2>2, <2>3
<1> QED
  BY <1>1, <1>2 DEF Exact, LazyIsExact

LEMMA ExactElapse ==
  ASSUME Exact, Elapse PROVE Exact'
<1>0. Capacity \in Nat /\ SweepAfter \in Nat /\ Rate \in Nat
  BY RateAssumption
<1>1. TypeOK'
  <2>1. \A c \in Clients : Capped(ideal[c] + Rate) \in 0..Capacity
    BY <1>0 DEF Exact, TypeOK, Capped
  <2> QED
    BY <1>0, <2>1 DEF Exact, TypeOK, Elapse
<1>2. ASSUME NEW d \in Clients PROVE Refilled(d)' = ideal'[d]
  <2>0. /\ idle[d] \in Nat /\ tokens' = tokens /\ Refilled(d) = ideal[d]
        /\ tokens[d] \in Nat \union {NULL} /\ ideal[d] \in 0..Capacity
        /\ ideal'[d] = Capped(ideal[d] + Rate)
        /\ idle'[d] = IF idle[d] > SweepAfter THEN idle[d] ELSE idle[d] + 1
    BY <1>0, <1>2 DEF Exact, TypeOK, LazyIsExact, Elapse
  <2>1. CASE tokens[d] = NULL
    <3>1. ideal[d] = Capacity /\ Capped(Capacity + Rate) = Capacity
      BY <1>0, <2>0, <2>1 DEF Refilled, Capped
    <3> QED
      BY <2>0, <2>1, <3>1 DEF Refilled
  <2>2. CASE tokens[d] # NULL /\ idle[d] > SweepAfter
    <3>0. tokens[d] \in Nat /\ idle[d] \in Nat /\ idle[d] >= SweepAfter
      BY <1>0, <2>0, <2>2
    <3>1. Capped(tokens[d] + idle[d] * Rate) = Capacity
      BY <3>0, LongIdleIsFull
    <3>2. ideal[d] = Capacity /\ Capped(Capacity + Rate) = Capacity
      BY <1>0, <2>0, <2>2, <3>1 DEF Refilled, Capped
    <3> QED
      BY <2>0, <2>2, <3>1, <3>2 DEF Refilled
  <2>3. CASE tokens[d] # NULL /\ ~(idle[d] > SweepAfter)
    <3>1. ideal[d] = Capped(tokens[d] + idle[d] * Rate)
      BY <2>0, <2>3 DEF Refilled
    <3>2. Capped(tokens[d] + (idle[d] + 1) * Rate) = Capped(ideal[d] + Rate)
      BY <2>0, <2>3, <3>1, OneMoreUnit
    <3> QED
      BY <2>0, <2>3, <3>2 DEF Refilled
  <2> QED BY <2>1, <2>2, <2>3
<1> QED
  BY <1>1, <1>2 DEF Exact, LazyIsExact

\* TokenBucketLimiter grants exactly what a bucket refilled at every instant
\* would, whenever requests, sweeps and time fall.
THEOREM LimiterIsExact == Spec => []LazyIsExact
<1>1. Init => Exact
  BY ExactInit
<1>2. Exact /\ [Next]_vars => Exact'
  <2> SUFFICES ASSUME Exact, [Next]_vars PROVE Exact'
    OBVIOUS
  <2>1. CASE \E c \in Clients : allowed(c) \/ limited(c)
    BY <2>1, ExactAllowed, ExactLimited
  <2>2. CASE sweep
    BY <2>2, ExactSweep
  <2>3. CASE Elapse
    BY <2>3, ExactElapse
  <2>4. CASE UNCHANGED vars
    BY <2>4 DEF vars, Exact, TypeOK, LazyIsExact, Refilled
  <2> QED
    BY <2>1, <2>2, <2>3, <2>4 DEF Next
<1>3. Exact => LazyIsExact
  BY DEF Exact
<1> QED
  BY <1>1, <1>2, <1>3, PTL DEF Spec

\* Behind createApp the limiter of a client is what LimiterIsExact says of it
\* alone: a denied poll, a sweep and the passing of time lose it no token.
THEOREM LimiterStaysExact == HttpSpec => []LazyIsExact
  <1>1. HttpInit => Exact
    BY ExactInit DEF HttpInit
  <1>2. Exact /\ [HttpNext]_httpVars => Exact'
    <2> SUFFICES ASSUME Exact, [HttpNext]_httpVars PROVE Exact'
      OBVIOUS
    <2>1. CASE UNCHANGED bucket
      BY <2>1 DEF bucket, Exact, TypeOK, LazyIsExact, Refilled
    <2>2. CASE getDelivered \/ tooManyRequests
      BY <2>2, ExactAllowed, ExactLimited, HttpAssumption DEF getDelivered, tooManyRequests
    <2>3. CASE sweepBuckets
      BY <2>3, ExactSweep DEF sweepBuckets
    <2>4. CASE Pass
      BY <2>1, <2>4, ExactElapse DEF Pass
    <2> QED BY <2>1, <2>2, <2>3, <2>4 DEF HttpNext, httpVars, deliver, watcherProgress,
         chainHealth, watcherHealth, healthFails, Rebuild, Index
  <1>3. Exact => LazyIsExact
    BY DEF Exact
  <1> QED BY <1>1, <1>2, <1>3, PTL DEF HttpSpec

-----------------------------------------------------------------------------
(* The delivered feed.                                                     *)

FeedTyped ==
  /\ now \in Nat \ {0} /\ since \in Nat /\ got \subseteq Messages
  /\ deliveredAt \in [Messages -> Nat \union {NULL}]
  /\ stamped # NULL => stamped \in [msg : Messages, time : Nat]

\* A delivery gets the time of the clock, and nothing later is written before
\* it: the cursor, which is the time of a record handed out, is no further.
Stamps ==
  /\ \A m \in Messages : deliveredAt[m] # NULL => deliveredAt[m] \in 1..now
  /\ stamped # NULL =>
       /\ stamped.time \in 1..now /\ deliveredAt[stamped.msg] = NULL
       /\ \A m \in Messages : deliveredAt[m] # NULL => deliveredAt[m] <= stamped.time

Cursor ==
  /\ \A m \in got : deliveredAt[m] # NULL
  /\ since # 0 => \E m \in got : deliveredAt[m] = since

Passed ==
  \A m \in Messages :
    deliveredAt[m] # NULL /\ deliveredAt[m] <= since /\ m \notin got => D!Tied(m)

Fed == FeedTyped /\ Stamps /\ Cursor /\ Passed

LEMMA FedIsComplete == Fed => NothingSkipped
  <1> SUFFICES ASSUME Fed, stamped # NULL, stamped.time <= since
               PROVE  \E k \in got : deliveredAt[k] = stamped.time
    BY DEF Fed, Passed, NothingSkipped, D!NothingSkipped
  <1>1. stamped.time \in Nat \ {0} /\ since \in Nat
    BY DEF Fed, FeedTyped, Stamps
  <1>2. PICK k \in got : deliveredAt[k] = since
    BY <1>1 DEF Fed, Cursor
  <1>3. deliveredAt[k] <= stamped.time
    BY <1>2 DEF Fed, Stamps, FeedTyped, Cursor
  <1> QED BY <1>1, <1>2, <1>3

\* A non-empty set of times up to n has a last one.
LEMMA LastTime ==
  ASSUME NEW n \in Nat, NEW S \in SUBSET (0..n), S # {}
  PROVE  \E t \in S : \A u \in S : u <= t
  <1> DEFINE Earlier == {ss \in Nat \X Nat : ss[1] < ss[2]}
             R == {n - t : t \in S}
  <1>1. IsWellFoundedOn(Earlier, Nat)
    BY NatLessThanWellFounded DEF OpToRel
  <1>2. R \subseteq Nat /\ R # {}
    <2>1. PICK t \in S : TRUE
      OBVIOUS
    <2>2. n - t \in R
      OBVIOUS
    <2> QED BY <2>2
  <1>3. PICK r \in R : \A q \in R : <<q, r>> \notin Earlier
    <2> HIDE DEF Earlier, R
    <2> QED BY <1>1, <1>2, WFMin
  <1>4. PICK t \in S : r = n - t
    OBVIOUS
  <1>5. ASSUME NEW u \in S PROVE u <= t
    <2>1. <<n - u, n - t>> \notin Earlier
      BY <1>3, <1>4
    <2> QED BY <2>1
  <1> QED BY <1>5

\* A poll, whatever it asks for, moves the cursor to the last record it gets:
\* what it passes was handed out, or is of the same millisecond.
LEMMA FedPoll ==
  ASSUME Fed, NEW n, D!poll(n)
  PROVE  Fed'
  <1>1. PICK T \in D!delivered(since, D!limitOf(n)) :
          /\ got' = got \union T
          /\ since' = IF T = {} THEN since
                      ELSE CHOOSE t \in {deliveredAt[m] : m \in T} :
                             \A m \in T : deliveredAt[m] <= t
    BY DEF D!poll
  <1>2. UNCHANGED <<now, deliveredAt, stamped>>
    BY DEF D!poll
  <1>3. /\ T \subseteq D!After(since)
        /\ \A x \in T, y \in D!After(since) \ T : deliveredAt[x] <= deliveredAt[y]
    BY DEF D!delivered
  <1>4. /\ now \in Nat /\ since \in Nat /\ got \subseteq Messages
        /\ \A m \in Messages : deliveredAt[m] # NULL => deliveredAt[m] \in 1..now
    BY DEF Fed, FeedTyped, Stamps
  <1>5. \A m \in T : m \in Messages /\ deliveredAt[m] # NULL /\ deliveredAt[m] > since
    BY <1>3 DEF D!After
  <1>6. CASE T = {}
    BY <1>1, <1>2, <1>6 DEF Fed, FeedTyped, Stamps, Cursor, Passed, D!Tied
  <1>7. CASE T # {}
    <2> DEFINE S == {deliveredAt[m] : m \in T}
    <2>1. S \in SUBSET (0..now) /\ S # {}
      BY <1>4, <1>5, <1>7
    <2>2. \E t \in S : \A u \in S : u <= t
      BY <1>4, <2>1, LastTime
    <2>3. \E t \in S : \A m \in T : deliveredAt[m] <= t
      BY <2>2
    <2>4. since' \in S /\ \A m \in T : deliveredAt[m] <= since'
      BY <1>1, <1>7, <2>3
    <2>5. PICK k \in T : deliveredAt[k] = since'
      BY <2>4
    <2>6. since' \in Nat /\ since' > since /\ k \in got'
      BY <1>1, <1>4, <1>5, <2>5
    <2>7. FeedTyped' /\ Stamps'
      BY <1>1, <1>2, <1>5, <2>6 DEF Fed, FeedTyped, Stamps
    <2>8. Cursor'
      BY <1>1, <1>2, <1>5, <2>5, <2>6 DEF Fed, Cursor
    <2>9. Passed'
      <3> SUFFICES ASSUME NEW m \in Messages, deliveredAt[m] # NULL,
                          deliveredAt[m] <= since', m \notin got'
                   PROVE  \E j \in got' : deliveredAt[j] = deliveredAt[m]
        BY <1>2 DEF Passed, D!Tied
      <3>1. deliveredAt[m] \in Nat
        BY <1>4
      <3>2. CASE deliveredAt[m] <= since
        BY <1>1, <3>2 DEF Fed, Passed, D!Tied
      <3>3. CASE ~(deliveredAt[m] <= since)
        <4>1. m \in D!After(since) \ T
          BY <1>1, <1>4, <3>1, <3>3 DEF D!After
        <4>2. since' <= deliveredAt[m]
          BY <1>3, <2>5, <4>1
        <4>3. deliveredAt[m] = since'
          BY <2>6, <3>1, <4>2
        <4> QED BY <2>5, <2>6, <4>3
      <3> QED BY <3>2, <3>3
    <2> QED BY <2>7, <2>8, <2>9 DEF Fed
  <1> QED BY <1>6, <1>7

LEMMA FedStamp ==
  ASSUME Fed, NEW m \in Messages, D!stampDelivered(m)
  PROVE  Fed'
  <1>1. /\ stamped' = [msg |-> m, time |-> now] /\ deliveredAt[m] = NULL
        /\ UNCHANGED <<now, deliveredAt, since, got>>
    BY DEF D!stampDelivered, D!Pending
  <1>2. stamped'.msg = m /\ stamped'.time = now
    BY <1>1
  <1>3. FeedTyped'
    BY <1>1 DEF Fed, FeedTyped
  <1>4. Stamps'
    BY <1>1, <1>2 DEF Fed, FeedTyped, Stamps
  <1> QED BY <1>1, <1>3, <1>4 DEF Fed, Cursor, Passed, D!Tied

LEMMA FedRecord ==
  ASSUME Fed, D!recordDelivered
  PROVE  Fed'
  <1> DEFINE s == stamped.msg
  <1>1. /\ stamped # NULL /\ stamped' = NULL
        /\ deliveredAt' = [deliveredAt EXCEPT ![s] = stamped.time]
        /\ UNCHANGED <<now, since, got>>
    BY DEF D!recordDelivered
  <1>2. /\ s \in Messages /\ stamped.time \in 1..now /\ deliveredAt[s] = NULL
        /\ now \in Nat /\ since \in Nat /\ stamped.time \in Nat
    BY <1>1 DEF Fed, FeedTyped, Stamps
  <1>3. /\ deliveredAt'[s] = stamped.time
        /\ \A m \in Messages : m # s => deliveredAt'[m] = deliveredAt[m]
    BY <1>1, <1>2 DEF Fed, FeedTyped
  <1>4. s \notin got /\ stamped.time # NULL
    BY <1>2, HttpAssumption DEF Fed, Cursor, D!DeliveredAssumption
  <1>5. FeedTyped'
    BY <1>1, <1>2 DEF Fed, FeedTyped
  <1>6. Stamps'
    BY <1>1, <1>2, <1>3 DEF Fed, Stamps
  <1>7. \A m \in got : m \in Messages /\ deliveredAt'[m] = deliveredAt[m]
    BY <1>3, <1>4 DEF Fed, FeedTyped
  <1>8. Cursor'
    BY <1>1, <1>7 DEF Fed, Cursor
  <1>9. Passed'
    <2>1. NothingSkipped
      BY FedIsComplete
    <2>2. stamped.time <= since => \E k \in got : deliveredAt[k] = stamped.time
      BY <1>1, <2>1 DEF NothingSkipped, D!NothingSkipped
    <2> SUFFICES ASSUME NEW m \in Messages, deliveredAt'[m] # NULL,
                        deliveredAt'[m] <= since, m \notin got
                 PROVE  \E k \in got : deliveredAt'[k] = deliveredAt'[m]
      BY <1>1 DEF Passed, D!Tied
    <2>3. CASE m = s
      BY <1>3, <1>7, <2>2, <2>3
    <2>4. CASE m # s
      BY <1>3, <1>7, <2>4 DEF Fed, Passed, D!Tied
    <2> QED BY <2>3, <2>4
  <1> QED BY <1>5, <1>6, <1>8, <1>9 DEF Fed

LEMMA FedElapse ==
  ASSUME Fed, D!Elapse
  PROVE  Fed'
  <1>1. /\ now \in Nat \ {0} /\ now' \in Nat /\ now' >= now
        /\ UNCHANGED <<deliveredAt, stamped, since, got>>
    BY DEF D!Elapse, Fed, FeedTyped
  <1> QED BY <1>1 DEF Fed, FeedTyped, Stamps, Cursor, Passed, D!Tied

\* The cursor of /cctp/delivered passes no delivery it did not hand out, but
\* for the millisecond it stopped in - for any limit, number of deliveries and
\* interleaving of stamping, writing and polling.
THEOREM FeedSkipsNothing == HttpSpec => []NothingSkipped
  <1>1. HttpInit => Fed
    BY DEF HttpInit, D!Init, Fed, FeedTyped, Stamps, Cursor, Passed
  <1>2. Fed /\ [HttpNext]_httpVars => Fed'
    <2> SUFFICES ASSUME Fed, [HttpNext]_httpVars PROVE Fed'
      OBVIOUS
    <2>1. CASE UNCHANGED feed
      BY <2>1 DEF feed, Fed, FeedTyped, Stamps, Cursor, Passed, D!Tied
    <2>2. CASE getDelivered
      BY <2>2, FedPoll DEF getDelivered
    <2>3. CASE deliver
      BY <2>3, FedStamp, FedRecord DEF deliver
    <2>4. CASE Pass
      BY <2>1, <2>4, FedElapse DEF Pass
    <2> QED BY <2>1, <2>2, <2>3, <2>4 DEF HttpNext, httpVars, tooManyRequests, sweepBuckets,
         watcherProgress, chainHealth, watcherHealth, healthFails, Rebuild, Index
  <1> QED BY <1>1, <1>2, FedIsComplete, PTL DEF HttpSpec
-----------------------------------------------------------------------------
(* The health reports.                                                     *)

Age == 0..MaxAge \union {NULL}

\* report.seen, while the handler waits, and what it says of the index: unless
\* that was dropped, a chain it saw is indexed, and no longer ago than the row
\* that was read, by now, or by the clock that was read with it.
Waiting ==
  /\ report \in [stage : {"awaited"}, seen : [Chains -> Age], wait : Nat, rebuilt : BOOLEAN]
  /\ ~report.rebuilt =>
       \A c \in Chains : report.seen[c] # NULL =>
         /\ age[c] # NULL
         /\ age[c] <= report.seen[c] + IF ClockRead THEN report.wait ELSE 0

Replied ==
  /\ report \in [stage : {"answered"}, code : {200, 503}, late : Nat, rebuilt : BOOLEAN]
  /\ HealthSound

Reported == age \in [Chains -> Age] /\ (report = Idle \/ Waiting \/ Replied)

LEMMA AgeBounds ==
  /\ NULL \notin Nat /\ Poll \in Nat /\ BlockTime \in Nat \ {0} /\ MaxLag \in Nat
  /\ MaxAge \in Nat /\ \A a \in Age : a # NULL => a \in Nat
  BY HttpAssumption, RateAssumption DEF MaxAge, Age

\* Time makes ages grow alike.
LEMMA OlderAge ==
  ASSUME NEW a \in Age
  PROVE  /\ Older(a) \in Age /\ (Older(a) = NULL <=> a = NULL)
         /\ a # NULL => a <= Older(a) /\ Older(a) <= a + 1
         /\ a # NULL => \A b \in Age : b # NULL /\ a <= b => Older(a) <= Older(b)
  BY AgeBounds DEF Older, Age

\* The worst status wins.
LEMMA WorstWins ==
  ASSUME NEW S \in SUBSET (DOMAIN SEVERITY), rollup(S) \in {"healthy", "degraded"}
  PROVE  S \subseteq {"healthy", "degraded"}
  <1> DEFINE all == S \union {"healthy"}
             worst(s) == \A t \in all : SEVERITY[t] <= SEVERITY[s]
  <1>1. /\ DOMAIN SEVERITY = {"healthy", "degraded", "stale", "unhealthy"}
        /\ SEVERITY["healthy"] = 0 /\ SEVERITY["degraded"] = 1
        /\ SEVERITY["stale"] = 2 /\ SEVERITY["unhealthy"] = 3
    BY DEF SEVERITY
  <1>2. \E s \in all : worst(s)
    <2>1. CASE "unhealthy" \in S
      BY <1>1, <2>1
    <2>2. CASE "unhealthy" \notin S /\ "stale" \in S
      BY <1>1, <2>2
    <2>3. CASE "unhealthy" \notin S /\ "stale" \notin S /\ "degraded" \in S
      BY <1>1, <2>3
    <2>4. CASE "unhealthy" \notin S /\ "stale" \notin S /\ "degraded" \notin S
      BY <1>1, <2>4
    <2> QED BY <2>1, <2>2, <2>3, <2>4
  <1>3. rollup(S) \in all /\ worst(rollup(S))
    BY <1>2 DEF rollup
  <1>4. SEVERITY[rollup(S)] <= 1
    BY <1>1
  <1> QED BY <1>1, <1>3, <1>4

\* A chain that neither endpoint calls stale was seen within three intervals.
LEMMA FreshChain ==
  ASSUME NEW a \in Age
  PROVE  /\ classifyChain(a) \in DOMAIN SEVERITY
         /\ classifyChain(a) \in {"healthy", "degraded"} => a # NULL /\ a <= 3 * Poll
         /\ classifyFreshness(a) \subseteq DOMAIN SEVERITY
         /\ classifyFreshness(a) \intersect {"healthy", "degraded"} # {} =>
              a # NULL /\ a <= 3 * Poll
  <1>1. DOMAIN SEVERITY = {"healthy", "degraded", "stale", "unhealthy"}
    BY DEF SEVERITY
  <1>2. a # NULL => a \in Nat
    BY AgeBounds
  <1>3. CASE a = NULL \/ a > 10 * Poll
    BY <1>1, <1>3 DEF classifyChain, classifyFreshness
  <1>4. CASE ~(a = NULL \/ a > 10 * Poll) /\ a > 3 * Poll
    BY <1>1, <1>4 DEF classifyChain, classifyFreshness
  <1>5. CASE ~(a = NULL \/ a > 10 * Poll) /\ ~(a > 3 * Poll)
    <2>1. a # NULL /\ a <= 3 * Poll
      BY <1>2, <1>5, AgeBounds
    <2>2. classifyChain(a) \in {"healthy", "degraded"}
      BY <1>5 DEF classifyChain
    <2>3. classifyFreshness(a) = {"healthy", "degraded"}
      BY <1>5 DEF classifyFreshness
    <2> QED BY <1>1, <2>1, <2>2, <2>3
  <1> QED BY <1>3, <1>4, <1>5

\* An answer with the rollup of what was seen is a sound one.
LEMMA AnswerIsSound ==
  ASSUME Waiting, age \in [Chains -> Age], UNCHANGED <<endpoint, age>>, NEW status,
         report' = Answered(status),
         status \in {"healthy", "degraded"} =>
           \A c \in Chains : report.seen[c] # NULL /\ report.seen[c] <= 3 * Poll
  PROVE  Replied'
  <1> DEFINE late == IF ClockRead THEN report.wait ELSE 0
  <1>1. /\ report.wait \in Nat /\ report.rebuilt \in BOOLEAN
        /\ report.seen \in [Chains -> Age]
    BY DEF Waiting
  <1>2. late \in Nat
    BY <1>1
  <1>3. report' = [stage |-> "answered", code |-> healthHttpStatus(status),
                   late |-> late, rebuilt |-> report.rebuilt]
    BY DEF Answered
  <1>4. /\ report'.stage = "answered" /\ report'.code = healthHttpStatus(status)
        /\ report'.late = late /\ report'.rebuilt = report.rebuilt
    BY <1>3
  <1>5. report' \in [stage : {"answered"}, code : {200, 503}, late : Nat, rebuilt : BOOLEAN]
    BY <1>1, <1>2, <1>3 DEF healthHttpStatus
  <1>6. HealthSound'
    <2> SUFFICES ASSUME report'.code = 200, ~report.rebuilt, NEW c \in Chains
                 PROVE  age[c] # NULL /\ age[c] <= 3 * Poll + late
      BY <1>4 DEF HealthSound
    <2>1. report.seen[c] # NULL /\ report.seen[c] <= 3 * Poll
      BY <1>4 DEF healthHttpStatus
    <2>2. age[c] # NULL /\ age[c] <= report.seen[c] + late
      BY <2>1 DEF Waiting
    <2>3. age[c] \in Nat /\ report.seen[c] \in Nat /\ Poll \in Nat
      BY <1>1, <2>1, <2>2, AgeBounds
    <2> HIDE DEF late
    <2> QED BY <1>2, <2>1, <2>2, <2>3
  <1> QED BY <1>5, <1>6 DEF Replied

LEMMA ReportedStep == Reported /\ [HttpNext]_httpVars => Reported'
  <1> SUFFICES ASSUME Reported, [HttpNext]_httpVars PROVE Reported'
    OBVIOUS
  <1>1. CASE UNCHANGED <<endpoint, health>>
    BY <1>1 DEF health, Reported, Waiting, Replied, HealthSound, ClockRead, Idle
  <1>w. report.stage = "awaited" => Waiting
    BY DEF Reported, Replied, Idle
  <1>2. CASE watcherProgress
    <2>1. /\ report' = [stage |-> "awaited", seen |-> age, wait |-> 0, rebuilt |-> FALSE]
          /\ UNCHANGED <<endpoint, age>>
      BY <1>2 DEF watcherProgress
    <2>2. report'.seen = age /\ report'.wait = 0
      BY <2>1
    <2>3. \A c \in Chains : age[c] # NULL => age[c] <= age[c] + 0
      BY AgeBounds DEF Reported
    <2>4. report' \in [stage : {"awaited"}, seen : [Chains -> Age], wait : Nat,
                       rebuilt : BOOLEAN]
      BY <2>1 DEF Reported
    <2> QED BY <2>1, <2>2, <2>3, <2>4 DEF Reported, Waiting
  <1>3. CASE chainHealth
    <2> DEFINE S == {classifyChain(report.seen[c]) : c \in Chains}
    <2>1. Waiting /\ report' = Answered(rollup(S)) /\ UNCHANGED <<endpoint, age>>
      BY <1>3, <1>w DEF chainHealth
    <2>2. \A c \in Chains : report.seen[c] \in Age
      BY <2>1 DEF Waiting
    <2>3. S \in SUBSET (DOMAIN SEVERITY)
      BY <2>2, FreshChain
    <2>4. rollup(S) \in {"healthy", "degraded"} => S \subseteq {"healthy", "degraded"}
      <3> HIDE DEF S
      <3> QED BY <2>3, WorstWins
    <2>5. rollup(S) \in {"healthy", "degraded"} =>
            \A c \in Chains : report.seen[c] # NULL /\ report.seen[c] <= 3 * Poll
      BY <2>2, <2>4, FreshChain
    <2> HIDE DEF S
    <2>6. Replied'
      BY <2>1, <2>5, AnswerIsSound DEF Reported
    <2> QED BY <2>1, <2>6 DEF Reported
  <1>4. CASE watcherHealth
    <2>1. PICK status \in [Chains -> DOMAIN SEVERITY] :
            /\ \A c \in Chains : status[c] \in classifyFreshness(report.seen[c])
            /\ report' = Answered(rollup({status[c] : c \in Chains}))
      BY <1>4 DEF watcherHealth
    <2> DEFINE S == {status[c] : c \in Chains}
    <2>2. Waiting /\ UNCHANGED <<endpoint, age>>
      BY <1>4, <1>w DEF watcherHealth
    <2>3. \A c \in Chains : report.seen[c] \in Age
      BY <2>2 DEF Waiting
    <2>4. S \in SUBSET (DOMAIN SEVERITY)
      OBVIOUS
    <2>5. rollup(S) \in {"healthy", "degraded"} => S \subseteq {"healthy", "degraded"}
      <3> HIDE DEF S
      <3> QED BY <2>4, WorstWins
    <2>6. rollup(S) \in {"healthy", "degraded"} =>
            \A c \in Chains : report.seen[c] # NULL /\ report.seen[c] <= 3 * Poll
      BY <2>1, <2>3, <2>5, FreshChain
    <2>7. report' = Answered(rollup(S))
      BY <2>1
    <2> HIDE DEF S
    <2>8. Replied'
      BY <2>2, <2>6, <2>7, AnswerIsSound DEF Reported
    <2> QED BY <2>2, <2>8 DEF Reported
  <1>5. CASE healthFails
    <2>1. Waiting /\ report' = Answered("unhealthy") /\ UNCHANGED <<endpoint, age>>
      BY <1>5, <1>w DEF healthFails
    <2>2. Replied'
      BY <2>1, AnswerIsSound DEF Reported
    <2> QED BY <2>1, <2>2 DEF Reported
  <1>6. ASSUME NEW c \in Chains, Index(c)
        PROVE  Reported'
    <2>1. PICK a \in 0..(IF age[c] = NULL THEN MaxAge ELSE age[c]) :
            age' = [age EXCEPT ![c] = a]
      BY <1>6 DEF Index
    <2>2. UNCHANGED <<endpoint, report>>
      BY <1>6 DEF Index
    <2>3. age[c] \in Age
      BY DEF Reported
    <2>4. a \in Age /\ a # NULL /\ (age[c] # NULL => a <= age[c] /\ age[c] \in Nat)
      BY <2>3, AgeBounds DEF Age
    <2>5. age' \in [Chains -> Age] /\ age'[c] = a /\ \A k \in Chains : k # c => age'[k] = age[k]
      BY <2>1, <2>4 DEF Reported
    <2>6. CASE Waiting
      <3>1. \A k \in Chains : report.seen[k] # NULL => report.seen[k] \in Nat
        BY <2>6, AgeBounds DEF Waiting
      <3>2. report.wait \in Nat
        BY <2>6 DEF Waiting
      <3>3. Waiting'
        BY <2>2, <2>4, <2>5, <2>6, <3>1, <3>2 DEF Waiting, ClockRead
      <3> QED BY <2>5, <3>3 DEF Reported
    <2>7. CASE Replied
      <3>1. report.late \in Nat /\ Poll \in Nat
        BY <2>7, AgeBounds DEF Replied
      <3>2. a \in Nat
        BY <2>4, AgeBounds
      <3>3. Replied'
        BY <2>2, <2>4, <2>5, <2>7, <3>1, <3>2 DEF Replied, HealthSound
      <3> QED BY <2>5, <3>3 DEF Reported
    <2> QED BY <2>2, <2>5, <2>6, <2>7 DEF Reported, Idle
  <1>7. CASE Rebuild
    <2>1. age' \in [Chains -> Age] /\ UNCHANGED endpoint
      BY <1>7 DEF Rebuild, Age
    <2>2. CASE report.stage = "awaited"
      <3>1. report \in [stage : {"awaited"}, seen : [Chains -> Age], wait : Nat,
                        rebuilt : BOOLEAN]
        BY <1>w, <2>2 DEF Waiting
      <3>2. report' = [report EXCEPT !.rebuilt = TRUE]
        BY <1>7, <2>2 DEF Rebuild
      <3>3. /\ report' \in [stage : {"awaited"}, seen : [Chains -> Age], wait : Nat,
                           rebuilt : BOOLEAN]
            /\ report'.rebuilt = TRUE
        BY <3>1, <3>2
      <3> QED BY <2>1, <3>3 DEF Reported, Waiting
    <2>3. CASE report.stage # "awaited"
      BY <1>7, <2>1, <2>3 DEF Rebuild, Reported, Idle
    <2> QED BY <2>2, <2>3
  <1>8. CASE /\ endpoint # "/cctp/delivered" /\ UNCHANGED endpoint
             /\ age' = [c \in Chains |-> Older(age[c])]
             /\ \/ /\ report.stage = "awaited"
                   /\ report' = [report EXCEPT
                        !.wait = @ + 1,
                        !.seen = IF ClockRead THEN @ ELSE [c \in Chains |-> Older(@[c])]]
                \/ report.stage # "awaited" /\ report' = Idle
    <2>1. \A c \in Chains : age[c] \in Age /\ age'[c] = Older(age[c])
      BY <1>8 DEF Reported
    <2>2. age' \in [Chains -> Age]
      BY <1>8, <2>1, OlderAge
    <2>3. CASE report.stage = "awaited"
      <3> DEFINE seen2 == IF ClockRead THEN report.seen
                          ELSE [c \in Chains |-> Older(report.seen[c])]
      <3>1. report \in [stage : {"awaited"}, seen : [Chains -> Age], wait : Nat,
                        rebuilt : BOOLEAN]
        BY <1>w, <2>3 DEF Waiting
      <3>2. report' = [report EXCEPT !.wait = report.wait + 1, !.seen = seen2]
        BY <1>8, <2>3
      <3>3. seen2 \in [Chains -> Age]
        BY <3>1, OlderAge
      <3>4. \A c \in Chains : seen2[c] =
              IF ClockRead THEN report.seen[c] ELSE Older(report.seen[c])
        OBVIOUS
      <3> HIDE DEF seen2
      <3>5. /\ report' \in [stage : {"awaited"}, seen : [Chains -> Age], wait : Nat,
                           rebuilt : BOOLEAN]
            /\ report'.wait = report.wait + 1 /\ report'.seen = seen2
            /\ report'.rebuilt = report.rebuilt
        <4>1. report' = [stage |-> "awaited", seen |-> seen2, wait |-> report.wait + 1,
                         rebuilt |-> report.rebuilt]
          BY <3>1, <3>2
        <4>2. report.wait + 1 \in Nat /\ report.rebuilt \in BOOLEAN
          BY <3>1
        <4> QED BY <3>3, <4>1, <4>2
      <3>6. ASSUME ~report.rebuilt, NEW c \in Chains, seen2[c] # NULL
            PROVE  /\ age'[c] # NULL
                   /\ age'[c] <= seen2[c] + IF ClockRead THEN report.wait + 1 ELSE 0
        <4>1. report.seen[c] \in Age /\ report.seen[c] # NULL /\ report.wait \in Nat
          BY <3>1, <3>4, <3>6, OlderAge
        <4>2. /\ age[c] # NULL
              /\ age[c] <= report.seen[c] + IF ClockRead THEN report.wait ELSE 0
          BY <1>w, <2>3, <3>6, <4>1 DEF Waiting
        <4>3. /\ age[c] \in Nat /\ report.seen[c] \in Nat /\ age'[c] \in Nat
              /\ age'[c] # NULL /\ age'[c] <= age[c] + 1
          BY <2>1, <2>2, <4>1, <4>2, OlderAge, AgeBounds
        <4>4. CASE ClockRead
          BY <3>4, <4>1, <4>2, <4>3, <4>4
        <4>5. CASE ~ClockRead
          <5>1. age[c] <= report.seen[c]
            BY <4>2, <4>3, <4>5
          <5>2. Older(age[c]) <= Older(report.seen[c])
            BY <2>1, <4>1, <4>2, <5>1, OlderAge
          <5>3. Older(report.seen[c]) \in Nat
            BY <4>1, OlderAge, AgeBounds
          <5> QED BY <2>1, <3>4, <4>3, <4>5, <5>2, <5>3
        <4> QED BY <4>4, <4>5
      <3>7. ClockRead' = ClockRead
        BY <1>8 DEF ClockRead
      <3>8. Waiting'
        BY <3>5, <3>6, <3>7 DEF Waiting
      <3> QED BY <2>2, <3>8 DEF Reported
    <2>4. CASE report.stage # "awaited"
      BY <1>8, <2>2, <2>4 DEF Reported, Idle
    <2> QED BY <2>3, <2>4
  <1>9. CASE Pass
    BY <1>1, <1>8, <1>9 DEF Pass
  <1> QED BY <1>1, <1>2, <1>3, <1>4, <1>5, <1>6, <1>7, <1>9 DEF HttpNext, httpVars,
       getDelivered, tooManyRequests, sweepBuckets, deliver, health

\* When /health answers 200 every chain was indexed within three polling
\* intervals, and for /v1/health within those and the time its handler awaited
\* the heads, however the watcher indexes and falls behind meanwhile.
THEOREM HealthIsSound == HttpSpec => []HealthSound
  <1>1. HttpInit => Reported
    BY DEF HttpInit, Reported, Age
  <1>2. Reported => HealthSound
    BY DEF Reported, Waiting, Replied, HealthSound, Idle
  <1> QED BY <1>1, <1>2, ReportedStep, PTL DEF HttpSpec
=============================================================================
