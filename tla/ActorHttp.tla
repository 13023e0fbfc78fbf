------------------------------ MODULE ActorHttp ------------------------------
(***************************************************************************)
(* Two endpoints of the actor's HTTP API (createApp) over time: GET        *)
(* /cctp/delivered behind the token bucket of its client, and GET /health, *)
(* which is not rate-limited and reports how old the watcher's index is.   *)
(* The watcher's own /v1/health classifies in the same way, but awaits the *)
(* chain heads after reading the clock.                                    *)
(***************************************************************************)
EXTENDS RateLimiter, FiniteSets

CONSTANTS
  Messages, Limit, MaxTime,   \* of the delivered feed
  Frontend,                   \* the client that follows the feed
  Chains,                     \* the configured chains
  Poll,                       \* pollingIntervalMs
  BlockTime,                  \* nominalBlockTimeMs
  MaxLag,                     \* blocks behind which a chain is degraded (100)
  MaxWait                     \* bound: time a handler waits for an answer

VARIABLES
  endpoint,                               \* what this behaviour is about
  now, deliveredAt, stamped, since, got,  \* the delivered feed
  age,      \* Chains -> time since the last indexed block, or NULL: none
  report    \* the health handler at work

D == INSTANCE DeliveredFeed

ASSUME HttpAssumption ==
  /\ D!DeliveredAssumption
  /\ Frontend \in Clients
  /\ Poll \in Nat /\ BlockTime \in Nat \ {0} /\ MaxLag \in Nat /\ MaxWait \in Nat

bucket == <<tokens, idle, ideal>>
feed == <<now, deliveredAt, stamped, since, got>>
health == <<age, report>>
httpVars == <<endpoint, bucket, feed, health>>

Endpoints == {"/cctp/delivered", "/health", "/v1/health"}
-----------------------------------------------------------------------------
(* GET /cctp/delivered: rateLimitMiddleware, then the handler.             *)

\* The limit a query asks for: none, one that counts as none, too few, too many.
Asked == {NULL, 0, -1, 1, Limit + 1}

getDelivered ==
  /\ endpoint = "/cctp/delivered"
  /\ allowed(Frontend)
  /\ \E n \in Asked : D!poll(n)
  /\ UNCHANGED <<endpoint, health>>

\* 429, with the bucket refilled and nothing read.
tooManyRequests ==
  /\ endpoint = "/cctp/delivered"
  /\ limited(Frontend)
  /\ UNCHANGED <<endpoint, feed, health>>

sweepBuckets ==
  /\ endpoint = "/cctp/delivered"
  /\ sweep
  /\ UNCHANGED <<endpoint, feed, health>>

deliver ==
  /\ endpoint = "/cctp/delivered"
  /\ (\E m \in Messages : D!stampDelivered(m)) \/ D!recordDelivered
  /\ UNCHANGED <<endpoint, bucket, health>>
-----------------------------------------------------------------------------
(* The health reports.                                                     *)

MaxAge == 10 * Poll + 1

Older(a) == IF a = NULL \/ a = MaxAge THEN a ELSE a + 1

\* The actor holds no head and estimates the lag from the age.
lagBlocks(a) == IF a < BlockTime THEN 0 ELSE a \div BlockTime - 1

classifyChain(a) ==
  IF a = NULL \/ a > 10 * Poll THEN "unhealthy"
  ELSE IF a > 3 * Poll THEN "stale"
  ELSE IF lagBlocks(a) > MaxLag THEN "degraded"
  ELSE "healthy"

\* The watcher's lag is the head's lead over the index, or unknown.
classifyFreshness(a) ==
  IF a = NULL \/ a > 10 * Poll THEN {"unhealthy"}
  ELSE IF a > 3 * Poll THEN {"stale"}
  ELSE {"healthy", "degraded"}

SEVERITY == [healthy |-> 0, degraded |-> 1, stale |-> 2, unhealthy |-> 3]

\* Worst wins; no chain at all is healthy.
rollup(statuses) ==
  CHOOSE s \in statuses \union {"healthy"} :
    \A t \in statuses \union {"healthy"} : SEVERITY[t] <= SEVERITY[s]

healthHttpStatus(status) == IF status \in {"healthy", "degraded"} THEN 200 ELSE 503

Idle == [stage |-> "idle"]

\* The watcher's progress is read, and the rest is awaited; the history variable
\* rebuilt tells whether the index was dropped meanwhile.
watcherProgress ==
  /\ endpoint # "/cctp/delivered" /\ report.stage \in {"idle", "answered"}
  /\ report' = [stage |-> "awaited", seen |-> age, wait |-> 0, rebuilt |-> FALSE]
  /\ UNCHANGED <<endpoint, bucket, feed, age>>

\* The age of what was read goes on growing until the clock is read: at once in
\* the watcher, after countsByState in the actor.
ClockRead == endpoint = "/v1/health"

\* late is the time since the clock was read.
Answered(status) ==
  [stage |-> "answered", code |-> healthHttpStatus(status),
   late |-> IF ClockRead THEN report.wait ELSE 0, rebuilt |-> report.rebuilt]

\* Mutant: the actor reads the clock before the job counts are awaited.
chainHealth_ClockFirst ==
  /\ endpoint = "/health" /\ report.stage = "awaited"
  /\ report' = Answered(rollup({classifyChain(
       IF report.seen[c] = NULL THEN NULL ELSE report.seen[c] - report.wait)
         : c \in Chains}))
  /\ UNCHANGED <<endpoint, bucket, feed, age>>

\* countsByState came; clock, classification, rollup and answer follow at once.
chainHealth ==
  /\ endpoint = "/health" /\ report.stage = "awaited"
  /\ report' = Answered(rollup({classifyChain(report.seen[c]) : c \in Chains}))
  /\ UNCHANGED <<endpoint, bucket, feed, age>>

\* The heads came, or their calls failed (head null).
watcherHealth ==
  /\ endpoint = "/v1/health" /\ report.stage = "awaited"
  /\ \E status \in [Chains -> DOMAIN SEVERITY] :
       /\ \A c \in Chains : status[c] \in classifyFreshness(report.seen[c])
       /\ report' = Answered(rollup({status[c] : c \in Chains}))
  /\ UNCHANGED <<endpoint, bucket, feed, age>>

\* A query that throws is answered as unhealthy.
healthFails ==
  /\ endpoint = "/health" /\ report.stage = "awaited"
  /\ report' = Answered("unhealthy")
  /\ UNCHANGED <<endpoint, bucket, feed, age>>

\* The watcher indexes another block, or starts again from an empty schema.
Index(c) ==
  /\ endpoint # "/cctp/delivered"
  /\ \E a \in 0..(IF age[c] = NULL THEN MaxAge ELSE age[c]) :
       age' = [age EXCEPT ![c] = a]
  /\ UNCHANGED <<endpoint, bucket, feed, report>>

Rebuild ==
  /\ endpoint # "/cctp/delivered"
  /\ age' = [c \in Chains |-> NULL]
  /\ report' = IF report.stage = "awaited" THEN [report EXCEPT !.rebuilt = TRUE]
               ELSE Idle
  /\ UNCHANGED <<endpoint, bucket, feed>>
-----------------------------------------------------------------------------
\* Time for the bucket and the feed, or for the index and the handler.
Pass ==
  \/ /\ endpoint = "/cctp/delivered"
     /\ Elapse /\ D!Elapse
     /\ UNCHANGED <<endpoint, health>>
  \/ /\ endpoint # "/cctp/delivered"
     /\ age' = [c \in Chains |-> Older(age[c])]
     /\ \/ /\ report.stage = "awaited" /\ report.wait < MaxWait
           /\ report' = [report EXCEPT
                !.wait = @ + 1,
                !.seen = IF ClockRead THEN @ ELSE [c \in Chains |-> Older(@[c])]]
        \/ report.stage # "awaited" /\ report' = Idle
     /\ UNCHANGED <<endpoint, bucket, feed>>

HttpInit ==
  /\ Init /\ D!Init
  /\ endpoint \in Endpoints
  /\ age = [c \in Chains |-> NULL] /\ report = Idle

HttpNext ==
  \/ getDelivered \/ tooManyRequests \/ sweepBuckets \/ deliver
  \/ watcherProgress \/ chainHealth \/ watcherHealth \/ healthFails
  \/ Rebuild \/ Pass
  \/ \E c \in Chains : Index(c)

\* The frontend goes on polling, deliveries are written down, time passes.
HttpSpec ==
  /\ HttpInit /\ [][HttpNext]_httpVars
  /\ WF_httpVars(getDelivered \/ tooManyRequests)
  /\ WF_httpVars(deliver) /\ WF_httpVars(Pass)
-----------------------------------------------------------------------------
(* Properties.                                                             *)

\* The cursor of the feed passes no delivery it did not hand out.
NothingSkipped == D!NothingSkipped

\* "200 for healthy|degraded, 503 otherwise": when /health answers 200, every
\* chain was indexed within three polling intervals of the answer, though its
\* row was read earlier; /v1/health may be late by the time it awaited the heads.
\* An index dropped while the handler waits is not seen by it.
HealthSound ==
  report.stage = "answered" /\ report.code = 200 /\ ~report.rebuilt =>
    \A c \in Chains : age[c] # NULL /\ age[c] <= 3 * Poll + report.late

\* A frontend that keeps polling gets every delivery in the end, denied polls
\* and bucket sweeps notwithstanding - unless it fell into the millisecond of
\* a record it has.
EveryDeliverySeen ==
  \A m \in Messages :
    deliveredAt[m] # NULL ~> m \in got \/ D!Tied(m)
=============================================================================
