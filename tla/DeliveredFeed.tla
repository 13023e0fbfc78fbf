---------------------------- MODULE DeliveredFeed ----------------------------
(***************************************************************************)
(* GET /cctp/delivered for one corridor: tickSubmitted stamps deliveries   *)
(* with the clock and writes them one after the other, while a frontend    *)
(* polls the feed, passing the deliveredAt of the last record it got as    *)
(* sinceMs.  ActorHttp composes these steps with the rate limiter.         *)
(***************************************************************************)
EXTENDS Integers, FiniteSets

CONSTANTS
  Messages, NULL,
  Limit,          \* records in an answer (200 in the code)
  MaxTime         \* bound: the clock, in milliseconds

DeliveredAssumption ==
  /\ Limit \in Nat \ {0} /\ MaxTime \in Nat
  /\ NULL \notin Messages /\ NULL \notin Nat

VARIABLES
  now,
  deliveredAt,    \* Messages -> delivered_at of a delivered row, or NULL
  stamped,        \* the update in flight: [msg, time], or NULL
  since, got      \* the frontend: its sinceMs, the messages it saw delivered

vars == <<now, deliveredAt, stamped, since, got>>

Pending == {m \in Messages : deliveredAt[m] = NULL}

\* A receipt is in: delivered_at is read off the clock before the update.
stampDelivered(m) ==
  /\ stamped = NULL /\ m \in Pending
  /\ stamped' = [msg |-> m, time |-> now]
  /\ UNCHANGED <<now, deliveredAt, since, got>>

recordDelivered ==
  /\ stamped # NULL
  /\ deliveredAt' = [deliveredAt EXCEPT ![stamped.msg] = stamped.time]
  /\ stamped' = NULL
  /\ UNCHANGED <<now, since, got>>

\* Mutant: the record at the cursor comes back with every poll.
After_Inclusive(t) == {m \in Messages : deliveredAt[m] # NULL /\ deliveredAt[m] >= t}

After(t) == {m \in Messages : deliveredAt[m] # NULL /\ deliveredAt[m] > t}

\* Mutant: newest first, so that a full answer cuts off the oldest.
delivered_Newest(t, limit) ==
  {T \in SUBSET After(t) :
     /\ Cardinality(T) = IF Cardinality(After(t)) < limit
                         THEN Cardinality(After(t)) ELSE limit
     /\ \A x \in T, y \in After(t) \ T : deliveredAt[x] >= deliveredAt[y]}

\* WHERE delivered_at > t ORDER BY delivered_at ASC LIMIT; ties fall either way.
delivered(t, limit) ==
  {T \in SUBSET After(t) :
     /\ Cardinality(T) = IF Cardinality(After(t)) < limit
                         THEN Cardinality(After(t)) ELSE limit
     /\ \A x \in T, y \in After(t) \ T : deliveredAt[x] <= deliveredAt[y]}

\* The limit of a query that asks for n records (NULL: none named): 0 and what
\* is no number count as the most, a negative number as one.
limitOf(n) ==
  IF n = NULL \/ n = 0 \/ n > Limit THEN Limit ELSE IF n < 1 THEN 1 ELSE n

\* One poll for n records; the frontend keeps the time of the last one.
poll(n) ==
  /\ \E T \in delivered(since, limitOf(n)) :
       /\ got' = got \union T
       /\ since' = IF T = {} THEN since
                   ELSE CHOOSE t \in {deliveredAt[m] : m \in T} :
                          \A m \in T : deliveredAt[m] <= t
  /\ UNCHANGED <<now, deliveredAt, stamped>>

Elapse ==
  /\ now' = IF now < MaxTime THEN now + 1 ELSE now
  /\ UNCHANGED <<deliveredAt, stamped, since, got>>

Init ==
  /\ now = 1 /\ deliveredAt = [m \in Messages |-> NULL] /\ stamped = NULL
  /\ since = 0 /\ got = {}

\* Delivered in the same millisecond as a record the frontend got.
Tied(m) == \E k \in got : deliveredAt[k] = deliveredAt[m]

\* "A cursor feed" from which consumers match their own messages: the cursor
\* passes no delivery the frontend was not given, be it one that the limit cut
\* off or one stamped before and written after the poll - except one that fell
\* into the same millisecond as the record the cursor stopped at.
NothingSkipped ==
  /\ \A m \in Messages :
       deliveredAt[m] # NULL /\ deliveredAt[m] <= since /\ m \notin got =>
         Tied(m)
  /\ stamped # NULL /\ stamped.time <= since =>
       \E k \in got : deliveredAt[k] = stamped.time
=============================================================================
