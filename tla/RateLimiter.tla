----------------------------- MODULE RateLimiter -----------------------------
(***************************************************************************)
(* TokenBucketLimiter: one lazily refilled bucket per client, and the      *)
(* sweep that forgets idle ones.  Tokens are counted in refill units, Cost *)
(* of them to a token, so that one unit of time adds Rate (the code's      *)
(* capacityPerMinute / 60 per second, a token being 1).  ideal is the      *)
(* reference: a bucket nobody forgets, refilled at every instant.          *)
(***************************************************************************)
EXTENDS Integers

CONSTANTS
  Clients,
  NULL,
  Capacity,       \* a full bucket
  Cost,           \* one token
  Rate,           \* refill per unit of time
  SweepAfter      \* idle time after which a bucket is deleted

ASSUME RateAssumption ==
  /\ Capacity \in Nat /\ Cost \in Nat \ {0} /\ Rate \in Nat \ {0}
  /\ SweepAfter \in Nat
  /\ SweepAfter * Rate >= Capacity
  /\ NULL \notin Nat

VARIABLES
  tokens,   \* Clients -> what the map holds, or NULL
  idle,     \* Clients -> time since lastRefillMs, up to SweepAfter + 1
  ideal     \* Clients -> what the reference bucket holds

vars == <<tokens, idle, ideal>>

Capped(n) == IF n < Capacity THEN n ELSE Capacity

\* A new bucket is full; an old one gets the time since its last refill.
Refilled(c) ==
  IF tokens[c] = NULL THEN Capacity ELSE Capped(tokens[c] + idle[c] * Rate)

\* allow(): TRUE consumes one token, FALSE leaves the refilled bucket.
allowed(c) ==
  /\ Refilled(c) >= Cost
  /\ tokens' = [tokens EXCEPT ![c] = Refilled(c) - Cost]
  /\ idle' = [idle EXCEPT ![c] = 0]
  /\ ideal' = [ideal EXCEPT ![c] = @ - Cost]

\* Mutant: a denied request moves lastRefillMs on but not the tokens.
limited_LosesRefill(c) ==
  /\ Refilled(c) < Cost
  /\ idle' = [idle EXCEPT ![c] = 0]
  /\ UNCHANGED <<tokens, ideal>>

limited(c) ==
  /\ Refilled(c) < Cost
  /\ tokens' = [tokens EXCEPT ![c] = Refilled(c)]
  /\ idle' = [idle EXCEPT ![c] = 0]
  /\ UNCHANGED ideal

sweep ==
  /\ tokens' = [c \in Clients |-> IF idle[c] > SweepAfter THEN NULL ELSE tokens[c]]
  /\ UNCHANGED <<idle, ideal>>

Elapse ==
  /\ idle' = [c \in Clients |-> IF idle[c] > SweepAfter THEN idle[c] ELSE idle[c] + 1]
  /\ ideal' = [c \in Clients |-> Capped(ideal[c] + Rate)]
  /\ UNCHANGED tokens

Init ==
  /\ tokens = [c \in Clients |-> NULL]
  /\ idle = [c \in Clients |-> 0]
  /\ ideal = [c \in Clients |-> Capacity]

Next ==
  \/ \E c \in Clients : allowed(c) \/ limited(c)
  \/ sweep \/ Elapse

Spec == Init /\ [][Next]_vars
-----------------------------------------------------------------------------
\* Type invariant: no bucket over its capacity or in debt, the reference one
\* included (so that no client is let through faster than the rate allows).
TypeOK ==
  /\ tokens \in [Clients -> 0..Capacity \union {NULL}]
  /\ idle \in [Clients -> 0..(SweepAfter + 1)]
  /\ ideal \in [Clients -> 0..Capacity]

\* Refilling lazily, only when a request comes, and forgetting idle clients in
\* sweep grant and deny exactly what a bucket refilled at every instant would.
LazyIsExact == \A c \in Clients : Refilled(c) = ideal[c]
=============================================================================
