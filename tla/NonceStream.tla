----------------------------- MODULE NonceStream -----------------------------
(***************************************************************************)
(* The nonce stream of one chain (NonceCoordinator), shared by the job     *)
(* pipeline and POST /relay, and the account it draws nonces for: what the *)
(* node's mempool holds under each nonce and how far the chain has mined.  *)
(*                                                                         *)
(* A call of WalletManager.submit waits its turn in the promise chain      *)
(* s.queue, asks for a seed when s.next is null, broadcasts, and advances  *)
(* s.next when the broadcast resolves.  reset may run between any two of   *)
(* those steps: it does not go through the queue.                          *)
(***************************************************************************)
EXTENDS Integers, Sequences, FiniteSets

CONSTANTS
  Calls,        \* calls of WalletManager.submit
  JobCalls,     \* those of them that deliver a CCTP message
  NULL,
  MaxNonce,     \* bound: nonces the account uses
  MaxCrashes,   \* bound: how often the process dies
  Faults        \* what the node may do

FaultKinds == {"rpcError", "lostResponse", "replace", "drop"}

Nonces == 0..MaxNonce

ASSUME ConstantsAssumption ==
  /\ NULL \notin Calls /\ NULL \notin Int
  /\ JobCalls \subseteq Calls
  /\ MaxNonce \in Nat /\ MaxCrashes \in Nat
  /\ Faults \subseteq FaultKinds

VARIABLES
  next,      \* s.next, NULL when the stream needs a seed
  queue,     \* calls waiting in s.queue; the head is the running one
  stage,     \* Calls -> how far the call is
  nonce,     \* Calls -> the seed or the nonce the call holds
  pool,      \* Nonces -> the call whose transaction holds it, waiting or mined
  latest,    \* nonces below this one are mined
  dropped,   \* history: nonces whose transaction the mempool ever dropped
  reseed,    \* history: a reset fell between two submissions, no seed since
  crashes

vars == <<next, queue, stage, nonce, pool, latest, dropped, reseed, crashes>>

Stages == {"idle", "queued", "seeding", "seeded", "sending", "accepted",
           "sent", "recovered", "failed"}

\* The stages of a call whose turn it is.
Active == {"seeding", "seeded", "sending", "accepted"}

\* getTransactionCount(address, "pending"): the first nonce not taken by the
\* transactions that can be mined one after the other.
PendingCount(n) ==
  /\ n >= latest
  /\ n \in Nonces => pool[n] = NULL
  /\ \A k \in Nonces : latest <= k /\ k < n => pool[k] # NULL

\* No receipt, and getTransaction finds no trace of the call's transaction.
Gone(c) == stage[c] = "sent" /\ pool[nonce[c]] # c

Running(c) == queue # <<>> /\ Head(queue) = c

Finish(c, s) ==
  /\ stage' = [stage EXCEPT ![c] = s]
  /\ queue' = Tail(queue)
-----------------------------------------------------------------------------
(* withNonce.                                                              *)

withNonce(c) ==
  /\ stage[c] = "idle"
  /\ stage' = [stage EXCEPT ![c] = "queued"]
  /\ queue' = Append(queue, c)
  /\ UNCHANGED <<next, nonce, pool, latest, dropped, reseed, crashes>>

\* The call's turn: it holds s.next, or asks for a seed first.
takeTurn(c) ==
  /\ Running(c) /\ stage[c] = "queued"
  /\ \/ /\ next = NULL
        /\ stage' = [stage EXCEPT ![c] = "seeding"]
        /\ UNCHANGED nonce
     \/ /\ next # NULL
        /\ stage' = [stage EXCEPT ![c] = "sending"]
        /\ nonce' = [nonce EXCEPT ![c] = next]
  /\ UNCHANGED <<next, queue, pool, latest, dropped, reseed, crashes>>

\* The node reads the account, the answer is on its way.
SeedAnswered(c) ==
  /\ stage[c] = "seeding"
  /\ stage' = [stage EXCEPT ![c] = "seeded"]
  /\ \E n \in 0..(MaxNonce + 1) :
       PendingCount(n) /\ nonce' = [nonce EXCEPT ![c] = n]
  /\ reseed' = FALSE
  /\ UNCHANGED <<next, queue, pool, latest, dropped, crashes>>

seedStream(c) ==
  /\ stage[c] = "seeded"
  /\ stage' = [stage EXCEPT ![c] = "sending"]
  /\ next' = nonce[c]
  /\ UNCHANGED <<queue, nonce, pool, latest, dropped, reseed, crashes>>

\* The node takes the transaction into its mempool.
NodeAccepts(c) ==
  /\ stage[c] = "sending"
  /\ nonce[c] \in Nonces /\ nonce[c] >= latest
  /\ pool[nonce[c]] # NULL => "replace" \in Faults
  /\ pool' = [pool EXCEPT ![nonce[c]] = c]
  /\ stage' = [stage EXCEPT ![c] = "accepted"]
  /\ UNCHANGED <<next, queue, nonce, latest, dropped, reseed, crashes>>

\* Mutant: the nonce is handed on before it is used.
NodeRejects_Advances(c) ==
  /\ stage[c] = "sending"
  /\ next' = nonce[c] + 1
  /\ Finish(c, "failed")
  /\ UNCHANGED <<nonce, pool, latest, dropped, reseed, crashes>>

\* Mutant: the calls behind a rejected one are not let through.
NodeRejects_Blocks(c) ==
  /\ stage[c] = "sending"
  /\ stage' = [stage EXCEPT ![c] = "failed"]
  /\ UNCHANGED <<next, queue, nonce, pool, latest, dropped, reseed, crashes>>

\* Nonce too low, replacement underpriced, or the call just fails: the stream
\* is left where it was.
NodeRejects(c) ==
  /\ stage[c] = "sending"
  /\ \/ nonce[c] < latest
     \/ nonce[c] \in Nonces /\ pool[nonce[c]] # NULL
     \/ "rpcError" \in Faults
  /\ Finish(c, "failed")
  /\ UNCHANGED <<next, nonce, pool, latest, dropped, reseed, crashes>>

SeedFails(c) ==
  /\ "rpcError" \in Faults
  /\ stage[c] = "seeding"
  /\ Finish(c, "failed")
  /\ UNCHANGED <<next, nonce, pool, latest, dropped, reseed, crashes>>

\* Mutant: a successful broadcast leaves the stream where it was.
advance_Forgotten(c) ==
  /\ stage[c] = "accepted"
  /\ Finish(c, "sent")
  /\ UNCHANGED <<next, nonce, pool, latest, dropped, reseed, crashes>>

advance(c) ==
  /\ stage[c] = "accepted"
  /\ next' = nonce[c] + 1
  /\ Finish(c, "sent")
  /\ UNCHANGED <<nonce, pool, latest, dropped, reseed, crashes>>

\* The transaction is in the mempool, the answer never comes: fn rejects.
ResponseLost(c) ==
  /\ "lostResponse" \in Faults
  /\ stage[c] = "accepted"
  /\ Finish(c, "failed")
  /\ UNCHANGED <<next, nonce, pool, latest, dropped, reseed, crashes>>

\* Mutant: instead of a new seed, one back from the lost transaction.
reset_Rewinds(c) ==
  /\ c \in JobCalls /\ Gone(c)
  /\ next' = nonce[c] - 1
  /\ stage' = [stage EXCEPT ![c] = "recovered"]
  /\ reseed' = \A d \in Calls : stage[d] \notin Active
  /\ UNCHANGED <<queue, nonce, pool, latest, dropped, crashes>>

\* The stuck-transaction recovery of tickSubmitted, for a delivery that the
\* mempool no longer knows.
reset(c) ==
  /\ c \in JobCalls /\ Gone(c)
  /\ next' = NULL
  /\ stage' = [stage EXCEPT ![c] = "recovered"]
  /\ reseed' = \A d \in Calls : stage[d] \notin Active
  /\ UNCHANGED <<queue, nonce, pool, latest, dropped, crashes>>

\* The process dies: streams are in memory, calls under way are forgotten.
Restart ==
  /\ crashes < MaxCrashes
  /\ crashes' = crashes + 1
  /\ next' = NULL
  /\ queue' = <<>>
  /\ stage' = [c \in Calls |-> IF stage[c] \in {"queued", "seeding", "seeded",
                                                "sending", "accepted"}
                               THEN "failed" ELSE stage[c]]
  /\ UNCHANGED <<nonce, pool, latest, dropped, reseed>>
-----------------------------------------------------------------------------
(* The account.                                                            *)

Mine ==
  /\ latest \in Nonces /\ pool[latest] # NULL
  /\ latest' = latest + 1
  /\ UNCHANGED <<next, queue, stage, nonce, pool, dropped, reseed, crashes>>

Drop(n) ==
  /\ "drop" \in Faults
  /\ n >= latest /\ pool[n] # NULL
  /\ pool' = [pool EXCEPT ![n] = NULL]
  /\ dropped' = dropped \union {n}
  /\ UNCHANGED <<next, queue, stage, nonce, latest, reseed, crashes>>

Init ==
  /\ next = NULL
  /\ queue = <<>>
  /\ stage = [c \in Calls |-> "idle"]
  /\ nonce = [c \in Calls |-> 0]
  /\ pool = [n \in Nonces |-> NULL]
  /\ latest = 0
  /\ dropped = {}
  /\ reseed = FALSE
  /\ crashes = 0

Next ==
  \/ \E c \in Calls :
       \/ withNonce(c) \/ takeTurn(c) \/ SeedAnswered(c) \/ seedStream(c)
       \/ NodeAccepts(c) \/ NodeRejects(c) \/ SeedFails(c) \/ advance(c)
       \/ ResponseLost(c) \/ reset(c)
  \/ Restart
  \/ Mine
  \/ \E n \in Nonces : Drop(n)

\* The queue moves on: the node answers every request, one way or the other.
Serve(c) ==
  \/ takeTurn(c) \/ SeedAnswered(c) \/ seedStream(c) \/ NodeAccepts(c)
  \/ NodeRejects(c) \/ SeedFails(c) \/ advance(c) \/ ResponseLost(c)

Fairness == \A c \in Calls : WF_vars(Serve(c))

Spec == Init /\ [][Next]_vars
FairSpec == Spec /\ Fairness
-----------------------------------------------------------------------------
(* Properties.                                                             *)

\* Type invariant of the stream and the account.
TypeOK ==
  /\ next \in 0..(MaxNonce + 1) \union {NULL}
  /\ queue \in Seq(Calls)
  /\ stage \in [Calls -> Stages]
  /\ nonce \in [Calls -> 0..(MaxNonce + 1)]
  /\ pool \in [Nonces -> Calls \union {NULL}]
  /\ latest \in 0..(MaxNonce + 1)
  /\ dropped \subseteq Nonces
  /\ reseed \in BOOLEAN
  /\ crashes \in 0..MaxCrashes

\* Submissions never collide (nonce-coordinator.ts:1): while the mempool drops
\* nothing, the nonce a call broadcasts under is held by no transaction of the
\* account, mined or waiting, but one whose answer never came back to its call.
NonceFree ==
  dropped = {} =>
    \A c \in Calls :
      stage[c] = "sending" /\ nonce[c] \in Nonces /\ pool[nonce[c]] # NULL =>
        stage[pool[nonce[c]]] = "failed"

\* The coordinator leaves no gap: below any waiting transaction every nonce is
\* taken, or was taken until the mempool dropped it.  Failed broadcasts, lost
\* answers, resets and restarts make no transaction wait for a nonce that was
\* never used.
NoHole ==
  \A n \in Nonces : n >= latest /\ pool[n] # NULL =>
    \A k \in Nonces : latest <= k /\ k < n => pool[k] # NULL \/ k \in dropped

\* "Re-seeds the chain's stream on next use" (nonce-coordinator.ts:46): after a
\* reset that fell between two submissions no call broadcasts before a seed was
\* read.
ResetReseeds ==
  [][\A c \in Calls : stage[c] = "queued" /\ stage'[c] = "sending" => ~reseed]_vars

\* A call that entered the queue leaves it, whatever happened to the calls
\* before it.
EveryCallEnds ==
  \A c \in Calls : stage[c] = "queued" ~> stage[c] \in {"sent", "failed", "recovered"}
=============================================================================
