------------------------------ MODULE RelayApi ------------------------------
(***************************************************************************)
(* POST /relay and GET /status on one chain: the handler with its          *)
(* idempotency lookup, the validation pipeline of PrivacyRelay, the wallet *)
(* lock, the duplicate-calldata cache, the broadcast, and the idempotency  *)
(* table with its backfill.                                                *)
(*                                                                         *)
(* Handlers interleave at their awaits; what lies between two awaits is    *)
(* one action.  The lock and the cache are in memory and die with the      *)
(* process, the idempotency table is in Postgres.  A request is one HTTP   *)
(* call; a client's retry is another request with the same key.            *)
(***************************************************************************)
EXTENDS Integers, FiniteSets

CONSTANTS
  Requests,
  Payloads,          \* (to, data) pairs
  Keys,              \* idempotency keys
  MaxTxs,            \* bound: transactions that can be broadcast
  NULL,
  PayloadOf,         \* Requests -> Payloads
  KeyOf,             \* Requests -> Keys or NULL
  ConfiguredChain,   \* the requests that pass each check of the pipeline
  AllowedTarget,
  AllowedSelector,
  FeePaid,
  DEDUP_TTL,
  MaxCrashes,        \* bound: how often the process dies
  Faults

FaultKinds == {"lostResponse", "dbError", "noteError"}

\* Transactions, numbered in the order of their broadcasts.
TxIds == 1..MaxTxs

ASSUME ConstantsAssumption ==
  /\ PayloadOf \in [Requests -> Payloads]
  /\ KeyOf \in [Requests -> Keys \union {NULL}]
  /\ NULL \notin Keys /\ NULL \notin Int /\ NULL \notin Requests
  /\ NULL \notin Payloads
  /\ ConfiguredChain \subseteq Requests /\ AllowedTarget \subseteq Requests
  /\ AllowedSelector \subseteq Requests /\ FeePaid \subseteq Requests
  /\ DEDUP_TTL \in Nat /\ MaxCrashes \in Nat /\ MaxTxs \in Nat
  /\ Faults \subseteq FaultKinds

VARIABLES
  stage,     \* Requests -> the await the handler is at
  answer,    \* Requests -> what was answered
  txOf,      \* Requests -> hash the handler holds after its broadcast
  busy,      \* WalletManager.busy has the chain
  dedup,     \* Payloads -> entry of DedupCache
  idem,      \* Keys -> row of actor.idempotency
  txs,       \* TxIds -> broadcast transaction
  backfills, \* updateStatusByTxHash calls under way
  crashes

vars == <<stage, answer, txOf, busy, dedup, idem, txs, backfills, crashes>>

Errors == {"INVALID_CHAIN", "INVALID_TARGET", "FEE_EXPIRED", "INVALID_DATA",
           "FEE_INSUFFICIENT", "RELAYER_BUSY", "GAS_ESTIMATION_FAILED",
           "SUBMISSION_FAILED", "UNKNOWN_ERROR"}

Codes == Errors \union {"none", "OK", "REPLAY", "DUPLICATE_TX"}

Stages == {"new", "looking", "verifying", "estimating", "submitting",
           "accepted", "putting", "answered", "dead"}

Locked == {"estimating", "submitting", "accepted"}

\* An entry of the cache, a row of the table, a transaction; known and age are
\* what the living process remembers of it.
Entry == [tx : TxIds \union {NULL}, age : 0..(DEDUP_TTL + 1)]
Record == [tx : TxIds \union {NULL}, status : {"pending", "confirmed", "failed"}]
Tx == [payload : Payloads \union {NULL}, by : Requests \union {NULL},
       status : {"unsent", "pending", "confirmed", "failed"},
       known : BOOLEAN, age : 0..(DEDUP_TTL + 1)]

NoEntry == [tx |-> NULL, age |-> 0]
NoRecord == [tx |-> NULL, status |-> "pending"]
Unsent == [payload |-> NULL, by |-> NULL, status |-> "unsent",
           known |-> FALSE, age |-> 0]

Answer(r, code, t) ==
  /\ stage' = [stage EXCEPT ![r] = "answered"]
  /\ answer' = [answer EXCEPT ![r] = [code |-> code, tx |-> t]]

Goto(r, s) == stage' = [stage EXCEPT ![r] = s] /\ UNCHANGED answer
-----------------------------------------------------------------------------
(* The handler up to the lock.                                             *)

\* A well-formed body.  With a key, idempotency.get is asked.
arrive(r) ==
  /\ stage[r] = "new"
  /\ Goto(r, "looking")
  /\ UNCHANGED <<txOf, busy, dedup, idem, txs, backfills, crashes>>

\* Steps 1 to 4, in order; "ok" when all pass.  Whether the quote still
\* resolves depends on the clock and on other clients.
Verdict(r, quoteResolves) ==
  CASE r \notin ConfiguredChain -> "INVALID_CHAIN"
    [] r \in ConfiguredChain /\ r \notin AllowedTarget -> "INVALID_TARGET"
    [] r \in ConfiguredChain \intersect AllowedTarget /\ ~quoteResolves -> "FEE_EXPIRED"
    [] r \in ConfiguredChain \intersect AllowedTarget /\ quoteResolves ->
         IF r \in AllowedSelector THEN "ok" ELSE "INVALID_DATA"

\* The lookup answers; without a record the pipeline starts.
idempotencyGet(r) ==
  /\ stage[r] = "looking"
  /\ \/ /\ KeyOf[r] # NULL
        /\ idem[KeyOf[r]] # NoRecord
        /\ Answer(r, "REPLAY", idem[KeyOf[r]].tx)
     \/ /\ KeyOf[r] # NULL => idem[KeyOf[r]] = NoRecord
        /\ \E resolves \in BOOLEAN :
             IF Verdict(r, resolves) = "ok" THEN Goto(r, "verifying")
             ELSE Answer(r, Verdict(r, resolves), NULL)
     \/ /\ "dbError" \in Faults /\ KeyOf[r] # NULL
        /\ Answer(r, "UNKNOWN_ERROR", NULL)
  /\ UNCHANGED <<txOf, busy, dedup, idem, txs, backfills, crashes>>

\* Steps 5 and 6: the fee, where a note that cannot be read is a fee that was
\* not paid, then the lock.
tryAcquire(r) ==
  /\ stage[r] = "verifying"
  /\ \/ /\ r \notin FeePaid \/ "noteError" \in Faults
        /\ Answer(r, "FEE_INSUFFICIENT", NULL)
        /\ UNCHANGED busy
     \/ /\ r \in FeePaid /\ busy
        /\ Answer(r, "RELAYER_BUSY", NULL)
        /\ UNCHANGED busy
     \/ /\ r \in FeePaid /\ ~busy
        /\ busy' = TRUE
        /\ Goto(r, "estimating")
  /\ UNCHANGED <<txOf, dedup, idem, txs, backfills, crashes>>
-----------------------------------------------------------------------------
(* Under the lock.                                                         *)

Fresh(p) == dedup[p] # NoEntry /\ dedup[p].age <= DEDUP_TTL

\* Mutant: the lock is kept when gas estimation fails.
estimateGas_KeepsLock(r) ==
  LET p == PayloadOf[r] IN
  /\ stage[r] = "estimating"
  /\ \/ /\ Answer(r, "GAS_ESTIMATION_FAILED", NULL)
        /\ UNCHANGED <<busy, dedup>>
     \/ /\ ~Fresh(p)
        /\ Goto(r, "submitting")
        /\ UNCHANGED <<busy, dedup>>
  /\ UNCHANGED <<txOf, idem, txs, backfills, crashes>>

\* Step 7 ends; step 8 looks for a duplicate, dropping an entry that is too
\* old, and starts the broadcast.
estimateGas(r) ==
  LET p == PayloadOf[r] IN
  /\ stage[r] = "estimating"
  /\ \/ /\ Answer(r, "GAS_ESTIMATION_FAILED", NULL)
        /\ busy' = FALSE
        /\ UNCHANGED dedup
     \/ /\ Fresh(p)
        /\ Answer(r, "DUPLICATE_TX", dedup[p].tx)
        /\ busy' = FALSE
        /\ UNCHANGED dedup
     \/ /\ ~Fresh(p)
        /\ dedup' = [dedup EXCEPT ![p] = NoEntry]
        /\ Goto(r, "submitting")
        /\ UNCHANGED busy
  /\ UNCHANGED <<txOf, idem, txs, backfills, crashes>>

\* The node has the transaction.
NodeAccepts(r) ==
  /\ stage[r] = "submitting"
  /\ \E t \in TxIds :
       /\ \A u \in TxIds : txs[u].status = "unsent" <=> u >= t
       /\ txs' = [txs EXCEPT ![t] = [Unsent EXCEPT !.payload = PayloadOf[r],
                                       !.by = r, !.status = "pending"]]
       /\ txOf' = [txOf EXCEPT ![r] = t]
  /\ Goto(r, "accepted")
  /\ UNCHANGED <<busy, dedup, idem, backfills, crashes>>

\* Mutant: a broadcast whose answer was lost is made once more.
submitFails_Again(r) ==
  /\ stage[r] = "accepted" /\ "lostResponse" \in Faults
  /\ Goto(r, "submitting")
  /\ UNCHANGED <<txOf, busy, dedup, idem, txs, backfills, crashes>>

submitFails(r) ==
  /\ stage[r] = "submitting" \/ (stage[r] = "accepted" /\ "lostResponse" \in Faults)
  /\ Answer(r, "SUBMISSION_FAILED", NULL)
  /\ busy' = FALSE
  /\ UNCHANGED <<txOf, dedup, idem, txs, backfills, crashes>>

\* The broadcast resolves: remember it, release the lock, store the key.
record(r) ==
  /\ stage[r] = "accepted"
  /\ dedup' = [dedup EXCEPT ![PayloadOf[r]] = [tx |-> txOf[r], age |-> 0]]
  /\ txs' = [txs EXCEPT ![txOf[r]].known = TRUE]
  /\ busy' = FALSE
  /\ IF KeyOf[r] # NULL THEN Goto(r, "putting") ELSE Answer(r, "OK", txOf[r])
  /\ UNCHANGED <<txOf, idem, backfills, crashes>>

\* Mutants: the row is stored with a status of another vocabulary; a key that is
\* taken makes the INSERT throw where nobody answers.
idempotencyPut_Success(r) ==
  /\ stage[r] = "putting"
  /\ idem' = [idem EXCEPT ![KeyOf[r]] = [tx |-> txOf[r], status |-> "success"]]
  /\ Answer(r, "OK", txOf[r])
  /\ UNCHANGED <<txOf, busy, dedup, txs, backfills, crashes>>

idempotencyPut_Conflict(r) ==
  /\ stage[r] = "putting"
  /\ idem[KeyOf[r]] = NoRecord
  /\ idem' = [idem EXCEPT ![KeyOf[r]] = [tx |-> txOf[r], status |-> "pending"]]
  /\ Answer(r, "OK", txOf[r])
  /\ UNCHANGED <<txOf, busy, dedup, txs, backfills, crashes>>

\* INSERT ... ON CONFLICT (key) DO NOTHING, then the answer.
idempotencyPut(r) ==
  LET k == KeyOf[r] IN
  /\ stage[r] = "putting"
  /\ \/ /\ idem' = [idem EXCEPT ![k] =
                      IF @ = NoRecord THEN [tx |-> txOf[r], status |-> "pending"] ELSE @]
        /\ Answer(r, "OK", txOf[r])
     \/ /\ "dbError" \in Faults
        /\ UNCHANGED idem
        /\ Answer(r, "UNKNOWN_ERROR", NULL)
  /\ UNCHANGED <<txOf, busy, dedup, txs, backfills, crashes>>
-----------------------------------------------------------------------------
(* GET /status, the sweep, the chain, the process.                         *)

\* Mutant: whatever has a receipt is confirmed.
txStatus_AnyReceipt(t) ==
  /\ txs[t].status \in {"confirmed", "failed"}
  /\ backfills' = backfills \union {<<t, "confirmed">>}
  /\ UNCHANGED <<stage, answer, txOf, busy, dedup, idem, txs, crashes>>

\* A receipt was found: its status is written to the table, unattended.
txStatus(t) ==
  /\ txs[t].status \in {"confirmed", "failed"}
  /\ backfills' = backfills \union {<<t, txs[t].status>>}
  /\ UNCHANGED <<stage, answer, txOf, busy, dedup, idem, txs, crashes>>

\* UPDATE ... WHERE tx_hash = t AND status = 'pending'; errors are swallowed.
updateStatusByTxHash(u) ==
  /\ u \in backfills
  /\ backfills' = backfills \ {u}
  /\ \/ idem' = [k \in Keys |->
                   IF idem[k].tx = u[1] /\ idem[k].status = "pending"
                   THEN [idem[k] EXCEPT !.status = u[2]] ELSE idem[k]]
     \/ "dbError" \in Faults /\ UNCHANGED idem
  /\ UNCHANGED <<stage, answer, txOf, busy, dedup, txs, crashes>>

\* Mutant: the cutoff is one too late.
sweep_Early ==
  /\ \E p \in Payloads : dedup[p] # NoEntry /\ dedup[p].age >= DEDUP_TTL
  /\ dedup' = [p \in Payloads |-> IF dedup[p].age >= DEDUP_TTL THEN NoEntry ELSE dedup[p]]
  /\ UNCHANGED <<stage, answer, txOf, busy, idem, txs, backfills, crashes>>

sweep ==
  /\ \E p \in Payloads : dedup[p].age > DEDUP_TTL
  /\ dedup' = [p \in Payloads |-> IF dedup[p].age > DEDUP_TTL THEN NoEntry ELSE dedup[p]]
  /\ UNCHANGED <<stage, answer, txOf, busy, idem, txs, backfills, crashes>>

Mine(t) ==
  /\ txs[t].status = "pending"
  /\ \E s \in {"confirmed", "failed"} : txs' = [txs EXCEPT ![t].status = s]
  /\ UNCHANGED <<stage, answer, txOf, busy, dedup, idem, backfills, crashes>>

Older(x) == IF x <= DEDUP_TTL THEN x + 1 ELSE x

Elapse ==
  /\ dedup' = [p \in Payloads |-> IF dedup[p] = NoEntry THEN NoEntry
                                  ELSE [dedup[p] EXCEPT !.age = Older(@)]]
  /\ txs' = [t \in TxIds |-> IF txs[t].known THEN [txs[t] EXCEPT !.age = Older(@)]
                             ELSE txs[t]]
  /\ UNCHANGED <<stage, answer, txOf, busy, idem, backfills, crashes>>

\* The process dies and starts again; clients get no answer.
Restart ==
  /\ crashes < MaxCrashes
  /\ crashes' = crashes + 1
  /\ stage' = [r \in Requests |-> IF stage[r] \in {"new", "answered"} THEN stage[r]
                                  ELSE "dead"]
  /\ busy' = FALSE
  /\ dedup' = [p \in Payloads |-> NoEntry]
  /\ backfills' = {}
  /\ txs' = [t \in TxIds |-> [txs[t] EXCEPT !.known = FALSE]]
  /\ UNCHANGED <<answer, txOf, idem>>
-----------------------------------------------------------------------------
Init ==
  /\ stage = [r \in Requests |-> "new"]
  /\ answer = [r \in Requests |-> [code |-> "none", tx |-> NULL]]
  /\ txOf = [r \in Requests |-> NULL]
  /\ busy = FALSE
  /\ dedup = [p \in Payloads |-> NoEntry]
  /\ idem = [k \in Keys |-> NoRecord]
  /\ txs = [t \in TxIds |-> Unsent]
  /\ backfills = {}
  /\ crashes = 0

Handler(r) ==
  \/ idempotencyGet(r) \/ tryAcquire(r) \/ estimateGas(r) \/ NodeAccepts(r)
  \/ submitFails(r) \/ record(r) \/ idempotencyPut(r)

Next ==
  \/ \E r \in Requests : arrive(r) \/ Handler(r)
  \/ \E t \in TxIds : txStatus(t) \/ Mine(t)
  \/ \E u \in backfills : updateStatusByTxHash(u)
  \/ sweep \/ Elapse \/ Restart

\* Every call to the node and to Postgres returns or fails.
Fairness == \A r \in Requests : WF_vars(Handler(r))

Spec == Init /\ [][Next]_vars
FairSpec == Spec /\ Fairness
-----------------------------------------------------------------------------
(* Properties.                                                             *)

\* Type invariant of the handlers, caches and tables.
TypeOK ==
  /\ stage \in [Requests -> Stages]
  /\ answer \in [Requests -> [code : Codes, tx : TxIds \union {NULL}]]
  /\ txOf \in [Requests -> TxIds \union {NULL}]
  /\ busy \in BOOLEAN
  /\ dedup \in [Payloads -> Entry]
  /\ idem \in [Keys -> Record]
  /\ txs \in [TxIds -> Tx]
  /\ backfills \subseteq TxIds \X {"confirmed", "failed"}
  /\ crashes \in 0..MaxCrashes

\* The wallet lock is held exactly while one handler is between its gas
\* estimation and the end of its broadcast, whichever way those end.
LockOwned ==
  /\ busy <=> \E r \in Requests : stage[r] \in Locked
  /\ \A r, q \in Requests : stage[r] \in Locked /\ stage[q] \in Locked => r = q

\* The same calldata is not broadcast twice within DEDUP_TTL, for as long as
\* the process that broadcast it lives and had its answer: lock and cache
\* together leave no window for two concurrent requests.
NoDoubleBroadcast ==
  [][\A t \in TxIds : txs[t].status = "unsent" /\ txs'[t].status = "pending" =>
       \A u \in TxIds : txs[u].known /\ txs[u].age <= DEDUP_TTL =>
         txs[u].payload # txs'[t].payload]_vars

\* A terminal status in the idempotency table is the receipt's, and stays.
BackfillSound ==
  [][\A k \in Keys : idem[k] # NoRecord =>
       /\ idem'[k].tx = idem[k].tx
       /\ idem'[k].status # idem[k].status =>
            idem[k].status = "pending" /\ idem'[k].status = txs[idem[k].tx].status]_vars

\* The endpoint implements the promise of RelayContract.
Contract ==
  INSTANCE RelayContract WITH
    sent <- txOf, chain <- [t \in TxIds |-> txs[t].status]

\* Every step of the handlers, the caches, the tables and the process is one
\* RelayContract allows or changes nothing a client can see: no answer is taken
\* back, no request is broadcast twice or after its answer, and a client that is
\* refused may retry, for nothing was sent in its name.
ImplementsContract == Contract!Spec

\* Every request that arrives is answered, unless the process dies under it.
EveryRequestAnswered ==
  \A r \in Requests : stage[r] = "looking" ~> stage[r] \in {"answered", "dead"}
=============================================================================
