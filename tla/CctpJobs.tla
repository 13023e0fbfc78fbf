------------------------------ MODULE CctpJobs ------------------------------
(***************************************************************************)
(* The CCTP job pipeline of the actor: the rows of actor.cctp_jobs, the    *)
(* job tick that drives them (main.ts jobTick, CctpStateMachine.tick), and *)
(* what surrounds it - Iris, the destination chain with its replay         *)
(* protection, crashes, failed calls and a second accidental instance.     *)
(*                                                                         *)
(* A tick is a sequence of awaits.  Every action below runs from one await *)
(* to the next, so anything the environment or another instance does may   *)
(* fall between a read and the write that depends on it.  What a tick      *)
(* remembers across awaits (listed rows, the message in hand, a broadcast  *)
(* hash) is in snap and at; it is lost in a crash.  jobs is in Postgres.   *)
(*                                                                         *)
(* Time is kept as distances from now, so that it may pass for ever:       *)
(* age = now - detectedAt and subAge = now - submittedAt stop growing one  *)
(* past the threshold they are compared with, and retryIn = nextRetryAt -  *)
(* now stops at 0, where it reads the same as a null nextRetryAt.          *)
(***************************************************************************)
EXTENDS Integers, FiniteSets

CONSTANTS
  Messages,              \* CCTP messages, named by dedupKey
  Relayable,             \* the messages classifyMessageForRelay accepts
  Nonced,                \* the messages whose source bytes carry a nonce
  TxIds,                 \* hashes of destination transactions
  Actors,                \* running instances of the actor
  NULL,                  \* SQL null
  FOREIGN,               \* a delivery made by anybody else
  MAX_RELAY_RETRIES,
  IRIS_POLL_CONCURRENCY,
  TICK_BATCH,
  Backoff,               \* RETRY_BACKOFF_BASE_MS * 2 ** (n - 1), per attempt n
  StuckTxThreshold,
  MaxAttestationAge,
  IrisMode,              \* "iris" or "mock"
  Faults,                \* what the environment of this instance may do
  MaxCrashes             \* bound: how often a process dies

FaultKinds == {"throw", "lostResponse", "dropTx", "revertTx", "foreign"}

ASSUME ConstantsAssumption ==
  /\ Relayable \subseteq Messages /\ Nonced \subseteq Messages
  /\ NULL \notin TxIds /\ FOREIGN \notin TxIds /\ NULL # FOREIGN
  /\ NULL \notin Messages
  /\ MAX_RELAY_RETRIES \in Nat
  /\ IRIS_POLL_CONCURRENCY \in Nat \ {0} /\ TICK_BATCH \in Nat \ {0}
  /\ Backoff \in [1..MAX_RELAY_RETRIES -> Nat \ {0}]
  /\ \A n \in 1..MAX_RELAY_RETRIES : n > 1 => Backoff[n] = 2 * Backoff[n - 1]
  /\ StuckTxThreshold \in Nat /\ MaxAttestationAge \in Nat
  /\ IrisMode \in {"iris", "mock"}
  /\ Faults \subseteq FaultKinds
  /\ MaxCrashes \in Nat

VARIABLES
  jobs,      \* Messages -> row of actor.cctp_jobs
  txs,       \* TxIds -> destination transaction
  received,  \* Messages -> what made the destination accept the message
  iris,      \* Messages -> has Iris the attestation
  at,        \* Actors -> where the instance's tick stands
  snap,      \* Actors -> rows listed by the running phase, still to do
  crashes    \* processes that died so far

vars == <<jobs, txs, received, iris, at, snap, crashes>>

-----------------------------------------------------------------------------
(* Rows, transactions and the tick's own state.                            *)

JobState == {"detected", "awaiting_attestation", "attested", "submitted",
             "delivered", "dead_letter", "skipped", "already_delivered"}

Terminal == {"delivered", "dead_letter", "skipped", "already_delivered"}

\* "none" is the absence of a row.  bytes: attestation and relay_message set.
Row == [state : JobState \union {"none"},
        bytes : BOOLEAN,
        retryAttempts : 0..MAX_RELAY_RETRIES,
        retryIn : Nat,
        submittedTxHash : TxIds \union {NULL},
        deliveredTxHash : TxIds \union {NULL},
        deadLetterReason : {"null", "skip", "expired", "retries-exhausted"},
        age : 0..(MaxAttestationAge + 1),
        subAge : 0..(StuckTxThreshold + 1)]

NoRow == [state |-> "none", bytes |-> FALSE, retryAttempts |-> 0,
          retryIn |-> 0, submittedTxHash |-> NULL, deliveredTxHash |-> NULL,
          deadLetterReason |-> "null", age |-> 0, subAge |-> 0]

newJob(state, reason) ==
  [NoRow EXCEPT !.state = state, !.deadLetterReason = reason]

Tx == [msg : Messages \union {NULL},
       status : {"unsent", "pending", "ok", "reverted", "dropped"}]

Phases == {"idle", "discover", "detected", "awaiting", "attested",
           "submitted", "scan"}

\* "next": between two rows; otherwise the await the row in hand is at.
Steps == {"next", "sent", "replayed", "failed", "ok", "reverted", "cleared",
          "noReceipt", "dropped"}

At == [phase : Phases, step : Steps, msg : Messages \union {NULL},
       tx : TxIds \union {NULL}]

Idle == [phase |-> "idle", step |-> "next", msg |-> NULL, tx |-> NULL]

NoRows == [m \in Messages |-> NoRow]

Todo(a) == {m \in Messages : snap[a][m].state # "none"}

Between(a, phase) == at[a].phase = phase /\ at[a].step = "next"

InHand(a, phase, step) == at[a].phase = phase /\ at[a].step = step

\* Rows are worked through in the order ORDER BY detected_at gave them.
NextUp(a, m) ==
  /\ m \in Todo(a)
  /\ \A k \in Todo(a) : snap[a][k].age <= snap[a][m].age

\* ORDER BY detected_at ASC LIMIT n over S; ties fall either way.
Oldest(S, n) ==
  {T \in SUBSET S :
     /\ Cardinality(T) = IF Cardinality(S) < n THEN Cardinality(S) ELSE n
     /\ \A x \in T, y \in S \ T : jobs[x].age >= jobs[y].age}

listByState(state) ==
  Oldest({m \in Messages : jobs[m].state = state}, TICK_BATCH)

\* Mutant: the update forgets AND state = from.
transition_Unguarded(m, from, row) == jobs' = [jobs EXCEPT ![m] = row]

\* UPDATE ... WHERE dedup_key = m AND state = from.
transition(m, from, row) ==
  jobs' = [jobs EXCEPT ![m] = IF jobs[m].state = from THEN row ELSE jobs[m]]

Enter(a, phase, S) ==
  /\ at' = [at EXCEPT ![a] = [Idle EXCEPT !.phase = phase]]
  /\ snap' = [snap EXCEPT ![a] =
                [m \in Messages |-> IF m \in S THEN jobs[m] ELSE NoRow]]

\* Row m is finished; the loop goes on to the next one.
Done(a, m) ==
  /\ at' = [at EXCEPT ![a] = [Idle EXCEPT !.phase = at[a].phase]]
  /\ snap' = [snap EXCEPT ![a][m] = NoRow]

Await(a, step, m, t) ==
  at' = [at EXCEPT ![a] = [phase |-> at[a].phase, step |-> step,
                           msg |-> m, tx |-> t]]

chain == <<txs, received, iris>>
-----------------------------------------------------------------------------
(* jobTick: discoverWork, the four state ticks, the fallback scanner.      *)

\* setInterval fires and no tick of this instance is running.
StartTick(a) ==
  /\ at[a].phase = "idle"
  /\ Enter(a, "discover", {})
  /\ UNCHANGED <<jobs, chain, crashes>>

\* Discovery or the scanner comes upon m.  The MessageReceived lookup reads
\* the index, which may lag the chain; the insert does nothing on conflict.
claimMessage(a, m) ==
  /\ Between(a, "discover") \/ Between(a, "scan")
  /\ jobs[m].state = "none"
  /\ \/ /\ m \notin Relayable
        /\ jobs' = [jobs EXCEPT ![m] = newJob("skipped", "skip")]
     \/ /\ m \in Relayable
        /\ jobs' = [jobs EXCEPT ![m] = newJob("detected", "null")]
     \/ /\ m \in Relayable \intersect Nonced
        /\ received[m] # NULL
        /\ jobs' = [jobs EXCEPT ![m] = newJob("already_delivered", "null")]
  /\ UNCHANGED <<chain, at, snap, crashes>>

ListDetected(a) ==
  /\ Between(a, "discover")
  /\ \E T \in listByState("detected") : Enter(a, "detected", T)
  /\ UNCHANGED <<jobs, chain, crashes>>

tickDetected(a, m) ==
  /\ Between(a, "detected") /\ NextUp(a, m)
  /\ transition(m, "detected",
       IF IrisMode = "mock"
       THEN [jobs[m] EXCEPT !.state = "attested", !.bytes = TRUE]
       ELSE [jobs[m] EXCEPT !.state = "awaiting_attestation"])
  /\ Done(a, m)
  /\ UNCHANGED <<chain, crashes>>

Expired(row) == row.age > MaxAttestationAge

\* The rows to expire and the first IRIS_POLL_CONCURRENCY of the others.
ListAwaiting(a) ==
  /\ Between(a, "detected") /\ Todo(a) = {}
  /\ \E T \in listByState("awaiting_attestation") :
       LET expired == {m \in T : Expired(jobs[m])}
       IN \E P \in Oldest(T \ expired, IRIS_POLL_CONCURRENCY) :
            Enter(a, "awaiting", expired \union P)
  /\ UNCHANGED <<jobs, chain, crashes>>

tickAwaitingExpired(a, m) ==
  /\ Between(a, "awaiting") /\ NextUp(a, m) /\ Expired(snap[a][m])
  /\ transition(m, "awaiting_attestation",
       [jobs[m] EXCEPT !.state = "dead_letter", !.deadLetterReason = "expired"])
  /\ Done(a, m)
  /\ UNCHANGED <<chain, crashes>>

\* IrisClient.fetch answers "complete": Iris lists the message, its bytes match
\* ours outside the slots Circle fills in, and the attestation looks like one.
fetchComplete(m) == IrisMode = "mock" \/ iris[m]

\* Polls run under Promise.all, once every expired row is written.  A fetch
\* that finds nothing, or fails, only writes the poll counters.
pollOne(a, m) ==
  /\ Between(a, "awaiting") /\ m \in Todo(a)
  /\ \A k \in Todo(a) : ~Expired(snap[a][k])
  /\ \/ /\ fetchComplete(m)
        /\ transition(m, "awaiting_attestation",
             [jobs[m] EXCEPT !.state = "attested", !.bytes = TRUE])
     \/ /\ IrisMode = "iris"
        /\ UNCHANGED jobs
  /\ Done(a, m)
  /\ UNCHANGED <<chain, crashes>>

\* Rows whose next_retry_at lies ahead of the tick's now are passed over.
ListAttested(a) ==
  /\ Between(a, "awaiting") /\ Todo(a) = {}
  /\ \E T \in listByState("attested") :
       Enter(a, "attested", {m \in T : jobs[m].retryIn = 0})
  /\ UNCHANGED <<jobs, chain, crashes>>

\* An attested row without bytes (imported from v1) goes back to polling.
tickAttestedRepoll(a, m) ==
  /\ Between(a, "attested") /\ NextUp(a, m) /\ ~snap[a][m].bytes
  /\ transition(m, "attested",
       [jobs[m] EXCEPT !.state = "awaiting_attestation"])
  /\ Done(a, m)
  /\ UNCHANGED <<chain, crashes>>
-----------------------------------------------------------------------------
(* Submission.  submitRelayWithHook ends in one of four ways.              *)

MayBroadcast(a, m) ==
  Between(a, "attested") /\ NextUp(a, m) /\ snap[a][m].bytes

Send(m, t) ==
  /\ txs[t].status = "unsent"
  /\ txs' = [txs EXCEPT ![t] = [msg |-> m, status |-> "pending"]]

BroadcastSent(a, m) ==
  /\ MayBroadcast(a, m)
  /\ \E t \in TxIds : Send(m, t) /\ Await(a, "sent", m, t)
  /\ UNCHANGED <<jobs, received, iris, snap, crashes>>

\* The transaction reached the mempool, the answer did not reach us.
BroadcastLost(a, m) ==
  /\ "lostResponse" \in Faults
  /\ MayBroadcast(a, m)
  /\ \E t \in TxIds : Send(m, t)
  /\ Await(a, "failed", m, NULL)
  /\ UNCHANGED <<jobs, received, iris, snap, crashes>>

\* The destination rejects a message it has: a marker of line 15.
BroadcastReplay(a, m) ==
  /\ MayBroadcast(a, m)
  /\ received[m] # NULL
  /\ Await(a, "replayed", m, NULL)
  /\ UNCHANGED <<jobs, chain, snap, crashes>>

BroadcastError(a, m) ==
  /\ MayBroadcast(a, m)
  /\ Await(a, "failed", m, NULL)
  /\ UNCHANGED <<jobs, chain, snap, crashes>>

SubmittedRow(m, t) ==
  [jobs[m] EXCEPT !.state = "submitted", !.submittedTxHash = t,
                  !.subAge = 0, !.retryIn = 0]

\* Mutant: the hash of a successful broadcast is not written.
recordSubmitted_Forgotten(a) ==
  /\ InHand(a, "attested", "sent")
  /\ Done(a, at[a].msg)
  /\ UNCHANGED <<jobs, chain, crashes>>

recordSubmitted(a) ==
  LET m == at[a].msg IN
  /\ InHand(a, "attested", "sent")
  /\ transition(m, "attested", SubmittedRow(m, at[a].tx))
  /\ Done(a, m)
  /\ UNCHANGED <<chain, crashes>>

\* The update is inside the same try as the broadcast: when it throws,
\* committed or not, the attempt is booked as a failed broadcast.
recordSubmittedThrows(a) ==
  LET m == at[a].msg IN
  /\ "throw" \in Faults
  /\ InHand(a, "attested", "sent")
  /\ \/ UNCHANGED jobs
     \/ transition(m, "attested", SubmittedRow(m, at[a].tx))
  /\ Await(a, "failed", m, NULL)
  /\ UNCHANGED <<chain, snap, crashes>>

recordAlreadyDelivered(a) ==
  LET m == at[a].msg IN
  /\ InHand(a, "attested", "replayed")
  /\ transition(m, "attested", [jobs[m] EXCEPT !.state = "already_delivered"])
  /\ Done(a, m)
  /\ UNCHANGED <<chain, crashes>>

\* Mutants: give up one attempt early, one attempt late.
FailureWithLimit(a, limit) ==
  LET m == at[a].msg
      attempts == snap[a][m].retryAttempts + 1
  IN
  /\ at[a].step = "failed"
  /\ transition(m, "attested",
       IF attempts > limit
       THEN [jobs[m] EXCEPT !.state = "dead_letter",
                            !.deadLetterReason = "retries-exhausted"]
       ELSE [jobs[m] EXCEPT !.retryAttempts = attempts, !.retryIn = 1])
  /\ Done(a, m)
  /\ UNCHANGED <<chain, crashes>>

recordSubmissionFailure_Early(a) == FailureWithLimit(a, MAX_RELAY_RETRIES - 1)
recordSubmissionFailure_Late(a) == FailureWithLimit(a, MAX_RELAY_RETRIES + 1)

\* Called from tickAttested with the listed row, from tickSubmitted with a
\* fresh one; attempts come from that row, not from the table.
recordSubmissionFailure(a) ==
  LET m == at[a].msg
      attempts == snap[a][m].retryAttempts + 1
  IN
  /\ at[a].step = "failed"
  /\ transition(m, "attested",
       IF attempts > MAX_RELAY_RETRIES
       THEN [jobs[m] EXCEPT !.state = "dead_letter",
                            !.deadLetterReason = "retries-exhausted"]
       ELSE [jobs[m] EXCEPT !.retryAttempts = attempts,
                            !.retryIn = Backoff[attempts]])
  /\ Done(a, m)
  /\ UNCHANGED <<chain, crashes>>
-----------------------------------------------------------------------------
(* Receipts and stuck transactions.                                        *)

ListSubmitted(a) ==
  /\ Between(a, "attested") /\ Todo(a) = {}
  /\ \E T \in listByState("submitted") :
       Enter(a, "submitted", {m \in T : jobs[m].submittedTxHash # NULL})
  /\ UNCHANGED <<jobs, chain, crashes>>

\* Mutants: any receipt counts as success; no receipt counts as a revert.
ReceiptReadAs(a, m, step) ==
  LET t == snap[a][m].submittedTxHash IN
  /\ Between(a, "submitted") /\ NextUp(a, m)
  /\ Await(a, step[txs[t].status], m, t)
  /\ UNCHANGED <<jobs, chain, crashes, snap>>

getReceipt_AnyStatus(a, m) ==
  ReceiptReadAs(a, m, [pending |-> "noReceipt", dropped |-> "noReceipt",
                       ok |-> "ok", reverted |-> "ok"])
getReceipt_NullIsRevert(a, m) ==
  ReceiptReadAs(a, m, [pending |-> "reverted", dropped |-> "reverted",
                       ok |-> "ok", reverted |-> "reverted"])

\* getReceipt; without one, the row is left alone until it is stuck, judged
\* by the now read before the call.
getReceipt(a, m) ==
  LET t == snap[a][m].submittedTxHash IN
  /\ Between(a, "submitted") /\ NextUp(a, m)
  /\ \/ /\ txs[t].status \in {"ok", "reverted"}
        /\ Await(a, txs[t].status, m, t)
        /\ UNCHANGED snap
     \/ /\ txs[t].status \notin {"ok", "reverted"}
        /\ snap[a][m].subAge > StuckTxThreshold
        /\ Await(a, "noReceipt", m, t)
        /\ UNCHANGED snap
     \/ /\ txs[t].status \notin {"ok", "reverted"}
        /\ snap[a][m].subAge <= StuckTxThreshold
        /\ Done(a, m)
  /\ UNCHANGED <<jobs, chain, crashes>>

recordDelivered(a) ==
  LET m == at[a].msg IN
  /\ InHand(a, "submitted", "ok")
  /\ transition(m, "submitted",
       [jobs[m] EXCEPT !.state = "delivered", !.deliveredTxHash = at[a].tx])
  /\ Done(a, m)
  /\ UNCHANGED <<chain, crashes>>

ClearedRow(m) ==
  [jobs[m] EXCEPT !.state = "attested", !.submittedTxHash = NULL, !.subAge = 0]

\* A reverted delivery: back to attested, then booked as a failure, in two
\* updates with a read between them.
clearReverted(a) ==
  LET m == at[a].msg IN
  /\ InHand(a, "submitted", "reverted")
  /\ transition(m, "submitted", ClearedRow(m))
  /\ \/ /\ jobs[m].state = "submitted"
        /\ Await(a, "cleared", m, NULL)
        /\ UNCHANGED snap
     \/ /\ jobs[m].state # "submitted"
        /\ Done(a, m)
  /\ UNCHANGED <<chain, crashes>>

refetchReverted(a) ==
  LET m == at[a].msg IN
  /\ InHand(a, "submitted", "cleared")
  /\ \/ /\ jobs[m].state = "attested"
        /\ Await(a, "failed", m, NULL)
        /\ snap' = [snap EXCEPT ![a][m] = jobs[m]]
     \/ /\ jobs[m].state # "attested"
        /\ Done(a, m)
  /\ UNCHANGED <<jobs, chain, crashes>>

\* Mutants: resubmit without asking the mempool; wait whatever it answers.
isInMempool_NotAsked(a) ==
  /\ InHand(a, "submitted", "noReceipt")
  /\ Await(a, "dropped", at[a].msg, at[a].tx)
  /\ UNCHANGED <<jobs, chain, snap, crashes>>
isInMempool_WaitsForEver(a) ==
  /\ InHand(a, "submitted", "noReceipt")
  /\ Done(a, at[a].msg)
  /\ UNCHANGED <<jobs, chain, crashes>>

\* getTransaction finds pending and mined transactions, not dropped ones.
isInMempool(a) ==
  LET m == at[a].msg IN
  /\ InHand(a, "submitted", "noReceipt")
  /\ \/ /\ txs[at[a].tx].status # "dropped"
        /\ Done(a, m)
     \/ /\ txs[at[a].tx].status = "dropped"
        /\ Await(a, "dropped", m, at[a].tx)
        /\ UNCHANGED snap
  /\ UNCHANGED <<jobs, chain, crashes>>

recoverStuck(a) ==
  LET m == at[a].msg IN
  /\ InHand(a, "submitted", "dropped")
  /\ transition(m, "submitted", ClearedRow(m))
  /\ Done(a, m)
  /\ UNCHANGED <<chain, crashes>>

StartScan(a) ==
  /\ Between(a, "submitted") /\ Todo(a) = {}
  /\ Enter(a, "scan", {})
  /\ UNCHANGED <<jobs, chain, crashes>>

EndTick(a) ==
  /\ Between(a, "scan")
  /\ Enter(a, "idle", {})
  /\ UNCHANGED <<jobs, chain, crashes>>
-----------------------------------------------------------------------------
(* Failures of the actor.                                                  *)

\* The awaits outside tickAttested's try: an error there ends the tick.
CanThrow(a) ==
  /\ at[a].phase # "idle"
  /\ at[a].step # "sent"
  /\ Between(a, "attested") =>
       Todo(a) = {} \/ \E m \in Messages : NextUp(a, m) /\ ~snap[a][m].bytes

AbortTick(a) ==
  /\ "throw" \in Faults
  /\ CanThrow(a)
  /\ Enter(a, "idle", {})
  /\ UNCHANGED <<jobs, chain, crashes>>

\* The process dies; a new one starts with the table and nothing else.
Crash(a) ==
  /\ crashes < MaxCrashes
  /\ at[a].phase # "idle"
  /\ crashes' = crashes + 1
  /\ Enter(a, "idle", {})
  /\ UNCHANGED <<jobs, chain>>
-----------------------------------------------------------------------------
(* Iris, the destination chain, time.                                      *)

IrisAttest(m) ==
  /\ ~iris[m]
  /\ iris' = [iris EXCEPT ![m] = TRUE]
  /\ UNCHANGED <<jobs, txs, received, at, snap, crashes>>

\* A transaction is mined; the destination accepts a message once.
Mine(t) ==
  LET m == txs[t].msg IN
  /\ txs[t].status = "pending"
  /\ \/ /\ received[m] = NULL
        /\ txs' = [txs EXCEPT ![t].status = "ok"]
        /\ received' = [received EXCEPT ![m] = t]
     \/ /\ received[m] # NULL
        /\ txs' = [txs EXCEPT ![t].status = "reverted"]
        /\ UNCHANGED received
  /\ UNCHANGED <<jobs, iris, at, snap, crashes>>

\* Mined and reverted for a reason of its own: gas, the hook's own failure.
Revert(t) ==
  /\ "revertTx" \in Faults
  /\ txs[t].status = "pending"
  /\ txs' = [txs EXCEPT ![t].status = "reverted"]
  /\ UNCHANGED <<jobs, received, iris, at, snap, crashes>>

Drop(t) ==
  /\ "dropTx" \in Faults
  /\ txs[t].status = "pending"
  /\ txs' = [txs EXCEPT ![t].status = "dropped"]
  /\ UNCHANGED <<jobs, received, iris, at, snap, crashes>>

ForeignDelivery(m) ==
  /\ "foreign" \in Faults
  /\ iris[m] \/ IrisMode = "mock"
  /\ received[m] = NULL
  /\ received' = [received EXCEPT ![m] = FOREIGN]
  /\ UNCHANGED <<jobs, txs, iris, at, snap, crashes>>

Later(x, cap) == IF x < cap THEN x + 1 ELSE x
Sooner(x) == IF x > 0 THEN x - 1 ELSE x

\* Rows that exist grow older; a listed row keeps the age and the retry time
\* the tick's now gave it, while its stuck check reads the clock afresh.
Elapse ==
  /\ jobs' = [m \in Messages |->
       IF jobs[m].state \in Terminal \union {"none"} THEN jobs[m]
       ELSE [jobs[m] EXCEPT
               !.age = Later(@, MaxAttestationAge + 1),
               !.retryIn = Sooner(@),
               !.subAge = IF jobs[m].state = "submitted"
                          THEN Later(@, StuckTxThreshold + 1) ELSE @]]
  /\ snap' = [a \in Actors |-> [m \in Messages |->
       IF snap[a][m].state # "submitted" THEN snap[a][m]
       ELSE [snap[a][m] EXCEPT !.subAge = Later(@, StuckTxThreshold + 1)]]]
  /\ UNCHANGED <<chain, at, crashes>>
-----------------------------------------------------------------------------
(* The table starts empty, or with rows import-v1-state.ts wrote: attested *)
(* without relay bytes, or submitted with the hash of a v1 transaction.    *)
Imported(A, S, hash) ==
  /\ A \intersect S = {}
  /\ \A m, n \in S : hash[m] = hash[n] => m = n
  /\ jobs = [m \in Messages |->
       IF m \in A THEN newJob("attested", "null")
       ELSE IF m \in S
       THEN [newJob("submitted", "null") EXCEPT !.submittedTxHash = hash[m]]
       ELSE NoRow]
  /\ txs = [t \in TxIds |->
       IF \E m \in S : hash[m] = t
       THEN [msg |-> CHOOSE m \in S : hash[m] = t, status |-> "pending"]
       ELSE [msg |-> NULL, status |-> "unsent"]]

Init ==
  /\ \E A, S \in SUBSET Relayable, hash \in [Messages -> TxIds] :
       Imported(A, S, hash)
  /\ received = [m \in Messages |-> NULL]
  /\ iris = [m \in Messages |-> FALSE]
  /\ at = [a \in Actors |-> Idle]
  /\ snap = [a \in Actors |-> NoRows]
  /\ crashes = 0

\* What a running tick does next, whatever the answers it gets.
TickStep(a) ==
  \/ StartTick(a) \/ ListDetected(a) \/ ListAwaiting(a) \/ ListAttested(a)
  \/ ListSubmitted(a) \/ StartScan(a) \/ EndTick(a)
  \/ \E m \in Messages :
       \/ tickDetected(a, m) \/ tickAwaitingExpired(a, m) \/ pollOne(a, m)
       \/ tickAttestedRepoll(a, m) \/ BroadcastSent(a, m)
       \/ BroadcastReplay(a, m) \/ BroadcastError(a, m) \/ getReceipt(a, m)
  \/ recordSubmitted(a) \/ recordAlreadyDelivered(a)
  \/ recordSubmissionFailure(a) \/ recordDelivered(a) \/ clearReverted(a)
  \/ refetchReverted(a) \/ isInMempool(a) \/ recoverStuck(a)

Fault(a) ==
  \/ \E m \in Messages : BroadcastLost(a, m)
  \/ recordSubmittedThrows(a) \/ AbortTick(a) \/ Crash(a)

Environment ==
  \/ \E m \in Messages : IrisAttest(m) \/ ForeignDelivery(m)
  \/ \E t \in TxIds : Mine(t) \/ Revert(t) \/ Drop(t)
  \/ Elapse

Next ==
  \/ \E a \in Actors : TickStep(a) \/ Fault(a)
  \/ \E a \in Actors, m \in Messages : claimMessage(a, m)
  \/ Environment

\* setInterval keeps ticks coming and every await is answered; the clock
\* runs; a transaction in the mempool is mined unless it drops out.
Fairness ==
  /\ \A a \in Actors : WF_vars(TickStep(a))
  /\ \A t \in TxIds : WF_vars(Mine(t))
  /\ WF_vars(Elapse)

Spec == Init /\ [][Next]_vars
FairSpec == Spec /\ Fairness
-----------------------------------------------------------------------------
(* Properties.                                                             *)

\* Type invariant of the pipeline's tables, transactions and tick state.
TypeOK ==
  /\ jobs \in [Messages -> Row]
  /\ txs \in [TxIds -> Tx]
  /\ received \in [Messages -> TxIds \union {NULL, FOREIGN}]
  /\ iris \in [Messages -> BOOLEAN]
  /\ at \in [Actors -> At]
  /\ snap \in [Actors -> [Messages -> Row]]
  /\ crashes \in 0..MaxCrashes

\* A row says delivered only with the hash of the very transaction that made
\* the destination accept this message (recordDelivered writes a hash that
\* was read several awaits, and possibly another instance's updates, ago).
DeliveredSound ==
  \A m \in Messages : jobs[m].state = "delivered" =>
    /\ received[m] \in TxIds
    /\ received[m] = jobs[m].deliveredTxHash
    /\ txs[received[m]] = [msg |-> m, status |-> "ok"]

\* Every transaction that may still deliver, or has delivered, is accounted
\* for: by the row that polls for its receipt, by the broadcast whose hash is
\* about to be written, or by the row that recorded the delivery.
Accounted(t) ==
  LET m == txs[t].msg IN
  \/ jobs[m].state = "submitted" /\ jobs[m].submittedTxHash = t
  \/ \E a \in Actors : InHand(a, "attested", "sent") /\ at[a].tx = t
  \/ /\ txs[t].status = "ok"
     /\ jobs[m].state = "delivered" /\ jobs[m].deliveredTxHash = t

InFlightTracked ==
  \A t \in TxIds : txs[t].status \in {"pending", "ok"} => Accounted(t)

\* A message is not broadcast again while an earlier transaction for it is
\* still in the mempool ("no blind resubmit").
NoBlindResubmit ==
  [][\A t \in TxIds : txs[t].status = "unsent" /\ txs'[t].status = "pending" =>
       \A u \in TxIds : ~(txs[u].status = "pending" /\ txs[u].msg = txs'[t].msg)]_vars

\* A message our own transaction delivered is never written off as somebody
\* else's delivery or as a dead letter, so /cctp/delivered gets to serve it.
OwnDeliveryRecorded ==
  \A m \in Messages : received[m] \in TxIds =>
    jobs[m].state \notin {"already_delivered", "dead_letter"}

\* A job is given up for its retries only when all of MAX_RELAY_RETRIES have
\* been booked, however receipts, reverts and recoveries were interleaved.
RetriesExhausted ==
  \A m \in Messages : jobs[m].deadLetterReason = "retries-exhausted" =>
    jobs[m].state = "dead_letter" /\ jobs[m].retryAttempts = MAX_RELAY_RETRIES

\* Who made the destination accept a message.
LandedBy(by) ==
  IF by = NULL THEN "no" ELSE IF by = FOREIGN THEN "other" ELSE "relayer"

\* The pipeline implements the promise of RelayLifecycle.
Lifecycle ==
  INSTANCE RelayLifecycle WITH
    status <- [m \in Messages |-> jobs[m].state],
    landed <- [m \in Messages |-> LandedBy(received[m])]

\* Every step of the pipeline, failures and other instances included, is a
\* step RelayLifecycle allows or changes nothing it can see.
ImplementsLifecycle == Lifecycle!Spec

\* Every claimed message reaches a terminal state: attestations expire,
\* retries run out, a stuck transaction is found mined, reverted or dropped.
EventuallyTerminal ==
  \A m \in Messages :
    jobs[m].state # "none" ~> jobs[m].state \in Terminal
=============================================================================
