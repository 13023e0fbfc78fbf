--------------------------- MODULE CctpJobsProofs ---------------------------
(* Proofs about CctpJobs, for any messages, hashes, instances and bounds. *)
EXTENDS CctpJobs, TLAPS

-----------------------------------------------------------------------------
(* The inductive invariant. *)

\* A tick past the read of a row holds that row's message.
InHandInv ==
  \A a \in Actors :
    IF at[a].step = "next" THEN at[a].msg = NULL ELSE at[a].msg \in Messages

Typed == TypeOK /\ InHandInv

\* t is a transaction that was sent, and sent for m.
SentFor(m, t, T) == t \in TxIds /\ T[t].msg = m /\ T[t].status # "unsent"

Landed(m, t, T) == t \in TxIds /\ T[t] = [msg |-> m, status |-> "ok"]

\* What a row of the table, or a listed copy of it, may claim about m, given
\* the transactions T and the receptions R at the destination.
RowSound(m, row, T, R) ==
  /\ row.submittedTxHash # NULL => SentFor(m, row.submittedTxHash, T)
  /\ row.state = "delivered" => Landed(m, row.deliveredTxHash, T)
  /\ row.state = "already_delivered" => R[m] # NULL

\* What the tick may claim about the message in hand, and that every row it
\* still has to poll carries a hash.
HandSound(h, rows, T, R) ==
  /\ h.step = "sent" => SentFor(h.msg, h.tx, T)
  /\ h.step = "ok" => Landed(h.msg, h.tx, T)
  /\ h.step = "replayed" => R[h.msg] # NULL
  /\ h.phase = "submitted" =>
       \A m \in Messages : rows[m].state # "none" /\ m # h.msg =>
         rows[m].submittedTxHash # NULL

ChainSound(T, R) ==
  \A t \in TxIds :
    /\ T[t].status # "unsent" => T[t].msg \in Messages
    /\ T[t].status = "ok" => R[T[t].msg] = t

TableSound == \A m \in Messages : RowSound(m, jobs[m], txs, received)

TicksSound ==
  \A a \in Actors :
    /\ \A m \in Messages : RowSound(m, snap[a][m], txs, received)
    /\ HandSound(at[a], snap[a], txs, received)

Sound == Typed /\ ChainSound(txs, received) /\ TableSound /\ TicksSound

\* What the chain knows it does not forget.
Grows ==
  /\ \A t \in TxIds : txs[t].status # "unsent" =>
       txs'[t].msg = txs[t].msg /\ txs'[t].status # "unsent"
  /\ \A t \in TxIds : txs[t].status = "ok" => txs'[t] = txs[t]
  /\ \A m \in Messages : received[m] # NULL => received'[m] = received[m]

-----------------------------------------------------------------------------
LEMMA NoRowType == NoRow \in Row
  BY ConstantsAssumption DEF NoRow, Row, JobState

LEMMA NewJobType ==
  ASSUME NEW s \in JobState, NEW r \in {"null", "skip", "expired", "retries-exhausted"}
  PROVE  /\ newJob(s, r) \in Row
         /\ newJob(s, r).state = s
         /\ newJob(s, r).submittedTxHash = NULL
  BY NoRowType DEF newJob, Row, NoRow, JobState

\* A guarded update leaves every row a row.
LEMMA TransitionType ==
  ASSUME TypeOK, NEW m \in Messages, NEW from, NEW row \in Row,
         transition(m, from, row)
  PROVE  jobs' \in [Messages -> Row]
  BY DEF TypeOK, transition

LEMMA EnterType ==
  ASSUME Typed, NEW a \in Actors, NEW p \in Phases, NEW S, Enter(a, p, S)
  PROVE  /\ at' \in [Actors -> At] /\ snap' \in [Actors -> [Messages -> Row]]
         /\ InHandInv'
  <1>1. [Idle EXCEPT !.phase = p] \in At
    BY DEF Idle, At, Phases, Steps
  <1>2. [m \in Messages |-> IF m \in S THEN jobs[m] ELSE NoRow] \in [Messages -> Row]
    BY NoRowType DEF Typed, TypeOK
  <1>3. at' \in [Actors -> At] /\ snap' \in [Actors -> [Messages -> Row]]
    BY <1>1, <1>2 DEF Enter, Typed, TypeOK
  <1>4. InHandInv'
    BY DEF Enter, Typed, TypeOK, InHandInv, Idle
  <1> QED BY <1>3, <1>4

LEMMA DoneType ==
  ASSUME Typed, NEW a \in Actors, NEW m \in Messages, Done(a, m)
  PROVE  /\ at' \in [Actors -> At] /\ snap' \in [Actors -> [Messages -> Row]]
         /\ InHandInv'
  <1>1. [Idle EXCEPT !.phase = at[a].phase] \in At
    BY DEF Idle, At, Steps, Typed, TypeOK
  <1>2. at' \in [Actors -> At] /\ snap' \in [Actors -> [Messages -> Row]]
    BY <1>1, NoRowType DEF Done, Typed, TypeOK
  <1>3. InHandInv'
    BY DEF Done, Typed, TypeOK, InHandInv, Idle
  <1> QED BY <1>2, <1>3

LEMMA AwaitType ==
  ASSUME Typed, NEW a \in Actors, NEW m \in Messages,
         NEW s \in Steps \ {"next"}, NEW t \in TxIds \union {NULL},
         Await(a, s, m, t)
  PROVE  at' \in [Actors -> At] /\ InHandInv'
  <1>1. [phase |-> at[a].phase, step |-> s, msg |-> m, tx |-> t] \in At
    BY DEF At, Typed, TypeOK
  <1>2. at' \in [Actors -> At]
    BY <1>1 DEF Await, Typed, TypeOK
  <1>3. InHandInv'
    BY DEF Await, Typed, TypeOK, InHandInv
  <1> QED BY <1>2, <1>3

LEMMA InitTyped == Init => Typed
  <1> SUFFICES ASSUME Init PROVE Typed
    OBVIOUS
  <1>1. PICK A, S \in SUBSET Relayable, hash \in [Messages -> TxIds] :
          Imported(A, S, hash)
    BY DEF Init
  <1>2. jobs \in [Messages -> Row]
    <2>1. newJob("attested", "null") \in Row /\ newJob("submitted", "null") \in Row
      BY NewJobType DEF JobState
    <2>2. \A m \in Messages :
            [newJob("submitted", "null") EXCEPT !.submittedTxHash = hash[m]] \in Row
      BY <2>1 DEF Row
    <2> QED BY <1>1, <2>1, <2>2, NoRowType DEF Imported
  <1>3. txs \in [TxIds -> Tx]
    <2>1. \A t \in TxIds : (\E m \in S : hash[m] = t) =>
            (CHOOSE m \in S : hash[m] = t) \in Messages
      BY ConstantsAssumption
    <2> QED BY <1>1, <2>1 DEF Tx, Imported
  <1>4. at \in [Actors -> At] /\ InHandInv
    BY DEF Init, Idle, At, Phases, Steps, InHandInv
  <1>5. /\ snap \in [Actors -> [Messages -> Row]]
        /\ received \in [Messages -> TxIds \union {NULL, FOREIGN}]
        /\ iris \in [Messages -> BOOLEAN] /\ crashes \in 0..MaxCrashes
    BY NoRowType, ConstantsAssumption DEF Init, NoRows
  <1> QED BY <1>2, <1>3, <1>4, <1>5 DEF Typed, TypeOK

\* The rows the actions write.
LEMMA RowUpdates ==
  ASSUME TypeOK, NEW m \in Messages
  PROVE  /\ jobs[m] \in Row
         /\ [jobs[m] EXCEPT !.state = "attested", !.bytes = TRUE] \in Row
         /\ [jobs[m] EXCEPT !.state = "awaiting_attestation"] \in Row
         /\ [jobs[m] EXCEPT !.state = "already_delivered"] \in Row
         /\ [jobs[m] EXCEPT !.state = "dead_letter", !.deadLetterReason = "expired"] \in Row
         /\ [jobs[m] EXCEPT !.state = "dead_letter",
                            !.deadLetterReason = "retries-exhausted"] \in Row
         /\ ClearedRow(m) \in Row
         /\ \A t \in TxIds \union {NULL} :
              /\ SubmittedRow(m, t) \in Row
              /\ [jobs[m] EXCEPT !.state = "delivered", !.deliveredTxHash = t] \in Row
         /\ \A n \in 1..MAX_RELAY_RETRIES :
              [jobs[m] EXCEPT !.retryAttempts = n, !.retryIn = Backoff[n]] \in Row
  <1>1. jobs[m] \in Row
    BY DEF TypeOK
  <1>2. 0 \in 0..(StuckTxThreshold + 1)
    BY ConstantsAssumption
  <1>3. \A n \in 1..MAX_RELAY_RETRIES : n \in 0..MAX_RELAY_RETRIES /\ Backoff[n] \in Nat
    BY ConstantsAssumption
  <1> QED BY <1>1, <1>2, <1>3 DEF Row, JobState, ClearedRow, SubmittedRow

\* The phases of a tick that only list rows or finish.
LEMMA TypedPhases ==
  ASSUME Typed, NEW a \in Actors,
         \/ StartTick(a) \/ ListDetected(a) \/ ListAwaiting(a) \/ ListAttested(a)
         \/ ListSubmitted(a) \/ StartScan(a) \/ EndTick(a) \/ AbortTick(a) \/ Crash(a)
  PROVE  Typed'
  <1>1. \E p \in Phases : \E S : Enter(a, p, S)
    BY DEF StartTick, ListDetected, ListAwaiting, ListAttested, ListSubmitted,
           StartScan, EndTick, AbortTick, Crash, Phases
  <1>2. /\ at' \in [Actors -> At] /\ snap' \in [Actors -> [Messages -> Row]]
        /\ InHandInv'
    BY <1>1, EnterType
  <1>3. UNCHANGED <<jobs, txs, received, iris>>
    BY DEF StartTick, ListDetected, ListAwaiting, ListAttested, ListSubmitted,
           StartScan, EndTick, AbortTick, Crash, chain
  <1>4. crashes' \in 0..MaxCrashes
    BY ConstantsAssumption
    DEF StartTick, ListDetected, ListAwaiting, ListAttested, ListSubmitted,
        StartScan, EndTick, AbortTick, Crash, Typed, TypeOK
  <1> QED BY <1>2, <1>3, <1>4 DEF Typed, TypeOK

\* The steps that update a row by a guarded transition, and no more.
LEMMA TypedWrites ==
  ASSUME Typed, NEW a \in Actors, NEW m \in Messages, NEW row \in Row, NEW from,
         transition(m, from, row) \/ UNCHANGED jobs,
         Done(a, m), UNCHANGED <<chain, crashes>>
  PROVE  Typed'
  <1>1. jobs' \in [Messages -> Row]
    BY TransitionType DEF Typed, TypeOK
  <1> QED BY <1>1, DoneType DEF Typed, TypeOK, chain

\* The steps that only move the tick to its next await.
LEMMA TypedAwaits ==
  ASSUME Typed, NEW a \in Actors, NEW m \in Messages,
         NEW s \in Steps \ {"next"}, NEW t \in TxIds \union {NULL},
         Await(a, s, m, t), UNCHANGED <<jobs, chain, crashes>>,
         snap' \in [Actors -> [Messages -> Row]]
  PROVE  Typed'
  BY AwaitType DEF Typed, TypeOK, chain

LEMMA TypedTick ==
  ASSUME Typed, NEW a \in Actors, TickStep(a)
  PROVE  Typed'
  <1> USE DEF Typed
  <1> DEFINE h == at[a].msg
  <1>h. at[a].step # "next" => h \in Messages
    BY DEF InHandInv
  <1>t. at[a].tx \in TxIds \union {NULL}
    BY DEF TypeOK, At
  <1>1. CASE \/ StartTick(a) \/ ListDetected(a) \/ ListAwaiting(a)
             \/ ListAttested(a) \/ ListSubmitted(a) \/ StartScan(a) \/ EndTick(a)
    BY <1>1, TypedPhases
  <1>2. ASSUME NEW m \in Messages, tickDetected(a, m) PROVE Typed'
    BY <1>2, TypedWrites, RowUpdates DEF tickDetected
  <1>3. ASSUME NEW m \in Messages, tickAwaitingExpired(a, m) PROVE Typed'
    BY <1>3, TypedWrites, RowUpdates DEF tickAwaitingExpired
  <1>4. ASSUME NEW m \in Messages, pollOne(a, m) PROVE Typed'
    BY <1>4, TypedWrites, RowUpdates DEF pollOne
  <1>5. ASSUME NEW m \in Messages, tickAttestedRepoll(a, m) PROVE Typed'
    BY <1>5, TypedWrites, RowUpdates DEF tickAttestedRepoll
  <1>6. ASSUME NEW m \in Messages, BroadcastSent(a, m) PROVE Typed'
    <2>1. PICK t \in TxIds : Send(m, t) /\ Await(a, "sent", m, t)
      BY <1>6 DEF BroadcastSent
    <2>2. txs' \in [TxIds -> Tx]
      BY <2>1 DEF Send, TypeOK, Tx
    <2>3. at' \in [Actors -> At] /\ InHandInv'
      BY <2>1, AwaitType DEF Steps
    <2> QED BY <1>6, <2>2, <2>3 DEF BroadcastSent, TypeOK
  <1>7. ASSUME NEW m \in Messages, BroadcastReplay(a, m) \/ BroadcastError(a, m)
        PROVE  Typed'
    BY <1>7, TypedAwaits DEF BroadcastReplay, BroadcastError, Steps, TypeOK
  <1>8. ASSUME NEW m \in Messages, getReceipt(a, m) PROVE Typed'
    <2>1. snap[a][m].submittedTxHash \in TxIds \union {NULL}
      BY DEF TypeOK, Row
    <2>2. CASE Done(a, m)
      BY <1>8, <2>2, TypedWrites, RowUpdates DEF getReceipt
    <2>3. CASE ~Done(a, m)
      BY <1>8, <2>1, <2>3, TypedAwaits DEF getReceipt, Steps, TypeOK
    <2> QED BY <2>2, <2>3
  <1>9. CASE recordSubmitted(a)
    BY <1>9, <1>h, <1>t, TypedWrites, RowUpdates DEF recordSubmitted, InHand
  <1>10. CASE recordAlreadyDelivered(a)
    BY <1>10, <1>h, TypedWrites, RowUpdates DEF recordAlreadyDelivered, InHand
  <1>11. CASE recordSubmissionFailure(a)
    <2> DEFINE n == snap[a][h].retryAttempts + 1
    <2>1. h \in Messages
      BY <1>11, <1>h DEF recordSubmissionFailure
    <2>2. n \in 1..(MAX_RELAY_RETRIES + 1)
      BY <2>1, ConstantsAssumption DEF TypeOK, Row
    <2>3. ~(n > MAX_RELAY_RETRIES) => n \in 1..MAX_RELAY_RETRIES
      BY <2>2, ConstantsAssumption
    <2> QED BY <1>11, <2>1, <2>3, TypedWrites, RowUpdates DEF recordSubmissionFailure
  <1>12. CASE recordDelivered(a)
    BY <1>12, <1>h, <1>t, TypedWrites, RowUpdates DEF recordDelivered, InHand
  <1>13. CASE clearReverted(a)
    <2>1. h \in Messages
      BY <1>13, <1>h DEF clearReverted, InHand
    <2>2. CASE Done(a, h)
      BY <1>13, <2>1, <2>2, TypedWrites, RowUpdates DEF clearReverted
    <2>3. CASE ~Done(a, h)
      <3>1. jobs' \in [Messages -> Row]
        BY <1>13, <2>1, TransitionType, RowUpdates DEF clearReverted
      <3>2. at' \in [Actors -> At] /\ InHandInv'
        BY <1>13, <2>1, <2>3, AwaitType DEF clearReverted, Steps
      <3> QED BY <1>13, <2>3, <3>1, <3>2 DEF clearReverted, TypeOK, chain
    <2> QED BY <2>2, <2>3
  <1>14. CASE refetchReverted(a)
    <2>1. h \in Messages
      BY <1>14, <1>h DEF refetchReverted, InHand
    <2>2. CASE Done(a, h)
      BY <1>14, <2>1, <2>2, TypedWrites, RowUpdates DEF refetchReverted
    <2>3. CASE ~Done(a, h)
      <3>1. snap' \in [Actors -> [Messages -> Row]]
        BY <1>14, <2>1, <2>3 DEF refetchReverted, TypeOK
      <3> QED BY <1>14, <2>1, <2>3, <3>1, TypedAwaits DEF refetchReverted, Steps
    <2> QED BY <2>2, <2>3
  <1>15. CASE isInMempool(a)
    <2>1. h \in Messages
      BY <1>15, <1>h DEF isInMempool, InHand
    <2>2. CASE Done(a, h)
      BY <1>15, <2>1, <2>2, TypedWrites, RowUpdates DEF isInMempool
    <2>3. CASE ~Done(a, h)
      BY <1>15, <1>t, <2>1, <2>3, TypedAwaits DEF isInMempool, Steps, TypeOK
    <2> QED BY <2>2, <2>3
  <1>16. CASE recoverStuck(a)
    BY <1>16, <1>h, TypedWrites, RowUpdates DEF recoverStuck, InHand
  <1> QED
    BY <1>1, <1>2, <1>3, <1>4, <1>5, <1>6, <1>7, <1>8, <1>9, <1>10, <1>11,
       <1>12, <1>13, <1>14, <1>15, <1>16 DEF TickStep

LEMMA TypedFault ==
  ASSUME Typed, NEW a \in Actors, Fault(a)
  PROVE  Typed'
  <1> USE DEF Typed
  <1>1. CASE AbortTick(a) \/ Crash(a)
    BY <1>1, TypedPhases
  <1>2. ASSUME NEW m \in Messages, BroadcastLost(a, m) PROVE Typed'
    <2>1. PICK t \in TxIds : Send(m, t)
      BY <1>2 DEF BroadcastLost
    <2>2. txs' \in [TxIds -> Tx]
      BY <2>1 DEF Send, TypeOK, Tx
    <2>3. at' \in [Actors -> At] /\ InHandInv'
      BY <1>2, AwaitType DEF BroadcastLost, Steps
    <2> QED BY <1>2, <2>2, <2>3 DEF BroadcastLost, TypeOK
  <1>3. CASE recordSubmittedThrows(a)
    <2>1. at[a].msg \in Messages /\ at[a].tx \in TxIds \union {NULL}
      BY <1>3 DEF recordSubmittedThrows, InHand, InHandInv, TypeOK, At
    <2>2. jobs' \in [Messages -> Row]
      BY <1>3, <2>1, TransitionType, RowUpdates DEF recordSubmittedThrows, TypeOK
    <2>3. at' \in [Actors -> At] /\ InHandInv'
      BY <1>3, <2>1, AwaitType DEF recordSubmittedThrows, Steps
    <2> QED BY <1>3, <2>2, <2>3 DEF recordSubmittedThrows, TypeOK, chain
  <1> QED BY <1>1, <1>2, <1>3 DEF Fault

LEMMA TypedClaim ==
  ASSUME Typed, NEW a \in Actors, NEW m \in Messages, claimMessage(a, m)
  PROVE  Typed'
  <1>1. /\ newJob("skipped", "skip") \in Row
        /\ newJob("detected", "null") \in Row
        /\ newJob("already_delivered", "null") \in Row
    BY NewJobType DEF JobState
  <1>2. jobs' \in [Messages -> Row]
    BY <1>1 DEF claimMessage, Typed, TypeOK
  <1> QED BY <1>2 DEF claimMessage, Typed, TypeOK, chain, InHandInv

\* A row keeps its type as time passes.
LEMMA ElapsedRow ==
  ASSUME NEW row \in Row
  PROVE  /\ [row EXCEPT !.subAge = Later(@, StuckTxThreshold + 1)] \in Row
         /\ [row EXCEPT !.age = Later(@, MaxAttestationAge + 1),
                        !.retryIn = Sooner(@),
                        !.subAge = IF row.state = "submitted"
                                   THEN Later(@, StuckTxThreshold + 1) ELSE @] \in Row
  <1>1. /\ Later(row.subAge, StuckTxThreshold + 1) \in 0..(StuckTxThreshold + 1)
        /\ Later(row.age, MaxAttestationAge + 1) \in 0..(MaxAttestationAge + 1)
        /\ Sooner(row.retryIn) \in Nat
    BY ConstantsAssumption DEF Row, Later, Sooner
  <1> QED BY <1>1 DEF Row

LEMMA TypedEnvironment ==
  ASSUME Typed, Environment
  PROVE  Typed'
  <1> USE DEF Typed
  <1>1. ASSUME NEW m \in Messages, IrisAttest(m) \/ ForeignDelivery(m) PROVE Typed'
    BY <1>1 DEF IrisAttest, ForeignDelivery, TypeOK, InHandInv
  <1>2. ASSUME NEW t \in TxIds, Mine(t) \/ Revert(t) \/ Drop(t) PROVE Typed'
    <2>1. \A s \in {"ok", "reverted", "dropped"} :
            [txs EXCEPT ![t].status = s] \in [TxIds -> Tx]
      BY DEF TypeOK, Tx
    <2>2. txs' \in [TxIds -> Tx]
      BY <1>2, <2>1 DEF Mine, Revert, Drop
    <2>3. received' \in [Messages -> TxIds \union {NULL, FOREIGN}]
      BY <1>2 DEF Mine, Revert, Drop, TypeOK
    <2> QED BY <1>2, <2>2, <2>3 DEF Mine, Revert, Drop, TypeOK, InHandInv
  <1>3. CASE Elapse
    <2>1. jobs' \in [Messages -> Row]
      BY <1>3, ElapsedRow DEF Elapse, TypeOK
    <2>2. snap' \in [Actors -> [Messages -> Row]]
      BY <1>3, ElapsedRow DEF Elapse, TypeOK
    <2> QED BY <1>3, <2>1, <2>2 DEF Elapse, TypeOK, chain, InHandInv
  <1> QED BY <1>1, <1>2, <1>3 DEF Environment

LEMMA TypedStep == Typed /\ [Next]_vars => Typed'
  <1> SUFFICES ASSUME Typed, [Next]_vars PROVE Typed'
    OBVIOUS
  <1>1. CASE UNCHANGED vars
    BY <1>1 DEF vars, Typed, TypeOK, InHandInv
  <1>2. CASE Next
    BY <1>2, TypedTick, TypedFault, TypedClaim, TypedEnvironment DEF Next
  <1> QED BY <1>1, <1>2

\* Rows, transactions and tick state keep their types in every behaviour of
\* the pipeline, whatever crashes, throws or runs twice.
THEOREM TypeCorrect == Spec => []TypeOK
  <1>1. Typed => TypeOK
    BY DEF Typed
  <1> QED BY InitTyped, TypedStep, <1>1, PTL DEF Spec

-----------------------------------------------------------------------------
(* Soundness of what is recorded. *)

LEMMA StatusStep ==
  ASSUME Sound, NEW t \in TxIds, NEW s, txs[t].status = "pending",
         txs' = [txs EXCEPT ![t].status = s]
  PROVE  /\ txs[t].msg \in Messages
         /\ txs'[t].msg = txs[t].msg
         /\ txs'[t].status = s
         /\ \A u \in TxIds : u # t => txs'[u] = txs[u]
  BY DEF Sound, Typed, TypeOK, Tx, ChainSound

LEMMA ChainStep ==
  ASSUME Sound, [Next]_vars
  PROVE  Grows /\ ChainSound(txs', received')
  <1> USE DEF Grows, ChainSound
  <1>0. ChainSound(txs, received)
    BY DEF Sound
  <1>1. CASE UNCHANGED <<txs, received>>
    BY <1>1, <1>0
  <1>2. ASSUME NEW m \in Messages, NEW t \in TxIds, Send(m, t), UNCHANGED received
        PROVE  Grows /\ ChainSound(txs', received')
    BY <1>2, <1>0 DEF Send, Sound, Typed, TypeOK, Tx
  <1>3. ASSUME NEW m \in Messages, ForeignDelivery(m)
        PROVE  Grows /\ ChainSound(txs', received')
    BY <1>3, <1>0, ConstantsAssumption DEF ForeignDelivery, Sound, Typed, TypeOK, Tx
  <1>4. ASSUME NEW t \in TxIds, Mine(t)
        PROVE  Grows /\ ChainSound(txs', received')
    <2> DEFINE m == txs[t].msg
    <2>1. CASE /\ received[m] = NULL
               /\ txs' = [txs EXCEPT ![t].status = "ok"]
               /\ received' = [received EXCEPT ![m] = t]
      <3>1. /\ m \in Messages /\ txs'[t].msg = m /\ txs'[t].status = "ok"
            /\ \A u \in TxIds : u # t => txs'[u] = txs[u]
        BY <2>1, <1>4, StatusStep DEF Mine
      <3>2. received'[m] = t /\ \A k \in Messages : k # m => received'[k] = received[k]
        BY <2>1, <3>1 DEF Sound, Typed, TypeOK
      <3>3. txs[t].status = "pending"
        BY <1>4 DEF Mine
      <3> HIDE DEF m
      <3> QED BY <2>1, <3>1, <3>2, <3>3, <1>0, ConstantsAssumption
    <2>2. CASE /\ received[m] # NULL
               /\ txs' = [txs EXCEPT ![t].status = "reverted"]
               /\ UNCHANGED received
      <3>1. /\ m \in Messages /\ txs'[t].msg = m /\ txs'[t].status = "reverted"
            /\ \A u \in TxIds : u # t => txs'[u] = txs[u]
        BY <2>2, <1>4, StatusStep DEF Mine
      <3>3. txs[t].status = "pending"
        BY <1>4 DEF Mine
      <3> QED BY <2>2, <3>1, <3>3, <1>0
    <2> QED BY <1>4, <2>1, <2>2 DEF Mine
  <1>5. ASSUME NEW t \in TxIds, Revert(t) \/ Drop(t)
        PROVE  Grows /\ ChainSound(txs', received')
    <2>1. PICK s \in {"reverted", "dropped"} :
            /\ txs[t].status = "pending"
            /\ txs' = [txs EXCEPT ![t].status = s]
            /\ UNCHANGED received
      BY <1>5 DEF Revert, Drop
    <2>2. /\ txs[t].msg \in Messages /\ txs'[t].msg = txs[t].msg
          /\ txs'[t].status = s
          /\ \A u \in TxIds : u # t => txs'[u] = txs[u]
      BY <2>1, StatusStep
    <2> QED BY <2>1, <2>2, <1>0
  <1>6. CASE Environment
    BY <1>1, <1>3, <1>4, <1>5, <1>6 DEF Environment, IrisAttest, Elapse, chain
  <1>7. ASSUME NEW a \in Actors, TickStep(a) \/ Fault(a)
        PROVE  \/ UNCHANGED <<txs, received>>
               \/ \E m \in Messages, t \in TxIds : Send(m, t) /\ UNCHANGED received
    BY <1>7
    DEF TickStep, Fault, StartTick, ListDetected, ListAwaiting, ListAttested,
        ListSubmitted, StartScan, EndTick, tickDetected, tickAwaitingExpired,
        pollOne, tickAttestedRepoll, BroadcastSent, BroadcastReplay,
        BroadcastError, BroadcastLost, getReceipt, recordSubmitted,
        recordAlreadyDelivered, recordSubmissionFailure, recordDelivered,
        clearReverted, refetchReverted, isInMempool, recoverStuck,
        recordSubmittedThrows, AbortTick, Crash, chain
  <1>8. CASE \E a \in Actors, m \in Messages : claimMessage(a, m)
    BY <1>1, <1>8 DEF claimMessage, chain
  <1>9. CASE \E a \in Actors : TickStep(a) \/ Fault(a)
    BY <1>1, <1>2, <1>7, <1>9
  <1>10. CASE UNCHANGED vars
    BY <1>1, <1>10 DEF vars
  <1> QED
    BY <1>6, <1>8, <1>9, <1>10 DEF Next

\* A sound claim stays sound as the chain grows.
LEMMA RowGrows ==
  ASSUME Grows, NEW m \in Messages, NEW row, RowSound(m, row, txs, received)
  PROVE  RowSound(m, row, txs', received')
  BY DEF Grows, RowSound, SentFor, Landed

LEMMA HandGrows ==
  ASSUME Grows, NEW h, NEW rows, h.step # "next" => h.msg \in Messages,
         HandSound(h, rows, txs, received)
  PROVE  HandSound(h, rows, txs', received')
  BY DEF Grows, HandSound, SentFor, Landed

\* The absence of a row claims nothing.
LEMMA NoRowSound == ASSUME NEW m PROVE RowSound(m, NoRow, txs', received')
  BY DEF RowSound, NoRow

\* What has to be shown of an update of the table.
LEMMA TransitionSound ==
  ASSUME Sound, Grows, NEW m \in Messages, NEW from, NEW row,
         transition(m, from, row) \/ jobs' = [jobs EXCEPT ![m] = row],
         RowSound(m, row, txs', received')
  PROVE  TableSound'
  <1>1. \A k \in Messages : jobs'[k] = jobs[k] \/ (k = m /\ jobs'[k] = row)
    BY DEF transition, Sound, Typed, TypeOK
  <1> QED BY <1>1, RowGrows DEF TableSound, Sound

LEMMA SameTableSound ==
  ASSUME Sound, Grows, UNCHANGED jobs
  PROVE  TableSound'
  BY RowGrows DEF TableSound, Sound

\* A tick that does not move keeps what it claims.
LEMMA OtherTicksSound ==
  ASSUME Sound, Grows, NEW b \in Actors, at'[b] = at[b], snap'[b] = snap[b]
  PROVE  /\ \A m \in Messages : RowSound(m, snap'[b][m], txs', received')
         /\ HandSound(at'[b], snap'[b], txs', received')
  BY RowGrows, HandGrows DEF TicksSound, Sound, Typed, InHandInv

\* The three ways a tick moves.
LEMMA EnterSound ==
  ASSUME Sound, Grows, NEW a \in Actors, NEW p, NEW S, Enter(a, p, S),
         p = "submitted" => \A m \in S : jobs[m].submittedTxHash # NULL
  PROVE  TicksSound'
  <1>1. /\ \A b \in Actors : b # a => at'[b] = at[b] /\ snap'[b] = snap[b]
        /\ at'[a] = [Idle EXCEPT !.phase = p]
        /\ \A m \in Messages : snap'[a][m] = IF m \in S THEN jobs[m] ELSE NoRow
    BY DEF Enter, Sound, Typed, TypeOK
  <1>2. \A m \in Messages : RowSound(m, snap'[a][m], txs', received')
    BY <1>1, NoRowSound, RowGrows DEF Sound, TableSound
  <1>3. HandSound(at'[a], snap'[a], txs', received')
    BY <1>1 DEF HandSound, Idle, NoRow
  <1> QED BY <1>1, <1>2, <1>3, OtherTicksSound DEF TicksSound

LEMMA DoneSound ==
  ASSUME Sound, Grows, NEW a \in Actors, NEW m \in Messages, Done(a, m),
         at[a].msg \in {NULL, m}
  PROVE  TicksSound'
  <1>1. /\ \A b \in Actors : b # a => at'[b] = at[b] /\ snap'[b] = snap[b]
        /\ at'[a] = [Idle EXCEPT !.phase = at[a].phase]
        /\ snap'[a][m] = NoRow
        /\ \A k \in Messages : k # m => snap'[a][k] = snap[a][k]
    BY DEF Done, Sound, Typed, TypeOK
  <1>2. \A k \in Messages : RowSound(k, snap'[a][k], txs', received')
    BY <1>1, NoRowSound, RowGrows DEF Sound, TicksSound
  <1>3. HandSound(at'[a], snap'[a], txs', received')
    BY <1>1 DEF HandSound, Idle, NoRow, Sound, TicksSound
  <1> QED BY <1>1, <1>2, <1>3, OtherTicksSound DEF TicksSound

LEMMA AwaitSound ==
  ASSUME Sound, Grows, NEW a \in Actors, NEW s, NEW m \in Messages, NEW t,
         Await(a, s, m, t), UNCHANGED snap, at[a].msg \in {NULL, m},
         s = "sent" => SentFor(m, t, txs'),
         s = "ok" => Landed(m, t, txs'),
         s = "replayed" => received'[m] # NULL
  PROVE  TicksSound'
  <1>1. /\ \A b \in Actors : b # a => at'[b] = at[b]
        /\ at'[a] = [phase |-> at[a].phase, step |-> s, msg |-> m, tx |-> t]
    BY DEF Await, Sound, Typed, TypeOK
  <1>2. \A k \in Messages : RowSound(k, snap'[a][k], txs', received')
    BY RowGrows DEF Sound, TicksSound
  <1>3. HandSound(at'[a], snap'[a], txs', received')
    BY <1>1, ConstantsAssumption DEF HandSound, Sound, TicksSound
  <1> QED BY <1>1, <1>2, <1>3, OtherTicksSound DEF TicksSound

\* An update that claims no outcome and no new hash.
LEMMA PlainRowSound ==
  ASSUME Sound, Grows, NEW m \in Messages, NEW row,
         row.state \notin {"delivered", "already_delivered"},
         row.submittedTxHash \in {jobs[m].submittedTxHash, NULL}
  PROVE  RowSound(m, row, txs', received')
  <1>1. RowSound(m, jobs[m], txs', received')
    BY RowGrows DEF Sound, TableSound
  <1> QED BY <1>1 DEF RowSound

LEMMA SoundPhases ==
  ASSUME Sound, Grows, NEW a \in Actors,
         \/ StartTick(a) \/ ListDetected(a) \/ ListAwaiting(a) \/ ListAttested(a)
         \/ ListSubmitted(a) \/ StartScan(a) \/ EndTick(a) \/ AbortTick(a) \/ Crash(a)
  PROVE  TableSound' /\ TicksSound'
  <1>1. UNCHANGED jobs
    BY DEF StartTick, ListDetected, ListAwaiting, ListAttested, ListSubmitted,
           StartScan, EndTick, AbortTick, Crash
  <1>2. \E p, S : /\ Enter(a, p, S)
                  /\ p = "submitted" => \A m \in S : jobs[m].submittedTxHash # NULL
    <2>1. CASE ListSubmitted(a)
      <3>1. PICK T : Enter(a, "submitted", {m \in T : jobs[m].submittedTxHash # NULL})
        BY <2>1 DEF ListSubmitted
      <3> QED BY <3>1
    <2>2. CASE ~ListSubmitted(a)
      <3>1. \E p \in Phases \ {"submitted"} : \E S : Enter(a, p, S)
        BY <2>2 DEF StartTick, ListDetected, ListAwaiting, ListAttested,
                    StartScan, EndTick, AbortTick, Crash, Phases
      <3> QED BY <3>1
    <2> QED BY <2>1, <2>2
  <1> QED BY <1>1, <1>2, SameTableSound, EnterSound

\* The steps that book a change of a row whose outcome is still open.
LEMMA SoundWrites ==
  ASSUME Sound, Grows, NEW a \in Actors, NEW m \in Messages, NEW from, NEW row,
         transition(m, from, row) \/ UNCHANGED jobs,
         row.state \notin {"delivered", "already_delivered"},
         row.submittedTxHash \in {jobs[m].submittedTxHash, NULL},
         Done(a, m), at[a].msg \in {NULL, m}
  PROVE  TableSound' /\ TicksSound'
  BY PlainRowSound, TransitionSound, SameTableSound, DoneSound

LEMMA SoundTick ==
  ASSUME Sound, Grows, NEW a \in Actors, TickStep(a)
  PROVE  TableSound' /\ TicksSound'
  <1> DEFINE h == at[a].msg
  <1>h. /\ at[a].step # "next" => h \in Messages
        /\ at[a].step = "next" => h = NULL
    BY DEF Sound, Typed, InHandInv
  <1>r. \A m \in Messages : jobs[m] \in Row
    BY DEF Sound, Typed, TypeOK
  <1>1. CASE \/ StartTick(a) \/ ListDetected(a) \/ ListAwaiting(a)
             \/ ListAttested(a) \/ ListSubmitted(a) \/ StartScan(a) \/ EndTick(a)
    BY <1>1, SoundPhases
  <1>2. ASSUME NEW m \in Messages, tickDetected(a, m) \/ tickAwaitingExpired(a, m)
                 \/ pollOne(a, m) \/ tickAttestedRepoll(a, m)
        PROVE  TableSound' /\ TicksSound'
    <2> DEFINE Plain(row) == /\ row.state \notin {"delivered", "already_delivered"}
                             /\ row.submittedTxHash = jobs[m].submittedTxHash
    <2>1. \E from, row : Plain(row) /\ (transition(m, from, row) \/ UNCHANGED jobs)
      <3>1. /\ Plain([jobs[m] EXCEPT !.state = "attested", !.bytes = TRUE])
            /\ Plain([jobs[m] EXCEPT !.state = "awaiting_attestation"])
            /\ Plain([jobs[m] EXCEPT !.state = "dead_letter",
                                     !.deadLetterReason = "expired"])
        BY <1>r DEF Row
      <3> HIDE DEF Plain
      <3> QED BY <1>2, <3>1
          DEF tickDetected, tickAwaitingExpired, pollOne, tickAttestedRepoll
    <2>2. Done(a, m) /\ h = NULL
      BY <1>2, <1>h DEF tickDetected, tickAwaitingExpired, pollOne,
                        tickAttestedRepoll, Between
    <2> QED BY <2>1, <2>2, SoundWrites
  <1>3. ASSUME NEW m \in Messages, BroadcastSent(a, m)
        PROVE  TableSound' /\ TicksSound'
    <2>1. PICK t \in TxIds : Send(m, t) /\ Await(a, "sent", m, t)
      BY <1>3 DEF BroadcastSent
    <2>2. SentFor(m, t, txs')
      BY <2>1 DEF Send, SentFor, Sound, Typed, TypeOK, Tx
    <2>3. h = NULL /\ UNCHANGED <<jobs, snap>>
      BY <1>3, <1>h DEF BroadcastSent, MayBroadcast, Between
    <2> QED BY <2>1, <2>2, <2>3, AwaitSound, SameTableSound
  <1>4. ASSUME NEW m \in Messages, BroadcastReplay(a, m) \/ BroadcastError(a, m)
        PROVE  TableSound' /\ TicksSound'
    <2>1. h = NULL /\ UNCHANGED <<jobs, snap, received>>
      BY <1>4, <1>h DEF BroadcastReplay, BroadcastError, MayBroadcast, Between, chain
    <2>2. \/ Await(a, "replayed", m, NULL) /\ received[m] # NULL
          \/ Await(a, "failed", m, NULL)
      BY <1>4 DEF BroadcastReplay, BroadcastError
    <2> QED BY <2>1, <2>2, AwaitSound, SameTableSound
  <1>5. ASSUME NEW m \in Messages, getReceipt(a, m)
        PROVE  TableSound' /\ TicksSound'
    <2> DEFINE t == snap[a][m].submittedTxHash
    <2>1. h = NULL /\ UNCHANGED <<jobs, txs>> /\ snap[a][m].state # "none"
          /\ at[a].phase = "submitted"
      BY <1>5, <1>h DEF getReceipt, Between, NextUp, Todo, chain
    <2>2. SentFor(m, t, txs)
      BY <2>1, ConstantsAssumption DEF Sound, TicksSound, HandSound, RowSound
    <2>3. txs[t].status = "ok" => Landed(m, t, txs)
      BY <2>2 DEF SentFor, Landed, Sound, Typed, TypeOK, Tx
    <2>4. \/ Done(a, m)
          \/ UNCHANGED snap /\ \E s \in {"ok", "reverted", "noReceipt"} :
               Await(a, s, m, t) /\ (s = "ok" => txs[t].status = "ok")
      BY <1>5 DEF getReceipt
    <2>5. CASE Done(a, m)
      BY <2>1, <2>5, DoneSound, SameTableSound
    <2>6. ASSUME UNCHANGED snap, NEW s \in {"ok", "reverted", "noReceipt"},
                 Await(a, s, m, t), s = "ok" => txs[t].status = "ok"
          PROVE  TicksSound'
      BY <2>6, <2>1, <2>3, AwaitSound
    <2> QED BY <2>1, <2>4, <2>5, <2>6, SameTableSound
  <1>6. CASE recordSubmitted(a)
    <2>1. /\ h \in Messages /\ Done(a, h) /\ UNCHANGED txs
          /\ transition(h, "attested", SubmittedRow(h, at[a].tx))
          /\ at[a].step = "sent"
      BY <1>6, <1>h DEF recordSubmitted, InHand, chain
    <2>2. RowSound(h, SubmittedRow(h, at[a].tx), txs', received')
      BY <2>1, <1>r DEF SubmittedRow, RowSound, Row, Sound, TicksSound, HandSound
    <2> QED BY <2>1, <2>2, TransitionSound, DoneSound
  <1>7. CASE recordAlreadyDelivered(a)
    <2> DEFINE row == [jobs[h] EXCEPT !.state = "already_delivered"]
    <2>1. /\ h \in Messages /\ Done(a, h) /\ UNCHANGED <<txs, received>>
          /\ transition(h, "attested", row)
          /\ at[a].step = "replayed"
      BY <1>7, <1>h DEF recordAlreadyDelivered, InHand, chain
    <2>2. RowSound(h, row, txs', received')
      BY <2>1, <1>r
      DEF RowSound, Row, Sound, TicksSound, TableSound, HandSound
    <2> QED BY <2>1, <2>2, TransitionSound, DoneSound
  <1>8. CASE recordSubmissionFailure(a)
    <2>1. h \in Messages /\ Done(a, h)
      BY <1>8, <1>h DEF recordSubmissionFailure
    <2>2. PICK row : /\ transition(h, "attested", row)
                     /\ row.state \in {"dead_letter", jobs[h].state}
                     /\ row.submittedTxHash = jobs[h].submittedTxHash
                     /\ row.deliveredTxHash = jobs[h].deliveredTxHash
      <3> DEFINE attempts == snap[a][h].retryAttempts + 1
                 dead == [jobs[h] EXCEPT !.state = "dead_letter",
                                         !.deadLetterReason = "retries-exhausted"]
                 again == [jobs[h] EXCEPT !.retryAttempts = attempts,
                                          !.retryIn = Backoff[attempts]]
      <3>1. transition(h, "attested",
                       IF attempts > MAX_RELAY_RETRIES THEN dead ELSE again)
        BY <1>8 DEF recordSubmissionFailure
      <3>2. \A row \in {dead, again} :
              /\ row.state \in {"dead_letter", jobs[h].state}
              /\ row.submittedTxHash = jobs[h].submittedTxHash
              /\ row.deliveredTxHash = jobs[h].deliveredTxHash
        BY <1>r, <2>1 DEF Row
      <3> HIDE DEF attempts, dead, again
      <3> QED BY <3>1, <3>2
    <2>3. RowSound(h, row, txs', received')
      <3>1. RowSound(h, jobs[h], txs', received')
        BY <2>1, RowGrows DEF Sound, TableSound
      <3> QED BY <3>1, <2>2 DEF RowSound
    <2> QED BY <2>1, <2>2, <2>3, TransitionSound, DoneSound
  <1>9. CASE recordDelivered(a)
    <2> DEFINE row == [jobs[h] EXCEPT !.state = "delivered",
                                      !.deliveredTxHash = at[a].tx]
    <2>1. /\ h \in Messages /\ Done(a, h) /\ UNCHANGED <<txs, received>>
          /\ transition(h, "submitted", row)
          /\ at[a].step = "ok"
      BY <1>9, <1>h DEF recordDelivered, InHand, chain
    <2>2. RowSound(h, row, txs', received')
      BY <2>1, <1>r
      DEF RowSound, Row, Sound, TicksSound, TableSound, HandSound
    <2> QED BY <2>1, <2>2, TransitionSound, DoneSound
  <1>10. CASE clearReverted(a) \/ recoverStuck(a)
    <2>1. /\ h \in Messages
          /\ transition(h, "submitted", ClearedRow(h))
          /\ Done(a, h) \/ (UNCHANGED snap /\ Await(a, "cleared", h, NULL))
      BY <1>10, <1>h DEF clearReverted, recoverStuck, InHand
    <2>2. ClearedRow(h).state = "attested" /\ ClearedRow(h).submittedTxHash = NULL
      BY <2>1, <1>r DEF ClearedRow, Row
    <2>3. RowSound(h, ClearedRow(h), txs', received')
      BY <2>1, <2>2, PlainRowSound
    <2> QED BY <2>1, <2>3, TransitionSound, DoneSound, AwaitSound
  <1>11. CASE refetchReverted(a)
    <2>1. h \in Messages /\ UNCHANGED jobs
      BY <1>11, <1>h DEF refetchReverted, InHand
    <2>2. CASE Done(a, h)
      BY <2>1, <2>2, DoneSound, SameTableSound
    <2>3. CASE Await(a, "failed", h, NULL) /\ snap' = [snap EXCEPT ![a][h] = jobs[h]]
      <3>1. /\ \A b \in Actors : b # a => at'[b] = at[b] /\ snap'[b] = snap[b]
            /\ at'[a] = [phase |-> at[a].phase, step |-> "failed", msg |-> h, tx |-> NULL]
            /\ snap'[a][h] = jobs[h]
            /\ \A k \in Messages : k # h => snap'[a][k] = snap[a][k]
        BY <2>1, <2>3 DEF Await, Sound, Typed, TypeOK
      <3>2. \A k \in Messages : RowSound(k, snap'[a][k], txs', received')
        BY <3>1, <2>1, RowGrows DEF Sound, TicksSound, TableSound
      <3>3. HandSound(at'[a], snap'[a], txs', received')
        BY <3>1 DEF HandSound, Sound, TicksSound
      <3> QED BY <2>1, <3>1, <3>2, <3>3, OtherTicksSound, SameTableSound DEF TicksSound
    <2> QED BY <1>11, <2>2, <2>3 DEF refetchReverted
  <1>12. CASE isInMempool(a)
    <2>1. h \in Messages /\ UNCHANGED jobs
      BY <1>12, <1>h DEF isInMempool, InHand
    <2>2. Done(a, h) \/ (UNCHANGED snap /\ Await(a, "dropped", h, at[a].tx))
      BY <1>12 DEF isInMempool
    <2> QED BY <2>1, <2>2, DoneSound, AwaitSound, SameTableSound
  <1> QED
    BY <1>1, <1>2, <1>3, <1>4, <1>5, <1>6, <1>7, <1>8, <1>9, <1>10, <1>11, <1>12
    DEF TickStep

LEMMA SoundFault ==
  ASSUME Sound, Grows, NEW a \in Actors, Fault(a)
  PROVE  TableSound' /\ TicksSound'
  <1> DEFINE h == at[a].msg
  <1>h. /\ at[a].step # "next" => h \in Messages
        /\ at[a].step = "next" => h = NULL
    BY DEF Sound, Typed, InHandInv
  <1>1. ASSUME NEW m \in Messages, BroadcastLost(a, m)
        PROVE  TableSound' /\ TicksSound'
    <2>1. h = NULL /\ UNCHANGED <<jobs, snap>> /\ Await(a, "failed", m, NULL)
      BY <1>1, <1>h DEF BroadcastLost, MayBroadcast, Between
    <2> QED BY <2>1, AwaitSound, SameTableSound
  <1>2. CASE recordSubmittedThrows(a)
    <2>1. /\ h \in Messages /\ UNCHANGED <<txs, snap>> /\ at[a].step = "sent"
          /\ Await(a, "failed", h, NULL)
          /\ UNCHANGED jobs \/ transition(h, "attested", SubmittedRow(h, at[a].tx))
      BY <1>2, <1>h DEF recordSubmittedThrows, InHand, chain
    <2>2. RowSound(h, SubmittedRow(h, at[a].tx), txs', received')
      BY <2>1 DEF SubmittedRow, RowSound, Row, Sound, Typed, TypeOK, TicksSound, HandSound
    <2> QED BY <2>1, <2>2, TransitionSound, SameTableSound, AwaitSound
  <1>3. CASE AbortTick(a) \/ Crash(a)
    BY <1>3, SoundPhases
  <1> QED BY <1>1, <1>2, <1>3 DEF Fault

LEMMA SoundClaim ==
  ASSUME Sound, Grows, NEW a \in Actors, NEW m \in Messages, claimMessage(a, m)
  PROVE  TableSound' /\ TicksSound'
  <1>1. PICK s \in {"skipped", "detected", "already_delivered"}, r \in {"skip", "null"} :
          /\ jobs' = [jobs EXCEPT ![m] = newJob(s, r)]
          /\ s = "already_delivered" => received'[m] # NULL
    BY DEF claimMessage, chain
  <1>2. RowSound(m, newJob(s, r), txs', received')
    BY <1>1, NewJobType DEF RowSound, JobState
  <1>3. UNCHANGED <<at, snap>>
    BY DEF claimMessage
  <1> QED BY <1>1, <1>2, <1>3, TransitionSound, OtherTicksSound DEF TicksSound

\* Time changes no hash and no state.
LEMMA SoundElapse ==
  ASSUME Sound, Grows, Elapse
  PROVE  TableSound' /\ TicksSound'
  <1> DEFINE Same(r, q) == /\ r.state = q.state
                           /\ r.submittedTxHash = q.submittedTxHash
                           /\ r.deliveredTxHash = q.deliveredTxHash
  <1>1. \A m \in Messages : Same(jobs'[m], jobs[m])
    BY DEF Elapse, Sound, Typed, TypeOK, Row
  <1>2. \A a \in Actors, m \in Messages : Same(snap'[a][m], snap[a][m])
    <2> TAKE a \in Actors, m \in Messages
    <2>1. snap[a][m] \in Row
      BY DEF Sound, Typed, TypeOK
    <2>2. snap'[a][m] = IF snap[a][m].state # "submitted" THEN snap[a][m]
                        ELSE [snap[a][m] EXCEPT !.subAge = Later(@, StuckTxThreshold + 1)]
      BY DEF Elapse
    <2> QED BY <2>1, <2>2 DEF Row
  <1>3. TableSound'
    BY <1>1, RowGrows DEF TableSound, RowSound, Sound
  <1>4. \A a \in Actors, m \in Messages : RowSound(m, snap'[a][m], txs', received')
    BY <1>2, RowGrows DEF TicksSound, RowSound, Sound
  <1>5. \A a \in Actors : HandSound(at'[a], snap'[a], txs', received')
    <2> TAKE a \in Actors
    <2>1. at'[a] = at[a] /\ txs' = txs /\ received' = received
      BY DEF Elapse, chain
    <2>2. HandSound(at[a], snap[a], txs, received)
      BY DEF Sound, TicksSound
    <2>3. \A m \in Messages : /\ snap'[a][m].state = snap[a][m].state
                              /\ snap'[a][m].submittedTxHash = snap[a][m].submittedTxHash
      BY <1>2
    <2> HIDE DEF Same
    <2> QED BY <2>1, <2>2, <2>3 DEF HandSound
  <1> QED BY <1>3, <1>4, <1>5 DEF TicksSound

LEMMA SoundStep == Sound /\ [Next]_vars => Sound'
  <1> SUFFICES ASSUME Sound, [Next]_vars PROVE Sound'
    OBVIOUS
  <1>1. Typed'
    BY TypedStep DEF Sound
  <1>2. Grows /\ ChainSound(txs', received')
    BY ChainStep
  <1>3. TableSound' /\ TicksSound'
    <2>1. CASE UNCHANGED <<jobs, at, snap>>
      BY <2>1, <1>2, SameTableSound, OtherTicksSound DEF TicksSound
    <2>2. CASE Environment
      BY <2>1, <2>2, <1>2, SoundElapse
      DEF Environment, IrisAttest, ForeignDelivery, Mine, Revert, Drop
    <2> QED BY <1>2, <2>1, <2>2, SoundTick, SoundFault, SoundClaim DEF Next, vars
  <1> QED BY <1>1, <1>2, <1>3 DEF Sound

LEMMA InitSound == Init => Sound
  <1> SUFFICES ASSUME Init PROVE Sound
    OBVIOUS
  <1>1. Typed
    BY InitTyped
  <1>2. PICK A, S \in SUBSET Relayable, hash \in [Messages -> TxIds] :
          Imported(A, S, hash)
    BY DEF Init
  <1>3. ChainSound(txs, received)
    BY <1>2, ConstantsAssumption DEF Imported, ChainSound
  <1>4. TableSound
    <2> SUFFICES ASSUME NEW m \in Messages PROVE RowSound(m, jobs[m], txs, received)
      BY DEF TableSound
    <2>1. CASE m \in A
      BY <1>2, <2>1, NewJobType DEF Imported, RowSound, JobState
    <2>2. CASE m \in S /\ m \notin A
      <3>1. txs[hash[m]] = [msg |-> m, status |-> "pending"]
        BY <1>2, <2>2 DEF Imported
      <3>2. jobs[m].submittedTxHash = hash[m] /\ jobs[m].state = "submitted"
        BY <1>2, <2>2, NewJobType DEF Imported, JobState, newJob, NoRow
      <3> QED BY <1>2, <3>1, <3>2 DEF RowSound, SentFor
    <2>3. CASE m \notin A /\ m \notin S
      BY <1>2, <2>3 DEF Imported, RowSound, NoRow
    <2> QED BY <2>1, <2>2, <2>3
  <1>5. TicksSound
    BY DEF Init, TicksSound, HandSound, RowSound, NoRows, NoRow, Idle
  <1> QED BY <1>1, <1>3, <1>4, <1>5 DEF Sound

\* Whatever crashes, throws or runs twice, a row says delivered only with the
\* hash of the transaction by which the destination accepted its message.
THEOREM DeliveredIsSound == Spec => []DeliveredSound
  <1>1. Sound => DeliveredSound
    BY DEF Sound, TableSound, RowSound, Landed, ChainSound, DeliveredSound
  <1> QED BY InitSound, SoundStep, <1>1, PTL DEF Spec

-----------------------------------------------------------------------------
(* The pipeline implements RelayLifecycle. *)

Recorded == [m \in Messages |-> jobs[m].state]
Landing == [m \in Messages |-> LandedBy(received[m])]

Abstract == [Lifecycle!Next]_(Lifecycle!vars)

\* A guarded update along an edge of the graph, with the outcome it may claim.
LEMMA RecordStep ==
  ASSUME Sound, NEW m \in Messages, NEW from, NEW row,
         transition(m, from, row), UNCHANGED received,
         row.state = from \/ <<from, row.state>> \in Lifecycle!Edges,
         jobs[m].state = from /\ row.state = "delivered" => received[m] \in TxIds,
         jobs[m].state = from /\ row.state = "already_delivered" => received[m] # NULL
  PROVE  Abstract
  <1>1. Landing' = Landing
    BY DEF Landing
  <1>2. CASE jobs[m].state = from /\ row.state # from
    <2> DEFINE s == row.state
    <2>1. Recorded' = [Recorded EXCEPT ![m] = s]
      BY <1>2 DEF Recorded, transition, Sound, Typed, TypeOK
    <2>2. <<Recorded[m], s>> \in Lifecycle!Edges
      BY <1>2 DEF Recorded
    <2>3. /\ s = "delivered" => Landing[m] = "relayer"
          /\ s = "already_delivered" => Landing[m] # "no"
      BY <1>2, ConstantsAssumption DEF Landing, LandedBy
    <2>4. Lifecycle!Record(m)
      <3>1. s \in {e[2] : e \in Lifecycle!Edges}
        BY <2>2
      <3> HIDE DEF s
      <3> QED BY <1>1, <2>1, <2>2, <2>3, <3>1 DEF Lifecycle!Record, Recorded, Landing
    <2> QED BY <2>4 DEF Abstract, Lifecycle!Next
  <1>3. CASE ~(jobs[m].state = from /\ row.state # from)
    <2>1. Recorded' = Recorded
      BY <1>3 DEF Recorded, transition, Sound, Typed, TypeOK
    <2> QED BY <1>1, <2>1 DEF Abstract, Lifecycle!vars, Recorded, Landing
  <1> QED BY <1>2, <1>3

LEMMA StutterStep ==
  ASSUME UNCHANGED <<jobs, received>>
  PROVE  Abstract
  BY DEF Abstract, Lifecycle!vars

\* A message lands: by a transaction of ours, or by somebody else's.
LEMMA LandStep ==
  ASSUME Sound, NEW m \in Messages, NEW by \in TxIds \union {FOREIGN},
         received[m] = NULL, received' = [received EXCEPT ![m] = by],
         UNCHANGED jobs
  PROVE  Abstract
  <1>1. PICK who \in {"relayer", "other"} :
          Landing' = [Landing EXCEPT ![m] = who]
    <2> DEFINE who == IF by = FOREIGN THEN "other" ELSE "relayer"
    <2>1. \A k \in Messages : received'[k] = IF k = m THEN by ELSE received[k]
      BY DEF Sound, Typed, TypeOK
    <2>2. by # NULL
      BY ConstantsAssumption
    <2>3. Landing' = [Landing EXCEPT ![m] = who]
      BY <2>1, <2>2 DEF Landing, LandedBy
    <2> QED BY <2>3
  <1>2. Recorded' = Recorded
    BY DEF Recorded
  <1>3. Landing[m] = "no"
    BY DEF Landing, LandedBy
  <1>4. Lifecycle!Land(m)
    BY <1>1, <1>2, <1>3 DEF Lifecycle!Land, Recorded, Landing
  <1> QED BY <1>4 DEF Abstract, Lifecycle!Next

LEMMA AbstractEnvironment ==
  ASSUME Sound, Environment
  PROVE  Abstract
  <1>1. ASSUME NEW m \in Messages, ForeignDelivery(m) PROVE Abstract
    BY <1>1, LandStep DEF ForeignDelivery
  <1>2. ASSUME NEW t \in TxIds, Mine(t) PROVE Abstract
    <2>1. txs[t].msg \in Messages
      BY <1>2 DEF Mine, Sound, ChainSound
    <2> QED BY <1>2, <2>1, LandStep, StutterStep DEF Mine
  <1>4. CASE Elapse
    <2>1. \A m \in Messages : jobs'[m].state = jobs[m].state
      <3> TAKE m \in Messages
      <3>1. jobs[m] \in Row
        BY DEF Sound, Typed, TypeOK
      <3>2. jobs'[m] = jobs[m] \/ \E x, y, z :
              jobs'[m] = [jobs[m] EXCEPT !.age = x, !.retryIn = y, !.subAge = z]
        BY <1>4 DEF Elapse
      <3> QED BY <3>1, <3>2 DEF Row
    <2>2. Recorded' = Recorded /\ Landing' = Landing
      BY <1>4, <2>1 DEF Recorded, Landing, Elapse, chain
    <2> QED BY <2>2 DEF Abstract, Lifecycle!vars, Recorded, Landing
  <1>5. ASSUME NEW m \in Messages, IrisAttest(m) PROVE Abstract
    BY <1>5, StutterStep DEF IrisAttest
  <1>6. ASSUME NEW t \in TxIds, Revert(t) \/ Drop(t) PROVE Abstract
    BY <1>6, StutterStep DEF Revert, Drop
  <1> QED BY <1>1, <1>2, <1>4, <1>5, <1>6 DEF Environment

LEMMA AbstractClaim ==
  ASSUME Sound, NEW a \in Actors, NEW m \in Messages, claimMessage(a, m)
  PROVE  Abstract
  <1>1. PICK s \in {"skipped", "detected", "already_delivered"}, r \in {"skip", "null"} :
          /\ jobs' = [jobs EXCEPT ![m] = newJob(s, r)]
          /\ s = "already_delivered" => received[m] # NULL
    BY DEF claimMessage
  <1>2. jobs[m].state = "none" /\ UNCHANGED received
    BY DEF claimMessage, chain
  <1>3. newJob(s, r).state = s
    BY NewJobType DEF JobState
  <1>4. transition(m, "none", newJob(s, r))
    BY <1>1, <1>2 DEF transition
  <1>5. <<"none", s>> \in Lifecycle!Edges
    BY DEF Lifecycle!Edges
  <1> HIDE DEF newJob
  <1> QED BY <1>1, <1>2, <1>3, <1>4, <1>5, RecordStep

LEMMA AbstractTick ==
  ASSUME Sound, NEW a \in Actors, TickStep(a) \/ Fault(a)
  PROVE  Abstract
  <1> DEFINE h == at[a].msg
  <1>h. at[a].step # "next" => h \in Messages
    BY DEF Sound, Typed, InHandInv
  <1>r. \A m \in Messages : jobs[m] \in Row
    BY DEF Sound, Typed, TypeOK
  <1>e. \A e \in {<<"detected", "awaiting_attestation">>, <<"detected", "attested">>,
                  <<"awaiting_attestation", "attested">>,
                  <<"awaiting_attestation", "dead_letter">>,
                  <<"attested", "awaiting_attestation">>, <<"attested", "submitted">>,
                  <<"attested", "already_delivered">>, <<"attested", "dead_letter">>,
                  <<"submitted", "delivered">>, <<"submitted", "attested">>} :
          e \in Lifecycle!Edges
    BY DEF Lifecycle!Edges
  <1>1. CASE UNCHANGED <<jobs, received>>
    BY <1>1, StutterStep
  <1>2. ASSUME NEW m \in Messages, tickDetected(a, m)
        PROVE  Abstract
    <2>1. PICK row : /\ transition(m, "detected", row)
                     /\ row.state \in {"attested", "awaiting_attestation"}
      <3>1. /\ [jobs[m] EXCEPT !.state = "attested", !.bytes = TRUE].state = "attested"
            /\ [jobs[m] EXCEPT !.state = "awaiting_attestation"].state
                 = "awaiting_attestation"
        BY <1>r DEF Row
      <3> QED BY <1>2, <3>1 DEF tickDetected
    <2>2. UNCHANGED received
      BY <1>2 DEF tickDetected, chain
    <2> QED BY <2>1, <2>2, <1>e, RecordStep
  <1>3. ASSUME NEW m \in Messages, tickAwaitingExpired(a, m)
        PROVE  Abstract
    <2> DEFINE row == [jobs[m] EXCEPT !.state = "dead_letter",
                                      !.deadLetterReason = "expired"]
    <2>1. row.state = "dead_letter"
      BY <1>r DEF Row
    <2>2. transition(m, "awaiting_attestation", row) /\ UNCHANGED received
      BY <1>3 DEF tickAwaitingExpired, chain
    <2> HIDE DEF row
    <2> QED BY <2>1, <2>2, <1>e, RecordStep
  <1>4. ASSUME NEW m \in Messages, pollOne(a, m)
        PROVE  Abstract
    <2> DEFINE row == [jobs[m] EXCEPT !.state = "attested", !.bytes = TRUE]
    <2>1. row.state = "attested"
      BY <1>r DEF Row
    <2>2. /\ transition(m, "awaiting_attestation", row) \/ UNCHANGED jobs
          /\ UNCHANGED received
      BY <1>4 DEF pollOne, chain
    <2> HIDE DEF row
    <2> QED BY <2>1, <2>2, <1>1, <1>e, RecordStep
  <1>5. ASSUME NEW m \in Messages, tickAttestedRepoll(a, m)
        PROVE  Abstract
    <2> DEFINE row == [jobs[m] EXCEPT !.state = "awaiting_attestation"]
    <2>1. row.state = "awaiting_attestation"
      BY <1>r DEF Row
    <2>2. transition(m, "attested", row) /\ UNCHANGED received
      BY <1>5 DEF tickAttestedRepoll, chain
    <2> HIDE DEF row
    <2> QED BY <2>1, <2>2, <1>e, RecordStep
  <1>6. CASE recordSubmitted(a) \/ recordSubmittedThrows(a)
    <2>1. h \in Messages
      BY <1>6, <1>h DEF recordSubmitted, recordSubmittedThrows, InHand
    <2>2. SubmittedRow(h, at[a].tx).state = "submitted"
      BY <1>r, <2>1 DEF SubmittedRow, Row
    <2>3. /\ transition(h, "attested", SubmittedRow(h, at[a].tx)) \/ UNCHANGED jobs
          /\ UNCHANGED received
      BY <1>6 DEF recordSubmitted, recordSubmittedThrows, chain
    <2> QED BY <2>1, <2>2, <2>3, <1>1, <1>e, RecordStep
  <1>7. CASE recordAlreadyDelivered(a)
    <2> DEFINE row == [jobs[h] EXCEPT !.state = "already_delivered"]
    <2>1. h \in Messages /\ at[a].step = "replayed"
      BY <1>7, <1>h DEF recordAlreadyDelivered, InHand
    <2>2. row.state = "already_delivered" /\ received[h] # NULL
      BY <1>r, <2>1 DEF Row, Sound, TicksSound, HandSound
    <2>3. transition(h, "attested", row) /\ UNCHANGED received
      BY <1>7 DEF recordAlreadyDelivered, chain
    <2> HIDE DEF row
    <2> QED BY <2>1, <2>2, <2>3, <1>e, RecordStep
  <1>8. CASE recordSubmissionFailure(a)
    <2> DEFINE attempts == snap[a][h].retryAttempts + 1
               dead == [jobs[h] EXCEPT !.state = "dead_letter",
                                       !.deadLetterReason = "retries-exhausted"]
               again == [jobs[h] EXCEPT !.retryAttempts = attempts,
                                        !.retryIn = Backoff[attempts]]
    <2>1. h \in Messages /\ UNCHANGED received
      BY <1>8, <1>h DEF recordSubmissionFailure, chain
    <2>2. transition(h, "attested", dead) \/ transition(h, "attested", again)
      <3>1. transition(h, "attested",
                       IF attempts > MAX_RELAY_RETRIES THEN dead ELSE again)
        BY <1>8 DEF recordSubmissionFailure
      <3> HIDE DEF dead, again, attempts
      <3> QED BY <3>1
    <2>3. dead.state = "dead_letter" /\ again.state = jobs[h].state
      BY <1>r, <2>1 DEF Row
    <2>4. CASE transition(h, "attested", dead)
      <3> HIDE DEF dead
      <3> QED BY <2>1, <2>3, <2>4, <1>e, RecordStep
    <2>5. CASE transition(h, "attested", again)
      <3>1. \A k \in Messages : jobs'[k].state = jobs[k].state
        <4> HIDE DEF again
        <4> QED BY <2>1, <2>3, <2>5 DEF transition, Sound, Typed, TypeOK
      <3>2. Recorded' = Recorded /\ Landing' = Landing
        BY <2>1, <3>1 DEF Recorded, Landing
      <3> QED BY <3>2 DEF Abstract, Lifecycle!vars, Recorded, Landing
    <2> QED BY <2>2, <2>4, <2>5
  <1>9. CASE recordDelivered(a)
    <2> DEFINE row == [jobs[h] EXCEPT !.state = "delivered",
                                      !.deliveredTxHash = at[a].tx]
    <2>1. h \in Messages /\ at[a].step = "ok"
      BY <1>9, <1>h DEF recordDelivered, InHand
    <2>2. row.state = "delivered"
      BY <1>r, <2>1 DEF Row
    <2>3. received[h] \in TxIds
      <3>1. Landed(h, at[a].tx, txs)
        BY <2>1 DEF Sound, TicksSound, HandSound
      <3> QED BY <3>1 DEF Landed, Sound, ChainSound
    <2>4. transition(h, "submitted", row) /\ UNCHANGED received
      BY <1>9 DEF recordDelivered, chain
    <2> HIDE DEF row
    <2> QED BY <2>1, <2>2, <2>3, <2>4, <1>e, RecordStep
  <1>10. CASE clearReverted(a) \/ recoverStuck(a)
    <2>1. /\ h \in Messages /\ UNCHANGED received
          /\ transition(h, "submitted", ClearedRow(h))
      BY <1>10, <1>h DEF clearReverted, recoverStuck, InHand, chain
    <2>2. ClearedRow(h).state = "attested"
      BY <2>1, <1>r DEF ClearedRow, Row
    <2> QED BY <2>1, <2>2, <1>e, RecordStep
  <1>11. CASE \/ StartTick(a) \/ ListDetected(a) \/ ListAwaiting(a) \/ ListAttested(a)
              \/ ListSubmitted(a) \/ StartScan(a) \/ EndTick(a) \/ AbortTick(a)
              \/ Crash(a) \/ refetchReverted(a) \/ isInMempool(a)
    BY <1>1, <1>11
    DEF StartTick, ListDetected, ListAwaiting, ListAttested, ListSubmitted,
        StartScan, EndTick, AbortTick, Crash, refetchReverted, isInMempool, chain
  <1>12. ASSUME NEW m \in Messages,
                \/ BroadcastSent(a, m) \/ BroadcastReplay(a, m) \/ BroadcastError(a, m)
                \/ BroadcastLost(a, m) \/ getReceipt(a, m)
         PROVE  Abstract
    BY <1>1, <1>12 DEF BroadcastSent, BroadcastReplay, BroadcastError,
                       BroadcastLost, getReceipt, chain
  <1> QED
    BY <1>2, <1>3, <1>4, <1>5, <1>6, <1>7, <1>8, <1>9, <1>10, <1>11, <1>12
    DEF TickStep, Fault

LEMMA AbstractInit == Init => Lifecycle!Init
  <1> SUFFICES ASSUME Init PROVE Lifecycle!Init
    OBVIOUS
  <1>1. PICK A, S \in SUBSET Relayable, hash \in [Messages -> TxIds] :
          Imported(A, S, hash)
    BY DEF Init
  <1>2. \A m \in Messages : jobs[m].state \in {"none", "attested", "submitted"}
    BY <1>1, NewJobType DEF Imported, NoRow, newJob, JobState
  <1>3. Landing = [m \in Messages |-> "no"]
    BY DEF Landing, LandedBy, Init
  <1> QED BY <1>2, <1>3 DEF Lifecycle!Init, Landing

\* Every behaviour of the pipeline, failures and second instances included, is
\* one RelayLifecycle allows.
THEOREM RefinesLifecycle == Spec => ImplementsLifecycle
  <1>1. Sound /\ [Next]_vars => [Lifecycle!Next]_(Lifecycle!vars)
    <2> SUFFICES ASSUME Sound, [Next]_vars PROVE Abstract
      BY DEF Abstract
    <2>1. CASE UNCHANGED vars
      BY <2>1, StutterStep DEF vars
    <2> QED BY <2>1, AbstractTick, AbstractClaim, AbstractEnvironment DEF Next
  <1> QED
    BY InitSound, SoundStep, AbstractInit, <1>1, PTL
    DEF Spec, ImplementsLifecycle, Lifecycle!Spec

-----------------------------------------------------------------------------
(* One instance.  The actor is meant to run alone; what follows is promised *)
(* only then, and most of it only as long as no call is lost half-way.      *)

OneInstance == \A a, b \in Actors : a = b

Calm ==
  /\ OneInstance
  /\ "throw" \notin Faults /\ "lostResponse" \notin Faults /\ MaxCrashes = 0

\* A listed row is still in the table, with as many attempts booked as when it
\* was listed; the row in hand is a listed one.
Counted ==
  \A a \in Actors, m \in Messages : snap[a][m].state # "none" =>
    jobs[m].state # "none" /\ jobs[m].retryAttempts = snap[a][m].retryAttempts

Handed == \A a \in Actors : at[a].step # "next" => snap[a][at[a].msg].state # "none"

\* The state the rows of a phase are listed in.
PhaseState(phase) == IF phase = "awaiting" THEN "awaiting_attestation" ELSE phase

\* Every listed row is as it was listed, the one in hand included, until this
\* very tick changes it.
Fresh ==
  \A a \in Actors, m \in Messages : snap[a][m].state # "none" =>
    IF at[a].msg = m /\ at[a].step \in {"cleared", "failed"}
    THEN jobs[m].state = "attested"
    ELSE /\ jobs[m].state = PhaseState(at[a].phase)
         /\ jobs[m].submittedTxHash = snap[a][m].submittedTxHash

\* What the answer a tick got says of the transaction it asked about.
Told ==
  \A a \in Actors :
    /\ at[a].step = "sent" => at[a].phase = "attested"
    /\ at[a].step = "replayed" => at[a].phase = "attested"
    /\ at[a].step \in {"ok", "reverted", "noReceipt", "dropped"} =>
         /\ at[a].phase = "submitted" /\ at[a].tx \in TxIds
         /\ at[a].tx = snap[a][at[a].msg].submittedTxHash
    /\ at[a].step \in {"reverted", "dropped"} => txs[at[a].tx].status = at[a].step

\* A message received from us was received through a mined transaction.
Received ==
  \A m \in Messages : received[m] \in TxIds =>
    txs[received[m]] = [msg |-> m, status |-> "ok"]

\* Where the ways a tick moves leave it.
LEMMA EnterMoves ==
  ASSUME Typed, NEW a \in Actors, NEW p, NEW S, Enter(a, p, S)
  PROVE  /\ at'[a] = [phase |-> p, step |-> "next", msg |-> NULL, tx |-> NULL]
         /\ \A m \in Messages : snap'[a][m] = IF m \in S THEN jobs[m] ELSE NoRow
  BY DEF Enter, Idle, Typed, TypeOK

LEMMA DoneMoves ==
  ASSUME Typed, NEW a \in Actors, NEW m \in Messages, Done(a, m)
  PROVE  /\ at'[a] = [phase |-> at[a].phase, step |-> "next", msg |-> NULL, tx |-> NULL]
         /\ snap'[a][m] = NoRow
         /\ \A k \in Messages : k # m => snap'[a][k] = snap[a][k]
  BY DEF Done, Idle, Typed, TypeOK

LEMMA AwaitMoves ==
  ASSUME Typed, NEW a \in Actors, NEW m, NEW s, NEW t, Await(a, s, m, t)
  PROVE  at'[a] = [phase |-> at[a].phase, step |-> s, msg |-> m, tx |-> t]
  BY DEF Await, Typed, TypeOK

LEMMA TransitionMoves ==
  ASSUME Typed, NEW m \in Messages, NEW from, NEW row, transition(m, from, row)
  PROVE  /\ jobs'[m] = IF jobs[m].state = from THEN row ELSE jobs[m]
         /\ \A k \in Messages : k # m => jobs'[k] = jobs[k]
  BY DEF transition, Typed, TypeOK

\* A phase lists rows of its own state and changes none.
LEMMA Listing ==
  ASSUME NEW a \in Actors,
         \/ StartTick(a) \/ ListDetected(a) \/ ListAwaiting(a) \/ ListAttested(a)
         \/ ListSubmitted(a) \/ StartScan(a) \/ EndTick(a) \/ AbortTick(a) \/ Crash(a)
  PROVE  \E p \in Phases, S \in SUBSET Messages :
           /\ Enter(a, p, S) /\ UNCHANGED <<jobs, chain>>
           /\ \A m \in S : /\ jobs[m].state = PhaseState(p)
                           /\ p \in {"detected", "awaiting", "attested", "submitted"}
  <1> DEFINE Goal == \E p \in Phases, S \in SUBSET Messages :
           /\ Enter(a, p, S) /\ UNCHANGED <<jobs, chain>>
           /\ \A m \in S : /\ jobs[m].state = PhaseState(p)
                           /\ p \in {"detected", "awaiting", "attested", "submitted"}
  <1>o. \A state, T : T \in listByState(state) =>
          T \in SUBSET Messages /\ \A m \in T : jobs[m].state = state
    BY DEF listByState, Oldest
  <1>p. \A p \in Phases, S \in SUBSET Messages :
          /\ Enter(a, p, S) /\ UNCHANGED <<jobs, chain>>
          /\ \A m \in S : jobs[m].state = PhaseState(p)
          /\ p \in {"detected", "awaiting", "attested", "submitted"} \/ S = {}
          => Goal
    OBVIOUS
  <1> HIDE DEF Goal
  <1>1. CASE StartTick(a) \/ StartScan(a) \/ EndTick(a) \/ AbortTick(a) \/ Crash(a)
    BY <1>1, <1>p DEF StartTick, StartScan, EndTick, AbortTick, Crash, Phases
  <1>2. CASE ListDetected(a)
    <2>1. PICK T \in listByState("detected") : Enter(a, "detected", T)
      BY <1>2 DEF ListDetected
    <2> QED BY <1>2, <1>o, <1>p, <2>1 DEF ListDetected, Phases, PhaseState
  <1>3. CASE ListAwaiting(a)
    <2>1. PICK T \in listByState("awaiting_attestation") :
            \E P \in Oldest(T \ {m \in T : Expired(jobs[m])}, IRIS_POLL_CONCURRENCY) :
              Enter(a, "awaiting", {m \in T : Expired(jobs[m])} \union P)
      BY <1>3 DEF ListAwaiting
    <2>2. PICK S \in SUBSET T : Enter(a, "awaiting", S)
      BY <2>1 DEF Oldest
    <2> QED BY <1>3, <1>o, <1>p, <2>1, <2>2 DEF ListAwaiting, Phases, PhaseState
  <1>4. CASE ListAttested(a)
    <2>1. PICK T \in listByState("attested") :
            Enter(a, "attested", {m \in T : jobs[m].retryIn = 0})
      BY <1>4 DEF ListAttested
    <2> QED BY <1>4, <1>o, <1>p, <2>1 DEF ListAttested, Phases, PhaseState
  <1>5. CASE ListSubmitted(a)
    <2>1. PICK T \in listByState("submitted") :
            Enter(a, "submitted", {m \in T : jobs[m].submittedTxHash # NULL})
      BY <1>5 DEF ListSubmitted
    <2> QED BY <1>5, <1>o, <1>p, <2>1 DEF ListSubmitted, Phases, PhaseState
  <1> QED BY <1>1, <1>2, <1>3, <1>4, <1>5 DEF Goal

-----------------------------------------------------------------------------
(* Attempts are counted.                                                   *)

Booked == Typed /\ Counted /\ Handed /\ RetriesExhausted

LEMMA CountedDone ==
  ASSUME Booked, OneInstance, NEW a \in Actors, NEW m \in Messages, Done(a, m),
         \A k \in Messages : k # m => jobs'[k] = jobs[k]
  PROVE  Counted' /\ Handed'
  <1>1. at'[a].step = "next" /\ snap'[a][m].state = "none"
        /\ \A k \in Messages : k # m => snap'[a][k] = snap[a][k]
    <2>1. /\ at'[a] = [phase |-> at[a].phase, step |-> "next", msg |-> NULL, tx |-> NULL]
          /\ snap'[a][m] = NoRow
          /\ \A k \in Messages : k # m => snap'[a][k] = snap[a][k]
      BY DoneMoves DEF Booked
    <2> QED BY <2>1 DEF NoRow
  <1>2. \A b \in Actors : b = a
    BY DEF OneInstance
  <1>3. Counted'
    BY <1>1, <1>2 DEF Booked, Counted
  <1>4. Handed'
    BY <1>1, <1>2 DEF Handed
  <1> QED BY <1>3, <1>4

LEMMA CountedAwait ==
  ASSUME Booked, OneInstance, NEW a \in Actors, NEW m \in Messages, NEW s, NEW t,
         Await(a, s, m, t), UNCHANGED snap, snap[a][m].state # "none",
         \A k \in Messages :
           /\ jobs[k].state # "none" => jobs'[k].state # "none"
           /\ jobs'[k].retryAttempts = jobs[k].retryAttempts
  PROVE  Counted' /\ Handed'
  <1>1. at'[a].msg = m
    <2>1. at'[a] = [phase |-> at[a].phase, step |-> s, msg |-> m, tx |-> t]
      BY AwaitMoves DEF Booked
    <2> QED BY <2>1
  <1>2. \A b \in Actors : b = a
    BY DEF OneInstance
  <1>3. Counted'
    BY DEF Booked, Counted
  <1>4. Handed'
    BY <1>1, <1>2 DEF Handed
  <1> QED BY <1>3, <1>4

LEMMA CountedList ==
  ASSUME Booked, OneInstance, NEW a \in Actors,
         \/ StartTick(a) \/ ListDetected(a) \/ ListAwaiting(a) \/ ListAttested(a)
         \/ ListSubmitted(a) \/ StartScan(a) \/ EndTick(a) \/ AbortTick(a) \/ Crash(a)
  PROVE  Counted' /\ Handed' /\ UNCHANGED jobs
  <1>1. PICK p \in Phases, S \in SUBSET Messages :
           /\ Enter(a, p, S) /\ UNCHANGED jobs
           /\ \A m \in S : /\ jobs[m].state = PhaseState(p)
                           /\ p \in {"detected", "awaiting", "attested", "submitted"}
    BY Listing
  <1>2. \A m \in S : jobs[m].state # "none"
    BY <1>1 DEF PhaseState
  <1>3. /\ at'[a].step = "next"
        /\ \A m \in Messages : snap'[a][m] = IF m \in S THEN jobs[m] ELSE NoRow
    <2>1. /\ at'[a] = [phase |-> p, step |-> "next", msg |-> NULL, tx |-> NULL]
          /\ \A m \in Messages : snap'[a][m] = IF m \in S THEN jobs[m] ELSE NoRow
      BY <1>1, EnterMoves DEF Booked
    <2> QED BY <2>1
  <1>4. \A b \in Actors : b = a
    BY DEF OneInstance
  <1>5. Counted'
    BY <1>1, <1>2, <1>3, <1>4 DEF Counted, NoRow
  <1>6. Handed'
    BY <1>3, <1>4 DEF Handed
  <1> QED BY <1>1, <1>5, <1>6

\* What the reason of an update says of it.
Exhausted(row) ==
  row.deadLetterReason = "retries-exhausted" =>
    row.state = "dead_letter" /\ row.retryAttempts = MAX_RELAY_RETRIES

LEMMA ExhaustedWrite ==
  ASSUME Booked, NEW m \in Messages, NEW from, NEW row, transition(m, from, row),
         jobs[m].state = from => Exhausted(row)
  PROVE  RetriesExhausted'
  BY TransitionMoves DEF Booked, RetriesExhausted, Exhausted

\* The rows written, other than for a failed submission.
LEMMA Rewritten ==
  ASSUME Booked, NEW m \in Messages, jobs[m].state # "dead_letter"
  PROVE  \A row \in
           {[jobs[m] EXCEPT !.state = "attested", !.bytes = TRUE],
            [jobs[m] EXCEPT !.state = "awaiting_attestation"],
            [jobs[m] EXCEPT !.state = "dead_letter", !.deadLetterReason = "expired"],
            [jobs[m] EXCEPT !.state = "already_delivered"], ClearedRow(m)}
           \union {SubmittedRow(m, t) : t \in TxIds \union {NULL}}
           \union {[jobs[m] EXCEPT !.state = "delivered", !.deliveredTxHash = t] :
                     t \in TxIds \union {NULL}} :
           /\ Exhausted(row) /\ row.state # "none"
           /\ row.retryAttempts = jobs[m].retryAttempts
  <1>1. jobs[m] \in Row /\ jobs[m].deadLetterReason # "retries-exhausted"
    BY DEF Booked, Typed, TypeOK, RetriesExhausted
  <1> QED BY <1>1 DEF Row, Exhausted, ClearedRow, SubmittedRow

LEMMA BookedTick ==
  ASSUME Booked, OneInstance, NEW a \in Actors, TickStep(a)
  PROVE  Counted' /\ Handed' /\ RetriesExhausted'
  <1> DEFINE h == at[a].msg
  <1>h. at[a].step # "next" => h \in Messages /\ snap[a][h].state # "none"
    BY DEF Booked, Typed, InHandInv, Handed
  <1>t. at[a].tx \in TxIds \union {NULL}
    BY DEF Booked, Typed, TypeOK, At
  <1>j. UNCHANGED jobs => RetriesExhausted'
    BY DEF Booked, RetriesExhausted
  <1>1. CASE \/ StartTick(a) \/ ListDetected(a) \/ ListAwaiting(a)
             \/ ListAttested(a) \/ ListSubmitted(a) \/ StartScan(a) \/ EndTick(a)
    BY <1>1, <1>j, CountedList
  <1>2. ASSUME NEW m \in Messages, NEW from, NEW row, Done(a, m),
               transition(m, from, row), jobs[m].state = from => Exhausted(row)
        PROVE  Counted' /\ Handed' /\ RetriesExhausted'
    BY <1>2, CountedDone, ExhaustedWrite, TransitionMoves DEF Booked
  <1>3. ASSUME NEW m \in Messages, Done(a, m), UNCHANGED jobs
        PROVE  Counted' /\ Handed' /\ RetriesExhausted'
    BY <1>3, <1>j, CountedDone
  <1>4. ASSUME NEW m \in Messages, NEW s, NEW t, Await(a, s, m, t), UNCHANGED <<jobs, snap>>,
               snap[a][m].state # "none"
        PROVE  Counted' /\ Handed' /\ RetriesExhausted'
    BY <1>4, <1>j, CountedAwait
  <1>5. ASSUME NEW m \in Messages, tickDetected(a, m) \/ tickAwaitingExpired(a, m)
                 \/ pollOne(a, m) \/ tickAttestedRepoll(a, m)
        PROVE  Counted' /\ Handed' /\ RetriesExhausted'
    <2>1. Done(a, m)
      BY <1>5 DEF tickDetected, tickAwaitingExpired, pollOne, tickAttestedRepoll
    <2>2. \/ UNCHANGED jobs
          \/ \E from \in {"detected", "awaiting_attestation", "attested"}, row \in
                {[jobs[m] EXCEPT !.state = "attested", !.bytes = TRUE],
                 [jobs[m] EXCEPT !.state = "awaiting_attestation"],
                 [jobs[m] EXCEPT !.state = "dead_letter", !.deadLetterReason = "expired"]} :
               transition(m, from, row)
      BY <1>5 DEF tickDetected, tickAwaitingExpired, pollOne, tickAttestedRepoll
    <2> QED BY <1>2, <1>3, <2>1, <2>2, Rewritten
  <1>6. ASSUME NEW m \in Messages, BroadcastSent(a, m) \/ BroadcastReplay(a, m)
                 \/ BroadcastError(a, m)
        PROVE  Counted' /\ Handed' /\ RetriesExhausted'
    BY <1>4, <1>6 DEF BroadcastSent, BroadcastReplay, BroadcastError, MayBroadcast, NextUp, Todo
  <1>7. ASSUME NEW m \in Messages, getReceipt(a, m)
        PROVE  Counted' /\ Handed' /\ RetriesExhausted'
    BY <1>3, <1>4, <1>7 DEF getReceipt, NextUp, Todo
  <1>8. CASE recordSubmitted(a) \/ recordAlreadyDelivered(a) \/ recordDelivered(a)
             \/ recoverStuck(a)
    <2>1. h \in Messages /\ Done(a, h)
      BY <1>8, <1>h DEF recordSubmitted, recordAlreadyDelivered, recordDelivered,
         recoverStuck, InHand
    <2>2. \E from \in {"attested", "submitted"}, row \in
             {SubmittedRow(h, at[a].tx), [jobs[h] EXCEPT !.state = "already_delivered"],
              [jobs[h] EXCEPT !.state = "delivered", !.deliveredTxHash = at[a].tx],
              ClearedRow(h)} :
            transition(h, from, row)
      BY <1>8 DEF recordSubmitted, recordAlreadyDelivered, recordDelivered, recoverStuck
    <2> QED BY <1>2, <1>t, <2>1, <2>2, Rewritten
  <1>9. CASE recordSubmissionFailure(a)
    <2> DEFINE attempts == snap[a][h].retryAttempts + 1
               dead == [jobs[h] EXCEPT !.state = "dead_letter",
                                       !.deadLetterReason = "retries-exhausted"]
               again == [jobs[h] EXCEPT !.retryAttempts = attempts,
                                        !.retryIn = Backoff[attempts]]
               row == IF attempts > MAX_RELAY_RETRIES THEN dead ELSE again
    <2>1. /\ h \in Messages /\ Done(a, h) /\ snap[a][h].state # "none"
          /\ transition(h, "attested", row)
      BY <1>9, <1>h DEF recordSubmissionFailure
    <2>2. jobs[h] \in Row /\ jobs[h].retryAttempts = snap[a][h].retryAttempts
      BY <2>1 DEF Booked, Typed, TypeOK, Counted
    <2>3. ASSUME jobs[h].state = "attested" PROVE Exhausted(row)
      <3>1. attempts > MAX_RELAY_RETRIES => jobs[h].retryAttempts = MAX_RELAY_RETRIES
        <4>1. jobs[h].retryAttempts \in 0..MAX_RELAY_RETRIES
          BY <2>2 DEF Row
        <4> QED BY <2>2, <4>1, ConstantsAssumption
      <3>2. jobs[h].deadLetterReason # "retries-exhausted"
        BY <2>1, <2>3 DEF Booked, RetriesExhausted
      <3>3. Exhausted(again)
        BY <2>2, <3>2 DEF Exhausted, Row
      <3>4. attempts > MAX_RELAY_RETRIES => Exhausted(dead)
        BY <2>2, <3>1 DEF Exhausted, Row
      <3> QED BY <3>3, <3>4
    <2> HIDE DEF row
    <2> QED BY <1>2, <2>1, <2>3
  <1>10. CASE clearReverted(a)
    <2>1. h \in Messages /\ transition(h, "submitted", ClearedRow(h))
      BY <1>10, <1>h DEF clearReverted, InHand
    <2>2. CASE Done(a, h)
      BY <1>2, <2>1, <2>2, Rewritten
    <2>3. CASE Await(a, "cleared", h, NULL) /\ UNCHANGED snap
      <3>1. \A k \in Messages :
              /\ jobs[k].state # "none" => jobs'[k].state # "none"
              /\ jobs'[k].retryAttempts = jobs[k].retryAttempts
        <4>1. Typed
          BY DEF Booked
        <4>2. /\ jobs'[h] = IF jobs[h].state = "submitted" THEN ClearedRow(h) ELSE jobs[h]
              /\ \A k \in Messages : k # h => jobs'[k] = jobs[k]
          BY <2>1, <4>1, TransitionMoves
        <4>3. jobs[h].state = "submitted" =>
                /\ ClearedRow(h).state # "none"
                /\ ClearedRow(h).retryAttempts = jobs[h].retryAttempts
          BY <2>1, Rewritten
        <4> QED BY <4>2, <4>3
      <3>2. snap[a][h].state # "none"
        BY <1>10, <1>h DEF clearReverted, InHand
      <3>3. Counted' /\ Handed'
        BY <2>1, <2>3, <3>1, <3>2, CountedAwait
      <3> QED BY <2>1, <3>3, Rewritten, ExhaustedWrite
    <2> QED BY <1>10, <2>2, <2>3 DEF clearReverted
  <1>11. CASE refetchReverted(a)
    <2>1. h \in Messages /\ UNCHANGED jobs
      BY <1>11, <1>h DEF refetchReverted, InHand
    <2>2. CASE Done(a, h)
      BY <1>3, <2>1, <2>2
    <2>3. CASE /\ jobs[h].state = "attested" /\ Await(a, "failed", h, NULL)
               /\ snap' = [snap EXCEPT ![a][h] = jobs[h]]
      <3>1. /\ snap'[a][h] = jobs[h]
            /\ \A k \in Messages : k # h => snap'[a][k] = snap[a][k]
        BY <2>1, <2>3 DEF Booked, Typed, TypeOK
      <3>2. at'[a].msg = h
        <4>1. at'[a] = [phase |-> at[a].phase, step |-> "failed", msg |-> h, tx |-> NULL]
          BY <2>3, AwaitMoves DEF Booked
        <4> QED BY <4>1
      <3> QED BY <1>j, <2>1, <2>3, <3>1, <3>2 DEF Booked, OneInstance, Counted, Handed
    <2> QED BY <1>11, <2>2, <2>3 DEF refetchReverted
  <1>12. CASE isInMempool(a)
    BY <1>3, <1>4, <1>12, <1>h DEF isInMempool, InHand
  <1> QED BY <1>1, <1>5, <1>6, <1>7, <1>8, <1>9, <1>10, <1>11, <1>12 DEF TickStep

LEMMA BookedFault ==
  ASSUME Booked, OneInstance, NEW a \in Actors, Fault(a)
  PROVE  Counted' /\ Handed' /\ RetriesExhausted'
  <1> DEFINE h == at[a].msg
  <1>h. at[a].step # "next" => h \in Messages /\ snap[a][h].state # "none"
    BY DEF Booked, Typed, InHandInv, Handed
  <1>j. UNCHANGED jobs => RetriesExhausted'
    BY DEF Booked, RetriesExhausted
  <1>1. CASE AbortTick(a) \/ Crash(a)
    BY <1>1, <1>j, CountedList
  <1>2. ASSUME NEW m \in Messages, BroadcastLost(a, m)
        PROVE  Counted' /\ Handed' /\ RetriesExhausted'
    BY <1>2, <1>j, CountedAwait DEF BroadcastLost, MayBroadcast, NextUp, Todo
  <1>3. CASE recordSubmittedThrows(a)
    <2>1. /\ h \in Messages /\ snap[a][h].state # "none" /\ at[a].tx \in TxIds \union {NULL}
          /\ Await(a, "failed", h, NULL) /\ UNCHANGED snap
      BY <1>3, <1>h DEF recordSubmittedThrows, InHand, Booked, Typed, TypeOK, At
    <2>2. CASE UNCHANGED jobs
      BY <1>j, <2>1, <2>2, CountedAwait
    <2>3. CASE transition(h, "attested", SubmittedRow(h, at[a].tx))
      <3> DEFINE row == SubmittedRow(h, at[a].tx)
      <3>1. jobs[h].state = "attested" =>
              Exhausted(row) /\ row.state # "none" /\ row.retryAttempts = jobs[h].retryAttempts
        BY <2>1, Rewritten
      <3>2. /\ jobs'[h] = IF jobs[h].state = "attested" THEN row ELSE jobs[h]
            /\ \A k \in Messages : k # h => jobs'[k] = jobs[k]
        BY <2>1, <2>3, TransitionMoves DEF Booked
      <3>3. \A k \in Messages :
              /\ jobs[k].state # "none" => jobs'[k].state # "none"
              /\ jobs'[k].retryAttempts = jobs[k].retryAttempts
        BY <3>1, <3>2
      <3> QED BY <2>1, <2>3, <3>1, <3>3, CountedAwait, ExhaustedWrite
    <2> QED BY <1>3, <2>2, <2>3 DEF recordSubmittedThrows
  <1> QED BY <1>1, <1>2, <1>3 DEF Fault

\* Time leaves the states, hashes, attempts and reasons of the rows.
LEMMA ElapsedRows ==
  ASSUME Typed, Elapse
  PROVE  /\ \A m \in Messages :
              /\ jobs'[m].state = jobs[m].state
              /\ jobs'[m].retryAttempts = jobs[m].retryAttempts
              /\ jobs'[m].deadLetterReason = jobs[m].deadLetterReason
              /\ jobs'[m].submittedTxHash = jobs[m].submittedTxHash
              /\ jobs'[m].deliveredTxHash = jobs[m].deliveredTxHash
         /\ \A a \in Actors, m \in Messages :
              /\ snap'[a][m].state = snap[a][m].state
              /\ snap'[a][m].retryAttempts = snap[a][m].retryAttempts
              /\ snap'[a][m].submittedTxHash = snap[a][m].submittedTxHash
         /\ at' = at /\ txs' = txs /\ received' = received
  <1>1. ASSUME NEW m \in Messages
        PROVE  /\ jobs'[m].state = jobs[m].state
               /\ jobs'[m].retryAttempts = jobs[m].retryAttempts
               /\ jobs'[m].deadLetterReason = jobs[m].deadLetterReason
               /\ jobs'[m].submittedTxHash = jobs[m].submittedTxHash
               /\ jobs'[m].deliveredTxHash = jobs[m].deliveredTxHash
    <2>1. jobs[m] \in Row
      BY DEF Typed, TypeOK
    <2>2. jobs'[m] = IF jobs[m].state \in Terminal \union {"none"} THEN jobs[m]
                     ELSE [jobs[m] EXCEPT
                             !.age = Later(@, MaxAttestationAge + 1),
                             !.retryIn = Sooner(@),
                             !.subAge = IF jobs[m].state = "submitted"
                                        THEN Later(@, StuckTxThreshold + 1) ELSE @]
      BY DEF Elapse
    <2> QED BY <2>1, <2>2 DEF Row
  <1>2. ASSUME NEW a \in Actors, NEW m \in Messages
        PROVE  /\ snap'[a][m].state = snap[a][m].state
               /\ snap'[a][m].retryAttempts = snap[a][m].retryAttempts
               /\ snap'[a][m].submittedTxHash = snap[a][m].submittedTxHash
    <2>1. snap[a][m] \in Row
      BY DEF Typed, TypeOK
    <2>2. snap'[a][m] = IF snap[a][m].state # "submitted" THEN snap[a][m]
                        ELSE [snap[a][m] EXCEPT !.subAge = Later(@, StuckTxThreshold + 1)]
      BY DEF Elapse
    <2> QED BY <2>1, <2>2 DEF Row
  <1>3. at' = at /\ txs' = txs /\ received' = received
    BY DEF Elapse, chain
  <1> QED BY <1>1, <1>2, <1>3

LEMMA ClaimMoves ==
  ASSUME Typed, NEW a \in Actors, NEW m \in Messages, claimMessage(a, m)
  PROVE  /\ jobs[m].state = "none" /\ UNCHANGED <<at, snap, txs, received>>
         /\ jobs'[m].state \in {"skipped", "detected", "already_delivered"}
         /\ jobs'[m].deadLetterReason # "retries-exhausted"
         /\ jobs'[m].state = "already_delivered" => received[m] # NULL
         /\ \A k \in Messages : k # m => jobs'[k] = jobs[k]
  <1>1. PICK s \in {"skipped", "detected", "already_delivered"}, r \in {"skip", "null"} :
          /\ jobs' = [jobs EXCEPT ![m] = newJob(s, r)]
          /\ s = "already_delivered" => received[m] # NULL
    BY DEF claimMessage
  <1>2. newJob(s, r).state = s /\ newJob(s, r).deadLetterReason = r
    BY DEF newJob, NoRow
  <1>3. /\ jobs'[m] = newJob(s, r)
        /\ \A k \in Messages : k # m => jobs'[k] = jobs[k]
    BY <1>1 DEF Typed, TypeOK
  <1>4. jobs[m].state = "none" /\ UNCHANGED <<at, snap, txs, received>>
    BY DEF claimMessage, chain
  <1> QED BY <1>1, <1>2, <1>3, <1>4

LEMMA BookedStep == OneInstance /\ Booked /\ [Next]_vars => Booked'
  <1> SUFFICES ASSUME OneInstance, Booked, [Next]_vars PROVE Booked'
    OBVIOUS
  <1>1. Typed'
    BY TypedStep DEF Booked
  <1>2. ASSUME NEW a \in Actors, TickStep(a) \/ Fault(a)
        PROVE  Counted' /\ Handed' /\ RetriesExhausted'
    BY <1>2, BookedTick, BookedFault
  <1>3. ASSUME NEW a \in Actors, NEW m \in Messages, claimMessage(a, m)
        PROVE  Counted' /\ Handed' /\ RetriesExhausted'
    BY <1>3, ClaimMoves DEF Booked, Counted, Handed, RetriesExhausted
  <1>4. CASE UNCHANGED <<jobs, at, snap>>
    BY <1>1, <1>4 DEF Booked, Counted, Handed, RetriesExhausted
  <1>5. CASE Elapse
    <2>1. at' = at
      BY <1>5 DEF Elapse
    <2>2. Counted'
      BY <1>5, ElapsedRows DEF Booked, Counted
    <2>3. Handed'
      BY <1>5, <2>1, ElapsedRows DEF Booked, Handed, Typed, InHandInv
    <2>4. RetriesExhausted'
      BY <1>5, ElapsedRows DEF Booked, RetriesExhausted
    <2> QED BY <1>1, <2>2, <2>3, <2>4 DEF Booked
  <1> QED BY <1>1, <1>2, <1>3, <1>4, <1>5 DEF Booked, Next, Environment, IrisAttest,
       ForeignDelivery, Mine, Revert, Drop, vars

LEMMA InitBooked == Init => Booked
  <1> SUFFICES ASSUME Init PROVE Booked
    OBVIOUS
  <1>1. Typed
    BY InitTyped
  <1>2. PICK A, S \in SUBSET Relayable, hash \in [Messages -> TxIds] :
          Imported(A, S, hash)
    BY DEF Init
  <1>3. /\ newJob("attested", "null").deadLetterReason = "null"
        /\ NoRow.deadLetterReason = "null"
        /\ \A m \in Messages : [newJob("submitted", "null") EXCEPT
              !.submittedTxHash = hash[m]].deadLetterReason = "null"
    BY DEF newJob, NoRow
  <1>4. \A m \in Messages : jobs[m].deadLetterReason = "null"
    BY <1>2, <1>3 DEF Imported
  <1>5. Counted /\ Handed
    BY DEF Init, Counted, Handed, NoRows, NoRow, Idle
  <1> QED BY <1>1, <1>4, <1>5 DEF Booked, RetriesExhausted

\* One instance gives a job up for its retries only when MAX_RELAY_RETRIES of
\* them are booked in its row, although recordSubmissionFailure counts from a
\* copy of it: whatever crashes, is lost or throws.
THEOREM RetriesAreExhausted == OneInstance => (Spec => []RetriesExhausted)
  <1> SUFFICES ASSUME OneInstance PROVE Spec => []RetriesExhausted
    OBVIOUS
  <1>1. Booked /\ [Next]_vars => Booked'
    BY BookedStep
  <1>2. Booked => RetriesExhausted
    BY DEF Booked
  <1> QED BY InitBooked, <1>1, <1>2, PTL DEF Spec

-----------------------------------------------------------------------------
(* Transactions are accounted for.                                         *)

Tracked == Sound /\ Booked /\ Fresh /\ Told /\ Received /\ InFlightTracked

\* A row that accounts for transaction t among T.
Holds(row, t, T) ==
  \/ row.state = "submitted" /\ row.submittedTxHash = t
  \/ T[t].status = "ok" /\ row.state = "delivered" /\ row.deliveredTxHash = t

\* A tick that is not between a broadcast and its record leaves all of it to
\* the table.
LEMMA HeldByRows ==
  ASSUME Tracked, OneInstance, NEW a \in Actors, at[a].step # "sent",
         NEW t \in TxIds, txs[t].status \in {"pending", "ok"}
  PROVE  txs[t].msg \in Messages /\ Holds(jobs[txs[t].msg], t, txs)
  <1>1. \A b \in Actors : b = a
    BY DEF OneInstance
  <1>2. txs[t].msg \in Messages
    BY DEF Tracked, Sound, ChainSound
  <1> QED BY <1>1, <1>2 DEF Tracked, InFlightTracked, Accounted, InHand, Holds

\* What has to be shown of an update of a row.
LEMMA TrackedWrite ==
  ASSUME Tracked, OneInstance, NEW a \in Actors, at[a].step # "sent",
         UNCHANGED txs, NEW m \in Messages,
         \A k \in Messages : k # m => jobs'[k] = jobs[k],
         \A t \in TxIds : txs[t].status \in {"pending", "ok"} /\ Holds(jobs[m], t, txs)
           => Holds(jobs'[m], t, txs)
  PROVE  InFlightTracked'
  <1> SUFFICES ASSUME NEW t \in TxIds, txs[t].status \in {"pending", "ok"}
               PROVE  Holds(jobs'[txs[t].msg], t, txs)
    BY DEF InFlightTracked, Accounted, Holds
  <1>1. txs[t].msg \in Messages /\ Holds(jobs[txs[t].msg], t, txs)
    BY HeldByRows
  <1> QED BY <1>1

\* A tick that finishes a row, or goes on to its next await, keeps the others.
LEMMA FreshDone ==
  ASSUME Tracked, OneInstance, NEW a \in Actors, NEW m \in Messages, Done(a, m),
         at[a].msg \in {NULL, m},
         \A k \in Messages : k # m => jobs'[k] = jobs[k]
  PROVE  Fresh' /\ Told'
  <1>1. Typed /\ \A b \in Actors : b = a
    BY DEF Tracked, Booked, OneInstance
  <1>2. /\ at'[a] = [phase |-> at[a].phase, step |-> "next", msg |-> NULL, tx |-> NULL]
        /\ snap'[a][m] = NoRow
        /\ \A k \in Messages : k # m => snap'[a][k] = snap[a][k]
    BY <1>1, DoneMoves
  <1>3. at'[a].step = "next" /\ at'[a].phase = at[a].phase /\ snap'[a][m].state = "none"
    BY <1>2 DEF NoRow
  <1>4. ASSUME NEW k \in Messages, snap'[a][k].state # "none"
        PROVE  /\ jobs'[k].state = PhaseState(at[a].phase)
               /\ jobs'[k].submittedTxHash = snap'[a][k].submittedTxHash
    BY <1>2, <1>3, <1>4, ConstantsAssumption DEF Tracked, Fresh
  <1>5. Fresh'
    BY <1>1, <1>3, <1>4 DEF Fresh
  <1>6. Told'
    BY <1>1, <1>3 DEF Told
  <1> QED BY <1>5, <1>6

LEMMA FreshAwait ==
  ASSUME Tracked, OneInstance, NEW a \in Actors, NEW m \in Messages, NEW s, NEW t,
         Await(a, s, m, t), UNCHANGED snap, at[a].msg \in {NULL, m},
         \A k \in Messages : k # m => jobs'[k] = jobs[k],
         IF s \in {"cleared", "failed"} THEN jobs'[m].state = "attested"
         ELSE /\ jobs'[m].state = PhaseState(at[a].phase)
              /\ jobs'[m].submittedTxHash = snap[a][m].submittedTxHash,
         s \in {"sent", "replayed"} => at[a].phase = "attested",
         s \in {"ok", "reverted", "noReceipt", "dropped"} =>
           at[a].phase = "submitted" /\ t \in TxIds /\ t = snap[a][m].submittedTxHash,
         s \in {"reverted", "dropped"} => txs'[t].status = s
  PROVE  Fresh' /\ Told'
  <1>1. Typed /\ \A b \in Actors : b = a
    BY DEF Tracked, Booked, OneInstance
  <1>2. at'[a] = [phase |-> at[a].phase, step |-> s, msg |-> m, tx |-> t]
    BY <1>1, AwaitMoves
  <1>3. /\ at'[a].phase = at[a].phase /\ at'[a].step = s
        /\ at'[a].msg = m /\ at'[a].tx = t
    BY <1>2
  <1>4. ASSUME NEW k \in Messages, k # m, snap[a][k].state # "none"
        PROVE  /\ jobs'[k].state = PhaseState(at[a].phase)
               /\ jobs'[k].submittedTxHash = snap[a][k].submittedTxHash
    BY <1>4, ConstantsAssumption DEF Tracked, Fresh
  <1>5. Fresh'
    BY <1>1, <1>3, <1>4 DEF Fresh
  <1>6. Told'
    BY <1>1, <1>3 DEF Told
  <1> QED BY <1>5, <1>6

LEMMA FreshList ==
  ASSUME Tracked, OneInstance, NEW a \in Actors,
         \/ StartTick(a) \/ ListDetected(a) \/ ListAwaiting(a) \/ ListAttested(a)
         \/ ListSubmitted(a) \/ StartScan(a) \/ EndTick(a)
  PROVE  Fresh' /\ Told' /\ InFlightTracked'
  <1>1. PICK p \in Phases, S \in SUBSET Messages :
           /\ Enter(a, p, S) /\ UNCHANGED <<jobs, chain>>
           /\ \A m \in S : jobs[m].state = PhaseState(p)
    BY Listing
  <1>2. Typed /\ \A b \in Actors : b = a
    BY DEF Tracked, Booked, OneInstance
  <1>3. /\ at'[a] = [phase |-> p, step |-> "next", msg |-> NULL, tx |-> NULL]
        /\ \A m \in Messages : snap'[a][m] = IF m \in S THEN jobs[m] ELSE NoRow
    BY <1>1, <1>2, EnterMoves
  <1>4. at'[a].phase = p /\ at'[a].step = "next" /\ NoRow.state = "none"
    BY <1>3 DEF NoRow
  <1>5. Fresh'
    BY <1>1, <1>2, <1>3, <1>4 DEF Fresh
  <1>6. Told'
    BY <1>2, <1>4 DEF Told
  <1>7. at[a].step # "sent"
    BY DEF StartTick, ListDetected, ListAwaiting, ListAttested, ListSubmitted, StartScan,
       EndTick, Between, Tracked, Told
  <1>8. ASSUME NEW t \in TxIds, txs[t].status \in {"pending", "ok"}
        PROVE  Holds(jobs'[txs'[t].msg], t, txs')
    BY <1>1, <1>7, <1>8, HeldByRows DEF chain
  <1>9. InFlightTracked'
    BY <1>1, <1>8 DEF InFlightTracked, Accounted, Holds, chain
  <1> QED BY <1>5, <1>6, <1>9

\* The rows written, as far as they account for anything.
LEMMA WrittenRows ==
  ASSUME Typed, NEW m \in Messages
  PROVE  /\ ClearedRow(m).state = "attested" /\ ClearedRow(m).submittedTxHash = NULL
         /\ \A t \in TxIds : /\ SubmittedRow(m, t).state = "submitted"
                             /\ SubmittedRow(m, t).submittedTxHash = t
         /\ \A t \in TxIds :
              LET row == [jobs[m] EXCEPT !.state = "delivered", !.deliveredTxHash = t]
              IN row.state = "delivered" /\ row.deliveredTxHash = t
  <1>1. jobs[m] \in Row
    BY DEF Typed, TypeOK
  <1> QED BY <1>1 DEF Row, ClearedRow, SubmittedRow

LEMMA TrackedTick ==
  ASSUME Tracked, OneInstance, NEW a \in Actors, TickStep(a)
  PROVE  Fresh' /\ Told' /\ InFlightTracked'
  <1> DEFINE h == at[a].msg
             u == at[a].tx
  <1>h. /\ at[a].step # "next" => h \in Messages /\ snap[a][h].state # "none"
        /\ at[a].step = "next" => h = NULL
    BY DEF Tracked, Booked, Typed, InHandInv, Handed
  <1>t. Typed /\ \A b \in Actors : b = a
    BY DEF Tracked, Booked, OneInstance
  <1>f. \A m \in Messages : snap[a][m].state # "none" =>
          IF h = m /\ at[a].step \in {"cleared", "failed"} THEN jobs[m].state = "attested"
          ELSE /\ jobs[m].state = PhaseState(at[a].phase)
               /\ jobs[m].submittedTxHash = snap[a][m].submittedTxHash
    BY DEF Tracked, Fresh
  \* A row that accounted for nothing, or goes on accounting for the same.
  <1>w. ASSUME NEW m \in Messages, NEW from, NEW row, transition(m, from, row) \/ UNCHANGED jobs,
               Done(a, m), UNCHANGED txs, h \in {NULL, m}, at[a].step # "sent",
               from \notin {"submitted", "delivered"}
        PROVE  Fresh' /\ Told' /\ InFlightTracked'
    <2>1. /\ \A k \in Messages : k # m => jobs'[k] = jobs[k]
          /\ jobs'[m] = jobs[m] \/ jobs[m].state = from
      BY <1>w, <1>t, TransitionMoves
    <2>2. \A t \in TxIds : Holds(jobs[m], t, txs) => Holds(jobs'[m], t, txs)
      BY <1>w, <2>1 DEF Holds
    <2> QED BY <1>w, <2>1, <2>2, FreshDone, TrackedWrite
  <1>1. CASE \/ StartTick(a) \/ ListDetected(a) \/ ListAwaiting(a)
             \/ ListAttested(a) \/ ListSubmitted(a) \/ StartScan(a) \/ EndTick(a)
    BY <1>1, FreshList
  <1>2. ASSUME NEW m \in Messages, tickDetected(a, m) \/ tickAwaitingExpired(a, m)
                 \/ pollOne(a, m) \/ tickAttestedRepoll(a, m)
        PROVE  Fresh' /\ Told' /\ InFlightTracked'
    <2>1. Done(a, m) /\ h = NULL /\ UNCHANGED txs /\ at[a].step # "sent"
      BY <1>2, <1>h DEF tickDetected, tickAwaitingExpired, pollOne, tickAttestedRepoll,
         Between, chain
    <2>2. \/ UNCHANGED jobs
          \/ \E from \in {"detected", "awaiting_attestation", "attested"} :
               \E row : transition(m, from, row)
      BY <1>2 DEF tickDetected, tickAwaitingExpired, pollOne, tickAttestedRepoll
    <2> QED BY <1>w, <2>1, <2>2
  <1>3. ASSUME NEW m \in Messages, BroadcastSent(a, m)
        PROVE  Fresh' /\ Told' /\ InFlightTracked'
    <2>1. PICK t \in TxIds : Send(m, t) /\ Await(a, "sent", m, t)
      BY <1>3 DEF BroadcastSent
    <2>2. /\ h = NULL /\ UNCHANGED <<jobs, snap>> /\ at[a].phase = "attested"
          /\ at[a].step = "next" /\ snap[a][m].state # "none"
      BY <1>3, <1>h DEF BroadcastSent, MayBroadcast, Between, NextUp, Todo
    <2>3. /\ jobs[m].state = PhaseState(at[a].phase)
          /\ jobs[m].submittedTxHash = snap[a][m].submittedTxHash
      BY <1>f, <2>2, ConstantsAssumption
    <2>4. Fresh' /\ Told'
      BY <2>1, <2>2, <2>3, FreshAwait
    <2>5. /\ at'[a] = [phase |-> at[a].phase, step |-> "sent", msg |-> m, tx |-> t]
      BY <1>t, <2>1, AwaitMoves
    <2>6. at'[a].phase = "attested" /\ at'[a].step = "sent" /\ at'[a].tx = t
      BY <2>2, <2>5
    <2>7. \A v \in TxIds : v # t => txs'[v] = txs[v]
      BY <2>1 DEF Send
    <2>8. ASSUME NEW v \in TxIds, v # t, txs[v].status \in {"pending", "ok"}
          PROVE  Holds(jobs[txs[v].msg], v, txs)
      BY <2>2, <2>8, HeldByRows
    <2>9. InFlightTracked'
      BY <2>2, <2>6, <2>7, <2>8 DEF InFlightTracked, Accounted, Holds, InHand
    <2> QED BY <2>4, <2>9
  <1>4. ASSUME NEW m \in Messages, BroadcastReplay(a, m) \/ BroadcastError(a, m)
        PROVE  Fresh' /\ Told' /\ InFlightTracked'
    <2>1. /\ h = NULL /\ UNCHANGED <<jobs, snap, txs>> /\ at[a].phase = "attested"
          /\ at[a].step = "next" /\ snap[a][m].state # "none"
      BY <1>4, <1>h DEF BroadcastReplay, BroadcastError, MayBroadcast, Between, NextUp, Todo,
         chain
    <2>2. PICK s \in {"replayed", "failed"} : Await(a, s, m, NULL)
      BY <1>4 DEF BroadcastReplay, BroadcastError
    <2>3. /\ jobs[m].state = PhaseState(at[a].phase) /\ jobs[m].state = "attested"
          /\ jobs[m].submittedTxHash = snap[a][m].submittedTxHash
      BY <1>f, <2>1, ConstantsAssumption DEF PhaseState
    <2> QED BY <2>1, <2>2, <2>3, FreshAwait, TrackedWrite
  <1>5. ASSUME NEW m \in Messages, getReceipt(a, m)
        PROVE  Fresh' /\ Told' /\ InFlightTracked'
    <2> DEFINE t == snap[a][m].submittedTxHash
    <2>1. /\ h = NULL /\ UNCHANGED <<jobs, txs>> /\ snap[a][m].state # "none"
          /\ at[a].phase = "submitted" /\ at[a].step = "next"
      BY <1>5, <1>h DEF getReceipt, Between, NextUp, Todo, chain
    <2>2. \/ Done(a, m)
          \/ UNCHANGED snap /\ \E s \in {"ok", "reverted", "noReceipt"} :
               Await(a, s, m, t) /\ (s = "reverted" => txs[t].status = "reverted")
      BY <1>5 DEF getReceipt
    <2>3. CASE Done(a, m)
      BY <2>1, <2>3, FreshDone, TrackedWrite
    <2>4. ASSUME UNCHANGED snap, NEW s \in {"ok", "reverted", "noReceipt"},
                 Await(a, s, m, t), s = "reverted" => txs[t].status = "reverted"
          PROVE  Fresh' /\ Told' /\ InFlightTracked'
      <3>1. /\ jobs[m].state = PhaseState(at[a].phase)
            /\ jobs[m].submittedTxHash = snap[a][m].submittedTxHash
        BY <1>f, <2>1, ConstantsAssumption
      <3>2. t \in TxIds
        BY <1>t, <2>1, ConstantsAssumption
        DEF Tracked, Sound, TicksSound, HandSound, Typed, TypeOK, Row
      <3> QED BY <2>1, <2>4, <3>1, <3>2, FreshAwait, TrackedWrite
    <2> QED BY <2>2, <2>3, <2>4
  <1>6. CASE recordSubmitted(a)
    <2>1. /\ h \in Messages /\ Done(a, h) /\ UNCHANGED txs
          /\ transition(h, "attested", SubmittedRow(h, u))
          /\ at[a].step = "sent" /\ at[a].phase = "attested"
      BY <1>6, <1>h DEF recordSubmitted, InHand, chain
    <2>2. jobs[h].state = "attested"
      BY <1>f, <1>h, <2>1 DEF PhaseState
    <2>3. u \in TxIds /\ txs[u].msg = h
      BY <2>1 DEF Tracked, Sound, TicksSound, HandSound, SentFor
    <2>4. /\ jobs'[h].state = "submitted" /\ jobs'[h].submittedTxHash = u
          /\ \A k \in Messages : k # h => jobs'[k] = jobs[k]
      <3>1. /\ jobs'[h] = IF jobs[h].state = "attested" THEN SubmittedRow(h, u) ELSE jobs[h]
            /\ \A k \in Messages : k # h => jobs'[k] = jobs[k]
        BY <1>t, <2>1, TransitionMoves
      <3> QED BY <1>t, <2>1, <2>2, <2>3, <3>1, WrittenRows
    <2>5. ASSUME NEW t \in TxIds, txs[t].status \in {"pending", "ok"}
          PROVE  Holds(jobs'[txs[t].msg], t, txs)
      <3>1. txs[t].msg \in Messages
        BY <2>5 DEF Tracked, Sound, ChainSound
      <3>2. Holds(jobs[txs[t].msg], t, txs) \/ t = u
        BY <1>t, <2>5 DEF Tracked, InFlightTracked, Accounted, Holds, InHand
      <3> QED BY <2>2, <2>3, <2>4, <3>1, <3>2 DEF Holds
    <2>6. InFlightTracked'
      BY <2>1, <2>5 DEF InFlightTracked, Accounted, Holds
    <2> QED BY <2>1, <2>4, <2>6, FreshDone
  <1>7. CASE recordAlreadyDelivered(a)
    <2>1. /\ h \in Messages /\ Done(a, h) /\ UNCHANGED txs /\ at[a].step # "sent"
          /\ transition(h, "attested", [jobs[h] EXCEPT !.state = "already_delivered"])
      BY <1>7, <1>h DEF recordAlreadyDelivered, InHand, chain
    <2> QED BY <1>w, <2>1
  <1>8. CASE recordSubmissionFailure(a)
    <2>1. /\ h \in Messages /\ Done(a, h) /\ UNCHANGED txs /\ at[a].step # "sent"
          /\ \E row : transition(h, "attested", row)
      BY <1>8, <1>h DEF recordSubmissionFailure, chain
    <2> QED BY <1>w, <2>1
  <1>s. ASSUME at[a].step \in {"ok", "reverted", "noReceipt", "dropped"}
        PROVE  /\ h \in Messages /\ jobs[h].state = "submitted"
               /\ jobs[h].submittedTxHash = u
               /\ at[a].phase = "submitted" /\ u \in TxIds /\ u = snap[a][h].submittedTxHash
               /\ at[a].step \in {"reverted", "dropped"} => txs[u].status = at[a].step
    BY <1>s, <1>f, <1>h DEF Tracked, Told, PhaseState
  <1>9. CASE recordDelivered(a)
    <2> DEFINE row == [jobs[h] EXCEPT !.state = "delivered", !.deliveredTxHash = u]
    <2>1. /\ Done(a, h) /\ UNCHANGED txs /\ at[a].step = "ok"
          /\ transition(h, "submitted", row)
      BY <1>9 DEF recordDelivered, InHand, chain
    <2>2. u \in TxIds /\ txs[u].status = "ok"
      <3>1. Landed(h, u, txs)
        BY <2>1 DEF Tracked, Sound, TicksSound, HandSound
      <3> QED BY <3>1 DEF Landed
    <2>3. /\ jobs'[h].state = "delivered" /\ jobs'[h].deliveredTxHash = u
          /\ \A k \in Messages : k # h => jobs'[k] = jobs[k]
      <3>1. /\ jobs'[h] = IF jobs[h].state = "submitted" THEN row ELSE jobs[h]
            /\ \A k \in Messages : k # h => jobs'[k] = jobs[k]
        BY <1>t, <1>s, <2>1, TransitionMoves
      <3> QED BY <1>t, <1>s, <2>1, <2>2, <3>1, WrittenRows
    <2>4. \A t \in TxIds : Holds(jobs[h], t, txs) => Holds(jobs'[h], t, txs)
      BY <1>s, <2>1, <2>2, <2>3 DEF Holds
    <2> QED BY <1>s, <2>1, <2>3, <2>4, FreshDone, TrackedWrite
  <1>10. CASE clearReverted(a) \/ recoverStuck(a)
    <2>1. /\ UNCHANGED txs /\ at[a].step \in {"reverted", "dropped"}
          /\ transition(h, "submitted", ClearedRow(h))
          /\ Done(a, h) \/ (UNCHANGED snap /\ Await(a, "cleared", h, NULL))
      BY <1>10 DEF clearReverted, recoverStuck, InHand, chain
    <2>2. /\ jobs'[h].state = "attested"
          /\ \A k \in Messages : k # h => jobs'[k] = jobs[k]
      <3>1. /\ jobs'[h] = IF jobs[h].state = "submitted" THEN ClearedRow(h) ELSE jobs[h]
            /\ \A k \in Messages : k # h => jobs'[k] = jobs[k]
        BY <1>t, <1>s, <2>1, TransitionMoves
      <3> QED BY <1>t, <1>s, <2>1, <3>1, WrittenRows
    <2>3. \A t \in TxIds : txs[t].status \in {"pending", "ok"} => ~Holds(jobs[h], t, txs)
      BY <1>s, <2>1 DEF Holds
    <2>4. InFlightTracked'
      BY <1>s, <2>1, <2>2, <2>3, TrackedWrite
    <2>5. CASE Done(a, h)
      BY <1>s, <2>1, <2>2, <2>4, <2>5, FreshDone
    <2>6. CASE UNCHANGED snap /\ Await(a, "cleared", h, NULL)
      BY <1>s, <2>1, <2>2, <2>4, <2>6, FreshAwait
    <2> QED BY <2>1, <2>5, <2>6
  <1>11. CASE refetchReverted(a)
    <2>1. /\ h \in Messages /\ UNCHANGED <<jobs, txs>> /\ at[a].step = "cleared"
          /\ snap[a][h].state # "none"
      BY <1>11, <1>h DEF refetchReverted, InHand, chain
    <2>2. InFlightTracked'
      BY <2>1, TrackedWrite
    <2>3. CASE Done(a, h)
      BY <2>1, <2>2, <2>3, FreshDone
    <2>4. CASE /\ jobs[h].state = "attested" /\ Await(a, "failed", h, NULL)
               /\ snap' = [snap EXCEPT ![a][h] = jobs[h]]
      <3>1. \A k \in Messages : k # h => snap'[a][k] = snap[a][k]
        BY <1>t, <2>1, <2>4 DEF Typed, TypeOK
      <3>2. at'[a] = [phase |-> at[a].phase, step |-> "failed", msg |-> h, tx |-> NULL]
        BY <1>t, <2>4, AwaitMoves
      <3>3. at'[a].phase = at[a].phase /\ at'[a].step = "failed" /\ at'[a].msg = h
        BY <3>2
      <3>4. Fresh'
        BY <1>t, <1>f, <2>1, <2>4, <3>1, <3>3 DEF Fresh
      <3>5. Told'
        BY <1>t, <3>3 DEF Told
      <3> QED BY <2>2, <3>4, <3>5
    <2> QED BY <1>11, <2>3, <2>4 DEF refetchReverted
  <1>12. CASE isInMempool(a)
    <2>1. UNCHANGED <<jobs, txs>> /\ at[a].step = "noReceipt"
      BY <1>12 DEF isInMempool, InHand, chain
    <2>2. h \in Messages /\ InFlightTracked'
      BY <1>s, <2>1, TrackedWrite
    <2>3. CASE Done(a, h)
      BY <2>1, <2>2, <2>3, FreshDone
    <2>4. CASE txs[u].status = "dropped" /\ Await(a, "dropped", h, u) /\ UNCHANGED snap
      <3>1. jobs[h].state = PhaseState(at[a].phase)
        BY <1>s, <2>1 DEF PhaseState
      <3> QED BY <1>s, <2>1, <2>2, <2>4, <3>1, FreshAwait
    <2> QED BY <1>12, <2>3, <2>4 DEF isInMempool
  <1> QED BY <1>1, <1>2, <1>3, <1>4, <1>5, <1>6, <1>7, <1>8, <1>9, <1>10, <1>11, <1>12
       DEF TickStep
\* A transaction leaves the mempool; every row and every tick stays as it is.
LEMMA TrackedOutcome ==
  ASSUME Tracked, NEW t \in TxIds, NEW s \in {"ok", "reverted", "dropped"},
         txs[t].status = "pending", txs' = [txs EXCEPT ![t].status = s],
         UNCHANGED <<jobs, at, snap>>
  PROVE  Fresh' /\ Told' /\ InFlightTracked'
  <1>1. /\ txs'[t].msg = txs[t].msg /\ txs'[t].status = s
        /\ \A u \in TxIds : u # t => txs'[u] = txs[u]
    BY StatusStep DEF Tracked
  <1>2. Fresh'
    BY DEF Tracked, Fresh
  <1>3. Told'
    BY <1>1 DEF Tracked, Told
  <1>4. InFlightTracked'
    <2> SUFFICES ASSUME NEW u \in TxIds, txs'[u].status \in {"pending", "ok"}
                 PROVE  Accounted(u)'
      BY DEF InFlightTracked
    <2>1. Accounted(u)
      BY <1>1 DEF Tracked, InFlightTracked
    <2>2. txs'[u].msg = txs[u].msg /\ (txs[u].status = "ok" => txs'[u].status = "ok")
      BY <1>1
    <2> QED BY <2>1, <2>2 DEF Accounted, InHand
  <1> QED BY <1>2, <1>3, <1>4

\* The destination says "received from us" only of a transaction it mined.
LEMMA ReceivedStep ==
  ASSUME Tracked, [Next]_vars
  PROVE  Received'
  <1>1. Grows
    BY ChainStep DEF Tracked
  <1>2. CASE UNCHANGED received
    BY <1>1, <1>2 DEF Tracked, Received, Grows
  <1>3. ASSUME NEW m \in Messages, ForeignDelivery(m)
        PROVE  Received'
    <2>1. /\ received'[m] = FOREIGN /\ UNCHANGED txs
          /\ \A k \in Messages : k # m => received'[k] = received[k]
      BY <1>3 DEF ForeignDelivery, Tracked, Booked, Typed, TypeOK
    <2> QED BY <2>1, ConstantsAssumption DEF Tracked, Received
  <1>4. ASSUME NEW t \in TxIds, Mine(t)
        PROVE  Received'
    <2> DEFINE m == txs[t].msg
    <2>1. CASE /\ txs' = [txs EXCEPT ![t].status = "ok"]
               /\ received' = [received EXCEPT ![m] = t]
      <3>1. m \in Messages /\ txs[t] \in Tx
        BY <1>4 DEF Mine, Tracked, Sound, ChainSound, Typed, TypeOK
      <3>2. txs'[t] = [msg |-> m, status |-> "ok"]
        BY <2>1, <3>1 DEF Tracked, Booked, Typed, TypeOK, Tx
      <3>3. received'[m] = t /\ \A k \in Messages : k # m => received'[k] = received[k]
        BY <2>1, <3>1 DEF Tracked, Booked, Typed, TypeOK
      <3>4. ASSUME NEW k \in Messages, k # m, received[k] \in TxIds
            PROVE  txs'[received[k]] = [msg |-> k, status |-> "ok"]
        BY <1>1, <3>4 DEF Tracked, Received, Grows
      <3> HIDE DEF m
      <3> QED BY <3>1, <3>2, <3>3, <3>4 DEF Received
    <2> QED BY <1>2, <1>4, <2>1 DEF Mine
  <1>5. CASE Environment
    BY <1>2, <1>3, <1>4, <1>5 DEF Environment, IrisAttest, Revert, Drop, Elapse, chain
  <1>6. ASSUME NEW a \in Actors, TickStep(a) \/ Fault(a)
        PROVE  UNCHANGED received
    BY <1>6
    DEF TickStep, Fault, StartTick, ListDetected, ListAwaiting, ListAttested,
        ListSubmitted, StartScan, EndTick, tickDetected, tickAwaitingExpired,
        pollOne, tickAttestedRepoll, BroadcastSent, BroadcastReplay,
        BroadcastError, BroadcastLost, getReceipt, recordSubmitted,
        recordAlreadyDelivered, recordSubmissionFailure, recordDelivered,
        clearReverted, refetchReverted, isInMempool, recoverStuck,
        recordSubmittedThrows, AbortTick, Crash, chain
  <1>7. CASE \E a \in Actors, m \in Messages : claimMessage(a, m)
    BY <1>2, <1>7 DEF claimMessage, chain
  <1> QED BY <1>2, <1>5, <1>6, <1>7 DEF Next, vars

\* Without lost answers, throws and crashes no tick is cut short.
LEMMA CalmTicks ==
  ASSUME Calm, Typed, NEW a \in Actors
  PROVE  ~Fault(a)
  <1>1. ~Crash(a)
    BY ConstantsAssumption DEF Calm, Crash, Typed, TypeOK
  <1> QED BY <1>1 DEF Calm, Fault, BroadcastLost, recordSubmittedThrows, AbortTick

LEMMA TrackedStep == Calm /\ Tracked /\ [Next]_vars => Tracked'
  <1> SUFFICES ASSUME Calm, Tracked, [Next]_vars PROVE Tracked'
    OBVIOUS
  <1>1. Sound' /\ Booked' /\ Received'
    BY SoundStep, BookedStep, ReceivedStep DEF Tracked, Calm
  <1>2. OneInstance /\ Typed
    BY DEF Calm, Tracked, Booked
  <1>3. ASSUME NEW a \in Actors, TickStep(a) \/ Fault(a)
        PROVE  Fresh' /\ Told' /\ InFlightTracked'
    BY <1>2, <1>3, TrackedTick, CalmTicks
  <1>4. ASSUME NEW a \in Actors, NEW m \in Messages, claimMessage(a, m)
        PROVE  Fresh' /\ Told' /\ InFlightTracked'
    <2>1. /\ jobs[m].state = "none" /\ UNCHANGED <<at, snap, txs>>
          /\ \A k \in Messages : k # m => jobs'[k] = jobs[k]
      BY <1>2, <1>4, ClaimMoves
    <2>2. at[a].step # "sent"
      BY <1>4 DEF claimMessage, Between
    <2>3. \A b \in Actors : snap[b][m].state = "none"
      BY <2>1 DEF Tracked, Booked, Counted
    <2>4. Fresh'
      BY <2>1, <2>3 DEF Tracked, Fresh
    <2>5. Told'
      BY <2>1 DEF Tracked, Told
    <2>6. InFlightTracked'
      BY <1>2, <2>1, <2>2, TrackedWrite DEF Holds
    <2> QED BY <2>4, <2>5, <2>6
  <1>5. ASSUME Elapse PROVE Fresh' /\ Told' /\ InFlightTracked'
    <2>1. /\ \A m \in Messages :
               /\ jobs'[m].state = jobs[m].state
               /\ jobs'[m].submittedTxHash = jobs[m].submittedTxHash
               /\ jobs'[m].deliveredTxHash = jobs[m].deliveredTxHash
          /\ \A a \in Actors, m \in Messages :
               /\ snap'[a][m].state = snap[a][m].state
               /\ snap'[a][m].submittedTxHash = snap[a][m].submittedTxHash
          /\ at' = at /\ txs' = txs
      BY <1>2, <1>5, ElapsedRows
    <2>2. Fresh'
      BY <2>1 DEF Tracked, Fresh
    <2>3. Told'
      BY <1>2, <2>1 DEF Tracked, Told, Typed, InHandInv
    <2>4. InFlightTracked'
      <3> SUFFICES ASSUME NEW t \in TxIds, txs[t].status \in {"pending", "ok"}
                   PROVE  Accounted(t)'
        BY <2>1 DEF InFlightTracked
      <3>1. txs[t].msg \in Messages /\ Accounted(t)
        BY DEF Tracked, InFlightTracked, Sound, ChainSound
      <3> QED BY <2>1, <3>1 DEF Accounted, InHand
    <2> QED BY <2>2, <2>3, <2>4
  <1>6. ASSUME NEW t \in TxIds, Mine(t) \/ Revert(t) \/ Drop(t)
        PROVE  Fresh' /\ Told' /\ InFlightTracked'
    BY <1>6, TrackedOutcome DEF Mine, Revert, Drop
  <1>7. ASSUME UNCHANGED <<jobs, txs, at, snap>>
        PROVE  Fresh' /\ Told' /\ InFlightTracked'
    BY <1>7 DEF Tracked, Fresh, Told, InFlightTracked, Accounted, InHand
  <1>8. Fresh' /\ Told' /\ InFlightTracked'
    BY <1>3, <1>4, <1>5, <1>6, <1>7 DEF Next, Environment, IrisAttest, ForeignDelivery, vars
  <1> QED BY <1>1, <1>8 DEF Tracked

LEMMA InitTracked == Init => Tracked
  <1> SUFFICES ASSUME Init PROVE Tracked
    OBVIOUS
  <1>1. Sound /\ Booked
    BY InitSound, InitBooked
  <1>2. Fresh /\ Told
    BY DEF Init, Fresh, Told, NoRows, NoRow, Idle
  <1>3. Received
    BY ConstantsAssumption DEF Init, Received
  <1>4. PICK A, S \in SUBSET Relayable, hash \in [Messages -> TxIds] :
          Imported(A, S, hash)
    BY DEF Init
  <1>5. ASSUME NEW t \in TxIds, txs[t].status \in {"pending", "ok"}
        PROVE  Accounted(t)
    <2>1. \E m \in S : hash[m] = t
      BY <1>4, <1>5 DEF Imported
    <2> DEFINE m == CHOOSE k \in S : hash[k] = t
    <2>2. m \in S /\ hash[m] = t /\ m \in Messages
      BY <2>1, ConstantsAssumption
    <2>3. txs[t] = [msg |-> m, status |-> "pending"]
      BY <1>4, <2>1 DEF Imported
    <2> HIDE DEF m
    <2>4. jobs[m].state = "submitted" /\ jobs[m].submittedTxHash = t
      BY <1>4, <2>2 DEF Imported, newJob, NoRow
    <2> QED BY <2>3, <2>4 DEF Accounted
  <1> QED BY <1>1, <1>2, <1>3, <1>5 DEF Tracked, InFlightTracked

\* While one instance runs and no call is cut short, every transaction that
\* may deliver or has delivered is accounted for: by the row that polls it, by
\* the broadcast about to be written, or by the recorded delivery.
THEOREM TracksInFlight == Calm => (Spec => []InFlightTracked)
  <1> SUFFICES ASSUME Calm PROVE Spec => []InFlightTracked
    OBVIOUS
  <1>1. Tracked /\ [Next]_vars => Tracked'
    BY TrackedStep
  <1>2. Tracked => InFlightTracked
    BY DEF Tracked
  <1> QED BY InitTracked, <1>1, <1>2, PTL DEF Spec

LEMMA OwnDelivery == Tracked => OwnDeliveryRecorded
  <1> SUFFICES ASSUME Tracked, NEW m \in Messages, received[m] \in TxIds
               PROVE  jobs[m].state \notin {"already_delivered", "dead_letter"}
    BY DEF OwnDeliveryRecorded
  <1> DEFINE t == received[m]
  <1>1. txs[t] = [msg |-> m, status |-> "ok"]
    BY DEF Tracked, Received
  <1>2. t \in TxIds /\ txs[t].msg = m /\ txs[t].status = "ok"
    BY <1>1
  <1>3. Accounted(t)
    BY <1>2 DEF Tracked, InFlightTracked
  <1>4. ASSUME NEW a \in Actors, InHand(a, "attested", "sent"), at[a].tx = t
        PROVE  jobs[m].state = "attested"
    <2>1. SentFor(at[a].msg, t, txs)
      BY <1>4 DEF InHand, Tracked, Sound, TicksSound, HandSound
    <2>2. at[a].msg = m /\ snap[a][m].state # "none"
      BY <1>2, <1>4, <2>1 DEF SentFor, InHand, Tracked, Booked, Handed
    <2> QED BY <1>4, <2>2 DEF InHand, Tracked, Fresh, PhaseState
  <1> QED BY <1>2, <1>3, <1>4 DEF Accounted

\* While one instance runs and no call is cut short, a message our own
\* transaction delivered is never written off as another's or as dead.
THEOREM RecordsOwnDelivery == Calm => (Spec => []OwnDeliveryRecorded)
  <1> SUFFICES ASSUME Calm PROVE Spec => []OwnDeliveryRecorded
    OBVIOUS
  <1>1. Tracked /\ [Next]_vars => Tracked'
    BY TrackedStep
  <1> QED BY InitTracked, OwnDelivery, <1>1, PTL DEF Spec

\* Only a tick that has found its message attested, with nothing of it in the
\* mempool, sends a transaction.
LEMMA NotBlind ==
  ASSUME Calm, Tracked, [Next]_vars,
         NEW t \in TxIds, txs[t].status = "unsent", txs'[t].status = "pending",
         NEW u \in TxIds, txs[u].status = "pending"
  PROVE  txs[u].msg # txs'[t].msg
  <1>1. OneInstance /\ Typed
    BY DEF Calm, Tracked, Booked
  <1>2. ASSUME NEW a \in Actors, NEW m \in Messages, BroadcastSent(a, m)
        PROVE  txs[u].msg # txs'[t].msg
    <2>1. PICK v \in TxIds : Send(m, v)
      BY <1>2 DEF BroadcastSent
    <2>2. v = t /\ txs'[t].msg = m
      BY <1>1, <2>1 DEF Send, Typed, TypeOK
    <2>3. /\ at[a].phase = "attested" /\ at[a].step = "next" /\ at[a].msg = NULL
          /\ snap[a][m].state # "none"
      BY <1>1, <1>2 DEF BroadcastSent, MayBroadcast, Between, NextUp, Todo, Typed, InHandInv
    <2>4. jobs[m].state = "attested"
      BY <2>3, ConstantsAssumption DEF Tracked, Fresh, PhaseState
    <2>5. Holds(jobs[txs[u].msg], u, txs)
      BY <1>1, <2>3, HeldByRows
    <2> QED BY <2>2, <2>4, <2>5 DEF Holds
  <1>3. UNCHANGED txs => txs'[t].status = "unsent"
    OBVIOUS
  <1>4. ASSUME NEW v \in TxIds, Mine(v) \/ Revert(v) \/ Drop(v)
        PROVE  FALSE
    <2>1. PICK s \in {"ok", "reverted", "dropped"} :
            txs[v].status = "pending" /\ txs' = [txs EXCEPT ![v].status = s]
      BY <1>4 DEF Mine, Revert, Drop
    <2>2. txs'[v].status = s /\ \A w \in TxIds : w # v => txs'[w] = txs[w]
      BY <2>1, StatusStep DEF Tracked
    <2> QED BY <2>2
  <1>5. ASSUME NEW a \in Actors, TickStep(a) \/ Fault(a)
        PROVE  UNCHANGED txs \/ \E m \in Messages : BroadcastSent(a, m)
    <2>1. TickStep(a)
      BY <1>1, <1>5, CalmTicks
    <2> QED BY <2>1
      DEF TickStep, StartTick, ListDetected, ListAwaiting, ListAttested,
          ListSubmitted, StartScan, EndTick, tickDetected, tickAwaitingExpired,
          pollOne, tickAttestedRepoll, BroadcastReplay, BroadcastError, getReceipt,
          recordSubmitted, recordAlreadyDelivered, recordSubmissionFailure,
          recordDelivered, clearReverted, refetchReverted, isInMempool, recoverStuck, chain
  <1> QED BY <1>2, <1>3, <1>4, <1>5
       DEF Next, Environment, IrisAttest, ForeignDelivery, Elapse, claimMessage, chain, vars

\* While one instance runs and no call is cut short, tickAttested never sends
\* a message again that a transaction in the mempool may still deliver.
THEOREM NeverBlind == Calm => (Spec => NoBlindResubmit)
  <1> SUFFICES ASSUME Calm PROVE Spec => NoBlindResubmit
    OBVIOUS
  <1>1. Tracked /\ [Next]_vars => Tracked'
    BY TrackedStep
  <1>2. Tracked /\ [Next]_vars =>
          [\A t \in TxIds : txs[t].status = "unsent" /\ txs'[t].status = "pending" =>
             \A u \in TxIds :
               ~(txs[u].status = "pending" /\ txs[u].msg = txs'[t].msg)]_vars
    BY NotBlind
  <1> QED BY InitTracked, <1>1, <1>2, PTL DEF Spec, NoBlindResubmit
=============================================================================
