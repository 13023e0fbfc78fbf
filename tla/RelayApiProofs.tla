--------------------------- MODULE RelayApiProofs ---------------------------
(* Proofs about RelayApi, for any requests, keys, calldata and restarts. *)
EXTENDS RelayApi, TLAPS

-----------------------------------------------------------------------------
(* The inductive invariant.                                                *)

\* Among the transactions T, t is on its way or mined, for calldata p.
Sent(t, p, T) == t \in TxIds /\ T[t].status # "unsent" /\ T[t].payload = p

\* A handler that had its transaction accepted holds its own hash.
Handed ==
  \A r \in Requests :
    /\ stage[r] \in {"accepted", "putting"} => txOf[r] # NULL
    /\ txOf[r] # NULL => Sent(txOf[r], PayloadOf[r], txs) /\ txs[txOf[r]].by = r

\* The duplicate cache and the idempotency table name transactions that were
\* broadcast for that calldata, for a request with that key.
CacheSound == \A p \in Payloads : dedup[p].tx # NULL => Sent(dedup[p].tx, p, txs)

TableSound ==
  \A k \in Keys :
    LET t == idem[k].tx IN
    /\ t = NULL => idem[k] = NoRecord
    /\ t # NULL => /\ t \in TxIds /\ txs[t].status # "unsent"
                   /\ txs[t].by \in Requests /\ KeyOf[txs[t].by] = k

\* A backfill under way carries the status the chain ended with.
ReceiptsTrue == \A u \in backfills : txs[u[1]].status = u[2]

\* A transaction the living process knows of is in the duplicate cache for as
\* long as it is younger than DEDUP_TTL, and no older there.
KnownCached ==
  \A t \in TxIds : txs[t].known =>
    /\ txs[t].status # "unsent" /\ txs[t].payload \in Payloads
    /\ txs[t].age <= DEDUP_TTL =>
         /\ dedup[txs[t].payload].tx # NULL
         /\ dedup[txs[t].payload].age <= txs[t].age

\* A handler on its way to the node found no entry, and none was made since.
NoneCached ==
  \A r \in Requests : stage[r] = "submitting" => dedup[PayloadOf[r]].tx = NULL

\* An absent entry has no hash, and an entry has one.
EntryShape == \A p \in Payloads : dedup[p].tx = NULL => dedup[p] = NoEntry

\* A hash handed to a client is that of a transaction the relayer broadcast:
\* for the request itself, for a request with the same calldata (the hash in
\* the DUPLICATE_TX message), or for a request with the same key.
AnswerSound ==
  \A r \in Requests : answer[r].tx # NULL =>
    LET t == answer[r].tx IN
    /\ txs[t].status # "unsent"
    /\ answer[r].code = "OK" => txs[t].by = r
    /\ answer[r].code = "DUPLICATE_TX" => txs[t].payload = PayloadOf[r]
    /\ answer[r].code = "REPLAY" => KeyOf[txs[t].by] = KeyOf[r]

\* A transaction belongs to the request it was broadcast for, whose handler has
\* got past its broadcast, and a handler that is not done has not answered.
Owned ==
  /\ \A t \in TxIds : txs[t].status # "unsent" =>
       /\ txs[t].by \in Requests /\ txOf[txs[t].by] = t
       /\ txs[t].payload = PayloadOf[txs[t].by]
  /\ \A r \in Requests :
       /\ stage[r] \in {"new", "looking", "verifying", "estimating", "submitting"} =>
            txOf[r] = NULL
       /\ stage[r] # "answered" => answer[r].code = "none"

Held == TypeOK /\ LockOwned /\ Handed
Cached == CacheSound /\ EntryShape /\ KnownCached /\ NoneCached
Answered == TableSound /\ ReceiptsTrue /\ AnswerSound

-----------------------------------------------------------------------------
(* Types.                                                                  *)

\* What the actions write.
LEMMA Ages == \A x \in 0..(DEDUP_TTL + 1) : Older(x) \in 0..(DEDUP_TTL + 1)
  BY ConstantsAssumption DEF Older

LEMMA EntryUpdates ==
  /\ NoEntry \in Entry
  /\ \A e \in Entry : e.tx \in TxIds \union {NULL} /\ [e EXCEPT !.age = Older(@)] \in Entry
  /\ \A t \in TxIds \union {NULL} : [tx |-> t, age |-> 0] \in Entry
  <1>1. \A e \in Entry : e.age \in 0..(DEDUP_TTL + 1) /\ e.tx \in TxIds \union {NULL}
    BY DEF Entry
  <1>2. \A e \in Entry : [e EXCEPT !.age = Older(@)] \in Entry
    BY <1>1, Ages DEF Entry
  <1> QED BY <1>1, <1>2, ConstantsAssumption DEF NoEntry, Entry

LEMMA RecordUpdates ==
  /\ NoRecord \in Record
  /\ \A c \in Record : c.tx \in TxIds \union {NULL}
  /\ \A c \in Record, s \in {"confirmed", "failed"} : [c EXCEPT !.status = s] \in Record
  /\ \A t \in TxIds \union {NULL} : [tx |-> t, status |-> "pending"] \in Record
  BY DEF NoRecord, Record

LEMMA TxUpdates ==
  /\ Unsent \in Tx
  /\ \A r \in Requests :
       [Unsent EXCEPT !.payload = PayloadOf[r], !.by = r, !.status = "pending"] \in Tx
  /\ \A tx \in Tx :
       /\ \A b \in BOOLEAN : [tx EXCEPT !.known = b] \in Tx
       /\ \A s \in {"pending", "confirmed", "failed"} : [tx EXCEPT !.status = s] \in Tx
       /\ [tx EXCEPT !.age = Older(@)] \in Tx
  <1>1. Unsent \in Tx
    BY ConstantsAssumption DEF Unsent, Tx
  <1>2. ASSUME NEW r \in Requests
        PROVE  [Unsent EXCEPT !.payload = PayloadOf[r], !.by = r, !.status = "pending"] \in Tx
    <2>1. PayloadOf[r] \in Payloads
      BY ConstantsAssumption
    <2> QED BY <1>1, <2>1 DEF Tx
  <1>3. ASSUME NEW tx \in Tx PROVE [tx EXCEPT !.age = Older(@)] \in Tx
    <2>1. Older(tx.age) \in 0..(DEDUP_TTL + 1)
      BY Ages DEF Tx
    <2> QED BY <2>1 DEF Tx
  <1>4. ASSUME NEW tx \in Tx, NEW b \in BOOLEAN PROVE [tx EXCEPT !.known = b] \in Tx
    BY DEF Tx
  <1>5. ASSUME NEW tx \in Tx, NEW s \in {"pending", "confirmed", "failed"}
        PROVE  [tx EXCEPT !.status = s] \in Tx
    BY DEF Tx
  <1> QED BY <1>1, <1>2, <1>3, <1>4, <1>5

LEMMA AnswerType ==
  ASSUME TypeOK, NEW r \in Requests, NEW c \in Codes, NEW t \in TxIds \union {NULL},
         Answer(r, c, t)
  PROVE  /\ stage' \in [Requests -> Stages]
         /\ answer' \in [Requests -> [code : Codes, tx : TxIds \union {NULL}]]
  BY DEF TypeOK, Answer, Stages

LEMMA GotoType ==
  ASSUME TypeOK, NEW r \in Requests, NEW s \in Stages, Goto(r, s)
  PROVE  /\ stage' \in [Requests -> Stages]
         /\ answer' \in [Requests -> [code : Codes, tx : TxIds \union {NULL}]]
  BY DEF TypeOK, Goto

LEMMA TypedHandler ==
  ASSUME TypeOK, NEW r \in Requests, arrive(r) \/ Handler(r)
  PROVE  TypeOK'
  <1> USE ConstantsAssumption
  <1> DEFINE Served == /\ stage' \in [Requests -> Stages]
                       /\ answer' \in [Requests -> [code : Codes, tx : TxIds \union {NULL}]]
  <1>1. CASE arrive(r)
    <2>1. Served
      BY <1>1, GotoType DEF arrive, Stages
    <2> QED BY <1>1, <2>1 DEF arrive, TypeOK
  <1>2. CASE idempotencyGet(r)
    <2>1. CASE Goto(r, "verifying")
      <3>1. Served
        BY <2>1, GotoType DEF Stages
      <3> QED BY <1>2, <3>1 DEF idempotencyGet, TypeOK
    <2>2. ASSUME NEW c \in Codes, NEW t \in TxIds \union {NULL}, Answer(r, c, t)
          PROVE  TypeOK'
      <3>1. Served
        BY <2>2, AnswerType
      <3> QED BY <1>2, <3>1 DEF idempotencyGet, TypeOK
    <2>3. KeyOf[r] # NULL => idem[KeyOf[r]].tx \in TxIds \union {NULL}
      BY RecordUpdates DEF TypeOK
    <2>4. ASSUME NEW b \in BOOLEAN, Verdict(r, b) # "ok" PROVE Verdict(r, b) \in Codes
      BY <2>4 DEF Verdict, Codes, Errors
    <2>5. "REPLAY" \in Codes /\ "UNKNOWN_ERROR" \in Codes
      BY DEF Codes, Errors
    <2> QED BY <1>2, <2>1, <2>2, <2>3, <2>4, <2>5 DEF idempotencyGet
  <1>3. CASE tryAcquire(r)
    <2>1. Served
      BY <1>3, AnswerType, GotoType DEF tryAcquire, Stages, Codes, Errors
    <2> QED BY <1>3, <2>1 DEF tryAcquire, TypeOK
  <1>4. CASE estimateGas(r)
    <2>1. dedup[PayloadOf[r]].tx \in TxIds \union {NULL}
      BY EntryUpdates DEF TypeOK
    <2>2. Served
      BY <1>4, <2>1, AnswerType, GotoType DEF estimateGas, Stages, Codes, Errors
    <2>3. busy' \in BOOLEAN
      BY <1>4 DEF estimateGas, TypeOK
    <2>4. dedup' \in [Payloads -> Entry]
      BY <1>4, EntryUpdates DEF estimateGas, TypeOK
    <2> QED BY <1>4, <2>2, <2>3, <2>4 DEF estimateGas, TypeOK
  <1>5. CASE NodeAccepts(r)
    <2>1. Served
      BY <1>5, GotoType DEF NodeAccepts, Stages
    <2>2. txOf' \in [Requests -> TxIds \union {NULL}]
      BY <1>5 DEF NodeAccepts, TypeOK
    <2>3. txs' \in [TxIds -> Tx]
      <3>1. PICK t \in TxIds :
              txs' = [txs EXCEPT ![t] = [Unsent EXCEPT !.payload = PayloadOf[r],
                                           !.by = r, !.status = "pending"]]
        BY <1>5 DEF NodeAccepts
      <3> QED BY <3>1, TxUpdates DEF TypeOK
    <2> QED BY <1>5, <2>1, <2>2, <2>3 DEF NodeAccepts, TypeOK
  <1>6. CASE submitFails(r)
    <2>1. Served
      BY <1>6, AnswerType DEF submitFails, Codes, Errors
    <2> QED BY <1>6, <2>1 DEF submitFails, TypeOK
  <1>7. CASE record(r)
    <2>1. txOf[r] \in TxIds \union {NULL}
      BY DEF TypeOK
    <2>2. Served
      BY <1>7, <2>1, AnswerType, GotoType DEF record, Stages, Codes
    <2>3. dedup' \in [Payloads -> Entry]
      BY <1>7, <2>1, EntryUpdates DEF record, TypeOK
    <2>4. txs' \in [TxIds -> Tx]
      <3>1. ASSUME NEW t \in TxIds PROVE [txs[t] EXCEPT !.known = TRUE] \in Tx
        BY TxUpdates DEF TypeOK
      <3> QED BY <1>7, <3>1 DEF record, TypeOK
    <2> QED BY <1>7, <2>2, <2>3, <2>4 DEF record, TypeOK
  <1>8. CASE idempotencyPut(r)
    <2>1. txOf[r] \in TxIds \union {NULL}
      BY DEF TypeOK
    <2>2. Served
      BY <1>8, <2>1, AnswerType DEF idempotencyPut, Codes, Errors
    <2>3. idem' \in [Keys -> Record]
      <3>1. [tx |-> txOf[r], status |-> "pending"] \in Record
        BY <2>1, RecordUpdates
      <3> QED BY <1>8, <3>1 DEF idempotencyPut, TypeOK
    <2> QED BY <1>8, <2>2, <2>3 DEF idempotencyPut, TypeOK
  <1> QED
    BY <1>1, <1>2, <1>3, <1>4, <1>5, <1>6, <1>7, <1>8 DEF Handler

LEMMA TypedRest ==
  ASSUME TypeOK,
         \/ \E t \in TxIds : txStatus(t) \/ Mine(t)
         \/ \E u \in backfills : updateStatusByTxHash(u)
         \/ sweep \/ Elapse \/ Restart
  PROVE  TypeOK'
  <1> USE ConstantsAssumption
  <1>1. ASSUME NEW t \in TxIds, txStatus(t) PROVE TypeOK'
    BY <1>1 DEF txStatus, TypeOK
  <1>2. ASSUME NEW t \in TxIds, Mine(t) PROVE TypeOK'
    <2>1. ASSUME NEW s \in {"confirmed", "failed"} PROVE [txs[t] EXCEPT !.status = s] \in Tx
      BY TxUpdates DEF TypeOK
    <2>2. txs' \in [TxIds -> Tx]
      BY <1>2, <2>1 DEF Mine, TypeOK
    <2> QED BY <1>2, <2>2 DEF Mine, TypeOK
  <1>3. ASSUME NEW u \in backfills, updateStatusByTxHash(u) PROVE TypeOK'
    <2>1. u[1] \in TxIds /\ u[2] \in {"confirmed", "failed"}
      BY DEF TypeOK
    <2>2. idem' \in [Keys -> Record]
      <3>1. ASSUME NEW k \in Keys PROVE [idem[k] EXCEPT !.status = u[2]] \in Record
        BY <2>1, RecordUpdates DEF TypeOK
      <3> QED BY <1>3, <3>1 DEF updateStatusByTxHash, TypeOK
    <2> QED BY <1>3, <2>2 DEF updateStatusByTxHash, TypeOK
  <1>4. CASE sweep
    BY <1>4, EntryUpdates DEF sweep, TypeOK
  <1>5. CASE Elapse
    <2>2. dedup' \in [Payloads -> Entry]
      BY <1>5, EntryUpdates DEF Elapse, TypeOK
    <2>3. txs' \in [TxIds -> Tx]
      BY <1>5, TxUpdates DEF Elapse, TypeOK
    <2> QED BY <1>5, <2>2, <2>3 DEF Elapse, TypeOK
  <1>6. CASE Restart
    <2>1. stage' \in [Requests -> Stages]
      BY <1>6 DEF Restart, TypeOK, Stages
    <2>2. txs' \in [TxIds -> Tx]
      BY <1>6, TxUpdates DEF Restart, TypeOK
    <2>3. crashes' \in 0..MaxCrashes
      BY <1>6 DEF Restart, TypeOK
    <2> QED BY <1>6, <2>1, <2>2, <2>3, EntryUpdates DEF Restart, TypeOK
  <1> QED BY <1>1, <1>2, <1>3, <1>4, <1>5, <1>6

LEMMA InitTyped == Init => TypeOK
  <1> SUFFICES ASSUME Init PROVE TypeOK
    OBVIOUS
  <1>1. dedup \in [Payloads -> Entry] /\ idem \in [Keys -> Record] /\ txs \in [TxIds -> Tx]
    BY EntryUpdates, RecordUpdates, TxUpdates DEF Init
  <1>2. /\ stage \in [Requests -> Stages] /\ txOf \in [Requests -> TxIds \union {NULL}]
        /\ answer \in [Requests -> [code : Codes, tx : TxIds \union {NULL}]]
    BY DEF Init, Stages, Codes
  <1>3. busy \in BOOLEAN /\ backfills \subseteq TxIds \X {"confirmed", "failed"}
    BY DEF Init
  <1>4. crashes \in 0..MaxCrashes
    BY ConstantsAssumption DEF Init
  <1> QED BY <1>1, <1>2, <1>3, <1>4 DEF TypeOK

LEMMA TypedStep == TypeOK /\ [Next]_vars => TypeOK'
  <1> SUFFICES ASSUME TypeOK, [Next]_vars PROVE TypeOK'
    OBVIOUS
  <1>1. CASE UNCHANGED vars
    BY <1>1 DEF vars, TypeOK
  <1> QED BY <1>1, TypedHandler, TypedRest DEF Next

-----------------------------------------------------------------------------
(* The lock.                                                               *)

\* Where the handler of r stands after a step of its own.
LEMMA StageAfter ==
  ASSUME TypeOK, NEW r \in Requests, NEW s,
         stage' = [stage EXCEPT ![r] = s]
  PROVE  \A q \in Requests : stage'[q] = IF q = r THEN s ELSE stage[q]
  BY DEF TypeOK

LEMMA Acquired ==
  ASSUME TypeOK, LockOwned, NEW r \in Requests, NEW s \in Locked, ~busy, busy' = TRUE,
         stage' = [stage EXCEPT ![r] = s]
  PROVE  LockOwned'
  <1>1. \A q \in Requests : stage[q] \notin Locked
    BY DEF LockOwned
  <1>2. \A q \in Requests : stage'[q] \in Locked <=> q = r
    BY <1>1, StageAfter
  <1>3. busy' <=> \E q \in Requests : stage'[q] \in Locked
    BY <1>2
  <1> QED BY <1>2, <1>3 DEF LockOwned

LEMMA Released ==
  ASSUME TypeOK, LockOwned, NEW r \in Requests, NEW s, s \notin Locked,
         stage[r] \in Locked, busy' = FALSE, stage' = [stage EXCEPT ![r] = s]
  PROVE  LockOwned'
  <1>0. \A q \in Requests : stage'[q] = IF q = r THEN s ELSE stage[q]
    BY StageAfter
  <1>1. \A q \in Requests : stage[q] \in Locked => q = r
    BY DEF LockOwned
  <1>2. \A q \in Requests : stage'[q] \notin Locked
    BY <1>0, <1>1
  <1>3. busy' <=> \E q \in Requests : stage'[q] \in Locked
    BY <1>2
  <1> QED BY <1>2, <1>3 DEF LockOwned

LEMMA Kept ==
  ASSUME TypeOK, LockOwned, NEW r \in Requests, NEW s, UNCHANGED busy,
         stage[r] \in Locked <=> s \in Locked, stage' = [stage EXCEPT ![r] = s]
  PROVE  LockOwned'
  BY StageAfter DEF LockOwned

LEMMA LockStep == TypeOK /\ LockOwned /\ [Next]_vars => LockOwned'
  <1> SUFFICES ASSUME TypeOK, LockOwned, [Next]_vars PROVE LockOwned'
    OBVIOUS
  <1> USE DEF Answer, Goto
  <1>1. ASSUME NEW r \in Requests, arrive(r) PROVE LockOwned'
    BY <1>1, Kept DEF arrive, Locked
  <1>2. ASSUME NEW r \in Requests, idempotencyGet(r) PROVE LockOwned'
    <2>1. PICK s \in {"answered", "verifying"} : stage' = [stage EXCEPT ![r] = s]
      BY <1>2 DEF idempotencyGet
    <2> QED BY <1>2, <2>1, Kept DEF idempotencyGet, Locked
  <1>3. ASSUME NEW r \in Requests, tryAcquire(r) PROVE LockOwned'
    BY <1>3, Kept, Acquired DEF tryAcquire, Locked
  <1>4. ASSUME NEW r \in Requests, estimateGas(r) PROVE LockOwned'
    BY <1>4, Kept, Released DEF estimateGas, Locked
  <1>5. ASSUME NEW r \in Requests, NodeAccepts(r) PROVE LockOwned'
    BY <1>5, Kept DEF NodeAccepts, Locked
  <1>6. ASSUME NEW r \in Requests, submitFails(r) PROVE LockOwned'
    BY <1>6, Released DEF submitFails, Locked
  <1>7. ASSUME NEW r \in Requests, record(r) PROVE LockOwned'
    BY <1>7, Released DEF record, Locked
  <1>8. ASSUME NEW r \in Requests, idempotencyPut(r) PROVE LockOwned'
    BY <1>8, Kept DEF idempotencyPut, Locked
  <1>9. CASE Restart
    BY <1>9 DEF Restart, LockOwned, Locked
  <1>10. CASE UNCHANGED <<stage, busy>>
    BY <1>10 DEF LockOwned
  <1>11. CASE \/ \E t \in TxIds : txStatus(t) \/ Mine(t)
              \/ \E u \in backfills : updateStatusByTxHash(u)
              \/ sweep \/ Elapse \/ UNCHANGED vars
    BY <1>10, <1>11 DEF txStatus, Mine, updateStatusByTxHash, sweep, Elapse, vars
  <1> QED
    BY <1>1, <1>2, <1>3, <1>4, <1>5, <1>6, <1>7, <1>8, <1>9, <1>11 DEF Next, Handler

-----------------------------------------------------------------------------
(* Transactions.                                                           *)

\* A transaction that was broadcast stays the one it was, and a mined one
\* stays mined as it was.
Grows ==
  \A t \in TxIds : txs[t].status # "unsent" =>
    /\ txs'[t].status # "unsent"
    /\ txs'[t].payload = txs[t].payload /\ txs'[t].by = txs[t].by
    /\ txs[t].status # "pending" => txs'[t].status = txs[t].status

\* What the node takes in is new, and the handler learns its hash.
LEMMA Broadcast ==
  ASSUME TypeOK, NEW r \in Requests, NodeAccepts(r)
  PROVE  \E t \in TxIds :
           /\ txs[t].status = "unsent"
           /\ txs'[t] = [payload |-> PayloadOf[r], by |-> r, status |-> "pending",
                         known |-> FALSE, age |-> 0]
           /\ \A u \in TxIds : u # t => txs'[u] = txs[u]
           /\ txOf' = [txOf EXCEPT ![r] = t]
  <1>1. PICK t \in TxIds :
          /\ \A u \in TxIds : txs[u].status = "unsent" <=> u >= t
          /\ txs' = [txs EXCEPT ![t] = [Unsent EXCEPT !.payload = PayloadOf[r],
                                          !.by = r, !.status = "pending"]]
          /\ txOf' = [txOf EXCEPT ![r] = t]
    BY DEF NodeAccepts
  <1>2. txs[t].status = "unsent"
    BY <1>1, ConstantsAssumption DEF TxIds
  <1>3. txs'[t] = [payload |-> PayloadOf[r], by |-> r, status |-> "pending",
                   known |-> FALSE, age |-> 0]
    BY <1>1 DEF TypeOK, Unsent
  <1> QED BY <1>1, <1>2, <1>3 DEF TypeOK

LEMMA Learned ==
  ASSUME TypeOK, NEW r \in Requests, record(r)
  PROVE  \A u \in TxIds :
           /\ txs'[u].status = txs[u].status /\ txs'[u].by = txs[u].by
           /\ txs'[u].payload = txs[u].payload /\ txs'[u].age = txs[u].age
           /\ txs'[u].known = (txs[u].known \/ u = txOf[r])
  <1>1. \A u \in TxIds : txs[u] \in Tx /\ [txs[u] EXCEPT !.known = TRUE] \in Tx
    BY TxUpdates DEF TypeOK
  <1>2. \A u \in TxIds : txs'[u] = IF u = txOf[r] THEN [txs[u] EXCEPT !.known = TRUE]
                                   ELSE txs[u]
    BY DEF record, TypeOK
  <1> QED BY <1>1, <1>2 DEF Tx

LEMMA Aged ==
  ASSUME TypeOK, Elapse
  PROVE  \A u \in TxIds :
           /\ txs'[u].status = txs[u].status /\ txs'[u].by = txs[u].by
           /\ txs'[u].payload = txs[u].payload /\ txs'[u].known = txs[u].known
           /\ txs'[u].age = IF txs[u].known THEN Older(txs[u].age) ELSE txs[u].age
  <1>1. \A u \in TxIds : txs[u] \in Tx /\ [txs[u] EXCEPT !.age = Older(@)] \in Tx
    BY TxUpdates DEF TypeOK
  <1>2. \A u \in TxIds : txs'[u] = IF txs[u].known THEN [txs[u] EXCEPT !.age = Older(@)]
                                   ELSE txs[u]
    BY DEF Elapse
  <1> QED BY <1>1, <1>2 DEF Tx

LEMMA Mined ==
  ASSUME TypeOK, NEW t \in TxIds, Mine(t)
  PROVE  /\ txs[t].status = "pending" /\ txs'[t].status \in {"confirmed", "failed"}
         /\ \A u \in TxIds :
              /\ u # t => txs'[u] = txs[u]
              /\ txs'[u].by = txs[u].by /\ txs'[u].payload = txs[u].payload
              /\ txs'[u].known = txs[u].known /\ txs'[u].age = txs[u].age
  <1>1. PICK s \in {"confirmed", "failed"} : txs' = [txs EXCEPT ![t].status = s]
    BY DEF Mine
  <1>2. txs[t] \in Tx /\ txs'[t] = [txs[t] EXCEPT !.status = s]
    BY <1>1 DEF TypeOK
  <1>3. \A u \in TxIds : u # t => txs'[u] = txs[u]
    BY <1>1 DEF TypeOK
  <1>4. /\ txs'[t].status = s /\ txs'[t].by = txs[t].by /\ txs'[t].age = txs[t].age
        /\ txs'[t].payload = txs[t].payload /\ txs'[t].known = txs[t].known
    BY <1>2 DEF Tx
  <1> QED BY <1>3, <1>4 DEF Mine

LEMMA Forgotten ==
  ASSUME TypeOK, Restart
  PROVE  \A u \in TxIds :
           /\ txs'[u].status = txs[u].status /\ txs'[u].by = txs[u].by
           /\ txs'[u].payload = txs[u].payload /\ txs'[u].known = FALSE
  <1>1. \A u \in TxIds : txs[u] \in Tx /\ txs'[u] = [txs[u] EXCEPT !.known = FALSE]
    BY DEF Restart, TypeOK
  <1> QED BY <1>1 DEF Tx

\* The other actions leave the transactions alone.
LEMMA OtherTxs ==
  ASSUME [Next]_vars
  PROVE  \/ UNCHANGED txs
         \/ \E r \in Requests : NodeAccepts(r) \/ record(r)
         \/ \E t \in TxIds : Mine(t)
         \/ Elapse \/ Restart
  BY DEF Next, Handler, vars, arrive, idempotencyGet, tryAcquire, estimateGas, submitFails,
         idempotencyPut, txStatus, updateStatusByTxHash, sweep

LEMMA GrowsStep == ASSUME TypeOK, [Next]_vars PROVE Grows
  <1>1. CASE UNCHANGED txs
    BY <1>1 DEF Grows
  <1>2. ASSUME NEW r \in Requests, NodeAccepts(r) PROVE Grows
    BY <1>2, Broadcast DEF Grows
  <1>3. ASSUME NEW r \in Requests, record(r) PROVE Grows
    BY <1>3, Learned DEF Grows
  <1>4. ASSUME NEW t \in TxIds, Mine(t) PROVE Grows
    BY <1>4, Mined DEF Grows
  <1>5. CASE Elapse
    BY <1>5, Aged DEF Grows
  <1>6. CASE Restart
    BY <1>6, Forgotten DEF Grows
  <1> QED BY <1>1, <1>2, <1>3, <1>4, <1>5, <1>6, OtherTxs

LEMMA SentStays ==
  ASSUME Grows, NEW t, NEW p, Sent(t, p, txs)
  PROVE  Sent(t, p, txs') /\ txs'[t].by = txs[t].by
  BY DEF Grows, Sent

LEMMA HandedStep == TypeOK /\ Handed /\ [Next]_vars => Handed'
  <1> SUFFICES ASSUME TypeOK, Handed, [Next]_vars, NEW q \in Requests
               PROVE  /\ stage'[q] \in {"accepted", "putting"} => txOf'[q] # NULL
                      /\ txOf'[q] # NULL =>
                           Sent(txOf'[q], PayloadOf[q], txs') /\ txs'[txOf'[q]].by = q
    BY DEF Handed
  <1> DEFINE Goal == /\ stage'[q] \in {"accepted", "putting"} => txOf'[q] # NULL
                     /\ txOf'[q] # NULL =>
                          Sent(txOf'[q], PayloadOf[q], txs') /\ txs'[txOf'[q]].by = q
  <1>1. Grows
    BY GrowsStep
  <1>2. CASE /\ txOf'[q] = txOf[q]
             /\ stage'[q] \in {"accepted", "putting"} => stage[q] \in {"accepted", "putting"}
    BY <1>1, <1>2, SentStays DEF Handed
  <1>3. CASE NodeAccepts(q)
    <2>1. PICK t \in TxIds :
            /\ txs'[t] = [payload |-> PayloadOf[q], by |-> q, status |-> "pending",
                          known |-> FALSE, age |-> 0]
            /\ txOf' = [txOf EXCEPT ![q] = t]
      BY <1>3, Broadcast
    <2>2. txOf'[q] = t /\ t # NULL
      BY <2>1, ConstantsAssumption DEF TypeOK, TxIds
    <2> QED BY <2>1, <2>2 DEF Sent
  <1>4. ASSUME NEW r \in Requests, r # q, NodeAccepts(r) PROVE Goal
    <2>1. txOf'[q] = txOf[q] /\ stage'[q] = stage[q]
      BY <1>4 DEF NodeAccepts, Goto, TypeOK
    <2> QED BY <2>1, <1>2
  <1>5. ASSUME NEW r \in Requests,
               \/ arrive(r) \/ idempotencyGet(r) \/ tryAcquire(r) \/ estimateGas(r)
               \/ submitFails(r) \/ record(r) \/ idempotencyPut(r)
        PROVE  Goal
    <2>1. txOf' = txOf
      BY <1>5 DEF arrive, idempotencyGet, tryAcquire, estimateGas, submitFails, record,
                  idempotencyPut
    <2>2. stage'[q] \in {"accepted", "putting"} => stage[q] \in {"accepted", "putting"}
      <3>1. \/ \E s \in {"looking", "verifying", "estimating", "submitting", "answered"} :
                 stage' = [stage EXCEPT ![r] = s]
            \/ stage[r] = "accepted" /\ stage' = [stage EXCEPT ![r] = "putting"]
        BY <1>5 DEF arrive, idempotencyGet, tryAcquire, estimateGas, submitFails, record,
                    idempotencyPut, Goto, Answer
      <3> QED BY <3>1, StageAfter
    <2> QED BY <2>1, <2>2, <1>2
  <1>6. CASE Restart
    BY <1>6, <1>2 DEF Restart
  <1>7. CASE \/ \E t \in TxIds : txStatus(t) \/ Mine(t)
             \/ \E u \in backfills : updateStatusByTxHash(u)
             \/ sweep \/ Elapse \/ UNCHANGED vars
    BY <1>7, <1>2 DEF txStatus, Mine, updateStatusByTxHash, sweep, Elapse, vars
  <1> QED BY <1>3, <1>4, <1>5, <1>6, <1>7 DEF Next, Handler

-----------------------------------------------------------------------------
(* The duplicate cache.                                                    *)

\* Entries stay, or go when they are older than DEDUP_TTL.
Thinned ==
  \A p \in Payloads :
    \/ dedup'[p] = dedup[p]
    \/ dedup'[p] = NoEntry /\ (dedup[p] = NoEntry \/ dedup[p].age > DEDUP_TTL)

LEMMA ThinnedCached ==
  ASSUME TypeOK, CacheSound, EntryShape, KnownCached, Thinned, UNCHANGED txs
  PROVE  CacheSound' /\ EntryShape' /\ KnownCached'
  <1>1. CacheSound' /\ EntryShape'
    BY DEF CacheSound, EntryShape, Thinned, NoEntry, Sent
  <1>2. ASSUME NEW t \in TxIds, txs[t].known, txs[t].age <= DEDUP_TTL
        PROVE  dedup'[txs[t].payload] = dedup[txs[t].payload]
    <2> DEFINE p == txs[t].payload
    <2>1. p \in Payloads /\ dedup[p].tx # NULL /\ dedup[p].age <= txs[t].age
      BY <1>2 DEF KnownCached
    <2>2. dedup[p].age \in Int /\ txs[t].age \in Int /\ DEDUP_TTL \in Int
      BY <2>1, ConstantsAssumption DEF TypeOK, Entry, Tx
    <2>3. ~(dedup[p].age > DEDUP_TTL) /\ dedup[p] # NoEntry
      BY <1>2, <2>1, <2>2 DEF NoEntry
    <2> QED BY <2>1, <2>3 DEF Thinned
  <1>3. KnownCached'
    BY <1>2 DEF KnownCached
  <1> QED BY <1>1, <1>3

\* An action that touches neither cache nor transactions.
LEMMA SameCached ==
  ASSUME Cached, UNCHANGED <<dedup, txs>>,
         \A q \in Requests : stage'[q] = "submitting" => stage[q] = "submitting"
  PROVE  Cached'
  BY DEF Cached, CacheSound, EntryShape, KnownCached, NoneCached, Sent

LEMMA CachedEstimate ==
  ASSUME TypeOK, Cached, NEW r \in Requests, estimateGas(r)
  PROVE  Cached'
  <1> DEFINE p == PayloadOf[r]
  <1>0. p \in Payloads
    BY ConstantsAssumption
  <1>1. CASE UNCHANGED dedup /\ stage' = [stage EXCEPT ![r] = "answered"]
    BY <1>1, SameCached, StageAfter DEF estimateGas
  <1>2. CASE ~Fresh(p) /\ dedup' = [dedup EXCEPT ![p] = NoEntry]
             /\ stage' = [stage EXCEPT ![r] = "submitting"]
    <2>1. dedup[p] = NoEntry \/ dedup[p].age > DEDUP_TTL
      BY <1>2, <1>0, ConstantsAssumption DEF Fresh, TypeOK, Entry
    <2>2. \A x \in Payloads : dedup'[x] = IF x = p THEN NoEntry ELSE dedup[x]
      BY <1>2 DEF TypeOK
    <2>3. Thinned
      BY <2>1, <2>2 DEF Thinned
    <2>4. CacheSound' /\ EntryShape' /\ KnownCached'
      BY <2>3, ThinnedCached DEF Cached, estimateGas
    <2>5. NoneCached'
      <3> SUFFICES ASSUME NEW q \in Requests, stage'[q] = "submitting"
                   PROVE  dedup'[PayloadOf[q]].tx = NULL
        BY DEF NoneCached
      <3>1. PayloadOf[q] \in Payloads
        BY ConstantsAssumption
      <3>2. CASE q = r
        BY <3>1, <3>2, <2>2 DEF NoEntry
      <3>3. CASE q # r
        BY <3>1, <3>3, <2>2, <1>2, StageAfter DEF Cached, NoneCached, NoEntry
      <3> QED BY <3>2, <3>3
    <2> QED BY <2>4, <2>5 DEF Cached
  <1> QED BY <1>1, <1>2 DEF estimateGas, Answer, Goto

LEMMA CachedBroadcast ==
  ASSUME TypeOK, Cached, NEW r \in Requests, NodeAccepts(r)
  PROVE  Cached'
  <1>1. PICK t \in TxIds :
          /\ txs[t].status = "unsent"
          /\ txs'[t] = [payload |-> PayloadOf[r], by |-> r, status |-> "pending",
                        known |-> FALSE, age |-> 0]
          /\ \A u \in TxIds : u # t => txs'[u] = txs[u]
    BY Broadcast
  <1>2. UNCHANGED dedup /\ \A q \in Requests : stage'[q] = "submitting" => stage[q] = "submitting"
    BY StageAfter DEF NodeAccepts, Goto
  <1>3. CacheSound'
    BY <1>1, <1>2 DEF Cached, CacheSound, Sent
  <1>4. KnownCached'
    BY <1>1, <1>2 DEF Cached, KnownCached
  <1> QED BY <1>2, <1>3, <1>4 DEF Cached, EntryShape, NoneCached

LEMMA CachedRecord ==
  ASSUME Held, Cached, NEW r \in Requests, record(r)
  PROVE  Cached'
  <1> DEFINE p == PayloadOf[r]
  <1>1. p \in Payloads /\ txOf[r] # NULL /\ Sent(txOf[r], p, txs)
    BY ConstantsAssumption DEF Held, Handed, record
  <1>2. \A x \in Payloads : dedup'[x] = IF x = p THEN [tx |-> txOf[r], age |-> 0] ELSE dedup[x]
    BY DEF record, Held, TypeOK
  <1>3. \A u \in TxIds :
           /\ txs'[u].status = txs[u].status /\ txs'[u].by = txs[u].by
           /\ txs'[u].payload = txs[u].payload /\ txs'[u].age = txs[u].age
           /\ txs'[u].known = (txs[u].known \/ u = txOf[r])
    BY Learned DEF Held
  <1>4. CacheSound' /\ EntryShape'
    BY <1>1, <1>2, <1>3 DEF Cached, CacheSound, EntryShape, Sent
  <1>5. KnownCached'
    <2> SUFFICES ASSUME NEW u \in TxIds, txs'[u].known
                 PROVE  /\ txs'[u].status # "unsent" /\ txs'[u].payload \in Payloads
                        /\ txs'[u].age <= DEDUP_TTL =>
                             /\ dedup'[txs'[u].payload].tx # NULL
                             /\ dedup'[txs'[u].payload].age <= txs'[u].age
      BY DEF KnownCached
    <2>1. txs[u].known \/ u = txOf[r]
      BY <1>3
    <2>2. txs[u].age \in Nat
      BY DEF Held, TypeOK, Tx
    <2>3. CASE txs[u].payload = p
      BY <2>1, <2>2, <2>3, <1>1, <1>2, <1>3 DEF Cached, KnownCached, Sent
    <2>4. CASE txs[u].payload # p
      BY <2>1, <2>4, <1>1, <1>2, <1>3 DEF Cached, KnownCached, Sent
    <2> QED BY <2>3, <2>4
  <1>6. \A q \in Requests : stage'[q] # "submitting"
    <2>1. \A q \in Requests : stage[q] \in Locked => q = r
      BY DEF record, Held, LockOwned, Locked
    <2>2. \A q \in Requests : q # r => stage'[q] = stage[q]
      BY StageAfter DEF record, Goto, Answer, Held
    <2>3. stage'[r] # "submitting"
      BY StageAfter DEF record, Goto, Answer, Held
    <2> QED BY <2>1, <2>2, <2>3 DEF Locked
  <1> QED BY <1>4, <1>5, <1>6 DEF Cached, NoneCached

LEMMA CachedElapse ==
  ASSUME TypeOK, Cached, Elapse
  PROVE  Cached'
  <1>1. \A u \in TxIds :
           /\ txs'[u].status = txs[u].status /\ txs'[u].by = txs[u].by
           /\ txs'[u].payload = txs[u].payload /\ txs'[u].known = txs[u].known
           /\ txs'[u].age = IF txs[u].known THEN Older(txs[u].age) ELSE txs[u].age
    BY Aged
  <1>2. ASSUME NEW p \in Payloads
        PROVE  /\ dedup[p].tx = NULL => dedup'[p] = NoEntry
               /\ dedup[p].tx # NULL => /\ dedup'[p].tx = dedup[p].tx
                                        /\ dedup'[p].age = Older(dedup[p].age)
    <2>1. dedup[p] \in Entry
      BY DEF TypeOK
    <2>2. dedup'[p] = IF dedup[p] = NoEntry THEN NoEntry
                      ELSE [dedup[p] EXCEPT !.age = Older(@)]
      BY DEF Elapse
    <2>3. CASE dedup[p].tx = NULL
      BY <2>2, <2>3 DEF Cached, EntryShape
    <2>4. CASE dedup[p].tx # NULL
      BY <2>1, <2>2, <2>4 DEF NoEntry, Entry
    <2> QED BY <2>3, <2>4
  <1>3. CacheSound' /\ EntryShape'
    BY <1>1, <1>2 DEF Cached, CacheSound, EntryShape, Sent, NoEntry
  <1>4. KnownCached'
    <2> SUFFICES ASSUME NEW u \in TxIds, txs'[u].known
                 PROVE  /\ txs'[u].status # "unsent" /\ txs'[u].payload \in Payloads
                        /\ txs'[u].age <= DEDUP_TTL =>
                             /\ dedup'[txs'[u].payload].tx # NULL
                             /\ dedup'[txs'[u].payload].age <= txs'[u].age
      BY DEF KnownCached
    <2> DEFINE p == txs[u].payload
    <2>1. /\ txs[u].known /\ txs[u].status # "unsent" /\ p \in Payloads
          /\ txs[u].age <= DEDUP_TTL => dedup[p].tx # NULL /\ dedup[p].age <= txs[u].age
      BY <1>1 DEF Cached, KnownCached
    <2>2. /\ dedup[p].age \in 0..(DEDUP_TTL + 1) /\ txs[u].age \in 0..(DEDUP_TTL + 1)
          /\ DEDUP_TTL \in Nat
      BY <2>1, ConstantsAssumption DEF TypeOK, Entry, Tx
    <2>3. /\ Older(txs[u].age) <= DEDUP_TTL => txs[u].age <= DEDUP_TTL
          /\ dedup[p].age <= txs[u].age => Older(dedup[p].age) <= Older(txs[u].age)
      BY <2>2 DEF Older
    <2> QED BY <2>1, <2>3, <1>1, <1>2
  <1>5. NoneCached'
    <2>1. UNCHANGED stage
      BY DEF Elapse
    <2> QED BY <2>1, <1>2, ConstantsAssumption DEF Cached, NoneCached, NoEntry
  <1> QED BY <1>3, <1>4, <1>5 DEF Cached

LEMMA CachedStep == Held /\ Cached /\ [Next]_vars => Cached'
  <1> SUFFICES ASSUME Held, Cached, [Next]_vars PROVE Cached'
    OBVIOUS
  <1> USE DEF Held
  <1>1. ASSUME NEW r \in Requests,
               \/ arrive(r) \/ idempotencyGet(r) \/ tryAcquire(r) \/ submitFails(r)
               \/ idempotencyPut(r)
        PROVE  Cached'
    <2>1. PICK s \in {"looking", "verifying", "estimating", "answered"} :
            stage' = [stage EXCEPT ![r] = s]
      BY <1>1 DEF arrive, idempotencyGet, tryAcquire, submitFails, idempotencyPut,
                  Goto, Answer
    <2>2. UNCHANGED <<dedup, txs>>
      BY <1>1 DEF arrive, idempotencyGet, tryAcquire, submitFails, idempotencyPut
    <2> QED BY <2>1, <2>2, StageAfter, SameCached
  <1>2. ASSUME NEW t \in TxIds, Mine(t) PROVE Cached'
    <2>1. UNCHANGED <<dedup, stage>>
      BY <1>2 DEF Mine
    <2>2. /\ \A u \in TxIds : txs'[u].status = "unsent" => txs[u].status = "unsent"
          /\ \A u \in TxIds : txs'[u].payload = txs[u].payload
                              /\ txs'[u].known = txs[u].known /\ txs'[u].age = txs[u].age
      BY <1>2, Mined
    <2>3. CacheSound'
      BY <2>1, <2>2 DEF Cached, CacheSound, Sent
    <2>4. KnownCached'
      BY <2>1, <2>2 DEF Cached, KnownCached
    <2> QED BY <2>1, <2>3, <2>4 DEF Cached, EntryShape, NoneCached
  <1>3. CASE \/ \E t \in TxIds : txStatus(t)
             \/ \E u \in backfills : updateStatusByTxHash(u)
             \/ UNCHANGED vars
    BY <1>3, SameCached DEF txStatus, updateStatusByTxHash, vars
  <1>4. CASE sweep
    <2>1. Thinned /\ UNCHANGED <<txs, stage>>
      BY <1>4 DEF sweep, Thinned
    <2>2. CacheSound' /\ EntryShape' /\ KnownCached'
      BY <2>1, ThinnedCached DEF Cached
    <2>3. NoneCached'
      BY <2>1, ConstantsAssumption DEF Cached, NoneCached, Thinned, NoEntry
    <2> QED BY <2>2, <2>3 DEF Cached
  <1>5. CASE Restart
    <2>1. /\ \A p \in Payloads : dedup'[p] = NoEntry
          /\ \A q \in Requests : stage'[q] # "submitting"
      BY <1>5 DEF Restart
    <2>2. \A u \in TxIds : ~txs'[u].known
      BY <1>5, Forgotten
    <2> QED BY <2>1, <2>2 DEF Cached, CacheSound, EntryShape, KnownCached, NoneCached, NoEntry
  <1> QED
    BY <1>1, <1>2, <1>3, <1>4, <1>5, CachedEstimate, CachedBroadcast, CachedRecord, CachedElapse
    DEF Next, Handler

-----------------------------------------------------------------------------
(* What clients are told.                                                  *)

\* What answer a of request r may claim, given the transactions T.
Told(r, a, T) ==
  a.tx # NULL =>
    /\ T[a.tx].status # "unsent"
    /\ a.code = "OK" => T[a.tx].by = r
    /\ a.code = "DUPLICATE_TX" => T[a.tx].payload = PayloadOf[r]
    /\ a.code = "REPLAY" => KeyOf[T[a.tx].by] = KeyOf[r]

LEMMA AnswerSoundTold == AnswerSound <=> \A r \in Requests : Told(r, answer[r], txs)
  BY DEF AnswerSound, Told

LEMMA ToldStays ==
  ASSUME TypeOK, Grows, AnswerSound, NEW r \in Requests
  PROVE  Told(r, answer[r], txs')
  BY AnswerSoundTold DEF Told, Grows, TypeOK

LEMMA AnswerTold ==
  ASSUME TypeOK, Grows, AnswerSound, NEW r \in Requests, NEW c \in Codes,
         NEW t \in TxIds \union {NULL}, Answer(r, c, t),
         Told(r, [code |-> c, tx |-> t], txs)
  PROVE  AnswerSound'
  <1>1. answer' = [answer EXCEPT ![r] = [code |-> c, tx |-> t]]
    BY DEF Answer
  <1>2. Told(r, [code |-> c, tx |-> t], txs')
    BY DEF Told, Grows
  <1>3. ASSUME NEW q \in Requests PROVE Told(q, answer'[q], txs')
    BY <1>1, <1>2, ToldStays DEF TypeOK
  <1> QED BY <1>3 DEF AnswerSound, Told

LEMMA SilentTold ==
  ASSUME TypeOK, Grows, AnswerSound, UNCHANGED answer
  PROVE  AnswerSound'
  <1>1. ASSUME NEW q \in Requests PROVE Told(q, answer'[q], txs')
    BY ToldStays
  <1> QED BY <1>1 DEF AnswerSound, Told

\* An answer without a hash claims nothing.
LEMMA ErrorTold ==
  ASSUME TypeOK, Grows, AnswerSound, NEW r \in Requests, NEW c \in Codes, Answer(r, c, NULL)
  PROVE  AnswerSound'
  <1>1. Told(r, [code |-> c, tx |-> NULL], txs)
    BY DEF Told
  <1> QED BY <1>1, AnswerTold

LEMMA AnswerSoundStep ==
  ASSUME Held, Cached, Answered, [Next]_vars
  PROVE  AnswerSound'
  <1> USE DEF Held, Answered
  <1>1. Grows
    BY GrowsStep
  <1>2. Errors \subseteq Codes /\ {"OK", "REPLAY", "DUPLICATE_TX"} \subseteq Codes
    BY DEF Codes
  <1>3. ASSUME NEW r \in Requests, NEW c \in Errors, Answer(r, c, NULL) PROVE AnswerSound'
    BY <1>1, <1>2, <1>3, ErrorTold
  <1>4. ASSUME NEW r \in Requests, idempotencyGet(r) PROVE AnswerSound'
    <2>1. CASE KeyOf[r] # NULL /\ Answer(r, "REPLAY", idem[KeyOf[r]].tx)
      <3> DEFINE t == idem[KeyOf[r]].tx
      <3>1. KeyOf[r] \in Keys /\ t \in TxIds \union {NULL}
        BY <2>1, ConstantsAssumption, RecordUpdates DEF TypeOK
      <3>2. Told(r, [code |-> "REPLAY", tx |-> t], txs)
        BY <3>1 DEF Told, TableSound
      <3> QED BY <1>1, <1>2, <2>1, <3>1, <3>2, AnswerTold
    <2>2. CASE Goto(r, "verifying")
      BY <1>1, <2>2, SilentTold DEF Goto
    <2>3. ASSUME NEW b \in BOOLEAN, Verdict(r, b) # "ok" PROVE Verdict(r, b) \in Errors
      BY <2>3 DEF Verdict, Errors
    <2>4. "UNKNOWN_ERROR" \in Errors
      BY DEF Errors
    <2> QED BY <1>3, <1>4, <2>1, <2>2, <2>3, <2>4 DEF idempotencyGet
  <1>5. ASSUME NEW r \in Requests, tryAcquire(r) PROVE AnswerSound'
    BY <1>1, <1>3, <1>5, SilentTold DEF tryAcquire, Goto, Errors
  <1>6. ASSUME NEW r \in Requests, estimateGas(r) PROVE AnswerSound'
    <2>1. CASE Answer(r, "DUPLICATE_TX", dedup[PayloadOf[r]].tx)
      <3> DEFINE t == dedup[PayloadOf[r]].tx
      <3>1. PayloadOf[r] \in Payloads /\ t \in TxIds \union {NULL}
        BY ConstantsAssumption, EntryUpdates DEF TypeOK
      <3>2. Told(r, [code |-> "DUPLICATE_TX", tx |-> t], txs)
        BY <3>1 DEF Told, Cached, CacheSound, Sent
      <3> QED BY <1>1, <1>2, <2>1, <3>1, <3>2, AnswerTold
    <2>2. CASE Answer(r, "GAS_ESTIMATION_FAILED", NULL) \/ Goto(r, "submitting")
      BY <1>1, <1>3, <2>2, SilentTold DEF Goto, Errors
    <2> QED BY <1>6, <2>1, <2>2 DEF estimateGas
  <1>7. ASSUME NEW r \in Requests, stage[r] \in {"accepted", "putting"}, Answer(r, "OK", txOf[r])
        PROVE  AnswerSound'
    <2>1. txOf[r] \in TxIds /\ Told(r, [code |-> "OK", tx |-> txOf[r]], txs)
      BY <1>7 DEF Handed, Sent, Told
    <2> QED BY <1>1, <1>2, <1>7, <2>1, AnswerTold
  <1>8. ASSUME NEW r \in Requests, record(r) \/ idempotencyPut(r) PROVE AnswerSound'
    BY <1>1, <1>3, <1>7, <1>8, SilentTold DEF record, idempotencyPut, Goto, Errors
  <1>9. ASSUME NEW r \in Requests, submitFails(r) PROVE AnswerSound'
    BY <1>3, <1>9 DEF submitFails, Errors
  <1>10. ASSUME NEW r \in Requests, arrive(r) \/ NodeAccepts(r) PROVE AnswerSound'
    BY <1>1, <1>10, SilentTold DEF arrive, NodeAccepts, Goto
  <1>11. CASE \/ \E t \in TxIds : txStatus(t) \/ Mine(t)
              \/ \E u \in backfills : updateStatusByTxHash(u)
              \/ sweep \/ Elapse \/ Restart \/ UNCHANGED vars
    BY <1>1, <1>11, SilentTold
    DEF txStatus, Mine, updateStatusByTxHash, sweep, Elapse, Restart, vars
  <1> QED BY <1>4, <1>5, <1>6, <1>8, <1>9, <1>10, <1>11 DEF Next, Handler

-----------------------------------------------------------------------------
(* The idempotency table.                                                  *)

LEMMA Stored ==
  ASSUME TypeOK, NEW r \in Requests, idempotencyPut(r), NEW k \in Keys
  PROVE  \/ idem'[k] = idem[k]
         \/ k = KeyOf[r] /\ idem[k] = NoRecord
            /\ idem'[k] = [tx |-> txOf[r], status |-> "pending"]
  BY DEF idempotencyPut, TypeOK

LEMMA Backfilled ==
  ASSUME TypeOK, NEW u \in backfills, updateStatusByTxHash(u), NEW k \in Keys
  PROVE  \/ idem'[k] = idem[k]
         \/ /\ idem[k].tx = u[1] /\ idem[k].status = "pending"
            /\ idem'[k].tx = idem[k].tx /\ idem'[k].status = u[2]
  <1>1. idem[k] \in Record
    BY DEF TypeOK
  <1>2. \/ idem'[k] = idem[k]
        \/ /\ idem[k].tx = u[1] /\ idem[k].status = "pending"
           /\ idem'[k] = [idem[k] EXCEPT !.status = u[2]]
    BY DEF updateStatusByTxHash
  <1> QED BY <1>1, <1>2 DEF Record

LEMMA OtherRecords ==
  ASSUME [Next]_vars
  PROVE  \/ UNCHANGED idem
         \/ \E r \in Requests : idempotencyPut(r)
         \/ \E u \in backfills : updateStatusByTxHash(u)
  BY DEF Next, Handler, vars, arrive, idempotencyGet, tryAcquire, estimateGas, NodeAccepts,
         submitFails, record, txStatus, Mine, sweep, Elapse, Restart

LEMMA TableSoundStep ==
  ASSUME Held, TableSound, [Next]_vars
  PROVE  TableSound'
  <1> USE DEF Held
  <1> DEFINE Row(k, c, T) ==
        /\ c.tx = NULL => c = NoRecord
        /\ c.tx # NULL => /\ c.tx \in TxIds /\ T[c.tx].status # "unsent"
                          /\ T[c.tx].by \in Requests /\ KeyOf[T[c.tx].by] = k
  <1>1. Grows
    BY GrowsStep
  <1>2. ASSUME NEW k \in Keys PROVE Row(k, idem[k], txs')
    BY <1>1 DEF TableSound, Grows
  <1>3. ASSUME NEW k \in Keys, NEW r \in Requests, idempotencyPut(r)
        PROVE  Row(k, idem'[k], txs')
    <2>1. /\ txOf[r] # NULL /\ txOf[r] \in TxIds
          /\ txs[txOf[r]].status # "unsent" /\ txs[txOf[r]].by = r
      BY <1>3 DEF Handed, Sent, idempotencyPut
    <2>2. CASE idem'[k] = idem[k]
      BY <1>2, <2>2
    <2>3. CASE k = KeyOf[r] /\ idem'[k] = [tx |-> txOf[r], status |-> "pending"]
      <3>1. idem'[k].tx = txOf[r]
        BY <2>3
      <3>2. txs'[txOf[r]].status # "unsent" /\ txs'[txOf[r]].by = r
        BY <1>1, <2>1 DEF Grows
      <3> QED BY <2>1, <2>3, <3>1, <3>2
    <2> QED BY <1>3, <2>2, <2>3, Stored
  <1>4. ASSUME NEW k \in Keys, NEW u \in backfills, updateStatusByTxHash(u)
        PROVE  Row(k, idem'[k], txs')
    <2>1. u[1] # NULL
      BY ConstantsAssumption DEF TypeOK, TxIds
    <2> QED BY <1>2, <1>4, <2>1, Backfilled
  <1>5. ASSUME NEW k \in Keys PROVE Row(k, idem'[k], txs')
    BY <1>2, <1>3, <1>4, OtherRecords
  <1> QED BY <1>5 DEF TableSound

LEMMA ReceiptsStep ==
  ASSUME TypeOK, ReceiptsTrue, [Next]_vars
  PROVE  ReceiptsTrue'
  <1>1. Grows
    BY GrowsStep
  <1>2. ASSUME NEW u \in backfills PROVE txs'[u[1]].status = u[2]
    <2>1. u[1] \in TxIds /\ u[2] \in {"confirmed", "failed"} /\ txs[u[1]].status = u[2]
      BY DEF TypeOK, ReceiptsTrue
    <2> QED BY <1>1, <2>1 DEF Grows
  <1>3. ASSUME NEW t \in TxIds, txStatus(t) PROVE ReceiptsTrue'
    BY <1>2, <1>3 DEF txStatus, ReceiptsTrue
  <1>4. CASE backfills' \subseteq backfills
    BY <1>2, <1>4 DEF ReceiptsTrue
  <1>5. \/ \E t \in TxIds : txStatus(t)
        \/ backfills' \subseteq backfills
    BY DEF Next, Handler, vars, arrive, idempotencyGet, tryAcquire, estimateGas, NodeAccepts,
           submitFails, record, idempotencyPut, updateStatusByTxHash, Mine, sweep, Elapse, Restart
  <1> QED BY <1>3, <1>4, <1>5

-----------------------------------------------------------------------------
(* The endpoint implements RelayContract.                                  *)

Early == {"new", "looking", "verifying", "estimating", "submitting"}

\* A handler's own step other than the broadcast.
LEMMA HandlerSteps ==
  ASSUME TypeOK, NEW r \in Requests,
         \/ arrive(r) \/ idempotencyGet(r) \/ tryAcquire(r) \/ estimateGas(r)
         \/ submitFails(r) \/ record(r) \/ idempotencyPut(r)
  PROVE  /\ txOf' = txOf /\ stage[r] # "answered"
         /\ \A t \in TxIds : /\ txs'[t].status = txs[t].status /\ txs'[t].by = txs[t].by
                             /\ txs'[t].payload = txs[t].payload
         /\ \/ /\ answer' = answer
               /\ \E s \in Stages : /\ s \in Early => stage[r] \in Early
                                    /\ stage' = [stage EXCEPT ![r] = s]
            \/ \E c \in Codes, t \in TxIds \union {NULL} : Answer(r, c, t)
  <1>1. txOf' = txOf /\ stage[r] # "answered"
    BY DEF arrive, idempotencyGet, tryAcquire, estimateGas, submitFails, record,
           idempotencyPut
  <1>2. \A t \in TxIds : /\ txs'[t].status = txs[t].status /\ txs'[t].by = txs[t].by
                         /\ txs'[t].payload = txs[t].payload
    <2>1. CASE record(r)
      BY <2>1, Learned
    <2>2. CASE UNCHANGED txs
      BY <2>2
    <2> QED BY <2>1, <2>2 DEF arrive, idempotencyGet, tryAcquire, estimateGas, submitFails,
            idempotencyPut
  <1>3. \/ /\ answer' = answer
           /\ \E s \in Stages : /\ s \in Early => stage[r] \in Early
                                /\ stage' = [stage EXCEPT ![r] = s]
        \/ \E c \in Codes, t \in TxIds \union {NULL} : Answer(r, c, t)
    <2> DEFINE Quiet == /\ answer' = answer
                        /\ \E s \in Stages : /\ s \in Early => stage[r] \in Early
                                             /\ stage' = [stage EXCEPT ![r] = s]
    <2>1. ASSUME NEW s \in Stages, s \in Early => stage[r] \in Early, Goto(r, s)
          PROVE  Quiet
      BY <2>1 DEF Goto
    <2>2. /\ {"looking", "verifying", "estimating", "submitting", "putting"} \subseteq Stages
          /\ "putting" \notin Early /\ NULL \in TxIds \union {NULL}
          /\ Errors \union {"REPLAY", "DUPLICATE_TX", "OK"} \subseteq Codes
          /\ {"new", "looking", "verifying", "estimating"} \subseteq Early
      BY DEF Stages, Early, Codes
    <2> HIDE DEF Quiet
    <2>3. CASE arrive(r)
      BY <2>1, <2>2, <2>3 DEF arrive, Quiet
    <2>4. CASE idempotencyGet(r)
      <3>1. KeyOf[r] # NULL => idem[KeyOf[r]].tx \in TxIds \union {NULL}
        BY ConstantsAssumption, RecordUpdates DEF TypeOK
      <3>2. ASSUME NEW b \in BOOLEAN, Verdict(r, b) # "ok" PROVE Verdict(r, b) \in Errors
        BY <3>2 DEF Verdict, Errors
      <3>3. "UNKNOWN_ERROR" \in Errors
        BY DEF Errors
      <3>4. CASE stage[r] = "looking" /\ Goto(r, "verifying")
        BY <2>1, <2>2, <3>4 DEF Quiet
      <3> QED BY <2>2, <2>4, <3>1, <3>2, <3>3, <3>4 DEF idempotencyGet, Quiet
    <2>5. CASE tryAcquire(r)
      <3>1. {"FEE_INSUFFICIENT", "RELAYER_BUSY"} \subseteq Errors
        BY DEF Errors
      <3> QED BY <2>1, <2>2, <2>5, <3>1 DEF tryAcquire, Quiet
    <2>6. CASE estimateGas(r)
      <3>1. dedup[PayloadOf[r]].tx \in TxIds \union {NULL}
        BY ConstantsAssumption, EntryUpdates DEF TypeOK
      <3>2. "GAS_ESTIMATION_FAILED" \in Errors
        BY DEF Errors
      <3> QED BY <2>1, <2>2, <2>6, <3>1, <3>2 DEF estimateGas, Quiet
    <2>7. CASE submitFails(r)
      <3>1. "SUBMISSION_FAILED" \in Errors
        BY DEF Errors
      <3> QED BY <2>2, <2>7, <3>1 DEF submitFails
    <2>8. CASE record(r)
      <3>1. txOf[r] \in TxIds \union {NULL}
        BY DEF TypeOK
      <3> QED BY <2>1, <2>2, <2>8, <3>1 DEF record, Quiet
    <2>9. CASE idempotencyPut(r)
      <3>1. txOf[r] \in TxIds \union {NULL} /\ "UNKNOWN_ERROR" \in Errors
        BY DEF TypeOK, Errors
      <3> QED BY <2>2, <2>9, <3>1 DEF idempotencyPut
    <2> QED BY <2>3, <2>4, <2>5, <2>6, <2>7, <2>8, <2>9 DEF Quiet
  <1> QED BY <1>1, <1>2, <1>3

\* A step of no handler.
LEMMA OutsideSteps ==
  ASSUME TypeOK,
         \/ \E t \in TxIds : txStatus(t) \/ Mine(t)
         \/ \E u \in backfills : updateStatusByTxHash(u)
         \/ sweep \/ Elapse \/ Restart \/ UNCHANGED vars
  PROVE  /\ txOf' = txOf /\ answer' = answer
         /\ \A q \in Requests : \/ stage'[q] = stage[q]
                                \/ stage[q] # "answered" /\ stage'[q] = "dead"
         /\ \A t \in TxIds : /\ txs'[t].by = txs[t].by /\ txs'[t].payload = txs[t].payload
                             /\ txs'[t].status = "unsent" <=> txs[t].status = "unsent"
         /\ \/ \A t \in TxIds : txs'[t].status = txs[t].status
            \/ \E t \in TxIds : Mine(t)
  <1>1. CASE Restart
    BY <1>1, Forgotten DEF Restart
  <1>2. ASSUME NEW t \in TxIds, Mine(t)
        PROVE  /\ txOf' = txOf /\ answer' = answer /\ stage' = stage
               /\ \A u \in TxIds : /\ txs'[u].by = txs[u].by /\ txs'[u].payload = txs[u].payload
                                   /\ txs'[u].status = "unsent" <=> txs[u].status = "unsent"
    <2>1. txOf' = txOf /\ answer' = answer /\ stage' = stage
      BY <1>2 DEF Mine
    <2> QED BY <1>2, <2>1, Mined
  <1>3. CASE Elapse
    BY <1>3, Aged DEF Elapse
  <1>4. CASE \/ \E t \in TxIds : txStatus(t)
             \/ \E u \in backfills : updateStatusByTxHash(u)
             \/ sweep \/ UNCHANGED vars
    BY <1>4 DEF txStatus, updateStatusByTxHash, sweep, vars
  <1> QED BY <1>1, <1>2, <1>3, <1>4

LEMMA OwnedStep == TypeOK /\ Owned /\ [Next]_vars => Owned'
  <1> SUFFICES ASSUME TypeOK, Owned, [Next]_vars PROVE Owned'
    OBVIOUS
  <1>1. ASSUME NEW r \in Requests,
               \/ arrive(r) \/ idempotencyGet(r) \/ tryAcquire(r) \/ estimateGas(r)
               \/ submitFails(r) \/ record(r) \/ idempotencyPut(r)
        PROVE  Owned'
    <2>1. /\ txOf' = txOf /\ stage[r] # "answered"
          /\ \A t \in TxIds : /\ txs'[t].status = txs[t].status /\ txs'[t].by = txs[t].by
                              /\ txs'[t].payload = txs[t].payload
      BY <1>1, HandlerSteps
    <2>2. ASSUME NEW q \in Requests
          PROVE  /\ stage'[q] \in Early => txOf'[q] = NULL
                 /\ stage'[q] # "answered" => answer'[q].code = "none"
      <3>1. ASSUME answer' = answer, NEW s \in Stages, s \in Early => stage[r] \in Early,
                   stage' = [stage EXCEPT ![r] = s]
            PROVE  /\ stage'[q] \in Early => txOf'[q] = NULL
                   /\ stage'[q] # "answered" => answer'[q].code = "none"
        <4>1. stage'[q] = IF q = r THEN s ELSE stage[q]
          BY <3>1, StageAfter
        <4> QED BY <2>1, <3>1, <4>1 DEF Owned, Early
      <3>2. ASSUME NEW c \in Codes, NEW t \in TxIds \union {NULL}, Answer(r, c, t)
            PROVE  /\ stage'[q] \in Early => txOf'[q] = NULL
                   /\ stage'[q] # "answered" => answer'[q].code = "none"
        <4>1. /\ stage'[q] = IF q = r THEN "answered" ELSE stage[q]
              /\ q # r => answer'[q] = answer[q]
          BY <3>2 DEF Answer, TypeOK
        <4> QED BY <2>1, <4>1 DEF Owned, Early
      <3> QED BY <1>1, <3>1, <3>2, HandlerSteps
    <2> QED BY <2>1, <2>2 DEF Owned, Early
  <1>2. ASSUME NEW r \in Requests, NodeAccepts(r) PROVE Owned'
    <2>1. PICK t \in TxIds :
            /\ txs[t].status = "unsent"
            /\ txs'[t] = [payload |-> PayloadOf[r], by |-> r, status |-> "pending",
                          known |-> FALSE, age |-> 0]
            /\ \A u \in TxIds : u # t => txs'[u] = txs[u]
            /\ txOf' = [txOf EXCEPT ![r] = t]
      BY <1>2, Broadcast
    <2>2. txOf[r] = NULL /\ \A u \in TxIds : u # NULL
      BY <1>2, ConstantsAssumption DEF NodeAccepts, Owned, TxIds
    <2>3. /\ \A q \in Requests : txOf'[q] = IF q = r THEN t ELSE txOf[q]
          /\ \A q \in Requests : stage'[q] = IF q = r THEN "accepted" ELSE stage[q]
          /\ answer' = answer /\ stage[r] = "submitting"
      BY <1>2, <2>1, StageAfter DEF NodeAccepts, Goto, TypeOK
    <2>4. ASSUME NEW u \in TxIds, txs'[u].status # "unsent"
          PROVE  /\ txs'[u].by \in Requests /\ txOf'[txs'[u].by] = u
                 /\ txs'[u].payload = PayloadOf[txs'[u].by]
      <3>1. CASE u = t
        BY <2>1, <2>3, <3>1
      <3>2. CASE u # t
        <4>1. /\ txs[u].by \in Requests /\ txOf[txs[u].by] = u /\ txs'[u] = txs[u]
              /\ txs[u].payload = PayloadOf[txs[u].by]
          BY <2>1, <2>4, <3>2 DEF Owned
        <4>2. txs[u].by # r
          BY <2>2, <4>1
        <4> QED BY <2>3, <4>1, <4>2
      <3> QED BY <3>1, <3>2
    <2> QED BY <2>3, <2>4 DEF Owned
  <1>3. CASE \/ \E t \in TxIds : txStatus(t) \/ Mine(t)
             \/ \E u \in backfills : updateStatusByTxHash(u)
             \/ sweep \/ Elapse \/ Restart \/ UNCHANGED vars
    BY <1>3, OutsideSteps DEF Owned
  <1> QED BY <1>1, <1>2, <1>3 DEF Next, Handler

Abstract == [Contract!Next]_(Contract!vars)

LEMMA StutterStep ==
  ASSUME UNCHANGED <<txOf, answer>>, \A t \in TxIds : txs'[t].status = txs[t].status
  PROVE  Abstract
  BY DEF Abstract, Contract!vars

LEMMA TellStep ==
  ASSUME NEW r \in Requests, NEW c, NEW t, Answer(r, c, t), txOf' = txOf,
         \A u \in TxIds : txs'[u].status = txs[u].status
  PROVE  Contract!Tell(r, c, t)
  BY DEF Answer, Contract!Tell

\* An answer that is no promise, or a refusal before anything was sent.
LEMMA ErrorStep ==
  ASSUME Owned, NEW r \in Requests, NEW c \in Errors, stage[r] # "answered",
         c \in Contract!Refusals => stage[r] \in Early, Contract!Tell(r, c, NULL)
  PROVE  Abstract
  <1>1. Contract!Open(r)
    BY DEF Owned, Contract!Open
  <1>2. CASE c \in Contract!Refusals
    <2>1. txOf[r] = NULL
      BY <1>2 DEF Owned, Early
    <2>2. Contract!Refuse(r)
      BY <1>1, <1>2, <2>1 DEF Contract!Refuse
    <2> QED BY <2>2 DEF Abstract, Contract!Next
  <1>3. CASE c \notin Contract!Refusals
    <2>1. c \in {"SUBMISSION_FAILED", "UNKNOWN_ERROR"}
      BY <1>3 DEF Errors, Contract!Refusals
    <2>2. Contract!Fail(r)
      BY <1>1, <2>1 DEF Contract!Fail
    <2> QED BY <2>2 DEF Abstract, Contract!Next
  <1> QED BY <1>2, <1>3

LEMMA ReferStep ==
  ASSUME Held, Owned, NEW r \in Requests, NEW t \in TxIds, NEW c,
         stage[r] \in {"looking", "estimating"}, txs[t].status # "unsent",
         \/ c = "REPLAY" /\ KeyOf[r] # NULL /\ KeyOf[txs[t].by] = KeyOf[r]
         \/ c = "DUPLICATE_TX" /\ txs[t].payload = PayloadOf[r],
         Contract!Tell(r, c, t)
  PROVE  Abstract
  <1>1. Contract!Open(r) /\ txOf[r] = NULL
    BY DEF Owned, Contract!Open
  <1>2. /\ txs[t].by \in Requests /\ txOf[txs[t].by] = t /\ t # NULL
        /\ txs[t].payload = PayloadOf[txs[t].by]
    BY ConstantsAssumption DEF Owned, TxIds
  <1>3. Contract!Refer(r)
    BY <1>1, <1>2 DEF Contract!Refer
  <1> QED BY <1>3 DEF Abstract, Contract!Next

LEMMA AcceptStep ==
  ASSUME Held, Owned, NEW r \in Requests, stage[r] \in {"accepted", "putting"},
         Contract!Tell(r, "OK", txOf[r])
  PROVE  Abstract
  <1>1. Contract!Open(r) /\ txOf[r] # NULL
    BY DEF Held, Owned, Handed, Contract!Open
  <1>2. Contract!Accept(r)
    BY <1>1 DEF Contract!Accept
  <1> QED BY <1>2 DEF Abstract, Contract!Next

LEMMA AbstractHandler ==
  ASSUME Held, Cached, Answered, Owned, NEW r \in Requests, arrive(r) \/ Handler(r)
  PROVE  Abstract
  <1> USE DEF Held
  <1>1. CASE NodeAccepts(r)
    <2>1. PICK t \in TxIds :
            /\ txs[t].status = "unsent"
            /\ txs'[t] = [payload |-> PayloadOf[r], by |-> r, status |-> "pending",
                          known |-> FALSE, age |-> 0]
            /\ \A u \in TxIds : u # t => txs'[u] = txs[u]
            /\ txOf' = [txOf EXCEPT ![r] = t]
      BY <1>1, Broadcast
    <2>2. Contract!Open(r) /\ txOf[r] = NULL /\ answer' = answer
      BY <1>1 DEF NodeAccepts, Goto, Owned, Contract!Open
    <2>3. [u \in TxIds |-> txs'[u].status]
            = [[u \in TxIds |-> txs[u].status] EXCEPT ![t] = "pending"]
      <3>1. txs'[t].status = "pending" /\ \A u \in TxIds : u # t => txs'[u] = txs[u]
        BY <2>1
      <3> QED BY <3>1
    <2>4. Contract!Send(r)
      BY <2>1, <2>2, <2>3 DEF Contract!Send
    <2> QED BY <2>4 DEF Abstract, Contract!Next
  <1>2. CASE \/ arrive(r) \/ idempotencyGet(r) \/ tryAcquire(r) \/ estimateGas(r)
             \/ submitFails(r) \/ record(r) \/ idempotencyPut(r)
    <2>1. /\ txOf' = txOf /\ stage[r] # "answered"
          /\ \A t \in TxIds : txs'[t].status = txs[t].status
      BY <1>2, HandlerSteps
    <2>2. ASSUME NEW s, Goto(r, s) PROVE Abstract
      BY <2>1, <2>2, StutterStep DEF Goto
    <2>3. ASSUME NEW c \in Errors, c \in Contract!Refusals => stage[r] \in Early,
                 Answer(r, c, NULL)
          PROVE  Abstract
      BY <2>1, <2>3, TellStep, ErrorStep
    <2>4. CASE arrive(r)
      BY <2>2, <2>4 DEF arrive
    <2>5. CASE idempotencyGet(r)
      <3>1. ASSUME KeyOf[r] # NULL, idem[KeyOf[r]] # NoRecord,
                   Answer(r, "REPLAY", idem[KeyOf[r]].tx)
            PROVE  Abstract
        <4> DEFINE t == idem[KeyOf[r]].tx
        <4>1. KeyOf[r] \in Keys
          BY <3>1, ConstantsAssumption
        <4>2. t \in TxIds /\ txs[t].status # "unsent" /\ KeyOf[txs[t].by] = KeyOf[r]
          BY <3>1, <4>1 DEF Answered, TableSound
        <4>3. Contract!Tell(r, "REPLAY", t)
          BY <2>1, <3>1, TellStep
        <4>4. stage[r] = "looking"
          BY <2>5 DEF idempotencyGet
        <4> QED BY <3>1, <4>2, <4>3, <4>4, ReferStep
      <3>2. ASSUME NEW b \in BOOLEAN, Verdict(r, b) # "ok" PROVE Verdict(r, b) \in Errors
        BY <3>2 DEF Verdict, Errors
      <3>3. "UNKNOWN_ERROR" \in Errors /\ stage[r] \in Early
        BY <2>5 DEF Errors, Early, idempotencyGet
      <3> QED BY <2>2, <2>3, <2>5, <3>1, <3>2, <3>3 DEF idempotencyGet
    <2>6. CASE tryAcquire(r)
      <3>1. {"FEE_INSUFFICIENT", "RELAYER_BUSY"} \subseteq Errors /\ stage[r] \in Early
        BY <2>6 DEF Errors, Early, tryAcquire
      <3> QED BY <2>2, <2>3, <2>6, <3>1 DEF tryAcquire
    <2>7. CASE estimateGas(r)
      <3>1. ASSUME Fresh(PayloadOf[r]), Answer(r, "DUPLICATE_TX", dedup[PayloadOf[r]].tx)
            PROVE  Abstract
        <4> DEFINE t == dedup[PayloadOf[r]].tx
        <4>1. PayloadOf[r] \in Payloads
          BY ConstantsAssumption
        <4>2. Sent(t, PayloadOf[r], txs)
          BY <3>1, <4>1 DEF Fresh, Cached, EntryShape, CacheSound
        <4>3. Contract!Tell(r, "DUPLICATE_TX", t)
          BY <2>1, <3>1, TellStep
        <4>4. stage[r] = "estimating"
          BY <2>7 DEF estimateGas
        <4> QED BY <4>2, <4>3, <4>4, ReferStep DEF Sent
      <3>2. "GAS_ESTIMATION_FAILED" \in Errors /\ stage[r] \in Early
        BY <2>7 DEF Errors, Early, estimateGas
      <3> QED BY <2>2, <2>3, <2>7, <3>1, <3>2 DEF estimateGas
    <2>8. CASE submitFails(r)
      <3>1. "SUBMISSION_FAILED" \in Errors /\ "SUBMISSION_FAILED" \notin Contract!Refusals
        BY DEF Errors, Contract!Refusals
      <3> QED BY <2>3, <2>8, <3>1 DEF submitFails
    <2>9. ASSUME stage[r] \in {"accepted", "putting"}, Answer(r, "OK", txOf[r])
          PROVE  Abstract
      BY <2>1, <2>9, TellStep, AcceptStep
    <2>10. CASE record(r)
      BY <2>2, <2>9, <2>10 DEF record
    <2>11. CASE idempotencyPut(r)
      <3>1. "UNKNOWN_ERROR" \in Errors /\ "UNKNOWN_ERROR" \notin Contract!Refusals
        BY DEF Errors, Contract!Refusals
      <3> QED BY <2>3, <2>9, <2>11, <3>1 DEF idempotencyPut
    <2> QED BY <1>2, <2>4, <2>5, <2>6, <2>7, <2>8, <2>10, <2>11
  <1> QED BY <1>1, <1>2 DEF Handler

LEMMA AbstractOutside ==
  ASSUME TypeOK,
         \/ \E t \in TxIds : txStatus(t) \/ Mine(t)
         \/ \E u \in backfills : updateStatusByTxHash(u)
         \/ sweep \/ Elapse \/ Restart \/ UNCHANGED vars
  PROVE  Abstract
  <1>1. CASE \A t \in TxIds : txs'[t].status = txs[t].status
    BY <1>1, OutsideSteps, StutterStep
  <1>2. ASSUME NEW t \in TxIds, Mine(t) PROVE Abstract
    <2>1. /\ txs[t].status = "pending" /\ txs'[t].status \in {"confirmed", "failed"}
          /\ \A u \in TxIds : u # t => txs'[u] = txs[u]
      BY <1>2, Mined
    <2>2. [u \in TxIds |-> txs'[u].status]
            = [[u \in TxIds |-> txs[u].status] EXCEPT ![t] = txs'[t].status]
      BY <2>1
    <2>3. Contract!Mine(t)
      BY <1>2, <2>1, <2>2 DEF Mine, Contract!Mine
    <2> QED BY <2>3 DEF Abstract, Contract!Next
  <1> QED BY <1>1, <1>2, OutsideSteps

LEMMA AbstractInit == Init => Owned /\ Contract!Init
  BY DEF Init, Owned, Unsent, Contract!Init

-----------------------------------------------------------------------------
(* Theorems.                                                               *)

LEMMA InitInv == Init => Held /\ Cached /\ Answered
  <1> SUFFICES ASSUME Init PROVE Held /\ Cached /\ Answered
    OBVIOUS
  <1>1. LockOwned /\ Handed
    BY DEF Init, LockOwned, Handed, Locked
  <1>2. Cached
    BY DEF Init, Cached, CacheSound, EntryShape, KnownCached, NoneCached, NoEntry, Unsent
  <1>3. Answered
    BY DEF Init, Answered, TableSound, ReceiptsTrue, AnswerSound, NoRecord
  <1> QED BY <1>1, <1>2, <1>3, InitTyped DEF Held

LEMMA InvStep == Held /\ Cached /\ Answered /\ [Next]_vars => (Held /\ Cached /\ Answered)'
  BY TypedStep, LockStep, HandedStep, CachedStep, AnswerSoundStep, TableSoundStep, ReceiptsStep
  DEF Held, Answered

LEMMA NeverTwiceStep ==
  Held /\ Cached /\ [Next]_vars =>
    \A t \in TxIds : txs[t].status = "unsent" /\ txs'[t].status = "pending" =>
      \A u \in TxIds : txs[u].known /\ txs[u].age <= DEDUP_TTL =>
        txs[u].payload # txs'[t].payload
  <1> SUFFICES ASSUME Held, Cached, [Next]_vars,
                      NEW t \in TxIds, txs[t].status = "unsent", txs'[t].status = "pending",
                      NEW u \in TxIds, txs[u].known, txs[u].age <= DEDUP_TTL
               PROVE  txs[u].payload # txs'[t].payload
    OBVIOUS
  <1>1. ASSUME NEW r \in Requests, NodeAccepts(r) PROVE txs[u].payload # txs'[t].payload
    <2>1. txs'[t].payload = PayloadOf[r]
      <3>1. PICK x \in TxIds :
              /\ txs'[x] = [payload |-> PayloadOf[r], by |-> r, status |-> "pending",
                            known |-> FALSE, age |-> 0]
              /\ \A y \in TxIds : y # x => txs'[y] = txs[y]
        BY <1>1, Broadcast DEF Held
      <3>2. x = t
        BY <3>1
      <3> QED BY <3>1, <3>2
    <2>2. dedup[PayloadOf[r]].tx = NULL
      BY <1>1 DEF NodeAccepts, Cached, NoneCached
    <2>3. dedup[txs[u].payload].tx # NULL
      BY DEF Cached, KnownCached
    <2> QED BY <2>1, <2>2, <2>3
  <1>2. ASSUME NEW r \in Requests, record(r) PROVE FALSE
    BY <1>2, Learned DEF Held
  <1>3. ASSUME NEW x \in TxIds, Mine(x) PROVE FALSE
    BY <1>3, Mined DEF Held
  <1>4. CASE Elapse
    BY <1>4, Aged DEF Held
  <1>5. CASE Restart
    BY <1>5, Forgotten DEF Held
  <1> QED BY <1>1, <1>2, <1>3, <1>4, <1>5, OtherTxs

LEMMA BackfillStep ==
  Held /\ Answered /\ [Next]_vars =>
    \A k \in Keys : idem[k] # NoRecord =>
      /\ idem'[k].tx = idem[k].tx
      /\ idem'[k].status # idem[k].status =>
           idem[k].status = "pending" /\ idem'[k].status = txs[idem[k].tx].status
  <1> SUFFICES ASSUME Held, Answered, [Next]_vars, NEW k \in Keys, idem[k] # NoRecord
               PROVE  /\ idem'[k].tx = idem[k].tx
                      /\ idem'[k].status # idem[k].status =>
                           /\ idem[k].status = "pending"
                           /\ idem'[k].status = txs[idem[k].tx].status
    OBVIOUS
  <1>1. ASSUME NEW r \in Requests, idempotencyPut(r) PROVE idem'[k] = idem[k]
    BY <1>1, Stored DEF Held
  <1>2. ASSUME NEW u \in backfills, updateStatusByTxHash(u)
        PROVE  \/ idem'[k] = idem[k]
               \/ /\ idem[k].status = "pending" /\ idem'[k].tx = idem[k].tx
                  /\ idem'[k].status = txs[idem[k].tx].status
    BY <1>2, Backfilled DEF Held, Answered, ReceiptsTrue
  <1> QED BY <1>1, <1>2, OtherRecords

\* The handlers' state, the cache, the table and the transactions keep their
\* types.
THEOREM TypeCorrect == Spec => []TypeOK
  BY InitTyped, TypedStep, PTL DEF Spec

\* One handler at a time holds the wallet lock, and every way out of the
\* locked section, the process's death included, gives it back.
THEOREM LockIsOwned == Spec => []LockOwned
  BY InitTyped, TypedStep, InitInv, LockStep, PTL DEF Spec, Held

\* A hash that reaches a client, by whichever of the three answers that carry
\* one, is of a transaction broadcast for it.
THEOREM AnswersAreSound == Spec => []AnswerSound
  <1>1. Answered => AnswerSound
    BY DEF Answered
  <1> QED BY InitInv, InvStep, <1>1, PTL DEF Spec

\* Whatever requests arrive at once, the same calldata is broadcast again only
\* when the process that knew of it died or DEDUP_TTL has passed.
THEOREM NeverTwice == Spec => NoDoubleBroadcast
  BY InitInv, InvStep, NeverTwiceStep, PTL DEF Spec, NoDoubleBroadcast

\* A row of the idempotency table keeps its hash for ever, and its status
\* changes once, to what the receipt of that very transaction says.
THEOREM BackfillsAreSound == Spec => BackfillSound
  BY InitInv, InvStep, BackfillStep, PTL DEF Spec, BackfillSound

\* Whatever the handlers, the caches, the tables, the chain and the process do,
\* clients see a behaviour of RelayContract: one broadcast and one answer per
\* request, and nothing sent for a request that is refused.
THEOREM RefinesContract == Spec => ImplementsContract
  <1> DEFINE Inv == Held /\ Cached /\ Answered /\ Owned
  <1>1. Init => Inv
    BY InitInv, AbstractInit
  <1>2. Inv /\ [Next]_vars => Inv'
    BY InvStep, OwnedStep DEF Held
  <1>3. Inv /\ [Next]_vars => [Contract!Next]_(Contract!vars)
    <2> SUFFICES ASSUME Inv, [Next]_vars PROVE Abstract
      BY DEF Abstract
    <2> QED BY AbstractHandler, AbstractOutside DEF Next, Held
  <1> HIDE DEF Inv
  <1> QED
    BY AbstractInit, <1>1, <1>2, <1>3, PTL
    DEF Spec, ImplementsContract, Contract!Spec
=============================================================================
