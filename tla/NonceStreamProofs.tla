------------------------- MODULE NonceStreamProofs -------------------------
(* Proofs about NonceStream, for any calls, nonces and restarts. *)
EXTENDS NonceStream, TLAPS

-----------------------------------------------------------------------------
(* The inductive invariant.                                                *)

\* Only the head of the queue is past its turn.
Serialized == \A c \in Calls : stage[c] \in Active => Running(c)

\* The node took the transaction under a nonce within bounds.
AcceptedNonce == \A c \in Calls : stage[c] = "accepted" => nonce[c] \in Nonces

Typed == TypeOK /\ Serialized /\ AcceptedNonce

Below(n, l, p, d) == \A k \in Nonces : l <= k /\ k < n => p[k] # NULL \/ k \in d

\* Every nonce the stream will hand out next, and every nonce a call is about
\* to use, has only taken or dropped nonces below it.
Gapless ==
  /\ next # NULL => Below(next, latest, pool, dropped)
  /\ \A c \in Calls :
       /\ stage[c] \in {"seeded", "sending"} => Below(nonce[c], latest, pool, dropped)
       /\ stage[c] = "accepted" =>
            nonce[c] \in Nonces /\ Below(nonce[c] + 1, latest, pool, dropped)
  /\ NoHole

-----------------------------------------------------------------------------
(* Types. *)

\* The steps in which the running call leaves the queue.
LEMMA FinishTyped ==
  ASSUME Typed, NEW c \in Calls, NEW s \in Stages \ Active,
         stage[c] \in Active, Finish(c, s)
  PROVE  queue' \in Seq(Calls) /\ stage' \in [Calls -> Stages] /\ Serialized'
  <1>1. queue # <<>> /\ Head(queue) = c
    BY DEF Typed, Serialized, Running
  <1>2. queue' \in Seq(Calls)
    BY <1>1 DEF Finish, Typed, TypeOK
  <1>3. \A d \in Calls : stage'[d] = IF d = c THEN s ELSE stage[d]
    BY DEF Finish, Typed, TypeOK
  <1>4. Serialized'
    BY <1>1, <1>3 DEF Serialized, Typed, Running
  <1> QED BY <1>2, <1>4 DEF Finish, Typed, TypeOK

LEMMA StageTyped ==
  ASSUME Typed, NEW c \in Calls, NEW s \in Stages, Running(c), UNCHANGED queue,
         stage' = [stage EXCEPT ![c] = s]
  PROVE  stage' \in [Calls -> Stages] /\ Serialized'
  BY DEF Typed, TypeOK, Serialized, Running

LEMMA AcceptedStep ==
  ASSUME Typed, Next
  PROVE  AcceptedNonce'
  <1> USE DEF Typed, TypeOK, AcceptedNonce
  <1>1. ASSUME NEW c \in Calls, withNonce(c) \/ takeTurn(c) PROVE AcceptedNonce'
    BY <1>1 DEF withNonce, takeTurn
  <1>2. ASSUME NEW c \in Calls, SeedAnswered(c) PROVE AcceptedNonce'
    BY <1>2 DEF SeedAnswered
  <1>3. ASSUME NEW c \in Calls, seedStream(c) \/ NodeAccepts(c) \/ reset(c)
        PROVE  AcceptedNonce'
    BY <1>3 DEF seedStream, NodeAccepts, reset
  <1>4. ASSUME NEW c \in Calls,
               NodeRejects(c) \/ SeedFails(c) \/ advance(c) \/ ResponseLost(c)
        PROVE  AcceptedNonce'
    BY <1>4 DEF NodeRejects, SeedFails, advance, ResponseLost, Finish
  <1>5. CASE Restart \/ Mine \/ \E n \in Nonces : Drop(n)
    BY <1>5 DEF Restart, Mine, Drop
  <1> QED BY <1>1, <1>2, <1>3, <1>4, <1>5 DEF Next

LEMMA TypedStep == Typed /\ [Next]_vars => Typed'
  <1> SUFFICES ASSUME Typed, [Next]_vars PROVE TypeOK' /\ Serialized'
    BY AcceptedStep DEF Typed, vars, AcceptedNonce
  <1> USE ConstantsAssumption DEF Typed
  <1>1. CASE UNCHANGED vars
    BY <1>1 DEF vars, TypeOK, Serialized, Running
  <1>2. ASSUME NEW c \in Calls, withNonce(c) PROVE TypeOK' /\ Serialized'
    <2>1. queue' \in Seq(Calls) /\ (queue # <<>> => Head(queue') = Head(queue))
          /\ queue' # <<>>
      BY <1>2 DEF withNonce, TypeOK
    <2>2. Serialized'
      BY <1>2, <2>1 DEF withNonce, TypeOK, Serialized, Running, Active
    <2> QED BY <1>2, <2>1, <2>2 DEF withNonce, TypeOK, Stages
  <1>3. ASSUME NEW c \in Calls, takeTurn(c) PROVE TypeOK' /\ Serialized'
    <2>1. stage' \in [Calls -> Stages] /\ Serialized'
      BY <1>3, StageTyped DEF takeTurn, Stages
    <2> QED BY <1>3, <2>1 DEF takeTurn, TypeOK
  <1>4. ASSUME NEW c \in Calls, SeedAnswered(c) \/ seedStream(c) \/ NodeAccepts(c)
        PROVE  TypeOK' /\ Serialized'
    <2>1. Running(c)
      BY <1>4 DEF SeedAnswered, seedStream, NodeAccepts, Serialized, Active
    <2>2. stage' \in [Calls -> Stages] /\ Serialized'
      BY <1>4, <2>1, StageTyped DEF SeedAnswered, seedStream, NodeAccepts, Stages
    <2>3. nonce' \in [Calls -> 0..(MaxNonce + 1)]
      BY <1>4 DEF SeedAnswered, seedStream, NodeAccepts, TypeOK
    <2>4. CASE SeedAnswered(c)
      BY <2>4, <2>2, <2>3 DEF SeedAnswered, TypeOK
    <2>5. CASE seedStream(c)
      BY <2>5, <2>2, <2>3 DEF seedStream, TypeOK
    <2>6. CASE NodeAccepts(c)
      BY <2>6, <2>2, <2>3 DEF NodeAccepts, TypeOK
    <2> QED BY <1>4, <2>4, <2>5, <2>6
  <1>5. ASSUME NEW c \in Calls,
               NodeRejects(c) \/ SeedFails(c) \/ ResponseLost(c)
        PROVE  TypeOK' /\ Serialized'
    <2>1. queue' \in Seq(Calls) /\ stage' \in [Calls -> Stages] /\ Serialized'
      BY <1>5, FinishTyped DEF NodeRejects, SeedFails, ResponseLost, Active, Stages
    <2> QED BY <1>5, <2>1 DEF NodeRejects, SeedFails, ResponseLost, TypeOK
  <1>6. ASSUME NEW c \in Calls, advance(c) PROVE TypeOK' /\ Serialized'
    <2>1. queue' \in Seq(Calls) /\ stage' \in [Calls -> Stages] /\ Serialized'
      BY <1>6, FinishTyped DEF advance, Active, Stages
    <2>2. next' \in 0..(MaxNonce + 1)
      BY <1>6 DEF advance, Nonces, AcceptedNonce
    <2> QED BY <1>6, <2>1, <2>2 DEF advance, TypeOK
  <1>7. ASSUME NEW c \in Calls, reset(c) PROVE TypeOK' /\ Serialized'
    BY <1>7 DEF reset, Gone, TypeOK, Stages, Serialized, Running, Active
  <1>8. CASE Restart
    BY <1>8 DEF Restart, TypeOK, Stages, Serialized, Active
  <1>9. CASE Mine
    BY <1>9 DEF Mine, TypeOK, Serialized, Running, Nonces
  <1>10. ASSUME NEW n \in Nonces, Drop(n) PROVE TypeOK' /\ Serialized'
    <2>1. pool' \in [Nonces -> Calls \union {NULL}] /\ dropped' \subseteq Nonces
      BY <1>10 DEF Drop, TypeOK
    <2> QED BY <1>10, <2>1 DEF Drop, TypeOK, Serialized, Running
  <1> QED
    BY <1>1, <1>2, <1>3, <1>4, <1>5, <1>6, <1>7, <1>8, <1>9, <1>10 DEF Next

LEMMA InitTyped == Init => Typed
  <1> SUFFICES ASSUME Init PROVE Typed
    OBVIOUS
  <1>1. queue \in Seq(Calls)
    BY DEF Init
  <1>2. TypeOK
    <2>1. next \in 0..(MaxNonce + 1) \union {NULL} /\ latest \in 0..(MaxNonce + 1)
      BY ConstantsAssumption DEF Init
    <2>2. stage \in [Calls -> Stages] /\ nonce \in [Calls -> 0..(MaxNonce + 1)]
      BY ConstantsAssumption DEF Init, Stages
    <2>3. pool \in [Nonces -> Calls \union {NULL}]
      BY DEF Init
    <2>4. crashes \in 0..MaxCrashes
      BY ConstantsAssumption DEF Init
    <2>5. reseed \in BOOLEAN /\ dropped \subseteq Nonces
      BY DEF Init
    <2> QED BY <1>1, <2>1, <2>2, <2>3, <2>4, <2>5 DEF TypeOK
  <1> QED BY <1>2 DEF Init, Typed, Serialized, AcceptedNonce, Active

-----------------------------------------------------------------------------
(* No gaps. *)

\* A nonce that was taken stays taken or is known to have been dropped, and
\* the chain only moves on.
LEMMA BelowStep ==
  ASSUME Typed, [Next]_vars
  PROVE  /\ \A n : Below(n, latest, pool, dropped) => Below(n, latest', pool', dropped')
         /\ latest' >= latest
  <1> DEFINE Kept == \A k \in Nonces : pool[k] # NULL \/ k \in dropped =>
                                       pool'[k] # NULL \/ k \in dropped'
  <1>1. Kept /\ latest' \in Int /\ latest \in Int /\ latest' >= latest
    <2>0. latest \in Int
      BY DEF Typed, TypeOK
    <2>1. CASE UNCHANGED <<pool, latest, dropped>>
      BY <2>0, <2>1
    <2>2. ASSUME NEW c \in Calls, NodeAccepts(c) PROVE Kept /\ latest' = latest
      BY <2>2, ConstantsAssumption DEF NodeAccepts, Typed, TypeOK
    <2>3. CASE Mine
      BY <2>0, <2>3 DEF Mine
    <2>4. ASSUME NEW c \in Calls,
                 \/ withNonce(c) \/ takeTurn(c) \/ SeedAnswered(c) \/ seedStream(c)
                 \/ NodeRejects(c) \/ SeedFails(c) \/ advance(c)
                 \/ ResponseLost(c) \/ reset(c)
          PROVE  UNCHANGED <<pool, latest, dropped>>
      BY <2>4 DEF withNonce, takeTurn, SeedAnswered, seedStream, NodeRejects,
                  SeedFails, advance, ResponseLost, reset
    <2>5. CASE Restart
      BY <2>1, <2>5 DEF Restart
    <2>6. ASSUME NEW n \in Nonces, Drop(n) PROVE Kept /\ latest' = latest
      BY <2>6 DEF Drop, Typed, TypeOK
    <2>7. CASE UNCHANGED vars
      BY <2>1, <2>7 DEF vars
    <2> QED
      BY <2>0, <2>1, <2>2, <2>3, <2>4, <2>5, <2>6, <2>7 DEF Next
  <1>2. ASSUME NEW n, Below(n, latest, pool, dropped)
        PROVE  Below(n, latest', pool', dropped')
    BY <1>1, <1>2 DEF Below, Nonces
  <1> QED BY <1>1, <1>2

LEMMA GaplessStep ==
  ASSUME Typed, Gapless, [Next]_vars
  PROVE  Gapless'
  <1> DEFINE B(n) == Below(n, latest', pool', dropped')
  <1>0. /\ \A n : Below(n, latest, pool, dropped) => B(n)
        /\ latest' >= latest
    BY BelowStep
  <1>1. next' # NULL => B(next')
    <2>1. CASE next' = next
      BY <2>1, <1>0 DEF Gapless
    <2>2. ASSUME NEW c \in Calls, seedStream(c) PROVE B(next')
      BY <2>2, <1>0 DEF seedStream, Gapless
    <2>3. ASSUME NEW c \in Calls, advance(c) PROVE B(next')
      BY <2>3, <1>0 DEF advance, Gapless
    <2>4. ASSUME NEW c \in Calls, reset(c) PROVE next' = NULL
      BY <2>4 DEF reset
    <2>5. CASE Restart
      BY <2>5 DEF Restart
    <2>6. ASSUME NEW c \in Calls,
                 \/ withNonce(c) \/ takeTurn(c) \/ SeedAnswered(c) \/ NodeAccepts(c)
                 \/ NodeRejects(c) \/ SeedFails(c) \/ ResponseLost(c)
          PROVE  next' = next
      BY <2>6 DEF withNonce, takeTurn, SeedAnswered, NodeAccepts, NodeRejects,
                  SeedFails, ResponseLost
    <2> QED
      BY <2>1, <2>2, <2>3, <2>4, <2>5, <2>6 DEF Next, Mine, Drop, vars
  <1>2. ASSUME NEW c \in Calls
        PROVE  /\ stage'[c] \in {"seeded", "sending"} => B(nonce'[c])
               /\ stage'[c] = "accepted" => nonce'[c] \in Nonces /\ B(nonce'[c] + 1)
    <2> DEFINE Goal == /\ stage'[c] \in {"seeded", "sending"} => B(nonce'[c])
                       /\ stage'[c] = "accepted" =>
                            nonce'[c] \in Nonces /\ B(nonce'[c] + 1)
    <2>1. CASE nonce'[c] = nonce[c] /\ (stage'[c] = stage[c] \/ stage'[c] \in
                 {"queued", "seeding", "sent", "recovered", "failed"})
      BY <2>1, <1>0 DEF Gapless
    <2>2. CASE takeTurn(c)
      BY <2>2, <1>0 DEF takeTurn, Gapless, Typed, TypeOK
    <2>3. CASE SeedAnswered(c)
      <3>1. PICK n \in 0..(MaxNonce + 1) :
              PendingCount(n) /\ nonce' = [nonce EXCEPT ![c] = n]
        BY <2>3 DEF SeedAnswered
      <3>2. Below(n, latest, pool, dropped)
        BY <3>1 DEF PendingCount, Below
      <3> QED BY <2>3, <3>1, <3>2, <1>0 DEF SeedAnswered, Typed, TypeOK
    <2>4. CASE seedStream(c)
      BY <2>4, <1>0 DEF seedStream, Gapless, Typed, TypeOK
    <2>5. CASE NodeAccepts(c)
      <3>1. /\ stage'[c] = "accepted" /\ nonce'[c] = nonce[c] /\ nonce[c] \in Nonces
            /\ pool'[nonce[c]] # NULL
            /\ Below(nonce[c], latest, pool, dropped)
        BY <2>5, ConstantsAssumption DEF NodeAccepts, Gapless, Typed, TypeOK
      <3>2. B(nonce[c])
        BY <3>1, <1>0
      <3>3. B(nonce[c] + 1)
        BY <3>1, <3>2 DEF Below, Nonces
      <3> QED BY <3>1, <3>3
    <2>6. ASSUME NEW d \in Calls,
                 \/ withNonce(d) \/ NodeRejects(d) \/ SeedFails(d) \/ advance(d)
                 \/ ResponseLost(d) \/ reset(d)
          PROVE  Goal
      BY <2>6, <2>1 DEF withNonce, NodeRejects, SeedFails, advance, ResponseLost,
                        reset, Finish, Typed, TypeOK
    <2>7. ASSUME NEW d \in Calls, d # c,
                 takeTurn(d) \/ SeedAnswered(d) \/ seedStream(d) \/ NodeAccepts(d)
          PROVE  Goal
      BY <2>7, <2>1 DEF takeTurn, SeedAnswered, seedStream, NodeAccepts, Typed, TypeOK
    <2>8. CASE Restart
      BY <2>8, <2>1 DEF Restart
    <2>9. CASE Mine \/ (\E n \in Nonces : Drop(n)) \/ UNCHANGED vars
      BY <2>9, <2>1 DEF Mine, Drop, vars
    <2> QED
      BY <2>2, <2>3, <2>4, <2>5, <2>6, <2>7, <2>8, <2>9 DEF Next
  <1>3. NoHole'
    <2> SUFFICES ASSUME NEW n \in Nonces, n >= latest', pool'[n] # NULL
                 PROVE  B(n)
      BY DEF NoHole, Below
    <2>1. CASE pool[n] # NULL
      <3>1. Below(n, latest, pool, dropped)
        BY <2>1, <1>0 DEF Gapless, NoHole, Below, Nonces, Typed, TypeOK
      <3> QED BY <3>1, <1>0
    <2>2. CASE pool[n] = NULL
      <3>1. PICK c \in Calls : NodeAccepts(c) /\ nonce[c] = n
        <4>1. pool' # pool
          BY <2>2
        <4>2. ASSUME NEW k \in Nonces, Drop(k) PROVE FALSE
          BY <4>2, <2>2 DEF Drop, Typed, TypeOK
        <4>3. PICK c \in Calls : NodeAccepts(c)
          BY <4>1, <4>2 DEF Next, vars, withNonce, takeTurn, SeedAnswered,
                      seedStream, NodeRejects, SeedFails, advance, ResponseLost,
                      reset, Restart, Mine
        <4>4. nonce[c] = n
          BY <4>3, <2>2 DEF NodeAccepts, Typed, TypeOK
        <4> QED BY <4>3, <4>4
      <3>2. Below(n, latest, pool, dropped)
        BY <3>1 DEF NodeAccepts, Gapless
      <3> QED BY <3>2, <1>0
    <2> QED BY <2>1, <2>2
  <1> QED BY <1>1, <1>2, <1>3 DEF Gapless

\* Rows of the stream and the account keep their types.
THEOREM TypeCorrect == Spec => []TypeOK
  <1>1. Typed => TypeOK
    BY DEF Typed
  <1> QED BY InitTyped, TypedStep, <1>1, PTL DEF Spec

\* The coordinator leaves no gap in the account's nonces but those the mempool
\* opens by dropping a transaction: failed broadcasts, lost answers,
\* replacements, resets and restarts included, for any number of concurrent
\* submissions.
THEOREM NoGaps == Spec => []NoHole
  <1>1. Init => Gapless
    BY DEF Init, Gapless, NoHole, Below
  <1>2. Typed /\ Gapless /\ [Next]_vars => Gapless'
    BY GaplessStep
  <1>3. Gapless => NoHole
    BY DEF Gapless
  <1> QED BY InitTyped, TypedStep, <1>1, <1>2, <1>3, PTL DEF Spec

-----------------------------------------------------------------------------
(* No collisions. *)

\* A transaction of the account carries the nonce its call holds, and the call
\* is past its broadcast.
Owned(p, s, h) ==
  \A k \in Nonces : p[k] # NULL =>
    h[p[k]] = k /\ s[p[k]] \in {"accepted", "sent", "recovered", "failed"}

\* From n on, a nonce is held only by a call that never had its answer, or
\* waits for it.
Loose(n, p, s) ==
  \A k \in Nonces : k >= n /\ p[k] # NULL => s[p[k]] \in {"failed", "accepted"}

Unused(s, h, p, nx) ==
  /\ nx # NULL => Loose(nx, p, s)
  /\ \A c \in Calls : s[c] \in {"seeded", "sending", "accepted"} => Loose(h[c], p, s)

Free == Owned(pool, stage, nonce) /\ (dropped = {} => Unused(stage, nonce, pool, next))

\* After a reset between two submissions no call holds a nonce before a seed.
Reseeding ==
  reseed => next = NULL /\ \A c \in Calls : stage[c] \notin {"seeded", "sending", "accepted"}

\* One call at a time is past its turn.
LEMMA OneActive ==
  ASSUME Typed, NEW c \in Calls, NEW d \in Calls, stage[c] \in Active, stage[d] \in Active
  PROVE  c = d
  BY DEF Typed, Serialized, Running

LEMMA OwnedStep ==
  ASSUME Typed, Owned(pool, stage, nonce), [Next]_vars
  PROVE  Owned(pool', stage', nonce')
  <1> DEFINE Past == {"accepted", "sent", "recovered", "failed"}
  <1> USE DEF Typed, TypeOK
  <1>1. CASE /\ UNCHANGED <<pool, nonce>>
             /\ \A c \in Calls : stage[c] \in Past => stage'[c] \in Past
    BY <1>1 DEF Owned
  <1>2. ASSUME NEW c \in Calls, takeTurn(c) \/ SeedAnswered(c)
        PROVE  Owned(pool', stage', nonce')
    <2>1. /\ UNCHANGED pool /\ stage[c] \notin Past
          /\ \A d \in Calls : d # c => stage'[d] = stage[d] /\ nonce'[d] = nonce[d]
      BY <1>2 DEF takeTurn, SeedAnswered
    <2> QED BY <2>1 DEF Owned
  <1>3. ASSUME NEW c \in Calls, NodeAccepts(c) PROVE Owned(pool', stage', nonce')
    <2>1. /\ \A k \in Nonces : pool'[k] = IF k = nonce[c] THEN c ELSE pool[k]
          /\ \A d \in Calls : stage'[d] = IF d = c THEN "accepted" ELSE stage[d]
          /\ nonce' = nonce
      BY <1>3 DEF NodeAccepts
    <2> QED BY <2>1 DEF Owned
  <1>4. ASSUME NEW n \in Nonces, Drop(n) PROVE Owned(pool', stage', nonce')
    BY <1>4 DEF Drop, Owned
  <1>5. ASSUME NEW c \in Calls, withNonce(c) \/ seedStream(c) \/ reset(c)
        PROVE  Owned(pool', stage', nonce')
    BY <1>1, <1>5 DEF withNonce, seedStream, reset
  <1>6. ASSUME NEW c \in Calls,
               NodeRejects(c) \/ SeedFails(c) \/ advance(c) \/ ResponseLost(c)
        PROVE  Owned(pool', stage', nonce')
    BY <1>1, <1>6 DEF NodeRejects, SeedFails, advance, ResponseLost, Finish
  <1>7. CASE Restart \/ Mine \/ UNCHANGED vars
    BY <1>1, <1>7 DEF Restart, Mine, vars
  <1> QED BY <1>2, <1>3, <1>4, <1>5, <1>6, <1>7 DEF Next

\* The steps after which the calls that hold a nonce are among those that did, and
\* the stream stands where it stood, at a nonce one of them holds, or nowhere.
Keeps ==
  /\ \A c \in Calls :
       /\ stage[c] \in {"failed", "accepted"} => stage'[c] \in {"failed", "accepted"}
       /\ stage'[c] \in {"seeded", "sending", "accepted"} =>
            \/ stage[c] \in {"seeded", "sending", "accepted"} /\ nonce'[c] = nonce[c]
            \/ next # NULL /\ nonce'[c] = next
  /\ \/ next' \in {next, NULL}
     \/ \E c \in Calls : stage[c] \in {"seeded", "sending"} /\ next' = nonce[c]

LEMMA UnusedKept ==
  ASSUME Typed, Unused(stage, nonce, pool, next), UNCHANGED pool, Keeps
  PROVE  Unused(stage', nonce', pool', next')
  <1>1. ASSUME NEW n, Loose(n, pool, stage) PROVE Loose(n, pool', stage')
    BY <1>1 DEF Loose, Typed, TypeOK, Keeps
  <1> QED BY <1>1 DEF Unused, Keeps

LEMMA UnusedStep ==
  ASSUME Typed, Gapless, Free, [Next]_vars, dropped' = {}
  PROVE  Unused(stage', nonce', pool', next')
  <1> DEFINE Goal == Unused(stage', nonce', pool', next')
  <1> USE DEF Typed, TypeOK
  <1>1. dropped = {} /\ ~\E n \in Nonces : Drop(n)
    <2>1. ASSUME NEW n \in Nonces, Drop(n) PROVE FALSE
      BY <2>1 DEF Drop
    <2>2. dropped' = dropped
      BY <2>1 DEF Next, vars, withNonce, takeTurn, SeedAnswered, seedStream, NodeAccepts,
                  NodeRejects, SeedFails, advance, ResponseLost, reset, Restart, Mine
    <2> QED BY <2>1, <2>2
  <1>2. Unused(stage, nonce, pool, next)
    BY <1>1 DEF Free
  <1>3. ASSUME NEW c \in Calls, takeTurn(c) PROVE Goal
    <2>1. /\ next' = next /\ pool' = pool /\ stage[c] = "queued"
          /\ \A d \in Calls : d # c => stage'[d] = stage[d] /\ nonce'[d] = nonce[d]
          /\ \/ stage'[c] = "seeding"
             \/ stage'[c] = "sending" /\ next # NULL /\ nonce'[c] = next
      BY <1>3 DEF takeTurn
    <2>2. Keeps
      BY <2>1 DEF Keeps
    <2> QED BY <1>2, <2>1, <2>2, UnusedKept
  <1>4. ASSUME NEW c \in Calls, SeedAnswered(c) PROVE Goal
    <2>1. PICK n \in 0..(MaxNonce + 1) :
            PendingCount(n) /\ nonce' = [nonce EXCEPT ![c] = n]
      BY <1>4 DEF SeedAnswered
    <2>2. \A k \in Nonces : k >= n => pool[k] = NULL
      <3> SUFFICES ASSUME NEW k \in Nonces, k >= n, pool[k] # NULL PROVE FALSE
        OBVIOUS
      <3>1. n \in Nonces /\ pool[n] = NULL /\ n < k /\ latest <= n /\ k >= latest
        <4>1. n \in Nonces /\ n >= latest /\ latest \in Int
          BY <2>1, ConstantsAssumption DEF PendingCount, Nonces
        <4>2. pool[n] = NULL
          BY <2>1, <4>1 DEF PendingCount
        <4>3. n # k
          BY <4>2
        <4> QED BY <4>1, <4>2, <4>3 DEF Nonces
      <3> QED BY <1>1, <3>1 DEF Gapless, NoHole
    <2>3. Loose(n, pool', stage')
      BY <1>4, <2>2 DEF SeedAnswered, Loose
    <2>4. \A d \in Calls : d # c => stage'[d] \notin {"seeded", "sending", "accepted"}
      BY <1>4, OneActive DEF SeedAnswered, Active
    <2>5. next' # NULL => Loose(next', pool', stage')
      BY <1>2, <1>4 DEF SeedAnswered, Unused, Loose
    <2> QED BY <2>1, <2>3, <2>4, <2>5 DEF Unused
  <1>5. ASSUME NEW c \in Calls, seedStream(c) PROVE Goal
    <2>1. UNCHANGED pool /\ Keeps
      BY <1>5 DEF seedStream, Keeps
    <2> QED BY <1>2, <2>1, UnusedKept
  <1>6. ASSUME NEW c \in Calls, NodeAccepts(c) PROVE Goal
    <2>1. /\ \A k \in Nonces : pool'[k] = IF k = nonce[c] THEN c ELSE pool[k]
          /\ \A d \in Calls : stage'[d] = IF d = c THEN "accepted" ELSE stage[d]
          /\ nonce' = nonce /\ next' = next
      BY <1>6 DEF NodeAccepts
    <2>2. ASSUME NEW n, Loose(n, pool, stage) PROVE Loose(n, pool', stage')
      BY <2>1, <2>2 DEF Loose
    <2>3. stage[c] = "sending"
      BY <1>6 DEF NodeAccepts
    <2> QED BY <1>2, <2>1, <2>2, <2>3 DEF Unused
  <1>7. ASSUME NEW c \in Calls, advance(c) PROVE Goal
    <2>1. \A d \in Calls : stage'[d] = IF d = c THEN "sent" ELSE stage[d]
      BY <1>7 DEF advance, Finish
    <2>2. \A d \in Calls : stage'[d] \notin {"seeded", "sending", "accepted"}
      BY <1>7, <2>1, OneActive DEF advance, Active
    <2>3. Loose(nonce[c], pool, stage)
      BY <1>2, <1>7 DEF advance, Unused
    <2>4. ASSUME NEW k \in Nonces, k >= nonce[c] + 1, pool[k] # NULL PROVE pool[k] # c
      BY <2>4 DEF Free, Owned, Nonces
    <2>5. Loose(nonce[c] + 1, pool, stage')
      BY <2>1, <2>3, <2>4 DEF Loose, Nonces
    <2> QED BY <1>7, <2>2, <2>5 DEF advance, Unused
  <1>8. ASSUME NEW c \in Calls, withNonce(c) \/ reset(c) PROVE Goal
    <2>1. UNCHANGED pool /\ Keeps
      BY <1>8 DEF withNonce, reset, Gone, Keeps
    <2> QED BY <1>2, <2>1, UnusedKept
  <1>9. ASSUME NEW c \in Calls, NodeRejects(c) \/ SeedFails(c) \/ ResponseLost(c) PROVE Goal
    <2>1. UNCHANGED pool /\ Keeps
      BY <1>9 DEF NodeRejects, SeedFails, ResponseLost, Finish, Keeps
    <2> QED BY <1>2, <2>1, UnusedKept
  <1>10. CASE Restart \/ Mine \/ UNCHANGED vars
    <2>1. UNCHANGED pool /\ Keeps
      BY <1>10 DEF Restart, Mine, vars, Keeps
    <2> QED BY <1>2, <2>1, UnusedKept
  <1> QED
    BY <1>1, <1>3, <1>4, <1>5, <1>6, <1>7, <1>8, <1>9, <1>10 DEF Next

LEMMA FreeImplies ==
  ASSUME Typed, Free
  PROVE  NonceFree
  <1> SUFFICES ASSUME dropped = {}, NEW c \in Calls, stage[c] = "sending",
                      nonce[c] \in Nonces, pool[nonce[c]] # NULL
               PROVE  stage[pool[nonce[c]]] = "failed"
    BY DEF NonceFree
  <1>1. stage[pool[nonce[c]]] \in {"failed", "accepted"} /\ pool[nonce[c]] \in Calls
    BY DEF Free, Unused, Loose, Typed, TypeOK, Nonces
  <1>2. stage[pool[nonce[c]]] # "accepted"
    BY <1>1, OneActive DEF Active
  <1> QED BY <1>1, <1>2

LEMMA ReseedingStep == Typed /\ Reseeding /\ [Next]_vars => Reseeding'
  <1> SUFFICES ASSUME Typed, Reseeding, [Next]_vars, reseed'
               PROVE  /\ next' = NULL
                      /\ \A c \in Calls : stage'[c] \notin {"seeded", "sending", "accepted"}
    BY DEF Reseeding
  <1> DEFINE Goal == /\ next' = NULL
                     /\ \A c \in Calls : stage'[c] \notin {"seeded", "sending", "accepted"}
  <1> USE DEF Typed, TypeOK
  <1>1. ASSUME NEW c \in Calls, reset(c) PROVE Goal
    BY <1>1 DEF reset, Active
  <1>2. ASSUME NEW c \in Calls, SeedAnswered(c) PROVE FALSE
    BY <1>2 DEF SeedAnswered
  <1>3. CASE reseed' = reseed
    <2>0. /\ next = NULL
          /\ \A c \in Calls : stage[c] \notin {"seeded", "sending", "accepted"}
      BY <1>3 DEF Reseeding
    <2>1. ASSUME NEW c \in Calls, withNonce(c) \/ takeTurn(c) PROVE Goal
      BY <2>0, <2>1 DEF withNonce, takeTurn
    <2>2. ASSUME NEW c \in Calls, SeedFails(c) PROVE Goal
      BY <2>0, <2>2 DEF SeedFails, Finish
    <2>3. ASSUME NEW c \in Calls,
                 \/ seedStream(c) \/ NodeAccepts(c) \/ NodeRejects(c) \/ advance(c)
                 \/ ResponseLost(c)
          PROVE  FALSE
      BY <2>0, <2>3 DEF seedStream, NodeAccepts, NodeRejects, advance, ResponseLost
    <2>4. CASE Restart
      BY <2>0, <2>4 DEF Restart
    <2>5. CASE Mine \/ (\E n \in Nonces : Drop(n)) \/ UNCHANGED vars
      BY <2>0, <2>5 DEF Mine, Drop, vars
    <2> QED BY <1>1, <1>2, <2>1, <2>2, <2>3, <2>4, <2>5 DEF Next
  <1> QED
    BY <1>1, <1>2, <1>3 DEF Next, vars, withNonce, takeTurn, seedStream, NodeAccepts, NodeRejects,
                  SeedFails, advance, ResponseLost, Restart, Mine, Drop

LEMMA ReseedsStep ==
  Typed /\ Reseeding /\ [Next]_vars =>
    \A c \in Calls : stage[c] = "queued" /\ stage'[c] = "sending" => ~reseed
  <1> SUFFICES ASSUME Typed, Reseeding, [Next]_vars, NEW c \in Calls,
                      stage[c] = "queued", stage'[c] = "sending"
               PROVE  ~reseed
    OBVIOUS
  <1> USE DEF Typed, TypeOK
  <1>1. ASSUME NEW d \in Calls, takeTurn(d) PROVE next # NULL
    BY <1>1 DEF takeTurn
  <1>2. ASSUME NEW d \in Calls,
               \/ withNonce(d) \/ SeedAnswered(d) \/ seedStream(d) \/ NodeAccepts(d) \/ reset(d)
        PROVE  FALSE
    BY <1>2 DEF withNonce, SeedAnswered, seedStream, NodeAccepts, reset, Gone
  <1>3. ASSUME NEW d \in Calls,
               NodeRejects(d) \/ SeedFails(d) \/ advance(d) \/ ResponseLost(d)
        PROVE  FALSE
    BY <1>3 DEF NodeRejects, SeedFails, advance, ResponseLost, Finish
  <1>4. ~(Restart \/ Mine \/ (\E n \in Nonces : Drop(n)) \/ UNCHANGED vars)
    BY DEF Restart, Mine, Drop, vars
  <1> QED BY <1>1, <1>2, <1>3, <1>4 DEF Next, Reseeding

\* Submissions never collide: however many run at once, fail, lose their
\* answers or die with the process, a nonce in use is only ever offered again
\* when the call that used it never learned of it.
THEOREM NoCollisions == Spec => []NonceFree
  <1>1. Init => Gapless /\ Free
    BY DEF Init, Gapless, NoHole, Below, Free, Owned, Unused
  <1>2. Typed /\ Gapless /\ Free /\ [Next]_vars => Gapless' /\ Free'
    BY GaplessStep, OwnedStep, UnusedStep DEF Free
  <1>3. Typed /\ Free => NonceFree
    BY FreeImplies
  <1> QED BY InitTyped, TypedStep, <1>1, <1>2, <1>3, PTL DEF Spec

\* After a reset between two submissions the stream asks the chain before it
\* hands out a nonce again.
THEOREM ResetsReseed == Spec => ResetReseeds
  <1>1. Init => Reseeding
    BY DEF Init, Reseeding
  <1> QED BY InitTyped, TypedStep, ReseedingStep, ReseedsStep, <1>1, PTL DEF Spec, ResetReseeds
=============================================================================
