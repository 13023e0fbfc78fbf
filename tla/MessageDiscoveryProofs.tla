------------------------ MODULE MessageDiscoveryProofs ------------------------
(* Proofs about MessageDiscovery, for any chain length, confirmation depth,  *)
(* chunk size, batch limit and faults.                                       *)
EXTENDS MessageDiscovery, WellFoundedInduction, TLAPS

-----------------------------------------------------------------------------
(* The inductive invariant.                                                *)

\* Every message of the table f stands in the chain s, h blocks long, where f
\* has it, and deep enough that no reorganisation reaches it.
Settled(f, s, h) ==
  \A m \in Messages : f[m] # NULL => s[m] = f[m] /\ f[m] + Confirmations <= h

\* The chain holds no message in its deploy block, and none ahead of its head.
Chained == \A m \in Messages : sentAt[m] # NULL => sentAt[m] \in 1..head

\* The index may hold a message where a reorganisation has since moved it
\* from, but not where the checkpoint has given it its confirmations.
Indexed ==
  /\ indexed # NULL => indexed <= head
  /\ \A m \in Messages : rows[m] # NULL =>
       /\ indexed # NULL
       /\ rows[m] + Confirmations <= indexed => sentAt[m] = rows[m]

\* What a tick carries from one await to the next.
Gated ==
  /\ tick.pc = "gated" => indexed # NULL /\ tick.hi + Confirmations <= indexed
  /\ tick.pc \in {"logs", "scanClaim"} => tick.hi + Confirmations <= head
  /\ tick.pc = "logs" => tick.lo <= tick.hi
  /\ tick.pc = "scanClaim" => tick.lo = tick.hi + 1
  /\ tick.pc \in {"head", "logs", "scanClaim"} => scan.cursor # NULL
  /\ tick.pc = "base" => scan.cursor = NULL
  /\ tick.pc \notin {"claim", "logs", "scanClaim"} => tick.todo = Nothing

\* The scanner has a cursor only while it is switched on.
Switched ==
  /\ ~scan.active => scan.cursor = NULL
  /\ tick.pc = "base" => scan.active

\* The scanner may leave the message behind: it has a row or, after a restart,
\* another message of its block has.
Passed(m) ==
  jobs[m] # NULL \/ (crashes > 0 /\ \E k \in Messages : jobs[k] = sentAt[m])

\* Claims go upwards: what lies below a claimed block is passed.
Upwards ==
  \A k, m \in Messages :
    jobs[k] # NULL /\ sentAt[m] # NULL /\ sentAt[m] < jobs[k] => Passed(m)

\* What lies behind the range still to be read is passed or in hand, and
\* nothing else is in hand.
Read ==
  \A m \in Messages :
    /\ tick.todo[m] # NULL => tick.todo[m] < tick.lo
    /\ sentAt[m] # NULL /\ sentAt[m] < tick.lo => Passed(m) \/ tick.todo[m] # NULL

\* The scanner without a watcher: before its first scan nothing is claimed, and
\* its cursor is no further than the confirmed chain.
Scanned ==
  indexed = NULL =>
    /\ tick.progress = NULL /\ tick.pc \notin {"gated", "claim"}
    /\ crashes = 0 /\ scan.cursor = NULL => jobs = Nothing
    /\ scan.cursor # NULL => scan.cursor = 1 \/ scan.cursor + Confirmations <= head + 1
    /\ Upwards
    /\ tick.pc \in {"logs", "scanClaim"} => Read

Sound ==
  /\ Chained /\ Indexed /\ Gated /\ Switched
  /\ Settled(jobs, sentAt, head) /\ Settled(tick.todo, sentAt, head)

Inv == TypeOK /\ Sound /\ Scanned /\ ScanCovers

-----------------------------------------------------------------------------
(* Operators.                                                              *)

\* A non-empty set of blocks has a highest one.
LEMMA Highest ==
  ASSUME NEW S \in SUBSET Blocks, S # {}
  PROVE  \E b \in S : \A c \in S : c <= b
  <1> USE DiscoveryAssumption DEF Blocks
  <1> DEFINE R == {ss \in Nat \X Nat : ss[1] < ss[2]}
             T == {MaxBlock - b : b \in S}
  <1>1. IsWellFoundedOn(R, Nat)
    BY NatLessThanWellFounded DEF OpToRel
  <1>2. T \subseteq Nat /\ T # {}
    <2>1. PICK b \in S : TRUE
      OBVIOUS
    <2>2. MaxBlock - b \in T
      OBVIOUS
    <2> QED BY <2>2
  <1>3. PICK x \in T : \A y \in T : <<y, x>> \notin R
    <2> HIDE DEF R, T
    <2> QED BY <1>1, <1>2, WFMin
  <1>4. PICK b \in S : x = MaxBlock - b
    OBVIOUS
  <1>5. ASSUME NEW c \in S PROVE c <= b
    <2>1. <<MaxBlock - c, MaxBlock - b>> \notin R
      BY <1>3, <1>4
    <2> QED BY <2>1
  <1> QED BY <1>5

LEMMA MaxSourceBlock ==
  ASSUME TypeOK
  PROVE  \/ jobs = Nothing /\ maxSourceBlock = NULL
         \/ /\ maxSourceBlock \in Blocks
            /\ \E k \in Messages : jobs[k] = maxSourceBlock
            /\ \A k \in Messages : jobs[k] # NULL => jobs[k] <= maxSourceBlock
  <1> DEFINE claimed == {jobs[m] : m \in {k \in Messages : jobs[k] # NULL}}
  <1>1. claimed \in SUBSET Blocks
    BY DEF TypeOK, Block
  <1>2. CASE claimed = {}
    <2>1. \A m \in Messages : jobs[m] = NULL
      BY <1>2
    <2>2. jobs = Nothing
      BY <2>1 DEF Nothing, TypeOK
    <2> QED BY <1>2, <2>2 DEF maxSourceBlock
  <1>3. CASE claimed # {}
    <2>1. \E b \in claimed : \A c \in claimed : c <= b
      <3> HIDE DEF claimed
      <3> QED BY <1>1, <1>3, Highest
    <2>2. maxSourceBlock \in claimed /\ \A c \in claimed : c <= maxSourceBlock
      BY <1>3, <2>1 DEF maxSourceBlock
    <2>3. \A k \in Messages : jobs[k] # NULL => jobs[k] \in claimed
      OBVIOUS
    <2>4. \E k \in Messages : jobs[k] = maxSourceBlock
      BY <2>2
    <2> QED BY <1>1, <2>2, <2>3, <2>4
  <1> QED BY <1>2, <1>3

LEMMA RestingTick ==
  /\ Resting \in Tick /\ Nothing \in [Messages -> Block] /\ Inactive \in ChainScanState
  /\ Resting.pc = "idle" /\ Resting.progress = NULL /\ Resting.todo = Nothing
  BY DiscoveryAssumption
     DEF Resting, Tick, Nothing, Inactive, ChainScanState, Block, Blocks, Pcs

LEMMA ProgressStep ==
  ASSUME TypeOK, NEW p \in Block, watcherProgress(p)
  PROVE  failures' \in 0..MaxFailures /\ (p # NULL => p = indexed /\ p \in Blocks)
  <1>1. failures' \in 0..MaxFailures
    BY DiscoveryAssumption DEF TypeOK, watcherProgress
  <1>2. p # NULL => p = indexed /\ p \in Blocks
    BY DEF watcherProgress, Block
  <1> QED BY <1>1, <1>2

-----------------------------------------------------------------------------
(* The record a step leaves in tick.                                       *)

\* discoverGate goes on with the confirmed part of the index, or to the scanner.
LEMMA GateTick ==
  ASSUME TypeOK, discoverGate
  PROVE  /\ tick' \in Tick /\ failures' \in 0..MaxFailures
         /\ tick'.progress = NULL /\ tick'.todo = Nothing
         /\ \/ tick'.pc = "scan"
            \/ /\ tick'.pc = "gated" /\ indexed # NULL
               /\ tick'.hi + Confirmations <= indexed
  <1>1. PICK p \in Block :
          /\ watcherProgress(p)
          /\ tick' = IF p # NULL => p < Confirmations
                     THEN [Resting EXCEPT !.pc = "scan"]
                     ELSE [Resting EXCEPT !.pc = "gated", !.hi = p - Confirmations]
    BY DEF discoverGate
  <1>2. failures' \in 0..MaxFailures /\ (p # NULL => p = indexed /\ p \in Blocks)
    BY <1>1, ProgressStep
  <1>3. CASE p # NULL => p < Confirmations
    <2>1. tick' = [Resting EXCEPT !.pc = "scan"]
      BY <1>1, <1>3
    <2> QED BY <1>2, <2>1, RestingTick DEF Resting, Tick, Pcs
  <1>4. CASE p # NULL /\ p >= Confirmations
    <2>1. tick' = [Resting EXCEPT !.pc = "gated", !.hi = p - Confirmations]
      BY <1>1, <1>2, <1>4, DiscoveryAssumption DEF Blocks
    <2>2. p - Confirmations \in Blocks /\ (p - Confirmations) + Confirmations = p
      BY <1>2, <1>4, DiscoveryAssumption DEF Blocks
    <2>3. /\ tick' \in Tick /\ tick'.pc = "gated" /\ tick'.hi = p - Confirmations
          /\ tick'.progress = NULL /\ tick'.todo = Nothing
      BY <2>1, <2>2, RestingTick DEF Resting, Tick, Pcs
    <2>4. tick'.hi + Confirmations <= p
      BY <1>2, <2>2, <2>3, DiscoveryAssumption DEF Blocks
    <2> QED BY <1>2, <1>4, <2>3, <2>4
  <1> QED BY <1>2, <1>3, <1>4, DiscoveryAssumption DEF Blocks

\* unclaimedMessages takes rows up to the gate.
LEMMA UnclaimedTick ==
  ASSUME TypeOK, unclaimedMessages
  PROVE  /\ tick' \in Tick /\ tick'.pc = "claim" /\ tick'.progress = tick.progress
         /\ \A m \in Messages : tick'.todo[m] # NULL =>
              /\ tick'.todo[m] = rows[m] /\ rows[m] \in Blocks /\ rows[m] <= tick.hi
  <1> DEFINE S == {m \in Messages : /\ jobs[m] = NULL /\ rows[m] # NULL
                                    /\ rows[m] <= tick.hi}
             todo(T) == [m \in Messages |-> IF m \in T THEN rows[m] ELSE NULL]
  <1>1. PICK T \in SUBSET S : tick' = [tick EXCEPT !.pc = "claim", !.todo = todo(T)]
    BY DEF unclaimedMessages, FirstRows
  <1>2. todo(T) \in [Messages -> Block]
    BY DEF TypeOK, Block
  <1>3. /\ tick' \in Tick /\ tick'.pc = "claim" /\ tick'.progress = tick.progress
        /\ tick'.todo = todo(T)
    <2> HIDE DEF todo
    <2> QED BY <1>1, <1>2 DEF TypeOK, Tick, Pcs
  <1>4. ASSUME NEW m \in Messages, tick'.todo[m] # NULL
        PROVE  tick'.todo[m] = rows[m] /\ rows[m] \in Blocks /\ rows[m] <= tick.hi
    <2>1. m \in T /\ tick'.todo[m] = rows[m]
      BY <1>3, <1>4
    <2> QED BY <2>1 DEF TypeOK, Block
  <1> QED BY <1>3, <1>4

LEMMA ClaimTick ==
  ASSUME TypeOK, NEW m \in Messages, claimMessage(m)
  PROVE  /\ tick' \in Tick /\ tick'.pc = tick.pc /\ tick.pc \in {"claim", "scanClaim"}
         /\ tick'.progress = tick.progress /\ tick'.lo = tick.lo /\ tick'.hi = tick.hi
         /\ tick.todo[m] # NULL
         /\ tick'.todo = [tick.todo EXCEPT ![m] = NULL]
         /\ jobs' = [jobs EXCEPT ![m] = IF @ = NULL THEN tick.todo[m] ELSE @]
         /\ jobs' \in [Messages -> Block]
  <1>1. tick \in Tick /\ tick.todo \in [Messages -> Block]
    BY DEF TypeOK, Tick
  <1>2. [tick.todo EXCEPT ![m] = NULL] \in [Messages -> Block]
    BY <1>1 DEF Block
  <1>3. tick' = [tick EXCEPT !.todo = [tick.todo EXCEPT ![m] = NULL]]
    BY DEF claimMessage
  <1>4. /\ tick' \in Tick /\ tick'.pc = tick.pc /\ tick'.progress = tick.progress
        /\ tick'.lo = tick.lo /\ tick'.hi = tick.hi
        /\ tick'.todo = [tick.todo EXCEPT ![m] = NULL]
    BY <1>1, <1>2, <1>3 DEF Tick
  <1>5. tick.pc \in {"claim", "scanClaim"} /\ tick.todo[m] # NULL
        /\ jobs' = [jobs EXCEPT ![m] = IF @ = NULL THEN tick.todo[m] ELSE @]
    BY DEF claimMessage, InHand
  <1> QED BY <1>1, <1>4, <1>5 DEF TypeOK

LEMMA DoneTick ==
  ASSUME TypeOK, discoverDone
  PROVE  /\ tick' \in Tick /\ tick'.pc = "scan" /\ tick.pc = "claim"
         /\ tick'.progress = NULL /\ tick'.todo = Nothing
  <1>1. tick' = [Resting EXCEPT !.pc = "scan"] /\ tick.pc = "claim"
    BY DEF discoverDone
  <1> QED BY <1>1, RestingTick DEF Resting, Tick, Pcs

\* tickChain ends the tick, or goes on with the progress it read; it switches
\* the scanner on only when that progress is stale.
LEMMA ChainTick ==
  ASSUME TypeOK, tickChain
  PROVE  /\ tick' \in Tick /\ failures' \in 0..MaxFailures /\ scan' \in ChainScanState
         /\ tick'.todo = Nothing
         /\ tick'.progress # NULL => indexed # NULL
         /\ \/ scan' = Inactive /\ tick' = Resting /\ indexed # NULL
            \/ scan' = scan /\ tick' = Resting
            \/ /\ tick'.pc = IF scan'.cursor = NULL THEN "base" ELSE "head"
               /\ scan'.active
               /\ \/ scan' = scan
                  \/ /\ ~scan.active /\ scan'.cursor = NULL /\ Stale(tick'.progress)
                     /\ tick'.progress # NULL => tick'.progress = indexed
  <1>1. PICK p \in Block :
         /\ watcherProgress(p)
         /\ \/ scan.active /\ caughtUp(p) /\ scan' = Inactive /\ tick' = Resting
            \/ scan.active /\ ~caughtUp(p) /\ UNCHANGED scan /\ GoOn(p, scan.cursor)
            \/ ~scan.active /\ ~Stale(p) /\ tick' = Resting /\ UNCHANGED scan
            \/ /\ ~scan.active /\ Stale(p)
               /\ scan' = [active |-> TRUE, cursor |-> NULL] /\ GoOn(p, NULL)
    BY DEF tickChain
  <1>2. failures' \in 0..MaxFailures /\ (p # NULL => p = indexed /\ p \in Blocks)
    BY <1>1, ProgressStep
  <1>3. ASSUME NEW c, GoOn(p, c)
        PROVE  /\ tick' \in Tick /\ tick'.todo = Nothing /\ tick'.progress = p
               /\ tick'.pc = IF c = NULL THEN "base" ELSE "head"
    BY <1>3, RestingTick DEF GoOn, Resting, Tick, Pcs
  <1>4. CASE scan.active /\ caughtUp(p) /\ scan' = Inactive /\ tick' = Resting
    <2>1. indexed # NULL
      BY <1>2, <1>4 DEF caughtUp, Stale
    <2> QED BY <1>2, <1>4, <2>1, RestingTick
  <1>5. CASE scan.active /\ ~caughtUp(p) /\ UNCHANGED scan /\ GoOn(p, scan.cursor)
    BY <1>2, <1>3, <1>5 DEF TypeOK
  <1>6. CASE ~scan.active /\ ~Stale(p) /\ tick' = Resting /\ UNCHANGED scan
    BY <1>2, <1>6, RestingTick DEF TypeOK
  <1>7. CASE /\ ~scan.active /\ Stale(p)
             /\ scan' = [active |-> TRUE, cursor |-> NULL] /\ GoOn(p, NULL)
    BY <1>2, <1>3, <1>7 DEF ChainScanState
  <1> QED BY <1>1, <1>4, <1>5, <1>6, <1>7

LEMMA CursorTick ==
  ASSUME TypeOK, setCursor
  PROVE  /\ tick' \in Tick /\ tick.pc = "base" /\ tick'.pc = "head"
         /\ tick'.progress = tick.progress /\ tick'.todo = tick.todo
         /\ scan' \in ChainScanState /\ scan'.active = scan.active
         /\ scan'.cursor \in 1..(MaxBlock + 1)
         /\ tick.progress = NULL =>
              \/ jobs = Nothing /\ scan'.cursor = 1
              \/ /\ \E k \in Messages : jobs[k] # NULL /\ scan'.cursor = jobs[k] + 1
                 /\ \A k \in Messages : jobs[k] # NULL => jobs[k] < scan'.cursor
  <1> DEFINE base == IF tick.progress # NULL THEN tick.progress
                     ELSE IF maxSourceBlock # NULL THEN maxSourceBlock
                     ELSE DeployBlock
  <1>1. base \in Blocks
    BY MaxSourceBlock, DiscoveryAssumption DEF TypeOK, Tick, Block, Blocks, DeployBlock
  <1>0. tick.progress = NULL =>
          \/ jobs = Nothing /\ base = 0
          \/ /\ \E k \in Messages : jobs[k] # NULL /\ base = jobs[k]
             /\ \A k \in Messages : jobs[k] # NULL => jobs[k] <= base
    BY MaxSourceBlock, DiscoveryAssumption DEF Blocks, DeployBlock
  <1>2. /\ tick.pc = "base" /\ tick' = [tick EXCEPT !.pc = "head"]
        /\ scan' = [scan EXCEPT !.cursor = base + 1]
    BY DEF setCursor
  <1> HIDE DEF base
  <1>3. base + 1 \in 1..(MaxBlock + 1)
    BY <1>1, DiscoveryAssumption DEF Blocks
  <1>4. /\ tick' \in Tick /\ tick'.pc = "head" /\ tick'.progress = tick.progress
        /\ tick'.todo = tick.todo
    BY <1>2 DEF TypeOK, Tick, Pcs
  <1>5. scan' \in ChainScanState /\ scan'.active = scan.active /\ scan'.cursor = base + 1
    BY <1>2, <1>3 DEF TypeOK, ChainScanState
  <1>6. \A k \in Messages : jobs[k] # NULL => jobs[k] \in Nat
    BY DEF TypeOK, Block, Blocks
  <1>7. tick.progress = NULL =>
          \/ jobs = Nothing /\ scan'.cursor = 1
          \/ /\ \E k \in Messages : jobs[k] # NULL /\ scan'.cursor = jobs[k] + 1
             /\ \A k \in Messages : jobs[k] # NULL => jobs[k] < scan'.cursor
    BY <1>0, <1>1, <1>5, <1>6 DEF Blocks
  <1> QED BY <1>2, <1>3, <1>4, <1>5, <1>7

LEMMA HeadTick ==
  ASSUME TypeOK, Gated, getBlockNumber
  PROVE  /\ tick' \in Tick /\ tick.pc = "head"
         /\ \/ tick' = Resting
            \/ /\ tick'.pc = "logs" /\ tick'.progress = tick.progress
               /\ tick'.todo = tick.todo /\ tick'.lo = scan.cursor
               /\ tick'.lo <= tick'.hi /\ tick'.hi + Confirmations <= head
  <1>1. tick.pc = "head" /\ scan.cursor \in 1..(MaxBlock + 1)
    BY DEF getBlockNumber, Gated, TypeOK, ChainScanState
  <1>2. CASE tick' = Resting
    BY <1>1, <1>2, RestingTick
  <1>3. CASE /\ ~(scan.cursor > head - Confirmations)
             /\ tick' = [tick EXCEPT !.pc = "logs", !.lo = scan.cursor,
                                     !.hi = head - Confirmations]
    <2>1. /\ head - Confirmations \in Blocks /\ scan.cursor <= head - Confirmations
          /\ (head - Confirmations) + Confirmations <= head
          /\ scan.cursor \in 0..(MaxBlock + 1)
      BY <1>1, <1>3, DiscoveryAssumption DEF TypeOK, Blocks
    <2> QED BY <1>1, <1>3, <2>1 DEF TypeOK, Tick, Pcs
  <1> QED BY <1>2, <1>3 DEF getBlockNumber

\* A chunk takes the messages sent in its blocks and moves on to the next.
LEMMA LogsTick ==
  ASSUME TypeOK, Gated, getLogsChunked
  PROVE  /\ tick' \in Tick /\ tick.pc = "logs" /\ tick'.progress = tick.progress
         /\ tick'.hi = tick.hi /\ tick'.lo > tick.lo /\ tick'.lo <= tick.hi + 1
         /\ tick'.pc = IF tick'.lo > tick.hi THEN "scanClaim" ELSE "logs"
         /\ \A m \in Messages :
              tick'.todo[m] = IF sentAt[m] # NULL /\ sentAt[m] \in tick.lo..(tick'.lo - 1)
                              THEN sentAt[m] ELSE tick.todo[m]
  <1> DEFINE end == IF tick.lo + ChunkSize - 1 < tick.hi
                    THEN tick.lo + ChunkSize - 1 ELSE tick.hi
             todo == [m \in Messages |->
                        IF sentAt[m] # NULL /\ sentAt[m] \in tick.lo..end
                        THEN sentAt[m] ELSE tick.todo[m]]
             pc == IF end + 1 > tick.hi THEN "scanClaim" ELSE "logs"
  <1>1. tick.pc = "logs" /\ tick.lo <= tick.hi /\ tick \in Tick
    BY DEF getLogsChunked, Gated, TypeOK
  <1>2. tick' = [tick EXCEPT !.todo = todo, !.lo = end + 1, !.pc = pc]
    BY DEF getLogsChunked
  <1>3. end \in Nat /\ tick.lo <= end /\ end <= tick.hi /\ end + 1 \in 0..(MaxBlock + 1)
    BY <1>1, DiscoveryAssumption DEF Tick, Blocks
  <1>4. todo \in [Messages -> Block] /\ pc \in Pcs
    BY <1>1 DEF TypeOK, Tick, Pcs
  <1>5. \A m \in Messages :
          todo[m] = IF sentAt[m] # NULL /\ sentAt[m] \in tick.lo..end
                    THEN sentAt[m] ELSE tick.todo[m]
    OBVIOUS
  <1> HIDE DEF todo, end
  <1>6. /\ tick' \in Tick /\ tick'.progress = tick.progress /\ tick'.hi = tick.hi
        /\ tick'.lo = end + 1 /\ tick'.pc = pc /\ tick'.todo = todo
    BY <1>1, <1>2, <1>3, <1>4 DEF Tick
  <1>7. tick'.lo - 1 = end /\ tick'.lo > tick.lo /\ tick'.lo <= tick.hi + 1
    BY <1>1, <1>3, <1>6 DEF Tick, Blocks
  <1> QED BY <1>1, <1>5, <1>6, <1>7

LEMMA ScanTick ==
  ASSUME TypeOK, scanDone
  PROVE  /\ tick' = Resting /\ tick.pc = "scanClaim"
         /\ \A m \in Messages : tick.todo[m] = NULL
         /\ scan' \in ChainScanState /\ scan'.active = scan.active
         /\ scan'.cursor = tick.hi + 1
  <1>1. tick.hi + 1 \in 1..(MaxBlock + 1)
    BY DiscoveryAssumption DEF TypeOK, Tick, Blocks
  <1> QED BY <1>1 DEF scanDone, InHand, TypeOK, ChainScanState

-----------------------------------------------------------------------------
(* Types.                                                                  *)

LEMMA ReorgChain ==
  ASSUME TypeOK, Reorg
  PROVE  /\ sentAt' \in [Messages -> Block] /\ head' = head
         /\ \A m \in Messages : sentAt'[m] # sentAt[m] =>
              /\ sentAt[m] # NULL /\ sentAt[m] + Confirmations > head
              /\ sentAt'[m] # NULL => /\ sentAt'[m] \in 1..head
                                      /\ sentAt'[m] + Confirmations > head
  <1>1. PICK first \in (head - ReorgDepth + 1)..head :
          /\ first > DeployBlock /\ head' = head
          /\ \E m \in Messages :
               /\ sentAt[m] # NULL /\ sentAt[m] >= first
               /\ \E b \in (first..head) \union {NULL} : sentAt' = [sentAt EXCEPT ![m] = b]
    BY DEF Reorg
  <1>2. PICK m \in Messages, b \in (first..head) \union {NULL} :
          sentAt[m] # NULL /\ sentAt[m] >= first /\ sentAt' = [sentAt EXCEPT ![m] = b]
    BY <1>1
  <1>3. /\ head \in Nat /\ head <= MaxBlock /\ first \in Int /\ first > 0
        /\ first + Confirmations > head
    BY <1>1, DiscoveryAssumption DEF TypeOK, Blocks, DeployBlock
  <1>4. b # NULL => b \in 1..head /\ b \in Blocks /\ b + Confirmations > head
    BY <1>3, DiscoveryAssumption DEF Blocks
  <1>5. sentAt[m] + Confirmations > head
    BY <1>2, <1>3, DiscoveryAssumption DEF TypeOK, Block, Blocks
  <1> QED BY <1>1, <1>2, <1>4, <1>5 DEF TypeOK, Block

LEMMA MinedChain ==
  ASSUME TypeOK, MineBlock
  PROVE  /\ sentAt' \in [Messages -> Block] /\ head' = head + 1 /\ head' \in Blocks
         /\ \A m \in Messages : sentAt'[m] # sentAt[m] =>
              sentAt[m] = NULL /\ sentAt'[m] = head + 1
  <1>1. head' = head + 1 /\ head' \in Blocks
    BY DiscoveryAssumption DEF MineBlock, TypeOK, Blocks
  <1>2. PICK S \in SUBSET {m \in Messages : sentAt[m] = NULL} :
          sentAt' = [m \in Messages |-> IF m \in S THEN head + 1 ELSE sentAt[m]]
    BY DEF MineBlock
  <1> QED BY <1>1, <1>2 DEF TypeOK, Block

LEMMA IndexedChain ==
  ASSUME TypeOK, Index
  PROVE  /\ indexed' \in Blocks /\ indexed' <= head /\ (indexed # NULL => indexed <= indexed')
         /\ rows' \in [Messages -> Block]
         /\ \A m \in Messages : rows'[m] # NULL => rows'[m] = sentAt[m]
  <1>1. PICK b \in (IF indexed = NULL THEN DeployBlock ELSE indexed)..head :
          /\ indexed' = b
          /\ rows' = [m \in Messages |->
               IF sentAt[m] # NULL /\ sentAt[m] \in from..b THEN sentAt[m] ELSE NULL]
    BY DEF Index
  <1>2. (IF indexed = NULL THEN DeployBlock ELSE indexed) \in Nat /\ head \in Blocks
    BY DEF TypeOK, Block, Blocks, DeployBlock
  <1>3. b \in Blocks /\ b <= head /\ (indexed # NULL => indexed <= b)
    BY <1>2, DiscoveryAssumption DEF Blocks
  <1> QED BY <1>1, <1>3 DEF TypeOK, Block

LEMMA TypedStep == TypeOK /\ Gated /\ [Next]_vars => TypeOK'
  <1> SUFFICES ASSUME TypeOK, Gated, [Next]_vars PROVE TypeOK'
    OBVIOUS
  <1> USE DEF chainVars, watcherVars
  <1>1. CASE discoverGate
    BY <1>1, GateTick DEF discoverGate, TypeOK
  <1>2. CASE unclaimedMessages
    BY <1>2, UnclaimedTick DEF unclaimedMessages, TypeOK
  <1>3. CASE discoverDone
    BY <1>3, DoneTick DEF discoverDone, TypeOK
  <1>4. CASE tickChain
    BY <1>4, ChainTick DEF tickChain, TypeOK
  <1>5. CASE setCursor
    BY <1>5, CursorTick DEF setCursor, TypeOK
  <1>6. CASE getBlockNumber
    BY <1>6, HeadTick DEF getBlockNumber, TypeOK
  <1>7. CASE getLogsChunked
    BY <1>7, LogsTick DEF getLogsChunked, TypeOK
  <1>8. CASE scanDone
    BY <1>8, ScanTick, RestingTick DEF scanDone, TypeOK
  <1>9. ASSUME NEW m \in Messages, claimMessage(m) PROVE TypeOK'
    BY <1>9, ClaimTick DEF claimMessage, TypeOK
  <1>10. CASE AbortTick
    <2>1. failures' \in 0..MaxFailures
      BY <1>10, DiscoveryAssumption DEF AbortTick, TypeOK
    <2> QED BY <1>10, <2>1, RestingTick DEF AbortTick, TypeOK
  <1>11. CASE Crash
    <2>1. crashes' \in 0..MaxCrashes
      BY <1>11, DiscoveryAssumption DEF Crash, TypeOK
    <2> QED BY <1>11, <2>1, RestingTick DEF Crash, TypeOK
  <1>12. CASE MineBlock
    <2>1. late' \in 0..(ActivateAfter + 1)
      BY <1>12, DiscoveryAssumption DEF MineBlock
    <2> QED BY <1>12, <2>1, MinedChain DEF MineBlock, TypeOK
  <1>13. CASE Elapse
    <2>1. late' \in 0..(ActivateAfter + 1)
      BY <1>13, DiscoveryAssumption DEF Elapse, TypeOK
    <2> QED BY <1>13, <2>1 DEF Elapse, TypeOK
  <1>14. CASE Reorg
    BY <1>14, ReorgChain DEF Reorg, TypeOK
  <1>15. CASE StartWatcher
    <2>1. from' \in Block
      BY <1>15, DiscoveryAssumption DEF StartWatcher, TypeOK, Block, Blocks, DeployBlock
    <2> QED BY <1>15, <2>1 DEF StartWatcher, TypeOK
  <1>16. CASE StopWatcher
    BY <1>16 DEF StopWatcher, TypeOK
  <1>17. CASE Index
    BY <1>17, IndexedChain DEF Index, TypeOK, Block
  <1>18. CASE UNCHANGED vars
    BY <1>18 DEF vars, TypeOK
  <1> QED BY <1>1, <1>2, <1>3, <1>4, <1>5, <1>6, <1>7, <1>8, <1>9, <1>10, <1>11, <1>12,
          <1>13, <1>14, <1>15, <1>16, <1>17, <1>18 DEF Next, TickStep, Environment

-----------------------------------------------------------------------------
(* Finality.                                                               *)

\* The chain grows at its head and is rewritten only above the confirmed part.
LEMMA ChainMoves ==
  ASSUME TypeOK, [Next]_vars
  PROVE  /\ head \in Nat /\ head' \in Nat /\ head <= head'
         /\ \A m \in Messages : sentAt'[m] # sentAt[m] =>
              /\ sentAt[m] # NULL => sentAt[m] + Confirmations > head
              /\ sentAt'[m] # NULL => /\ sentAt'[m] \in 1..head'
                                      /\ sentAt'[m] + Confirmations > head
  <1> USE DEF chainVars
  <1>1. head \in Nat
    BY DEF TypeOK, Blocks
  <1>2. CASE MineBlock
    BY <1>1, <1>2, MinedChain, DiscoveryAssumption
  <1>3. CASE Reorg
    BY <1>1, <1>3, ReorgChain
  <1>4. CASE head' = head /\ sentAt' = sentAt
    BY <1>1, <1>4
  <1>5. CASE TickStep
    BY <1>4, <1>5 DEF TickStep, discoverGate, unclaimedMessages, discoverDone, tickChain,
      setCursor, getBlockNumber, getLogsChunked, scanDone, claimMessage
  <1> QED BY <1>2, <1>3, <1>4, <1>5 DEF Next, AbortTick, Crash, Environment, Elapse,
       StartWatcher, StopWatcher, Index, vars

\* What is settled stays settled.
LEMMA SettledKept ==
  ASSUME TypeOK, [Next]_vars, NEW f \in [Messages -> Block],
         Settled(f, sentAt, head)
  PROVE  Settled(f, sentAt', head')
  <1> SUFFICES ASSUME NEW m \in Messages, f[m] # NULL
               PROVE  sentAt'[m] = f[m] /\ f[m] + Confirmations <= head'
    BY DEF Settled
  <1>1. sentAt[m] = f[m] /\ f[m] + Confirmations <= head /\ f[m] \in Nat
    BY DEF Settled, Block, Blocks
  <1> QED BY <1>1, ChainMoves, DiscoveryAssumption

LEMMA ChainedStep == TypeOK /\ Chained /\ [Next]_vars => Chained'
  <1> SUFFICES ASSUME TypeOK, Chained, [Next]_vars, NEW m \in Messages, sentAt'[m] # NULL
               PROVE  sentAt'[m] \in 1..head'
    BY DEF Chained
  <1>1. CASE sentAt'[m] = sentAt[m]
    BY <1>1, ChainMoves DEF Chained
  <1> QED BY <1>1, ChainMoves

\* Who writes the index.
LEMMA IndexKept ==
  ASSUME [Next]_vars
  PROVE  Index \/ (rows' = rows /\ indexed' = indexed)
  <1> USE DEF watcherVars
  <1>1. CASE TickStep
    BY <1>1 DEF TickStep, discoverGate, unclaimedMessages, discoverDone, tickChain,
      setCursor, getBlockNumber, getLogsChunked, scanDone, claimMessage
  <1> QED BY <1>1 DEF Next, AbortTick, Crash, Environment, MineBlock, Elapse, Reorg,
       StartWatcher, StopWatcher, vars

LEMMA IndexedStep == TypeOK /\ Chained /\ Indexed /\ [Next]_vars => Indexed'
  <1> SUFFICES ASSUME TypeOK, Chained, Indexed, [Next]_vars PROVE Indexed'
    OBVIOUS
  <1>1. CASE Index
    <2>1. head' = head /\ sentAt' = sentAt
      BY <1>1 DEF Index, chainVars
    <2>2. indexed' # NULL
      BY <1>1, IndexedChain, DiscoveryAssumption DEF Blocks
    <2> QED BY <1>1, <2>1, <2>2, IndexedChain DEF Indexed
  <1>2. CASE rows' = rows /\ indexed' = indexed
    <2>1. indexed' # NULL => indexed' <= head'
      BY <1>2, ChainMoves DEF Indexed, TypeOK, Block, Blocks
    <2>2. ASSUME NEW m \in Messages, rows'[m] # NULL
          PROVE  /\ indexed' # NULL
                 /\ rows'[m] + Confirmations <= indexed' => sentAt'[m] = rows'[m]
      <3>1. rows[m] \in Nat /\ indexed \in Nat /\ indexed <= head /\ indexed # NULL
        BY <1>2, <2>2 DEF Indexed, TypeOK, Block, Blocks
      <3>2. rows[m] + Confirmations <= indexed => sentAt[m] = rows[m]
        BY <1>2, <2>2 DEF Indexed
      <3> QED BY <1>2, <2>2, <3>1, <3>2, ChainMoves, DiscoveryAssumption
    <2> QED BY <2>1, <2>2 DEF Indexed
  <1> QED BY <1>1, <1>2, IndexKept

LEMMA GatedStep == TypeOK /\ Gated /\ [Next]_vars => Gated'
  <1> SUFFICES ASSUME TypeOK, Gated, [Next]_vars PROVE Gated'
    OBVIOUS
  <1> USE DEF chainVars, watcherVars
  <1>a. ASSUME tick' = Resting PROVE Gated'
    BY <1>a, RestingTick DEF Gated
  <1>1. CASE discoverGate
    BY <1>1, GateTick DEF discoverGate, Gated
  <1>2. CASE unclaimedMessages
    BY <1>2, UnclaimedTick DEF Gated
  <1>3. CASE discoverDone
    BY <1>3, DoneTick DEF Gated
  <1>4. CASE tickChain
    <2>1. CASE tick' = Resting
      BY <2>1, <1>a
    <2>2. CASE tick'.pc = IF scan'.cursor = NULL THEN "base" ELSE "head"
      BY <1>4, <2>2, ChainTick DEF Gated
    <2> QED BY <1>4, <2>1, <2>2, ChainTick
  <1>5. CASE setCursor
    <2>1. scan'.cursor # NULL
      BY <1>5, CursorTick, DiscoveryAssumption
    <2> QED BY <1>5, <2>1, CursorTick DEF Gated
  <1>6. CASE getBlockNumber
    BY <1>6, <1>a, HeadTick DEF getBlockNumber, Gated
  <1>7. CASE getLogsChunked
    <2>1. /\ tick.pc = "logs" /\ tick' \in Tick /\ tick'.hi = tick.hi
          /\ tick'.lo <= tick.hi + 1
          /\ tick'.pc = IF tick'.lo > tick.hi THEN "scanClaim" ELSE "logs"
      BY <1>7, LogsTick
    <2>2. tick'.lo \in Nat /\ tick.hi \in Nat
      BY <2>1 DEF TypeOK, Tick, Blocks
    <2>3. tick.hi + Confirmations <= head /\ scan.cursor # NULL
      BY <2>1 DEF Gated
    <2>4. head' = head /\ scan' = scan
      BY <1>7 DEF getLogsChunked
    <2> QED BY <2>1, <2>2, <2>3, <2>4 DEF Gated
  <1>8. CASE scanDone
    BY <1>8, <1>a, ScanTick
  <1>9. ASSUME NEW m \in Messages, claimMessage(m) PROVE Gated'
    BY <1>9, ClaimTick DEF claimMessage, Gated
  <1>10. CASE AbortTick \/ Crash
    BY <1>10, <1>a DEF AbortTick, Crash
  <1>11. CASE tick' = tick /\ scan' = scan
    <2>1. indexed # NULL => indexed' # NULL /\ indexed <= indexed' /\ indexed' \in Nat
      <3>1. CASE Index
        BY <3>1, IndexedChain, DiscoveryAssumption DEF Blocks
      <3> QED BY <3>1, IndexKept DEF TypeOK, Block, Blocks
    <2>2. tick.hi \in Nat /\ (indexed # NULL => indexed \in Nat)
      BY DEF TypeOK, Tick, Block, Blocks
    <2> QED BY <1>11, <2>1, <2>2, ChainMoves, DiscoveryAssumption DEF Gated
  <1>12. CASE Environment \/ UNCHANGED vars
    BY <1>11, <1>12 DEF Environment, MineBlock, Elapse, Reorg, StartWatcher, StopWatcher,
       Index, vars
  <1> QED BY <1>1, <1>2, <1>3, <1>4, <1>5, <1>6, <1>7, <1>8, <1>9, <1>10, <1>12
       DEF Next, TickStep

LEMMA SwitchedStep == TypeOK /\ Gated /\ Switched /\ [Next]_vars => Switched'
  <1> SUFFICES ASSUME TypeOK, Gated, Switched, [Next]_vars PROVE Switched'
    OBVIOUS
  <1>a. ASSUME scan' = scan, tick'.pc # "base" PROVE Switched'
    BY <1>a DEF Switched
  <1>1. CASE discoverGate
    BY <1>1, <1>a, GateTick DEF discoverGate
  <1>2. CASE unclaimedMessages \/ discoverDone
    BY <1>2, <1>a, UnclaimedTick, DoneTick DEF unclaimedMessages, discoverDone
  <1>3. CASE tickChain
    <2>1. CASE scan' = Inactive /\ tick' = Resting
      BY <2>1 DEF Inactive, Resting, Switched
    <2>2. CASE scan' = scan /\ tick' = Resting
      BY <1>a, <2>2, RestingTick
    <2>3. CASE scan'.active
      BY <2>3 DEF Switched
    <2> QED BY <1>3, <2>1, <2>2, <2>3, ChainTick
  <1>4. CASE setCursor
    BY <1>4, CursorTick DEF Switched
  <1>5. CASE getBlockNumber \/ getLogsChunked
    BY <1>5, <1>a, HeadTick, LogsTick, RestingTick DEF getBlockNumber, getLogsChunked
  <1>6. CASE scanDone
    <2>1. scan.active
      BY <1>6, ScanTick DEF Gated, Switched
    <2> QED BY <1>6, <2>1, ScanTick DEF Switched
  <1>7. ASSUME NEW m \in Messages, claimMessage(m) PROVE Switched'
    BY <1>7, <1>a, ClaimTick DEF claimMessage
  <1>8. CASE AbortTick
    BY <1>8, <1>a, RestingTick DEF AbortTick
  <1>9. CASE Crash
    BY <1>9 DEF Crash, Inactive, Resting, Switched
  <1>10. CASE Environment \/ UNCHANGED vars
    BY <1>10 DEF Environment, MineBlock, Elapse, Reorg, StartWatcher, StopWatcher,
       Index, vars, Switched
  <1> QED BY <1>1, <1>2, <1>3, <1>4, <1>5, <1>6, <1>7, <1>8, <1>9, <1>10
       DEF Next, TickStep

\* What a tick takes in hand is settled when it takes it.
LEMMA TodoStep ==
  TypeOK /\ Sound /\ [Next]_vars => Settled(tick'.todo, sentAt', head')
  <1> SUFFICES ASSUME TypeOK, Sound, [Next]_vars
               PROVE  Settled(tick'.todo, sentAt', head')
    OBVIOUS
  <1> USE DEF chainVars
  <1>a. ASSUME tick'.todo = Nothing PROVE Settled(tick'.todo, sentAt', head')
    BY <1>a DEF Settled, Nothing
  <1>b. ASSUME tick'.todo = tick.todo PROVE Settled(tick'.todo, sentAt', head')
    BY <1>b, SettledKept DEF Sound, TypeOK, Tick
  <1>1. CASE discoverGate \/ discoverDone \/ tickChain
    BY <1>1, <1>a, GateTick, DoneTick, ChainTick
  <1>2. CASE unclaimedMessages
    <2>1. indexed # NULL /\ tick.hi + Confirmations <= indexed /\ indexed <= head
      BY <1>2 DEF unclaimedMessages, Sound, Gated, Indexed
    <2>2. tick.hi \in Nat /\ indexed \in Nat /\ head \in Nat
      BY <2>1 DEF TypeOK, Tick, Block, Blocks
    <2>3. head' = head /\ sentAt' = sentAt
      BY <1>2 DEF unclaimedMessages
    <2>4. ASSUME NEW m \in Messages, tick'.todo[m] # NULL
          PROVE  sentAt[m] = tick'.todo[m] /\ tick'.todo[m] + Confirmations <= head
      <3>1. tick'.todo[m] = rows[m] /\ rows[m] \in Nat /\ rows[m] <= tick.hi
        BY <1>2, <2>4, UnclaimedTick DEF Blocks
      <3>2. rows[m] + Confirmations <= indexed
        BY <2>1, <2>2, <3>1, DiscoveryAssumption
      <3>3. sentAt[m] = rows[m]
        BY <3>1, <3>2, DiscoveryAssumption DEF Sound, Indexed
      <3> QED BY <2>1, <2>2, <3>1, <3>2, <3>3, DiscoveryAssumption
    <2> QED BY <2>3, <2>4 DEF Settled
  <1>3. CASE setCursor
    BY <1>3, <1>b, CursorTick
  <1>4. CASE getBlockNumber
    BY <1>4, <1>a, <1>b, HeadTick, RestingTick DEF Sound
  <1>5. CASE getLogsChunked
    <2>1. head' = head /\ sentAt' = sentAt
      BY <1>5 DEF getLogsChunked
    <2>2. /\ tick.hi + Confirmations <= head /\ tick.hi \in Nat /\ head \in Nat
          /\ tick.lo \in Nat
      BY <1>5 DEF getLogsChunked, Sound, Gated, TypeOK, Tick, Blocks
    <2>3. tick'.lo \in Nat /\ tick'.lo <= tick.hi + 1
      BY <1>5, LogsTick DEF Sound, Tick
    <2>4. ASSUME NEW m \in Messages, tick'.todo[m] # NULL
          PROVE  sentAt[m] = tick'.todo[m] /\ tick'.todo[m] + Confirmations <= head
      <3>1. tick'.todo[m] = IF sentAt[m] # NULL /\ sentAt[m] \in tick.lo..(tick'.lo - 1)
                            THEN sentAt[m] ELSE tick.todo[m]
        BY <1>5, LogsTick DEF Sound
      <3>2. CASE sentAt[m] # NULL /\ sentAt[m] \in tick.lo..(tick'.lo - 1)
        BY <2>2, <2>3, <3>1, <3>2, DiscoveryAssumption
      <3>3. CASE tick'.todo[m] = tick.todo[m]
        BY <2>4, <3>3 DEF Sound, Settled
      <3> QED BY <3>1, <3>2, <3>3
    <2> QED BY <2>1, <2>4 DEF Settled
  <1>6. CASE scanDone \/ AbortTick \/ Crash
    BY <1>6, <1>a, RestingTick DEF scanDone, AbortTick, Crash
  <1>7. ASSUME NEW m \in Messages, claimMessage(m)
        PROVE  Settled(tick'.todo, sentAt', head')
    <2>1. tick'.todo = [tick.todo EXCEPT ![m] = NULL] /\ tick.todo \in [Messages -> Block]
      BY <1>7, ClaimTick DEF TypeOK, Tick
    <2>2. head' = head /\ sentAt' = sentAt
      BY <1>7 DEF claimMessage
    <2> QED BY <2>1, <2>2 DEF Sound, Settled
  <1>8. CASE Environment \/ UNCHANGED vars
    BY <1>8, <1>b DEF Environment, MineBlock, Elapse, Reorg, StartWatcher, StopWatcher,
       Index, vars
  <1> QED BY <1>1, <1>2, <1>3, <1>4, <1>5, <1>6, <1>7, <1>8 DEF Next, TickStep

\* Who writes the job rows.
LEMMA JobsKept ==
  ASSUME [Next]_vars
  PROVE  jobs' = jobs \/ \E m \in Messages : claimMessage(m)
  <1>1. CASE TickStep
    BY <1>1 DEF TickStep, discoverGate, unclaimedMessages, discoverDone, tickChain,
      setCursor, getBlockNumber, getLogsChunked, scanDone
  <1> QED BY <1>1 DEF Next, AbortTick, Crash, Environment, MineBlock, Elapse, Reorg,
       StartWatcher, StopWatcher, Index, vars

LEMMA JobsStep == TypeOK /\ Sound /\ [Next]_vars => Settled(jobs', sentAt', head')
  <1> SUFFICES ASSUME TypeOK, Sound, [Next]_vars PROVE Settled(jobs', sentAt', head')
    OBVIOUS
  <1>1. CASE jobs' = jobs
    BY <1>1, SettledKept DEF Sound, TypeOK
  <1>2. ASSUME NEW m \in Messages, claimMessage(m)
        PROVE  Settled(jobs', sentAt', head')
    <2>1. jobs' = [jobs EXCEPT ![m] = IF @ = NULL THEN tick.todo[m] ELSE @]
          /\ tick.todo[m] # NULL
      BY <1>2, ClaimTick
    <2>2. head' = head /\ sentAt' = sentAt
      BY <1>2 DEF claimMessage, chainVars
    <2> QED BY <2>1, <2>2 DEF Sound, Settled, TypeOK
  <1> QED BY <1>1, <1>2, JobsKept

-----------------------------------------------------------------------------
(* Coverage.                                                               *)

\* Once the scanner has passed a confirmed block, no message turns up in it.
LEMMA NoneBehind ==
  ASSUME TypeOK, [Next]_vars, NEW c \in Nat,
         c <= 1 \/ c + Confirmations <= head + 1,
         NEW m \in Messages, sentAt'[m] # NULL, sentAt'[m] < c
  PROVE  sentAt[m] = sentAt'[m]
  BY ChainMoves, DiscoveryAssumption

LEMMA CrashesKept == [Next]_vars => crashes' = crashes \/ Crash
  <1> SUFFICES ASSUME [Next]_vars PROVE crashes' = crashes \/ Crash
    OBVIOUS
  <1>1. CASE TickStep
    BY <1>1 DEF TickStep, discoverGate, unclaimedMessages, discoverDone, tickChain,
      setCursor, getBlockNumber, getLogsChunked, scanDone, claimMessage
  <1> QED BY <1>1 DEF Next, AbortTick, Environment, MineBlock, Elapse, Reorg,
       StartWatcher, StopWatcher, Index, vars

\* Rows stay and restarts add up, so a message that the chain leaves in its
\* place stays passed.
LEMMA PassedKept ==
  ASSUME TypeOK, [Next]_vars, NEW m \in Messages, sentAt'[m] = sentAt[m],
         sentAt[m] # NULL, Passed(m)
  PROVE  Passed(m)'
  <1>1. crashes \in Nat /\ crashes' \in Nat /\ crashes' >= crashes
    BY CrashesKept DEF TypeOK, Crash
  <1>2. \A k \in Messages : jobs[k] # NULL => jobs'[k] = jobs[k]
    <2>1. ASSUME NEW n \in Messages, claimMessage(n)
          PROVE  \A k \in Messages : jobs[k] # NULL => jobs'[k] = jobs[k]
      BY <2>1, ClaimTick DEF TypeOK
    <2> QED BY <2>1, JobsKept
  <1> QED BY <1>1, <1>2 DEF Passed

\* A claim takes the lowest block in hand, below which nothing is left to read.
LEMMA ClaimUpwards ==
  ASSUME TypeOK, Sound, Upwards, Read, [Next]_vars,
         NEW n \in Messages, claimMessage(n)
  PROVE  Upwards' /\ Read'
  <1>1. /\ tick'.todo = [tick.todo EXCEPT ![n] = NULL] /\ tick.todo[n] # NULL
        /\ jobs' = [jobs EXCEPT ![n] = IF @ = NULL THEN tick.todo[n] ELSE @]
        /\ tick'.lo = tick.lo
    BY ClaimTick
  <1>2. sentAt' = sentAt /\ \A k \in InHand : tick.todo[n] <= tick.todo[k]
    BY DEF claimMessage, chainVars
  <1>3. /\ jobs \in [Messages -> Block] /\ tick.todo \in [Messages -> Block]
        /\ tick.lo \in Nat
    BY DEF TypeOK, Tick
  <1>4. \A m \in Messages : sentAt[m] # NULL => sentAt[m] \in Nat
    BY DEF TypeOK, Block, Blocks
  <1>5. ASSUME NEW m \in Messages, sentAt[m] # NULL, Passed(m)
        PROVE  Passed(m)'
    BY <1>2, <1>5, PassedKept
  <1>6. ASSUME NEW k \in Messages, NEW m \in Messages,
               jobs'[k] # NULL, sentAt'[m] # NULL, sentAt'[m] < jobs'[k]
        PROVE  Passed(m)'
    <2>1. CASE jobs'[k] = jobs[k]
      BY <1>2, <1>5, <1>6, <2>1 DEF Upwards
    <2>2. CASE jobs'[k] # jobs[k]
      <3>1. k = n /\ jobs'[k] = tick.todo[n]
        BY <1>1, <1>3, <2>2
      <3>2. tick.todo[n] \in Nat /\ tick.todo[n] < tick.lo
        BY <1>1, <1>3 DEF Read, Block, Blocks
      <3>3. sentAt[m] < tick.todo[n] /\ sentAt[m] < tick.lo
        BY <1>2, <1>3, <1>4, <1>6, <3>1, <3>2
      <3>4. tick.todo[m] = NULL
        <4>1. SUFFICES ASSUME tick.todo[m] # NULL PROVE FALSE
          OBVIOUS
        <4>2. tick.todo[n] <= tick.todo[m] /\ sentAt[m] = tick.todo[m]
          BY <1>2, <4>1 DEF InHand, Sound, Settled
        <4> QED BY <1>2, <1>4, <1>6, <3>2, <3>3, <4>2
      <3> QED BY <1>2, <1>5, <1>6, <3>3, <3>4 DEF Read
    <2> QED BY <2>1, <2>2
  <1>7. ASSUME NEW m \in Messages, tick'.todo[m] # NULL
        PROVE  tick'.todo[m] < tick'.lo
    BY <1>1, <1>3, <1>7 DEF Read
  <1>8. ASSUME NEW m \in Messages, sentAt'[m] # NULL, sentAt'[m] < tick'.lo
        PROVE  Passed(m)' \/ tick'.todo[m] # NULL
    <2>1. CASE Passed(m)
      BY <1>2, <1>5, <1>8, <2>1
    <2>2. CASE tick.todo[m] # NULL /\ m # n
      BY <1>1, <1>3, <2>2
    <2>3. CASE m = n
      <3>1. jobs'[n] # NULL
        BY <1>1, <1>3
      <3> QED BY <2>3, <3>1 DEF Passed
    <2> QED BY <1>1, <1>2, <1>8, <2>1, <2>2, <2>3 DEF Read
  <1>9. Upwards'
    BY <1>6 DEF Upwards
  <1>10. Read'
    BY <1>7, <1>8 DEF Read
  <1> QED BY <1>9, <1>10

LEMMA ScannedStep ==
  TypeOK /\ Sound /\ Scanned /\ ScanCovers /\ [Next]_vars => Scanned' /\ ScanCovers'
  <1> DEFINE Covers == scan.cursor # NULL => \A m \in Messages :
               sentAt[m] # NULL /\ sentAt[m] < scan.cursor => Passed(m)
             Bounded == scan.cursor # NULL =>
               scan.cursor = 1 \/ scan.cursor + Confirmations <= head + 1
             Fresh == crashes = 0 /\ scan.cursor = NULL => jobs = Nothing
             Ranged == tick.pc \in {"logs", "scanClaim"} => Read
             Alone == tick.progress = NULL /\ tick.pc \notin {"gated", "claim"}
  <1> SUFFICES ASSUME TypeOK, Sound, Scanned, ScanCovers, [Next]_vars, indexed' = NULL
               PROVE  Alone' /\ Fresh' /\ Bounded' /\ Upwards' /\ Ranged' /\ Covers'
    BY DEF Scanned, ScanCovers, Passed
  <1>a. indexed = NULL
    BY IndexKept, IndexedChain, DiscoveryAssumption DEF Blocks
  <1>b. Alone /\ Fresh /\ Bounded /\ Upwards /\ Ranged
    BY <1>a DEF Scanned
  <1>c. Covers
    BY <1>a DEF ScanCovers, Passed
  <1>s. \A m \in Messages : sentAt[m] # NULL => sentAt[m] \in Nat
    BY DEF TypeOK, Block, Blocks
  <1>j. \A k \in Messages : jobs[k] # NULL =>
          jobs[k] \in Nat /\ jobs[k] + Confirmations <= head
    BY DEF TypeOK, Block, Blocks, Sound, Settled
  <1>h. head \in Nat /\ head' \in Nat /\ head' >= head
    BY TypedStep, ChainMoves DEF TypeOK, Blocks
  <1>r. crashes \in Nat /\ crashes' \in Nat /\ crashes' >= crashes
    BY CrashesKept DEF TypeOK, Crash
  <1> USE DEF chainVars, watcherVars
  \* A step that leaves the rows alone.
  <1>u. ASSUME jobs' = jobs PROVE Upwards'
    <2>1. ASSUME NEW k \in Messages, NEW m \in Messages,
                 jobs[k] # NULL, sentAt'[m] # NULL, sentAt'[m] < jobs[k]
          PROVE  Passed(m)'
      <3>1. jobs[k] + Confirmations <= head + 1 /\ jobs[k] \in Nat
        BY <1>j, <1>h, <2>1, DiscoveryAssumption
      <3>2. sentAt[m] = sentAt'[m]
        BY <2>1, <3>1, NoneBehind
      <3> QED BY <1>b, <2>1, <3>2, PassedKept DEF Upwards
    <2> QED BY <1>u, <2>1 DEF Upwards
  \* A step that leaves the cursor alone.
  <1>d. ASSUME scan'.cursor = scan.cursor PROVE Bounded' /\ Covers'
    <2>1. scan.cursor # NULL => scan.cursor \in Nat
      BY DEF TypeOK, ChainScanState
    <2>2. scan.cursor # NULL =>
            scan.cursor = 1 \/ scan.cursor + Confirmations <= head' + 1
      BY <1>b, <1>h, <2>1, DiscoveryAssumption
    <2>3. ASSUME scan.cursor # NULL, NEW m \in Messages,
                 sentAt'[m] # NULL, sentAt'[m] < scan.cursor
          PROVE  Passed(m)'
      <3>1. sentAt[m] = sentAt'[m]
        BY <1>b, <2>1, <2>3, NoneBehind
      <3> QED BY <1>c, <2>3, <3>1, PassedKept
    <2> QED BY <1>d, <2>2, <2>3
  <1>f. ASSUME scan'.cursor = scan.cursor, jobs' = jobs PROVE Fresh'
    BY <1>b, <1>f, <1>r
  <1>1. CASE discoverGate
    <2>1. scan' = scan /\ jobs' = jobs
      BY <1>1 DEF discoverGate
    <2>2. Alone' /\ Ranged'
      BY <1>1, <1>a, GateTick
    <2> QED BY <1>d, <1>f, <1>u, <2>1, <2>2
  <1>2. CASE unclaimedMessages \/ discoverDone
    BY <1>2, <1>b DEF unclaimedMessages, discoverDone
  <1>3. CASE tickChain
    <2>1. jobs' = jobs
      BY <1>3 DEF tickChain
    <2>2. tick'.progress = NULL
      BY <1>3, <1>a, ChainTick
    <2>3. tick'.pc \notin {"gated", "claim", "logs", "scanClaim"}
      BY <1>3, ChainTick, RestingTick
    <2>4. scan'.cursor = scan.cursor
      BY <1>3, <1>a, ChainTick DEF Sound, Switched
    <2> QED BY <1>d, <1>f, <1>u, <2>1, <2>2, <2>3, <2>4
  <1>4. CASE setCursor
    <2>1. /\ tick.pc = "base" /\ jobs' = jobs /\ head' = head /\ sentAt' = sentAt
          /\ crashes' = crashes
      BY <1>4 DEF setCursor
    <2>2. /\ tick'.progress = NULL /\ tick'.pc = "head"
          /\ scan'.cursor \in 1..(MaxBlock + 1) /\ scan'.cursor # NULL
      BY <1>4, <1>b, CursorTick, DiscoveryAssumption
    <2>3. \A m \in Messages : sentAt[m] # NULL => ~(sentAt[m] < 1)
      BY DEF Sound, Chained
    <2>4. CASE scan'.cursor = 1
      BY <1>u, <2>1, <2>2, <2>3, <2>4
    <2>5. ASSUME jobs # Nothing,
                 NEW k \in Messages, jobs[k] # NULL, scan'.cursor = jobs[k] + 1
          PROVE  Bounded' /\ Covers'
      <3>1. scan'.cursor + Confirmations <= head' + 1
        BY <1>j, <1>h, <2>1, <2>5, DiscoveryAssumption
      <3>2. crashes > 0
        <4>1. scan.cursor = NULL
          BY <2>1 DEF Sound, Gated
        <4> QED BY <1>b, <1>r, <2>5, <4>1
      <3>3. ASSUME NEW m \in Messages, sentAt[m] # NULL, sentAt[m] < scan'.cursor
            PROVE  Passed(m)
        <4>1. sentAt[m] < jobs[k] \/ sentAt[m] = jobs[k]
          BY <1>j, <1>s, <2>5, <3>3
        <4>2. CASE sentAt[m] < jobs[k]
          BY <1>b, <2>5, <3>3, <4>2 DEF Upwards
        <4>3. CASE sentAt[m] = jobs[k]
          BY <3>2, <4>3 DEF Passed
        <4> QED BY <4>1, <4>2, <4>3
      <3> QED BY <2>1, <3>1, <3>3, PassedKept
    <2>6. CASE jobs = Nothing
      BY <1>4, <1>b, <2>4, <2>6, CursorTick DEF Nothing
    <2>7. CASE jobs # Nothing
      <3>1. PICK k \in Messages : jobs[k] # NULL /\ scan'.cursor = jobs[k] + 1
        BY <1>4, <1>b, <2>7, CursorTick
      <3> QED BY <1>u, <2>1, <2>2, <2>5, <2>7, <3>1
    <2> QED BY <2>6, <2>7
  <1>5. CASE getBlockNumber
    <2>1. /\ scan' = scan /\ jobs' = jobs /\ sentAt' = sentAt /\ tick.pc = "head"
          /\ crashes' = crashes
      BY <1>5 DEF getBlockNumber
    <2>2. CASE tick' = Resting
      BY <1>d, <1>f, <1>u, <2>1, <2>2, RestingTick
    <2>3. CASE /\ tick'.pc = "logs" /\ tick'.progress = tick.progress
               /\ tick'.lo = scan.cursor /\ tick'.todo = tick.todo
      <3>1. scan.cursor # NULL /\ tick.todo = Nothing
        BY <2>1 DEF Sound, Gated
      <3>2. Read'
        BY <1>d, <2>1, <2>3, <3>1 DEF Read, Nothing
      <3> QED BY <1>b, <1>d, <1>f, <1>u, <2>1, <2>3, <3>2
    <2> QED BY <1>5, <2>2, <2>3, HeadTick DEF Sound
  <1>6. CASE getLogsChunked
    <2>1. scan' = scan /\ jobs' = jobs /\ sentAt' = sentAt /\ tick.pc = "logs"
      BY <1>6 DEF getLogsChunked
    <2>2. /\ tick' \in Tick /\ tick'.progress = NULL
          /\ tick'.pc \in {"logs", "scanClaim"} /\ tick'.lo > tick.lo
      BY <1>6, <1>b, LogsTick DEF Sound
    <2>3. tick.lo \in Nat /\ tick'.lo \in Nat
      BY <2>2 DEF TypeOK, Tick
    <2>4. ASSUME NEW m \in Messages
          PROVE  /\ tick'.todo[m] # NULL => tick'.todo[m] < tick'.lo
                 /\ sentAt[m] # NULL /\ sentAt[m] < tick'.lo =>
                      Passed(m) \/ tick'.todo[m] # NULL
      <3>1. tick'.todo[m] = IF sentAt[m] # NULL /\ sentAt[m] \in tick.lo..(tick'.lo - 1)
                            THEN sentAt[m] ELSE tick.todo[m]
        BY <1>6, LogsTick DEF Sound
      <3>2. /\ tick.todo[m] # NULL => tick.todo[m] < tick.lo /\ tick.todo[m] \in Nat
            /\ sentAt[m] # NULL /\ sentAt[m] < tick.lo => Passed(m) \/ tick.todo[m] # NULL
        BY <1>b, <2>1 DEF Read, TypeOK, Tick, Block, Blocks
      <3>3. CASE sentAt[m] # NULL /\ sentAt[m] \in tick.lo..(tick'.lo - 1)
        BY <2>3, <3>1, <3>3
      <3>4. CASE ~(sentAt[m] # NULL /\ sentAt[m] \in tick.lo..(tick'.lo - 1))
        <4>1. tick'.todo[m] = tick.todo[m]
          BY <3>1, <3>4
        <4>2. sentAt[m] # NULL /\ sentAt[m] < tick'.lo => sentAt[m] < tick.lo
          BY <1>s, <2>3, <3>4
        <4>3. tick.todo[m] # NULL => tick.todo[m] < tick'.lo
          BY <2>2, <2>3, <3>2
        <4> QED BY <3>2, <4>1, <4>2, <4>3
      <3> QED BY <3>3, <3>4
    <2>5. Read'
      BY <2>1, <2>4, PassedKept DEF Read
    <2> QED BY <1>d, <1>f, <1>u, <2>1, <2>2, <2>5
  <1>7. CASE scanDone
    <2>1. /\ tick' = Resting /\ tick.pc = "scanClaim" /\ scan'.cursor = tick.hi + 1
          /\ \A m \in Messages : tick.todo[m] = NULL
      BY <1>7, ScanTick
    <2>2. jobs' = jobs /\ sentAt' = sentAt /\ head' = head /\ crashes' = crashes
      BY <1>7 DEF scanDone
    <2>3. /\ tick.lo = tick.hi + 1 /\ tick.hi + Confirmations <= head
          /\ tick.hi \in Nat /\ head \in Nat
      BY <2>1 DEF Sound, Gated, TypeOK, Tick, Blocks
    <2>4. scan'.cursor + Confirmations <= head' + 1 /\ scan'.cursor # NULL
      BY <2>1, <2>2, <2>3, DiscoveryAssumption
    <2>5. \A m \in Messages : sentAt[m] # NULL /\ sentAt[m] < scan'.cursor => Passed(m)
      BY <1>b, <2>1, <2>3 DEF Read
    <2>6. Covers'
      BY <2>2, <2>5, PassedKept
    <2> QED BY <1>u, <2>1, <2>2, <2>4, <2>6, RestingTick
  <1>8. ASSUME NEW m \in Messages, claimMessage(m)
        PROVE  Alone' /\ Fresh' /\ Bounded' /\ Upwards' /\ Ranged' /\ Covers'
    <2>1. scan' = scan
      BY <1>8 DEF claimMessage
    <2>2. /\ tick'.progress = tick.progress /\ tick'.pc = tick.pc
          /\ tick.pc = "scanClaim"
      BY <1>8, <1>b, ClaimTick
    <2>3. scan.cursor # NULL
      BY <2>2 DEF Sound, Gated
    <2>4. Upwards' /\ Read'
      BY <1>8, <1>b, <2>2, ClaimUpwards
    <2> QED BY <1>b, <1>d, <2>1, <2>2, <2>3, <2>4
  <1>9. CASE AbortTick
    BY <1>9, <1>d, <1>f, <1>u, RestingTick DEF AbortTick
  <1>10. CASE Crash
    <2>1. crashes' > 0 /\ jobs' = jobs /\ scan'.cursor = NULL /\ tick' = Resting
      BY <1>10, <1>r DEF Crash, Inactive
    <2> QED BY <1>u, <2>1, RestingTick
  <1>11. CASE tick' = tick /\ scan' = scan /\ jobs' = jobs
    <2>1. ASSUME tick.pc \in {"logs", "scanClaim"}, NEW m \in Messages,
                 sentAt'[m] # NULL, sentAt'[m] < tick.lo
          PROVE  Passed(m)' \/ tick.todo[m] # NULL
      <3>1. tick.lo \in Nat /\ tick.hi \in Nat /\ head \in Nat
        BY DEF TypeOK, Tick, Blocks
      <3>2. tick.lo <= tick.hi + 1 /\ tick.hi + Confirmations <= head
        BY <2>1, <3>1 DEF Sound, Gated
      <3>3. tick.lo + Confirmations <= head + 1
        BY <3>1, <3>2, DiscoveryAssumption
      <3>4. sentAt[m] = sentAt'[m]
        BY <2>1, <3>1, <3>3, NoneBehind
      <3> QED BY <1>b, <2>1, <3>4, PassedKept DEF Read
    <2>2. Ranged'
      BY <1>b, <1>11, <2>1 DEF Read
    <2> QED BY <1>b, <1>d, <1>f, <1>u, <1>11, <2>2
  <1>12. CASE Environment \/ UNCHANGED vars
    BY <1>11, <1>12 DEF Environment, MineBlock, Elapse, Reorg, StartWatcher, StopWatcher,
       Index, vars
  <1> QED BY <1>1, <1>2, <1>3, <1>4, <1>5, <1>6, <1>7, <1>8, <1>9, <1>10, <1>12
       DEF Next, TickStep

-----------------------------------------------------------------------------
(* The theorems.                                                           *)

LEMMA InitInv == Init => Inv
  <1> SUFFICES ASSUME Init PROVE Inv
    OBVIOUS
  <1>1. TypeOK
    <2>1. /\ head \in Blocks /\ late \in 0..(ActivateAfter + 1) /\ NULL \in Block
          /\ crashes \in 0..MaxCrashes /\ failures \in 0..MaxFailures
      BY DiscoveryAssumption DEF Init, Block, Blocks, DeployBlock
    <2>2. up \in BOOLEAN
      BY DEF Init
    <2> QED BY <2>1, <2>2, RestingTick DEF Init, TypeOK
  <1>2. Sound
    BY DEF Init, Sound, Chained, Indexed, Gated, Switched, Settled, Nothing, Resting, Inactive
  <1>3. Scanned /\ ScanCovers
    BY DEF Init, Scanned, Upwards, ScanCovers, Nothing, Resting, Inactive
  <1> QED BY <1>1, <1>2, <1>3 DEF Inv

LEMMA Invariance == Spec => []Inv
  <1>1. TypeOK /\ Sound /\ [Next]_vars => Sound'
    BY ChainedStep, IndexedStep, GatedStep, SwitchedStep, TodoStep, JobsStep DEF Sound
  <1>2. Inv /\ [Next]_vars => Inv'
    BY <1>1, TypedStep, ScannedStep DEF Inv, Sound
  <1> QED BY <1>2, InitInv, PTL DEF Spec

\* The chain, the index, the scanner and the tick keep their types: cursor and
\* range stay within the chain, whatever depth, chunk size and faults.
THEOREM TypeCorrect == Spec => []TypeOK
  <1>1. Inv => TypeOK
    BY DEF Inv
  <1> QED BY <1>1, Invariance, PTL

\* discoverWork and FallbackScanner claim no message that a reorganisation of
\* up to Confirmations blocks can take away, however the awaits of a tick
\* interleave with the chain and the index.
THEOREM ClaimsAreFinal == Spec => []ClaimedFinal
  <1>1. Inv => ClaimedFinal
    BY DEF Inv, Sound, Settled, ClaimedFinal
  <1> QED BY <1>1, Invariance, PTL

\* FallbackScanner alone leaves no message behind its cursor, for any chunk size
\* and whatever calls failed; after a restart from maxSourceBlock, none but those
\* of a block of which another one was claimed.
THEOREM ScanLeavesNothing == Spec => []ScanCovers
  <1>1. Inv => ScanCovers
    BY DEF Inv
  <1> QED BY <1>1, Invariance, PTL

LEMMA Activation ==
  TypeOK /\ [Next]_vars =>
    [~scan.active /\ scan'.active => Stale(indexed) \/ tick'.progress # indexed]_vars
  <1> SUFFICES ASSUME TypeOK, [Next]_vars, ~scan.active, scan'.active
               PROVE  Stale(indexed) \/ tick'.progress # indexed
    OBVIOUS
  <1>1. CASE tickChain
    <2>1. scan' # Inactive /\ scan' # scan
      BY DEF Inactive
    <2>2. Stale(tick'.progress)
      BY <1>1, <2>1, ChainTick
    <2> QED BY <2>2
  <1>2. CASE setCursor \/ scanDone
    BY <1>2, CursorTick, ScanTick
  <1>3. CASE Crash
    BY <1>3 DEF Crash, Inactive
  <1>4. CASE UNCHANGED scan
    BY <1>4
  <1> QED BY <1>1, <1>2, <1>3, <1>4 DEF Next, TickStep, discoverGate, unclaimedMessages,
       discoverDone, getBlockNumber, getLogsChunked, claimMessage, AbortTick, Environment,
       MineBlock, Elapse, Reorg, StartWatcher, StopWatcher, Index, vars

\* tickChain switches the scanner on only when the index it was told of is
\* stale: no getLogs while the watcher is healthy.
THEOREM ActivationNeedsStaleness == Spec => ActivatesOnlyWhenStale
  BY TypeCorrect, Activation, PTL DEF Spec, ActivatesOnlyWhenStale
=============================================================================
