--------------------------- MODULE MessageDiscovery ---------------------------
(***************************************************************************)
(* How MessageSent events of one source chain become job rows: the chain   *)
(* with its reorganisations, the watcher's index with its checkpoint, the  *)
(* confirmation-gated discovery tick (work-discovery.ts) and the fallback  *)
(* scanner (fallback-scanner.ts).  Both feed claimMessage; what happens to *)
(* the rows afterwards is CctpJobs.                                        *)
(*                                                                         *)
(* Block b carries timestamp b and late is the time since the head was     *)
(* mined, so that freshness = now - timestamp of the last indexed block.   *)
(***************************************************************************)
EXTENDS Integers, FiniteSets

CONSTANTS
  Messages,               \* MessageSent events, named by dedupKey
  NULL,
  MaxBlock,               \* bound: the chain ends here
  Confirmations,
  ReorgDepth,             \* how many blocks a reorganisation replaces at most
  ActivateAfter,          \* FALLBACK_ACTIVATE_AFTER_MS
  ChunkSize,              \* FALLBACK_CHUNK_SIZE
  DISCOVERY_BATCH_LIMIT,
  StartLatest,            \* cctpStartBlock "latest", or the deploy block
  Faults,
  MaxCrashes,             \* bound: how often the actor dies
  MaxFailures             \* bound: how often a call fails, and the tick with it

ASSUME DiscoveryAssumption ==
  /\ MaxBlock \in Nat /\ Confirmations \in Nat /\ ActivateAfter \in Nat
  /\ ReorgDepth \in 0..Confirmations
  /\ ChunkSize \in Nat \ {0} /\ DISCOVERY_BATCH_LIMIT \in Nat \ {0}
  /\ StartLatest \in BOOLEAN /\ MaxCrashes \in Nat /\ MaxFailures \in Nat
  /\ Faults \subseteq {"throw", "progressError", "watcherDown"}
  /\ NULL \notin Nat

VARIABLES
  head, late,      \* the chain's last block and the time since
  sentAt,          \* Messages -> block of the canonical chain, or NULL
  up, from,        \* is the watcher running; its first block, or NULL
  rows, indexed,   \* cctp_message_sent rows; the checkpoint, or NULL
  jobs,            \* Messages -> source_block of the job row, or NULL
  scan,            \* ChainScanState: active, cursor
  tick,            \* the job tick: pc, progress read, range, messages in hand
  crashes, failures

vars == <<head, late, sentAt, up, from, rows, indexed, jobs, scan, tick, crashes,
          failures>>
chainVars == <<head, late, sentAt>>
watcherVars == <<up, from, rows, indexed>>

Blocks == 0..MaxBlock
Block == Blocks \union {NULL}
DeployBlock == 0

Pcs == {"idle", "gated", "claim", "scan", "base", "head", "logs", "scanClaim"}
Tick == [pc : Pcs, progress : Block, lo : 0..(MaxBlock + 1), hi : Blocks,
         todo : [Messages -> Block]]
ChainScanState == [active : BOOLEAN, cursor : 1..(MaxBlock + 1) \union {NULL}]

Nothing == [m \in Messages |-> NULL]
Inactive == [active |-> FALSE, cursor |-> NULL]
Resting == [pc |-> "idle", progress |-> NULL, lo |-> 0, hi |-> 0,
            todo |-> Nothing]

InHand == {m \in Messages : tick.todo[m] # NULL}

\* What watcherProgress answers: the checkpoint, or nothing when the view is
\* missing or the query fails.
watcherProgress(p) ==
  \/ p = indexed /\ UNCHANGED failures
  \/ /\ "progressError" \in Faults /\ failures < MaxFailures
     /\ p = NULL
     /\ failures' = failures + 1

freshness(progress) == (head - progress) + late
Stale(progress) == progress # NULL => freshness(progress) > ActivateAfter
-----------------------------------------------------------------------------
(* discoverWork                                                            *)

\* Mutant: whatever is indexed is claimed, confirmed or not.
discoverGate_Unconfirmed ==
  /\ tick.pc = "idle"
  /\ \E p \in Block :
       /\ watcherProgress(p)
       /\ tick' = IF p = NULL THEN [Resting EXCEPT !.pc = "scan"]
                  ELSE [Resting EXCEPT !.pc = "gated", !.hi = p]
  /\ UNCHANGED <<chainVars, watcherVars, jobs, scan, crashes>>

\* The confirmation gate; without progress there is nothing to discover.
discoverGate ==
  /\ tick.pc = "idle"
  /\ \E p \in Block :
       /\ watcherProgress(p)
       /\ tick' = IF p # NULL => p < Confirmations
                  THEN [Resting EXCEPT !.pc = "scan"]
                  ELSE [Resting EXCEPT !.pc = "gated", !.hi = p - Confirmations]
  /\ UNCHANGED <<chainVars, watcherVars, jobs, scan, crashes>>

\* ORDER BY block_number LIMIT n; ties fall either way.
FirstRows(S, n) ==
  {T \in SUBSET S :
     /\ Cardinality(T) = IF Cardinality(S) < n THEN Cardinality(S) ELSE n
     /\ \A x \in T, y \in S \ T : rows[x] <= rows[y]}

\* Mutant: the block at the gate itself is left out.
unclaimedMessages_Strict ==
  /\ tick.pc = "gated"
  /\ \E T \in FirstRows({m \in Messages : /\ jobs[m] = NULL /\ rows[m] # NULL
                                          /\ rows[m] < tick.hi},
                        DISCOVERY_BATCH_LIMIT) :
       tick' = [tick EXCEPT !.pc = "claim",
                  !.todo = [m \in Messages |-> IF m \in T THEN rows[m] ELSE NULL]]
  /\ UNCHANGED <<chainVars, watcherVars, jobs, scan, crashes, failures>>

unclaimedMessages ==
  /\ tick.pc = "gated"
  /\ \E T \in FirstRows({m \in Messages : /\ jobs[m] = NULL /\ rows[m] # NULL
                                          /\ rows[m] <= tick.hi},
                        DISCOVERY_BATCH_LIMIT) :
       tick' = [tick EXCEPT !.pc = "claim",
                  !.todo = [m \in Messages |-> IF m \in T THEN rows[m] ELSE NULL]]
  /\ UNCHANGED <<chainVars, watcherVars, jobs, scan, crashes, failures>>

\* insertIfAbsent of one message of the batch, in block order.
claimMessage(m) ==
  /\ tick.pc \in {"claim", "scanClaim"} /\ m \in InHand
  /\ \A k \in InHand : tick.todo[m] <= tick.todo[k]
  /\ jobs' = [jobs EXCEPT ![m] = IF @ = NULL THEN tick.todo[m] ELSE @]
  /\ tick' = [tick EXCEPT !.todo[m] = NULL]
  /\ UNCHANGED <<chainVars, watcherVars, scan, crashes, failures>>

\* Discovery is over; the state ticks run (CctpJobs), then the scanner.
discoverDone ==
  /\ tick.pc = "claim" /\ InHand = {}
  /\ tick' = [Resting EXCEPT !.pc = "scan"]
  /\ UNCHANGED <<chainVars, watcherVars, jobs, scan, crashes, failures>>
-----------------------------------------------------------------------------
(* FallbackScanner.tickChain                                               *)

caughtUp(p) ==
  /\ ~Stale(p)
  /\ scan.cursor # NULL => p >= scan.cursor

\* On to the scan, by way of maxSourceBlock when there is no cursor yet.
GoOn(p, cursor) ==
  tick' = [Resting EXCEPT !.progress = p,
                          !.pc = IF cursor = NULL THEN "base" ELSE "head"]

\* Mutant: the scanner comes in one step early.
tickChain_Early ==
  /\ tick.pc = "scan"
  /\ \E p \in Block :
       /\ watcherProgress(p)
       /\ \/ scan.active /\ caughtUp(p) /\ scan' = Inactive /\ tick' = Resting
          \/ scan.active /\ ~caughtUp(p) /\ UNCHANGED scan /\ GoOn(p, scan.cursor)
          \/ /\ ~scan.active /\ ~Stale(p) /\ freshness(p) < ActivateAfter
             /\ tick' = Resting /\ UNCHANGED scan
          \/ /\ ~scan.active /\ (~Stale(p) => freshness(p) = ActivateAfter)
             /\ scan' = [active |-> TRUE, cursor |-> NULL] /\ GoOn(p, NULL)
  /\ UNCHANGED <<chainVars, watcherVars, jobs, crashes>>

tickChain ==
  /\ tick.pc = "scan"
  /\ \E p \in Block :
       /\ watcherProgress(p)
       /\ \/ scan.active /\ caughtUp(p) /\ scan' = Inactive /\ tick' = Resting
          \/ scan.active /\ ~caughtUp(p) /\ UNCHANGED scan /\ GoOn(p, scan.cursor)
          \/ ~scan.active /\ ~Stale(p) /\ tick' = Resting /\ UNCHANGED scan
          \/ /\ ~scan.active /\ Stale(p)
             /\ scan' = [active |-> TRUE, cursor |-> NULL] /\ GoOn(p, NULL)
  /\ UNCHANGED <<chainVars, watcherVars, jobs, crashes>>

maxSourceBlock ==
  LET claimed == {jobs[m] : m \in {k \in Messages : jobs[k] # NULL}}
  IN IF claimed = {} THEN NULL
     ELSE CHOOSE b \in claimed : \A c \in claimed : c <= b

\* Mutant: the scan starts over at the last block already done.
setCursor_NoIncrement ==
  /\ tick.pc = "base"
  /\ scan' = [scan EXCEPT !.cursor = IF tick.progress # NULL THEN tick.progress
                                    ELSE DeployBlock]
  /\ tick' = [tick EXCEPT !.pc = "head"]
  /\ UNCHANGED <<chainVars, watcherVars, jobs, crashes, failures>>

\* The cursor: last indexed block, else highest claimed block, else deploy.
setCursor ==
  LET base == IF tick.progress # NULL THEN tick.progress
              ELSE IF maxSourceBlock # NULL THEN maxSourceBlock
              ELSE DeployBlock
  IN
  /\ tick.pc = "base"
  /\ scan' = [scan EXCEPT !.cursor = base + 1]
  /\ tick' = [tick EXCEPT !.pc = "head"]
  /\ UNCHANGED <<chainVars, watcherVars, jobs, crashes, failures>>

getBlockNumber ==
  LET safeHead == head - Confirmations IN
  /\ tick.pc = "head"
  /\ tick' = IF scan.cursor > safeHead THEN Resting
             ELSE [tick EXCEPT !.pc = "logs", !.lo = scan.cursor, !.hi = safeHead]
  /\ UNCHANGED <<chainVars, watcherVars, jobs, scan, crashes, failures>>

\* Mutant: the next chunk starts one block too far.
getLogsChunked_OffByOne ==
  LET end == IF tick.lo + ChunkSize - 1 < tick.hi
             THEN tick.lo + ChunkSize - 1 ELSE tick.hi
  IN
  /\ tick.pc = "logs"
  /\ tick' = [tick EXCEPT
       !.todo = [m \in Messages |->
         IF sentAt[m] # NULL /\ sentAt[m] \in tick.lo..end THEN sentAt[m] ELSE @[m]],
       !.lo = end + 2,
       !.pc = IF end + 2 > tick.hi THEN "scanClaim" ELSE "logs"]
  /\ UNCHANGED <<chainVars, watcherVars, jobs, scan, crashes, failures>>

\* One chunk of the range, bisected as the provider demands.
getLogsChunked ==
  LET end == IF tick.lo + ChunkSize - 1 < tick.hi
             THEN tick.lo + ChunkSize - 1 ELSE tick.hi
  IN
  /\ tick.pc = "logs"
  /\ tick' = [tick EXCEPT
       !.todo = [m \in Messages |->
         IF sentAt[m] # NULL /\ sentAt[m] \in tick.lo..end THEN sentAt[m] ELSE @[m]],
       !.lo = end + 1,
       !.pc = IF end + 1 > tick.hi THEN "scanClaim" ELSE "logs"]
  /\ UNCHANGED <<chainVars, watcherVars, jobs, scan, crashes, failures>>

\* The cursor moves once every log of the range has been claimed.
scanDone ==
  /\ tick.pc = "scanClaim" /\ InHand = {}
  /\ scan' = [scan EXCEPT !.cursor = tick.hi + 1]
  /\ tick' = Resting
  /\ UNCHANGED <<chainVars, watcherVars, jobs, crashes, failures>>
-----------------------------------------------------------------------------
(* Failures of the actor.                                                  *)

\* A query or RPC call throws: the tick ends, the scanner keeps its state.
AbortTick ==
  /\ "throw" \in Faults /\ failures < MaxFailures
  /\ tick.pc # "idle"
  /\ tick' = Resting
  /\ failures' = failures + 1
  /\ UNCHANGED <<chainVars, watcherVars, jobs, scan, crashes>>

Crash ==
  /\ crashes < MaxCrashes
  /\ crashes' = crashes + 1
  /\ tick' = Resting /\ scan' = Inactive
  /\ UNCHANGED <<chainVars, watcherVars, jobs, failures>>
-----------------------------------------------------------------------------
(* The chain and the watcher.                                              *)

MineBlock ==
  /\ head < MaxBlock
  /\ head' = head + 1 /\ late' = 0
  /\ \E S \in SUBSET {m \in Messages : sentAt[m] = NULL} :
       sentAt' = [m \in Messages |-> IF m \in S THEN head + 1 ELSE sentAt[m]]
  /\ UNCHANGED <<watcherVars, jobs, scan, tick, crashes, failures>>

Elapse ==
  /\ late <= ActivateAfter
  /\ late' = late + 1
  /\ UNCHANGED <<head, sentAt, watcherVars, jobs, scan, tick, crashes, failures>>

\* Up to ReorgDepth blocks are replaced by as many others; a message in them
\* is gone, or comes back in one of the new blocks.
Reorg ==
  \E first \in (head - ReorgDepth + 1)..head :
    /\ first > DeployBlock
    /\ \E m \in Messages :
         /\ sentAt[m] # NULL /\ sentAt[m] >= first
         /\ \E b \in (first..head) \union {NULL} : sentAt' = [sentAt EXCEPT ![m] = b]
    /\ UNCHANGED <<head, late, watcherVars, jobs, scan, tick, crashes, failures>>

\* "latest" is the head the first time the watcher comes up.
StartWatcher ==
  /\ ~up
  /\ up' = TRUE
  /\ from' = IF from # NULL THEN from ELSE IF StartLatest THEN head ELSE DeployBlock
  /\ UNCHANGED <<chainVars, rows, indexed, jobs, scan, tick, crashes, failures>>

StopWatcher ==
  /\ "watcherDown" \in Faults
  /\ up
  /\ up' = FALSE
  /\ UNCHANGED <<chainVars, from, rows, indexed, jobs, scan, tick, crashes, failures>>

\* The index follows the canonical chain up to some block and reconciles
\* what a reorganisation changed below it; pools may hold the checkpoint back.
Index ==
  /\ up
  /\ \E b \in (IF indexed = NULL THEN DeployBlock ELSE indexed)..head :
       /\ indexed' = b
       /\ rows' = [m \in Messages |->
            IF sentAt[m] # NULL /\ sentAt[m] \in from..b THEN sentAt[m] ELSE NULL]
  /\ UNCHANGED <<chainVars, up, from, jobs, scan, tick, crashes, failures>>
-----------------------------------------------------------------------------
Init ==
  /\ head = DeployBlock /\ late = 0 /\ sentAt = Nothing
  /\ up = FALSE /\ from = NULL /\ rows = Nothing /\ indexed = NULL
  /\ jobs = Nothing /\ scan = Inactive /\ tick = Resting
  /\ crashes = 0 /\ failures = 0

TickStep ==
  \/ discoverGate \/ unclaimedMessages \/ discoverDone
  \/ tickChain \/ setCursor \/ getBlockNumber \/ getLogsChunked \/ scanDone
  \/ \E m \in Messages : claimMessage(m)

Environment == MineBlock \/ Elapse \/ Reorg \/ StartWatcher \/ StopWatcher \/ Index

Next == TickStep \/ AbortTick \/ Crash \/ Environment

\* The timer keeps ticks coming and every await returns or throws, of which
\* MaxFailures makes an end; blocks are mined, time passes.
TickFairness == WF_vars(TickStep) /\ WF_vars(MineBlock) /\ WF_vars(Elapse)

\* The watcher is restarted (compose: unless-stopped) and gets to index.
WatcherFairness == WF_vars(StartWatcher) /\ SF_vars(Index)

Spec == Init /\ [][Next]_vars
WatchedSpec == Spec /\ TickFairness /\ WatcherFairness
UnwatchedSpec == Spec /\ TickFairness
-----------------------------------------------------------------------------
(* Properties.                                                             *)

\* Type invariant of the chain, the index, the scanner and the tick.
TypeOK ==
  /\ head \in Blocks /\ late \in 0..(ActivateAfter + 1)
  /\ sentAt \in [Messages -> Block]
  /\ up \in BOOLEAN /\ from \in Block
  /\ rows \in [Messages -> Block] /\ indexed \in Block
  /\ jobs \in [Messages -> Block]
  /\ scan \in ChainScanState /\ tick \in Tick
  /\ crashes \in 0..MaxCrashes /\ failures \in 0..MaxFailures

\* No job is ever claimed for a message that a reorganisation can still take
\* away or move: whichever of discovery and the scanner claimed it, it stands
\* in the canonical chain at the recorded block (the two confirmation gates).
ClaimedFinal ==
  \A m \in Messages : jobs[m] # NULL => sentAt[m] = jobs[m]

\* While the watcher has never run, the scanner leaves no message behind its
\* cursor, whatever calls failed on the way.  A restart makes it start over after
\* the highest claimed block (maxSourceBlock), and all that it can leave behind
\* then are messages of a block of which another one was claimed.
ScanCovers ==
  indexed = NULL /\ scan.cursor # NULL =>
    \A m \in Messages :
      sentAt[m] # NULL /\ sentAt[m] < scan.cursor =>
        \/ jobs[m] # NULL
        \/ crashes > 0 /\ \E k \in Messages : jobs[k] = sentAt[m]

\* "NO getLogs while watcher healthy": the scanner is switched on only when
\* the watcher's index really is stale, or could not be asked for.
ActivatesOnlyWhenStale ==
  [][~scan.active /\ scan'.active =>
       Stale(indexed) \/ tick'.progress # indexed]_vars

\* Every message that gets its confirmations is claimed, through the index or
\* through the scanner.
EverySentClaimed ==
  \A m \in Messages :
    sentAt[m] # NULL ~> \/ jobs[m] # NULL \/ sentAt[m] = NULL
                        \/ sentAt[m] > MaxBlock - Confirmations
=============================================================================
