------------------------------ MODULE EventFeeds ------------------------------
(***************************************************************************)
(* The watcher's read API over one event stream: the row-paged endpoints   *)
(* (/v1/commitments, /v1/nullifiers, /v1/logs), the block-windowed         *)
(* /v1/quick-sync and the caller-windowed /v2/quick-sync, as one consumer  *)
(* that walks the stream sees them, while the index advances and the chain *)
(* reorganises.  A handler reads the checkpoint, awaits, and then reads    *)
(* the rows; a response marked immutable may be served for a day by any    *)
(* cache in between.  An event is a log with several elements: what a      *)
(* consumer gets of it are its leaves at their places in the tree, its     *)
(* nullifiers or its withdrawal.  The tables have one row per log, that of *)
(* the nullifiers one row per nullifier of a log.                          *)
(***************************************************************************)
EXTENDS Integers, FiniteSets

CONSTANTS
  Events,          \* events 1..n, in log order within a block
  Streams,         \* endpoints with what the events are: functions Events -> Log
  NULL,
  MaxBlock,        \* bound: the chain ends here
  Confirmations,
  ReorgDepth,
  MAX_LIMIT,       \* rows in a page, at most
  Window           \* QUICK_SYNC_MAX_BLOCK_WINDOW

\* The logs of the hub pool.  size counts a log's commitments or nullifiers, and
\* is 1 for the others; the commitments of a Shield may be of a token that is no
\* ERC20.  A CrossChainUnshieldInitiated is indexed, and decoded by no quick-sync.
Decoded == {"Shield", "Transact", "Nullified", "Unshield"}
Kinds == Decoded \union {"CrossChainUnshieldInitiated"}
Log == [kind : Kinds, size : Nat \ {0}, erc20 : BOOLEAN]

\* /v1/quick-sync is "sync", /v2/quick-sync "native".
PagedEndpoints == {"commitments", "nullifiers", "logs"}
Endpoints == PagedEndpoints \union {"sync", "native"}

ASSUME FeedAssumption ==
  /\ Events \subseteq Nat /\ IsFiniteSet(Events)
  /\ MaxBlock \in Nat /\ Confirmations \in Nat
  /\ ReorgDepth \in 0..Confirmations
  /\ MAX_LIMIT \in Nat \ {0} /\ Window \in Nat \ {0}
  /\ NULL \notin Nat
  /\ Streams \subseteq Endpoints \X [Events -> Log]

VARIABLES
  endpoint, log,      \* what the consumer walks, and what the events are
  head, blockOf,      \* the canonical chain: Events -> block, or NULL
  rows, indexed,      \* what the watcher has indexed; its checkpoint or NULL
  cursor, got,        \* the consumer: next block, and the Items it has
  request,            \* the handler at work, or NULL
  frozen,             \* an immutable response some cache keeps, or NULL
  reorged,            \* history: has the chain reorganised
  emptied,            \* history: blocks an empty /v1/quick-sync page named
  filled              \* history: the logs a full page ended in

vars == <<endpoint, log, head, blockOf, rows, indexed, cursor, got, request, frozen,
          reorged, emptied, filled>>
chain == <<endpoint, log, head, blockOf, reorged>>
index == <<rows, indexed>>

Paged == endpoint \in PagedEndpoints

Blocks == 0..MaxBlock
Least(a, b) == IF a < b THEN a ELSE b
-----------------------------------------------------------------------------
(* The tables, and the pages of them.                                      *)

Commits(e) == log[e].kind \in {"Shield", "Transact"}

leaves(e) == {e} \X (0..(log[e].size - 1))

\* The rows <<log, number>> of a log in the table the endpoint reads:
\* commitment_batch, nullifier or raw_event_log.
rowsOf(e) ==
  CASE endpoint = "commitments" -> IF Commits(e) THEN {<<e, 0>>} ELSE {}
    [] endpoint = "nullifiers"  -> IF log[e].kind = "Nullified" THEN leaves(e) ELSE {}
    [] OTHER                    -> {<<e, 0>>}

\* ORDER BY block_number, log_index: the rows of one log are not ordered.
Before(table, e, f) == table[e] < table[f] \/ (table[e] = table[f] /\ e < f)

InRange(table, lo, hi) ==
  {e \in Events : table[e] # NULL /\ table[e] >= lo /\ (hi # NULL => table[e] <= hi)}

rowsInRange(table, lo, hi) == UNION {rowsOf(e) : e \in InRange(table, lo, hi)}

\* What a query may answer: the first limit rows of a range, or all of them.
Pages(table, lo, hi, limit) ==
  LET S == rowsInRange(table, lo, hi)
  IN {P \in SUBSET S :
        /\ \A x \in P, y \in S : Before(table, y[1], x[1]) => y \in P
        /\ P # S => limit # NULL /\ Cardinality(P) = limit
        /\ limit # NULL => Cardinality(P) <= limit}

logsOf(items) == {x[1] : x \in items}
-----------------------------------------------------------------------------
(* The decoders.                                                           *)

\* The contract's startPosition: the leaves inserted before.
startPosition(table, e) ==
  Cardinality(UNION {leaves(f) : f \in
    {g \in Events : table[g] # NULL /\ Commits(g) /\ Before(table, g, e)}})

\* Mutant: a log with several commitments puts them all at its start.
element_AtStart(e, i) ==
  [event |-> e, index |-> i, block |-> rows[e],
   position |-> IF Commits(e) THEN startPosition(rows, e) ELSE NULL]

\* A commitment is the leaf at startPosition + i.
element(e, i) ==
  [event |-> e, index |-> i, block |-> rows[e],
   position |-> IF Commits(e) THEN startPosition(rows, e) + i ELSE NULL]

\* One element per commitment or nullifier.
elementsOf(e) == {element(e, i) : i \in 0..(log[e].size - 1)}

decodeOnly(kinds, logs) ==
  UNION {elementsOf(e) : e \in {f \in logs : log[f].kind \in kinds}}

\* /v1: Shield and Transact in one pass, then nullifiers and unshields.
quickSync(logs) ==
  decodeOnly({"Shield", "Transact"}, logs)
    \union decodeOnly({"Nullified"}, logs) \union decodeOnly({"Unshield"}, logs)

\* /v2: four flat lists.
serializeNativeQuickSync(logs) ==
  UNION {decodeOnly({k}, logs) : k \in Decoded}

\* A Shield of no ERC20 token throws in both.
unsupported(logs) ==
  ~Paged /\ \E e \in logs : log[e].kind = "Shield" /\ ~log[e].erc20

\* What the consumer takes from a response: the nullifiers of its rows, or what it
\* decodes from the raw logs of the other pages.
served(items) ==
  CASE endpoint = "nullifiers"             -> {element(x[1], x[2]) : x \in items}
    [] endpoint \in {"commitments", "logs"} -> UNION {elementsOf(e) : e \in logsOf(items)}
    [] endpoint = "sync"                   -> quickSync(logsOf(items))
    [] endpoint = "native"                 -> serializeNativeQuickSync(logsOf(items))
-----------------------------------------------------------------------------
(* The handlers.                                                           *)

\* What the query may ask for: an open or a closed range from the consumer's
\* cursor (parseRangeParams), quick-sync the start alone, /v2 a closed range.
Ends ==
  CASE Paged -> (cursor..MaxBlock) \union {NULL}
    [] endpoint = "sync" -> {NULL}
    [] endpoint = "native" -> cursor..MaxBlock

\* The rows it asks for in a page; the quick-syncs have no limit.
Limits == IF Paged THEN 1..MAX_LIMIT ELSE {NULL}

receive ==
  /\ request = NULL /\ cursor <= MaxBlock
  /\ \E to \in Ends, limit \in Limits :
       request' = [stage |-> "through", from |-> cursor, to |-> to, limit |-> limit,
                   through |-> NULL]
  /\ UNCHANGED <<chain, index, cursor, got, frozen, emptied, filled>>

\* Mutant: a consumer at the last indexed block counts as past it.
PastIndex_AtHead(through) == through # NULL => request.from >= through

\* Nothing indexed yet, or the caller is past it.
PastIndex(through) == through # NULL => request.from > through

\* The block an empty answer names as served (/v1) or synced (/v2) through.
emptyThrough ==
  IF endpoint = "sync" THEN request.from
  ELSE IF request.from = 0 THEN 0 ELSE request.from - 1

\* Both quick-syncs close their window at what is indexed.
windowEnd(through) ==
  IF endpoint = "sync" THEN Least(through, request.from + Window - 1)
  ELSE Least(through, request.to)

\* The handler has through for the checkpoint.  The quick-syncs answer an empty
\* page to a consumer past it, who goes on behind the block it names.
ReadThrough(through) ==
  /\ request # NULL /\ request.stage = "through"
  /\ \/ /\ Paged
        /\ request' = [request EXCEPT !.stage = "rows", !.through = through]
        /\ UNCHANGED <<cursor, emptied>>
     \/ /\ ~Paged /\ PastIndex(through)
        /\ request' = NULL
        /\ cursor' = IF emptyThrough < cursor THEN cursor ELSE emptyThrough + 1
        /\ emptied' = IF endpoint = "sync" THEN emptied \union {emptyThrough}
                      ELSE emptied
     \/ /\ ~Paged /\ ~PastIndex(through)
        /\ request' = [request EXCEPT !.stage = "rows", !.through = through,
                                      !.to = windowEnd(through)]
        /\ UNCHANGED <<cursor, emptied>>
  /\ UNCHANGED <<chain, index, got, frozen, filled>>

indexedThrough == ReadThrough(indexed)

\* The query of the checkpoint fails, and is taken for an empty table.
watcherProgressFails == ReadThrough(NULL)

\* Mutant: a range counts as historical as soon as it is indexed.
cacheControlFor_Indexed(to, through) ==
  to # NULL /\ through # NULL /\ to <= through

\* TRUE for "immutable": a closed range under the confirmations.
cacheControlFor(to, through) ==
  to # NULL /\ through # NULL /\ to <= through - Confirmations

\* The log of the last row.
lastLog(items) ==
  CHOOSE e \in logsOf(items) : \A f \in logsOf(items) \ {e} : Before(rows, f, e)

\* The page is full.
Full(items) == Paged /\ Cardinality(items) >= request.limit

\* Next block to request when the page filled, else null.
nextCursorOf(items) == IF Full(items) THEN rows[lastLog(items)] + 1 ELSE NULL

\* Where the consumer goes on: nextCursor, else behind what was covered.
Resume(items) ==
  LET to == request.to
      through == request.through
      covered == IF to = NULL THEN through
                 ELSE IF through = NULL THEN NULL ELSE Least(to, through)
  IN IF nextCursorOf(items) # NULL THEN nextCursorOf(items)
     ELSE IF covered = NULL \/ covered < cursor THEN cursor ELSE covered + 1

\* Answer a request with these rows.
Answer(items, resume) ==
  /\ ~unsupported(logsOf(items))
  /\ got' = got \union served(items)
  /\ cursor' = resume
  /\ filled' = IF Full(items) THEN filled \union {lastLog(items)} ELSE filled
  /\ \/ /\ cacheControlFor(request.to, request.through)
        /\ frozen' = [from |-> request.from, to |-> request.to, limit |-> request.limit,
                      items |-> items]
     \/ UNCHANGED frozen
  /\ request' = NULL
  /\ UNCHANGED <<chain, index, emptied>>

\* The rows that may be answered now.
Answers ==
  IF request # NULL /\ request.stage = "rows"
  THEN Pages(rows, request.from, request.to, request.limit) ELSE {}

\* Mutant: the block behind the covered ones is skipped.
respond_Skips == \E items \in Answers : Answer(items, Resume(items) + 1)

\* Rows, items, nextCursor and Cache-Control.  A cache may keep the answer.
respond == \E items \in Answers : Answer(items, Resume(items))

\* 500: the whole window fails, and the consumer will ask for it again.
decodeThrows ==
  /\ \E items \in Answers : unsupported(logsOf(items))
  /\ request' = NULL
  /\ UNCHANGED <<chain, index, cursor, got, frozen, emptied, filled>>
-----------------------------------------------------------------------------
(* The chain and Ponder's index.                                           *)

MineBlock ==
  /\ head < MaxBlock
  /\ head' = head + 1
  /\ \E S \in SUBSET {e \in Events : blockOf[e] = NULL} :
       blockOf' = [e \in Events |-> IF e \in S THEN head + 1 ELSE blockOf[e]]
  /\ UNCHANGED <<endpoint, log, reorged, index, cursor, got, request, frozen, emptied, filled>>

Reorg ==
  \E first \in (head - ReorgDepth + 1)..head, e \in Events :
    /\ first > 0 /\ blockOf[e] # NULL /\ blockOf[e] >= first
    /\ \E b \in (first..head) \union {NULL} : blockOf' = [blockOf EXCEPT ![e] = b]
    /\ reorged' = TRUE
    /\ UNCHANGED <<endpoint, log, head, index, cursor, got, request, frozen, emptied, filled>>

\* Handlers store the events up to some block, checkpoint with them, and undo
\* what a reorganisation took back.
Index ==
  /\ \E b \in (IF indexed = NULL THEN 0 ELSE indexed)..head :
       /\ indexed' = b
       /\ rows' = [e \in Events |->
            IF blockOf[e] # NULL /\ blockOf[e] <= b THEN blockOf[e] ELSE NULL]
  /\ UNCHANGED <<chain, cursor, got, request, frozen, emptied, filled>>
-----------------------------------------------------------------------------
Init ==
  /\ \E stream \in Streams : endpoint = stream[1] /\ log = stream[2]
  /\ reorged = FALSE /\ emptied = {} /\ filled = {}
  /\ head = 0 /\ blockOf = [e \in Events |-> NULL]
  /\ rows = [e \in Events |-> NULL] /\ indexed = NULL
  /\ cursor = 0 /\ got = {} /\ request = NULL /\ frozen = NULL

Next ==
  \/ receive \/ indexedThrough \/ watcherProgressFails \/ respond \/ decodeThrows
  \/ MineBlock \/ Reorg \/ Index

\* The checkpoint query does not fail every time.
Fairness ==
  /\ WF_vars(receive) /\ SF_vars(indexedThrough) /\ WF_vars(respond)
  /\ WF_vars(decodeThrows)
  /\ WF_vars(MineBlock) /\ WF_vars(Index)

Spec == Init /\ [][Next]_vars
FairSpec == Spec /\ Fairness
-----------------------------------------------------------------------------
(* Properties.                                                             *)

\* Type invariant of the chain, the index, the consumer and the handler.
TypeOK ==
  /\ <<endpoint, log>> \in Streams /\ reorged \in BOOLEAN
  /\ emptied \subseteq Blocks /\ filled \subseteq Events
  /\ head \in Blocks /\ blockOf \in [Events -> Blocks \union {NULL}]
  /\ rows \in [Events -> Blocks \union {NULL}] /\ indexed \in Blocks \union {NULL}
  /\ cursor \in 0..(MaxBlock + 1)
  /\ \A x \in got : x.event \in Events /\ x.block \in Blocks /\ x.index \in Nat
  /\ request # NULL =>
       request \in [stage : {"through", "rows"}, from : Blocks, to : Blocks \union {NULL},
                    limit : Limits, through : Blocks \union {NULL}]
  /\ frozen # NULL =>
       frozen \in [from : Blocks, to : Blocks, limit : Limits, items : SUBSET (Events \X Nat)]

\* A response marked immutable stays one of the canonical chain: for ever it is
\* what the table of the final chain answers for that range and limit, up to the
\* order inside one log, which the query leaves open. Neither indexing, nor a
\* reorganisation, nor the two reads of the handler falling apart can make it wrong
\* (cacheControlFor).
ImmutableIsFinal ==
  frozen # NULL =>
    frozen.items \in Pages(blockOf, frozen.from, frozen.to, frozen.limit)

\* The pages serve every log of their table, the quick-syncs what they decode.
Streamed(e) == rowsOf(e) # {} /\ (~Paged => log[e].kind \in Decoded)

Seen(e) == \A i \in 0..(log[e].size - 1) : \E x \in got : x.event = e /\ x.index = i

\* The two holes the cursors are known to leave: behind a full page the rest of the
\* block it ended in, which is the later logs and the rest of a log that has several
\* rows, as in /v1/nullifiers; and a block named by an empty /v1/quick-sync page.
KnownHole(e) ==
  \/ \E l \in filled :
       blockOf[l] = blockOf[e] /\ (l < e \/ (l = e /\ rowsOf(e) # {<<e, 0>>}))
  \/ endpoint = "sync" /\ blockOf[e] \in emptied

\* The tree the contract built: its leaves in the order of block, log and index.
\* The leaf (e, i) has as many before it as its position says.
leavesBefore(e, i) ==
  Cardinality({x \in UNION {leaves(f) : f \in Events} :
    /\ blockOf[x[1]] # NULL /\ Commits(x[1])
    /\ Before(blockOf, x[1], e) \/ (x[1] = e /\ x[2] < i)})

\* "Read endpoints serve full event streams from a cursor": on a chain that has
\* not reorganised, a consumer that follows the cursors of any endpoint has of
\* every log behind its own, the known holes excepted, every nullifier and
\* withdrawal, and every leaf at its place in the tree of the contract
\* (nextCursorOf, servedThroughBlock, syncedThroughBlock).
StreamComplete ==
  ~reorged =>
    \A e \in Events :
      Streamed(e) /\ blockOf[e] # NULL /\ blockOf[e] < cursor =>
        \/ KnownHole(e)
        \/ \A i \in 0..(log[e].size - 1) :
             \E x \in got :
               /\ x.event = e /\ x.index = i /\ x.block = blockOf[e]
               /\ Commits(e) => x.position = leavesBefore(e, i)

\* A consumer that keeps following the cursor gets every event, or falls into
\* a known hole, however far behind the head the index is kept; on a stream that
\* holds a shield the quick-syncs cannot decode it may stay before that one.
EveryEventServed ==
  \A e \in Events :
    Streamed(e) /\ blockOf[e] # NULL ~>
      Seen(e) \/ KnownHole(e) \/ reorged \/ unsupported(InRange(blockOf, 0, NULL))
=============================================================================
