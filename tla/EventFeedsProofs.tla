--------------------------- MODULE EventFeedsProofs ---------------------------
(* Proofs about EventFeeds, for any events, logs, page sizes, windows and      *)
(* reorganisations up to the confirmations.                                    *)
EXTENDS EventFeeds, FiniteSetTheorems, TLAPS

-----------------------------------------------------------------------------
(* The inductive invariant.                                                *)

\* Tables t and u have the same events at the same blocks up to b.
Agree(t, u, b) ==
  \A e \in Events :
    t[e] = u[e] \/ ((t[e] # NULL => t[e] > b) /\ (u[e] # NULL => u[e] > b))

\* The chain holds what it mined, the index what it read from it, and a
\* reorganisation reaches no deeper than ReorgDepth below the checkpoint.
Indexed ==
  /\ \A e \in Events : blockOf[e] # NULL => blockOf[e] \in 1..head
  /\ \A e \in Events : rows[e] # NULL => indexed # NULL /\ rows[e] <= indexed
  /\ indexed # NULL => indexed <= head /\ Agree(rows, blockOf, indexed - ReorgDepth)

\* The handler works for the consumer's cursor, with a checkpoint that may have
\* moved on since, and a quick-sync has closed its window under it.
Asked ==
  request # NULL =>
    /\ request.from = cursor
    /\ endpoint = "native" => request.to # NULL
    /\ request.stage = "rows" =>
         /\ request.through # NULL => indexed # NULL /\ request.through <= indexed
         /\ ~Paged =>
              /\ request.through # NULL /\ request.to # NULL
              /\ request.to <= request.through

Frozen ==
  frozen # NULL => indexed # NULL /\ frozen.to <= indexed - ReorgDepth

Served == TypeOK /\ Indexed /\ Asked /\ Frozen /\ ImmutableIsFinal

\* Without a reorganisation the index is a copy of the chain; the cursor has
\* passed indexed blocks only, and those an empty page named; what the consumer
\* has is where the chain has it.
Current == indexed # NULL => Agree(rows, blockOf, indexed)

Covered ==
  \A b \in 1..(cursor - 1) :
    (indexed # NULL /\ b <= indexed) \/ (endpoint = "sync" /\ b \in emptied)

Placed ==
  \A x \in got :
    /\ blockOf[x.event] # NULL /\ x.block = blockOf[x.event]
    /\ Commits(x.event) => x.position = leavesBefore(x.event, x.index)

Complete ==
  \A e \in Events :
    Streamed(e) /\ blockOf[e] # NULL /\ blockOf[e] < cursor => KnownHole(e) \/ Seen(e)

Streaming == ~reorged => Current /\ Covered /\ Placed /\ Complete

-----------------------------------------------------------------------------
(* Order and pages.                                                        *)

\* A non-empty finite set has a minimal element in every strict order.
LEMMA Minimal ==
  ASSUME NEW S, IsFiniteSet(S), S # {}, NEW R,
         \A e \in S : <<e, e>> \notin R,
         \A e, f, g \in S : <<e, f>> \in R /\ <<f, g>> \in R => <<e, g>> \in R
  PROVE  \E e \in S : \A f \in S : <<f, e>> \notin R
  <1> DEFINE below(e) == {f \in S : <<f, e>> \in R}
             size == [e \in S |-> Cardinality(below(e))]
             N == {size[e] : e \in S}
             Less == {ss \in Nat \X Nat : ss[1] < ss[2]}
  <1>1. IsWellFoundedOn(Less, Nat)
    BY NatLessThanWellFounded DEF OpToRel
  <1>2. \A e \in S : /\ IsFiniteSet(below(e)) /\ Cardinality(below(e)) \in Nat
                     /\ size[e] = Cardinality(below(e))
    BY FS_Subset, FS_CardinalityType
  <1> HIDE DEF size
  <1>3. N \subseteq Nat /\ N # {}
    <2>1. \A e \in S : size[e] \in Nat
      BY <1>2
    <2>2. PICK e \in S : TRUE
      OBVIOUS
    <2>3. size[e] \in N
      OBVIOUS
    <2> QED BY <2>1, <2>3
  <1>4. PICK n \in N : \A k \in N : <<k, n>> \notin Less
    <2> HIDE DEF N, Less
    <2> QED BY <1>1, <1>3, WFMin
  <1>5. PICK e \in S : n = size[e]
    OBVIOUS
  <1>6. ASSUME NEW f \in S, <<f, e>> \in R PROVE FALSE
    <2>1. below(f) \in SUBSET below(e) /\ f \in below(e) /\ f \notin below(f)
      BY <1>6
    <2>2. /\ Cardinality(below(f)) <= Cardinality(below(e))
          /\ Cardinality(below(f)) # Cardinality(below(e))
      <3> HIDE DEF below
      <3> QED BY <1>2, <2>1, FS_Subset
    <2> HIDE DEF below
    <2>3. size[f] \in Nat /\ size[e] \in Nat /\ size[f] < size[e] /\ size[f] \in N
      BY <1>2, <2>2
    <2> QED BY <1>4, <1>5, <2>3
  <1> QED BY <1>6

\* The events of a range are in one order.
LEMMA Ordered ==
  ASSUME NEW t, NEW S \in SUBSET Events, \A e \in S : t[e] \in Nat
  PROVE  /\ \A e \in S : ~Before(t, e, e)
         /\ \A e, f, g \in S : Before(t, e, f) /\ Before(t, f, g) => Before(t, e, g)
         /\ \A e, f \in S : e = f \/ Before(t, e, f) \/ Before(t, f, e)
  BY FeedAssumption DEF Before

LEMMA FirstAndLast ==
  ASSUME NEW t, NEW S \in SUBSET Events, S # {}, \A e \in S : t[e] \in Nat
  PROVE  /\ \E e \in S : \A f \in S : ~Before(t, f, e)
         /\ \E e \in S : \A f \in S \ {e} : Before(t, f, e)
  <1>1. IsFiniteSet(S)
    BY FeedAssumption, FS_Subset
  <1>2. /\ \A e \in S : ~Before(t, e, e)
        /\ \A e, f, g \in S : Before(t, e, f) /\ Before(t, f, g) => Before(t, e, g)
        /\ \A e, f \in S : e = f \/ Before(t, e, f) \/ Before(t, f, e)
    BY Ordered
  <1>3. \E e \in S : \A f \in S : ~Before(t, f, e)
    <2> DEFINE R == {x \in S \X S : Before(t, x[1], x[2])}
    <2>1. \A e, f \in S : <<e, f>> \in R <=> Before(t, e, f)
      OBVIOUS
    <2> HIDE DEF R
    <2>2. /\ \A e \in S : <<e, e>> \notin R
          /\ \A e, f, g \in S : <<e, f>> \in R /\ <<f, g>> \in R => <<e, g>> \in R
      BY <1>2, <2>1
    <2>3. \E e \in S : \A f \in S : <<f, e>> \notin R
      BY <1>1, <2>2, Minimal
    <2> QED BY <2>1, <2>3
  <1>4. \E e \in S : \A f \in S : ~Before(t, e, f)
    <2> DEFINE R == {x \in S \X S : Before(t, x[2], x[1])}
    <2>1. \A e, f \in S : <<e, f>> \in R <=> Before(t, f, e)
      OBVIOUS
    <2> HIDE DEF R
    <2>2. /\ \A e \in S : <<e, e>> \notin R
          /\ \A e, f, g \in S : <<e, f>> \in R /\ <<f, g>> \in R => <<e, g>> \in R
      BY <1>2, <2>1
    <2>3. \E e \in S : \A f \in S : <<f, e>> \notin R
      BY <1>1, <2>2, Minimal
    <2> QED BY <2>1, <2>3
  <1> QED BY <1>2, <1>3, <1>4

\* A page is a prefix of its range, and all of it when it is not full.
LEMMA PageRows ==
  ASSUME NEW t, NEW lo, NEW hi, NEW limit, NEW P \in Pages(t, lo, hi, limit)
  PROVE  /\ P \subseteq rowsInRange(t, lo, hi)
         /\ \A x \in P, y \in rowsInRange(t, lo, hi) : Before(t, y[1], x[1]) => y \in P
         /\ P # rowsInRange(t, lo, hi) => limit # NULL /\ Cardinality(P) = limit
  BY DEF Pages

\* The rows of a log, and those of a range.
LEMMA RowsOf ==
  ASSUME TypeOK, NEW e \in Events, NEW x \in rowsOf(e)
  PROVE  x[1] = e /\ x[2] \in 0..(log[e].size - 1) /\ x = <<e, x[2]>>
  <1>1. log[e].size \in Nat \ {0}
    BY FeedAssumption DEF TypeOK, Log
  <1>2. x = <<e, 0>> \/ x \in {e} \X (0..(log[e].size - 1))
    BY DEF rowsOf, leaves, TypeOK
  <1> QED BY <1>1, <1>2

LEMMA RangeRows ==
  ASSUME TypeOK, NEW t, NEW lo, NEW hi
  PROVE  /\ \A x \in rowsInRange(t, lo, hi) :
              /\ x[1] \in InRange(t, lo, hi) /\ x[1] \in Events /\ x \in rowsOf(x[1])
              /\ x \in Events \X Nat
         /\ \A e \in InRange(t, lo, hi) : rowsOf(e) \subseteq rowsInRange(t, lo, hi)
  <1>1. ASSUME NEW x \in rowsInRange(t, lo, hi)
        PROVE  /\ x[1] \in InRange(t, lo, hi) /\ x[1] \in Events /\ x \in rowsOf(x[1])
               /\ x \in Events \X Nat
    <2>1. PICK e \in InRange(t, lo, hi) : x \in rowsOf(e)
      BY <1>1 DEF rowsInRange
    <2>2. e \in Events
      BY DEF InRange
    <2>3. x[1] = e /\ x[2] \in 0..(log[e].size - 1) /\ x = <<e, x[2]>>
      BY <2>1, <2>2, RowsOf
    <2>4. log[e].size \in Nat
      BY <2>2, FeedAssumption DEF TypeOK, Log
    <2> QED BY <2>1, <2>2, <2>3, <2>4
  <1>2. \A e \in InRange(t, lo, hi) : rowsOf(e) \subseteq rowsInRange(t, lo, hi)
    BY DEF rowsInRange
  <1> QED BY <1>1, <1>2

\* Tables that agree up to the end of a range have the same pages of it.
LEMMA SamePages ==
  ASSUME TypeOK, NEW t \in [Events -> Blocks \union {NULL}],
         NEW u \in [Events -> Blocks \union {NULL}],
         NEW lo \in Nat, NEW hi \in Blocks, NEW b \in Int, hi <= b, Agree(t, u, b), NEW limit
  PROVE  Pages(t, lo, hi, limit) = Pages(u, lo, hi, limit)
  <1> DEFINE S == rowsInRange(t, lo, hi)
  <1>1. hi \in Nat /\ hi # NULL /\ \A e \in Events : /\ t[e] # NULL => t[e] \in Nat
                                                     /\ u[e] # NULL => u[e] \in Nat
    BY FeedAssumption DEF Blocks
  <1>2. ASSUME NEW e \in Events
        PROVE  /\ e \in InRange(t, lo, hi) <=> e \in InRange(u, lo, hi)
               /\ e \in InRange(t, lo, hi) => t[e] = u[e]
    BY <1>1 DEF InRange, Agree
  <1>3. InRange(u, lo, hi) = InRange(t, lo, hi)
    BY <1>2 DEF InRange
  <1>4. rowsInRange(u, lo, hi) = S
    BY <1>3 DEF rowsInRange
  <1>5. \A x, y \in S : Before(t, y[1], x[1]) <=> Before(u, y[1], x[1])
    <2>1. \A x \in S : x[1] \in Events /\ t[x[1]] = u[x[1]]
      BY <1>2, RangeRows
    <2> QED BY <2>1 DEF Before
  <1> HIDE DEF S
  <1>6. ASSUME NEW P \in SUBSET S
        PROVE  (\A x \in P, y \in S : Before(t, y[1], x[1]) => y \in P)
                 <=> (\A x \in P, y \in S : Before(u, y[1], x[1]) => y \in P)
    BY <1>5
  <1>7. /\ Pages(t, lo, hi, limit) =
             {P \in SUBSET S : /\ \A x \in P, y \in S : Before(t, y[1], x[1]) => y \in P
                               /\ P # S => limit # NULL /\ Cardinality(P) = limit
                               /\ limit # NULL => Cardinality(P) <= limit}
        /\ Pages(u, lo, hi, limit) =
             {P \in SUBSET S : /\ \A x \in P, y \in S : Before(u, y[1], x[1]) => y \in P
                               /\ P # S => limit # NULL /\ Cardinality(P) = limit
                               /\ limit # NULL => Cardinality(P) <= limit}
    BY <1>4 DEF Pages, S
  <1> QED BY <1>6, <1>7
-----------------------------------------------------------------------------
(* Types.                                                                  *)

LEMMA Numbers ==
  /\ MaxBlock \in Nat /\ Confirmations \in Nat /\ MAX_LIMIT \in Nat \ {0} /\ Window \in Nat \ {0}
  /\ ReorgDepth \in Nat /\ ReorgDepth <= Confirmations
  /\ NULL \notin Nat /\ NULL \notin Blocks /\ \A b \in Blocks : b \in Nat
  /\ Cardinality(Events) \in Nat
  BY FeedAssumption, FS_CardinalityType DEF Blocks

\* What a handler holds, field by field.
LEMMA RequestType ==
  ASSUME TypeOK, request # NULL
  PROVE  /\ request.stage \in {"through", "rows"} /\ request.from \in Blocks
         /\ request.to \in Blocks \union {NULL} /\ request.through \in Blocks \union {NULL}
         /\ request.from \in Nat
         /\ request.limit \in Limits /\ (Paged => request.limit \in Nat \ {0})
         /\ ~Paged => request.limit = NULL
         /\ request \in [stage : {"through", "rows"}, from : Blocks, to : Blocks \union {NULL},
                         limit : Limits, through : Blocks \union {NULL}]
  BY Numbers DEF TypeOK, Limits

\* The rows answered are those of indexed logs, in the range asked for.
LEMMA Items ==
  ASSUME TypeOK, request # NULL,
         NEW items \in Pages(rows, request.from, request.to, request.limit)
  PROVE  /\ items \in SUBSET (Events \X Nat)
         /\ \A x \in items : /\ x[1] \in InRange(rows, request.from, request.to)
                             /\ x \in rowsOf(x[1]) /\ x[1] \in logsOf(items)
         /\ logsOf(items) \in SUBSET Events
         /\ \A e \in logsOf(items) : /\ e \in InRange(rows, request.from, request.to)
                                     /\ rows[e] \in Blocks /\ log[e] \in Log
                                     /\ \E x \in items : x[1] = e /\ x \in rowsOf(e)
  <1>1. items \subseteq rowsInRange(rows, request.from, request.to)
    BY PageRows
  <1>2. \A x \in items : /\ x[1] \in InRange(rows, request.from, request.to)
                         /\ x[1] \in Events /\ x \in rowsOf(x[1]) /\ x \in Events \X Nat
    BY <1>1, RangeRows
  <1>3. \A e \in InRange(rows, request.from, request.to) : rows[e] \in Blocks /\ log[e] \in Log
    BY FeedAssumption DEF TypeOK, InRange
  <1> QED BY <1>2, <1>3 DEF logsOf

\* The elements of the page's logs, and no others, are served: all of a log whose
\* rows are in the page, unless a quick-sync does not decode it.
LEMMA ServedElements ==
  ASSUME TypeOK, request # NULL,
         NEW items \in Pages(rows, request.from, request.to, request.limit)
  PROVE  /\ \A x \in served(items) : \E e \in logsOf(items) : x \in elementsOf(e)
         /\ \A e \in Events : Streamed(e) /\ rowsOf(e) \subseteq items
                              => elementsOf(e) \subseteq served(items)
  <1>0. ASSUME NEW e \in Events, Streamed(e), rowsOf(e) \subseteq items PROVE e \in logsOf(items)
    <2>1. PICK x \in rowsOf(e) : TRUE
      BY <1>0 DEF Streamed
    <2>2. x[1] = e /\ x \in items
      BY <1>0, <2>1, RowsOf
    <2> QED BY <2>2 DEF logsOf
  <1>1. CASE endpoint \in {"commitments", "logs"}
    <2>1. served(items) = UNION {elementsOf(e) : e \in logsOf(items)}
      BY <1>1 DEF served
    <2> QED BY <1>0, <2>1
  <1>2. CASE endpoint = "sync"
    <2>1. served(items) = quickSync(logsOf(items))
      BY <1>2 DEF served
    <2>2. \A e \in Events : Streamed(e) => log[e].kind \in Decoded
      BY <1>2 DEF Streamed, Paged, PagedEndpoints
    <2> QED BY <1>0, <2>1, <2>2 DEF quickSync, decodeOnly, Decoded
  <1>3. CASE endpoint = "native"
    <2>1. served(items) = serializeNativeQuickSync(logsOf(items))
      BY <1>3 DEF served
    <2>2. ASSUME NEW x \in served(items) PROVE \E e \in logsOf(items) : x \in elementsOf(e)
      <3>1. PICK k \in Decoded : x \in decodeOnly({k}, logsOf(items))
        BY <2>1, <2>2 DEF serializeNativeQuickSync
      <3> QED BY <3>1 DEF decodeOnly
    <2>3. ASSUME NEW e \in Events, Streamed(e), rowsOf(e) \subseteq items, NEW x \in elementsOf(e)
          PROVE  x \in served(items)
      <3>1. log[e].kind \in Decoded /\ e \in logsOf(items)
        BY <1>0, <1>3, <2>3 DEF Streamed, Paged, PagedEndpoints
      <3>2. x \in decodeOnly({log[e].kind}, logsOf(items))
        BY <2>3, <3>1 DEF decodeOnly
      <3> QED BY <2>1, <3>1, <3>2 DEF serializeNativeQuickSync
    <2> QED BY <2>2, <2>3
  <1>4. CASE endpoint = "nullifiers"
    <2>1. served(items) = {element(x[1], x[2]) : x \in items}
      BY <1>4 DEF served
    <2>2. ASSUME NEW y \in items
          PROVE  y[1] \in logsOf(items) /\ element(y[1], y[2]) \in elementsOf(y[1])
      <3>1. y[1] \in Events /\ y \in rowsOf(y[1]) /\ y[1] \in logsOf(items)
        BY Items
      <3>2. y[2] \in 0..(log[y[1]].size - 1)
        BY <3>1, RowsOf
      <3> QED BY <3>1, <3>2 DEF elementsOf
    <2>3. ASSUME NEW e \in Events, Streamed(e), rowsOf(e) \subseteq items, NEW x \in elementsOf(e)
          PROVE  x \in served(items)
      <3>1. rowsOf(e) = leaves(e)
        BY <1>4, <2>3 DEF Streamed, rowsOf
      <3>2. PICK i \in 0..(log[e].size - 1) : x = element(e, i)
        BY <2>3 DEF elementsOf
      <3>3. <<e, i>> \in items
        BY <2>3, <3>1 DEF leaves
      <3> QED BY <2>1, <3>2, <3>3
    <2> QED BY <2>1, <2>2, <2>3
  <1> QED BY <1>1, <1>2, <1>3, <1>4, FeedAssumption DEF TypeOK, Endpoints, PagedEndpoints

LEMMA Elements ==
  ASSUME NEW e \in Events, log[e] \in Log, NEW x \in elementsOf(e)
  PROVE  /\ x.event = e /\ x.index \in 0..(log[e].size - 1) /\ x.block = rows[e]
         /\ x.index \in Nat
         /\ Commits(e) => x.position = startPosition(rows, e) + x.index
  <1>1. PICK i \in 0..(log[e].size - 1) :
          x = [event |-> e, index |-> i, block |-> rows[e],
               position |-> IF Commits(e) THEN startPosition(rows, e) + i ELSE NULL]
    BY DEF elementsOf, element
  <1>2. log[e].size \in Nat
    BY DEF Log
  <1> QED BY <1>1, <1>2

\* A full page has a last log; the next cursor is behind its block.
LEMMA LastRow ==
  ASSUME TypeOK, request # NULL,
         NEW items \in Pages(rows, request.from, request.to, request.limit)
  PROVE  /\ Full(items) =>
              /\ Paged /\ lastLog(items) \in logsOf(items)
              /\ \A f \in logsOf(items) \ {lastLog(items)} : Before(rows, f, lastLog(items))
              /\ nextCursorOf(items) = rows[lastLog(items)] + 1
         /\ ~Full(items) => /\ items = rowsInRange(rows, request.from, request.to)
                            /\ nextCursorOf(items) = NULL
  <1>1. ASSUME Full(items)
        PROVE  /\ Paged /\ lastLog(items) \in logsOf(items)
               /\ \A f \in logsOf(items) \ {lastLog(items)} : Before(rows, f, lastLog(items))
               /\ nextCursorOf(items) = rows[lastLog(items)] + 1
    <2>1. Paged /\ request.limit \in Nat \ {0} /\ Cardinality(items) >= request.limit
      BY <1>1, RequestType DEF Full
    <2>2. logsOf(items) \in SUBSET Events /\ \A e \in logsOf(items) : rows[e] \in Nat
      BY Items, Numbers
    <2>3. logsOf(items) # {}
      <3>1. items # {}
        BY <2>1, FS_EmptySet
      <3> QED BY <3>1 DEF logsOf
    <2>4. \E l \in logsOf(items) : \A f \in logsOf(items) \ {l} : Before(rows, f, l)
      BY <2>2, <2>3, FirstAndLast
    <2>5. /\ lastLog(items) \in logsOf(items)
          /\ \A f \in logsOf(items) \ {lastLog(items)} : Before(rows, f, lastLog(items))
      BY <2>4 DEF lastLog
    <2> QED BY <1>1, <2>1, <2>5 DEF nextCursorOf
  <1>2. ASSUME ~Full(items)
        PROVE  /\ items = rowsInRange(rows, request.from, request.to)
               /\ nextCursorOf(items) = NULL
    <2>1. CASE Paged
      <3>1. request.limit \in Nat /\ ~(Cardinality(items) >= request.limit)
        BY <1>2, <2>1, RequestType DEF Full
      <3>2. Cardinality(items) # request.limit
        BY <3>1
      <3> QED BY <1>2, <3>2, PageRows DEF nextCursorOf
    <2>2. CASE ~Paged
      BY <1>2, <2>2, PageRows, RequestType DEF nextCursorOf
    <2> QED BY <2>1, <2>2
  <1> QED BY <1>1, <1>2

\* Where a request leaves the cursor: behind the last row of a full page, else
\* behind the part of the range that was indexed.
LEMMA Resumes ==
  ASSUME TypeOK, request # NULL,
         NEW items \in Pages(rows, request.from, request.to, request.limit),
         NEW to, to = request.to, NEW through, through = request.through,
         NEW next, next = Resume(items)
  PROVE  \/ Full(items) /\ next = rows[lastLog(items)] + 1
         \/ /\ ~Full(items)
            /\ \/ next = cursor
               \/ /\ through # NULL /\ next - 1 <= through /\ next \in Nat /\ next > cursor
                  /\ to # NULL => next - 1 <= to
                  /\ next <= MaxBlock + 1
  <1> DEFINE covered == IF to = NULL THEN through
                        ELSE IF through = NULL THEN NULL ELSE Least(to, through)
  <1>1. next = IF nextCursorOf(items) # NULL THEN nextCursorOf(items)
               ELSE IF covered = NULL \/ covered < cursor THEN cursor ELSE covered + 1
    BY DEF Resume
  <1>4. CASE Full(items)
    <2>1. lastLog(items) \in logsOf(items) /\ nextCursorOf(items) = rows[lastLog(items)] + 1
      BY <1>4, LastRow
    <2>2. rows[lastLog(items)] \in Nat
      BY <2>1, Items, Numbers
    <2>3. rows[lastLog(items)] + 1 # NULL
      BY <2>2, Numbers
    <2> QED BY <1>1, <1>4, <2>1, <2>3
  <1>5. CASE ~Full(items)
    <2>1. nextCursorOf(items) = NULL
      BY <1>5, LastRow
    <2>2. CASE covered = NULL \/ covered < cursor
      BY <1>1, <1>5, <2>1, <2>2
    <2>3. CASE ~(covered = NULL \/ covered < cursor)
      <3>1. /\ to \in Blocks \union {NULL} /\ through \in Blocks \union {NULL}
            /\ cursor \in Nat /\ MaxBlock \in Nat
        BY RequestType, Numbers DEF TypeOK
      <3>2. through # NULL /\ covered \in Nat /\ covered <= through /\ covered <= MaxBlock
        BY <2>3, <3>1, Numbers DEF Least, Blocks
      <3>3. to # NULL => covered <= to
        BY <3>1, <3>2, Numbers DEF Least
      <3>4. next = covered + 1 /\ ~(covered < cursor)
        BY <1>1, <2>1, <2>3
      <3>5. through \in Nat /\ (to # NULL => to \in Nat)
        BY <3>1, <3>2, Numbers
      <3> HIDE DEF covered
      <3> QED BY <1>5, <3>1, <3>2, <3>3, <3>4, <3>5
    <2> QED BY <2>2, <2>3
  <1> QED BY <1>4, <1>5

\* What respond does with the rows it read.
Responds(items) ==
  /\ got' = got \union served(items) /\ cursor' = Resume(items)
  /\ filled' = IF Full(items) THEN filled \union {lastLog(items)} ELSE filled
  /\ \/ /\ cacheControlFor(request.to, request.through)
        /\ frozen' = [from |-> request.from, to |-> request.to, limit |-> request.limit,
                      items |-> items]
     \/ UNCHANGED frozen

LEMMA RespondStep ==
  ASSUME respond
  PROVE  /\ request # NULL /\ request.stage = "rows" /\ request' = NULL
         /\ UNCHANGED <<endpoint, log, head, blockOf, reorged, rows, indexed, emptied>>
         /\ \E items \in Pages(rows, request.from, request.to, request.limit) : Responds(items)
  <1>1. PICK items \in Answers : Answer(items, Resume(items))
    BY DEF respond
  <1>2. /\ request # NULL /\ request.stage = "rows"
        /\ items \in Pages(rows, request.from, request.to, request.limit)
    BY <1>1 DEF Answers
  <1> QED BY <1>1, <1>2 DEF Answer, Responds, chain, index

\* What the reading of the checkpoint does, when it gives what is indexed or fails.
LEMMA ReadsCheckpoint ==
  ASSUME TypeOK, Asked, indexedThrough \/ watcherProgressFails
  PROVE  /\ request # NULL
         /\ UNCHANGED <<endpoint, log, head, blockOf, reorged, rows, indexed, got, frozen, filled>>
         /\ \E through \in {indexed, NULL} :
              \/ /\ Paged /\ UNCHANGED <<cursor, emptied>>
                 /\ request' = [request EXCEPT !.stage = "rows", !.through = through]
              \/ /\ ~Paged /\ request' = NULL
                 /\ \/ endpoint = "sync" /\ cursor' = cursor + 1 /\ emptied' = emptied \union {cursor}
                    \/ endpoint # "sync" /\ cursor' = (IF cursor = 0 THEN 1 ELSE cursor)
                       /\ emptied' = emptied
              \/ /\ ~Paged /\ through = indexed /\ indexed # NULL /\ UNCHANGED <<cursor, emptied>>
                 /\ request' = [request EXCEPT !.stage = "rows", !.through = through,
                                               !.to = windowEnd(through)]
                 /\ windowEnd(through) \in Blocks /\ windowEnd(through) <= indexed
  <1>0. PICK through \in {indexed, NULL} : ReadThrough(through)
    BY DEF indexedThrough, watcherProgressFails
  <1>1. /\ request # NULL
        /\ UNCHANGED <<endpoint, log, head, blockOf, reorged, rows, indexed, got, frozen, filled>>
    BY <1>0 DEF ReadThrough, chain, index
  <1>2. /\ request.from = cursor /\ request.from \in Nat
        /\ request.to \in Blocks \union {NULL} /\ indexed \in Blocks \union {NULL}
    BY <1>1, RequestType DEF Asked, TypeOK
  <1>3. CASE Paged
    BY <1>0, <1>1, <1>3 DEF ReadThrough
  <1>4. CASE ~Paged /\ PastIndex(through)
    <2>1. /\ request' = NULL
          /\ cursor' = IF emptyThrough < cursor THEN cursor ELSE emptyThrough + 1
          /\ emptied' = IF endpoint = "sync" THEN emptied \union {emptyThrough} ELSE emptied
      BY <1>0, <1>4 DEF ReadThrough
    <2>2. CASE endpoint = "sync"
      <3>1. emptyThrough = cursor
        BY <1>2, <2>2 DEF emptyThrough
      <3> QED BY <1>1, <1>2, <1>4, <2>1, <2>2, <3>1
    <2>3. CASE endpoint # "sync"
      <3>1. emptyThrough = IF cursor = 0 THEN 0 ELSE cursor - 1
        BY <1>2, <2>3 DEF emptyThrough
      <3>2. cursor' = (IF cursor = 0 THEN 1 ELSE cursor) /\ emptied' = emptied
        BY <1>2, <2>1, <2>3, <3>1
      <3> QED BY <1>1, <1>4, <2>1, <2>3, <3>2
    <2> QED BY <2>2, <2>3
  <1>5. CASE ~Paged /\ ~PastIndex(through)
    <2>1. /\ request' = [request EXCEPT !.stage = "rows", !.through = through,
                                        !.to = windowEnd(through)]
          /\ UNCHANGED <<cursor, emptied>> /\ through # NULL /\ through = indexed
      BY <1>0, <1>5 DEF ReadThrough, PastIndex
    <2>2. windowEnd(through) \in Blocks /\ windowEnd(through) <= indexed
      <3>1. indexed \in Nat /\ indexed <= MaxBlock
        BY <1>2, <2>1, Numbers DEF Blocks
      <3>2. endpoint = "native" => request.to \in Nat /\ request.to <= MaxBlock
        BY <1>1, <1>2, Numbers DEF Asked, Blocks
      <3>3. endpoint \in {"sync", "native"}
        BY <1>5, FeedAssumption DEF TypeOK, Endpoints, Paged
      <3>4. request.from + Window - 1 \in Nat
        BY <1>2, Numbers
      <3>5. CASE endpoint = "sync"
        <4>1. windowEnd(through) = Least(indexed, request.from + Window - 1)
          BY <2>1, <3>5 DEF windowEnd
        <4> QED BY <3>1, <3>4, <4>1, Numbers DEF Least, Blocks
      <3>6. CASE endpoint = "native"
        <4>1. windowEnd(through) = Least(indexed, request.to)
          BY <2>1, <3>6 DEF windowEnd
        <4> QED BY <3>1, <3>2, <3>6, <4>1, Numbers DEF Least, Blocks
      <3> QED BY <3>3, <3>5, <3>6
    <2> QED BY <1>1, <1>5, <2>1, <2>2
  <1> QED BY <1>3, <1>4, <1>5
-----------------------------------------------------------------------------
(* Immutable answers are final.                                            *)

\* The chain and the index stand still: so does all that is said of them.
LEMMA StandsStill ==
  ASSUME Served, UNCHANGED <<endpoint, log, head, blockOf, rows, indexed>>
  PROVE  /\ Indexed'
         /\ UNCHANGED frozen => Frozen' /\ ImmutableIsFinal'
  <1>1. Indexed'
    BY DEF Served, Indexed, Agree
  <1>2. UNCHANGED frozen => Frozen'
    BY DEF Served, Frozen
  <1>3. UNCHANGED frozen => ImmutableIsFinal'
    BY DEF Served, ImmutableIsFinal, Pages, rowsInRange, rowsOf, leaves, Commits, InRange, Before
  <1> QED BY <1>1, <1>2, <1>3

LEMMA ServedReceive ==
  ASSUME Served, receive
  PROVE  Served'
  <1>1. PICK to \in Ends, limit \in Limits :
          request' = [stage |-> "through", from |-> cursor, to |-> to, limit |-> limit,
                      through |-> NULL]
    BY DEF receive
  <1>2. /\ UNCHANGED <<endpoint, log, head, blockOf, reorged, rows, indexed, cursor, got, frozen,
                       emptied, filled>>
        /\ cursor \in Blocks
    BY Numbers DEF receive, chain, index, Served, TypeOK, Blocks
  <1>3. to \in Blocks \union {NULL} /\ (endpoint = "native" => to \in Blocks)
    <2>1. cursor \in Nat
      BY <1>2, Numbers
    <2>2. cursor..MaxBlock \subseteq Blocks
      BY <2>1, Numbers DEF Blocks
    <2>3. endpoint \in Endpoints
      BY FeedAssumption DEF Served, TypeOK
    <2> QED BY <2>2, <2>3 DEF Ends, Endpoints, Paged, PagedEndpoints
  <1>4. request'.from = cursor /\ request'.to = to /\ request'.stage = "through"
    BY <1>1
  <1>5. request' \in [stage : {"through", "rows"}, from : Blocks, to : Blocks \union {NULL},
                      limit : Limits, through : Blocks \union {NULL}]
    BY <1>1, <1>2, <1>3
  <1>6. TypeOK'
    BY <1>2, <1>5 DEF Served, TypeOK, Limits, Paged
  <1>7. Asked'
    BY <1>2, <1>3, <1>4, Numbers DEF Asked, Paged
  <1> QED BY <1>2, <1>6, <1>7, StandsStill DEF Served

LEMMA ServedCheckpoint ==
  ASSUME Served, indexedThrough \/ watcherProgressFails
  PROVE  Served'
  <1>0. TypeOK /\ Asked
    BY DEF Served
  <1> DEFINE R == [stage : {"through", "rows"}, from : Blocks, to : Blocks \union {NULL},
                   limit : Limits, through : Blocks \union {NULL}]
  <1>1. /\ request # NULL
        /\ UNCHANGED <<endpoint, log, head, blockOf, reorged, rows, indexed, got, frozen, filled>>
    BY <1>0, ReadsCheckpoint
  <1>2. /\ request \in R /\ request.from = cursor /\ cursor \in Nat /\ cursor <= MaxBlock
        /\ indexed \in Blocks \union {NULL} /\ cursor \in Blocks /\ MaxBlock \in Nat
    BY <1>0, <1>1, RequestType, Numbers DEF Asked, TypeOK, Blocks
  <1>3. PICK through \in {indexed, NULL} :
              \/ /\ Paged /\ UNCHANGED <<cursor, emptied>>
                 /\ request' = [request EXCEPT !.stage = "rows", !.through = through]
              \/ /\ ~Paged /\ request' = NULL
                 /\ \/ endpoint = "sync" /\ cursor' = cursor + 1 /\ emptied' = emptied \union {cursor}
                    \/ endpoint # "sync" /\ cursor' = (IF cursor = 0 THEN 1 ELSE cursor)
                       /\ emptied' = emptied
              \/ /\ ~Paged /\ through = indexed /\ indexed # NULL /\ UNCHANGED <<cursor, emptied>>
                 /\ request' = [request EXCEPT !.stage = "rows", !.through = through,
                                               !.to = windowEnd(through)]
                 /\ windowEnd(through) \in Blocks /\ windowEnd(through) <= indexed
    BY <1>0, ReadsCheckpoint
  <1>4. CASE request' = NULL
    <2>1. cursor' \in 0..(MaxBlock + 1) /\ emptied' \subseteq Blocks
      BY <1>0, <1>1, <1>2, <1>3, <1>4 DEF TypeOK
    <2>2. TypeOK'
      BY <1>0, <1>1, <1>4, <2>1 DEF TypeOK, Limits, Paged
    <2> QED BY <1>1, <1>4, <2>2, StandsStill DEF Served, Asked
  <1>5. CASE /\ Paged /\ UNCHANGED <<cursor, emptied>>
             /\ request' = [request EXCEPT !.stage = "rows", !.through = through]
    <2>1. /\ request' \in R /\ request'.from = request.from /\ request'.through = through
          /\ request'.to = request.to
      BY <1>2, <1>5
    <2>2. TypeOK'
      BY <1>0, <1>1, <1>5, <2>1 DEF TypeOK, Limits, Paged
    <2>3. Asked'
      <3>1. endpoint # "native"
        BY <1>5 DEF Paged, PagedEndpoints
      <3>2. through # NULL => through = indexed /\ indexed <= indexed
        <4>1. indexed # NULL => indexed \in Nat
          BY <1>2, Numbers
        <4> QED BY <4>1
      <3>3. Paged'
        BY <1>1, <1>5 DEF Paged
      <3> QED BY <1>1, <1>2, <1>5, <2>1, <3>1, <3>2, <3>3 DEF Asked
    <2> QED BY <1>1, <2>2, <2>3, StandsStill DEF Served
  <1>6. CASE /\ ~Paged /\ through = indexed /\ indexed # NULL /\ UNCHANGED <<cursor, emptied>>
             /\ request' = [request EXCEPT !.stage = "rows", !.through = through,
                                           !.to = windowEnd(through)]
             /\ windowEnd(through) \in Blocks /\ windowEnd(through) <= indexed
    <2> DEFINE w == windowEnd(through)
    <2>1. request' = [stage |-> "rows", from |-> request.from, to |-> w,
                      limit |-> request.limit, through |-> indexed]
      BY <1>2, <1>6
    <2>2. request.from \in Blocks /\ request.limit \in Limits
      BY <1>2
    <2>3. w \in Blocks /\ w <= indexed /\ w # NULL /\ indexed <= indexed
      BY <1>2, <1>6, Numbers
    <2> HIDE DEF R, w
    <2>4. /\ request' \in R /\ request'.from = request.from /\ request'.through = indexed
          /\ request'.to = w /\ request'.stage = "rows"
      BY <1>2, <2>1, <2>2, <2>3 DEF R
    <2>5. TypeOK'
      BY <1>0, <1>1, <1>6, <2>4 DEF TypeOK, R, Limits, Paged
    <2>6. Asked'
      BY <1>1, <1>2, <1>6, <2>3, <2>4 DEF Asked
    <2> QED BY <1>1, <2>5, <2>6, StandsStill DEF Served
  <1> QED BY <1>3, <1>4, <1>5, <1>6

LEMMA ServedRespond ==
  ASSUME Served, respond
  PROVE  Served'
  <1>0. TypeOK /\ Asked
    BY DEF Served
  <1>1. /\ request # NULL /\ request.stage = "rows" /\ request' = NULL
        /\ UNCHANGED <<endpoint, log, head, blockOf, reorged, rows, indexed, emptied>>
    BY RespondStep
  <1>2. PICK items \in Pages(rows, request.from, request.to, request.limit) : Responds(items)
    BY RespondStep
  <1> DEFINE next == Resume(items)
             F == [from : Blocks, to : Blocks, limit : Limits, items : SUBSET (Events \X Nat)]
  <1>3. /\ items \in SUBSET (Events \X Nat) /\ logsOf(items) \in SUBSET Events
        /\ \A e \in logsOf(items) : rows[e] \in Blocks /\ log[e] \in Log /\ e \in Events
    BY <1>0, <1>1, Items
  <1>4. Full(items) => lastLog(items) \in logsOf(items)
    BY <1>0, <1>1, LastRow
  <1>5. next \in 0..(MaxBlock + 1)
    <2>1. \/ Full(items) /\ next = rows[lastLog(items)] + 1
          \/ next = cursor
          \/ next \in Nat /\ next <= MaxBlock + 1
      BY <1>0, <1>1, Resumes
    <2> HIDE DEF next
    <2>2. \A l \in logsOf(items) : rows[l] + 1 \in 0..(MaxBlock + 1)
      BY <1>3, Numbers DEF Blocks
    <2> QED BY <1>0, <1>4, <2>1, <2>2, Numbers DEF TypeOK
  <1>6. ASSUME NEW x \in served(items)
        PROVE  x.event \in Events /\ x.block \in Blocks /\ x.index \in Nat
    <2>1. PICK e \in logsOf(items) : x \in elementsOf(e)
      BY <1>0, <1>1, <1>6, ServedElements
    <2>2. x.event = e /\ x.index \in Nat /\ x.block = rows[e]
      BY <1>3, <2>1, Elements
    <2> QED BY <1>3, <2>1, <2>2
  <1>7. ASSUME cacheControlFor(request.to, request.through),
               frozen' = [from |-> request.from, to |-> request.to, limit |-> request.limit,
                          items |-> items]
        PROVE  frozen' \in F /\ Frozen' /\ ImmutableIsFinal'
    <2>1. /\ request.to \in Blocks /\ request.from \in Blocks /\ request.to \in Nat
          /\ request.through \in Nat /\ request.to <= request.through - Confirmations
          /\ request.limit \in Limits
      BY <1>0, <1>1, <1>7, RequestType, Numbers DEF cacheControlFor
    <2>2. indexed # NULL /\ request.through <= indexed /\ indexed \in Nat
      BY <1>0, <1>1, <2>1, Numbers DEF Asked, TypeOK
    <2>3. request.to <= indexed - ReorgDepth
      BY <2>1, <2>2, Numbers
    <2>4. Agree(rows, blockOf, indexed - ReorgDepth)
      BY <2>2 DEF Served, Indexed
    <2>5. items \in Pages(blockOf, request.from, request.to, request.limit)
      <3>1. /\ rows \in [Events -> Blocks \union {NULL}]
            /\ blockOf \in [Events -> Blocks \union {NULL}]
        BY <1>0 DEF TypeOK
      <3>2. request.from \in Nat /\ indexed - ReorgDepth \in Int
        <4>1. \A b \in Blocks : b \in Nat
          BY Numbers
        <4> QED BY <2>1, <2>2, <4>1, Numbers
      <3>3. Pages(rows, request.from, request.to, request.limit)
              = Pages(blockOf, request.from, request.to, request.limit)
        BY <1>0, <2>1, <2>3, <2>4, <3>1, <3>2, SamePages
      <3> QED BY <1>2, <3>3
    <2>6. /\ frozen'.from = request.from /\ frozen'.to = request.to /\ frozen'.items = items
          /\ frozen'.limit = request.limit /\ frozen' \in F
      BY <1>3, <1>7, <2>1
    <2>7. Frozen'
      BY <1>1, <2>2, <2>3, <2>6 DEF Frozen
    <2>8. ImmutableIsFinal'
      BY <1>1, <2>5, <2>6
      DEF ImmutableIsFinal, Pages, rowsInRange, rowsOf, leaves, Commits, InRange, Before
    <2> QED BY <2>6, <2>7, <2>8
  <1>8. /\ frozen' # NULL => frozen' \in F
        /\ Indexed' /\ Frozen' /\ ImmutableIsFinal'
    BY <1>0, <1>1, <1>2, <1>7, StandsStill DEF TypeOK, Responds
  <1>9. filled' \subseteq Events
    BY <1>0, <1>2, <1>3, <1>4 DEF Responds, TypeOK
  <1>10. \A x \in got' : x.event \in Events /\ x.block \in Blocks /\ x.index \in Nat
    BY <1>0, <1>2, <1>6 DEF Responds, TypeOK
  <1>11. cursor' \in 0..(MaxBlock + 1)
    BY <1>2, <1>5 DEF Responds
  <1>12. Limits' = Limits
    BY <1>1 DEF Limits, Paged
  <1> HIDE DEF next
  <1>13. TypeOK'
    BY <1>0, <1>1, <1>8, <1>9, <1>10, <1>11, <1>12 DEF TypeOK
  <1> QED BY <1>1, <1>8, <1>13 DEF Served, Asked

LEMMA ServedMine ==
  ASSUME Served, MineBlock
  PROVE  Served'
  <1>0. /\ TypeOK /\ head \in Nat /\ head < MaxBlock /\ head' = head + 1
        /\ UNCHANGED <<endpoint, log, reorged, rows, indexed, cursor, got, request, frozen,
                       emptied, filled>>
    BY Numbers DEF Served, TypeOK, MineBlock, index
  <1>1. PICK S \in SUBSET {e \in Events : blockOf[e] = NULL} :
          blockOf' = [e \in Events |-> IF e \in S THEN head + 1 ELSE blockOf[e]]
    BY DEF MineBlock
  <1>2. \A e \in Events : blockOf'[e] = blockOf[e]
                          \/ (blockOf[e] = NULL /\ blockOf'[e] = head + 1)
    BY <1>1
  <1>3. head + 1 \in Blocks /\ head + 1 \in Nat
    BY <1>0, Numbers DEF Blocks
  <1>4. TypeOK'
    BY <1>0, <1>1, <1>3 DEF TypeOK, Limits, Paged
  <1>5. indexed # NULL => indexed \in Nat /\ indexed <= head
    BY <1>0, Numbers DEF Served, Indexed, TypeOK
  <1>6. Indexed'
    <2>1. \A e \in Events : blockOf'[e] # NULL => blockOf'[e] \in 1..head'
      BY <1>0, <1>2 DEF Served, Indexed
    <2>2. ASSUME indexed # NULL PROVE Agree(rows, blockOf', indexed - ReorgDepth)
      <3>1. head + 1 > indexed - ReorgDepth
        BY <1>0, <1>5, <2>2, Numbers
      <3>2. Agree(rows, blockOf, indexed - ReorgDepth)
        BY <2>2 DEF Served, Indexed
      <3> QED BY <1>2, <3>1, <3>2 DEF Agree
    <2> QED BY <1>0, <1>5, <2>1, <2>2 DEF Served, Indexed, Agree
  <1>7. Asked' /\ Frozen'
    BY <1>0 DEF Served, Asked, Frozen, Paged
  <1>8. ImmutableIsFinal'
    <2> SUFFICES ASSUME frozen # NULL
                 PROVE  frozen.items \in Pages(blockOf', frozen.from, frozen.to, frozen.limit)
      BY <1>0 DEF ImmutableIsFinal, Pages, rowsInRange, rowsOf, leaves, Commits, InRange, Before
    <2>1. /\ frozen.from \in Nat /\ frozen.to \in Blocks /\ frozen.to \in Nat
          /\ indexed # NULL /\ frozen.to <= indexed - ReorgDepth
      BY <1>0, Numbers DEF TypeOK, Served, Frozen
    <2>2. frozen.to < head + 1
      BY <1>0, <1>5, <2>1, Numbers
    <2>3. Agree(blockOf, blockOf', frozen.to)
      BY <1>2, <2>2 DEF Agree
    <2>4. /\ blockOf \in [Events -> Blocks \union {NULL}]
          /\ blockOf' \in [Events -> Blocks \union {NULL}]
      BY <1>0, <1>4 DEF TypeOK
    <2>5. Pages(blockOf, frozen.from, frozen.to, frozen.limit)
            = Pages(blockOf', frozen.from, frozen.to, frozen.limit)
      BY <1>0, <2>1, <2>3, <2>4, SamePages
    <2> QED BY <2>5 DEF Served, ImmutableIsFinal
  <1> QED BY <1>4, <1>6, <1>7, <1>8 DEF Served

LEMMA ServedReorg ==
  ASSUME Served, Reorg
  PROVE  Served'
  <1>1. PICK first \in (head - ReorgDepth + 1)..head, e \in Events :
          /\ first > 0 /\ blockOf[e] # NULL /\ blockOf[e] >= first
          /\ \E b \in (first..head) \union {NULL} : blockOf' = [blockOf EXCEPT ![e] = b]
          /\ reorged' = TRUE
          /\ UNCHANGED <<endpoint, log, head, index, cursor, got, request, frozen, emptied, filled>>
    BY DEF Reorg
  <1>2. PICK b \in (first..head) \union {NULL} : blockOf' = [blockOf EXCEPT ![e] = b]
    BY <1>1
  <1>0. /\ TypeOK /\ head \in Nat /\ head <= MaxBlock /\ reorged' = TRUE
        /\ UNCHANGED <<endpoint, log, head, rows, indexed, cursor, got, request, frozen, emptied,
                       filled>>
    BY <1>1, Numbers DEF Served, TypeOK, index, Blocks
  <1>3. /\ first \in Int /\ first > head - ReorgDepth /\ first <= head
        /\ b # NULL => b \in Blocks /\ b \in 1..head /\ b >= first
        /\ blockOf[e] \in Nat
    BY <1>0, <1>1, Numbers DEF Blocks, TypeOK
  <1>4. blockOf'[e] = b /\ \A f \in Events : f # e => blockOf'[f] = blockOf[f]
    BY <1>0, <1>2 DEF TypeOK
  <1>5. TypeOK'
    BY <1>0, <1>2, <1>3 DEF TypeOK, Limits, Paged
  <1>6. indexed # NULL => indexed \in Nat /\ indexed <= head /\ first > indexed - ReorgDepth
    BY <1>0, <1>3, Numbers DEF Served, Indexed, TypeOK
  <1>7. Indexed'
    <2>1. \A f \in Events : blockOf'[f] # NULL => blockOf'[f] \in 1..head
      BY <1>0, <1>3, <1>4 DEF Served, Indexed
    <2>2. ASSUME indexed # NULL PROVE Agree(rows, blockOf', indexed - ReorgDepth)
      <3>1. Agree(rows, blockOf, indexed - ReorgDepth)
        BY <2>2 DEF Served, Indexed
      <3>2. indexed - ReorgDepth \in Int /\ ReorgDepth \in Nat
        BY <1>6, <2>2, Numbers
      <3>3. /\ blockOf[e] > indexed - ReorgDepth
            /\ b # NULL => b > indexed - ReorgDepth
        BY <1>1, <1>3, <1>6, <2>2, <3>2
      <3>4. rows[e] # NULL => rows[e] > indexed - ReorgDepth
        BY <1>1, <3>1, <3>3 DEF Agree
      <3> QED BY <1>4, <3>1, <3>3, <3>4 DEF Agree
    <2> QED BY <1>0, <2>1, <2>2 DEF Served, Indexed, Agree
  <1>8. Asked' /\ Frozen'
    BY <1>0 DEF Served, Asked, Frozen, Paged
  <1>9. ImmutableIsFinal'
    <2> SUFFICES ASSUME frozen # NULL
                 PROVE  frozen.items \in Pages(blockOf', frozen.from, frozen.to, frozen.limit)
      BY <1>0 DEF ImmutableIsFinal, Pages, rowsInRange, rowsOf, leaves, Commits, InRange, Before
    <2>1. /\ frozen.from \in Nat /\ frozen.to \in Blocks /\ frozen.to \in Nat
          /\ indexed # NULL /\ frozen.to <= indexed - ReorgDepth
      BY <1>0, Numbers DEF TypeOK, Served, Frozen
    <2>2. frozen.to < first
      BY <1>3, <1>6, <2>1, Numbers
    <2>3. Agree(blockOf, blockOf', frozen.to)
      BY <1>1, <1>3, <1>4, <2>1, <2>2 DEF Agree
    <2>4. /\ blockOf \in [Events -> Blocks \union {NULL}]
          /\ blockOf' \in [Events -> Blocks \union {NULL}]
      BY <1>0, <1>5 DEF TypeOK
    <2>5. Pages(blockOf, frozen.from, frozen.to, frozen.limit)
            = Pages(blockOf', frozen.from, frozen.to, frozen.limit)
      BY <1>0, <2>1, <2>3, <2>4, SamePages
    <2> QED BY <2>5 DEF Served, ImmutableIsFinal
  <1> QED BY <1>5, <1>7, <1>8, <1>9 DEF Served

LEMMA ServedIndex ==
  ASSUME Served, Index
  PROVE  Served'
  <1>1. PICK b \in (IF indexed = NULL THEN 0 ELSE indexed)..head :
          /\ indexed' = b
          /\ rows' = [e \in Events |->
               IF blockOf[e] # NULL /\ blockOf[e] <= b THEN blockOf[e] ELSE NULL]
    BY DEF Index
  <1>0. /\ TypeOK /\ head \in Nat /\ head <= MaxBlock
        /\ UNCHANGED <<endpoint, log, head, blockOf, reorged, cursor, got, request, frozen,
                       emptied, filled>>
    BY Numbers DEF Served, TypeOK, Index, chain, Blocks
  <1>2. /\ b \in Blocks /\ b \in Nat /\ b <= head /\ b # NULL
        /\ indexed # NULL => indexed \in Nat /\ indexed <= b
    BY <1>0, <1>1, Numbers DEF TypeOK, Blocks
  <1>3. \A e \in Events : rows'[e] =
          IF blockOf[e] # NULL /\ blockOf[e] <= b THEN blockOf[e] ELSE NULL
    BY <1>1
  <1>4. TypeOK'
    BY <1>0, <1>1, <1>2 DEF TypeOK, Limits, Paged
  <1>5. \A e \in Events : blockOf[e] # NULL => blockOf[e] \in Nat
    BY <1>0, Numbers DEF TypeOK
  <1>6. Agree(rows', blockOf, b) /\ Agree(rows', blockOf, b - ReorgDepth)
    BY <1>2, <1>3, <1>5, Numbers DEF Agree
  <1>7. Indexed'
    BY <1>0, <1>1, <1>2, <1>3, <1>6 DEF Served, Indexed, Agree
  <1>8. Asked'
    <2>1. request # NULL => (request.through # NULL => request.through \in Nat)
      BY <1>0, RequestType, Numbers
    <2>2. ASSUME request # NULL, request.stage = "rows", request.through # NULL
          PROVE  request.through <= b
      BY <1>2, <2>1, <2>2 DEF Served, Asked
    <2> QED BY <1>0, <1>1, <1>2, <2>2 DEF Served, Asked, Paged
  <1>9. Frozen'
    <2>1. frozen # NULL => frozen.to \in Nat
      BY <1>0, Numbers DEF TypeOK
    <2> QED BY <1>0, <1>1, <1>2, <2>1, Numbers DEF Served, Frozen
  <1>10. ImmutableIsFinal'
    BY <1>0
    DEF Served, ImmutableIsFinal, Pages, rowsInRange, rowsOf, leaves, Commits, InRange, Before
  <1> QED BY <1>4, <1>7, <1>8, <1>9, <1>10 DEF Served

LEMMA ServedInit == Init => Served
  <1> SUFFICES ASSUME Init PROVE Served
    OBVIOUS
  <1>1. 0 \in Blocks /\ 0 \in 0..(MaxBlock + 1)
    BY Numbers DEF Blocks
  <1>2. <<endpoint, log>> \in Streams
    <2>1. PICK stream \in Streams : endpoint = stream[1] /\ log = stream[2]
      BY DEF Init
    <2>2. stream \in Endpoints \X [Events -> Log]
      BY FeedAssumption
    <2> QED BY <2>1, <2>2
  <1>3. TypeOK
    BY <1>1, <1>2 DEF Init, TypeOK
  <1>4. Indexed /\ Asked /\ Frozen /\ ImmutableIsFinal
    BY DEF Init, Indexed, Asked, Frozen, ImmutableIsFinal
  <1> QED BY <1>3, <1>4 DEF Served

LEMMA ServedStep == Served /\ [Next]_vars => Served'
  <1> SUFFICES ASSUME Served, [Next]_vars PROVE Served'
    OBVIOUS
  <1>1. CASE decodeThrows
    <2>1. /\ UNCHANGED <<endpoint, log, head, blockOf, reorged, rows, indexed, cursor, got,
                         frozen, emptied, filled>>
          /\ request' = NULL
      BY <1>1 DEF decodeThrows, chain, index
    <2>2. TypeOK' /\ Asked'
      BY <2>1 DEF Served, TypeOK, Asked, Limits, Paged
    <2> QED BY <2>1, <2>2, StandsStill DEF Served
  <1>2. CASE UNCHANGED vars
    <2>1. TypeOK' /\ Asked'
      BY <1>2 DEF Served, TypeOK, Asked, Limits, Paged, vars
    <2> QED BY <1>2, <2>1, StandsStill DEF Served, vars
  <1> QED BY <1>1, <1>2, ServedReceive, ServedCheckpoint, ServedRespond, ServedMine,
       ServedReorg, ServedIndex DEF Next

\* The chain, the index, the consumer and the handler keep their types.
THEOREM TypeCorrect == Spec => []TypeOK
  <1>1. Served => TypeOK
    BY DEF Served
  <1> QED BY <1>1, ServedInit, ServedStep, PTL DEF Spec

\* No response that cacheControlFor marks immutable is ever wrong, as long as
\* reorganisations stay within the confirmations: for any pages and windows,
\* and though its handler read the checkpoint before the rows.
THEOREM ImmutableStays == Spec => []ImmutableIsFinal
  <1>1. Served => ImmutableIsFinal
    BY DEF Served
  <1> QED BY <1>1, ServedInit, ServedStep, PTL DEF Spec
-----------------------------------------------------------------------------
(* The stream is complete.                                                 *)

\* The leaves of some logs are finitely many.
LEMMA FiniteLeaves ==
  ASSUME TypeOK, NEW F \in SUBSET Events
  PROVE  IsFiniteSet(UNION {leaves(f) : f \in F})
  <1> DEFINE T == {leaves(f) : f \in F}
             m == [f \in F |-> leaves(f)]
  <1>1. IsFiniteSet(F)
    BY FeedAssumption, FS_Subset
  <1>2. \A f \in F : log[f].size \in Nat \ {0}
    BY FeedAssumption DEF TypeOK, Log
  <1>3. ASSUME NEW f \in F PROVE IsFiniteSet(leaves(f))
    <2>1. IsFiniteSet({f})
      BY FS_Singleton
    <2>2. log[f].size - 1 \in Int
      BY <1>2
    <2>3. IsFiniteSet(0..(log[f].size - 1))
      BY <2>2, FS_Interval
    <2> QED BY <2>1, <2>3, FS_Product DEF leaves
  <1>4. m \in Surjection(F, T)
    BY DEF Surjection
  <1>5. \A t \in T : IsFiniteSet(t)
    BY <1>3
  <1> HIDE DEF T, m
  <1>6. IsFiniteSet(T)
    BY <1>1, <1>4, FS_Surjection
  <1>7. IsFiniteSet(UNION T)
    BY <1>5, <1>6, FS_UNION
  <1> QED BY <1>7 DEF T

\* Where the index is a copy of the chain, a decoder that adds the index in the
\* log to its start position puts each leaf where the tree has it.
LEMMA Positions ==
  ASSUME TypeOK, Indexed, Current,
         NEW e \in Events, rows[e] # NULL, Commits(e), NEW i \in 0..(log[e].size - 1)
  PROVE  startPosition(rows, e) + i = leavesBefore(e, i)
  <1> DEFINE F == {g \in Events : rows[g] # NULL /\ Commits(g) /\ Before(rows, g, e)}
             A == UNION {leaves(f) : f \in F}
             B == {x \in UNION {leaves(f) : f \in Events} :
                     /\ blockOf[x[1]] # NULL /\ Commits(x[1])
                     /\ Before(blockOf, x[1], e) \/ (x[1] = e /\ x[2] < i)}
             C == {e} \X (0..(i - 1))
  <1>1. /\ \A f \in Events : log[f].size \in Nat \ {0} /\ f \in Nat
        /\ i \in Nat /\ i <= log[e].size - 1
    BY FeedAssumption DEF TypeOK, Log
  <1>2. \A f \in Events : /\ rows[f] # NULL => rows[f] \in Nat /\ rows[f] <= indexed
                          /\ blockOf[f] # NULL => blockOf[f] \in Nat
    BY Numbers DEF TypeOK, Indexed
  <1>3. indexed \in Nat /\ indexed # NULL
    BY Numbers DEF TypeOK, Indexed
  <1>4. rows[e] = blockOf[e] /\ rows[e] \in Nat /\ rows[e] <= indexed
    BY <1>2, <1>3 DEF Current, Agree
  <1>5. ASSUME NEW g \in Events
        PROVE  rows[g] # NULL /\ Before(rows, g, e) <=> blockOf[g] # NULL /\ Before(blockOf, g, e)
    <2>1. \/ rows[g] = blockOf[g]
          \/ /\ rows[g] # NULL => rows[g] > indexed
             /\ blockOf[g] # NULL => blockOf[g] > indexed
      BY <1>3 DEF Current, Agree
    <2> QED BY <1>2, <1>3, <1>4, <2>1 DEF Before
  <1>6. A \subseteq B
    <2> SUFFICES ASSUME NEW x \in A PROVE x \in B
      OBVIOUS
    <2>1. PICK f \in F : x \in leaves(f)
      OBVIOUS
    <2>2. x[1] = f
      BY <2>1 DEF leaves
    <2> QED BY <1>5, <2>1, <2>2
  <1>7. C \subseteq B
    <2> SUFFICES ASSUME NEW x \in C PROVE x \in B
      OBVIOUS
    <2>1. PICK j \in 0..(i - 1) : x = <<e, j>>
      OBVIOUS
    <2>2. j \in 0..(log[e].size - 1) /\ j < i
      BY <1>1, <2>1
    <2>3. x \in leaves(e)
      BY <2>1, <2>2 DEF leaves
    <2> QED BY <1>4, <2>1, <2>2, <2>3
  <1>8. B \subseteq A \union C
    <2> SUFFICES ASSUME NEW x \in B PROVE x \in A \union C
      OBVIOUS
    <2>1. PICK f \in Events : x \in leaves(f)
      OBVIOUS
    <2>2. PICK j \in 0..(log[f].size - 1) : x = <<f, j>>
      BY <2>1 DEF leaves
    <2>3. CASE Before(blockOf, f, e)
      BY <1>5, <2>1, <2>2, <2>3
    <2>4. CASE f = e /\ j < i
      BY <1>1, <2>2, <2>4
    <2> QED BY <2>2, <2>3, <2>4
  <1>9. A \cap C = {}
    <2> SUFFICES ASSUME NEW x \in A, x \in C PROVE FALSE
      OBVIOUS
    <2>1. PICK f \in F : x \in leaves(f)
      OBVIOUS
    <2>2. x[1] = f /\ x[1] = e
      BY <2>1 DEF leaves
    <2> QED BY <1>1, <1>4, <2>1, <2>2 DEF Before
  <1>10. IsFiniteSet(A)
    <2>1. F \in SUBSET Events
      OBVIOUS
    <2> HIDE DEF F
    <2> QED BY <2>1, FiniteLeaves
  <1>11. IsFiniteSet(C) /\ Cardinality(C) = i
    <2>1. IsFiniteSet({e}) /\ Cardinality({e}) = 1
      BY FS_Singleton
    <2>2. IsFiniteSet(0..(i - 1)) /\ Cardinality(0..(i - 1)) = i
      <3>1. i - 1 \in Int /\ 0 \in Int /\ (IF 0 > i - 1 THEN 0 ELSE i - 1 - 0 + 1) = i
        BY <1>1
      <3>2. /\ IsFiniteSet(0..(i - 1))
            /\ Cardinality(0..(i - 1)) = IF 0 > i - 1 THEN 0 ELSE i - 1 - 0 + 1
        BY <3>1, FS_Interval
      <3> QED BY <3>1, <3>2
    <2>3. IsFiniteSet(C) /\ Cardinality(C) = Cardinality({e}) * Cardinality(0..(i - 1))
      BY <2>1, <2>2, FS_Product
    <2> QED BY <1>1, <2>1, <2>2, <2>3
  <1>12. startPosition(rows, e) = Cardinality(A) /\ leavesBefore(e, i) = Cardinality(B)
    BY DEF startPosition, leavesBefore
  <1>13. B = A \union C
    BY <1>6, <1>7, <1>8
  <1> HIDE DEF A, B, C
  <1>14. Cardinality(A) \in Nat /\ Cardinality({}) = 0
    BY <1>10, FS_CardinalityType, FS_EmptySet
  <1>15. Cardinality(A \union C) = Cardinality(A) + Cardinality(C) - Cardinality(A \cap C)
    BY <1>10, <1>11, FS_Union
  <1>16. Cardinality(A \union C) = Cardinality(A) + i
    <2>1. Cardinality(A \cap C) = 0
      BY <1>9, <1>14, Zenon
    <2> QED BY <1>1, <1>11, <1>14, <1>15, <2>1
  <1> QED BY <1>12, <1>13, <1>16

\* What the consumer had, it has: an event that was seen or lost in a hole stays so.
LEMMA KeepsServed ==
  ASSUME UNCHANGED <<endpoint, log>>, got \subseteq got', emptied \subseteq emptied',
         filled \subseteq filled', filled \subseteq Events,
         \A f \in Events : blockOf[f] # NULL => blockOf'[f] = blockOf[f],
         NEW e \in Events, blockOf[e] # NULL, KnownHole(e) \/ Seen(e)
  PROVE  KnownHole(e)' \/ Seen(e)'
  <1>1. CASE Seen(e)
    BY <1>1 DEF Seen
  <1>2. CASE \E l \in filled :
               blockOf[l] = blockOf[e] /\ (l < e \/ (l = e /\ rowsOf(e) # {<<e, 0>>}))
    <2>1. rowsOf(e)' = rowsOf(e)
      BY DEF rowsOf, leaves, Commits
    <2> QED BY <1>2, <2>1 DEF KnownHole
  <1>3. CASE endpoint = "sync" /\ blockOf[e] \in emptied
    BY <1>3 DEF KnownHole
  <1> QED BY <1>1, <1>2, <1>3 DEF KnownHole

LEMMA StreamsStill ==
  ASSUME Streaming, UNCHANGED <<endpoint, log, blockOf, rows, indexed, cursor, got, emptied, filled,
                                reorged>>
  PROVE  Streaming'
  <1> SUFFICES ASSUME ~reorged PROVE (Current /\ Covered /\ Placed /\ Complete)'
    BY DEF Streaming
  <1>1. Current /\ Covered /\ Placed /\ Complete
    BY DEF Streaming
  <1>2. Current'
    BY <1>1 DEF Current, Agree
  <1>3. Covered'
    BY <1>1 DEF Covered
  <1>4. Placed'
    BY <1>1 DEF Placed, Commits, leavesBefore, leaves, Before
  <1>5. Complete'
    BY <1>1 DEF Complete, Streamed, rowsOf, leaves, Commits, Paged, KnownHole, Seen
  <1> QED BY <1>2, <1>3, <1>4, <1>5

LEMMA StreamsMine ==
  ASSUME Served, Streaming, MineBlock
  PROVE  Streaming'
  <1> SUFFICES ASSUME ~reorged PROVE (Current /\ Covered /\ Placed /\ Complete)'
    BY DEF Streaming, MineBlock
  <1>0. /\ TypeOK /\ Indexed /\ Current /\ Covered /\ Placed /\ Complete
        /\ head \in Nat /\ head' = head + 1 /\ cursor \in Nat
        /\ UNCHANGED <<endpoint, log, rows, indexed, cursor, got, emptied, filled>>
    BY Numbers DEF Served, Streaming, TypeOK, MineBlock, index
  <1>1. \A e \in Events : /\ blockOf'[e] = blockOf[e]
                             \/ (blockOf[e] = NULL /\ blockOf'[e] = head + 1)
                          /\ blockOf[e] # NULL => blockOf[e] \in Nat /\ blockOf[e] <= head
    BY <1>0 DEF MineBlock, Indexed
  <1>2. indexed # NULL => indexed \in Nat /\ indexed <= head
    BY <1>0, Numbers DEF Indexed, TypeOK
  <1>3. Current'
    BY <1>0, <1>1, <1>2 DEF Current, Agree
  <1>4. Covered'
    BY <1>0 DEF Covered
  <1>5. Placed'
    <2> SUFFICES ASSUME NEW x \in got
                 PROVE  /\ blockOf'[x.event] # NULL /\ x.block = blockOf'[x.event]
                        /\ Commits(x.event) => x.position = leavesBefore(x.event, x.index)'
      BY <1>0 DEF Placed, Commits
    <2>1. /\ x.event \in Events /\ blockOf[x.event] # NULL /\ x.block = blockOf[x.event]
          /\ Commits(x.event) => x.position = leavesBefore(x.event, x.index)
      BY <1>0 DEF Placed, TypeOK
    <2>2. blockOf'[x.event] = blockOf[x.event]
      BY <1>1, <2>1
    <2> DEFINE U == UNION {leaves(f) : f \in Events}
               P(y) == /\ blockOf[y[1]] # NULL /\ Commits(y[1])
                       /\ \/ Before(blockOf, y[1], x.event)
                          \/ y[1] = x.event /\ y[2] < x.index
               Q(y) == /\ blockOf'[y[1]] # NULL /\ Commits(y[1])
                       /\ \/ Before(blockOf', y[1], x.event)
                          \/ y[1] = x.event /\ y[2] < x.index
    <2>3. ASSUME NEW y \in U PROVE P(y) <=> Q(y)
      <3>1. PICK f \in Events : y \in leaves(f)
        OBVIOUS
      <3>2. y[1] = f
        BY <3>1 DEF leaves
      <3>3. blockOf[x.event] \in Nat /\ blockOf[x.event] <= head
        BY <1>1, <2>1
      <3>4. CASE blockOf'[f] = blockOf[f]
        BY <2>2, <3>2, <3>4 DEF Before
      <3>5. CASE blockOf[f] = NULL /\ blockOf'[f] = head + 1
        BY <1>0, <2>1, <2>2, <3>2, <3>3, <3>5 DEF Before
      <3> QED BY <1>1, <3>4, <3>5
    <2>4. leavesBefore(x.event, x.index) = Cardinality({y \in U : P(y)})
      BY DEF leavesBefore
    <2>5. leavesBefore(x.event, x.index)' = Cardinality({y \in U : Q(y)})
      BY <1>0 DEF leavesBefore, leaves, Commits, Before
    <2> HIDE DEF P, Q, U
    <2>6. {y \in U : P(y)} = {y \in U : Q(y)}
      BY <2>3
    <2> QED BY <2>1, <2>2, <2>4, <2>5, <2>6
  <1>6. Complete'
    <2> SUFFICES ASSUME NEW e \in Events, Streamed(e), blockOf'[e] # NULL, blockOf'[e] < cursor
                 PROVE  KnownHole(e)' \/ Seen(e)'
      BY <1>0 DEF Complete, Streamed, rowsOf, leaves, Commits, Paged
    <2>1. CASE blockOf'[e] = blockOf[e]
      <3>1. KnownHole(e) \/ Seen(e)
        BY <1>0, <2>1 DEF Complete
      <3>2. filled \subseteq Events /\ \A f \in Events : blockOf[f] # NULL => blockOf'[f] = blockOf[f]
        BY <1>0, <1>1 DEF TypeOK
      <3> QED BY <1>0, <2>1, <3>1, <3>2, KeepsServed
    <2>2. CASE blockOf[e] = NULL /\ blockOf'[e] = head + 1
      <3>1. head + 1 \in 1..(cursor - 1) /\ ~(indexed # NULL /\ head + 1 <= indexed)
        BY <1>0, <1>2, <2>2
      <3>2. endpoint = "sync" /\ head + 1 \in emptied
        BY <1>0, <3>1 DEF Covered
      <3> QED BY <1>0, <2>2, <3>2 DEF KnownHole
    <2> QED BY <1>1, <2>1, <2>2
  <1> QED BY <1>3, <1>4, <1>5, <1>6

LEMMA StreamsIndex ==
  ASSUME Served, Streaming, Index
  PROVE  Streaming'
  <1> SUFFICES ASSUME ~reorged PROVE (Current /\ Covered /\ Placed /\ Complete)'
    BY DEF Streaming, Index, chain
  <1>0. /\ TypeOK /\ Current /\ Covered /\ Placed /\ Complete
        /\ UNCHANGED <<endpoint, log, blockOf, cursor, got, emptied, filled>>
    BY DEF Served, Streaming, Index, chain
  <1>1. PICK b \in (IF indexed = NULL THEN 0 ELSE indexed)..head :
          /\ indexed' = b
          /\ rows' = [e \in Events |->
               IF blockOf[e] # NULL /\ blockOf[e] <= b THEN blockOf[e] ELSE NULL]
    BY DEF Index
  <1>2. /\ b \in Nat /\ b # NULL /\ cursor \in Nat
        /\ indexed # NULL => indexed \in Nat /\ indexed <= b
        /\ \A e \in Events : blockOf[e] # NULL => blockOf[e] \in Nat
    BY <1>0, <1>1, Numbers DEF TypeOK, Blocks
  <1>3. Current'
    BY <1>0, <1>1, <1>2 DEF Current, Agree
  <1>4. Covered'
    BY <1>0, <1>1, <1>2 DEF Covered
  <1>5. Placed'
    BY <1>0 DEF Placed, Commits, leavesBefore, leaves, Before
  <1>6. Complete'
    BY <1>0 DEF Complete, Streamed, rowsOf, leaves, Commits, Paged, KnownHole, Seen
  <1> QED BY <1>3, <1>4, <1>5, <1>6

LEMMA StreamsCheckpoint ==
  ASSUME Served, Streaming, indexedThrough \/ watcherProgressFails
  PROVE  Streaming'
  <1>0. /\ TypeOK /\ Asked /\ Indexed /\ request # NULL
        /\ UNCHANGED <<endpoint, log, head, blockOf, reorged, rows, indexed, got, frozen, filled>>
        /\ filled \subseteq Events
    BY ReadsCheckpoint DEF Served, TypeOK
  <1>1. CASE UNCHANGED <<cursor, emptied>>
    BY <1>0, <1>1, StreamsStill
  <1>2. CASE \/ endpoint = "sync" /\ cursor' = cursor + 1 /\ emptied' = emptied \union {cursor}
             \/ endpoint # "sync" /\ cursor = 0 /\ cursor' = 1 /\ emptied' = emptied
    <2> SUFFICES ASSUME ~reorged PROVE (Current /\ Covered /\ Placed /\ Complete)'
      BY <1>0 DEF Streaming
    <2>1. Current /\ Covered /\ Placed /\ Complete /\ cursor \in Nat
      BY <1>0, Numbers DEF Streaming, TypeOK
    <2>2. Current'
      BY <1>0, <2>1 DEF Current, Agree
    <2>3. Covered'
      BY <1>0, <1>2, <2>1 DEF Covered
    <2>4. Placed'
      BY <1>0, <2>1 DEF Placed, Commits, leavesBefore, leaves, Before
    <2>5. Complete'
      <3> SUFFICES ASSUME NEW e \in Events, Streamed(e), blockOf[e] # NULL, blockOf[e] < cursor'
                   PROVE  KnownHole(e)' \/ Seen(e)'
        BY <1>0 DEF Complete, Streamed, rowsOf, leaves, Commits, Paged
      <3>1. blockOf[e] \in Nat /\ blockOf[e] >= 1
        BY <1>0 DEF Indexed
      <3>2. CASE blockOf[e] < cursor
        <4>1. KnownHole(e) \/ Seen(e)
          BY <2>1, <3>2 DEF Complete
        <4> QED BY <1>0, <1>2, <4>1, KeepsServed
      <3>3. CASE ~(blockOf[e] < cursor)
        <4>1. endpoint = "sync" /\ blockOf[e] = cursor /\ cursor \in emptied'
          BY <1>2, <2>1, <3>1, <3>3
        <4> QED BY <1>0, <4>1 DEF KnownHole
      <3> QED BY <3>2, <3>3
    <2> QED BY <2>2, <2>3, <2>4, <2>5
  <1> QED BY <1>0, <1>1, <1>2, ReadsCheckpoint

\* A log with all its rows in the page is seen.
LEMMA SeenInPage ==
  ASSUME Served, respond,
         NEW items \in Pages(rows, request.from, request.to, request.limit), Responds(items),
         NEW e \in Events, Streamed(e), rowsOf(e) \subseteq items
  PROVE  Seen(e)'
  <1>1. /\ TypeOK /\ request # NULL /\ log' = log /\ got' = got \union served(items)
    BY RespondStep DEF Served, Responds
  <1>2. elementsOf(e) \subseteq got'
    BY <1>1, ServedElements
  <1>3. ASSUME NEW i \in 0..(log[e].size - 1)
        PROVE  \E x \in got' : x.event = e /\ x.index = i
    <2> DEFINE x == element(e, i)
    <2>1. x \in elementsOf(e)
      BY DEF elementsOf
    <2>2. x.event = e /\ x.index = i
      BY DEF element
    <2> HIDE DEF x
    <2> QED BY <1>2, <2>1, <2>2
  <1> QED BY <1>1, <1>3 DEF Seen

LEMMA StreamsRespond ==
  ASSUME Served, Streaming, respond
  PROVE  Streaming'
  <1>a. PICK items \in Pages(rows, request.from, request.to, request.limit) : Responds(items)
    BY RespondStep
  <1> DEFINE next == Resume(items)
             l == lastLog(items)
  <1>0. /\ TypeOK /\ Asked /\ Indexed /\ request # NULL /\ request.stage = "rows"
        /\ got' = got \union served(items) /\ cursor' = next
        /\ filled' = (IF Full(items) THEN filled \union {l} ELSE filled)
        /\ filled \subseteq Events
        /\ UNCHANGED <<endpoint, log, head, blockOf, reorged, rows, indexed, emptied>>
    BY <1>a, RespondStep DEF Served, Responds, TypeOK
  <1> SUFFICES ASSUME ~reorged PROVE (Current /\ Covered /\ Placed /\ Complete)'
    BY <1>0 DEF Streaming
  <1>1. Current /\ Covered /\ Placed /\ Complete
    BY DEF Streaming
  <1>2. /\ logsOf(items) \in SUBSET Events
        /\ \A e \in logsOf(items) : /\ e \in InRange(rows, request.from, request.to)
                                    /\ rows[e] \in Blocks /\ rows[e] \in Nat /\ log[e] \in Log
                                    /\ \E x \in items : x[1] = e /\ x \in rowsOf(e)
    BY <1>0, Items, Numbers
  <1>3. /\ \A e \in Events : /\ rows[e] # NULL => /\ rows[e] \in Nat /\ rows[e] <= indexed
                                                  /\ indexed # NULL
                             /\ blockOf[e] # NULL => blockOf[e] \in Nat
        /\ indexed # NULL => indexed \in Nat
        /\ request.from = cursor /\ cursor \in Nat
        /\ request.through # NULL => /\ request.through \in Nat /\ request.through <= indexed
                                     /\ indexed # NULL
        /\ request.to # NULL => request.to \in Nat
    BY <1>0, RequestType, Numbers DEF Indexed, TypeOK, Asked
  <1>4. \A e \in Events : /\ rows[e] # NULL => blockOf[e] = rows[e]
                          /\ blockOf[e] # NULL /\ indexed # NULL /\ blockOf[e] <= indexed
                               => rows[e] = blockOf[e]
    BY <1>1, <1>3 DEF Current, Agree
  <1>5. \/ Full(items) /\ next = rows[l] + 1
        \/ /\ ~Full(items)
           /\ \/ next = cursor
              \/ /\ request.through # NULL /\ next - 1 <= request.through
                 /\ next \in Nat /\ next > cursor
                 /\ request.to # NULL => next - 1 <= request.to
    BY <1>0, Resumes
  <1>6. /\ Full(items) => /\ l \in logsOf(items)
                          /\ \A f \in logsOf(items) \ {l} : Before(rows, f, l)
        /\ ~Full(items) => items = rowsInRange(rows, request.from, request.to)
    BY <1>0, LastRow
  <1>7. \A e \in Events : Streamed(e) /\ rowsOf(e) \subseteq items => Seen(e)'
    BY <1>a, SeenInPage
  <1>8. \A x \in served(items) : \E e \in logsOf(items) : x \in elementsOf(e)
    BY <1>0, ServedElements
  <1> HIDE DEF next, l
  <1>9. Current'
    BY <1>0, <1>1 DEF Current, Agree
  <1>10. Covered'
    <2> SUFFICES ASSUME NEW b \in 1..(next - 1), ~(b \in 1..(cursor - 1))
                 PROVE  indexed # NULL /\ b <= indexed
      BY <1>0, <1>1 DEF Covered
    <2>1. CASE Full(items) /\ next = rows[l] + 1
      <3>1. l \in Events /\ rows[l] \in Nat /\ rows[l] # NULL
        BY <1>2, <1>6, <2>1, Numbers
      <3>2. rows[l] <= indexed /\ indexed # NULL /\ indexed \in Nat
        BY <1>3, <3>1
      <3> QED BY <2>1, <3>1, <3>2
    <2>2. CASE /\ request.through # NULL /\ next - 1 <= request.through
               /\ next \in Nat /\ next > cursor
      BY <1>3, <2>2
    <2>3. CASE next = cursor
      BY <2>3
    <2> QED BY <1>5, <2>1, <2>2, <2>3
  <1>11. Placed'
    <2> SUFFICES ASSUME NEW x \in got'
                 PROVE  /\ blockOf[x.event] # NULL /\ x.block = blockOf[x.event]
                        /\ Commits(x.event) => x.position = leavesBefore(x.event, x.index)
      BY <1>0 DEF Placed, Commits, leavesBefore, leaves, Before
    <2>1. CASE x \in got
      BY <1>1, <2>1 DEF Placed
    <2>2. CASE x \in served(items)
      <3>1. PICK e \in logsOf(items) : x \in elementsOf(e)
        BY <1>8, <2>2
      <3>2. e \in Events /\ log[e] \in Log /\ rows[e] # NULL
        BY <1>2, Numbers
      <3>3. /\ x.event = e /\ x.index \in 0..(log[e].size - 1) /\ x.block = rows[e]
            /\ Commits(e) => x.position = startPosition(rows, e) + x.index
        BY <3>1, <3>2, Elements
      <3>4. Commits(e) => startPosition(rows, e) + x.index = leavesBefore(e, x.index)
        BY <1>0, <1>1, <3>2, <3>3, Positions
      <3> QED BY <1>4, <3>2, <3>3, <3>4
    <2> QED BY <1>0, <2>1, <2>2
  <1>12. Complete'
    <2> SUFFICES ASSUME NEW e \in Events, Streamed(e), blockOf[e] # NULL, blockOf[e] < next
                 PROVE  KnownHole(e)' \/ Seen(e)'
      BY <1>0 DEF Complete, Streamed, rowsOf, leaves, Commits, Paged
    <2>1. CASE blockOf[e] < cursor
      <3>1. KnownHole(e) \/ Seen(e)
        BY <1>1, <2>1 DEF Complete
      <3> QED BY <1>0, <3>1, KeepsServed
    <2>2. CASE ~(blockOf[e] < cursor) /\ Full(items) /\ next = rows[l] + 1
      <3>1. /\ l \in Events /\ rows[l] \in Nat /\ rows[l] # NULL
            /\ request.to # NULL => rows[l] <= request.to
        BY <1>2, <1>6, <2>2, Numbers DEF InRange
      <3>2. rows[l] <= indexed /\ indexed # NULL /\ indexed \in Nat
        BY <1>3, <3>1
      <3>3. blockOf[e] \in Nat /\ blockOf[e] <= rows[l]
        BY <1>3, <2>2, <3>1
      <3>4. rows[e] = blockOf[e] /\ blockOf[l] = rows[l]
        BY <1>4, <3>1, <3>2, <3>3
      <3>5. e \in InRange(rows, request.from, request.to)
        <4>1. rows[e] >= request.from
          BY <1>3, <2>2, <3>3, <3>4
        <4>2. request.to # NULL => rows[e] <= request.to
          BY <1>3, <3>1, <3>3, <3>4
        <4> QED BY <3>4, <4>1, <4>2 DEF InRange
      <3>6. rowsOf(e) \subseteq rowsInRange(rows, request.from, request.to)
        BY <1>0, <3>5, RangeRows
      <3>7. l \in filled'
        BY <1>0, <2>2
      <3>8. e \in Nat /\ l \in Nat
        BY <3>1, FeedAssumption
      <3>9. CASE Before(rows, e, l)
        <4>1. PICK y \in items : y[1] = l
          BY <1>2, <1>6, <2>2
        <4>2. \A x \in rowsOf(e) : x[1] = e
          BY <1>0, RowsOf
        <4>3. rowsOf(e) \subseteq items
          BY <3>6, <3>9, <4>1, <4>2, PageRows
        <4> QED BY <1>7, <4>3
      <3>10. CASE ~Before(rows, e, l) /\ e # l
        <4>1. rows[e] = rows[l] /\ l < e
          BY <3>1, <3>3, <3>4, <3>8, <3>10 DEF Before
        <4> QED BY <1>0, <3>4, <3>7, <4>1 DEF KnownHole
      <3>11. CASE e = l /\ rowsOf(e) # {<<e, 0>>}
        <4>1. rowsOf(e)' = rowsOf(e)
          BY <1>0 DEF rowsOf, leaves, Commits
        <4> QED BY <1>0, <3>7, <3>11, <4>1 DEF KnownHole
      <3>12. CASE e = l /\ rowsOf(e) = {<<e, 0>>}
        <4>1. PICK y \in items : y \in rowsOf(e)
          BY <1>2, <1>6, <2>2, <3>12
        <4> QED BY <1>7, <3>12, <4>1
      <3> QED BY <3>9, <3>10, <3>11, <3>12
    <2>3. CASE /\ ~(blockOf[e] < cursor) /\ ~Full(items)
               /\ request.through # NULL /\ next - 1 <= request.through
               /\ next \in Nat /\ next > cursor
               /\ request.to # NULL => next - 1 <= request.to
      <3>1. blockOf[e] \in Nat /\ blockOf[e] <= request.through /\ indexed # NULL
            /\ blockOf[e] <= indexed
            /\ (request.to # NULL => blockOf[e] <= request.to)
        BY <1>3, <2>3
      <3>2. rows[e] = blockOf[e]
        BY <1>4, <3>1
      <3>3. e \in InRange(rows, request.from, request.to)
        <4>1. rows[e] >= request.from
          BY <1>3, <2>3, <3>1, <3>2
        <4> QED BY <3>1, <3>2, <4>1 DEF InRange
      <3>4. rowsOf(e) \subseteq items
        BY <1>0, <1>6, <2>3, <3>3, RangeRows
      <3> QED BY <1>7, <3>4
    <2>4. CASE next = cursor
      BY <2>1, <2>4
    <2> QED BY <1>5, <2>1, <2>2, <2>3, <2>4
  <1> QED BY <1>9, <1>10, <1>11, <1>12

LEMMA StreamsInit == Init => Streaming
  BY DEF Init, Streaming, Current, Covered, Placed, Complete

LEMMA StreamsStep == Served /\ Streaming /\ [Next]_vars => Streaming'
  <1> SUFFICES ASSUME Served, Streaming, [Next]_vars PROVE Streaming'
    OBVIOUS
  <1>1. CASE receive \/ decodeThrows \/ UNCHANGED vars
    <2>1. UNCHANGED <<endpoint, log, blockOf, rows, indexed, cursor, got, emptied, filled, reorged>>
      BY <1>1 DEF receive, decodeThrows, vars, chain, index
    <2> QED BY <2>1, StreamsStill
  <1>2. CASE Reorg
    BY <1>2 DEF Reorg, Streaming
  <1> QED BY <1>1, <1>2, StreamsCheckpoint, StreamsRespond, StreamsMine, StreamsIndex DEF Next

\* A consumer that follows the cursors of any endpoint, on a chain that does not
\* reorganise, misses no log but in the two known holes, and has every leaf at its
\* place in the contract's tree: for any logs, page size and window, and with the
\* index moving on between the handler's two reads.
THEOREM StreamIsComplete == Spec => []StreamComplete
  <1>1. Streaming => StreamComplete
    <2> SUFFICES ASSUME Streaming, ~reorged, NEW e \in Events, Seen(e),
                        NEW i \in 0..(log[e].size - 1)
                 PROVE  \E x \in got :
                          /\ x.event = e /\ x.index = i /\ x.block = blockOf[e]
                          /\ Commits(e) => x.position = leavesBefore(e, i)
      BY DEF Streaming, Complete, StreamComplete
    <2>1. PICK x \in got : x.event = e /\ x.index = i
      BY DEF Seen
    <2> QED BY <2>1 DEF Streaming, Placed
  <1>2. Served /\ Streaming /\ [Next]_vars => (Served /\ Streaming)'
    BY ServedStep, StreamsStep
  <1>3. Init => Served /\ Streaming
    BY ServedInit, StreamsInit
  <1> QED BY <1>1, <1>2, <1>3, PTL DEF Spec
=============================================================================
