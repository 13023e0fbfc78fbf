---------------------------- MODULE MC_EventFeeds ----------------------------
(* Instances of EventFeeds for TLC. *)
EXTENDS EventFeeds, TLC

L(kind, size) == [kind |-> kind, size |-> size, erc20 |-> TRUE]

Leaves == <<L("Shield", 2), L("Transact", 1)>>
Mixed == <<L("Nullified", 2), [kind |-> "Shield", size |-> 1, erc20 |-> FALSE]>>
Withdrawals == <<L("Unshield", 1), L("CrossChainUnshieldInitiated", 1)>>

\* Each endpoint with the logs it tells apart.
MCStreams ==
  ({"logs", "sync", "native"} \X {Leaves})
    \union ({"commitments", "nullifiers", "sync", "native"} \X {Mixed})
    \union {<<"sync", Withdrawals>>}
=============================================================================
