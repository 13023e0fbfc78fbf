----------------------------- MODULE MC_FeeQuotes -----------------------------
(* Instances of FeeQuotes for TLC: amounts are scaled down to TLC's integers. *)
EXTENDS FeeQuotes, TLC

MCReadings == {[price |-> 30, stale |-> FALSE], [price |-> 17, stale |-> FALSE],
               [price |-> 50, stale |-> TRUE], [price |-> 2, stale |-> FALSE]}
MCGasEstimates == [key \in Tiers |-> IF key \in ShieldTiers THEN 3 ELSE 5]
=============================================================================
