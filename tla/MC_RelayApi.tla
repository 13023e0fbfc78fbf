---------------------------- MODULE MC_RelayApi ----------------------------
(* Instances of RelayApi for TLC. *)
EXTENDS RelayApi, TLC

CONSTANTS r1, r2, r3, p1, k1

\* Two calls with one key and one with none, all of the same calldata.
MCPayloadOf == [r \in Requests |-> p1]
MCKeyOf == [r \in Requests |-> IF r \in {r1, r2} THEN k1 ELSE NULL]
=============================================================================
