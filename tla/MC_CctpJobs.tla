----------------------------- MODULE MC_CctpJobs -----------------------------
(* Instances of CctpJobs for TLC. *)
EXTENDS CctpJobs, TLC

MCBackoff == [n \in 1..MAX_RELAY_RETRIES |-> 2 ^ (n - 1)]

\* Messages are interchangeable where all of them are relayed, hashes and
\* instances always.
MessageSymmetry == Permutations(Messages) \union Permutations(TxIds)
InstanceSymmetry == Permutations(TxIds) \union Permutations(Actors)
=============================================================================
