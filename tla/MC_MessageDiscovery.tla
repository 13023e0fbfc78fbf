------------------------- MODULE MC_MessageDiscovery -------------------------
(* Instances of MessageDiscovery for TLC. *)
EXTENDS MessageDiscovery, TLC
=============================================================================
