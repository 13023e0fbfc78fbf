----------------------------- MODULE MC_ActorHttp -----------------------------
(* Instances of ActorHttp for TLC. *)
EXTENDS ActorHttp, TLC
=============================================================================
