--------------------------- MODULE MC_NonceStream ---------------------------
(* Instances of NonceStream for TLC. *)
EXTENDS NonceStream, TLC
=============================================================================
