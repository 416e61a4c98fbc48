---------------------------- MODULE MCPlayerCodes ----------------------------
(* An instance of PlayerCodes for TLC. *)
EXTENDS PlayerCodes, TLC

Interchangeable == Permutations(Txs) \cup Permutations(Apps)
=============================================================================
