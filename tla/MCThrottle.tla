------------------------------ MODULE MCThrottle ------------------------------
(* An instance of Throttle for TLC. *)
EXTENDS Throttle, TLC

CONSTANTS u1, u2

Interchangeable == Permutations(Users)
=============================================================================
