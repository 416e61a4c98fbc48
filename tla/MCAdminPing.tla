---------------------------- MODULE MCAdminPing ----------------------------
(* Instances of AdminPing for TLC. *)
EXTENDS AdminPing, TLC

\* No definition tells one application, or one admin, from another.
Symmetry == Permutations(Apps) \cup Permutations(Admins)
=============================================================================
