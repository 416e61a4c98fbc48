------------------------------ MODULE MCRowLocks ------------------------------
(* Instances of RowLocks for TLC. *)
EXTENDS RowLocks, TLC

\* Updates, players, counters and contacts are interchangeable.
Interchangeable ==
    Permutations(Tx) \cup Permutations(Players) \cup Permutations(Counters)
        \cup Permutations(Contacts)
=============================================================================
