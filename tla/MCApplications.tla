--------------------------- MODULE MCApplications ---------------------------
(* Instances of Applications for TLC. *)
EXTENDS Applications, TLC

CONSTANTS u1, u2, s1, s2

\* One player with two chats (private, and one with the bot in a group) ...
TwoChats == (s1 :> u1) @@ (s2 :> u1)
\* ... and two players with one chat each.
TwoPlayers == (s1 :> u1) @@ (s2 :> u2)
OneChat == s1 :> u1

\* The chats of one player, admins, ids and contacts are interchangeable.
Interchangeable ==
    Permutations(Sessions) \cup Permutations(Admins) \cup Permutations(Apps)
        \cup Permutations(Contacts)
\* Players are not, because UserOf names them; ids and contacts still are.
InterchangeableData ==
    Permutations(Admins) \cup Permutations(Apps) \cup Permutations(Contacts)
=============================================================================
