------------------------- MODULE MCRegistrationForm -------------------------
(* Instances of RegistrationForm for TLC. *)
EXTENDS RegistrationForm, TLC

CONSTANTS c1, c2, r1, r2

OneRoleEach == (r1 :> c1) @@ (r2 :> c2)

\* The two categories are interchangeable, each along with its role.
Interchangeable ==
    {f \in Permutations({c1, c2, r1, r2}) :
        \A r \in Roles : f[r] \in Roles /\ f[CategoryOf[r]] = CategoryOf[f[r]]}
=============================================================================
