------------------------ MODULE ApplicationLifecycle ------------------------
(***************************************************************************)
(* What the bot promises about an application, whatever runs at the same   *)
(* time: it is filed once, for an owner with no other application under    *)
(* review or approved; it is decided at most once and the decision stands; *)
(* the player hears of it at most once and only after it was taken; and an *)
(* owner's applications disappear together, for good.                      *)
(***************************************************************************)
EXTENDS Naturals

CONSTANTS Apps, Owners, NoOwner

VARIABLES life, owner, notices
lifeVars == <<life, owner, notices>>

LifeInit ==
    /\ life = [a \in Apps |-> "unused"]
    /\ owner = [a \in Apps |-> NoOwner]
    /\ notices = [a \in Apps |-> 0]

\* The new owner is any: it is written owner'[a] so that Owners may be infinite.
File(a) ==
    /\ life[a] = "unused"
    /\ owner'[a] \in Owners
    /\ \A b \in Apps : owner[b] = owner'[a] => life[b] = "rejected"
    /\ life' = [life EXCEPT ![a] = "pending_review"]
    /\ owner' = [owner EXCEPT ![a] = owner'[a]]
    /\ UNCHANGED notices

Decide(a, v) ==
    /\ life[a] = "pending_review"
    /\ life' = [life EXCEPT ![a] = v]
    /\ UNCHANGED <<owner, notices>>

Notify(a) ==
    /\ life[a] \in {"approved", "rejected", "erased"}
    /\ notices[a] = 0
    /\ notices' = [notices EXCEPT ![a] = 1]
    /\ UNCHANGED <<life, owner>>

\* All the applications of one owner disappear.
Erase(a) ==
    /\ owner[a] \in Owners
    /\ life' = [b \in Apps |-> IF owner[b] = owner[a] THEN "erased" ELSE life[b]]
    /\ UNCHANGED <<owner, notices>>

LifeNext ==
    \E a \in Apps :
        \/ File(a)
        \/ \E v \in {"approved", "rejected"} : Decide(a, v)
        \/ Notify(a)
        \/ Erase(a)

LifeSpec == LifeInit /\ [][LifeNext]_lifeVars
=============================================================================
