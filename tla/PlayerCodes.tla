---------------------------- MODULE PlayerCodes ----------------------------
(***************************************************************************)
(* _next_player_code: the public player codes, one block of numbers and    *)
(* one counter row per category, allocated inside the transaction of a     *)
(* submit or of an edit that changes the category.                         *)
(*                                                                         *)
(* A statement is a step.  An UPDATE or INSERT of a counter row keeps the  *)
(* row locked until its transaction ends, and nobody else sees the new     *)
(* value before; a database adopted without the seeding migration starts   *)
(* with counters missing.  A code is <<category, number>>: the blocks are  *)
(* disjoint as long as a category stays below 10^6 players.                *)
(***************************************************************************)
EXTENDS Integers

CONSTANTS
    Categories,
    Txs, NoTx,
    Apps, NoApp,
    Legacy,         \* may counters be missing at the start?
    MaxNumber       \* bound: numbers per category

ASSUME CodeAssumption ==
    /\ NoTx \notin Txs /\ NoApp \notin Apps
    /\ Categories # {}
    /\ Legacy \in BOOLEAN
    /\ MaxNumber \in Nat

VARIABLES
    counter,    \* the committed last_code of each category, Missing without a row
    holder,     \* the transaction that holds the counter row, or NoTx
    draft,      \* the value the holder of a counter row has written to it
    stored,     \* the applications that have a row
    code,       \* the player_code of each, NoCode for the NULL of a legacy row
    retired,    \* observer: codes taken off an application while their
                \* category had its counter
    tx

vars == <<counter, holder, draft, stored, code, retired, tx>>

Missing == -1
Codes == Categories \X (1 .. MaxNumber)
NoCode == <<>>

Resting == [pc |-> "idle", cat |-> CHOOSE c \in Categories : TRUE,
            round |-> 0, number |-> 0, app |-> NoApp]

\* The first round of an allocation, for a new application or for a.
First(c, a) == [pc |-> "update", cat |-> c, round |-> 1, number |-> 0, app |-> a]

\* The codes on applications.
Live == {code[a] : a \in stored} \ {NoCode}

\* The number the seed is computed from: the highest on an application of c,
\* or the base of the block.
Highest(c, m) ==
    /\ m = 0 \/ <<c, m>> \in Live
    /\ \A n \in 1 .. MaxNumber : <<c, n>> \in Live => n <= m

\* The counter rows as transaction t sees them.
Seen(t, c) == IF holder[c] = t THEN draft[c] ELSE counter[c]
Free(t, c) == holder[c] \in {NoTx, t}

Goto(t, pc) == tx' = [tx EXCEPT ![t].pc = pc]

-----------------------------------------------------------------------------
\* The migration seeds each counter at or above the codes in use.
Init ==
    /\ stored \in SUBSET Apps
    /\ code \in [Apps -> (Categories \X (1 .. MaxNumber - 1)) \cup {NoCode}]
    /\ \A a \in Apps \ stored : code[a] = NoCode
    /\ \A a, b \in stored : a # b => code[a] = NoCode \/ code[a] # code[b]
    /\ counter \in [Categories -> {Missing} \cup 0 .. MaxNumber - 1]
    /\ \A c \in Categories :
          IF counter[c] = Missing THEN Legacy
          ELSE \A n \in 1 .. MaxNumber : <<c, n>> \in Live => n <= counter[c]
    /\ holder = [c \in Categories |-> NoTx]
    /\ draft = [c \in Categories |-> 0]
    /\ retired = {}
    /\ tx = [t \in Txs |-> Resting]

\* submit_registration, for a new application ...
BeginSubmit(t, c) ==
    /\ tx[t].pc = "idle"
    /\ tx' = [tx EXCEPT ![t] = First(c, NoApp)]
    /\ UNCHANGED <<counter, holder, draft, stored, code, retired>>

\* ... and update_profile of application a, when its category changes or it
\* never had a code.  The player may do so from two chats at once.
BeginEdit(t, c, a) ==
    /\ tx[t].pc = "idle"
    /\ a \in stored
    /\ code[a] # NoCode => code[a][1] # c
    /\ tx' = [tx EXCEPT ![t] = First(c, a)]
    /\ UNCHANGED <<counter, holder, draft, stored, code, retired>>

\* Mutant: the counter is read and written without the row lock.
UpdateUnlocked(t) ==
    /\ tx[t].pc = "update"
    /\ LET c == tx[t].cat IN
       /\ Seen(t, c) # Missing /\ Seen(t, c) < MaxNumber
       /\ draft' = [draft EXCEPT ![c] = Seen(t, c) + 1]
       /\ holder' = [holder EXCEPT ![c] = t]
       /\ tx' = [tx EXCEPT ![t].pc = "allocated", ![t].number = Seen(t, c) + 1]
    /\ UNCHANGED <<counter, stored, code, retired>>

\* UPDATE ... SET last_code = last_code + 1 RETURNING: takes the row lock.
Update(t) ==
    /\ tx[t].pc = "update"
    /\ LET c == tx[t].cat IN
       /\ Seen(t, c) # Missing /\ Seen(t, c) < MaxNumber
       /\ Free(t, c)
       /\ draft' = [draft EXCEPT ![c] = Seen(t, c) + 1]
       /\ holder' = [holder EXCEPT ![c] = t]
       /\ tx' = [tx EXCEPT ![t].pc = "allocated", ![t].number = Seen(t, c) + 1]
    /\ UNCHANGED <<counter, stored, code, retired>>

\* No row was updated: the highest code in the block, then the seed.
Scan(t) ==
    /\ tx[t].pc = "update"
    /\ LET c == tx[t].cat IN
       /\ Seen(t, c) = Missing
       /\ \E m \in 0 .. MaxNumber :
             Highest(c, m) /\ tx' = [tx EXCEPT ![t].pc = "scanned", ![t].number = m]
    /\ UNCHANGED <<counter, holder, draft, stored, code, retired>>

\* The end of a round of the loop: two are all it makes.
Again(t) ==
    tx' = [tx EXCEPT ![t].pc = IF @ = "scanned" /\ tx[t].round < 2 THEN "update" ELSE "failed",
                     ![t].round = @ + 1]

\* Mutant: a lost seeding race ends the allocation.
SeedLostGivesUp(t) ==
    /\ tx[t].pc = "scanned"
    /\ holder[tx[t].cat] = NoTx /\ counter[tx[t].cat] # Missing
    /\ Goto(t, "failed")
    /\ UNCHANGED <<counter, holder, draft, stored, code, retired>>

\* The INSERT in the SAVEPOINT waits for a concurrent one, and is refused when
\* that one was committed.
SeedLost(t) ==
    /\ tx[t].pc = "scanned"
    /\ holder[tx[t].cat] = NoTx /\ counter[tx[t].cat] # Missing
    /\ Again(t)
    /\ UNCHANGED <<counter, holder, draft, stored, code, retired>>

\* Mutant: an empty block seeds NULL instead of its base.
SeedNoBase(t) ==
    /\ tx[t].pc = "scanned"
    /\ LET c == tx[t].cat IN
       /\ holder[c] = NoTx /\ counter[c] = Missing
       /\ holder' = [holder EXCEPT ![c] = t]
       /\ draft' = [draft EXCEPT ![c] =
             IF tx[t].number = 0 THEN Missing ELSE tx[t].number]
    /\ Again(t)
    /\ UNCHANGED <<counter, stored, code, retired>>

Seed(t) ==
    /\ tx[t].pc = "scanned"
    /\ LET c == tx[t].cat IN
       /\ holder[c] = NoTx /\ counter[c] = Missing
       /\ holder' = [holder EXCEPT ![c] = t]
       /\ draft' = [draft EXCEPT ![c] = tx[t].number]
    /\ Again(t)
    /\ UNCHANGED <<counter, stored, code, retired>>

-----------------------------------------------------------------------------
\* The rows held by t are released, with (commit) or without what it wrote.
Released(t) ==
    /\ holder' = [c \in Categories |-> IF holder[c] = t THEN NoTx ELSE holder[c]]
    /\ draft' = [c \in Categories |-> IF holder[c] = t THEN 0 ELSE draft[c]]
    /\ tx' = [tx EXCEPT ![t] = Resting]

\* The code an application loses.
Retire(a) ==
    retired' = retired \cup {k \in {code[a]} \ {NoCode} : counter[k[1]] # Missing}

\* The application is written with its code.  The code it had is given up; an
\* application erased meanwhile is not written (StaleDataError).
Written(t) ==
    LET new == <<tx[t].cat, tx[t].number>> IN
    IF tx[t].app = NoApp
    THEN \E a \in Apps \ stored :
            /\ stored' = stored \cup {a}
            /\ code' = [code EXCEPT ![a] = new]
            /\ UNCHANGED retired
    ELSE /\ tx[t].app \in stored
         /\ code' = [code EXCEPT ![tx[t].app] = new]
         /\ Retire(tx[t].app)
         /\ UNCHANGED stored

\* Mutant: the counter is not part of the transaction that uses it.
CommitKeepsCounter(t) ==
    /\ tx[t].pc = "allocated"
    /\ Written(t)
    /\ counter' = [c \in Categories |->
          IF holder[c] = t /\ counter[c] = Missing THEN draft[c] ELSE counter[c]]
    /\ Released(t)

Commit(t) ==
    /\ tx[t].pc = "allocated"
    /\ Written(t)
    /\ counter' = [c \in Categories |-> IF holder[c] = t THEN draft[c] ELSE counter[c]]
    /\ Released(t)

\* Any failure, a duplicate contact or the application of an edit gone among
\* them, rolls the counter back too.
Rollback(t) ==
    /\ tx[t].pc # "idle"
    /\ Released(t)
    /\ UNCHANGED <<counter, stored, code, retired>>

\* /withdraw deletes an application, with its code.
Erase(a) ==
    /\ a \in stored
    /\ stored' = stored \ {a}
    /\ code' = [code EXCEPT ![a] = NoCode]
    /\ Retire(a)
    /\ UNCHANGED <<counter, holder, draft, tx>>

Continue(t) ==
    Update(t) \/ Scan(t) \/ SeedLost(t) \/ Seed(t) \/ Commit(t)

Next ==
    \/ \E t \in Txs :
          \/ \E c \in Categories :
                \/ BeginSubmit(t, c)
                \/ \E a \in Apps : BeginEdit(t, c, a)
          \/ Continue(t)
          \/ Rollback(t)
    \/ \E a \in Apps : Erase(a)

Spec == Init /\ [][Next]_vars
-----------------------------------------------------------------------------
\* Properties

TypeOK ==
    /\ counter \in [Categories -> {Missing} \cup 0 .. MaxNumber]
    /\ holder \in [Categories -> Txs \cup {NoTx}]
    /\ draft \in [Categories -> 0 .. MaxNumber]
    /\ stored \subseteq Apps
    /\ code \in [Apps -> Codes \cup {NoCode}]
    /\ retired \subseteq Codes
    /\ tx \in [Txs -> [pc : {"idle", "update", "scanned", "allocated", "failed"},
                       cat : Categories, round : 0 .. 3, number : 0 .. MaxNumber,
                       app : Apps \cup {NoApp}]]

\* A code under allocation is on no application and with no other transaction,
\* so that the UNIQUE index on player_code never refuses a submit: two players
\* confirming at the same moment are not handed the same code, not even while
\* they race to seed a missing counter.
CodesAreFresh ==
    \A t \in Txs : tx[t].pc = "allocated" =>
        LET new == <<tx[t].cat, tx[t].number>> IN
        /\ new \notin Live
        /\ \A s \in Txs \ {t} : tx[s].pc = "allocated" => new # <<tx[s].cat, tx[s].number>>

\* Two rounds are enough: the loop never falls through to its RuntimeError.
AllocationSucceeds == \A t \in Txs : tx[t].pc # "failed"

\* A code that was given up is not issued again once its category has a
\* counter, as the comment in update_profile says.  (While the counter is
\* missing it may be: the seed only knows the codes still on an application.)
RetiredForGood == retired \cap Live = {}
=============================================================================
