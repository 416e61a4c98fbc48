------------------------------ MODULE RowLocks ------------------------------
(***************************************************************************)
(* The order in which the transactions of the bot take their row locks.    *)
(*                                                                         *)
(* Applications cuts a transaction before its first write and treats what  *)
(* follows as one step; here its writes are taken one statement at a time. *)
(* A statement locks the rows it writes until the transaction ends, and    *)
(* waits for any transaction that holds one of them: two transactions that *)
(* lock the same rows in different orders wait for each other until        *)
(* PostgreSQL aborts one.  The session is made with autoflush=False, so an *)
(* object that is changed is written at the next flush and not before the  *)
(* statements in between; a flush writes users, applications and logs in   *)
(* this order and deletes in the opposite one.                             *)
(*                                                                         *)
(* Lock modes are PostgreSQL's: "K" FOR KEY SHARE (a foreign key check),   *)
(* "N" FOR NO KEY UPDATE (an UPDATE), "X" FOR UPDATE (a DELETE, or an      *)
(* UPDATE of a column with a UNIQUE index).                                *)
(***************************************************************************)
EXTENDS Naturals, Sequences

CONSTANTS
    Tx,           \* updates under way at once, each with its transaction
    Players,
    Counters,     \* player_code_counters, one row per category
    Contacts,     \* nickname and e-mail, UNIQUE on users
    NoContact,
    MaxFilings,   \* bound: applications filed per player
    MaxErasures   \* bound: erasures per player

ASSUME LockAssumption ==
    /\ NoContact \notin Contacts
    /\ MaxFilings \in Nat /\ MaxErasures \in Nat

VARIABLES
    db,     \* db[p]: what is committed about player p
    job,    \* job[t]: the work of transaction t
    held    \* held[t]: the locks of transaction t

vars == <<db, job, held>>

\* gen tells the users rows of a player apart: an erasure ends one.  app is the
\* number of applications filed, active whether the last one is not rejected.
Stranger == [gen |-> 0, row |-> FALSE, contact |-> NoContact, app |-> 0, active |-> FALSE]

Kinds == {"submit", "edit_contact", "edit_profile", "decide", "withdraw", "touch"}
Modes == {"K", "N", "X"}

\* The statements: what each writes, which one, and in which mode.
Bump(k)   == [on |-> "counter", which |-> k, mode |-> "N"]   \* UPDATE player_code_counters
Row(m)    == [on |-> "row", which |-> "-", mode |-> m]       \* the users row read before
Insert    == [on |-> "insert", which |-> "-", mode |-> "N"]  \* INSERT users
Value(c)  == [on |-> "value", which |-> c, mode |-> "N"]     \* its UNIQUE nickname and e-mail
App(n, m) == [on |-> "app", which |-> n, mode |-> m]         \* the n-th application
Slot      == [on |-> "slot", which |-> "-", mode |-> "N"]    \* INSERT applications

None == [kind |-> "none"]
Busy(t) == job[t].kind # "none"

-----------------------------------------------------------------------------
\* The statements of each handler, in the order the session emits them.


\* submit_registration.  get_or_create flushes a new account at once; the
\* contact details, or the Telegram username alone (no UNIQUE column), are
\* flushed with the application, after the code.
Submit(p, k, c) ==
    IF ~db[p].row THEN {<<Insert, Bump(k), Value(c), Slot>>}
    ELSE IF c = db[p].contact THEN {<<Bump(k), Slot, Row("K")>>, <<Bump(k), Row("N"), Slot>>}
    ELSE {<<Bump(k), Row("X"), Value(c), Slot>>}

\* update_contact.  Nothing changed: only the log row's foreign key is checked.
EditContact(p, c) ==
    IF c = db[p].contact THEN <<App(db[p].app, "K")>>
    ELSE <<Row("X"), Value(c), App(db[p].app, "N")>>

\* update_profile, without or with a new player code.
EditProfile(p) ==
    {<<App(db[p].app, "N")>>} \cup {<<Bump(k), App(db[p].app, "X")>> : k \in Counters}

\* erase_user_data: the applications, rejected ones too, then the users row.
Withdraw(p) == [n \in 1 .. db[p].app |-> App(n, "X")] \o <<Row("X")>>

\* set_language, or set_active, which knows accounts with a row only.
Touch(p) == IF db[p].row THEN <<Row("N")>> ELSE <<Insert>>

-----------------------------------------------------------------------------
\* The locks a statement of t takes.  ON DELETE CASCADE makes the DELETE of a
\* users row that of its applications, the ones filed since they were loaded too.
Takes(t, s) ==
    LET p == job[t].player
        on == CASE s.on = "insert" -> <<"row", p, db[p].gen>>
                [] s.on = "row"    -> <<"row", p, job[t].gen>>
                [] s.on = "app"    -> <<"app", p, s.which>>
                [] s.on = "slot"   -> <<"slot", p, "-">>
                [] OTHER           -> <<s.on, s.which, "-">>
        cascade == IF s.on = "row" /\ job[t].kind = "withdraw" /\ job[t].gen = db[p].gen
                   THEN {<<"app", p, n>> : n \in 1 .. db[p].app} ELSE {}
    IN  {[on |-> x, mode |-> s.mode] : x \in {on} \cup cascade}

\* The rows it waits for without locking them: a unique index makes an INSERT
\* wait for whoever changes the row that has the same contact, or the active
\* application.
Watches(t, s) ==
    LET p == job[t].player
        rows == CASE s.on = "value" -> {<<"row", q, db[q].gen>> :
                        q \in {q \in Players \ {p} : db[q].contact = s.which}}
                  [] s.on = "slot" /\ db[p].active -> {<<"app", p, db[p].app>>}
                  [] OTHER -> {}
    IN  {[on |-> x, mode |-> "N"] : x \in rows}

Conflict(m, n) == ~(m = n /\ m = "K") /\ {m, n} # {"K", "N"}

WaitsFor(t, u) ==
    /\ u # t
    /\ Busy(t) /\ job[t].need # <<>>
    /\ LET s == Head(job[t].need) IN
       \E h \in held[u], l \in Takes(t, s) \cup Watches(t, s) :
          h.on = l.on /\ Conflict(h.mode, l.mode)

Waits(t) == \E u \in Tx : WaitsFor(t, u)

\* What the database refuses once nobody is waited for: a row that is gone, a
\* second row for an account, somebody else's contact, a second active
\* application.  A DELETE that finds nothing is only warned of.
Refuses(t, s) ==
    LET p == job[t].player
        gone == job[t].gen # db[p].gen
    IN  CASE s.on \in {"row", "app"} -> gone /\ job[t].kind # "withdraw"
          [] s.on = "insert" -> db[p].row
          [] s.on = "value"  -> \E q \in Players \ {p} : db[q].contact = s.which
          [] s.on = "slot"   -> gone \/ db[p].active
          [] OTHER           -> FALSE

-----------------------------------------------------------------------------
Init ==
    /\ db = [p \in Players |-> Stranger]
    /\ job = [t \in Tx |-> None]
    /\ held = [t \in Tx |-> {}]

\* A handler has read the tables and is about to write.
Start(t, kind, p, c, need) ==
    /\ ~Busy(t)
    /\ job' = [job EXCEPT ![t] = [kind |-> kind, player |-> p, gen |-> db[p].gen,
                                  app |-> db[p].app, contact |-> c, need |-> need]]
    /\ UNCHANGED <<db, held>>

BeginSubmit(t, p) ==
    /\ ~db[p].active
    /\ db[p].app < MaxFilings
    /\ \E k \in Counters, c \in Contacts : \E need \in Submit(p, k, c) :
          Start(t, "submit", p, c, need)

BeginEditContact(t, p) ==
    /\ db[p].active
    /\ \E c \in Contacts : Start(t, "edit_contact", p, c, EditContact(p, c))

BeginEditProfile(t, p) ==
    /\ db[p].active
    /\ \E need \in EditProfile(p) : Start(t, "edit_profile", p, NoContact, need)

\* update_status of a review.
BeginDecide(t, p) ==
    /\ db[p].active
    /\ Start(t, "decide", p, NoContact, <<App(db[p].app, "N")>>)

BeginWithdraw(t, p) ==
    /\ db[p].row
    /\ db[p].gen < MaxErasures
    /\ Start(t, "withdraw", p, NoContact, Withdraw(p))

BeginTouch(t, p) == Start(t, "touch", p, NoContact, Touch(p))

\* The next statement runs.  An INSERT brings the users row it goes on with.
Execute(t) ==
    /\ Busy(t) /\ job[t].need # <<>>
    /\ ~Waits(t)
    /\ LET s == Head(job[t].need) IN
       /\ ~Refuses(t, s)
       /\ held' = [held EXCEPT ![t] = @ \cup Takes(t, s)]
       /\ job' = [job EXCEPT ![t].need = Tail(@), ![t].gen =
                     IF s.on = "insert" THEN db[job[t].player].gen ELSE @]
    /\ UNCHANGED db

\* Mutant: the failed transaction is left open, and its locks with it.
RollbackLeftOpen(t) ==
    /\ job' = [job EXCEPT ![t] = None]
    /\ UNCHANGED <<db, held>>

\* The middleware rolls back whatever the handler raises.
Rollback(t) ==
    /\ job' = [job EXCEPT ![t] = None]
    /\ held' = [held EXCEPT ![t] = {}]
    /\ UNCHANGED db

\* An IntegrityError, a StaleDataError, or a decision that finds nothing.
Refuse(t) ==
    /\ Busy(t) /\ job[t].need # <<>>
    /\ ~Waits(t)
    /\ Refuses(t, Head(job[t].need))
    /\ Rollback(t)

\* Any other failure, that of the answer to Telegram before the commit too.
Fail(t) == Busy(t) /\ Rollback(t)

\* What a transaction may have made of the record of its player when it
\* commits: an application that is rejected, and not approved, is active no more.
After(r, j) ==
    CASE j.kind = "submit" -> {[r EXCEPT !.row = TRUE, !.contact = j.contact,
                                         !.app = @ + 1, !.active = TRUE]}
      [] j.kind = "edit_contact" -> {[r EXCEPT !.contact = j.contact]}
      [] j.kind = "decide" -> {r, [r EXCEPT !.active = @ /\ r.app # j.app]}
      [] j.kind = "withdraw" /\ j.gen = r.gen ->
            {[r EXCEPT !.gen = @ + 1, !.row = FALSE, !.contact = NoContact, !.active = FALSE]}
      [] j.kind = "touch" -> {[r EXCEPT !.row = TRUE]}
      [] OTHER -> {r}

Commit(t) ==
    /\ Busy(t) /\ job[t].need = <<>>
    /\ \E r \in After(db[job[t].player], job[t]) : db' = [db EXCEPT ![job[t].player] = r]
    /\ job' = [job EXCEPT ![t] = None]
    /\ held' = [held EXCEPT ![t] = {}]

\* A ring of transactions, each waiting for one of them.
Ring(C) == \A t \in C : /\ \E u \in C : WaitsFor(t, u)
                        /\ \E u \in C : WaitsFor(u, t)
OnRing(t) == \E C \in SUBSET Tx : t \in C /\ Ring(C)

\* deadlock_timeout has passed for t: PostgreSQL aborts it.
Victim(t) == OnRing(t) /\ Rollback(t)

Next ==
    \E t \in Tx :
        \/ \E p \in Players :
              \/ BeginSubmit(t, p) \/ BeginEditContact(t, p) \/ BeginEditProfile(t, p)
              \/ BeginDecide(t, p) \/ BeginWithdraw(t, p) \/ BeginTouch(t, p)
        \/ Execute(t) \/ Refuse(t) \/ Commit(t)
        \/ Victim(t) \/ Fail(t)

Spec == Init /\ [][Next]_vars

-----------------------------------------------------------------------------
\* Properties

TypeOK ==
    /\ db \in [Players -> [gen : Nat, row : BOOLEAN, contact : Contacts \cup {NoContact},
                           app : Nat, active : BOOLEAN]]
    /\ \A t \in Tx : Busy(t) =>
          /\ job[t].kind \in Kinds /\ job[t].player \in Players
          /\ job[t].gen \in Nat /\ job[t].app \in Nat
          /\ job[t].contact \in Contacts \cup {NoContact}
          /\ \A i \in DOMAIN job[t].need : job[t].need[i].mode \in Modes
    /\ \A t \in Tx : ~Busy(t) => held[t] = {}

Gives(t, c) == db[job[t].player].contact = c
NextValue(t, c) == job[t].need # <<>> /\ Head(job[t].need) = Value(c)

\* Whoever is in C takes nickname or e-mail from another of C.
Swap(C) == \A t \in C : \E u \in C, c \in Contacts : NextValue(t, c) /\ Gives(u, c)
\* One player's submits, from two chats.
Twins(C) == \E p \in Players : \A t \in C : job[t].kind = "submit" /\ job[t].player = p

=============================================================================
