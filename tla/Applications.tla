---------------------------- MODULE Applications ----------------------------
(***************************************************************************)
(* The users, applications and logs tables of the bot, and the handlers    *)
(* that read and write them: confirm_submit, /edit, /withdraw, a language  *)
(* tap, and an admin's approve/reject tap.                                 *)
(*                                                                         *)
(* Every update runs as an asyncio task with one READ COMMITTED            *)
(* transaction of its own (DbSessionMiddleware).  A handler is cut at each *)
(* await after which another task may have committed: the statements that  *)
(* only read are steps of their own, the statements from a transaction's   *)
(* first write to its commit are one step, because the rows it has written *)
(* stay locked until then.  /withdraw and a language tap are the           *)
(* exceptions: they talk to Telegram between their writes and the commit,  *)
(* so the locks they hold meanwhile are explicit.  The order in which one  *)
(* transaction takes its locks is the subject of RowLocks.                 *)
(*                                                                         *)
(* SimpleEventIsolation serializes updates per (chat, user) key, not per   *)
(* user: a session below is one such key, and a user may own several.      *)
(***************************************************************************)
EXTENDS Naturals, FiniteSets

CONSTANTS
    Users,        \* Telegram accounts of players
    Sessions,     \* FSM keys, one (chat, user) pair each
    UserOf,       \* the account behind a session
    Admins,       \* admins with a /review card open
    Apps,         \* application ids: uuid4, drawn once and never again
    Contacts,     \* nickname and e-mail, UNIQUE on users
    NoContact,    \* the NULL nickname of a user who has only chosen a language
    NoApp, NoUser,
    PendingCap,   \* settings.pending_cap
    MaxErasures,  \* bound: /withdraw commands that find a row
    MaxEdits,     \* bound: edits logged per application
    MaxCrashes    \* bound: process crashes

ASSUME SessionAssumption ==
    /\ UserOf \in [Sessions -> Users]
    /\ IsFiniteSet(Sessions) /\ Sessions # {}
    /\ IsFiniteSet(Admins) /\ IsFiniteSet(Apps)
ASSUME BoundAssumption ==
    PendingCap \in Nat /\ MaxErasures \in Nat /\ MaxEdits \in Nat /\ MaxCrashes \in Nat
ASSUME DistinctAssumption ==
    NoContact \notin Contacts /\ NoApp \notin Apps /\ NoUser \notin Users

VARIABLES
    users,     \* users[u]: the row of u, its id 0 when u has no row
    apps,      \* apps[a]: the applications row with id a
    logs,      \* the logs table
    nextRow,   \* the last users id handed out (autoincrement)
    chat,      \* chat[s]: what the handler running for session s holds
    desk,      \* desk[d]: what the review handler of admin d holds
    notices,   \* notices[a]: decision messages sent about application a
    crashes

vars == <<users, apps, logs, nextRow, chat, desk, notices, crashes>>

Decisions == {"approved", "rejected"}
Filing    == {"counted", "known", "checked"}
Ready     == {"idle", "contact_fix"}
Removing  == {"flushed", "told"}

NoRow == [row |-> 0, contact |-> NoContact]
Blank == [status |-> "unused", row |-> 0, contact |-> NoContact]
Idle  == [pc |-> "idle", row |-> 0, contact |-> NoContact,
          loaded |-> NoContact, copy |-> NoContact, app |-> NoApp, seen |-> {}]
AtRest == [pc |-> "idle", app |-> NoApp, verdict |-> "approved", to |-> NoUser]

LogKinds == {"application_submitted", "status_approved", "status_rejected",
             "contact_updated", "profile_updated", "player_code_reassigned"}
\* A log row: the n-th about application `app`; `linked` is FALSE once
\* ON DELETE SET NULL has cleared its application_id.
\* The anonymous trace of an erasure is about no application.
LogRow == [app : Apps, n : Nat, kind : LogKinds,
           actor : Users \cup Admins, linked : BOOLEAN]
Marker == [app : {NoApp}, n : Nat, kind : {"data_erased"},
           actor : {NoUser}, linked : {FALSE}]

-----------------------------------------------------------------------------
Status(a) == apps[a].status
Stored(a) == Status(a) \in {"pending_review"} \cup Decisions
OfRow(r)  == {a \in Apps : Stored(a) /\ apps[a].row = r}

\* get_active_for_user: the non-rejected applications of a users row.
Active(r)  == {a \in OfRow(r) : Status(a) # "rejected"}
Pending    == {a \in Apps : Status(a) = "pending_review"}
Unused     == {a \in Apps : Status(a) = "unused"}
FilingNow  == {s \in Sessions : chat[s].pc \in Filing}

\* The UNIQUE indexes on users.nickname and users.email.
Taken(c, u) == \E v \in Users \ {u} : users[v].contact = c

\* Row locks of a /withdraw between its DELETEs and its commit or rollback.
Held(r) == \E s \in Sessions : chat[s].pc \in Removing /\ chat[s].row = r

\* The lock of a language tap, on the row of u or on its INSERT, which the
\* unique index on telegram_id keeps any other INSERT for u from passing.
Named(u) == \E s \in Sessions : chat[s].pc = "named" /\ UserOf[s] = u

\* The ORM emits UPDATE users only when the value differs from the loaded one,
\* and a profile edit has no contact to write.
WritesContact(s) == chat[s].contact # chat[s].loaded
EditsContact(s)  == chat[s].contact # NoContact /\ WritesContact(s)
WritesUser(s)    == chat[s].pc = "naming" \/ chat[s].row = 0 \/ EditsContact(s)

\* A write of s waits for the lock on the row it read, on the row its account
\* has now, or on the row that holds the same contact in a unique index.
Waits(s) ==
    \/ Held(chat[s].row)
    \/ Held(users[UserOf[s]].row)
    \/ WritesUser(s) /\ Named(UserOf[s])
    \/ \E v \in Users : /\ users[v].contact = chat[s].contact
                        /\ chat[s].contact # NoContact
                        /\ Held(users[v].row)

LogsOf(a) == {l \in logs : l.app = a}
NewLog(a, kind, actor) ==
    [app |-> a, n |-> Cardinality(LogsOf(a)) + 1, kind |-> kind,
     actor |-> actor, linked |-> TRUE]
\* The anonymous row an erasure leaves.
Trace == [app |-> NoApp, n |-> Cardinality(LogsOf(NoApp)) + 1,
          kind |-> "data_erased", actor |-> NoUser, linked |-> FALSE]
\* ON DELETE SET NULL, for the applications that are gone.
Unlinked(L, gone) ==
    {IF l.app \in gone THEN [l EXCEPT !.linked = FALSE] ELSE l : l \in L}
EditLogs(a) == {l \in LogsOf(a) : l.kind \in {"contact_updated", "profile_updated"}}

\* What the bounds leave: an id for every submit under way, and erasures, done
\* or under way, below their bound.
SpareId == Cardinality(Unused) > Cardinality(FilingNow)
SpareErasure ==
    Cardinality({r \in 1 .. nextRow : \A u \in Users : users[u].row # r})
        + Cardinality({s \in Sessions : chat[s].pc \in Removing \cup {"loaded"}}) < MaxErasures

-----------------------------------------------------------------------------
Init ==
    /\ users = [u \in Users |-> NoRow]
    /\ apps = [a \in Apps |-> Blank]
    /\ logs = {}
    /\ nextRow = 0
    /\ chat = [s \in Sessions |-> Idle]
    /\ desk = [d \in Admins |-> AtRest]
    /\ notices = [a \in Apps |-> 0]
    /\ crashes = 0

\* The handler of s ends without having written: an early return, or an
\* exception after which the middleware rolls back.
EndWith(s, pc) ==
    /\ chat' = [chat EXCEPT ![s] = [Idle EXCEPT !.pc = pc]]
    /\ UNCHANGED <<users, apps, logs, nextRow, desk, notices, crashes>>

-----------------------------------------------------------------------------
\* Mutant: an off-by-one in the cap check.
SubmitCountOffByOne(s, c) ==
    /\ chat[s].pc \in Ready
    /\ SpareId
    /\ Cardinality(Pending) <= PendingCap
    /\ chat' = [chat EXCEPT ![s] = [Idle EXCEPT !.pc = "counted", !.contact = c]]
    /\ UNCHANGED <<users, apps, logs, nextRow, desk, notices, crashes>>

\* confirm_submit, first statement: the queue cap is checked against a count.
\* At the cap QueueFullError leaves everything as it was.
SubmitCount(s, c) ==
    /\ chat[s].pc \in Ready
    /\ SpareId
    /\ Cardinality(Pending) < PendingCap
    /\ chat' = [chat EXCEPT ![s] = [Idle EXCEPT !.pc = "counted", !.contact = c]]
    /\ UNCHANGED <<users, apps, logs, nextRow, desk, notices, crashes>>

\* users.get_or_create, the SELECT.
SubmitReadUser(s) ==
    /\ chat[s].pc = "counted"
    /\ LET me == users[UserOf[s]] IN
       chat' = [chat EXCEPT ![s].pc = "known", ![s].row = me.row,
                            ![s].loaded = me.contact]
    /\ UNCHANGED <<users, apps, logs, nextRow, desk, notices, crashes>>

\* Mutant: the one-active check is left to the index.
SubmitUnchecked(s) ==
    /\ chat[s].pc = "known"
    /\ chat' = [chat EXCEPT ![s].pc = "checked"]
    /\ UNCHANGED <<users, apps, logs, nextRow, desk, notices, crashes>>

\* The one-active check of the service.
SubmitCheckActive(s) ==
    /\ chat[s].pc = "known"
    /\ IF Active(chat[s].row) = {}
       THEN /\ chat' = [chat EXCEPT ![s].pc = "checked"]
            /\ UNCHANGED <<users, apps, logs, nextRow, desk, notices, crashes>>
       ELSE EndWith(s, "idle")      \* ActiveApplicationExistsError

\* The users row read before is no longer the row of the account.
RowMoved(s) == users[UserOf[s]].row # chat[s].row

\* Mutant: the partial unique index is missing.
ViolatesNoIndex(s) ==
    \/ RowMoved(s)
    \/ WritesContact(s) /\ Taken(chat[s].contact, UserOf[s])

\* Mutant: the foreign key is missing.
ViolatesNoForeignKey(s) ==
    \/ WritesContact(s) /\ Taken(chat[s].contact, UserOf[s])
    \/ chat[s].row # 0 /\ Active(chat[s].row) # {}

\* What the database refuses with an IntegrityError when the INSERTs run: a
\* second users row for the account, a row deleted meanwhile (foreign key), a
\* nickname or e-mail of somebody else, a second active application.
Violates(s) ==
    \/ RowMoved(s)
    \/ WritesContact(s) /\ Taken(chat[s].contact, UserOf[s])
    \/ chat[s].row # 0 /\ Active(chat[s].row) # {}

\* UPDATE of a row deleted meanwhile: StaleDataError, which no handler catches.
Stale(s) == RowMoved(s) /\ chat[s].row # 0 /\ WritesContact(s)

\* The writes of submit_registration and the commit after it.
SubmitWrite(s) ==
    /\ chat[s].pc = "checked"
    /\ ~Waits(s)
    /\ ~Violates(s)
    /\ LET u == UserOf[s]
           c == chat[s].contact
           new == chat[s].row = 0
           r == IF new THEN nextRow + 1 ELSE chat[s].row
       IN \E a \in Unused :
          /\ users' = [users EXCEPT ![u] =
                [row |-> r, contact |-> IF WritesContact(s) THEN c ELSE @.contact]]
          /\ apps' = [apps EXCEPT ![a] =
                [status |-> "pending_review", row |-> r, contact |-> c]]
          /\ logs' = logs \cup {NewLog(a, "application_submitted", u)}
          /\ nextRow' = IF new THEN nextRow + 1 ELSE nextRow
    /\ chat' = [chat EXCEPT ![s] = Idle]
    /\ UNCHANGED <<desk, notices, crashes>>

\* The refused write: rolled back.  An IntegrityError sends the player to
\* re-enter the contact details, a StaleDataError ends the update.
SubmitRefused(s) ==
    /\ chat[s].pc = "checked"
    /\ ~Waits(s)
    /\ Violates(s)
    /\ EndWith(s, IF Stale(s) THEN "idle" ELSE "contact_fix")

-----------------------------------------------------------------------------
\* A language tap, get_or_create's SELECT.  A tap on the language the account
\* has already writes nothing and is left out.
LanguageRead(s) ==
    /\ chat[s].pc \in Ready
    /\ chat' = [chat EXCEPT ![s] =
          [Idle EXCEPT !.pc = "naming", !.row = users[UserOf[s]].row]]
    /\ UNCHANGED <<users, apps, logs, nextRow, desk, notices, crashes>>

\* The flushed UPDATE or INSERT, refused when the row is gone or the account
\* got one meanwhile.  The row stays locked while Telegram is asked to edit
\* the message ...
LanguageFlush(s) ==
    /\ chat[s].pc = "naming"
    /\ ~Waits(s)
    /\ IF RowMoved(s)
       THEN EndWith(s, "idle")
       ELSE /\ chat' = [chat EXCEPT ![s].pc = "named"]
            /\ UNCHANGED <<users, apps, logs, nextRow, desk, notices, crashes>>

\* ... and then the middleware commits: the language of a row, which no other
\* handler here reads, or the new row of an account that had none.
LanguageWrite(s) ==
    /\ chat[s].pc = "named"
    /\ IF users[UserOf[s]].row # 0
       THEN EndWith(s, "idle")
       ELSE /\ users' = [users EXCEPT ![UserOf[s]] =
                            [row |-> nextRow + 1, contact |-> NoContact]]
            /\ nextRow' = nextRow + 1
            /\ chat' = [chat EXCEPT ![s] = Idle]
            /\ UNCHANGED <<apps, logs, desk, notices, crashes>>

-----------------------------------------------------------------------------
\* /edit: update_contact, or update_profile when c is NoContact.  Without a
\* row or an active application it returns False and changes nothing.
EditRead(s, c) ==
    /\ chat[s].pc \in Ready
    /\ LET me == users[UserOf[s]] IN
       /\ me.row # 0
       /\ \E a \in Active(me.row) :
          /\ Cardinality(EditLogs(a)) < MaxEdits
          /\ chat' = [chat EXCEPT ![s] =
                [Idle EXCEPT !.pc = "editing", !.row = me.row, !.contact = c,
                             !.loaded = me.contact, !.copy = apps[a].contact, !.app = a]]
    /\ UNCHANGED <<users, apps, logs, nextRow, desk, notices, crashes>>

\* The snapshot on the application is a column of its own, compared on its own.
EditsSnapshot(s) == chat[s].contact # NoContact /\ chat[s].contact # chat[s].copy

\* The log rows of an edit: a profile edit that changes the category, and with
\* it the player code, writes a second one.
EditLogRows(s) ==
    LET c == chat[s].contact
        kind == IF c = NoContact THEN "profile_updated" ELSE "contact_updated"
        row == NewLog(chat[s].app, kind, UserOf[s])
        code == [NewLog(chat[s].app, "player_code_reassigned", UserOf[s]) EXCEPT !.n = @ + 1]
    IN  {{row}} \cup (IF c = NoContact THEN {{row, code}} ELSE {})

\* Mutant: the whole row is written back, the status as it was read.
EditWriteWholeRow(s) ==
    /\ chat[s].pc = "editing"
    /\ ~Waits(s)
    /\ ~RowMoved(s)
    /\ apps' = [apps EXCEPT ![chat[s].app].status = "pending_review"]
    /\ chat' = [chat EXCEPT ![s] = Idle]
    /\ UNCHANGED <<users, logs, nextRow, desk, notices, crashes>>

\* Mutant: the snapshot on the application is forgotten.
EditWriteUserOnly(s) ==
    /\ chat[s].pc = "editing"
    /\ ~Waits(s)
    /\ ~RowMoved(s) /\ EditsContact(s) /\ ~Taken(chat[s].contact, UserOf[s])
    /\ users' = [users EXCEPT ![UserOf[s]].contact = chat[s].contact]
    /\ chat' = [chat EXCEPT ![s] = Idle]
    /\ UNCHANGED <<apps, logs, nextRow, desk, notices, crashes>>

\* The UPDATEs, the log rows and the commit.  The application is not looked at
\* again: it may have been decided since it was read.
EditWrite(s) ==
    /\ chat[s].pc = "editing"
    /\ ~Waits(s)
    /\ LET u == UserOf[s]
           a == chat[s].app
           c == chat[s].contact
       IN IF RowMoved(s) \/ (EditsContact(s) /\ Taken(c, u))
          THEN EndWith(s, "idle")
          ELSE /\ users' = IF EditsContact(s)
                           THEN [users EXCEPT ![u].contact = c] ELSE users
               /\ apps' = IF EditsSnapshot(s)
                          THEN [apps EXCEPT ![a].contact = c] ELSE apps
               /\ \E rows \in EditLogRows(s) : logs' = logs \cup rows
               /\ chat' = [chat EXCEPT ![s] = Idle]
               /\ UNCHANGED <<nextRow, desk, notices, crashes>>

-----------------------------------------------------------------------------
\* Mutant: the logs are not part of the cascade.
WithdrawLoadNoLogs(s) ==
    /\ chat[s].pc \in Ready
    /\ SpareErasure
    /\ users[UserOf[s]].row # 0
    /\ chat' = [chat EXCEPT ![s] =
          [Idle EXCEPT !.pc = "loaded", !.row = users[UserOf[s]].row]]
    /\ UNCHANGED <<users, apps, logs, nextRow, desk, notices, crashes>>

\* /withdraw: erase_user_data loads the row, its applications and their logs.
WithdrawLoad(s) ==
    /\ chat[s].pc \in Ready
    /\ SpareErasure
    /\ LET r == users[UserOf[s]].row IN
       /\ r # 0
       /\ chat' = [chat EXCEPT ![s] =
             [Idle EXCEPT !.pc = "loaded", !.row = r,
              !.seen = {l \in logs : l.linked /\ l.app \in OfRow(r)}]]
    /\ UNCHANGED <<users, apps, logs, nextRow, desk, notices, crashes>>

\* session.delete and flush: the rows are locked, nobody else sees it yet.
WithdrawFlush(s) ==
    /\ chat[s].pc = "loaded"
    /\ ~Held(chat[s].row)
    /\ ~Named(UserOf[s])
    /\ chat' = [chat EXCEPT ![s].pc = "flushed"]
    /\ UNCHANGED <<users, apps, logs, nextRow, desk, notices, crashes>>

\* The player is told that everything is erased ...
WithdrawAnswer(s) ==
    /\ chat[s].pc = "flushed"
    /\ chat' = [chat EXCEPT ![s].pc = "told"]
    /\ UNCHANGED <<users, apps, logs, nextRow, desk, notices, crashes>>

\* ... and then the middleware commits.  The logs loaded are deleted one by
\* one, the applications with the row, and a log written after the load
\* survives with its application_id set to NULL.  One anonymous row is added.
WithdrawCommit(s) ==
    /\ chat[s].pc = "told"
    /\ LET r == chat[s].row
           u == UserOf[s]
           gone == OfRow(r)
       IN /\ users' = IF RowMoved(s) THEN users ELSE [users EXCEPT ![u] = NoRow]
          /\ apps' = [a \in Apps |->
                IF a \in gone THEN [apps[a] EXCEPT !.status = "erased",
                                                   !.contact = NoContact]
                ELSE apps[a]]
          /\ logs' = Unlinked(logs \ chat[s].seen, gone) \cup {Trace}
    /\ chat' = [chat EXCEPT ![s] = Idle]
    /\ UNCHANGED <<nextRow, desk, notices, crashes>>

-----------------------------------------------------------------------------
\* cb_review_decision finds the application of the tapped card.  If it is no
\* longer pending the card is refreshed and nothing changes.
ReviewFind(d, a, v) ==
    /\ desk[d].pc = "idle"
    /\ Status(a) = "pending_review"
    /\ \E u \in Users :
       /\ users[u].row = apps[a].row
       /\ desk' = [desk EXCEPT ![d] =
             [pc |-> "found", app |-> a, verdict |-> v, to |-> u]]
    /\ UNCHANGED <<users, apps, logs, nextRow, chat, notices, crashes>>

\* Mutant: UPDATE ... WHERE id = :id alone.
StillThere(a) == Stored(a)

\* The WHERE clause of the conditional UPDATE in update_status.
StillExpected(a) == Status(a) = "pending_review"

\* Mutant: the action word of the card is stored as the status.
ReviewDecideWord(d) ==
    /\ desk[d].pc = "found"
    /\ StillExpected(desk[d].app)
    /\ apps' = [apps EXCEPT ![desk[d].app].status = "approve"]
    /\ desk' = [desk EXCEPT ![d] = AtRest]
    /\ UNCHANGED <<users, logs, nextRow, chat, notices, crashes>>

\* Mutant: the rowcount is not looked at, so the loser sends its notice too.
ReviewDecideBlind(d) ==
    /\ desk[d].pc = "found"
    /\ apps' = IF StillExpected(desk[d].app)
               THEN [apps EXCEPT ![desk[d].app].status = desk[d].verdict] ELSE apps
    /\ desk' = [desk EXCEPT ![d].pc = "decided"]
    /\ UNCHANGED <<users, logs, nextRow, chat, notices, crashes>>

\* update_status with expected_status, its log row, and the commit.
ReviewDecide(d) ==
    /\ desk[d].pc = "found"
    /\ ~Held(apps[desk[d].app].row)
    /\ LET a == desk[d].app
           v == desk[d].verdict
       IN IF StillExpected(a)
          THEN /\ apps' = [apps EXCEPT ![a].status = v]
               /\ logs' = logs \cup
                    {NewLog(a, IF v = "approved" THEN "status_approved"
                               ELSE "status_rejected", d)}
               /\ desk' = [desk EXCEPT ![d].pc = "decided"]
          ELSE /\ desk' = [desk EXCEPT ![d] = AtRest]
               /\ UNCHANGED <<apps, logs>>
    /\ UNCHANGED <<users, nextRow, chat, notices, crashes>>

\* send_approval_with_invite or notify_user_rejected, after the commit.  The
\* message may be lost: _safe_send logs a failure and drops it.
ReviewNotify(d) ==
    /\ desk[d].pc = "decided"
    /\ \E sent \in {0, 1} :
          notices' = [notices EXCEPT ![desk[d].app] = @ + sent]
    /\ desk' = [desk EXCEPT ![d] = AtRest]
    /\ UNCHANGED <<users, apps, logs, nextRow, chat, crashes>>

-----------------------------------------------------------------------------
\* A statement or the commit fails (lost connection, deadlock victim), or the
\* answer to /withdraw cannot be sent: the exception reaches the middleware.
ChatFails(s) ==
    /\ chat[s].pc \notin Ready
    /\ EndWith(s, "idle")

DeskFails(d) ==
    /\ desk[d].pc = "found"
    /\ desk' = [desk EXCEPT ![d] = AtRest]
    /\ UNCHANGED <<users, apps, logs, nextRow, chat, notices, crashes>>

\* The process dies and is started again: open transactions are rolled back,
\* pending updates dropped, and the tables stay.
Crash ==
    /\ crashes < MaxCrashes
    /\ crashes' = crashes + 1
    /\ chat' = [s \in Sessions |-> Idle]
    /\ desk' = [d \in Admins |-> AtRest]
    /\ UNCHANGED <<users, apps, logs, nextRow, notices>>

-----------------------------------------------------------------------------
\* The steps of a handler under way, which the event loop keeps running.
ChatContinues(s) ==
    \/ SubmitReadUser(s) \/ SubmitCheckActive(s) \/ SubmitWrite(s) \/ SubmitRefused(s)
    \/ LanguageFlush(s) \/ LanguageWrite(s)
    \/ EditWrite(s)
    \/ WithdrawFlush(s) \/ WithdrawAnswer(s) \/ WithdrawCommit(s)

DeskContinues(d) == ReviewDecide(d) \/ ReviewNotify(d)

Next ==
    \/ \E s \in Sessions :
          \/ \E c \in Contacts : SubmitCount(s, c)
          \/ LanguageRead(s)
          \/ \E c \in Contacts \cup {NoContact} : EditRead(s, c)
          \/ WithdrawLoad(s)
          \/ ChatContinues(s)
          \/ ChatFails(s)
    \/ \E d \in Admins :
          \/ \E a \in Apps, v \in Decisions : ReviewFind(d, a, v)
          \/ DeskContinues(d)
          \/ DeskFails(d)
    \/ Crash

Spec == Init /\ [][Next]_vars
-----------------------------------------------------------------------------
\* Properties

TypeOK ==
    /\ users \in [Users -> [row : Nat, contact : Contacts \cup {NoContact}]]
    /\ apps \in [Apps -> [status : {"unused", "pending_review", "erased"} \cup Decisions,
                          row : Nat, contact : Contacts \cup {NoContact}]]
    /\ logs \subseteq LogRow \cup Marker
    /\ nextRow \in Nat
    /\ chat \in [Sessions ->
          [pc : Ready \cup Filing \cup Removing \cup {"naming", "named", "editing", "loaded"},
           row : Nat, contact : Contacts \cup {NoContact},
           loaded : Contacts \cup {NoContact}, copy : Contacts \cup {NoContact},
           app : Apps \cup {NoApp}, seen : SUBSET LogRow]]
    /\ desk \in [Admins -> [pc : {"idle", "found", "decided"}, app : Apps \cup {NoApp},
                            verdict : Decisions, to : Users \cup {NoUser}]]
    /\ notices \in [Apps -> Nat]
    /\ crashes \in Nat

\* At most one application of a player is under review or approved, although
\* the same player may submit from two chats at once (the partial unique index
\* ix_applications_one_active_per_user behind the service's own check).
OneActivePerUser ==
    \A a \in Apps : Stored(a) => \A b, c \in Active(apps[a].row) : b = c

\* No application outlives its users row: a submit or an edit that was under
\* way when /withdraw committed leaves nothing of the player behind.
NothingOutlivesErasure ==
    \A a \in Apps : Stored(a) => \E u \in Users : users[u].row = apps[a].row

\* The queue, with the submits that are past the cap check, exceeds the cap by
\* less than the number of sessions that can submit at once (the count in
\* submit_registration is taken before the INSERT, in a transaction of its own
\* snapshot).
QueueOvershoot ==
    Cardinality(Pending) + Cardinality(FilingNow) < PendingCap + Cardinality(Sessions)

DecidedBy(a, v) ==
    {l \in logs : /\ l.app = a
                  /\ l.kind = IF v = "approved" THEN "status_approved" ELSE "status_rejected"}

\* The audit log agrees with the table: a stored application has one decision
\* row if it is decided, for the decision it has, and none otherwise.
AuditMatchesStatus ==
    \A a \in Apps, v \in Decisions : Stored(a) =>
        Cardinality(DecidedBy(a, v)) = IF Status(a) = v THEN 1 ELSE 0

\* Two admins tapping the same card send one decision message between them,
\* and only once the decision is committed (commit before notify in _approve).
Notifying(a) == {d \in Admins : desk[d].pc = "decided" /\ desk[d].app = a}
OneNoticeAfterCommit ==
    \A a \in Apps :
        notices[a] + Cardinality(Notifying(a))
            <= IF Status(a) \in {"approved", "rejected", "erased"} THEN 1 ELSE 0

\* A decision stands until the player withdraws: no edit, submit or second tap
\* that was under way overwrites it.
DecisionFinal ==
    [][\A a \in Apps :
          Status(a) \in Decisions => Status(a)' \in {Status(a), "erased"}]_vars

\* The contact details on the active application are those of the player, as
\* the comment in update_contact wants, when each player uses one chat.
SnapshotInSync ==
    \A u \in Users : \A a \in Active(users[u].row) : apps[a].contact = users[u].contact

\* After /withdraw no log row names the player as its actor, when each player
\* uses one chat (an admin's row may survive, see OnlyMarkersStay).
NoPlayerLogStays ==
    \A l \in logs : l.kind # "data_erased" /\ ~Stored(l.app) => l.actor \in Admins

\* A player is sent to re-enter the contact details only because somebody else
\* has them, when each player uses one chat.  (From two chats the index of a
\* player's own second application leads to the same detour.)
ContactFixMeansTaken ==
    [][\A s \in Sessions :
          chat[s].pc = "checked" /\ chat'[s].pc = "contact_fix"
              => Taken(chat[s].contact, UserOf[s])]_vars

\* The tables implement the promise of ApplicationLifecycle.
Lifecycle == INSTANCE ApplicationLifecycle WITH
    Owners <- Nat \ {0}, NoOwner <- 0,
    life <- [a \in Apps |-> Status(a)],
    owner <- [a \in Apps |-> apps[a].row]
ImplementsLifecycle == Lifecycle!LifeSpec

-----------------------------------------------------------------------------
\* What a comment and a test of the repository say, and the code does not do.

\* cmd_withdraw erases all applications "with their audit logs": only the
\* anonymous marker stays.
OnlyMarkersStay == \A l \in logs : l.kind = "data_erased" \/ Stored(l.app)
=============================================================================
