-------------------------------- MODULE Door --------------------------------
(***************************************************************************)
(* The gated group: personal invite links that only file a join request,   *)
(* the check at the door (on_join_request), and the is_active flag that    *)
(* follows the chat_member updates (on_group_membership_change).           *)
(*                                                                         *)
(* Telegram is external: it keeps who is in the group, the links and the   *)
(* open requests, and sends an update for each change.  An update runs     *)
(* under the FSM key (chat, performer): updates with one key are handled   *)
(* in order, updates with different keys at the same time.  The performers *)
(* are the player ("own"), the bot ("bot") and each human admin.           *)
(* The applications are seen from here as committed changes of status;     *)
(* Applications has the races behind them.                                 *)
(***************************************************************************)
EXTENDS Naturals, Sequences, FiniteSets

CONSTANTS
    Players,
    Others,         \* people outside the model, whose links have leaked
    Admins,         \* the human admins of the group
    MaxWaiting,     \* bound: updates about one player waiting, under all keys
    MaxRows,        \* bound: users rows of a player, one after the other
    MaxLost         \* bound: updates dropped by the throttle, and crashes

ASSUME DoorAssumption == Players \cap Others = {} /\ Admins \cap {"own", "bot"} = {}
ASSUME DoorBounds == MaxWaiting \in Nat /\ MaxRows \in Nat /\ MaxLost \in Nat

VARIABLES
    users,      \* users[p]: row (0: none), status of the active application, is_active
    rows,       \* rows[p]: the users rows p has had (autoincrement: never the same)
    place,      \* place[p]: where p is, for Telegram
    links,      \* the people a link was minted for; links are never revoked
    requests,   \* the open join requests <<p, l>>: p has followed the link of l
    waiting,    \* waiting[p][k]: updates about p under key k, not yet handled
    task,       \* task[p][k]: the handler that runs under that key, and the row
                \* p had when it began
    inviting,   \* send_approval_with_invite calls under way
    lost,
    moved,      \* observer: the row p had when p last came or went
    orderly     \* observer: p's updates could be applied in order

world == <<place, links, requests, waiting, task, inviting>>
seenOnly == <<moved, orderly>>
vars == <<users, rows, place, links, requests, waiting, task, inviting, lost,
          moved, orderly>>

Keys == {"own", "bot"} \cup Admins
Rest == [pc |-> "idle", yes |-> FALSE, row |-> 0, loaded |-> FALSE]
NoUser == [row |-> 0, status |-> "none", active |-> FALSE]

\* No change of p's membership is waiting or being handled.
Settled(p, k) ==
    /\ \A i \in 1 .. Len(waiting[p][k]) : waiting[p][k][i] = "request"
    /\ task[p][k].pc # "flip"
Quiet(p) == \A k \in Keys : Settled(p, k)

-----------------------------------------------------------------------------
Init ==
    /\ users = [p \in Players |-> NoUser]
    /\ rows = [p \in Players |-> 0]
    /\ place = [p \in Players |-> "out"]
    /\ links = Others
    /\ requests = {}
    /\ waiting = [p \in Players |-> [k \in Keys |-> <<>>]]
    /\ task = [p \in Players |-> [k \in Keys |-> Rest]]
    /\ inviting = {}
    /\ lost = 0
    /\ moved = [p \in Players |-> 0]
    /\ orderly = [p \in Players |-> TRUE]

\* Telegram queues an update about p under key k.
Queued(p) == {w \in Keys \X (1 .. MaxWaiting) : w[2] <= Len(waiting[p][w[1]])}
Room(p) == Cardinality(Queued(p)) < MaxWaiting
Queue(p, k, update) ==
    waiting' = [waiting EXCEPT ![p][k] = Append(@, update)]

\* p comes or goes, and the bot is told.  The order of the updates is lost
\* when one with the other key is still about.
Move(p, k, where) ==
    /\ Room(p)
    /\ place' = [place EXCEPT ![p] = where]
    /\ Queue(p, k, IF where = "in" THEN "joined" ELSE "gone")
    /\ moved' = [moved EXCEPT ![p] = users[p].row]
    /\ orderly' = [orderly EXCEPT ![p] =
          Quiet(p) \/ (@ /\ \A o \in Keys \ {k} : Settled(p, o))]

-----------------------------------------------------------------------------
\* What people do.

\* The requests that are left when that of p is settled.
RequestsWithout(p) == {r \in requests : r[1] # p}
Asks(p) == \E r \in requests : r[1] = p

\* Anyone who has got hold of a link may follow it, whoever it was minted for.
Follow(p, l) ==
    /\ l \in links
    /\ place[p] = "out"
    /\ ~Asks(p)
    /\ Room(p)
    /\ requests' = requests \cup {<<p, l>>}
    /\ Queue(p, "own", "request")
    /\ UNCHANGED <<users, rows, place, links, task, inviting, lost, seenOnly>>

Leave(p) ==
    /\ place[p] = "in"
    /\ Move(p, "own", "out")
    /\ UNCHANGED <<users, rows, links, requests, task, inviting, lost>>

Kick(p, d) ==
    /\ place[p] = "in"
    /\ Move(p, d, "banned")
    /\ UNCHANGED <<users, rows, links, requests, task, inviting, lost>>

\* A human admin answers the request before the bot does.
AdminAdmits(p, d) ==
    /\ Asks(p) /\ place[p] = "out"
    /\ Move(p, d, "in")
    /\ requests' = RequestsWithout(p)
    /\ UNCHANGED <<users, rows, links, task, inviting, lost>>

-----------------------------------------------------------------------------
\* The applications, as committed.

NewRow(p) ==
    /\ rows' = [rows EXCEPT ![p] = IF users[p].row = 0 THEN @ + 1 ELSE @]
    /\ rows'[p] <= MaxRows

\* A language tap of an account without a row.
Known(p) ==
    /\ users[p].row = 0
    /\ NewRow(p)
    /\ users' = [users EXCEPT ![p].row = rows'[p]]
    /\ UNCHANGED <<world, lost, seenOnly>>

\* Mutant: the name of the status is stored, not its value.
RegisterName(p) ==
    /\ users[p].status = "none"
    /\ NewRow(p)
    /\ users' = [users EXCEPT ![p].row = rows'[p], ![p].status = "PENDING_REVIEW"]
    /\ UNCHANGED <<world, lost, seenOnly>>

\* A submit.
Register(p) ==
    /\ users[p].status = "none"
    /\ NewRow(p)
    /\ users' = [users EXCEPT ![p].row = rows'[p], ![p].status = "pending_review"]
    /\ UNCHANGED <<world, lost, seenOnly>>

\* _approve: the commit, then the invite.
Approve(p) ==
    /\ users[p].status = "pending_review"
    /\ users' = [users EXCEPT ![p].status = "approved"]
    /\ inviting' = inviting \cup {<<p, "unban">>}
    /\ UNCHANGED <<rows, place, links, requests, waiting, task, lost, seenOnly>>

Reject(p) ==
    /\ users[p].status = "pending_review"
    /\ users' = [users EXCEPT ![p].status = "none"]
    /\ UNCHANGED <<rows, world, lost, seenOnly>>

\* /withdraw erases the row; nothing is taken back in the group.
Withdraw(p) ==
    /\ users[p].row # 0
    /\ users' = [users EXCEPT ![p] = NoUser]
    /\ UNCHANGED <<rows, world, lost, seenOnly>>

\* /invite, by the player or by an admin for the player.
Invite(p) ==
    /\ users[p].status = "approved"
    /\ ~users[p].active         \* "already in the group"
    /\ inviting' = inviting \cup {<<p, "unban">>}
    /\ UNCHANGED <<users, rows, place, links, requests, waiting, task, lost, seenOnly>>

-----------------------------------------------------------------------------
\* send_approval_with_invite: _unban_if_banned, whose failure is ignored and
\* which does nothing to who is not banned; kicked -> left is a change the bot
\* is told of ...
Unban(p) ==
    /\ <<p, "unban">> \in inviting
    /\ inviting' = (inviting \ {<<p, "unban">>}) \cup {<<p, "mint">>}
    /\ \/ place[p] = "banned" /\ Move(p, "bot", "out")
       \/ UNCHANGED <<place, waiting, moved, orderly>>
    /\ UNCHANGED <<users, rows, links, requests, task, lost>>

\* ... and _create_join_request_invite with the message, which may both fail.
Mint(p) ==
    /\ <<p, "mint">> \in inviting
    /\ inviting' = inviting \ {<<p, "mint">>}
    /\ links' \in {links, links \cup {p}}
    /\ UNCHANGED <<users, rows, place, requests, waiting, task, lost, seenOnly>>

-----------------------------------------------------------------------------
\* The next update under a key, whose lock is free.
Front(p, k) == IF waiting[p][k] = <<>> THEN "none" ELSE Head(waiting[p][k])
Take(p, k) ==
    /\ task[p][k].pc = "idle"
    /\ waiting' = [waiting EXCEPT ![p][k] = Tail(@)]

\* Mutant: any active application opens the door.
HasActive(p) == users[p].status # "none"

\* has_approved_application.
HasApproved(p) == users[p].status = "approved"

\* on_join_request, the check ...
DoorCheck(p) ==
    /\ Front(p, "own") = "request"
    /\ Take(p, "own")
    /\ task' = [task EXCEPT ![p]["own"] = [Rest EXCEPT !.pc = "settle", !.yes = HasApproved(p),
                                                     !.row = users[p].row]]
    /\ UNCHANGED <<users, rows, place, links, requests, inviting, lost, seenOnly>>

\* ... and the answer to Telegram.  Whether the change of membership comes back
\* as the player's or as the bot's is up to Telegram.
DoorApprove(p) ==
    /\ task[p]["own"].pc = "settle" /\ task[p]["own"].yes
    /\ Asks(p) /\ place[p] = "out"
    /\ \E k \in {"own", "bot"} : Move(p, k, "in")
    /\ requests' = RequestsWithout(p)
    /\ task' = [task EXCEPT ![p]["own"] = Rest]
    /\ UNCHANGED <<users, rows, links, inviting, lost>>

DoorDecline(p) ==
    /\ task[p]["own"].pc = "settle" /\ ~task[p]["own"].yes
    /\ requests' = RequestsWithout(p)
    /\ task' = [task EXCEPT ![p]["own"] = Rest]
    /\ UNCHANGED <<users, rows, place, links, waiting, inviting, lost, seenOnly>>

\* The call failed: the request has expired, an admin has answered it, or it is
\* left open.
DoorFails(p) ==
    /\ task[p]["own"].pc = "settle"
    /\ requests' \in {requests, RequestsWithout(p)}
    /\ task' = [task EXCEPT ![p]["own"] = Rest]
    /\ UNCHANGED <<users, rows, place, links, waiting, inviting, lost, seenOnly>>

-----------------------------------------------------------------------------
\* Mutant: the flag is taken from the old membership.
FlagReadOld(p, k) ==
    /\ Front(p, k) \in {"joined", "gone"}
    /\ Take(p, k)
    /\ task' = IF users[p].row = 0 THEN task
               ELSE [task EXCEPT ![p][k] =
                        [pc |-> "flip", yes |-> Front(p, k) = "gone",
                         row |-> users[p].row, loaded |-> users[p].active]]
    /\ UNCHANGED <<users, rows, place, links, requests, inviting, lost, seenOnly>>

\* on_group_membership_change reads the row of the player, if there is one ...
FlagRead(p, k) ==
    /\ Front(p, k) \in {"joined", "gone"}
    /\ Take(p, k)
    /\ task' = IF users[p].row = 0 THEN task
               ELSE [task EXCEPT ![p][k] =
                        [pc |-> "flip", yes |-> Front(p, k) = "joined",
                         row |-> users[p].row, loaded |-> users[p].active]]
    /\ UNCHANGED <<users, rows, place, links, requests, inviting, lost, seenOnly>>

\* ... and writes the flag.  The ORM emits no UPDATE when the value is the one
\* it loaded, and finds no row to update when the player has withdrawn.
FlagWrite(p, k) ==
    /\ task[p][k].pc = "flip"
    /\ users' = IF task[p][k].yes # task[p][k].loaded /\ users[p].row = task[p][k].row
                THEN [users EXCEPT ![p].active = task[p][k].yes] ELSE users
    /\ task' = [task EXCEPT ![p][k] = Rest]
    /\ UNCHANGED <<rows, place, links, requests, waiting, inviting, lost, seenOnly>>

-----------------------------------------------------------------------------
\* The throttle drops an update of a busy performer, silently.
Throttled(p, k) ==
    /\ lost < MaxLost /\ lost' = lost + 1
    /\ waiting[p][k] # <<>>
    /\ waiting' = [waiting EXCEPT ![p][k] = Tail(@)]
    /\ orderly' = [orderly EXCEPT ![p] = @ /\ Front(p, k) = "request"]
    /\ UNCHANGED <<users, rows, place, links, requests, task, inviting, moved>>

\* The process dies; start-up drops the updates that wait.
Crash ==
    /\ lost < MaxLost /\ lost' = lost + 1
    /\ waiting' = [p \in Players |-> [k \in Keys |-> <<>>]]
    /\ task' = [p \in Players |-> [k \in Keys |-> Rest]]
    /\ inviting' = {}
    /\ orderly' = [p \in Players |-> orderly[p] /\ Quiet(p)]
    /\ UNCHANGED <<users, rows, place, links, requests, moved>>

-----------------------------------------------------------------------------
Handles(p) ==
    \/ DoorCheck(p) \/ DoorApprove(p) \/ DoorDecline(p) \/ DoorFails(p)
    \/ \E k \in Keys : FlagRead(p, k) \/ FlagWrite(p, k)
    \/ Unban(p) \/ Mint(p)

Next ==
    \/ \E p \in Players :
          \/ Leave(p) \/ \E l \in Players \cup Others : Follow(p, l)
          \/ \E d \in Admins : Kick(p, d) \/ AdminAdmits(p, d)
          \/ Known(p) \/ Register(p) \/ Approve(p) \/ Reject(p) \/ Withdraw(p) \/ Invite(p)
          \/ Handles(p)
          \/ \E k \in Keys : Throttled(p, k)
    \/ Crash

Spec == Init /\ [][Next]_vars
-----------------------------------------------------------------------------
\* Properties

TypeOK ==
    /\ users \in [Players -> [row : 0 .. MaxRows, active : BOOLEAN,
                              status : {"none", "pending_review", "approved"}]]
    /\ rows \in [Players -> 0 .. MaxRows]
    /\ place \in [Players -> {"out", "in", "banned"}]
    /\ links \subseteq Players \cup Others
    /\ requests \subseteq Players \X (Players \cup Others)
    /\ waiting \in [Players -> [Keys -> Seq({"request", "joined", "gone"})]]
    /\ task \in [Players -> [Keys -> [pc : {"idle", "settle", "flip"}, yes : BOOLEAN,
                                      row : 0 .. MaxRows, loaded : BOOLEAN]]]
    /\ inviting \subseteq Players \X {"unban", "mint"}
    /\ lost \in 0 .. MaxLost
    /\ moved \in [Players -> 0 .. MaxRows]
    /\ orderly \in [Players -> BOOLEAN]

\* Whoever the bot lets in, by whatever link, has an approved application of his
\* own -- unless he erased his row between the bot's look and the bot's answer.  That
\* is as far as the check at the door goes: the link may be anybody's.
AdmitsOnlyApproved ==
    [][\A p \in Players : DoorApprove(p) =>
          users[p].status = "approved" \/ users[p].row # task[p]["own"].row]_vars

\* What membership.py promises of the door: a request is approved "iff the
\* requester's own application is APPROVED", and a leaked link "admits nobody but
\* the person it was issued for".  (Neither holds: the link has no name in it, and
\* the application may be erased before the answer.)
DoorAdmitsTheInvited ==
    [][\A p \in Players : DoorApprove(p) =>
          users[p].status = "approved" /\ <<p, p>> \in requests]_vars

\* Once the updates about a player are handled, is_active says whether the
\* player is in the group -- provided that none of them was lost and that they
\* could be handled in order.  A row that is younger than the player's last
\* coming or going may still say False.
FlagInSync ==
    \A p \in Players : Quiet(p) /\ orderly[p] /\ users[p].row # 0 =>
        /\ users[p].active => place[p] = "in"
        /\ place[p] = "in" /\ moved[p] = users[p].row => users[p].active
=============================================================================
