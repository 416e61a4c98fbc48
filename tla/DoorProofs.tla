----------------------------- MODULE DoorProofs -----------------------------
(***************************************************************************)
(* Proofs about Door: for any players, admins, links and updates, the bot  *)
(* lets in only players with an approved application of their own, and the *)
(* is_active flag follows the group as long as its updates do.             *)
(***************************************************************************)
EXTENDS Door, TLAPS

Updates == {"request", "joined", "gone"}
UserType == [row : 0 .. MaxRows, active : BOOLEAN,
             status : {"none", "pending_review", "approved"}]
TaskType == [pc : {"idle", "settle", "flip"}, yes : BOOLEAN,
             row : 0 .. MaxRows, loaded : BOOLEAN]

\* What the door relies on: rows are never used twice, and while the bot is
\* about to say yes, the row it looked at is approved or gone.
Vouched(p) ==
    /\ users[p].row \in {0, rows[p]}
    /\ users[p].status # "none" => users[p].row # 0
    /\ task[p]["own"].pc = "settle" =>
          /\ task[p]["own"].row <= rows[p]
          /\ task[p]["own"].yes =>
                /\ task[p]["own"].row # 0
                /\ users[p].row = task[p]["own"].row => users[p].status = "approved"

DoorInv == TypeOK /\ \A p \in Players : Vouched(p)

-----------------------------------------------------------------------------
LEMMA RestType == Rest \in TaskType /\ Rest.pc = "idle"
BY DoorBounds DEF Rest, TaskType

LEMMA QueueType ==
    ASSUME TypeOK, NEW p \in Players, NEW k \in Keys, NEW u \in Updates, Queue(p, k, u)
    PROVE  waiting' \in [Players -> [Keys -> Seq(Updates)]]
<1>1. Append(waiting[p][k], u) \in Seq(Updates)
    BY DEF TypeOK, Updates
<1> QED BY <1>1 DEF TypeOK, Queue, Updates

LEMMA TakeType ==
    ASSUME TypeOK, NEW p \in Players, NEW k \in Keys, waiting[p][k] # <<>>,
           waiting' = [waiting EXCEPT ![p][k] = Tail(@)]
    PROVE  waiting' \in [Players -> [Keys -> Seq(Updates)]]
<1>1. Tail(waiting[p][k]) \in Seq(Updates)
    BY DEF TypeOK, Updates
<1> QED BY <1>1 DEF TypeOK, Updates

LEMMA TaskStep ==
    ASSUME TypeOK, NEW p \in Players, NEW k \in Keys, NEW j \in TaskType,
           task' = [task EXCEPT ![p][k] = j]
    PROVE  task' \in [Players -> [Keys -> TaskType]]
BY DEF TypeOK, TaskType

LEMMA MoveType ==
    ASSUME TypeOK, NEW p \in Players, NEW k \in Keys,
           NEW w \in {"out", "in", "banned"}, Move(p, k, w)
    PROVE  /\ waiting' \in [Players -> [Keys -> Seq(Updates)]]
           /\ place' \in [Players -> {"out", "in", "banned"}]
           /\ moved' \in [Players -> 0 .. MaxRows]
           /\ orderly' \in [Players -> BOOLEAN]
           /\ place' = [place EXCEPT ![p] = w]
<1>1. (IF w = "in" THEN "joined" ELSE "gone") \in Updates
    BY DEF Updates
<1>2. waiting' \in [Players -> [Keys -> Seq(Updates)]]
    BY <1>1, QueueType DEF Move
<1>3. users[p].row \in 0 .. MaxRows
    BY DEF TypeOK
<1>4. moved' \in [Players -> 0 .. MaxRows]
    BY <1>3 DEF Move, TypeOK
<1>5. orderly' \in [Players -> BOOLEAN]
    BY DEF Move, TypeOK, Quiet, Settled
<1> QED BY <1>2, <1>4, <1>5 DEF Move, TypeOK

-----------------------------------------------------------------------------
LEMMA DoorStart == Init => DoorInv
<1> SUFFICES ASSUME Init PROVE DoorInv
    OBVIOUS
<1>1. TypeOK
    BY DoorBounds, RestType DEF Init, TypeOK, NoUser, TaskType, Keys
<1>2. ASSUME NEW p \in Players PROVE Vouched(p)
    BY <1>1, RestType DEF Init, Vouched, NoUser, Keys
<1> QED BY <1>1, <1>2 DEF DoorInv

\* A step that changes nothing that Vouched speaks of.
LEMMA VouchedKept ==
    ASSUME NEW p \in Players, Vouched(p), users'[p] = users[p], rows'[p] = rows[p],
           task'[p]["own"] = task[p]["own"] \/ task'[p]["own"].pc # "settle"
    PROVE  Vouched(p)'
BY DEF Vouched

\* p comes or goes: a request may be settled by it, and a handler end.
LEMMA MoveKeeps ==
    ASSUME DoorInv, NEW p \in Players, NEW k \in Keys, NEW w \in {"out", "in", "banned"},
           Move(p, k, w), requests' \subseteq requests,
           task' = task \/ task' = [task EXCEPT ![p]["own"] = Rest],
           inviting' \subseteq Players \X {"unban", "mint"},
           UNCHANGED <<users, rows, links, lost>>
    PROVE  DoorInv'
<1>0. "own" \in Keys
    BY DEF Keys
<1>1. task' \in [Players -> [Keys -> TaskType]]
    BY <1>0, RestType, TaskStep DEF DoorInv, TypeOK, TaskType
<1>2. /\ waiting' \in [Players -> [Keys -> Seq(Updates)]]
      /\ place' \in [Players -> {"out", "in", "banned"}]
      /\ moved' \in [Players -> 0 .. MaxRows] /\ orderly' \in [Players -> BOOLEAN]
    BY MoveType DEF DoorInv
<1>3. TypeOK'
    BY <1>1, <1>2 DEF DoorInv, TypeOK, TaskType, Updates
<1>4. ASSUME NEW q \in Players PROVE Vouched(q)'
  <2>0. task \in [Players -> [Keys -> TaskType]]
      BY DEF DoorInv, TypeOK, TaskType
  <2>1. CASE task' = [task EXCEPT ![p]["own"] = Rest] /\ q = p
    <3>1. task'[q]["own"].pc # "settle"
        BY <1>0, <2>0, <2>1, RestType
    <3> QED BY <3>1, VouchedKept DEF DoorInv
  <2>2. CASE task' = task \/ q # p
    <3>1. task'[q]["own"] = task[q]["own"]
        BY <2>0, <2>2
    <3> QED BY <3>1, VouchedKept DEF DoorInv
  <2> QED BY <2>1, <2>2
<1> QED BY <1>3, <1>4 DEF DoorInv

\* What happens outside the bot.
LEMMA PeopleKeep ==
    ASSUME DoorInv, NEW p \in Players,
           \/ Leave(p) \/ \E l \in Players \cup Others : Follow(p, l)
           \/ \E d \in Admins : Kick(p, d) \/ AdminAdmits(p, d)
    PROVE  DoorInv'
<1>0. inviting \subseteq Players \X {"unban", "mint"}
    BY DEF DoorInv, TypeOK
<1>1. ASSUME NEW l \in Players \cup Others, Follow(p, l) PROVE DoorInv'
  <2>1. waiting' \in [Players -> [Keys -> Seq(Updates)]]
      BY <1>1, QueueType DEF Follow, DoorInv, Updates, Keys
  <2>2. TypeOK'
      BY <1>1, <2>1 DEF Follow, DoorInv, TypeOK, Updates, seenOnly
  <2> QED BY <1>1, <2>2, VouchedKept DEF Follow, DoorInv, seenOnly
<1>2. CASE Leave(p)
    BY <1>0, <1>2, MoveKeeps DEF Leave, Keys
<1>3. ASSUME NEW d \in Admins, Kick(p, d) PROVE DoorInv'
    BY <1>0, <1>3, MoveKeeps DEF Kick, Keys
<1>4. ASSUME NEW d \in Admins, AdminAdmits(p, d) PROVE DoorInv'
    BY <1>0, <1>4, MoveKeeps DEF AdminAdmits, RequestsWithout, Keys
<1> QED BY <1>1, <1>2, <1>3, <1>4

\* What the applications do.
LEMMA ApplicationsKeep ==
    ASSUME DoorInv, NEW p \in Players,
           Known(p) \/ Register(p) \/ Approve(p) \/ Reject(p) \/ Withdraw(p) \/ Invite(p)
    PROVE  DoorInv'
<1> USE DoorBounds
<1>0. /\ users \in [Players -> UserType] /\ rows \in [Players -> 0 .. MaxRows]
      /\ users[p] \in UserType
    BY DEF DoorInv, TypeOK, UserType
<1>1. NewRow(p) => rows' \in [Players -> 0 .. MaxRows] /\ rows'[p] \in 0 .. MaxRows
    BY <1>0 DEF NewRow
<1>2. users' \in [Players -> UserType]
  <2>1. CASE Known(p)
    <3>1. [users[p] EXCEPT !.row = rows'[p]] \in UserType
        BY <1>0, <1>1, <2>1 DEF Known, UserType
    <3> QED BY <1>0, <2>1, <3>1 DEF Known
  <2>2. CASE Register(p)
    <3>1. [users[p] EXCEPT !.row = rows'[p], !.status = "pending_review"] \in UserType
        BY <1>0, <1>1, <2>2 DEF Register, UserType
    <3>2. users' = [users EXCEPT ![p] =
              [users[p] EXCEPT !.row = rows'[p], !.status = "pending_review"]]
        BY <1>0, <2>2 DEF Register
    <3> QED BY <1>0, <3>1, <3>2
  <2>3. CASE Approve(p) \/ Reject(p)
      BY <1>0, <2>3 DEF Approve, Reject, UserType
  <2>4. CASE Withdraw(p)
      BY <1>0, <2>4 DEF Withdraw, UserType, NoUser
  <2>5. CASE Invite(p)
      BY <1>0, <2>5 DEF Invite
  <2> QED BY <2>1, <2>2, <2>3, <2>4, <2>5
<1>3. rows' \in [Players -> 0 .. MaxRows]
    BY <1>0, <1>1 DEF Known, Register, Approve, Reject, Withdraw, Invite
<1>4. /\ UNCHANGED <<place, links, requests, waiting, task, lost, moved, orderly>>
      /\ inviting' \subseteq inviting \cup {<<p, "unban">>}
    BY DEF Known, Register, Approve, Reject, Withdraw, Invite, world, seenOnly
<1>5. TypeOK'
  <2>1. inviting' \subseteq Players \X {"unban", "mint"}
      BY <1>4 DEF DoorInv, TypeOK
  <2> QED BY <1>2, <1>3, <1>4, <2>1 DEF DoorInv, TypeOK, UserType
<1>6. ASSUME NEW q \in Players \ {p} PROVE Vouched(q)'
  <2>1. users'[q] = users[q] /\ rows'[q] = rows[q]
      BY <1>0 DEF Known, Register, Approve, Reject, Withdraw, Invite, NewRow
  <2> QED BY <1>4, <2>1, VouchedKept DEF DoorInv
<1>7. Vouched(p)'
  <2>0. /\ Vouched(p) /\ task' = task
        /\ rows[p] \in Nat /\ users[p].row \in Nat
        /\ task[p]["own"].row \in Nat
      BY <1>4 DEF DoorInv, TypeOK, Keys
  <2>1. \/ /\ users[p].row # 0 /\ users'[p].row = users[p].row /\ rows'[p] = rows[p]
           /\ users'[p].status # users[p].status => users[p].status # "approved"
        \/ /\ users[p].row = 0 /\ users'[p].row = rows[p] + 1 /\ rows'[p] = rows[p] + 1
        \/ users'[p].row = 0 /\ users'[p].status = "none" /\ rows'[p] = rows[p]
      BY <1>0, <2>0 DEF Known, Register, Approve, Reject, Withdraw, Invite, NewRow, NoUser,
         UserType, Vouched
  <2> QED BY <2>0, <2>1 DEF Vouched
<1> QED BY <1>5, <1>6, <1>7 DEF DoorInv

\* What the invitations do.
LEMMA InvitationsKeep ==
    ASSUME DoorInv, NEW p \in Players, Unban(p) \/ Mint(p)
    PROVE  DoorInv'
<1>0. inviting' \subseteq Players \X {"unban", "mint"}
    BY DEF Unban, Mint, DoorInv, TypeOK
<1>1. CASE Unban(p) /\ Move(p, "bot", "out")
    BY <1>0, <1>1, MoveKeeps DEF Unban, Keys
<1>2. CASE Mint(p) \/ (Unban(p) /\ UNCHANGED <<place, waiting, moved, orderly>>)
  <2>1. UNCHANGED <<users, rows, place, waiting, task, requests, lost, moved, orderly>>
        /\ links' \subseteq links \cup {p}
      BY <1>2 DEF Unban, Mint, seenOnly
  <2>2. TypeOK'
      BY <1>0, <2>1 DEF DoorInv, TypeOK
  <2> QED BY <2>1, <2>2, VouchedKept DEF DoorInv
<1> QED BY <1>1, <1>2 DEF Unban

-----------------------------------------------------------------------------
\* on_join_request.
LEMMA DoorKeeps ==
    ASSUME DoorInv, NEW p \in Players,
           DoorCheck(p) \/ DoorApprove(p) \/ DoorDecline(p) \/ DoorFails(p)
    PROVE  DoorInv'
<1>0. "own" \in Keys
    BY DEF Keys
<1>1. CASE DoorCheck(p)
  <2>1. waiting' \in [Players -> [Keys -> Seq(Updates)]]
      BY <1>0, <1>1, TakeType DEF DoorCheck, Take, Front, DoorInv
  <2> DEFINE j == [Rest EXCEPT !.pc = "settle", !.yes = HasApproved(p), !.row = users[p].row]
  <2>0. users[p].row \in 0 .. MaxRows
      BY DEF DoorInv, TypeOK
  <2>2. j \in TaskType /\ j.yes = HasApproved(p) /\ j.row = users[p].row
      BY <2>0, RestType DEF TaskType, HasApproved, Rest
  <2>3. task' = [task EXCEPT ![p]["own"] = j]
      BY <1>1 DEF DoorCheck
  <2> HIDE DEF j
  <2>4. task' \in [Players -> [Keys -> TaskType]] /\ task'[p]["own"] = j
      BY <1>0, <2>2, <2>3, TaskStep DEF DoorInv, TypeOK
  <2>5. \A q \in Players \ {p} : task'[q] = task[q]
      BY <2>3 DEF DoorInv, TypeOK
  <2>6. TypeOK'
      BY <1>1, <2>1, <2>4 DEF DoorCheck, DoorInv, TypeOK, TaskType, Updates, seenOnly
  <2>7. Vouched(p)'
    <3>1. users' = users /\ rows' = rows /\ rows[p] \in Nat /\ Vouched(p)
        BY <1>1 DEF DoorCheck, DoorInv, TypeOK
    <3>2. /\ task'[p]["own"].yes <=> users[p].status = "approved"
          /\ task'[p]["own"].row = users[p].row
        BY <2>2, <2>4 DEF HasApproved
    <3> QED BY <3>1, <3>2 DEF Vouched
  <2>8. ASSUME NEW q \in Players \ {p} PROVE Vouched(q)'
      BY <1>1, <2>5, VouchedKept DEF DoorCheck, DoorInv
  <2> QED BY <2>6, <2>7, <2>8 DEF DoorInv
<1>2. ASSUME task' = [task EXCEPT ![p]["own"] = Rest]
      PROVE  /\ task' \in [Players -> [Keys -> TaskType]]
             /\ task'[p]["own"].pc = "idle"
             /\ \A q \in Players \ {p} : task'[q] = task[q]
    BY <1>0, <1>2, RestType, TaskStep DEF DoorInv, TypeOK
<1>3. CASE DoorApprove(p)
  <2>1. PICK k \in Keys : Move(p, k, "in")
      BY <1>3 DEF DoorApprove, Keys
  <2>2. inviting' \subseteq Players \X {"unban", "mint"}
      BY <1>3 DEF DoorApprove, DoorInv, TypeOK
  <2> QED BY <1>3, <2>1, <2>2, MoveKeeps DEF DoorApprove, RequestsWithout
<1>4. CASE DoorDecline(p) \/ DoorFails(p)
  <2>1. /\ task' = [task EXCEPT ![p]["own"] = Rest] /\ requests' \subseteq requests
        /\ UNCHANGED <<users, rows, place, links, waiting, inviting, lost, seenOnly>>
      BY <1>4 DEF DoorDecline, DoorFails, RequestsWithout
  <2>2. TypeOK'
      BY <1>2, <2>1 DEF DoorInv, TypeOK, TaskType, Updates, seenOnly
  <2> QED BY <1>2, <2>1, <2>2, VouchedKept DEF DoorInv
<1> QED BY <1>1, <1>3, <1>4

\* on_group_membership_change.
LEMMA FlagKeeps ==
    ASSUME DoorInv, NEW p \in Players, NEW k \in Keys, FlagRead(p, k) \/ FlagWrite(p, k)
    PROVE  DoorInv'
<1>0. /\ users[p] \in UserType /\ users \in [Players -> UserType]
      /\ task[p][k] \in TaskType
    BY DEF DoorInv, TypeOK, UserType, TaskType
<1>1. CASE FlagRead(p, k)
  <2>1. waiting' \in [Players -> [Keys -> Seq(Updates)]]
      BY <1>1, TakeType DEF FlagRead, Take, Front, DoorInv
  <2> DEFINE j == [pc |-> "flip", yes |-> Front(p, k) = "joined",
                   row |-> users[p].row, loaded |-> users[p].active]
  <2>2. j \in TaskType /\ j.pc = "flip"
      BY <1>0 DEF TaskType, UserType
  <2>3. task' = task \/ task' = [task EXCEPT ![p][k] = j]
      BY <1>1 DEF FlagRead
  <2> HIDE DEF j
  <2>4. task' \in [Players -> [Keys -> TaskType]]
      BY <2>2, <2>3, TaskStep DEF DoorInv, TypeOK, TaskType
  <2>5. TypeOK'
      BY <1>1, <2>1, <2>4 DEF FlagRead, DoorInv, TypeOK, TaskType, Updates, seenOnly
  <2>6. ASSUME NEW q \in Players, task'[q]["own"].pc = "settle"
        PROVE  task'[q]["own"] = task[q]["own"]
    <3>1. "own" \in Keys
        BY DEF Keys
    <3>2. CASE q = p /\ k = "own"
        BY <2>2, <2>3, <2>6, <3>1, <3>2 DEF DoorInv, TypeOK
    <3>3. CASE ~(q = p /\ k = "own")
        BY <2>3, <3>1, <3>3 DEF DoorInv, TypeOK
    <3> QED BY <3>2, <3>3
  <2> QED BY <1>1, <2>5, <2>6, VouchedKept DEF FlagRead, DoorInv
<1>2. CASE FlagWrite(p, k)
  <2>1. task' = [task EXCEPT ![p][k] = Rest]
      BY <1>2 DEF FlagWrite
  <2>2. task' \in [Players -> [Keys -> TaskType]]
      BY <2>1, RestType, TaskStep DEF DoorInv
  <2>3. \A q \in Players : task'[q]["own"].pc = "settle" => task'[q]["own"] = task[q]["own"]
      BY <2>1, RestType DEF DoorInv, TypeOK, Keys
  <2>4. task[p][k].yes \in BOOLEAN
      BY <1>0 DEF TaskType
  <2>5. users' \in [Players -> UserType]
      BY <1>0, <1>2, <2>4 DEF FlagWrite, UserType
  <2>6. \A q \in Players : users'[q].status = users[q].status /\ users'[q].row = users[q].row
      BY <1>0, <1>2 DEF FlagWrite, UserType
  <2>7. TypeOK'
      BY <1>2, <2>2, <2>5 DEF FlagWrite, DoorInv, TypeOK, TaskType, UserType, seenOnly
  <2> QED BY <1>2, <2>3, <2>6, <2>7 DEF FlagWrite, DoorInv, Vouched, seenOnly
<1> QED BY <1>1, <1>2

\* Updates lost.
LEMMA LossKeeps ==
    ASSUME DoorInv, (\E p \in Players, k \in Keys : Throttled(p, k)) \/ Crash
    PROVE  DoorInv'
<1>1. CASE Crash
  <2>1. task' \in [Players -> [Keys -> TaskType]]
        /\ waiting' \in [Players -> [Keys -> Seq(Updates)]]
      BY <1>1, RestType DEF Crash
  <2>2. orderly' \in [Players -> BOOLEAN]
      BY <1>1 DEF Crash, DoorInv, TypeOK, Quiet, Settled
  <2>3. TypeOK'
      BY <1>1, <2>1, <2>2, DoorBounds DEF Crash, DoorInv, TypeOK, TaskType, Updates
  <2>4. \A q \in Players : task'[q]["own"].pc = "idle"
      BY <1>1, RestType DEF Crash, Keys
  <2> QED BY <1>1, <2>3, <2>4 DEF Crash, DoorInv, Vouched
<1>2. ASSUME NEW p \in Players, NEW k \in Keys, Throttled(p, k) PROVE DoorInv'
  <2>1. waiting' \in [Players -> [Keys -> Seq(Updates)]]
      BY <1>2, TakeType DEF Throttled, DoorInv
  <2>2. TypeOK'
      BY <1>2, <2>1, DoorBounds DEF Throttled, DoorInv, TypeOK, Updates
  <2> QED BY <1>2, <2>2 DEF Throttled, DoorInv, Vouched
<1> QED BY <1>1, <1>2

-----------------------------------------------------------------------------
LEMMA DoorStep == DoorInv /\ [Next]_vars => DoorInv'
<1> SUFFICES ASSUME DoorInv, [Next]_vars PROVE DoorInv'
    OBVIOUS
<1>1. CASE UNCHANGED vars
    BY <1>1 DEF vars, DoorInv, TypeOK, Vouched
<1>2. CASE Next
  <2>1. ASSUME NEW p \in Players, Handles(p) PROVE DoorInv'
      BY <2>1, DoorKeeps, FlagKeeps, InvitationsKeep DEF Handles
  <2> QED BY <1>2, <2>1, PeopleKeep, ApplicationsKeep, LossKeeps DEF Next
<1> QED BY <1>1, <1>2

LEMMA DoorAlways == Spec => []DoorInv
BY DoorStart, DoorStep, PTL DEF Spec

\* Every variable keeps its type.
THEOREM DoorTypeCorrect == Spec => []TypeOK
<1>1. DoorInv => TypeOK
    BY DEF DoorInv
<1> QED BY <1>1, DoorAlways, PTL

\* However many links are about and whoever follows them, and whatever is
\* rejected, erased and registered again between the bot's look and its answer,
\* the bot lets in only players whose own application is approved, or whose
\* approved row is gone (AdmitsOnlyApproved).
THEOREM LinkIsNotEnough == Spec => AdmitsOnlyApproved
<1>1. DoorInv /\ [Next]_vars =>
          [\A p \in Players : DoorApprove(p) =>
              users[p].status = "approved" \/ users[p].row # task[p]["own"].row]_vars
    BY DEF DoorInv, Vouched, DoorApprove
<1> QED BY <1>1, DoorAlways, PTL DEF Spec, AdmitsOnlyApproved

-----------------------------------------------------------------------------
\* No change of membership waits in w; and the last one that does is a coming
\* exactly when x holds.
Calm(w) == \A i \in 1 .. Len(w) : w[i] = "request"
Tells(w, x) ==
    \A i \in 1 .. Len(w) :
        w[i] # "request" /\ (\A j \in (i + 1) .. Len(w) : w[j] = "request")
            => (w[i] = "joined" <=> x)

\* The numbers of p's users rows only grow, and a new row starts inactive.
Numbered(p) ==
    /\ users[p].row \in {0, rows[p]}
    /\ users[p].row = 0 => ~users[p].active
    /\ moved[p] <= rows[p]
    /\ \A k \in Keys : task[p][k].pc = "flip" =>
          task[p][k].row # 0 /\ task[p][k].row <= rows[p]

\* What a handler between its read and its write of the flag may rely on while
\* the updates about p are in order: the row it read is as it was or erased, and
\* unless another change waits behind it, it is about to write where p is.
Flips(p, k) ==
    /\ users[p].row = task[p][k].row => users[p].active = task[p][k].loaded
    /\ users[p].row > task[p][k].row => ~users[p].active
    /\ Calm(waiting[p][k]) =>
          (task[p][k].yes <=> place[p] = "in") /\ moved[p] <= task[p][k].row

\* What is_active says once nothing about p is under way.
Agrees(p) ==
    users[p].row # 0 =>
        /\ users[p].active => place[p] = "in"
        /\ place[p] = "in" /\ moved[p] = users[p].row => users[p].active

\* While the updates about p are in order they wait under one key, and the last
\* of them says where p is.
Follows(p) ==
    /\ \A k, o \in Keys : k # o => Settled(p, k) \/ Settled(p, o)
    /\ \A k \in Keys : Tells(waiting[p][k], place[p] = "in")
    /\ \A k \in Keys : task[p][k].pc = "flip" => Flips(p, k)
    /\ Quiet(p) => Agrees(p)

\* What p's updates and p's row are in order for.
InOrder(p) == Numbered(p) /\ (orderly[p] => Follows(p))
FlagInv == \A p \in Players : InOrder(p)

-----------------------------------------------------------------------------
\* A request waiting tells nothing of where p is.
LEMMA RequestTells ==
    ASSUME NEW w \in Seq(Updates), NEW x \in BOOLEAN
    PROVE  /\ Calm(Append(w, "request")) <=> Calm(w)
           /\ Tells(w, x) => Tells(Append(w, "request"), x)
<1> DEFINE v == Append(w, "request")
<1>1. /\ Len(v) = Len(w) + 1 /\ v[Len(w) + 1] = "request" /\ Len(w) \in Nat
      /\ \A i \in 1 .. Len(w) : v[i] = w[i]
    BY DEF Updates
<1> HIDE DEF v
<1>2. Calm(v) <=> Calm(w)
    BY <1>1 DEF Calm
<1>3. Tells(w, x) => Tells(v, x)
    BY <1>1 DEF Tells
<1> QED BY <1>2, <1>3 DEF v

\* The last change waiting is the one queued last.
LEMMA ChangeTells ==
    ASSUME NEW w \in Seq(Updates), NEW u \in {"joined", "gone"}
    PROVE  ~Calm(Append(w, u)) /\ Tells(Append(w, u), u = "joined")
<1> DEFINE v == Append(w, u)
<1>1. /\ Len(v) = Len(w) + 1 /\ v[Len(w) + 1] = u /\ Len(w) \in Nat
    BY DEF Updates
<1> HIDE DEF v
<1>2. ~Calm(v)
    BY <1>1 DEF Calm
<1>3. Tells(v, u = "joined")
  <2> SUFFICES ASSUME NEW i \in 1 .. Len(v), v[i] # "request",
                      \A j \in (i + 1) .. Len(v) : v[j] = "request"
               PROVE  v[i] = "joined" <=> u = "joined"
      BY DEF Tells
  <2>1. i = Len(w) + 1
      BY <1>1
  <2> QED BY <1>1, <2>1
<1> QED BY <1>2, <1>3 DEF v

\* What taking the first update leaves.
LEMMA TailTells ==
    ASSUME NEW w \in Seq(Updates), w # <<>>, NEW x \in BOOLEAN
    PROVE  /\ Tells(w, x) => Tells(Tail(w), x)
           /\ Head(w) = "request" => (Calm(Tail(w)) <=> Calm(w))
           /\ Head(w) # "request" => ~Calm(w)
           /\ Head(w) # "request" /\ Calm(Tail(w)) /\ Tells(w, x)
                 => (Head(w) = "joined" <=> x)
<1> DEFINE v == Tail(w)
<1>1. /\ Len(w) \in Nat /\ Len(w) > 0 /\ Len(v) = Len(w) - 1 /\ Head(w) = w[1]
      /\ \A i \in 1 .. Len(v) : v[i] = w[i + 1]
    BY DEF Updates
<1> HIDE DEF v
<1>2. Tells(w, x) => Tells(v, x)
  <2> SUFFICES ASSUME Tells(w, x), NEW i \in 1 .. Len(v), v[i] # "request",
                      \A j \in (i + 1) .. Len(v) : v[j] = "request"
               PROVE  v[i] = "joined" <=> x
      BY DEF Tells
  <2>1. \A j \in (i + 2) .. Len(w) : w[j] = "request"
    <3> SUFFICES ASSUME NEW j \in (i + 2) .. Len(w) PROVE w[j] = "request"
        OBVIOUS
    <3>1. j - 1 \in (i + 1) .. Len(v) /\ v[j - 1] = w[j]
        BY <1>1
    <3> QED BY <3>1
  <2>2. i + 1 \in 1 .. Len(w) /\ w[i + 1] = v[i]
      BY <1>1
  <2> QED BY <2>1, <2>2 DEF Tells
<1>3. Calm(w) <=> Head(w) = "request" /\ Calm(v)
  <2>1. ASSUME Calm(v), Head(w) = "request", NEW i \in 1 .. Len(w) PROVE w[i] = "request"
    <3>1. CASE i = 1
        BY <1>1, <2>1, <3>1
    <3>2. CASE i # 1
      <4>1. i - 1 \in 1 .. Len(v) /\ v[i - 1] = w[i]
          BY <1>1, <3>2
      <4> QED BY <2>1, <4>1 DEF Calm
    <3> QED BY <3>1, <3>2
  <2>2. Calm(w) => Head(w) = "request" /\ Calm(v)
      BY <1>1 DEF Calm
  <2> QED BY <2>1, <2>2 DEF Calm
<1>4. Head(w) # "request" /\ Calm(v) /\ Tells(w, x) => (Head(w) = "joined" <=> x)
  <2> SUFFICES ASSUME Head(w) # "request", Calm(v), Tells(w, x)
               PROVE  Head(w) = "joined" <=> x
      OBVIOUS
  <2>1. \A j \in 2 .. Len(w) : w[j] = "request"
    <3> SUFFICES ASSUME NEW j \in 2 .. Len(w) PROVE w[j] = "request"
        OBVIOUS
    <3>1. j - 1 \in 1 .. Len(v) /\ v[j - 1] = w[j]
        BY <1>1
    <3> QED BY <3>1 DEF Calm
  <2>2. 1 \in 1 .. Len(w)
      BY <1>1
  <2> QED BY <1>1, <2>1, <2>2 DEF Tells
<1> QED BY <1>2, <1>3, <1>4 DEF v

\* Once no change waits, any place is told.
LEMMA CalmTells == ASSUME NEW w, NEW x, Calm(w) PROVE Tells(w, x)
BY DEF Calm, Tells

-----------------------------------------------------------------------------
\* The parts of the state that InOrder looks at.
LEMMA PlayerAt ==
    ASSUME DoorInv, NEW p \in Players
    PROVE  /\ users[p].row \in Nat /\ users[p].active \in BOOLEAN /\ rows[p] \in Nat
           /\ moved[p] \in Nat /\ orderly[p] \in BOOLEAN
           /\ \A k \in Keys : /\ waiting[p][k] \in Seq(Updates)
                              /\ task[p][k] \in TaskType /\ task[p][k].row \in Nat
                              /\ task[p][k].yes \in BOOLEAN /\ task[p][k].loaded \in BOOLEAN
BY DoorBounds DEF DoorInv, TypeOK, Updates, TaskType

\* A step that changes nothing of what InOrder looks at.
LEMMA OrderKept ==
    ASSUME NEW p \in Players, InOrder(p),
           users'[p].row = users[p].row, users'[p].active = users[p].active,
           rows'[p] = rows[p], moved'[p] = moved[p],
           place'[p] = "in" <=> place[p] = "in",
           orderly'[p] => orderly[p],
           \A k \in Keys : \/ task'[p][k] = task[p][k]
                           \/ task'[p][k].pc # "flip" /\ task[p][k].pc # "flip",
           \A k \in Keys : /\ Calm(waiting'[p][k]) <=> Calm(waiting[p][k])
                           /\ \A x \in BOOLEAN : Tells(waiting[p][k], x)
                                                    => Tells(waiting'[p][k], x)
    PROVE  InOrder(p)'
<1>1. Numbered(p)'
    BY DEF InOrder, Numbered
<1>2. ASSUME orderly'[p] PROVE Follows(p)'
  <2>1. Follows(p)
      BY <1>2 DEF InOrder
  <2>2. \A k \in Keys : Settled(p, k)' <=> Settled(p, k)
      BY DEF Settled, Calm
  <2>3. \A k \in Keys : Tells(waiting'[p][k], place'[p] = "in")
      BY <2>1 DEF Follows
  <2>4. \A k \in Keys : task'[p][k].pc = "flip" => Flips(p, k)'
      BY <2>1 DEF Follows, Flips
  <2>5. Quiet(p)' => Agrees(p)'
      BY <2>1, <2>2 DEF Follows, Quiet, Agrees
  <2> QED BY <2>1, <2>2, <2>3, <2>4, <2>5 DEF Follows
<1> QED BY <1>1, <1>2 DEF InOrder

\* A player a step is not about.
LEMMA OrderOfOthers ==
    ASSUME NEW p \in Players, InOrder(p),
           users'[p] = users[p], rows'[p] = rows[p], moved'[p] = moved[p],
           place'[p] = place[p], orderly'[p] = orderly[p],
           task'[p] = task[p], waiting'[p] = waiting[p]
    PROVE  InOrder(p)'
BY OrderKept

\* p comes or goes.
LEMMA MoveOrder ==
    ASSUME DoorInv, FlagInv, NEW p \in Players, NEW k \in Keys,
           NEW w \in {"out", "in", "banned"}, Move(p, k, w),
           users' = users, rows' = rows,
           \A q \in Players \ {p} : task'[q] = task[q],
           \A o \in Keys : \/ task'[p][o] = task[p][o]
                           \/ task'[p][o].pc # "flip" /\ task[p][o].pc # "flip"
    PROVE  FlagInv'
<1> DEFINE u == IF w = "in" THEN "joined" ELSE "gone"
<1>1. /\ waiting' = [waiting EXCEPT ![p][k] = Append(@, u)]
      /\ place'[p] = w /\ moved'[p] = users[p].row
      /\ orderly'[p] <=> Quiet(p) \/ (orderly[p] /\ \A o \in Keys \ {k} : Settled(p, o))
    BY DEF Move, Queue, DoorInv, TypeOK
<1>2. /\ waiting'[p][k] = Append(waiting[p][k], u)
      /\ \A o \in Keys \ {k} : waiting'[p][o] = waiting[p][o]
    BY <1>1 DEF DoorInv, TypeOK
<1>3. ASSUME NEW q \in Players \ {p} PROVE InOrder(q)'
  <2>1. /\ place'[q] = place[q] /\ moved'[q] = moved[q] /\ orderly'[q] = orderly[q]
        /\ waiting'[q] = waiting[q]
      BY <1>1 DEF Move, DoorInv, TypeOK
  <2> QED BY <2>1, OrderOfOthers DEF FlagInv
<1>4. InOrder(p)
    BY DEF FlagInv
<1>5. Numbered(p)'
    BY <1>1, <1>4, PlayerAt DEF InOrder, Numbered
<1>6. ASSUME orderly'[p] PROVE Follows(p)'
  <2>1. ~Calm(waiting'[p][k]) /\ Tells(waiting'[p][k], place'[p] = "in")
    <3>1. u \in {"joined", "gone"} /\ (u = "joined" <=> place'[p] = "in")
        BY <1>1
    <3> HIDE DEF u
    <3>2. ~Calm(waiting'[p][k]) /\ Tells(waiting'[p][k], u = "joined")
        BY <1>2, <3>1, ChangeTells, PlayerAt
    <3> QED BY <3>1, <3>2 DEF Tells
  <2>2. \A o \in Keys \ {k} : Settled(p, o)
      BY <1>1, <1>6 DEF Quiet
  <2>3. ASSUME NEW o \in Keys \ {k}
        PROVE  Settled(p, o)' /\ Calm(waiting'[p][o]) /\ task'[p][o].pc # "flip"
      BY <1>2, <2>2 DEF Settled, Calm
  <2>4. ~Settled(p, k)'
      BY <2>1 DEF Settled, Calm
  <2>5. \A o \in Keys : Tells(waiting'[p][o], place'[p] = "in")
      BY <2>1, <2>3, CalmTells
  <2>6. ASSUME task'[p][k].pc = "flip" PROVE Flips(p, k)'
    <3>1. task'[p][k] = task[p][k] /\ ~Quiet(p)
        BY <2>6 DEF Quiet, Settled
    <3>2. Flips(p, k)
        BY <1>1, <1>4, <1>6, <2>6, <3>1 DEF InOrder, Follows
    <3> QED BY <2>1, <3>1, <3>2 DEF Flips
  <2> QED BY <2>3, <2>4, <2>5, <2>6 DEF Follows, Quiet
<1> QED BY <1>3, <1>5, <1>6 DEF FlagInv, InOrder

-----------------------------------------------------------------------------
\* People who follow a link, leave, or are removed.
LEMMA PeopleOrder ==
    ASSUME DoorInv, FlagInv, NEW p \in Players,
           \/ Leave(p) \/ \E l \in Players \cup Others : Follow(p, l)
           \/ \E d \in Admins : Kick(p, d) \/ AdminAdmits(p, d)
    PROVE  FlagInv'
<1>1. ASSUME NEW l \in Players \cup Others, Follow(p, l) PROVE FlagInv'
  <2>0. "own" \in Keys
      BY DEF Keys
  <2>1. /\ waiting' = [waiting EXCEPT ![p]["own"] = Append(@, "request")]
        /\ UNCHANGED <<users, rows, place, task, moved, orderly>>
      BY <1>1 DEF Follow, Queue, seenOnly
  <2>2. /\ waiting'[p]["own"] = Append(waiting[p]["own"], "request")
        /\ \A k \in Keys \ {"own"} : waiting'[p][k] = waiting[p][k]
        /\ \A q \in Players \ {p} : waiting'[q] = waiting[q]
      BY <2>0, <2>1 DEF DoorInv, TypeOK
  <2>3. ASSUME NEW q \in Players \ {p} PROVE InOrder(q)'
      BY <2>1, <2>2, OrderOfOthers DEF FlagInv
  <2>4. \A k \in Keys : /\ Calm(waiting'[p][k]) <=> Calm(waiting[p][k])
                        /\ \A x \in BOOLEAN : Tells(waiting[p][k], x)
                                                 => Tells(waiting'[p][k], x)
    <3>1. waiting[p]["own"] \in Seq(Updates)
        BY <2>0, PlayerAt
    <3>2. PICK w \in Seq(Updates) : w = waiting[p]["own"]
        BY <3>1
    <3>3. /\ Calm(Append(w, "request")) <=> Calm(w)
          /\ \A x \in BOOLEAN : Tells(w, x) => Tells(Append(w, "request"), x)
        BY RequestTells
    <3> QED BY <2>2, <3>2, <3>3
  <2>5. InOrder(p)'
      BY <2>1, <2>4, OrderKept DEF FlagInv
  <2> QED BY <2>3, <2>5 DEF FlagInv
<1>2. CASE Leave(p)
    BY <1>2, MoveOrder DEF Leave, Keys
<1>3. ASSUME NEW d \in Admins, Kick(p, d) \/ AdminAdmits(p, d) PROVE FlagInv'
    BY <1>3, MoveOrder DEF Kick, AdminAdmits, Keys
<1> QED BY <1>1, <1>2, <1>3

\* The applications give p a row, or a new status, or take the row away.
LEMMA ApplicationsOrder ==
    ASSUME DoorInv, FlagInv, NEW p \in Players,
           Known(p) \/ Register(p) \/ Approve(p) \/ Reject(p) \/ Withdraw(p) \/ Invite(p)
    PROVE  FlagInv'
<1>0. users \in [Players -> UserType] /\ rows \in [Players -> 0 .. MaxRows]
    BY DEF DoorInv, TypeOK, UserType
<1>1. /\ UNCHANGED <<place, waiting, task, moved, orderly>>
      /\ \A q \in Players \ {p} : users'[q] = users[q] /\ rows'[q] = rows[q]
    BY <1>0 DEF Known, Register, Approve, Reject, Withdraw, Invite, NewRow, world, seenOnly
<1>2. \/ /\ users'[p].row = users[p].row /\ users'[p].active = users[p].active
         /\ rows'[p] = rows[p]
      \/ /\ users[p].row = 0 /\ users'[p].row = rows[p] + 1 /\ rows'[p] = rows[p] + 1
         /\ users'[p].active = users[p].active
      \/ users'[p].row = 0 /\ users'[p].active = FALSE /\ rows'[p] = rows[p]
    BY <1>0 DEF Known, Register, Approve, Reject, Withdraw, Invite, NewRow, NoUser, UserType
<1>3. ASSUME NEW q \in Players \ {p} PROVE InOrder(q)'
    BY <1>1, OrderOfOthers DEF FlagInv
<1>4. InOrder(p)
    BY DEF FlagInv
<1>5. CASE users'[p].row = users[p].row /\ users'[p].active = users[p].active
           /\ rows'[p] = rows[p]
  <2>1. \A k \in Keys : task'[p][k] = task[p][k] /\ waiting'[p][k] = waiting[p][k]
      BY <1>1
  <2>2. moved'[p] = moved[p] /\ place'[p] = place[p] /\ orderly'[p] = orderly[p]
      BY <1>1
  <2>3. InOrder(p)'
      BY <1>4, <1>5, <2>1, <2>2, OrderKept
  <2> QED BY <1>3, <2>3 DEF FlagInv
<1>6. CASE /\ users[p].row = 0 /\ users'[p].row = rows[p] + 1 /\ rows'[p] = rows[p] + 1
           /\ users'[p].active = users[p].active
  <2>1. Numbered(p)' /\ moved'[p] # users'[p].row /\ ~users'[p].active
      BY <1>1, <1>4, <1>6, PlayerAt DEF InOrder, Numbered
  <2>2. ASSUME orderly'[p] PROVE Follows(p)'
    <3>1. Follows(p) /\ \A k \in Keys : Settled(p, k)' <=> Settled(p, k)
        BY <1>1, <1>4, <2>2 DEF InOrder, Settled
    <3>2. ASSUME NEW k \in Keys, task'[p][k].pc = "flip" PROVE Flips(p, k)'
      <4>1. task[p][k].row <= rows[p] /\ Flips(p, k)
          BY <1>1, <1>4, <3>1, <3>2 DEF InOrder, Numbered, Follows
      <4> QED BY <1>1, <1>6, <2>1, <4>1, PlayerAt DEF Flips
    <3>3. Agrees(p)'
        BY <2>1 DEF Agrees
    <3> QED BY <1>1, <3>1, <3>2, <3>3 DEF Follows
  <2> QED BY <1>3, <2>1, <2>2 DEF FlagInv, InOrder
<1>7. CASE users'[p].row = 0 /\ users'[p].active = FALSE /\ rows'[p] = rows[p]
  <2>1. Numbered(p)'
      BY <1>1, <1>4, <1>7, PlayerAt DEF InOrder, Numbered
  <2>2. ASSUME orderly'[p] PROVE Follows(p)'
    <3>1. Follows(p) /\ \A k \in Keys : Settled(p, k)' <=> Settled(p, k)
        BY <1>1, <1>4, <2>2 DEF InOrder, Settled
    <3>2. ASSUME NEW k \in Keys, task'[p][k].pc = "flip" PROVE Flips(p, k)'
      <4>1. task[p][k].row # 0 /\ Flips(p, k)
          BY <1>1, <1>4, <3>1, <3>2 DEF InOrder, Numbered, Follows
      <4> QED BY <1>1, <1>7, <4>1, PlayerAt DEF Flips
    <3>3. Agrees(p)'
        BY <1>7 DEF Agrees
    <3> QED BY <1>1, <3>1, <3>2, <3>3 DEF Follows
  <2> QED BY <1>3, <2>1, <2>2 DEF FlagInv, InOrder
<1> QED BY <1>2, <1>5, <1>6, <1>7

LEMMA InvitationsOrder ==
    ASSUME DoorInv, FlagInv, NEW p \in Players, Unban(p) \/ Mint(p)
    PROVE  FlagInv'
<1>1. CASE Unban(p) /\ Move(p, "bot", "out")
    BY <1>1, MoveOrder DEF Unban, Keys
<1>2. CASE Mint(p) \/ (Unban(p) /\ UNCHANGED <<place, waiting, moved, orderly>>)
  <2>1. UNCHANGED <<users, rows, place, waiting, task, moved, orderly>>
      BY <1>2 DEF Unban, Mint, seenOnly
  <2> QED BY <2>1, OrderOfOthers DEF FlagInv
<1> QED BY <1>1, <1>2 DEF Unban

\* on_join_request.
LEMMA DoorOrder ==
    ASSUME DoorInv, FlagInv, NEW p \in Players,
           DoorCheck(p) \/ DoorApprove(p) \/ DoorDecline(p) \/ DoorFails(p)
    PROVE  FlagInv'
<1>0. "own" \in Keys /\ task \in [Players -> [Keys -> TaskType]]
    BY DEF Keys, DoorInv, TypeOK, TaskType
<1>1. CASE DoorCheck(p)
  <2>1. /\ waiting[p]["own"] # <<>> /\ Head(waiting[p]["own"]) = "request"
        /\ waiting' = [waiting EXCEPT ![p]["own"] = Tail(@)]
        /\ task[p]["own"].pc = "idle"
        /\ UNCHANGED <<users, rows, place, moved, orderly>>
      BY <1>1 DEF DoorCheck, Front, Take, seenOnly
  <2>2. /\ waiting'[p]["own"] = Tail(waiting[p]["own"])
        /\ \A k \in Keys \ {"own"} : waiting'[p][k] = waiting[p][k]
        /\ \A q \in Players \ {p} : waiting'[q] = waiting[q]
      BY <1>0, <2>1 DEF DoorInv, TypeOK
  <2>3. /\ task'[p]["own"].pc = "settle"
        /\ \A k \in Keys \ {"own"} : task'[p][k] = task[p][k]
        /\ \A q \in Players \ {p} : task'[q] = task[q]
      BY <1>0, <1>1 DEF DoorCheck, Rest
  <2>4. \A k \in Keys : /\ Calm(waiting'[p][k]) <=> Calm(waiting[p][k])
                        /\ \A x \in BOOLEAN : Tells(waiting[p][k], x)
                                                 => Tells(waiting'[p][k], x)
      BY <1>0, <2>1, <2>2, TailTells, PlayerAt
  <2>5. InOrder(p)'
      BY <2>1, <2>3, <2>4, OrderKept DEF FlagInv
  <2>6. ASSUME NEW q \in Players \ {p} PROVE InOrder(q)'
      BY <2>1, <2>2, <2>3, OrderOfOthers DEF FlagInv
  <2> QED BY <2>5, <2>6 DEF FlagInv
<1>2. ASSUME task[p]["own"].pc = "settle", task' = [task EXCEPT ![p]["own"] = Rest]
      PROVE  /\ \A q \in Players \ {p} : task'[q] = task[q]
             /\ \A k \in Keys : \/ task'[p][k] = task[p][k]
                                \/ task'[p][k].pc # "flip" /\ task[p][k].pc # "flip"
    BY <1>0, <1>2 DEF Rest
<1>3. CASE DoorApprove(p)
  <2>1. /\ task[p]["own"].pc = "settle" /\ task' = [task EXCEPT ![p]["own"] = Rest]
        /\ users' = users /\ rows' = rows
      BY <1>3 DEF DoorApprove
  <2>2. PICK k \in Keys : Move(p, k, "in")
      BY <1>3 DEF DoorApprove, Keys
  <2> QED BY <1>2, <2>1, <2>2, MoveOrder
<1>4. CASE DoorDecline(p) \/ DoorFails(p)
  <2>1. /\ task[p]["own"].pc = "settle" /\ task' = [task EXCEPT ![p]["own"] = Rest]
        /\ UNCHANGED <<users, rows, place, waiting, moved, orderly>>
      BY <1>4 DEF DoorDecline, DoorFails, seenOnly
  <2>2. InOrder(p)'
      BY <1>2, <2>1, OrderKept DEF FlagInv
  <2>3. ASSUME NEW q \in Players \ {p} PROVE InOrder(q)'
      BY <1>2, <2>1, OrderOfOthers DEF FlagInv
  <2> QED BY <2>2, <2>3 DEF FlagInv
<1> QED BY <1>1, <1>3, <1>4

\* on_group_membership_change reads: with the change that comes first gone from
\* the queue, either others follow it there, or it says where the player is.
LEMMA FlagReadOrder ==
    ASSUME DoorInv, FlagInv, NEW p \in Players, NEW k \in Keys, FlagRead(p, k)
    PROVE  FlagInv'
<1> DEFINE w == waiting[p][k]
<1>1. /\ w # <<>> /\ Head(w) \in {"joined", "gone"}
      /\ waiting' = [waiting EXCEPT ![p][k] = Tail(@)] /\ task[p][k].pc = "idle"
      /\ UNCHANGED <<users, rows, place, moved, orderly>>
    BY DEF FlagRead, Front, Take, seenOnly
<1>2. /\ waiting'[p][k] = Tail(w)
      /\ \A o \in Keys \ {k} : waiting'[p][o] = waiting[p][o]
      /\ \A q \in Players \ {p} : waiting'[q] = waiting[q]
    BY <1>1 DEF DoorInv, TypeOK
<1>3. /\ \A o \in Keys \ {k} : task'[p][o] = task[p][o]
      /\ \A q \in Players \ {p} : task'[q] = task[q]
      /\ IF users[p].row = 0 THEN task'[p][k] = task[p][k]
         ELSE task'[p][k] = [pc |-> "flip", yes |-> Head(w) = "joined",
                             row |-> users[p].row, loaded |-> users[p].active]
    BY <1>1 DEF FlagRead, Front, DoorInv, TypeOK
<1>4. ASSUME NEW q \in Players \ {p} PROVE InOrder(q)'
    BY <1>1, <1>2, <1>3, OrderOfOthers DEF FlagInv
<1>5. InOrder(p)
    BY DEF FlagInv
<1>6. Numbered(p)'
    BY <1>1, <1>3, <1>5, PlayerAt DEF InOrder, Numbered
<1>7. ASSUME orderly'[p] PROVE Follows(p)'
  <2>1. Follows(p)
      BY <1>1, <1>5, <1>7 DEF InOrder
  <2>2. /\ \A x \in BOOLEAN : Tells(w, x) => Tells(Tail(w), x)
        /\ ~Calm(w)
        /\ \A x \in BOOLEAN : Calm(Tail(w)) /\ Tells(w, x) => (Head(w) = "joined" <=> x)
    <3>1. w \in Seq(Updates) /\ Head(w) # "request"
        BY <1>1, PlayerAt
    <3> QED BY <1>1, <3>1, TailTells
  <2> HIDE DEF w
  <2>3. ~Settled(p, k)
      BY <2>2 DEF w, Settled, Calm
  <2>4. \A o \in Keys \ {k} : Settled(p, o) /\ Settled(p, o)'
      BY <1>2, <1>3, <2>1, <2>3 DEF Follows, Settled
  <2>5. \A o \in Keys : Tells(waiting'[p][o], place'[p] = "in")
      BY <1>1, <1>2, <2>1, <2>2 DEF w, Follows
  <2>6. Calm(Tail(w)) => (Head(w) = "joined" <=> place[p] = "in")
      BY <2>1, <2>2 DEF w, Follows
  <2>7. ASSUME NEW o \in Keys, task'[p][o].pc = "flip" PROVE Flips(p, o)'
    <3>1. o = k
        BY <2>4, <2>7 DEF Settled
    <3>2. /\ users[p].row # 0
          /\ task'[p][k] = [pc |-> "flip", yes |-> Head(w) = "joined",
                            row |-> users[p].row, loaded |-> users[p].active]
        BY <1>1, <1>3, <2>7, <3>1 DEF w
    <3>3. users[p].row = rows[p]
        BY <1>5, <3>2 DEF InOrder, Numbered
    <3>4. users[p].row \in Nat /\ moved[p] <= users[p].row
        BY <1>5, <3>3, PlayerAt DEF InOrder, Numbered
    <3>5. /\ task'[p][k].yes = (Head(w) = "joined") /\ task'[p][k].row = users[p].row
          /\ task'[p][k].loaded = users[p].active
        BY <3>2
    <3>6. ~(users[p].row > users[p].row)
        BY <3>4
    <3>7. Calm(waiting'[p][k]) => (task'[p][k].yes <=> place[p] = "in")
        BY <1>2, <2>6, <3>5 DEF w
    <3> QED BY <1>1, <3>1, <3>4, <3>5, <3>6, <3>7 DEF Flips
  <2>8. Quiet(p)' => Agrees(p)'
      BY <1>1, <1>3 DEF Quiet, Settled, Agrees
  <2> QED BY <2>4, <2>5, <2>7, <2>8 DEF Follows
<1> QED BY <1>4, <1>6, <1>7 DEF FlagInv, InOrder

\* ... and writes: if nothing about the player is left to handle, the flag says
\* where the player is, or belongs to a row younger than the last change.
LEMMA FlagWriteOrder ==
    ASSUME DoorInv, FlagInv, NEW p \in Players, NEW k \in Keys, FlagWrite(p, k)
    PROVE  FlagInv'
<1> DEFINE t == task[p][k]
<1>1. /\ t.pc = "flip" /\ task' = [task EXCEPT ![p][k] = Rest]
      /\ UNCHANGED <<rows, place, waiting, moved, orderly>>
    BY DEF FlagWrite, seenOnly
<1>2. /\ users'[p].row = users[p].row
      /\ users'[p].active = IF t.yes # t.loaded /\ users[p].row = t.row
                            THEN t.yes ELSE users[p].active
      /\ \A q \in Players \ {p} : users'[q] = users[q]
    BY DEF FlagWrite, DoorInv, TypeOK
<1>3. /\ task'[p][k] = Rest /\ Rest.pc = "idle"
      /\ \A o \in Keys \ {k} : task'[p][o] = task[p][o]
      /\ \A q \in Players \ {p} : task'[q] = task[q]
    BY <1>1 DEF Rest, DoorInv, TypeOK
<1>4. ASSUME NEW q \in Players \ {p} PROVE InOrder(q)'
    BY <1>1, <1>2, <1>3, OrderOfOthers DEF FlagInv
<1>5. InOrder(p)
    BY DEF FlagInv
<1>6. Numbered(p)'
    BY <1>1, <1>2, <1>3, <1>5 DEF InOrder, Numbered
<1>7. ASSUME orderly'[p] PROVE Follows(p)'
  <2>1. Follows(p) /\ Flips(p, k)
      BY <1>1, <1>5, <1>7 DEF InOrder, Follows
  <2>2. \A o \in Keys \ {k} : Settled(p, o) /\ Settled(p, o)' /\ task'[p][o].pc # "flip"
      BY <1>1, <1>3, <2>1 DEF Follows, Settled
  <2>3. ASSUME Quiet(p)' PROVE Agrees(p)'
    <3>1. Calm(waiting[p][k])
        BY <1>1, <2>3 DEF Quiet, Settled, Calm
    <3>2. (t.yes <=> place[p] = "in") /\ moved[p] <= t.row
        BY <2>1, <3>1 DEF Flips
    <3>3. t.yes \in BOOLEAN /\ t.loaded \in BOOLEAN /\ t.row \in Nat
        BY PlayerAt
    <3>4. CASE users[p].row = t.row
      <4>1. users'[p].active = t.yes
          BY <1>2, <2>1, <3>3, <3>4, PlayerAt DEF Flips
      <4> QED BY <1>1, <3>2, <4>1 DEF Agrees
    <3>5. CASE users[p].row # t.row
      <4>1. users[p].row = 0 \/ users[p].row > t.row
          BY <1>1, <1>5, <3>3, <3>5, PlayerAt DEF InOrder, Numbered
      <4>2. users[p].row > t.row => ~users'[p].active /\ moved[p] # users[p].row
          BY <1>2, <2>1, <3>2, <3>3, <3>5, PlayerAt DEF Flips
      <4> QED BY <1>1, <1>2, <4>1, <4>2 DEF Agrees
    <3> QED BY <3>4, <3>5
  <2>4. \A o \in Keys : Tells(waiting'[p][o], place'[p] = "in")
      BY <1>1, <2>1 DEF Follows
  <2>5. \A o \in Keys : task'[p][o].pc # "flip"
      BY <1>3, <2>2
  <2> QED BY <2>2, <2>3, <2>4, <2>5 DEF Follows
<1> QED BY <1>4, <1>6, <1>7 DEF FlagInv, InOrder

\* Updates lost: the player they were about is no longer in order.
LEMMA LossOrder ==
    ASSUME DoorInv, FlagInv, (\E p \in Players, k \in Keys : Throttled(p, k)) \/ Crash
    PROVE  FlagInv'
<1>1. CASE Crash
  <2> SUFFICES ASSUME NEW p \in Players PROVE InOrder(p)'
      BY DEF FlagInv
  <2>1. /\ UNCHANGED <<users, rows, place, moved>>
        /\ orderly'[p] <=> orderly[p] /\ Quiet(p)
        /\ \A k \in Keys : waiting'[p][k] = <<>> /\ task'[p][k].pc = "idle"
      BY <1>1, RestType DEF Crash, DoorInv, TypeOK
  <2>2. InOrder(p)
      BY DEF FlagInv
  <2>3. \A k \in Keys : Calm(waiting'[p][k]) /\ Settled(p, k)'
      BY <2>1 DEF Calm, Settled
  <2>4. Numbered(p)'
      BY <2>1, <2>2 DEF InOrder, Numbered
  <2>5. orderly'[p] => Agrees(p)'
      BY <2>1, <2>2 DEF InOrder, Follows, Agrees
  <2> QED BY <2>1, <2>3, <2>4, <2>5, CalmTells DEF InOrder, Follows
<1>2. ASSUME NEW p \in Players, NEW k \in Keys, Throttled(p, k) PROVE FlagInv'
  <2> DEFINE w == waiting[p][k]
  <2>1. /\ w # <<>> /\ waiting' = [waiting EXCEPT ![p][k] = Tail(@)]
        /\ orderly' = [orderly EXCEPT ![p] = @ /\ Head(w) = "request"]
        /\ UNCHANGED <<users, rows, place, task, moved>>
      BY <1>2 DEF Throttled, Front
  <2>2. /\ waiting'[p][k] = Tail(w)
        /\ \A o \in Keys \ {k} : waiting'[p][o] = waiting[p][o]
        /\ \A q \in Players \ {p} : waiting'[q] = waiting[q]
        /\ orderly'[p] <=> orderly[p] /\ Head(w) = "request"
        /\ \A q \in Players \ {p} : orderly'[q] = orderly[q]
      BY <2>1 DEF DoorInv, TypeOK
  <2>3. ASSUME NEW q \in Players \ {p} PROVE InOrder(q)'
      BY <2>1, <2>2, OrderOfOthers DEF FlagInv
  <2>4. CASE Head(w) = "request"
    <3>1. \A o \in Keys : /\ Calm(waiting'[p][o]) <=> Calm(waiting[p][o])
                          /\ \A x \in BOOLEAN : Tells(waiting[p][o], x)
                                                   => Tells(waiting'[p][o], x)
        BY <2>1, <2>2, <2>4, TailTells, PlayerAt
    <3>2. InOrder(p)'
        BY <2>1, <2>2, <3>1, OrderKept DEF FlagInv
    <3> QED BY <2>3, <3>2 DEF FlagInv
  <2>5. CASE Head(w) # "request"
    <3>1. ~orderly'[p] /\ Numbered(p)'
        BY <2>1, <2>2, <2>5 DEF FlagInv, InOrder, Numbered
    <3> QED BY <2>3, <3>1 DEF FlagInv, InOrder
  <2> QED BY <2>4, <2>5
<1> QED BY <1>1, <1>2

LEMMA FlagStart == Init => FlagInv
<1> SUFFICES ASSUME Init, NEW p \in Players PROVE InOrder(p)
    BY DEF FlagInv
<1>1. /\ users[p].row = 0 /\ ~users[p].active /\ rows[p] = 0 /\ moved[p] = 0
      /\ \A k \in Keys : Calm(waiting[p][k]) /\ task[p][k].pc = "idle"
    BY RestType DEF Init, NoUser, Calm
<1> QED BY <1>1, CalmTells DEF InOrder, Numbered, Follows, Settled, Calm, Agrees

LEMMA FlagStep == DoorInv /\ FlagInv /\ [Next]_vars => FlagInv'
<1> SUFFICES ASSUME DoorInv, FlagInv, [Next]_vars PROVE FlagInv'
    OBVIOUS
<1>1. CASE UNCHANGED vars
    BY <1>1, OrderOfOthers DEF vars, FlagInv
<1>2. CASE Next
  <2>1. ASSUME NEW p \in Players, Handles(p) PROVE FlagInv'
      BY <2>1, DoorOrder, FlagReadOrder, FlagWriteOrder, InvitationsOrder DEF Handles
  <2> QED BY <1>2, <2>1, PeopleOrder, ApplicationsOrder, LossOrder DEF Next
<1> QED BY <1>1, <1>2

\* Whatever comings and goings, erasures, new rows and crashes interleave with
\* the two steps of on_group_membership_change: once the updates about a player
\* are handled, in order and with none lost, is_active says whether the player
\* is in the group (FlagInSync).
THEOREM FlagFollowsGroup == Spec => []FlagInSync
<1>1. FlagInv /\ DoorInv => FlagInSync
    BY DEF FlagInv, InOrder, Follows, Agrees, FlagInSync
<1>2. Spec => []FlagInv
    BY FlagStart, FlagStep, DoorAlways, PTL DEF Spec
<1> QED BY <1>1, <1>2, DoorAlways, PTL
=============================================================================
