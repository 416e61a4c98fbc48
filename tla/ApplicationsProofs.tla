------------------------- MODULE ApplicationsProofs -------------------------
(* Proofs about Applications, for every value of its constants. *)
EXTENDS Applications, FiniteSetTheorems, TLAPS

ChatRow == [pc : Ready \cup Filing \cup Removing \cup {"naming", "named", "editing", "loaded"},
            row : Nat, contact : Contacts \cup {NoContact},
            loaded : Contacts \cup {NoContact}, copy : Contacts \cup {NoContact},
            app : Apps \cup {NoApp}, seen : SUBSET LogRow]
UserRow == [row : Nat, contact : Contacts \cup {NoContact}]
AppRow  == [status : {"unused", "pending_review", "erased"} \cup Decisions,
            row : Nat, contact : Contacts \cup {NoContact}]
DeskRow == [pc : {"idle", "found", "decided"}, app : Apps \cup {NoApp},
            verdict : Decisions, to : Users \cup {NoUser}]

\* What a handler under way knows of the application it will write, and that
\* the log, whose rows are numbered, is finite.
Aware ==
    /\ \A s \in Sessions : chat[s].pc = "editing" => chat[s].app \in Apps
    /\ \A d \in Admins : desk[d].pc # "idle" => desk[d].app \in Apps
    /\ IsFiniteSet(logs)

TypeInv == TypeOK /\ Aware

-----------------------------------------------------------------------------
LEMMA IdleType == Idle \in ChatRow /\ AtRest \in DeskRow /\ NoRow.row = 0
  BY DEF Idle, AtRest, NoRow, ChatRow, DeskRow, Ready, Decisions, LogRow

\* A handler's record, read out of chat, updated and put back.
LEMMA ChatAt ==
  ASSUME TypeOK, NEW s \in Sessions
  PROVE  chat[s] \in ChatRow /\ chat \in [Sessions -> ChatRow]
  BY DEF TypeOK, ChatRow

LEMMA DeskAt ==
  ASSUME TypeOK, NEW d \in Admins
  PROVE  desk[d] \in DeskRow /\ desk \in [Admins -> DeskRow]
  BY DEF TypeOK, DeskRow

\* A handler that ends without having written keeps the types.
LEMMA EndType ==
  ASSUME TypeInv, NEW s \in Sessions, NEW pc \in Ready, EndWith(s, pc)
  PROVE  TypeInv'
<1>1. [Idle EXCEPT !.pc = pc] \in ChatRow /\ pc # "editing"
  BY IdleType DEF ChatRow, Ready, Idle, LogRow
<1>2. chat' \in [Sessions -> ChatRow]
  BY <1>1 DEF TypeInv, TypeOK, EndWith, ChatRow
<1>3. Aware'
  BY <1>1 DEF TypeInv, Aware, EndWith, TypeOK, Idle
<1> QED
  BY <1>2, <1>3 DEF TypeInv, TypeOK, EndWith, ChatRow

\* A step that only moves the handler of one session keeps the types.
LEMMA ChatType ==
  ASSUME TypeInv, NEW s \in Sessions, NEW x \in ChatRow,
         x.pc = "editing" => x.app \in Apps,
         chat' = [chat EXCEPT ![s] = x],
         UNCHANGED <<users, apps, logs, nextRow, desk, notices, crashes>>
  PROVE  TypeInv'
<1>1. chat' \in [Sessions -> ChatRow]
  BY DEF TypeInv, TypeOK, ChatRow
<1>2. Aware'
  BY DEF TypeInv, Aware, TypeOK
<1> QED
  BY <1>1, <1>2 DEF TypeInv, TypeOK, ChatRow

\* The same for the review handler of one admin.
LEMMA DeskType ==
  ASSUME TypeInv, NEW d \in Admins, NEW x \in DeskRow,
         x.pc # "idle" => x.app \in Apps,
         desk' = [desk EXCEPT ![d] = x],
         UNCHANGED <<users, apps, logs, nextRow, chat, notices, crashes>>
  PROVE  TypeInv'
<1>1. desk' \in [Admins -> DeskRow]
  BY DEF TypeInv, TypeOK, DeskRow
<1>2. Aware'
  BY DEF TypeInv, Aware, TypeOK
<1> QED
  BY <1>1, <1>2 DEF TypeInv, TypeOK, DeskRow

\* A numbered log row is a log row, and the log stays finite.
LEMMA NewLogType ==
  ASSUME NEW a \in Apps, NEW k \in LogKinds, NEW x \in Users \cup Admins,
         logs \subseteq LogRow \cup Marker, IsFiniteSet(logs)
  PROVE  /\ NewLog(a, k, x) \in LogRow
         /\ logs \cup {NewLog(a, k, x)} \subseteq LogRow \cup Marker
         /\ IsFiniteSet(logs \cup {NewLog(a, k, x)})
<1>1. Cardinality(LogsOf(a)) \in Nat
  BY FS_Subset, FS_CardinalityType DEF LogsOf
<1>2. NewLog(a, k, x) \in LogRow
  BY <1>1 DEF NewLog, LogRow
<1> QED
  BY <1>2, FS_AddElement

\* What the log rows of an edit are: one or two numbered rows about its
\* application, none of them a decision's.
EditKinds == {"contact_updated", "profile_updated", "player_code_reassigned"}

LEMMA EditRowsAre ==
  ASSUME NEW s, NEW rows \in EditLogRows(s), NEW l \in rows
  PROVE  /\ l.app = chat[s].app /\ l.kind \in EditKinds
         /\ l.actor = UserOf[s] /\ l.linked
<1> DEFINE c == chat[s].contact
           kind == IF c = NoContact THEN "profile_updated" ELSE "contact_updated"
           row == NewLog(chat[s].app, kind, UserOf[s])
           code == [NewLog(chat[s].app, "player_code_reassigned", UserOf[s])
                       EXCEPT !.n = @ + 1]
<1>1. l = row \/ l = code
  BY DEF EditLogRows
<1>2. CASE l = row
  BY <1>2 DEF NewLog, EditKinds
<1>3. CASE l = code
  BY <1>3 DEF NewLog, EditKinds
<1> QED
  BY <1>1, <1>2, <1>3

LEMMA EditLogType ==
  ASSUME NEW s, chat[s].app \in Apps, UserOf[s] \in Users,
         logs \subseteq LogRow \cup Marker, IsFiniteSet(logs),
         NEW rows \in EditLogRows(s)
  PROVE  logs \cup rows \subseteq LogRow \cup Marker /\ IsFiniteSet(logs \cup rows)
<1> DEFINE c == chat[s].contact
           kind == IF c = NoContact THEN "profile_updated" ELSE "contact_updated"
           row == NewLog(chat[s].app, kind, UserOf[s])
           code == [NewLog(chat[s].app, "player_code_reassigned", UserOf[s])
                       EXCEPT !.n = @ + 1]
<1>1. kind \in LogKinds
  BY DEF LogKinds
<1>2. row \in LogRow
  BY <1>1, NewLogType
<1>4. rows = {row} \/ rows = {row, code}
  BY DEF EditLogRows
<1>8. \A x \in LogRow : [x EXCEPT !.n = @ + 1] \in LogRow
  BY DEF LogRow
<1>9. NewLog(chat[s].app, "player_code_reassigned", UserOf[s]) \in LogRow
  BY NewLogType DEF LogKinds
<1>3. code \in LogRow
  BY <1>8, <1>9
<1> HIDE DEF row, code
<1>5. IsFiniteSet(logs \cup {row})
  BY FS_AddElement
<1>6. IsFiniteSet((logs \cup {row}) \cup {code})
  BY <1>5, FS_AddElement
<1>7. (logs \cup {row}) \cup {code} = logs \cup {row, code}
  OBVIOUS
<1> QED
  BY <1>2, <1>3, <1>4, <1>5, <1>6, <1>7

\* The log after an erasure is a log again.
LEMMA SweptType ==
  ASSUME NEW seen, NEW gone, logs \subseteq LogRow \cup Marker, IsFiniteSet(logs)
  PROVE  LET L == Unlinked(logs \ seen, gone) \cup {Trace}
         IN  L \subseteq LogRow \cup Marker /\ IsFiniteSet(L)
<1> DEFINE F(l) == IF l.app \in gone THEN [l EXCEPT !.linked = FALSE] ELSE l
           Kept == {F(l) : l \in logs \ seen}
           f == [l \in logs \ seen |-> F(l)]
<1>1. \A l \in logs : F(l) \in LogRow \cup Marker
  BY DEF LogRow, Marker
<1>2. Cardinality(LogsOf(NoApp)) \in Nat
  BY FS_Subset, FS_CardinalityType DEF LogsOf
<1>3. Trace \in Marker
  BY <1>2 DEF Trace, Marker
<1>4. IsFiniteSet(logs \ seen)
  BY FS_Subset
<1>5. f \in Surjection(logs \ seen, Kept)
  BY DEF Surjection
<1>6. Unlinked(logs \ seen, gone) = Kept
  BY DEF Unlinked
<1> HIDE DEF f, F, Kept
<1>7. IsFiniteSet(Kept)
  BY <1>4, <1>5, FS_Surjection
<1>8. IsFiniteSet(Kept \cup {Trace})
  BY <1>7, FS_AddElement
<1>9. Kept \subseteq LogRow \cup Marker
  BY <1>1 DEF Kept
<1> QED
  BY <1>3, <1>6, <1>8, <1>9
-----------------------------------------------------------------------------
LEMMA TypeInit == Init => TypeInv
<1> SUFFICES ASSUME Init PROVE TypeInv
  OBVIOUS
<1>1. IsFiniteSet(logs)
  BY FS_EmptySet DEF Init
<1>2. chat \in [Sessions -> ChatRow] /\ desk \in [Admins -> DeskRow]
  BY IdleType DEF Init
<1>3. TypeOK
  BY <1>2 DEF Init, TypeOK, NoRow, Blank, ChatRow, DeskRow
<1>4. Aware
  BY <1>1 DEF Init, Aware, Idle, AtRest
<1> QED
  BY <1>3, <1>4 DEF TypeInv

LEMMA TypeStep == TypeInv /\ [Next]_vars => TypeInv'
<1> SUFFICES ASSUME TypeInv, [Next]_vars PROVE TypeInv'
  OBVIOUS
<1> USE DEF TypeInv
<1>1. ASSUME NEW s \in Sessions, NEW c \in Contacts, SubmitCount(s, c) PROVE TypeInv'
  <2>1. [Idle EXCEPT !.pc = "counted", !.contact = c] \in ChatRow
    BY DEF Idle, ChatRow, Filing, LogRow
  <2>2. [Idle EXCEPT !.pc = "counted", !.contact = c].pc # "editing"
    BY DEF Idle
  <2> QED
    BY <1>1, <2>1, <2>2, ChatType DEF SubmitCount
<1>2. ASSUME NEW s \in Sessions, SubmitReadUser(s) PROVE TypeInv'
  <2> DEFINE me == users[UserOf[s]]
             x == [chat[s] EXCEPT !.pc = "known", !.row = me.row, !.loaded = me.contact]
  <2>1. me.row \in Nat /\ me.contact \in Contacts \cup {NoContact}
    BY SessionAssumption DEF TypeOK
  <2>2. x \in ChatRow /\ x.pc # "editing"
    BY <2>1, ChatAt DEF ChatRow, Filing
  <2>3. chat' = [chat EXCEPT ![s] = x]
    BY <1>2 DEF SubmitReadUser, TypeOK
  <2> QED
    BY <1>2, <2>2, <2>3, ChatType DEF SubmitReadUser
<1>3. ASSUME NEW s \in Sessions, SubmitCheckActive(s) PROVE TypeInv'
  <2>1. CASE Active(chat[s].row) = {}
    <3> DEFINE x == [chat[s] EXCEPT !.pc = "checked"]
    <3>1. x \in ChatRow /\ x.pc # "editing"
      BY ChatAt DEF ChatRow, Filing
    <3>2. chat' = [chat EXCEPT ![s] = x]
      BY <1>3, <2>1, ChatAt DEF SubmitCheckActive
    <3> QED
      BY <1>3, <2>1, <3>1, <3>2, ChatType DEF SubmitCheckActive
  <2>2. CASE Active(chat[s].row) # {}
    BY <1>3, <2>2, EndType DEF SubmitCheckActive, Ready
  <2> QED
    BY <2>1, <2>2
<1>4. ASSUME NEW s \in Sessions, SubmitWrite(s) PROVE TypeInv'
  <2> DEFINE u == UserOf[s]
             c == chat[s].contact
             r == IF chat[s].row = 0 THEN nextRow + 1 ELSE chat[s].row
  <2>1. /\ u \in Users /\ c \in Contacts \cup {NoContact} /\ r \in Nat
        /\ nextRow' \in Nat
    <3>1. nextRow \in Nat /\ chat[s].row \in Nat /\ c \in Contacts \cup {NoContact}
      BY ChatAt DEF TypeOK, ChatRow
    <3>2. nextRow' = IF chat[s].row = 0 THEN nextRow + 1 ELSE nextRow
      BY <1>4 DEF SubmitWrite
    <3> QED
      BY <3>1, <3>2, SessionAssumption
  <2>2. PICK a \in Unused :
          /\ users' = [users EXCEPT ![u] =
                [row |-> r, contact |-> IF WritesContact(s) THEN c ELSE @.contact]]
          /\ apps' = [apps EXCEPT ![a] =
                [status |-> "pending_review", row |-> r, contact |-> c]]
          /\ logs' = logs \cup {NewLog(a, "application_submitted", u)}
    BY <1>4 DEF SubmitWrite
  <2>3. a \in Apps
    BY DEF Unused
  <2>4. logs' \subseteq LogRow \cup Marker /\ IsFiniteSet(logs')
    BY <2>1, <2>2, <2>3, NewLogType DEF TypeOK, Aware, LogKinds
  <2>5. chat' \in [Sessions -> ChatRow] /\ chat' = [chat EXCEPT ![s] = Idle]
    BY <1>4, IdleType DEF SubmitWrite, TypeOK, ChatRow
  <2>6. TypeOK'
    BY <1>4, <2>1, <2>2, <2>3, <2>4, <2>5 DEF TypeOK, SubmitWrite, ChatRow
  <2>7. Aware'
    BY <1>4, <2>4, <2>5 DEF Aware, SubmitWrite, TypeOK, Idle
  <2> QED
    BY <2>6, <2>7
<1>5. ASSUME NEW s \in Sessions, SubmitRefused(s) PROVE TypeInv'
  BY <1>5, EndType DEF SubmitRefused, Ready
<1>6. ASSUME NEW s \in Sessions, LanguageRead(s) PROVE TypeInv'
  <2> DEFINE x == [Idle EXCEPT !.pc = "naming", !.row = users[UserOf[s]].row]
  <2>1. users[UserOf[s]].row \in Nat
    BY SessionAssumption DEF TypeOK
  <2>2. x \in ChatRow /\ x.pc # "editing"
    BY <2>1 DEF Idle, ChatRow, LogRow
  <2> QED
    BY <1>6, <2>2, ChatType DEF LanguageRead
<1>7. ASSUME NEW s \in Sessions, LanguageWrite(s) PROVE TypeInv'
  <2>1. CASE users[UserOf[s]].row # 0
    BY <1>7, <2>1, EndType DEF LanguageWrite, Ready
  <2>2. CASE users[UserOf[s]].row = 0
    <3>1. chat' \in [Sessions -> ChatRow] /\ chat' = [chat EXCEPT ![s] = Idle]
      BY <1>7, <2>2, IdleType DEF LanguageWrite, TypeOK, ChatRow
    <3>2. TypeOK'
      BY <1>7, <2>2, <3>1 DEF LanguageWrite, TypeOK, ChatRow
    <3>3. Aware'
      BY <1>7, <2>2, <3>1 DEF LanguageWrite, Aware, TypeOK, Idle
    <3> QED
      BY <3>2, <3>3
  <2> QED
    BY <2>1, <2>2
<1>21. ASSUME NEW s \in Sessions, LanguageFlush(s) PROVE TypeInv'
  <2>1. CASE RowMoved(s)
    BY <1>21, <2>1, EndType DEF LanguageFlush, Ready
  <2>2. CASE ~RowMoved(s)
    <3> DEFINE x == [chat[s] EXCEPT !.pc = "named"]
    <3>1. x \in ChatRow /\ x.pc # "editing"
      BY ChatAt DEF ChatRow
    <3>2. chat' = [chat EXCEPT ![s] = x]
      BY <1>21, <2>2, ChatAt DEF LanguageFlush
    <3> QED
      BY <1>21, <2>2, <3>1, <3>2, ChatType DEF LanguageFlush
  <2> QED
    BY <2>1, <2>2
<1>8. ASSUME NEW s \in Sessions, NEW c \in Contacts \cup {NoContact}, EditRead(s, c)
      PROVE TypeInv'
  <2> DEFINE me == users[UserOf[s]]
  <2>1. PICK a \in Active(me.row) :
          chat' = [chat EXCEPT ![s] =
                [Idle EXCEPT !.pc = "editing", !.row = me.row, !.contact = c,
                             !.loaded = me.contact, !.copy = apps[a].contact, !.app = a]]
    BY <1>8 DEF EditRead
  <2> DEFINE x == [Idle EXCEPT !.pc = "editing", !.row = me.row, !.contact = c,
                             !.loaded = me.contact, !.copy = apps[a].contact, !.app = a]
  <2>2. a \in Apps
    BY DEF Active, OfRow
  <2>3. /\ me.row \in Nat /\ me.contact \in Contacts \cup {NoContact}
        /\ apps[a].contact \in Contacts \cup {NoContact}
    BY <2>2, SessionAssumption DEF TypeOK
  <2>4. x \in ChatRow /\ x.app = a
    BY <2>2, <2>3 DEF Idle, ChatRow, LogRow
  <2> QED
    BY <1>8, <2>1, <2>2, <2>4, ChatType DEF EditRead
<1>9. ASSUME NEW s \in Sessions, EditWrite(s) PROVE TypeInv'
  <2> DEFINE u == UserOf[s]
             a == chat[s].app
             c == chat[s].contact
  <2>1. CASE RowMoved(s) \/ (EditsContact(s) /\ Taken(c, u))
    BY <1>9, <2>1, EndType DEF EditWrite, Ready
  <2>2. CASE ~(RowMoved(s) \/ (EditsContact(s) /\ Taken(c, u)))
    <3>1. a \in Apps /\ u \in Users /\ c \in Contacts \cup {NoContact}
      BY <1>9, SessionAssumption DEF EditWrite, Aware, TypeOK
    <3>2. PICK rows \in EditLogRows(s) : logs' = logs \cup rows
      BY <1>9, <2>2 DEF EditWrite
    <3>4. logs' \subseteq LogRow \cup Marker /\ IsFiniteSet(logs')
      BY <3>1, <3>2, EditLogType DEF TypeOK, Aware
    <3>5. chat' \in [Sessions -> ChatRow] /\ chat' = [chat EXCEPT ![s] = Idle]
      BY <1>9, <2>2, IdleType DEF EditWrite, TypeOK, ChatRow
    <3>6. users' = (IF EditsContact(s) THEN [users EXCEPT ![u].contact = c] ELSE users)
          /\ apps' = (IF EditsSnapshot(s) THEN [apps EXCEPT ![a].contact = c] ELSE apps)
          /\ UNCHANGED <<nextRow, desk, notices, crashes>>
      BY <1>9, <2>2 DEF EditWrite
    <3>7. TypeOK'
      <4>1. users' \in [Users -> UserRow]
        BY <3>1, <3>6 DEF TypeOK, UserRow, EditsContact
      <4>2. apps' \in [Apps -> AppRow]
        <5>1. apps \in [Apps -> AppRow]
          BY DEF TypeOK, AppRow
        <5>2. [apps[a] EXCEPT !.contact = c] \in AppRow
          BY <3>1, <5>1 DEF AppRow
        <5>3. apps' = apps \/ apps' = [apps EXCEPT ![a] = [apps[a] EXCEPT !.contact = c]]
          BY <3>6
        <5> QED
          BY <3>1, <5>1, <5>2, <5>3
      <4> QED
        BY <3>4, <3>5, <3>6, <4>1, <4>2 DEF TypeOK, ChatRow, UserRow, AppRow
    <3>8. Aware'
      BY <3>4, <3>5, <3>6 DEF Aware, TypeOK, Idle
    <3> QED
      BY <3>7, <3>8
  <2> QED
    BY <2>1, <2>2
<1>10. ASSUME NEW s \in Sessions, WithdrawLoad(s) PROVE TypeInv'
  <2> DEFINE r == users[UserOf[s]].row
             x == [Idle EXCEPT !.pc = "loaded", !.row = r,
                     !.seen = {l \in logs : l.linked /\ l.app \in OfRow(r)}]
  <2>1. r \in Nat
    BY SessionAssumption DEF TypeOK
  <2>2. {l \in logs : l.linked /\ l.app \in OfRow(r)} \subseteq LogRow
    BY DEF TypeOK, Marker
  <2>3. x \in ChatRow /\ x.pc # "editing"
    BY <2>1, <2>2 DEF Idle, ChatRow
  <2> QED
    BY <1>10, <2>3, ChatType DEF WithdrawLoad
<1>11. ASSUME NEW s \in Sessions, WithdrawFlush(s) PROVE TypeInv'
  <2> DEFINE x == [chat[s] EXCEPT !.pc = "flushed"]
  <2>1. x \in ChatRow /\ x.pc # "editing"
    BY ChatAt DEF ChatRow, Removing
  <2>2. chat' = [chat EXCEPT ![s] = x]
    BY <1>11, ChatAt DEF WithdrawFlush
  <2> QED
    BY <1>11, <2>1, <2>2, ChatType DEF WithdrawFlush
<1>12. ASSUME NEW s \in Sessions, WithdrawAnswer(s) PROVE TypeInv'
  <2> DEFINE x == [chat[s] EXCEPT !.pc = "told"]
  <2>1. x \in ChatRow /\ x.pc # "editing"
    BY ChatAt DEF ChatRow, Removing
  <2>2. chat' = [chat EXCEPT ![s] = x]
    BY <1>12, ChatAt DEF WithdrawAnswer
  <2> QED
    BY <1>12, <2>1, <2>2, ChatType DEF WithdrawAnswer
<1>13. ASSUME NEW s \in Sessions, WithdrawCommit(s) PROVE TypeInv'
  <2> DEFINE r == chat[s].row
             u == UserOf[s]
             gone == OfRow(r)
  <2>1. logs' = Unlinked(logs \ chat[s].seen, gone) \cup {Trace}
    BY <1>13 DEF WithdrawCommit
  <2>2. logs' \subseteq LogRow \cup Marker /\ IsFiniteSet(logs')
    BY <2>1, SweptType DEF TypeOK, Aware
  <2>3. chat' \in [Sessions -> ChatRow] /\ chat' = [chat EXCEPT ![s] = Idle]
    BY <1>13, IdleType DEF WithdrawCommit, TypeOK, ChatRow
  <2>4. /\ users' = (IF RowMoved(s) THEN users ELSE [users EXCEPT ![u] = NoRow])
        /\ apps' = [a \in Apps |->
                IF a \in gone THEN [apps[a] EXCEPT !.status = "erased",
                                                   !.contact = NoContact]
                ELSE apps[a]]
        /\ UNCHANGED <<nextRow, desk, notices, crashes>>
    BY <1>13 DEF WithdrawCommit
  <2>5. TypeOK'
    <3>1. users' \in [Users -> UserRow]
      BY <2>4, SessionAssumption DEF TypeOK, UserRow, NoRow
    <3>2. apps' \in [Apps -> AppRow]
      <4>1. apps \in [Apps -> AppRow]
        BY DEF TypeOK, AppRow
      <4>2. \A a \in Apps : [apps[a] EXCEPT !.status = "erased", !.contact = NoContact] \in AppRow
        BY <4>1 DEF AppRow
      <4> QED
        BY <2>4, <4>1, <4>2
    <3> QED
      BY <2>2, <2>3, <2>4, <3>1, <3>2 DEF TypeOK, ChatRow, UserRow, AppRow
  <2>6. Aware'
    BY <2>2, <2>3, <2>4 DEF Aware, TypeOK, Idle
  <2> QED
    BY <2>5, <2>6
<1>14. ASSUME NEW d \in Admins, NEW a \in Apps, NEW v \in Decisions, ReviewFind(d, a, v)
       PROVE TypeInv'
  <2>1. PICK u \in Users : desk' = [desk EXCEPT ![d] =
             [pc |-> "found", app |-> a, verdict |-> v, to |-> u]]
    BY <1>14 DEF ReviewFind
  <2>2. [pc |-> "found", app |-> a, verdict |-> v, to |-> u] \in DeskRow
    BY DEF DeskRow
  <2> QED
    BY <1>14, <2>1, <2>2, DeskType DEF ReviewFind
<1>15. ASSUME NEW d \in Admins, ReviewDecide(d) PROVE TypeInv'
  <2> DEFINE a == desk[d].app
             v == desk[d].verdict
             k == IF v = "approved" THEN "status_approved" ELSE "status_rejected"
  <2>1. a \in Apps /\ v \in Decisions
    BY <1>15 DEF ReviewDecide, Aware, TypeOK
  <2>2. CASE StillExpected(a)
    <3>1. /\ apps' = [apps EXCEPT ![a].status = v]
          /\ logs' = logs \cup {NewLog(a, k, d)}
          /\ desk' = [desk EXCEPT ![d].pc = "decided"]
          /\ UNCHANGED <<users, nextRow, chat, notices, crashes>>
      BY <1>15, <2>2 DEF ReviewDecide
    <3>2. k \in LogKinds
      BY DEF LogKinds
    <3>3. logs' \subseteq LogRow \cup Marker /\ IsFiniteSet(logs')
      BY <2>1, <3>1, <3>2, NewLogType DEF TypeOK, Aware
    <3>4. TypeOK'
      <4>1. apps' \in [Apps -> AppRow]
        BY <2>1, <3>1 DEF TypeOK, AppRow
      <4>2. desk' \in [Admins -> DeskRow]
        BY <3>1 DEF TypeOK, DeskRow
      <4> QED
        BY <3>1, <3>3, <4>1, <4>2 DEF TypeOK, AppRow, DeskRow
    <3>5. Aware'
      BY <2>1, <3>1, <3>3 DEF Aware, TypeOK
    <3> QED
      BY <3>4, <3>5
  <2>3. CASE ~StillExpected(a)
    <3>1. AtRest \in DeskRow /\ AtRest.pc = "idle"
      BY IdleType DEF AtRest
    <3> QED
      BY <1>15, <2>3, <3>1, DeskType DEF ReviewDecide
  <2> QED
    BY <2>2, <2>3
<1>16. ASSUME NEW d \in Admins, ReviewNotify(d) PROVE TypeInv'
  <2>1. notices' \in [Apps -> Nat]
    <3>1. PICK sent \in {0, 1} : notices' = [notices EXCEPT ![desk[d].app] = @ + sent]
      BY <1>16 DEF ReviewNotify
    <3>2. notices \in [Apps -> Nat] /\ desk[d].app \in Apps
      BY <1>16 DEF ReviewNotify, TypeOK, Aware
    <3>3. notices[desk[d].app] + sent \in Nat
      BY <3>2
    <3> QED
      BY <3>1, <3>2, <3>3
  <2>2. desk' \in [Admins -> DeskRow] /\ desk' = [desk EXCEPT ![d] = AtRest]
    BY <1>16, IdleType DEF ReviewNotify, TypeOK, DeskRow
  <2>3. TypeOK'
    BY <1>16, <2>1, <2>2 DEF ReviewNotify, TypeOK, DeskRow
  <2>4. Aware'
    BY <1>16, <2>2 DEF ReviewNotify, Aware, TypeOK, AtRest
  <2> QED
    BY <2>3, <2>4
<1>17. ASSUME NEW s \in Sessions, ChatFails(s) PROVE TypeInv'
  BY <1>17, EndType DEF ChatFails, Ready
<1>18. ASSUME NEW d \in Admins, DeskFails(d) PROVE TypeInv'
  <2>1. AtRest \in DeskRow /\ AtRest.pc = "idle"
    BY IdleType DEF AtRest
  <2> QED
    BY <1>18, <2>1, DeskType DEF DeskFails
<1>19. ASSUME Crash PROVE TypeInv'
  <2>1. chat' \in [Sessions -> ChatRow] /\ desk' \in [Admins -> DeskRow]
    BY <1>19, IdleType DEF Crash
  <2>2. TypeOK'
    BY <1>19, <2>1 DEF Crash, TypeOK, ChatRow, DeskRow
  <2>3. Aware'
    BY <1>19 DEF Crash, Aware, Idle, AtRest
  <2> QED
    BY <2>2, <2>3
<1>20. ASSUME UNCHANGED vars PROVE TypeInv'
  BY <1>20 DEF vars, TypeOK, Aware
<1> QED
  BY <1>1, <1>2, <1>3, <1>4, <1>5, <1>6, <1>7, <1>8, <1>9, <1>10, <1>11, <1>12, <1>13,
     <1>14, <1>15, <1>16, <1>17, <1>18, <1>19, <1>20, <1>21
     DEF Next, ChatContinues, DeskContinues

\* Every variable keeps its type, and a handler under way that will write an
\* application holds one.
THEOREM TypeCorrect == Spec => []TypeOK
<1>1. Spec => []TypeInv
  BY TypeInit, TypeStep, PTL DEF Spec
<1>2. TypeInv => TypeOK
  BY DEF TypeInv
<1> QED
  BY <1>1, <1>2, PTL
-----------------------------------------------------------------------------
\* The steps that write the tables; every other step leaves them alone.
LEMMA TableWriters ==
  ASSUME [Next]_vars
  PROVE  \/ \E s \in Sessions : \/ SubmitWrite(s)
                                \/ LanguageWrite(s) /\ users[UserOf[s]].row = 0
                                \/ EditWrite(s)
                                \/ WithdrawCommit(s)
         \/ \E d \in Admins : ReviewDecide(d) /\ StillExpected(desk[d].app)
         \/ UNCHANGED <<users, apps, logs, nextRow>>
<1> USE DEF EndWith
<1>1. ASSUME NEW s \in Sessions,
             \/ \E c \in Contacts : SubmitCount(s, c)
             \/ LanguageRead(s)
             \/ \E c \in Contacts \cup {NoContact} : EditRead(s, c)
             \/ WithdrawLoad(s)
      PROVE  UNCHANGED <<users, apps, logs, nextRow>>
  BY <1>1 DEF SubmitCount, LanguageRead, EditRead, WithdrawLoad
<1>2. ASSUME NEW s \in Sessions,
             \/ SubmitReadUser(s) \/ SubmitCheckActive(s) \/ SubmitRefused(s)
             \/ WithdrawFlush(s) \/ WithdrawAnswer(s) \/ ChatFails(s)
             \/ LanguageWrite(s) /\ users[UserOf[s]].row # 0
             \/ LanguageFlush(s)
      PROVE  UNCHANGED <<users, apps, logs, nextRow>>
  BY <1>2 DEF SubmitReadUser, SubmitCheckActive, SubmitRefused, WithdrawFlush,
              WithdrawAnswer, ChatFails, LanguageWrite, LanguageFlush
<1>3. ASSUME NEW d \in Admins,
             \/ \E a \in Apps, v \in Decisions : ReviewFind(d, a, v)
             \/ ReviewNotify(d) \/ DeskFails(d)
             \/ ReviewDecide(d) /\ ~StillExpected(desk[d].app)
      PROVE  UNCHANGED <<users, apps, logs, nextRow>>
  BY <1>3 DEF ReviewFind, ReviewNotify, DeskFails, ReviewDecide
<1>4. CASE Crash \/ UNCHANGED vars
  BY <1>4 DEF Crash, vars
<1> QED
  BY <1>1, <1>2, <1>3, <1>4 DEF Next, ChatContinues, DeskContinues

\* An edit writes contact columns and log rows, or nothing.
LEMMA EditWrites ==
  ASSUME NEW s \in Sessions, EditWrite(s)
  PROVE  /\ \/ users' = users
            \/ users' = [users EXCEPT ![UserOf[s]].contact = chat[s].contact]
         /\ \/ apps' = apps
            \/ apps' = [apps EXCEPT ![chat[s].app].contact = chat[s].contact]
         /\ logs' = logs \/ \E rows \in EditLogRows(s) : logs' = logs \cup rows
         /\ nextRow' = nextRow
  BY DEF EditWrite, EndWith

LEMMA EditKeeps ==
  ASSUME TypeInv, NEW s \in Sessions, EditWrite(s)
  PROVE  /\ \A v \in Users : users'[v].row = users[v].row
         /\ \A b \in Apps : apps'[b].row = apps[b].row /\ apps'[b].status = apps[b].status
         /\ nextRow' = nextRow
<1>1. users \in [Users -> UserRow] /\ apps \in [Apps -> AppRow]
  BY DEF TypeInv, TypeOK, UserRow, AppRow
<1>2. \A v \in Users : users'[v].row = users[v].row
  <2>1. CASE users' = [users EXCEPT ![UserOf[s]].contact = chat[s].contact]
    BY <1>1, <2>1 DEF UserRow
  <2> QED
    BY <2>1, EditWrites
<1>3. \A b \in Apps : apps'[b].row = apps[b].row /\ apps'[b].status = apps[b].status
  <2>1. CASE apps' = [apps EXCEPT ![chat[s].app].contact = chat[s].contact]
    BY <1>1, <2>1 DEF AppRow
  <2> QED
    BY <2>1, EditWrites
<1> QED
  BY <1>2, <1>3, EditWrites

Live(a) == Stored(a) /\ Status(a) # "rejected"

\* The rows are numbered by nextRow; a stored application has the row of a
\* player; two live applications have different rows.
RowInv ==
    /\ \A u \in Users : users[u].row <= nextRow
    /\ \A a \in Apps : Stored(a) => apps[a].row # 0 /\ apps[a].row <= nextRow
    /\ \A a, b \in Apps : Live(a) /\ Live(b) /\ apps[a].row = apps[b].row => a = b
    /\ NothingOutlivesErasure

LEMMA RowInit == Init => RowInv
  BY DEF Init, RowInv, NothingOutlivesErasure, Stored, Status, Live, Blank, NoRow, Decisions

LEMMA RowStep == TypeInv /\ RowInv /\ [Next]_vars => RowInv'
<1> SUFFICES ASSUME TypeInv, RowInv, [Next]_vars PROVE RowInv'
  OBVIOUS
<1> USE DEF TypeInv
<1>1. ASSUME NEW s \in Sessions, SubmitWrite(s) PROVE RowInv'
  <2> DEFINE u == UserOf[s]
             r == IF chat[s].row = 0 THEN nextRow + 1 ELSE chat[s].row
  <2>1. PICK a \in Unused :
          /\ users' = [users EXCEPT ![u] =
                [row |-> r, contact |-> IF WritesContact(s) THEN chat[s].contact ELSE @.contact]]
          /\ apps' = [apps EXCEPT ![a] =
                [status |-> "pending_review", row |-> r, contact |-> chat[s].contact]]
    BY <1>1 DEF SubmitWrite
  <2>2. nextRow' = IF chat[s].row = 0 THEN nextRow + 1 ELSE nextRow
    BY <1>1 DEF SubmitWrite
  <2>3. /\ u \in Users /\ a \in Apps /\ nextRow \in Nat
        /\ users \in [Users -> UserRow] /\ apps \in [Apps -> AppRow]
        /\ chat[s].row \in Nat
    BY SessionAssumption, ChatAt DEF TypeOK, UserRow, AppRow, ChatRow, Unused
  <2>4. /\ users[u].row = chat[s].row
        /\ chat[s].row # 0 => \A b \in Apps : Live(b) => apps[b].row # r
    BY <1>1 DEF SubmitWrite, Violates, RowMoved, Active, OfRow, Live
  <2>5. chat[s].row = 0 => \A b \in Apps : Stored(b) => apps[b].row # r
    BY <2>3 DEF RowInv, UserRow, AppRow
  <2>6. /\ r # 0 /\ r <= nextRow' /\ nextRow <= nextRow'
    BY <2>2, <2>3, <2>4 DEF RowInv
  <2>7. /\ users'[u].row = r /\ \A v \in Users : v # u => users'[v] = users[v]
        /\ apps'[a].row = r /\ apps'[a].status = "pending_review"
        /\ \A b \in Apps : b # a => apps'[b] = apps[b]
    BY <2>1, <2>3
  <2>8. \A v \in Users : users'[v].row <= nextRow'
    BY <2>2, <2>3, <2>6, <2>7 DEF RowInv, UserRow
  <2>9. \A b \in Apps : Stored(b)' => apps'[b].row # 0 /\ apps'[b].row <= nextRow'
    BY <2>2, <2>3, <2>6, <2>7 DEF RowInv, AppRow, Stored, Status
  <2>10. \A b, c \in Apps : Live(b)' /\ Live(c)' /\ apps'[b].row = apps'[c].row => b = c
    BY <2>3, <2>4, <2>5, <2>7 DEF RowInv, Live, Stored, Status
  <2>11. NothingOutlivesErasure'
    <3> SUFFICES ASSUME NEW b \in Apps, Stored(b)'
                 PROVE  \E v \in Users : users'[v].row = apps'[b].row
      BY DEF NothingOutlivesErasure
    <3>1. CASE b = a
      BY <3>1, <2>3, <2>7
    <3>2. CASE b # a
      <4>1. PICK v \in Users : users[v].row = apps[b].row
        BY <3>2, <2>7 DEF RowInv, NothingOutlivesErasure, Stored, Status
      <4>2. CASE v = u
        <5>1. apps[b].row = chat[s].row /\ apps[b].row # 0
          BY <3>2, <4>1, <4>2, <2>4, <2>7 DEF RowInv, Stored, Status
        <5> QED
          BY <5>1, <3>2, <2>3, <2>7
      <4>3. CASE v # u
        BY <3>2, <4>1, <4>3, <2>7
      <4> QED
        BY <4>2, <4>3
    <3> QED
      BY <3>1, <3>2
  <2> QED
    BY <2>8, <2>9, <2>10, <2>11 DEF RowInv
<1>2. ASSUME NEW s \in Sessions, LanguageWrite(s), users[UserOf[s]].row = 0 PROVE RowInv'
  <2> DEFINE u == UserOf[s]
  <2>1. users' = [users EXCEPT ![u] = [row |-> nextRow + 1, contact |-> NoContact]]
        /\ nextRow' = nextRow + 1 /\ apps' = apps
    BY <1>2 DEF LanguageWrite
  <2>2. /\ u \in Users /\ nextRow \in Nat
        /\ users \in [Users -> UserRow] /\ apps \in [Apps -> AppRow]
    BY SessionAssumption DEF TypeOK, UserRow, AppRow
  <2>3. \A b \in Apps : Stored(b) => \E v \in Users : v # u /\ users[v].row = apps[b].row
    BY <1>2 DEF RowInv, NothingOutlivesErasure
  <2>4. users'[u].row = nextRow + 1 /\ \A v \in Users : v # u => users'[v] = users[v]
    BY <2>1, <2>2
  <2>5. NothingOutlivesErasure'
    BY <2>1, <2>3, <2>4 DEF NothingOutlivesErasure, Stored, Status
  <2> QED
    BY <2>1, <2>2, <2>4, <2>5 DEF RowInv, UserRow, AppRow, Stored, Status, Live
<1>3. ASSUME NEW s \in Sessions, EditWrite(s) PROVE RowInv'
  <2> DEFINE u == UserOf[s]
  <2>1. /\ u \in Users /\ users \in [Users -> UserRow] /\ apps \in [Apps -> AppRow]
        /\ chat[s].app \in Apps
    BY <1>3, SessionAssumption DEF TypeOK, UserRow, AppRow, Aware, EditWrite
  <2>2. /\ \A v \in Users : users'[v].row = users[v].row
        /\ \A b \in Apps : apps'[b].row = apps[b].row /\ apps'[b].status = apps[b].status
        /\ nextRow' = nextRow
    BY <1>3, <2>1, EditKeeps DEF UserRow, AppRow
  <2> QED
    BY <2>2 DEF RowInv, NothingOutlivesErasure, Stored, Status, Live
<1>4. ASSUME NEW s \in Sessions, WithdrawCommit(s) PROVE RowInv'
  <2> DEFINE r == chat[s].row
             u == UserOf[s]
             gone == OfRow(r)
  <2>1. /\ users' = (IF RowMoved(s) THEN users ELSE [users EXCEPT ![u] = NoRow])
        /\ apps' = [b \in Apps |->
              IF b \in gone THEN [apps[b] EXCEPT !.status = "erased", !.contact = NoContact]
              ELSE apps[b]]
        /\ nextRow' = nextRow
    BY <1>4 DEF WithdrawCommit
  <2>2. /\ u \in Users /\ users \in [Users -> UserRow] /\ apps \in [Apps -> AppRow]
        /\ nextRow \in Nat
    BY SessionAssumption DEF TypeOK, UserRow, AppRow
  <2>3. \A b \in Apps : b \in gone => apps'[b].status = "erased"
    BY <2>1, <2>2 DEF AppRow
  <2>4. \A b \in Apps : Stored(b)' => /\ apps'[b] = apps[b] /\ Stored(b)
                                     /\ apps[b].row # r
    BY <2>1, <2>3 DEF Stored, Status, Decisions, OfRow
  <2>5. \A v \in Users : users'[v] = users[v] \/ (users'[v].row = 0 /\ users[v].row = r)
    BY <2>1, <2>2 DEF RowMoved, NoRow
  <2>6. \A v \in Users : users'[v].row <= nextRow'
    <3> SUFFICES ASSUME NEW v \in Users PROVE users'[v].row <= nextRow
      BY <2>1
    <3>1. users[v].row <= nextRow /\ 0 <= nextRow
      BY <2>2 DEF RowInv
    <3> QED
      BY <2>5, <3>1
  <2>7. NothingOutlivesErasure'
    BY <2>4, <2>5 DEF RowInv, NothingOutlivesErasure
  <2>8. \A b, c \in Apps : Live(b)' /\ Live(c)' /\ apps'[b].row = apps'[c].row => b = c
    BY <2>4 DEF RowInv, Live, Status
  <2> QED
    BY <2>1, <2>4, <2>6, <2>7, <2>8 DEF RowInv
<1>5. ASSUME NEW d \in Admins, ReviewDecide(d), StillExpected(desk[d].app) PROVE RowInv'
  <2> DEFINE a == desk[d].app
             v == desk[d].verdict
  <2>1. a \in Apps /\ v \in Decisions /\ apps \in [Apps -> AppRow]
    BY <1>5 DEF ReviewDecide, Aware, TypeOK, AppRow
  <2>2. apps' = [apps EXCEPT ![a].status = v] /\ UNCHANGED <<users, nextRow>>
    BY <1>5 DEF ReviewDecide
  <2>3. /\ \A b \in Apps : apps'[b].row = apps[b].row /\ (Stored(b)' => Stored(b))
        /\ \A b \in Apps : Live(b)' => Live(b)
    BY <1>5, <2>1, <2>2 DEF AppRow, Stored, Live, Status, StillExpected, Decisions
  <2> QED
    BY <2>2, <2>3 DEF RowInv, NothingOutlivesErasure
<1>6. CASE UNCHANGED <<users, apps, logs, nextRow>>
  BY <1>6 DEF RowInv, NothingOutlivesErasure, Stored, Status, Live
<1> QED
  BY <1>1, <1>2, <1>3, <1>4, <1>5, <1>6, TableWriters

\* A player has at most one application under review or approved.
THEOREM OneActive == Spec => []OneActivePerUser
<1>1. Spec => [](TypeInv /\ RowInv)
  BY TypeInit, TypeStep, RowInit, RowStep, PTL DEF Spec
<1>2. RowInv => OneActivePerUser
  BY DEF RowInv, OneActivePerUser, Active, OfRow, Live, Stored
<1> QED
  BY <1>1, <1>2, PTL

\* An application never outlives the users row it belongs to.
THEOREM NothingOutlives == Spec => []NothingOutlivesErasure
<1>1. Spec => [](TypeInv /\ RowInv)
  BY TypeInit, TypeStep, RowInit, RowStep, PTL DEF Spec
<1>2. RowInv => NothingOutlivesErasure
  BY DEF RowInv
<1> QED
  BY <1>1, <1>2, PTL

\* No step but the withdrawal of the player changes a decision.
THEOREM DecisionStands == Spec => DecisionFinal
<1>1. TypeInv /\ [Next]_vars =>
        [\A a \in Apps : Status(a) \in Decisions => Status(a)' \in {Status(a), "erased"}]_vars
  <2> SUFFICES ASSUME TypeInv, [Next]_vars, NEW a \in Apps, Status(a) \in Decisions
               PROVE  Status(a)' \in {Status(a), "erased"}
    OBVIOUS
  <2>1. apps \in [Apps -> AppRow]
    BY DEF TypeInv, TypeOK, AppRow
  <2>2. ASSUME NEW s \in Sessions, SubmitWrite(s) PROVE Status(a)' = Status(a)
    BY <2>1, <2>2 DEF SubmitWrite, Unused, Status, Decisions
  <2>3. ASSUME NEW s \in Sessions, LanguageWrite(s) PROVE Status(a)' = Status(a)
    BY <2>3 DEF LanguageWrite, EndWith, Status
  <2>4. ASSUME NEW s \in Sessions, EditWrite(s) PROVE Status(a)' = Status(a)
    BY <2>1, <2>4 DEF EditWrite, EndWith, Status, AppRow
  <2>5. ASSUME NEW s \in Sessions, WithdrawCommit(s)
        PROVE  Status(a)' \in {Status(a), "erased"}
    BY <2>1, <2>5 DEF WithdrawCommit, Status, AppRow
  <2>6. ASSUME NEW d \in Admins, ReviewDecide(d), StillExpected(desk[d].app)
        PROVE  Status(a)' = Status(a)
    BY <2>1, <2>6 DEF ReviewDecide, StillExpected, Status, AppRow, Decisions
  <2>7. CASE UNCHANGED <<users, apps, logs, nextRow>>
    BY <2>7 DEF Status
  <2> QED
    BY <2>2, <2>3, <2>4, <2>5, <2>6, <2>7, TableWriters
<1>2. Spec => []TypeInv
  BY TypeInit, TypeStep, PTL DEF Spec
<1> QED
  BY <1>1, <1>2, PTL DEF Spec, DecisionFinal
-----------------------------------------------------------------------------
\* Neither the queue nor the submits under way grow.
LEMMA Shrinks ==
  ASSUME TypeInv, QueueOvershoot, Pending' \subseteq Pending, FilingNow' \subseteq FilingNow
  PROVE  QueueOvershoot'
<1>1. IsFiniteSet(Pending) /\ IsFiniteSet(FilingNow) /\ IsFiniteSet(Sessions)
  BY SessionAssumption, FS_Subset DEF Pending, FilingNow
<1>2. /\ Cardinality(Pending') <= Cardinality(Pending)
      /\ Cardinality(FilingNow') <= Cardinality(FilingNow)
      /\ IsFiniteSet(Pending') /\ IsFiniteSet(FilingNow')
  BY <1>1, FS_Subset
<1>3. /\ Cardinality(Pending) \in Nat /\ Cardinality(FilingNow) \in Nat
      /\ Cardinality(Pending') \in Nat /\ Cardinality(FilingNow') \in Nat
      /\ Cardinality(Sessions) \in Nat
  BY <1>1, <1>2, FS_CardinalityType
<1> QED
  BY <1>2, <1>3, BoundAssumption DEF QueueOvershoot

LEMMA QueueInit == Init => QueueOvershoot
<1> SUFFICES ASSUME Init PROVE QueueOvershoot
  OBVIOUS
<1>1. Pending = {} /\ FilingNow = {}
  BY DEF Init, Pending, FilingNow, Status, Blank, Idle, Filing
<1>2. Cardinality(Sessions) \in Nat /\ Cardinality(Sessions) # 0
  BY SessionAssumption, FS_CardinalityType, FS_EmptySet
<1> QED
  BY <1>1, <1>2, FS_EmptySet, BoundAssumption DEF QueueOvershoot

LEMMA QueueStep == TypeInv /\ QueueOvershoot /\ [Next]_vars => QueueOvershoot'
<1> SUFFICES ASSUME TypeInv, QueueOvershoot, [Next]_vars PROVE QueueOvershoot'
  OBVIOUS
<1>1. ASSUME NEW s \in Sessions, NEW c \in Contacts, SubmitCount(s, c) PROVE QueueOvershoot'
  <2>1. Pending' = Pending /\ Cardinality(Pending) < PendingCap
    BY <1>1 DEF SubmitCount, Pending, Status
  <2>2. IsFiniteSet(Pending) /\ IsFiniteSet(Sessions)
    BY SessionAssumption, FS_Subset DEF Pending
  <2>3. FilingNow' \subseteq Sessions
    BY DEF FilingNow
  <2>4. IsFiniteSet(FilingNow') /\ Cardinality(FilingNow') <= Cardinality(Sessions)
    BY <2>2, <2>3, FS_Subset
  <2>5. /\ Cardinality(Pending) \in Nat /\ Cardinality(Sessions) \in Nat
        /\ Cardinality(FilingNow') \in Nat
    BY <2>2, <2>4, FS_CardinalityType
  <2> QED
    BY <2>1, <2>4, <2>5, BoundAssumption DEF QueueOvershoot
<1>2. ASSUME NEW s \in Sessions, SubmitWrite(s) PROVE QueueOvershoot'
  <2>1. s \in FilingNow /\ FilingNow' = FilingNow \ {s}
    BY <1>2, ChatAt DEF SubmitWrite, FilingNow, Filing, Idle, TypeInv
  <2>2. PICK a \in Unused : Pending' = Pending \cup {a}
    <3>1. PICK a \in Unused : apps' = [apps EXCEPT ![a] =
             [status |-> "pending_review",
              row |-> IF chat[s].row = 0 THEN nextRow + 1 ELSE chat[s].row,
              contact |-> chat[s].contact]]
      BY <1>2 DEF SubmitWrite
    <3>2. apps \in [Apps -> AppRow] /\ a \in Apps
      BY DEF TypeInv, TypeOK, AppRow, Unused
    <3> QED
      BY <3>1, <3>2 DEF Pending, Status
  <2>3. IsFiniteSet(Pending) /\ IsFiniteSet(FilingNow) /\ IsFiniteSet(Sessions)
    BY SessionAssumption, FS_Subset DEF Pending, FilingNow
  <2>4. Cardinality(Pending') <= Cardinality(Pending) + 1
    <3>1. Cardinality(Pending) \in Nat
      BY <2>3, FS_CardinalityType
    <3>2. Cardinality(Pending \cup {a}) =
            IF a \in Pending THEN Cardinality(Pending) ELSE Cardinality(Pending) + 1
      BY <2>3, FS_AddElement
    <3> QED
      BY <2>2, <3>1, <3>2
  <2>5. Cardinality(FilingNow') = Cardinality(FilingNow) - 1
    BY <2>1, <2>3, FS_RemoveElement
  <2>6. IsFiniteSet(Pending') /\ IsFiniteSet(FilingNow')
    BY <2>1, <2>2, <2>3, FS_AddElement, FS_RemoveElement
  <2>7. /\ Cardinality(Pending) \in Nat /\ Cardinality(FilingNow) \in Nat
        /\ Cardinality(Pending') \in Nat /\ Cardinality(FilingNow') \in Nat
        /\ Cardinality(Sessions) \in Nat
    BY <2>3, <2>6, FS_CardinalityType
  <2> QED
    BY <2>4, <2>5, <2>7, BoundAssumption DEF QueueOvershoot
<1>3. ASSUME NEW s \in Sessions,
             \/ LanguageRead(s) \/ WithdrawLoad(s) \/ SubmitReadUser(s)
             \/ SubmitCheckActive(s) \/ SubmitRefused(s) \/ LanguageWrite(s)
             \/ LanguageFlush(s)
             \/ \E c \in Contacts \cup {NoContact} : EditRead(s, c)
             \/ WithdrawFlush(s) \/ WithdrawAnswer(s) \/ ChatFails(s)
      PROVE  Pending' = Pending /\ FilingNow' \subseteq FilingNow
  <2>1. apps' = apps
    BY <1>3 DEF LanguageRead, WithdrawLoad, SubmitReadUser, SubmitCheckActive, SubmitRefused,
                LanguageFlush, LanguageWrite, EditRead, WithdrawFlush, WithdrawAnswer,
                ChatFails, EndWith
  <2>2. \A z \in Sessions : z # s => chat'[z] = chat[z]
    BY <1>3 DEF LanguageRead, WithdrawLoad, SubmitReadUser, SubmitCheckActive, SubmitRefused,
                LanguageFlush, LanguageWrite, EditRead, WithdrawFlush, WithdrawAnswer,
                ChatFails, EndWith, TypeInv, TypeOK
  <2>3. chat[s].pc \in Filing \/ chat'[s].pc \notin Filing
    <3>1. CASE SubmitReadUser(s) \/ SubmitCheckActive(s) \/ SubmitRefused(s)
      BY <3>1 DEF SubmitReadUser, SubmitCheckActive, SubmitRefused, Filing
    <3>2. CASE LanguageWrite(s) \/ ChatFails(s)
      BY <3>2 DEF LanguageWrite, ChatFails, EndWith, Filing, Idle, TypeInv, TypeOK
    <3>7. CASE LanguageRead(s)
      <4>1. chat'[s].pc = "naming"
        BY <3>7, ChatAt DEF LanguageRead, Idle, TypeInv
      <4> QED
        BY <4>1 DEF Filing
    <3>3. CASE WithdrawFlush(s) \/ WithdrawAnswer(s)
      BY <3>3, ChatAt DEF WithdrawFlush, WithdrawAnswer, Filing, TypeInv, ChatRow
    <3>6. CASE LanguageFlush(s)
      <4>1. chat'[s].pc \in {"idle", "named"}
        BY <3>6, ChatAt DEF LanguageFlush, EndWith, Idle, TypeInv, ChatRow
      <4> QED
        BY <4>1 DEF Filing
    <3>4. CASE WithdrawLoad(s)
      <4>1. chat'[s].pc = "loaded"
        BY <3>4, ChatAt DEF WithdrawLoad, Idle, TypeInv
      <4> QED
        BY <4>1 DEF Filing
    <3>5. ASSUME NEW c \in Contacts \cup {NoContact}, EditRead(s, c)
          PROVE  chat'[s].pc \notin Filing
      <4>1. chat'[s].pc = "editing"
        BY <3>5, ChatAt DEF EditRead, Idle, TypeInv
      <4> QED
        BY <4>1 DEF Filing
    <3> QED
      BY <1>3, <3>1, <3>2, <3>3, <3>4, <3>5, <3>6, <3>7
  <2> QED
    BY <2>1, <2>2, <2>3 DEF Pending, Status, FilingNow
<1>4. ASSUME NEW s \in Sessions, EditWrite(s) PROVE QueueOvershoot'
  <2>1. \A a \in Apps : Status(a)' = Status(a)
    BY <1>4 DEF EditWrite, EndWith, Status, TypeInv, TypeOK
  <2>2. FilingNow' \subseteq FilingNow
    BY <1>4, ChatAt DEF TypeInv, EditWrite, EndWith, FilingNow, Filing, Idle
  <2>3. Pending' = Pending
    BY <2>1 DEF Pending
  <2> QED
    BY <2>2, <2>3, Shrinks
<1>5. ASSUME NEW s \in Sessions, WithdrawCommit(s) PROVE QueueOvershoot'
  <2>1. Pending' \subseteq Pending
    <3>1. apps \in [Apps -> AppRow]
      BY DEF TypeInv, TypeOK, AppRow
    <3>2. \A a \in Apps : Status(a)' = Status(a) \/ Status(a)' = "erased"
      BY <1>5, <3>1 DEF WithdrawCommit, Status, AppRow
    <3> QED
      BY <3>2 DEF Pending
  <2>2. FilingNow' \subseteq FilingNow
    BY <1>5, ChatAt DEF TypeInv, WithdrawCommit, FilingNow, Filing, Idle
  <2> QED
    BY <2>1, <2>2, Shrinks
<1>6. ASSUME NEW d \in Admins,
             \/ \E a \in Apps, v \in Decisions : ReviewFind(d, a, v)
             \/ ReviewNotify(d) \/ DeskFails(d) \/ ReviewDecide(d)
      PROVE  QueueOvershoot'
  <2>1. chat' = chat
    BY <1>6 DEF ReviewFind, ReviewNotify, DeskFails, ReviewDecide
  <2>2. Pending' \subseteq Pending
    <3>1. CASE ReviewDecide(d)
      BY <3>1 DEF ReviewDecide, StillExpected, Pending, Status, TypeInv, TypeOK
    <3>2. CASE ~ReviewDecide(d)
      BY <1>6, <3>2 DEF ReviewFind, ReviewNotify, DeskFails, Pending, Status
    <3> QED
      BY <3>1, <3>2
  <2>3. FilingNow' = FilingNow
    BY <2>1 DEF FilingNow
  <2> QED
    BY <2>2, <2>3, Shrinks
<1>7. CASE Crash
  <2>1. Pending' = Pending /\ FilingNow' = {}
    BY <1>7 DEF Crash, Pending, Status, FilingNow, Filing, Idle
  <2> QED
    BY <2>1, Shrinks
<1>8. CASE UNCHANGED vars
  BY <1>8, Shrinks DEF vars, Pending, Status, FilingNow
<1> QED
  BY <1>1, <1>2, <1>3, <1>4, <1>5, <1>6, <1>7, <1>8, Shrinks
     DEF Next, ChatContinues, DeskContinues

\* The queue exceeds its cap by less than the number of concurrent submitters.
THEOREM QueueBounded == Spec => []QueueOvershoot
<1>1. Spec => [](TypeInv /\ QueueOvershoot)
  BY TypeInit, TypeStep, QueueInit, QueueStep, PTL DEF Spec
<1> QED
  BY <1>1, PTL
-----------------------------------------------------------------------------
\* How an application moves from one status to the next, whatever the step.
LEMMA StatusSteps ==
  ASSUME TypeInv, [Next]_vars, NEW a \in Apps
  PROVE  \/ Status(a)' = Status(a)
         \/ Status(a) = "unused" /\ Status(a)' = "pending_review"
         \/ /\ Status(a) = "pending_review" /\ Status(a)' \in Decisions
            /\ \E d \in Admins : ReviewDecide(d) /\ desk[d].app = a
         \/ /\ Stored(a) /\ Status(a)' = "erased"
            /\ \E s \in Sessions : WithdrawCommit(s) /\ apps[a].row = chat[s].row
<1>1. apps \in [Apps -> AppRow]
  BY DEF TypeInv, TypeOK, AppRow
<1>2. ASSUME NEW s \in Sessions, SubmitWrite(s)
      PROVE  \/ Status(a)' = Status(a)
             \/ Status(a) = "unused" /\ Status(a)' = "pending_review"
  <2>1. PICK b \in Unused : \E r, c : apps' =
           [apps EXCEPT ![b] = [status |-> "pending_review", row |-> r, contact |-> c]]
    BY <1>2 DEF SubmitWrite
  <2>2. b \in Apps /\ apps[b].status = "unused"
    BY DEF Unused, Status
  <2>3. a = b => apps'[a].status = "pending_review"
    BY <1>1, <2>1
  <2>4. a # b => apps'[a] = apps[a]
    BY <1>1, <2>1
  <2> QED
    BY <2>2, <2>3, <2>4 DEF Status
<1>3. ASSUME NEW s \in Sessions, LanguageWrite(s) PROVE Status(a)' = Status(a)
  BY <1>3 DEF LanguageWrite, EndWith, Status
<1>4. ASSUME NEW s \in Sessions, EditWrite(s) PROVE Status(a)' = Status(a)
  BY <1>1, <1>4 DEF EditWrite, EndWith, Status, AppRow
<1>5. ASSUME NEW s \in Sessions, WithdrawCommit(s)
      PROVE  \/ Status(a)' = Status(a)
             \/ /\ Stored(a) /\ Status(a)' = "erased"
                /\ apps[a].row = chat[s].row
  <2>1. apps' = [b \in Apps |->
           IF b \in OfRow(chat[s].row)
           THEN [apps[b] EXCEPT !.status = "erased", !.contact = NoContact] ELSE apps[b]]
    BY <1>5 DEF WithdrawCommit
  <2>2. CASE a \in OfRow(chat[s].row)
    <3>1. apps'[a].status = "erased"
      BY <1>1, <2>1, <2>2 DEF AppRow
    <3> QED
      BY <2>2, <3>1 DEF OfRow, Status
  <2>3. CASE a \notin OfRow(chat[s].row)
    BY <2>1, <2>3 DEF Status
  <2> QED
    BY <2>2, <2>3
<1>6. ASSUME NEW d \in Admins, ReviewDecide(d), StillExpected(desk[d].app)
      PROVE  \/ Status(a)' = Status(a)
             \/ /\ Status(a) = "pending_review" /\ Status(a)' \in Decisions
                /\ ReviewDecide(d) /\ desk[d].app = a
  <2>1. desk[d].app \in Apps /\ desk[d].verdict \in Decisions
    BY <1>6 DEF ReviewDecide, TypeInv, Aware, TypeOK
  <2> QED
    BY <1>1, <1>6, <2>1 DEF ReviewDecide, StillExpected, Status, AppRow
<1>7. CASE UNCHANGED <<users, apps, logs, nextRow>>
  BY <1>7 DEF Status
<1> QED
  BY <1>2, <1>3, <1>4, <1>5, <1>6, <1>7, TableWriters

\* The steps that start a notice and that end one; every other step sends none
\* and starts none.
LEMMA DeskSteps ==
  ASSUME TypeInv, [Next]_vars
  PROVE  \/ \E d \in Admins : ReviewDecide(d) /\ StillExpected(desk[d].app)
         \/ \E d \in Admins : ReviewNotify(d)
         \/ /\ notices' = notices
            /\ \A d \in Admins : desk'[d] = desk[d] \/ desk'[d].pc # "decided"
<1> USE DEF TypeInv
<1>1. ASSUME NEW s \in Sessions,
             \/ \E c \in Contacts : SubmitCount(s, c)
             \/ LanguageRead(s)
             \/ \E c \in Contacts \cup {NoContact} : EditRead(s, c)
             \/ WithdrawLoad(s) \/ ChatContinues(s) \/ ChatFails(s)
      PROVE  UNCHANGED <<desk, notices>>
  BY <1>1 DEF SubmitCount, LanguageRead, EditRead, WithdrawLoad, ChatFails, EndWith,
     ChatContinues, SubmitReadUser, SubmitCheckActive, SubmitWrite, SubmitRefused,
     LanguageFlush, LanguageWrite, EditWrite, WithdrawFlush, WithdrawAnswer, WithdrawCommit
<1>2. ASSUME NEW d \in Admins,
             \/ \E a \in Apps, v \in Decisions : ReviewFind(d, a, v)
             \/ ReviewDecide(d) /\ ~StillExpected(desk[d].app)
             \/ DeskFails(d)
      PROVE  /\ notices' = notices
             /\ \A e \in Admins : desk'[e] = desk[e] \/ desk'[e].pc # "decided"
  <2>1. desk \in [Admins -> DeskRow]
    BY DEF TypeOK, DeskRow
  <2> QED
    BY <1>2, <2>1 DEF ReviewFind, ReviewDecide, DeskFails, AtRest
<1>3. CASE Crash
  BY <1>3 DEF Crash, AtRest
<1>4. CASE UNCHANGED vars
  BY <1>4 DEF vars
<1> QED
  BY <1>1, <1>2, <1>3, <1>4 DEF Next, DeskContinues

\* A set of admins is finite and counted by a natural number.
LEMMA AdminsCounted ==
  ASSUME NEW S \in SUBSET Admins
  PROVE  IsFiniteSet(S) /\ Cardinality(S) \in Nat
  BY SessionAssumption, FS_Subset, FS_CardinalityType

LEMMA NoticeInit == Init => OneNoticeAfterCommit
<1> SUFFICES ASSUME Init, NEW a \in Apps
             PROVE  notices[a] + Cardinality(Notifying(a))
                      <= IF Status(a) \in {"approved", "rejected", "erased"} THEN 1 ELSE 0
  BY DEF OneNoticeAfterCommit
<1>1. Notifying(a) = {}
  BY DEF Init, Notifying, AtRest
<1>2. Cardinality(Notifying(a)) = 0
  BY <1>1, FS_EmptySet
<1> QED
  BY <1>2 DEF Init

LEMMA NoticeStep == TypeInv /\ OneNoticeAfterCommit /\ [Next]_vars => OneNoticeAfterCommit'
<1> SUFFICES ASSUME TypeInv, OneNoticeAfterCommit, [Next]_vars, NEW a \in Apps
             PROVE  notices'[a] + Cardinality(Notifying(a)')
                      <= IF Status(a)' \in {"approved", "rejected", "erased"} THEN 1 ELSE 0
  BY DEF OneNoticeAfterCommit
<1> DEFINE Told == {"approved", "rejected", "erased"}
           N  == Cardinality(Notifying(a))
           N1 == Cardinality(Notifying(a)')
<1>1. /\ notices \in [Apps -> Nat] /\ notices[a] \in Nat
      /\ desk \in [Admins -> DeskRow]
  BY DEF TypeInv, TypeOK, DeskRow
<1>2. /\ IsFiniteSet(Notifying(a)) /\ N \in Nat
      /\ IsFiniteSet(Notifying(a)') /\ N1 \in Nat
  BY AdminsCounted DEF Notifying
<1>3. notices[a] + N <= IF Status(a) \in Told THEN 1 ELSE 0
  BY DEF OneNoticeAfterCommit
<1>4. Status(a) \in Told => Status(a)' \in Told
  BY StatusSteps DEF Decisions, Stored
<1>5. ASSUME NEW d \in Admins, ReviewDecide(d), StillExpected(desk[d].app)
      PROVE  notices'[a] + N1 <= IF Status(a)' \in Told THEN 1 ELSE 0
  <2>1. /\ notices' = notices
        /\ desk' = [desk EXCEPT ![d].pc = "decided"]
        /\ desk[d].pc = "found" /\ desk[d].app \in Apps /\ desk[d].verdict \in Decisions
        /\ apps' = [apps EXCEPT ![desk[d].app].status = desk[d].verdict]
    BY <1>5 DEF ReviewDecide, TypeInv, Aware, TypeOK
  <2>2. CASE desk[d].app = a
    <3>1. Status(a) = "pending_review" /\ Status(a)' \in Told
      BY <1>5, <2>1, <2>2 DEF StillExpected, Status, Decisions, TypeInv, TypeOK
    <3>2. notices[a] = 0 /\ N = 0
      BY <1>1, <1>2, <1>3, <3>1
    <3>3. Notifying(a) = {}
      BY <1>2, <3>2, FS_EmptySet
    <3>4. Notifying(a)' = {d}
      BY <1>1, <2>1, <2>2, <3>3 DEF Notifying, DeskRow
    <3>5. N1 = 1
      BY <3>4, FS_Singleton
    <3> QED
      BY <2>1, <3>1, <3>2, <3>5
  <2>3. CASE desk[d].app # a
    <3>1. Notifying(a)' = Notifying(a)
      BY <1>1, <2>1, <2>3 DEF Notifying, DeskRow
    <3> QED
      BY <1>1, <1>2, <1>3, <1>4, <2>1, <3>1
  <2> QED
    BY <2>2, <2>3
<1>6. ASSUME NEW d \in Admins, ReviewNotify(d)
      PROVE  notices'[a] + N1 <= IF Status(a)' \in Told THEN 1 ELSE 0
  <2>1. PICK sent \in {0, 1} : notices' = [notices EXCEPT ![desk[d].app] = @ + sent]
    BY <1>6 DEF ReviewNotify
  <2>2. desk' = [desk EXCEPT ![d] = AtRest] /\ desk[d].pc = "decided"
    BY <1>6 DEF ReviewNotify
  <2>3. CASE desk[d].app = a
    <3>1. d \in Notifying(a) /\ Notifying(a)' = Notifying(a) \ {d}
      BY <1>1, <2>2, <2>3 DEF Notifying, AtRest
    <3>2. N1 = N - 1 /\ N # 0
      BY <1>2, <3>1, FS_RemoveElement, FS_EmptySet
    <3>3. notices'[a] = notices[a] + sent
      BY <1>1, <2>1, <2>3
    <3> QED
      BY <1>1, <1>2, <1>3, <1>4, <3>2, <3>3
  <2>4. CASE desk[d].app # a
    <3>1. Notifying(a)' = Notifying(a) /\ notices'[a] = notices[a]
      BY <1>1, <2>1, <2>2, <2>4 DEF Notifying, AtRest
    <3> QED
      BY <1>1, <1>2, <1>3, <1>4, <3>1
  <2> QED
    BY <2>3, <2>4
<1>7. ASSUME notices' = notices,
             \A d \in Admins : desk'[d] = desk[d] \/ desk'[d].pc # "decided"
      PROVE  notices'[a] + N1 <= IF Status(a)' \in Told THEN 1 ELSE 0
  <2>1. Notifying(a)' \subseteq Notifying(a)
    BY <1>7 DEF Notifying
  <2>2. N1 <= N
    BY <1>2, <2>1, FS_Subset
  <2> QED
    BY <1>1, <1>2, <1>3, <1>4, <1>7, <2>2
<1> QED
  BY <1>5, <1>6, <1>7, DeskSteps

\* However many admins tap one card and whoever crashes, a player is told of a
\* decision at most once, and only after it was committed.
THEOREM OneNotice == Spec => []OneNoticeAfterCommit
<1>1. Spec => [](TypeInv /\ OneNoticeAfterCommit)
  BY TypeInit, TypeStep, NoticeInit, NoticeStep, PTL DEF Spec
<1> QED
  BY <1>1, PTL
-----------------------------------------------------------------------------
\* The row of an application is written once, when it is filed.
LEMMA AppRows ==
  ASSUME TypeInv, [Next]_vars, NEW a \in Apps
  PROVE  \/ apps'[a].row = apps[a].row
         \/ Status(a) = "unused" /\ Status(a)' = "pending_review"
<1>1. apps \in [Apps -> AppRow]
  BY DEF TypeInv, TypeOK, AppRow
<1>2. ASSUME NEW s \in Sessions, SubmitWrite(s)
      PROVE  \/ apps'[a].row = apps[a].row
             \/ Status(a) = "unused" /\ Status(a)' = "pending_review"
  <2>1. PICK b \in Unused : \E r, c : apps' =
           [apps EXCEPT ![b] = [status |-> "pending_review", row |-> r, contact |-> c]]
    BY <1>2 DEF SubmitWrite
  <2> QED
    BY <1>1, <2>1 DEF Unused, Status
<1>3. ASSUME NEW s \in Sessions, LanguageWrite(s) \/ EditWrite(s)
      PROVE  apps'[a].row = apps[a].row
  BY <1>1, <1>3 DEF LanguageWrite, EditWrite, EndWith, AppRow
<1>4. ASSUME NEW s \in Sessions, WithdrawCommit(s) PROVE apps'[a].row = apps[a].row
  BY <1>1, <1>4 DEF WithdrawCommit, AppRow
<1>5. ASSUME NEW d \in Admins, ReviewDecide(d) PROVE apps'[a].row = apps[a].row
  BY <1>1, <1>5 DEF ReviewDecide, AppRow
<1> QED
  BY <1>2, <1>3, <1>4, <1>5, TableWriters

\* A player gets a new number, or none, or keeps the one he has.
LEMMA UserRows ==
  ASSUME TypeInv, RowInv, [Next]_vars
  PROVE  \/ \A v \in Users : users'[v].row = users[v].row
         \/ \E u \in Users : /\ users'[u].row = nextRow + 1 /\ nextRow' = nextRow + 1
                             /\ \A v \in Users \ {u} : users'[v].row = users[v].row
         \/ \E u \in Users : /\ users'[u].row = 0
                             /\ \A v \in Users \ {u} : users'[v].row = users[v].row
<1>1. users \in [Users -> UserRow] /\ nextRow \in Nat
  BY DEF TypeInv, TypeOK, UserRow
<1>2. ASSUME NEW s \in Sessions, SubmitWrite(s)
      PROVE  \/ \A v \in Users : users'[v].row = users[v].row
             \/ \E u \in Users : /\ users'[u].row = nextRow + 1 /\ nextRow' = nextRow + 1
                                 /\ \A v \in Users \ {u} : users'[v].row = users[v].row
  <2> DEFINE u == UserOf[s]
             r == IF chat[s].row = 0 THEN nextRow + 1 ELSE chat[s].row
  <2>1. /\ u \in Users /\ users'[u].row = r
        /\ \A v \in Users \ {u} : users'[v].row = users[v].row
        /\ nextRow' = IF chat[s].row = 0 THEN nextRow + 1 ELSE nextRow
        /\ users[u].row = chat[s].row
    BY <1>1, <1>2, SessionAssumption DEF SubmitWrite, Violates, RowMoved, UserRow
  <2> QED
    BY <2>1
<1>3. ASSUME NEW s \in Sessions, LanguageWrite(s), users[UserOf[s]].row = 0
      PROVE  \E u \in Users : /\ users'[u].row = nextRow + 1 /\ nextRow' = nextRow + 1
                              /\ \A v \in Users \ {u} : users'[v].row = users[v].row
  <2>1. UserOf[s] \in Users
    BY SessionAssumption
  <2> QED
    BY <1>1, <1>3, <2>1 DEF LanguageWrite
<1>4. ASSUME NEW s \in Sessions, EditWrite(s)
      PROVE  \A v \in Users : users'[v].row = users[v].row
  BY <1>1, <1>4 DEF EditWrite, EndWith, UserRow
<1>5. ASSUME NEW s \in Sessions, WithdrawCommit(s)
      PROVE  \/ users' = users
             \/ \E u \in Users : /\ users'[u].row = 0
                                 /\ \A v \in Users \ {u} : users'[v].row = users[v].row
  <2>1. UserOf[s] \in Users
    BY SessionAssumption
  <2> QED
    BY <1>1, <1>5, <2>1 DEF WithdrawCommit, NoRow
<1>6. ASSUME NEW d \in Admins, ReviewDecide(d) PROVE users' = users
  BY <1>6 DEF ReviewDecide
<1> QED
  BY <1>2, <1>3, <1>4, <1>5, <1>6, TableWriters

\* The handler of s starts afresh, or ends, knowing no row; a submit brings a
\* contact.
Settles(s) ==
    /\ chat'[s].pc \in Ready \cup {"counted"}
    /\ chat'[s].row = 0
    /\ chat'[s].pc = "counted" => chat'[s].contact \in Contacts

\* The handler of s goes on, and writes no table.
Reads(s) ==
    LET me == users[UserOf[s]]
        my == chat[s]
    IN  /\ UNCHANGED <<users, apps, logs, nextRow>>
        /\ \/ /\ my.pc = "counted"
              /\ chat'[s] = [my EXCEPT !.pc = "known", !.row = me.row, !.loaded = me.contact]
           \/ /\ my.pc = "known" /\ Active(my.row) = {}
              /\ chat'[s] = [my EXCEPT !.pc = "checked"]
           \/ /\ me.row # 0
              /\ \E a \in Active(me.row), c \in Contacts \cup {NoContact} :
                    chat'[s] = [Idle EXCEPT !.pc = "editing", !.row = me.row, !.contact = c,
                                            !.loaded = me.contact,
                                            !.copy = apps[a].contact, !.app = a]
           \/ /\ me.row # 0
              /\ chat'[s] = [Idle EXCEPT !.pc = "loaded", !.row = me.row,
                                !.seen = {l \in logs : l.linked /\ l.app \in OfRow(me.row)}]
           \/ /\ my.pc \in {"loaded", "flushed"}
              /\ \E pc \in Removing : chat'[s] = [my EXCEPT !.pc = pc]
           \/ chat'[s] = [Idle EXCEPT !.pc = "naming", !.row = me.row]
           \/ /\ my.pc = "naming"
              /\ chat'[s] = [my EXCEPT !.pc = "named"]

\* What any step does to the handler of one session.
LEMMA ChatSteps ==
  ASSUME TypeInv, [Next]_vars, NEW s \in Sessions
  PROVE  chat'[s] = chat[s] \/ Settles(s) \/ Reads(s)
<1>1. chat \in [Sessions -> ChatRow]
  BY ChatAt DEF TypeInv
<1>2. ASSUME NEW t \in Sessions, NEW pc \in Ready, EndWith(t, pc)
      PROVE  chat'[s] = chat[s] \/ Settles(s)
  BY <1>1, <1>2 DEF EndWith, Settles, Ready, Idle
<1>3. ASSUME NEW t \in Sessions,
             \/ \E c \in Contacts : SubmitCount(t, c)
             \/ SubmitWrite(t) \/ SubmitRefused(t) \/ LanguageWrite(t)
             \/ EditWrite(t) \/ WithdrawCommit(t) \/ ChatFails(t)
      PROVE  chat'[s] = chat[s] \/ Settles(s)
  <2>1. CASE \E pc \in Ready : EndWith(t, pc)
    BY <1>2, <2>1
  <2>2. CASE chat' = [chat EXCEPT ![t] = Idle]
    BY <1>1, <2>2 DEF Settles, Ready, Idle
  <2>3. ASSUME NEW c \in Contacts, SubmitCount(t, c)
        PROVE  chat'[s] = chat[s] \/ Settles(s)
    BY <1>1, <2>3 DEF SubmitCount, Settles, Ready, Idle
  <2>5. CASE SubmitRefused(t) \/ ChatFails(t)
    BY <2>1, <2>5 DEF SubmitRefused, ChatFails, Ready
  <2>6. CASE LanguageWrite(t)
    BY <2>1, <2>2, <2>6 DEF LanguageWrite, Ready
  <2>7. CASE EditWrite(t)
    BY <2>1, <2>2, <2>7 DEF EditWrite, Ready
  <2>8. CASE SubmitWrite(t) \/ WithdrawCommit(t)
    BY <2>2, <2>8 DEF SubmitWrite, WithdrawCommit
  <2> QED
    BY <1>3, <2>3, <2>5, <2>6, <2>7, <2>8
<1>4. ASSUME NEW t \in Sessions,
             \/ LanguageRead(t) \/ LanguageFlush(t)
             \/ SubmitReadUser(t) \/ SubmitCheckActive(t) \/ WithdrawLoad(t)
             \/ \E c \in Contacts \cup {NoContact} : EditRead(t, c)
             \/ WithdrawFlush(t) \/ WithdrawAnswer(t)
      PROVE  chat'[s] = chat[s] \/ Settles(s) \/ Reads(s)
  <2>1. CASE t # s
    <3>1. \E x : chat' = [chat EXCEPT ![t] = x]
      <4>1. CASE SubmitCheckActive(t) \/ LanguageFlush(t)
        BY <4>1, <1>1 DEF SubmitCheckActive, LanguageFlush, EndWith
      <4> QED
        BY <1>1, <1>4, <4>1 DEF SubmitReadUser, WithdrawLoad, EditRead,
           LanguageRead, WithdrawFlush, WithdrawAnswer
    <3> QED
      BY <1>1, <2>1, <3>1
  <2>2. CASE t = s /\ SubmitReadUser(s)
    BY <1>1, <2>2 DEF SubmitReadUser, Reads
  <2>3. CASE t = s /\ SubmitCheckActive(s)
    <3>1. CASE Active(chat[s].row) = {}
      BY <1>1, <2>3, <3>1 DEF SubmitCheckActive, Reads
    <3>2. CASE Active(chat[s].row) # {}
      BY <1>2, <2>3, <3>2 DEF SubmitCheckActive, Ready
    <3> QED
      BY <3>1, <3>2
  <2>4. CASE t = s /\ WithdrawLoad(s)
    BY <1>1, <2>4 DEF WithdrawLoad, Reads
  <2>5. ASSUME t = s, NEW c \in Contacts \cup {NoContact}, EditRead(s, c) PROVE Reads(s)
    BY <1>1, <2>5 DEF EditRead, Reads
  <2>6. CASE t = s /\ (WithdrawFlush(s) \/ WithdrawAnswer(s))
    BY <1>1, <2>6 DEF WithdrawFlush, WithdrawAnswer, Reads, Removing
  <2>7. CASE t = s /\ LanguageRead(s)
    BY <1>1, <2>7 DEF LanguageRead, Reads
  <2>8. CASE t = s /\ LanguageFlush(s)
    <3>1. CASE RowMoved(s)
      BY <1>2, <2>8, <3>1 DEF LanguageFlush, Ready
    <3>2. CASE ~RowMoved(s)
      BY <1>1, <2>8, <3>2 DEF LanguageFlush, Reads
    <3> QED
      BY <3>1, <3>2
  <2> QED
    BY <1>4, <2>1, <2>2, <2>3, <2>4, <2>5, <2>6, <2>7, <2>8
<1>5. ASSUME NEW d \in Admins,
             \/ \E a \in Apps, v \in Decisions : ReviewFind(d, a, v)
             \/ DeskContinues(d) \/ DeskFails(d)
      PROVE  chat' = chat
  BY <1>5 DEF ReviewFind, DeskContinues, ReviewDecide, ReviewNotify, DeskFails
<1>6. CASE Crash
  BY <1>6 DEF Crash, Settles, Ready, Idle
<1>7. CASE UNCHANGED vars
  BY <1>7 DEF vars
<1> QED
  BY <1>3, <1>4, <1>5, <1>6, <1>7 DEF Next, ChatContinues
-----------------------------------------------------------------------------
\* The rows a handler of s holds while it erases or edits.
Holding == Removing \cup {"loaded", "editing"}

\* Who can have which number: two players never have the same one, a handler
\* knows no number but that of its own account, and the number of an erased
\* application is not handed out again.
KeyInv ==
    /\ \A u, v \in Users : users[u].row = users[v].row /\ users[u].row # 0 => u = v
    /\ \A s \in Sessions :
          /\ chat[s].row <= nextRow
          /\ chat[s].pc \in Holding => chat[s].row # 0
          /\ chat[s].row # 0 => \A u \in Users : users[u].row = chat[s].row => u = UserOf[s]
    /\ \A a \in Apps : Status(a) = "unused" => apps[a].row = 0
    /\ \A a \in Apps : Status(a) = "erased" =>
          /\ apps[a].row # 0 /\ apps[a].row <= nextRow
          /\ \A u \in Users : users[u].row # apps[a].row

LEMMA KeyInit == Init => KeyInv
  BY DEF Init, KeyInv, Status, Blank, NoRow, Idle, Holding, Removing

LEMMA KeyStep == TypeInv /\ RowInv /\ KeyInv /\ [Next]_vars => KeyInv'
<1> SUFFICES ASSUME TypeInv, RowInv, KeyInv, [Next]_vars PROVE KeyInv'
  OBVIOUS
<1>1. /\ users \in [Users -> UserRow] /\ nextRow \in Nat /\ nextRow' \in Nat
      /\ chat \in [Sessions -> ChatRow] /\ apps \in [Apps -> AppRow]
  BY TypeStep DEF TypeInv, TypeOK, UserRow, ChatRow, AppRow
<1>2. /\ \A u \in Users : users[u].row \in Nat /\ users[u].row <= nextRow
      /\ \A s \in Sessions : chat[s].row \in Nat /\ chat[s].row <= nextRow
  BY <1>1 DEF RowInv, KeyInv, UserRow, ChatRow
<1>3. nextRow <= nextRow'
  <2>1. ASSUME NEW s \in Sessions, SubmitWrite(s) \/ LanguageWrite(s)
        PROVE  nextRow' \in {nextRow, nextRow + 1}
    BY <2>1 DEF SubmitWrite, LanguageWrite, EndWith
  <2>2. ASSUME NEW s \in Sessions, EditWrite(s) \/ WithdrawCommit(s)
        PROVE  nextRow' = nextRow
    BY <2>2 DEF EditWrite, EndWith, WithdrawCommit
  <2>3. ASSUME NEW d \in Admins, ReviewDecide(d) PROVE nextRow' = nextRow
    BY <2>3 DEF ReviewDecide
  <2> QED
    BY <1>1, <2>1, <2>2, <2>3, TableWriters
<1>4. \A u \in Users : \/ users'[u].row = users[u].row
                       \/ users'[u].row = 0
                       \/ users'[u].row = nextRow + 1
  BY UserRows
<1>5. \A u, v \in Users : users'[u].row = users'[v].row /\ users'[u].row # 0 => u = v
  BY <1>1, <1>2, UserRows DEF KeyInv
<1>6. ASSUME NEW s \in Sessions
      PROVE  /\ chat'[s].row <= nextRow'
             /\ chat'[s].pc \in Holding => chat'[s].row # 0
             /\ chat'[s].row # 0 =>
                  \A u \in Users : users'[u].row = chat'[s].row => u = UserOf[s]
  <2>1. CASE chat'[s] = chat[s]
    BY <1>1, <1>2, <1>3, <1>4, <2>1 DEF KeyInv
  <2>2. CASE Settles(s)
    BY <1>1, <2>2 DEF Settles, Ready, Holding, Removing
  <2>3. CASE Reads(s)
    <3> DEFINE me == users[UserOf[s]]
    <3>1. chat[s] \in ChatRow /\ Idle \in ChatRow /\ UserOf[s] \in Users
      BY <1>1, IdleType, SessionAssumption
    <3>2. \/ chat'[s].row = me.row /\ (chat'[s].pc \in Holding => me.row # 0)
          \/ chat'[s].row = chat[s].row /\ (chat'[s].pc \in Holding => chat[s].row # 0)
      <4>1. CASE /\ chat[s].pc = "counted"
                 /\ chat'[s] = [chat[s] EXCEPT !.pc = "known", !.row = me.row,
                                               !.loaded = me.contact]
        BY <3>1, <4>1 DEF ChatRow, Holding, Removing
      <4>2. CASE /\ chat[s].pc = "known"
                 /\ chat'[s] = [chat[s] EXCEPT !.pc = "checked"]
        BY <3>1, <4>2 DEF ChatRow, Holding, Removing
      <4>3. CASE /\ me.row # 0
                 /\ \E a \in Active(me.row), c \in Contacts \cup {NoContact} :
                       chat'[s] = [Idle EXCEPT !.pc = "editing", !.row = me.row,
                                     !.contact = c, !.loaded = me.contact,
                                     !.copy = apps[a].contact, !.app = a]
        BY <4>3 DEF Idle
      <4>4. CASE /\ me.row # 0
                 /\ chat'[s] = [Idle EXCEPT !.pc = "loaded", !.row = me.row,
                       !.seen = {l \in logs : l.linked /\ l.app \in OfRow(me.row)}]
        BY <4>4 DEF Idle
      <4>5. CASE /\ chat[s].pc \in {"loaded", "flushed"}
                 /\ \E pc \in Removing : chat'[s] = [chat[s] EXCEPT !.pc = pc]
        <5>1. chat'[s].row = chat[s].row
          BY <3>1, <4>5 DEF ChatRow
        <5>2. chat[s].row # 0
          BY <4>5 DEF KeyInv, Holding, Removing
        <5> QED
          BY <5>1, <5>2
      <4>6. CASE \/ chat'[s] = [Idle EXCEPT !.pc = "naming", !.row = me.row]
                 \/ chat'[s] = [chat[s] EXCEPT !.pc = "named"]
        BY <3>1, <4>6 DEF ChatRow, Idle, Holding, Removing
      <4> QED
        BY <2>3, <4>1, <4>2, <4>3, <4>4, <4>5, <4>6 DEF Reads
    <3>3. users' = users /\ nextRow' = nextRow
      BY <2>3 DEF Reads
    <3> QED
      BY <1>1, <1>2, <3>1, <3>2, <3>3 DEF KeyInv
  <2> QED
    BY <2>1, <2>2, <2>3, ChatSteps
<1>7. ASSUME NEW a \in Apps, Status(a)' = "unused" PROVE apps'[a].row = 0
  BY <1>7, StatusSteps, AppRows DEF KeyInv, Decisions, Stored
<1>8. ASSUME NEW a \in Apps, Status(a)' = "erased"
      PROVE  /\ apps'[a].row # 0 /\ apps'[a].row <= nextRow'
             /\ \A u \in Users : users'[u].row # apps'[a].row
  <2>1. apps'[a].row = apps[a].row /\ apps[a].row \in Nat
    BY <1>1, <1>8, AppRows DEF AppRow
  <2>2. CASE Status(a) = "erased"
    BY <1>1, <1>2, <1>3, <1>4, <2>1, <2>2 DEF KeyInv
  <2>3. ASSUME Stored(a), NEW s \in Sessions, WithdrawCommit(s), apps[a].row = chat[s].row
        PROVE  /\ apps'[a].row # 0 /\ apps'[a].row <= nextRow'
               /\ \A u \in Users : users'[u].row # apps'[a].row
    <3>1. chat[s].pc = "told"
      BY <2>3 DEF WithdrawCommit
    <3>2. chat[s].row # 0 /\ chat[s].row <= nextRow
      BY <3>1 DEF KeyInv, Holding, Removing
    <3>3. users' = IF RowMoved(s) THEN users ELSE [users EXCEPT ![UserOf[s]] = NoRow]
      BY <2>3 DEF WithdrawCommit
    <3>4. \A u \in Users : users'[u].row # chat[s].row
      BY <1>1, <3>2, <3>3 DEF KeyInv, RowMoved, NoRow
    <3> QED
      BY <1>1, <1>2, <1>3, <2>1, <2>3, <3>2, <3>4
  <2> QED
    BY <1>8, <2>2, <2>3, StatusSteps DEF Decisions
<1> QED
  BY <1>5, <1>6, <1>7, <1>8 DEF KeyInv
-----------------------------------------------------------------------------
\* What is read out of the logs table survives the writes of the others.
LEMMA OtherLog ==
  ASSUME NEW b \in Apps, NEW x,
         logs' = logs \cup {NewLog(b, "application_submitted", x)}
  PROVE  \A a \in Apps, v \in Decisions : DecidedBy(a, v)' = DecidedBy(a, v)
  BY DEF DecidedBy, NewLog, Decisions

LEMMA EditLog ==
  ASSUME NEW s, NEW rows \in EditLogRows(s), logs' = logs \cup rows
  PROVE  \A a \in Apps, v \in Decisions : DecidedBy(a, v)' = DecidedBy(a, v)
<1>1. \A l \in rows : l.kind \in EditKinds
  BY EditRowsAre
<1> QED
  BY <1>1 DEF DecidedBy, EditKinds, Decisions

\* The log rows a /withdraw has loaded are those of the player's applications.
SeenInv ==
    \A s \in Sessions : chat[s].pc \in Removing \cup {"loaded"} =>
        \A l \in chat[s].seen : apps[l.app].row = chat[s].row

\* AuditMatchesStatus, also for the applications that are not filed yet.
AuditInv ==
    /\ SeenInv
    /\ \A a \in Apps, v \in Decisions : Status(a) # "erased" =>
          Cardinality(DecidedBy(a, v)) = IF Status(a) = v THEN 1 ELSE 0

LEMMA AuditInit == Init => AuditInv
<1> SUFFICES ASSUME Init PROVE AuditInv
  OBVIOUS
<1>1. SeenInv
  BY DEF Init, SeenInv, Idle, Removing
<1>2. ASSUME NEW a \in Apps, NEW v \in Decisions
      PROVE  Cardinality(DecidedBy(a, v)) = IF Status(a) = v THEN 1 ELSE 0
  <2>1. DecidedBy(a, v) = {} /\ Status(a) = "unused"
    BY DEF Init, DecidedBy, Status, Blank
  <2> QED
    BY <2>1, FS_EmptySet DEF Decisions
<1> QED
  BY <1>1, <1>2 DEF AuditInv

\* The applications of a /withdraw under way keep their row.
LEMMA SeenStep == TypeInv /\ RowInv /\ KeyInv /\ SeenInv /\ [Next]_vars => SeenInv'
<1> SUFFICES ASSUME TypeInv, RowInv, KeyInv, SeenInv, [Next]_vars,
                    NEW s \in Sessions, chat'[s].pc \in Removing \cup {"loaded"},
                    NEW l \in chat'[s].seen
             PROVE  apps'[l.app].row = chat'[s].row
  BY DEF SeenInv
<1>1. chat[s] \in ChatRow /\ Idle \in ChatRow
  BY ChatAt, IdleType DEF TypeInv
<1>2. ASSUME chat[s].pc \in Removing \cup {"loaded"}, l \in chat[s].seen
      PROVE  apps'[l.app].row = chat[s].row
  <2>1. l.app \in Apps
    BY <1>1, <1>2 DEF ChatRow, LogRow
  <2>2. apps[l.app].row = chat[s].row /\ chat[s].row # 0
    BY <1>2 DEF SeenInv, KeyInv, Holding
  <2>3. Status(l.app) # "unused"
    BY <2>1, <2>2 DEF KeyInv
  <2> QED
    BY <2>1, <2>2, <2>3, AppRows
<1>3. CASE chat'[s] = chat[s]
  BY <1>2, <1>3
<1>4. CASE Settles(s)
  BY <1>4 DEF Settles, Ready, Removing
<1>5. CASE Reads(s)
  <2> DEFINE me == users[UserOf[s]]
  <2>1. CASE /\ chat[s].pc \in {"loaded", "flushed"}
             /\ \E pc \in Removing : chat'[s] = [chat[s] EXCEPT !.pc = pc]
    <3>1. chat'[s].seen = chat[s].seen /\ chat'[s].row = chat[s].row
      BY <1>1, <2>1 DEF ChatRow
    <3>2. chat[s].pc \in Removing \cup {"loaded"}
      BY <2>1 DEF Removing
    <3> QED
      BY <1>2, <3>1, <3>2
  <2>2. CASE /\ me.row # 0
             /\ chat'[s] = [Idle EXCEPT !.pc = "loaded", !.row = me.row,
                       !.seen = {m \in logs : m.linked /\ m.app \in OfRow(me.row)}]
    <3>1. l.app \in OfRow(me.row) /\ chat'[s].row = me.row
      BY <1>1, <2>2 DEF ChatRow, Idle
    <3>2. apps' = apps
      BY <1>5 DEF Reads
    <3> QED
      BY <3>1, <3>2 DEF OfRow
  <2>3. CASE \/ chat'[s] = [chat[s] EXCEPT !.pc = "known", !.row = me.row,
                                           !.loaded = me.contact]
             \/ chat'[s] = [chat[s] EXCEPT !.pc = "checked"]
             \/ \E a \in Active(me.row), c \in Contacts \cup {NoContact} :
                   chat'[s] = [Idle EXCEPT !.pc = "editing", !.row = me.row,
                                     !.contact = c, !.loaded = me.contact,
                                     !.copy = apps[a].contact, !.app = a]
             \/ chat'[s] = [Idle EXCEPT !.pc = "naming", !.row = me.row]
             \/ chat'[s] = [chat[s] EXCEPT !.pc = "named"]
    BY <1>1, <2>3 DEF ChatRow, Removing, Idle
  <2> QED
    BY <1>5, <2>1, <2>2, <2>3 DEF Reads
<1> QED
  BY <1>3, <1>4, <1>5, ChatSteps

LEMMA AuditStep == TypeInv /\ RowInv /\ KeyInv /\ AuditInv /\ [Next]_vars => AuditInv'
<1> SUFFICES ASSUME TypeInv, RowInv, KeyInv, AuditInv, [Next]_vars,
                    NEW a \in Apps, NEW v \in Decisions, Status(a)' # "erased"
             PROVE  Cardinality(DecidedBy(a, v))' = IF Status(a)' = v THEN 1 ELSE 0
  BY SeenStep DEF AuditInv
<1> DEFINE D == DecidedBy(a, v)
<1>0. /\ apps \in [Apps -> AppRow] /\ logs \subseteq LogRow \cup Marker
      /\ IsFiniteSet(logs)
  BY DEF TypeInv, TypeOK, AppRow, Aware
<1>1. /\ IsFiniteSet(D) /\ Status(a) # "erased"
      /\ Cardinality(D) = IF Status(a) = v THEN 1 ELSE 0
  <2>1. Status(a) # "erased"
    BY StatusSteps DEF Decisions
  <2>2. IsFiniteSet(D)
    BY <1>0, FS_Subset DEF DecidedBy
  <2> QED
    BY <2>1, <2>2 DEF AuditInv
<1>2. ASSUME DecidedBy(a, v)' = D,
             \/ Status(a)' = Status(a)
             \/ Status(a) = "unused" /\ Status(a)' = "pending_review"
      PROVE  Cardinality(DecidedBy(a, v))' = IF Status(a)' = v THEN 1 ELSE 0
  BY <1>1, <1>2 DEF Decisions
<1>3. ASSUME NEW s \in Sessions, SubmitWrite(s) PROVE DecidedBy(a, v)' = D
  <2>1. PICK b \in Unused : logs' = logs \cup {NewLog(b, "application_submitted", UserOf[s])}
    BY <1>3 DEF SubmitWrite
  <2> QED
    BY <2>1, OtherLog DEF Unused
<1>4. ASSUME NEW s \in Sessions, LanguageWrite(s) PROVE DecidedBy(a, v)' = D
  BY <1>4 DEF LanguageWrite, EndWith, DecidedBy
<1>5. ASSUME NEW s \in Sessions, EditWrite(s) PROVE DecidedBy(a, v)' = D
  <2>1. CASE logs' = logs
    BY <2>1 DEF DecidedBy
  <2>2. CASE \E rows \in EditLogRows(s) : logs' = logs \cup rows
    BY <2>2, EditLog
  <2> QED
    BY <1>5, <2>1, <2>2 DEF EditWrite, EndWith
<1>6. ASSUME NEW s \in Sessions, WithdrawCommit(s) PROVE DecidedBy(a, v)' = D
  <2> DEFINE gone == OfRow(chat[s].row)
  <2>1. /\ logs' = Unlinked(logs \ chat[s].seen, gone) \cup {Trace}
        /\ chat[s].pc = "told"
        /\ apps' = [b \in Apps |->
              IF b \in gone THEN [apps[b] EXCEPT !.status = "erased", !.contact = NoContact]
              ELSE apps[b]]
    BY <1>6 DEF WithdrawCommit
  <2>2. a \notin gone
    BY <1>0, <2>1 DEF Status, AppRow
  <2>3. \A l \in chat[s].seen : l.app # a
    <3>1. apps[a].row # chat[s].row
      <4>1. chat[s].row # 0
        BY <2>1 DEF KeyInv, Holding, Removing
      <4>2. CASE Stored(a)
        BY <2>2, <4>2 DEF OfRow
      <4>3. CASE Status(a) = "unused"
        BY <4>1, <4>3 DEF KeyInv
      <4> QED
        BY <1>0, <1>1, <4>2, <4>3 DEF Stored, Status, AppRow
    <3> QED
      BY <2>1, <3>1 DEF AuditInv, SeenInv, Removing
  <2>4. a # NoApp
    BY DistinctAssumption
  <2>5. \A l \in logs : [l EXCEPT !.linked = FALSE].app = l.app
    BY <1>0 DEF LogRow, Marker
  <2>6. \A l : l \in logs' /\ l.app = a <=> l \in logs /\ l.app = a
    <3>1. \A l : l \in logs' /\ l.app = a => l \in logs
      <4> SUFFICES ASSUME NEW l \in logs', l.app = a PROVE l \in logs
        OBVIOUS
      <4>1. l # Trace
        BY <2>4 DEF Trace
      <4>2. PICK m \in logs : l = IF m.app \in gone THEN [m EXCEPT !.linked = FALSE] ELSE m
        BY <2>1, <4>1 DEF Unlinked
      <4>3. m.app \notin gone
        BY <2>2, <2>5, <4>2
      <4> QED
        BY <4>2, <4>3
    <3>2. \A l : l \in logs /\ l.app = a => l \in logs'
      <4> SUFFICES ASSUME NEW l \in logs, l.app = a PROVE l \in logs'
        OBVIOUS
      <4>1. l \in logs \ chat[s].seen
        BY <2>3
      <4>2. l = IF l.app \in gone THEN [l EXCEPT !.linked = FALSE] ELSE l
        BY <2>2
      <4> QED
        BY <2>1, <4>1, <4>2 DEF Unlinked
    <3> QED
      BY <3>1, <3>2
  <2> QED
    BY <2>6 DEF DecidedBy
<1>7. ASSUME NEW d \in Admins, ReviewDecide(d), StillExpected(desk[d].app)
      PROVE  Cardinality(DecidedBy(a, v))' = IF Status(a)' = v THEN 1 ELSE 0
  <2> DEFINE b == desk[d].app
             w == desk[d].verdict
             k == IF w = "approved" THEN "status_approved" ELSE "status_rejected"
  <2>1. /\ b \in Apps /\ w \in Decisions
        /\ apps' = [apps EXCEPT ![b].status = w]
        /\ logs' = logs \cup {NewLog(b, k, d)}
        /\ Status(b) = "pending_review"
    BY <1>7 DEF ReviewDecide, TypeInv, Aware, TypeOK, StillExpected
  <2>2. CASE b = a /\ w = v
    <3>1. Status(a)' = v
      BY <1>0, <2>1, <2>2 DEF Status, AppRow
    <3>2. D = {}
      BY <1>1, <2>1, <2>2, FS_EmptySet DEF Decisions
    <3>3. DecidedBy(a, v)' = {NewLog(b, k, d)}
      BY <2>1, <2>2, <3>2 DEF DecidedBy, NewLog
    <3> QED
      BY <3>1, <3>3, FS_Singleton
  <2>3. CASE ~(b = a /\ w = v)
    <3>1. DecidedBy(a, v)' = D
      BY <2>1, <2>3 DEF DecidedBy, NewLog, Decisions
    <3>2. Status(a)' = v <=> Status(a) = v
      BY <1>0, <2>1, <2>3 DEF Status, AppRow, Decisions
    <3> QED
      BY <1>1, <3>1, <3>2
  <2> QED
    BY <2>2, <2>3
<1>8. CASE UNCHANGED <<users, apps, logs, nextRow>>
  BY <1>2, <1>8 DEF DecidedBy, Status
<1>9. ASSUME NEW s \in Sessions,
             SubmitWrite(s) \/ LanguageWrite(s) \/ EditWrite(s) \/ WithdrawCommit(s)
      PROVE  \/ Status(a)' = Status(a)
             \/ Status(a) = "unused" /\ Status(a)' = "pending_review"
  <2>1. ~(Status(a) = "pending_review" /\ Status(a)' \in Decisions)
    <3>1. chat' # chat
      <4>1. chat[s].pc \in {"checked", "named", "editing", "told"}
        BY <1>9 DEF SubmitWrite, LanguageWrite, EditWrite, WithdrawCommit
      <4>2. \E pc : chat' = [chat EXCEPT ![s] = [Idle EXCEPT !.pc = pc]] /\ pc = "idle"
        <5>1. [Idle EXCEPT !.pc = "idle"] = Idle
          BY DEF Idle
        <5> QED
          BY <1>9, <5>1 DEF SubmitWrite, LanguageWrite, EditWrite, WithdrawCommit, EndWith
      <4>3. chat'[s].pc = "idle"
        BY <4>2, ChatAt DEF TypeInv, Idle
      <4> QED
        BY <4>1, <4>3
    <3>2. \A d \in Admins : ~ReviewDecide(d)
      BY <3>1 DEF ReviewDecide
    <3> QED
      BY <3>2, StatusSteps DEF Decisions, Stored
  <2> QED
    BY <2>1, StatusSteps
<1> QED
  BY <1>2, <1>3, <1>4, <1>5, <1>6, <1>7, <1>8, <1>9, TableWriters

\* For every decided application the audit log has exactly the row of that
\* decision, whatever edits, taps and withdrawals ran at the same time.
THEOREM AuditAgrees == Spec => []AuditMatchesStatus
<1>1. Spec => [](TypeInv /\ RowInv /\ KeyInv /\ AuditInv)
  BY TypeInit, TypeStep, RowInit, RowStep, KeyInit, KeyStep, AuditInit, AuditStep, PTL
     DEF Spec
<1>2. AuditInv => AuditMatchesStatus
  BY DEF AuditInv, AuditMatchesStatus, Stored, Decisions
<1> QED
  BY <1>1, <1>2, PTL
-----------------------------------------------------------------------------
\* The refinement of ApplicationLifecycle: what a step of the tables is there.
LEMMA MapsInit == Init => Lifecycle!LifeInit
  BY DEF Init, Lifecycle!LifeInit, Status, Blank

\* A submit files: its owner has no other application that is not rejected.
LEMMA MapsFile ==
  ASSUME TypeInv, RowInv, KeyInv, NEW s \in Sessions, SubmitWrite(s)
  PROVE  \E a \in Apps : Lifecycle!File(a)
<1> DEFINE u == UserOf[s]
           c == chat[s].contact
           r == IF chat[s].row = 0 THEN nextRow + 1 ELSE chat[s].row
<1>1. PICK a \in Unused : apps' =
         [apps EXCEPT ![a] = [status |-> "pending_review", row |-> r, contact |-> c]]
  BY DEF SubmitWrite
<1>2. /\ a \in Apps /\ Status(a) = "unused" /\ apps \in [Apps -> AppRow]
      /\ nextRow \in Nat /\ chat[s].row \in Nat /\ u \in Users
  BY ChatAt, SessionAssumption DEF Unused, TypeInv, TypeOK, AppRow, ChatRow
<1>3. /\ users[u].row = chat[s].row
      /\ chat[s].row # 0 => \A b \in Apps : Live(b) => apps[b].row # r
  BY DEF SubmitWrite, Violates, RowMoved, Active, OfRow, Live
<1>4. ASSUME NEW b \in Apps, apps[b].row = r PROVE Status(b) = "rejected"
  <2>1. r # 0
    BY <1>2
  <2>2. Status(b) # "unused"
    BY <1>4, <2>1 DEF KeyInv
  <2>3. CASE chat[s].row = 0
    <3>1. ~(apps[b].row <= nextRow)
      BY <1>2, <1>4, <2>3
    <3> QED
      BY <1>2, <2>2, <3>1 DEF RowInv, KeyInv, Stored, Status, AppRow
  <2>4. CASE chat[s].row # 0
    <3>1. Status(b) # "erased"
      BY <1>2, <1>3, <1>4, <2>4 DEF KeyInv
    <3> QED
      BY <1>2, <1>3, <1>4, <2>2, <2>4, <3>1 DEF Live, Stored, Status, AppRow
  <2> QED
    BY <2>3, <2>4
<1>5. /\ [b \in Apps |-> apps[b].row]' = [[b \in Apps |-> apps[b].row] EXCEPT ![a] = r]
      /\ [b \in Apps |-> Status(b)]' = [[b \in Apps |-> Status(b)] EXCEPT ![a] = "pending_review"]
      /\ [b \in Apps |-> apps[b].row]'[a] = r
  BY <1>1, <1>2 DEF Status
<1>6. r \in Nat \ {0} /\ notices' = notices
  BY <1>2 DEF SubmitWrite
<1>7. \A b \in Apps : [x \in Apps |-> apps[x].row][b] = r
                         => [x \in Apps |-> Status(x)][b] = "rejected"
  BY <1>4
<1>8. [x \in Apps |-> Status(x)][a] = "unused"
  BY <1>2
<1> HIDE DEF r
<1>9. Lifecycle!File(a)
  BY <1>5, <1>6, <1>7, <1>8 DEF Lifecycle!File
<1> QED
  BY <1>2, <1>9

\* A withdrawal erases all the applications of an owner, if there are any.
LEMMA MapsErase ==
  ASSUME TypeInv, RowInv, KeyInv, NEW s \in Sessions, WithdrawCommit(s)
  PROVE  (\E a \in Apps : Lifecycle!Erase(a)) \/ UNCHANGED Lifecycle!lifeVars
<1> DEFINE gone == OfRow(chat[s].row)
<1>1. /\ apps' = [b \in Apps |->
            IF b \in gone THEN [apps[b] EXCEPT !.status = "erased", !.contact = NoContact]
            ELSE apps[b]]
      /\ notices' = notices
  BY DEF WithdrawCommit
<1>2. apps \in [Apps -> AppRow]
  BY DEF TypeInv, TypeOK, AppRow
<1>3. /\ \A b \in Apps : apps'[b].row = apps[b].row
      /\ \A b \in Apps : Status(b)' = IF b \in gone THEN "erased" ELSE Status(b)
  BY <1>1, <1>2 DEF Status, AppRow
<1>4. [b \in Apps |-> apps[b].row]' = [b \in Apps |-> apps[b].row]
  BY <1>3
<1>5. CASE gone = {}
  <2>1. [b \in Apps |-> Status(b)]' = [b \in Apps |-> Status(b)]
    BY <1>3, <1>5
  <2> QED
    BY <1>1, <1>4, <2>1 DEF Lifecycle!lifeVars
<1>6. CASE gone # {}
  <2>1. PICK a \in Apps : Stored(a) /\ apps[a].row = chat[s].row
    BY <1>6 DEF OfRow
  <2>2. apps[a].row \in Nat \ {0}
    BY <1>2, <2>1 DEF RowInv, AppRow
  <2>3. \A b \in Apps : Status(b)' = IF apps[b].row = apps[a].row THEN "erased" ELSE Status(b)
    <3> SUFFICES ASSUME NEW b \in Apps
                 PROVE  Status(b)' = IF apps[b].row = apps[a].row THEN "erased" ELSE Status(b)
      OBVIOUS
    <3>1. CASE b \in gone
      BY <1>3, <2>1, <3>1 DEF OfRow
    <3>2. CASE b \notin gone
      <4>1. apps[b].row = apps[a].row => Status(b) = "erased"
        BY <1>2, <2>1, <2>2, <3>2 DEF OfRow, KeyInv, Stored, Status, AppRow
      <4> QED
        BY <1>3, <3>2, <4>1
    <3> QED
      BY <3>1, <3>2
  <2>4. Lifecycle!Erase(a)
    BY <1>1, <1>4, <2>2, <2>3 DEF Lifecycle!Erase
  <2> QED
    BY <2>4
<1> QED
  BY <1>5, <1>6

\* The conditional UPDATE of a review decides.
LEMMA MapsDecide ==
  ASSUME TypeInv, NEW d \in Admins, ReviewDecide(d), StillExpected(desk[d].app)
  PROVE  \E a \in Apps, v \in Decisions : Lifecycle!Decide(a, v)
<1> DEFINE a == desk[d].app
           v == desk[d].verdict
<1>1. /\ a \in Apps /\ v \in Decisions /\ apps \in [Apps -> AppRow]
      /\ apps' = [apps EXCEPT ![a].status = v] /\ notices' = notices
  BY DEF ReviewDecide, TypeInv, Aware, TypeOK, AppRow
<1>2. Status(a) = "pending_review"
  BY DEF StillExpected
<1>3. /\ [b \in Apps |-> apps[b].row]' = [b \in Apps |-> apps[b].row]
      /\ [b \in Apps |-> Status(b)]' = [[b \in Apps |-> Status(b)] EXCEPT ![a] = v]
  BY <1>1 DEF Status, AppRow
<1> QED
  BY <1>1, <1>2, <1>3 DEF Lifecycle!Decide

\* A notice that goes out is the first one, of a decision that was taken.
LEMMA MapsNotify ==
  ASSUME TypeInv, OneNoticeAfterCommit, NEW d \in Admins, ReviewNotify(d)
  PROVE  (\E a \in Apps : Lifecycle!Notify(a)) \/ UNCHANGED Lifecycle!lifeVars
<1> DEFINE a == desk[d].app
<1>1. PICK sent \in {0, 1} : notices' = [notices EXCEPT ![a] = @ + sent]
  BY DEF ReviewNotify
<1>2. /\ a \in Apps /\ notices \in [Apps -> Nat] /\ desk[d].pc = "decided"
      /\ apps' = apps
  BY DEF ReviewNotify, TypeInv, Aware, TypeOK
<1>3. /\ [b \in Apps |-> apps[b].row]' = [b \in Apps |-> apps[b].row]
      /\ [b \in Apps |-> Status(b)]' = [b \in Apps |-> Status(b)]
  BY <1>2 DEF Status
<1>4. CASE sent = 0
  <2>1. notices' = notices
    BY <1>1, <1>2, <1>4
  <2> QED
    BY <1>3, <2>1 DEF Lifecycle!lifeVars
<1>5. CASE sent = 1
  <2>1. d \in Notifying(a) /\ Notifying(a) \in SUBSET Admins
    BY <1>2 DEF Notifying
  <2>2. Cardinality(Notifying(a)) \in Nat \ {0}
    BY <2>1, AdminsCounted, FS_EmptySet
  <2>3. notices[a] = 0 /\ Status(a) \in {"approved", "rejected", "erased"}
    BY <1>2, <2>2 DEF OneNoticeAfterCommit
  <2>4. notices' = [notices EXCEPT ![a] = 1]
    BY <1>1, <1>2, <1>5, <2>3
  <2>5. Lifecycle!Notify(a)
    BY <1>2, <1>3, <2>3, <2>4 DEF Lifecycle!Notify
  <2> QED
    BY <1>2, <2>5
<1> QED
  BY <1>4, <1>5

LEMMA MapsStep ==
  TypeInv /\ RowInv /\ KeyInv /\ OneNoticeAfterCommit /\ [Next]_vars
      => [Lifecycle!LifeNext]_(Lifecycle!lifeVars)
<1> SUFFICES ASSUME TypeInv, RowInv, KeyInv, OneNoticeAfterCommit, [Next]_vars
             PROVE  Lifecycle!LifeNext \/ UNCHANGED Lifecycle!lifeVars
  OBVIOUS
<1> DEFINE Mapped == Lifecycle!LifeNext \/ UNCHANGED Lifecycle!lifeVars
<1>1. ASSUME NEW s \in Sessions, SubmitWrite(s) PROVE Mapped
  BY <1>1, MapsFile DEF Lifecycle!LifeNext
<1>2. ASSUME NEW s \in Sessions, WithdrawCommit(s) PROVE Mapped
  BY <1>2, MapsErase DEF Lifecycle!LifeNext
<1>3. ASSUME NEW d \in Admins, ReviewDecide(d), StillExpected(desk[d].app) PROVE Mapped
  BY <1>3, MapsDecide DEF Lifecycle!LifeNext, Decisions
<1>4. ASSUME NEW d \in Admins, ReviewNotify(d) PROVE Mapped
  BY <1>4, MapsNotify DEF Lifecycle!LifeNext
<1>5. ASSUME notices' = notices,
             \A a \in Apps : Status(a)' = Status(a) /\ apps'[a].row = apps[a].row
      PROVE  Mapped
  <2>1. /\ [b \in Apps |-> apps[b].row]' = [b \in Apps |-> apps[b].row]
        /\ [b \in Apps |-> Status(b)]' = [b \in Apps |-> Status(b)]
    BY <1>5
  <2> QED
    BY <1>5, <2>1 DEF Lifecycle!lifeVars
<1>6. ASSUME ~\E s \in Sessions : SubmitWrite(s) \/ WithdrawCommit(s),
             ~\E d \in Admins : ReviewDecide(d) /\ StillExpected(desk[d].app)
      PROVE  \A a \in Apps : Status(a)' = Status(a) /\ apps'[a].row = apps[a].row
  <2>1. apps \in [Apps -> AppRow]
    BY DEF TypeInv, TypeOK, AppRow
  <2>2. ASSUME NEW s \in Sessions, LanguageWrite(s) \/ EditWrite(s)
        PROVE  \A a \in Apps : Status(a)' = Status(a) /\ apps'[a].row = apps[a].row
    BY <2>1, <2>2 DEF LanguageWrite, EditWrite, EndWith, Status, AppRow
  <2>3. CASE UNCHANGED <<users, apps, logs, nextRow>>
    BY <2>3 DEF Status
  <2> QED
    BY <1>6, <2>2, <2>3, TableWriters
<1> QED
  BY <1>1, <1>2, <1>3, <1>4, <1>5, <1>6, DeskSteps

\* The bot keeps the promise of ApplicationLifecycle, for any number of players,
\* chats, admins and applications: every step of the handlers files, decides,
\* notifies or erases as promised there, or changes nothing of it.
THEOREM Refines == Spec => ImplementsLifecycle
<1>1. Spec => [](TypeInv /\ RowInv /\ KeyInv /\ OneNoticeAfterCommit)
  BY TypeInit, TypeStep, RowInit, RowStep, KeyInit, KeyStep, NoticeInit, NoticeStep, PTL
     DEF Spec
<1>2. Init => Lifecycle!LifeInit
  BY MapsInit
<1>3. TypeInv /\ RowInv /\ KeyInv /\ OneNoticeAfterCommit /\ [Next]_vars
        => [Lifecycle!LifeNext]_(Lifecycle!lifeVars)
  BY MapsStep
<1> QED
  BY <1>1, <1>2, <1>3, PTL DEF Spec, ImplementsLifecycle, Lifecycle!LifeSpec
-----------------------------------------------------------------------------
\* What a log row is about was filed, and ON DELETE SET NULL has cleared no
\* reference to an application that is still there.
LogInv ==
    /\ \A l \in logs : l.kind # "data_erased" =>
          Status(l.app) # "unused" /\ (Stored(l.app) => l.linked)
    /\ \A s \in Sessions : chat[s].pc = "editing" => Status(chat[s].app) # "unused"

LEMMA LogInit == Init => LogInv
  BY DEF Init, LogInv, Idle

\* A log row about an application has the type of one.
LEMMA LogAt ==
  ASSUME TypeInv, NEW l \in logs, l.kind # "data_erased"
  PROVE  l \in LogRow /\ l.app \in Apps /\ l.app # NoApp
  BY DistinctAssumption DEF TypeInv, TypeOK, LogRow, Marker

\* What /withdraw leaves of the logs.
LEMMA SweptLog ==
  ASSUME TypeInv, NEW s \in Sessions, WithdrawCommit(s), NEW l \in logs',
         l.kind # "data_erased"
  PROVE  \E m \in logs \ chat[s].seen :
            /\ m.kind = l.kind /\ m.app = l.app /\ m.actor = l.actor
            /\ m.app \notin OfRow(chat[s].row) => l = m
<1> DEFINE gone == OfRow(chat[s].row)
<1>1. logs' = Unlinked(logs \ chat[s].seen, gone) \cup {Trace}
  BY DEF WithdrawCommit
<1>2. PICK m \in logs \ chat[s].seen :
         l = IF m.app \in gone THEN [m EXCEPT !.linked = FALSE] ELSE m
  BY <1>1 DEF Unlinked, Trace
<1>3. m \in LogRow \cup Marker
  BY DEF TypeInv, TypeOK
<1>4. m.kind = l.kind /\ m.app = l.app /\ m.actor = l.actor
  BY <1>2, <1>3 DEF LogRow, Marker
<1> QED
  BY <1>2, <1>4

LEMMA LogStep == TypeInv /\ LogInv /\ [Next]_vars => LogInv'
<1> SUFFICES ASSUME TypeInv, LogInv, [Next]_vars PROVE LogInv'
  OBVIOUS
<1>1. apps \in [Apps -> AppRow]
  BY DEF TypeInv, TypeOK, AppRow
<1>2. ASSUME NEW a \in Apps, Status(a) # "unused" PROVE Status(a)' # "unused"
  BY <1>2, StatusSteps DEF Decisions
<1>3. ASSUME NEW a \in Apps, Status(a) # "unused", Stored(a)' PROVE Stored(a)
  BY <1>3, StatusSteps DEF Stored, Decisions
<1>4. ASSUME NEW s \in Sessions, chat'[s].pc = "editing", NEW b, b = chat'[s].app
      PROVE  Status(b)' # "unused"
  <2>1. CASE chat'[s] = chat[s]
    <3>1. chat[s].app \in Apps /\ Status(chat[s].app) # "unused"
      BY <1>4, <2>1 DEF LogInv, TypeInv, Aware
    <3>2. b = chat[s].app
      BY <1>4, <2>1
    <3> QED
      BY <1>2, <3>1, <3>2
  <2>2. CASE Settles(s)
    BY <1>4, <2>2 DEF Settles, Ready
  <2>3. CASE Reads(s)
    <3>1. chat[s] \in ChatRow
      BY ChatAt DEF TypeInv
    <3>2. PICK a \in Active(users[UserOf[s]].row) : b = a
      BY <1>4, <2>3, <3>1 DEF Reads, ChatRow, Idle, Removing
    <3>3. a \in Apps /\ Status(a) # "unused"
      BY DEF Active, OfRow, Stored, Decisions
    <3> QED
      BY <1>2, <3>2, <3>3
  <2> QED
    BY <2>1, <2>2, <2>3, ChatSteps
<1>5. ASSUME NEW l \in logs', l.kind # "data_erased", l \in logs
      PROVE  Status(l.app)' # "unused" /\ (Stored(l.app)' => l.linked)
  <2>1. l.app \in Apps /\ Status(l.app) # "unused" /\ (Stored(l.app) => l.linked)
    BY <1>5, LogAt DEF LogInv
  <2> QED
    BY <1>2, <1>3, <2>1
<1>6. ASSUME NEW l \in logs', l.kind # "data_erased", l \notin logs
      PROVE  Status(l.app)' # "unused" /\ (Stored(l.app)' => l.linked)
  <2>1. ASSUME NEW s \in Sessions, SubmitWrite(s)
        PROVE  Status(l.app)' # "unused" /\ l.linked
    <3>1. PICK a \in Unused :
             /\ \E r, c : apps' =
                  [apps EXCEPT ![a] = [status |-> "pending_review", row |-> r, contact |-> c]]
             /\ logs' = logs \cup {NewLog(a, "application_submitted", UserOf[s])}
      BY <2>1 DEF SubmitWrite
    <3>2. l.app = a /\ l.linked
      BY <1>6, <3>1 DEF NewLog
    <3> QED
      BY <1>1, <3>1, <3>2 DEF Unused, Status
  <2>2. ASSUME NEW s \in Sessions, EditWrite(s)
        PROVE  Status(l.app)' # "unused" /\ l.linked
    <3>1. l.app = chat[s].app /\ l.linked
      BY <1>6, <2>2, EditRowsAre DEF EditWrite, EndWith
    <3>2. chat[s].app \in Apps /\ Status(chat[s].app) # "unused"
      BY <2>2 DEF EditWrite, LogInv, TypeInv, Aware
    <3> QED
      BY <1>2, <3>1, <3>2
  <2>3. ASSUME NEW d \in Admins, ReviewDecide(d), StillExpected(desk[d].app)
        PROVE  Status(l.app)' # "unused" /\ l.linked
    <3>1. l.app = desk[d].app /\ l.linked
      BY <1>6, <2>3 DEF ReviewDecide, NewLog
    <3>2. desk[d].app \in Apps /\ Status(desk[d].app) # "unused"
      BY <2>3 DEF ReviewDecide, StillExpected, TypeInv, Aware
    <3> QED
      BY <1>2, <3>1, <3>2
  <2>4. ASSUME NEW s \in Sessions, WithdrawCommit(s)
        PROVE  Status(l.app)' # "unused" /\ ~Stored(l.app)'
    <3>1. PICK m \in logs : /\ m.kind = l.kind /\ m.app = l.app
                            /\ m.app \notin OfRow(chat[s].row) => l = m
      BY <1>6, <2>4, SweptLog
    <3>2. m.app \in Apps /\ Status(m.app) # "unused" /\ m.app \in OfRow(chat[s].row)
      BY <1>6, <3>1, LogAt DEF LogInv
    <3>3. Status(m.app)' = "erased"
      BY <1>1, <2>4, <3>2 DEF WithdrawCommit, Status, AppRow
    <3> QED
      BY <1>2, <3>1, <3>2, <3>3 DEF Stored, Decisions
  <2>5. CASE logs' = logs
    BY <1>6, <2>5
  <2>6. ASSUME NEW s \in Sessions, LanguageWrite(s) PROVE logs' = logs
    BY <2>6 DEF LanguageWrite, EndWith
  <2> QED
    BY <2>1, <2>2, <2>3, <2>4, <2>5, <2>6, TableWriters
<1>7. ASSUME NEW s \in Sessions, chat'[s].pc = "editing"
      PROVE  apps'[chat'[s].app].status # "unused"
  BY <1>4, <1>7 DEF Status
<1> QED
  BY <1>5, <1>6, <1>7 DEF LogInv, Status, Stored
-----------------------------------------------------------------------------
\* From here on each player uses one chat, as SnapshotInSync, NoPlayerLogStays
\* and ContactFixMeansTaken ask for.
OneChatEach == \A s, t \in Sessions : UserOf[s] = UserOf[t] => s = t

Reading == {"known", "checked", "editing"}
PlayerLog(l) == l.kind # "data_erased" /\ l.actor \notin Admins

\* What the handler of s has read is still so.
UpToDate(s) ==
    LET me == users[UserOf[s]]
        my == chat[s]
    IN  /\ my.pc \in Reading \cup Holding => my.row = me.row
        /\ my.pc \in Reading => my.loaded = me.contact
        /\ my.pc = "checked" => Active(my.row) = {}
        /\ my.pc = "editing" =>
              /\ Active(my.row) \subseteq {my.app}
              /\ Stored(my.app) /\ apps[my.app].row = my.row
              /\ my.copy = apps[my.app].contact
        /\ my.pc \in Filing => my.contact \in Contacts
        /\ my.pc \in Removing \cup {"loaded"} =>
              \A l \in logs : PlayerLog(l) /\ l.app \in OfRow(my.row) => l \in my.seen

SoloInv == \A s \in Sessions : UpToDate(s)

LEMMA SoloInit == Init => SoloInv
  BY DEF Init, SoloInv, UpToDate, Idle, Reading, Holding, Removing, Filing

\* The handler that writes the tables ends.
LEMMA WriterEnds ==
  ASSUME TypeInv, NEW s \in Sessions,
         \/ SubmitWrite(s) \/ LanguageWrite(s) \/ EditWrite(s) \/ WithdrawCommit(s)
  PROVE  chat'[s].pc = "idle"
<1>1. [Idle EXCEPT !.pc = "idle"] = Idle /\ Idle.pc = "idle"
  BY DEF Idle
<1>2. chat' = [chat EXCEPT ![s] = Idle]
  BY <1>1 DEF SubmitWrite, LanguageWrite, EditWrite, WithdrawCommit, EndWith
<1> QED
  BY <1>1, <1>2, ChatAt DEF TypeInv
-----------------------------------------------------------------------------
Writes(s) == SubmitWrite(s) \/ LanguageWrite(s) \/ EditWrite(s) \/ WithdrawCommit(s)

\* What a submit leaves in the tables.
LEMMA Submitted ==
  ASSUME TypeInv, NEW s \in Sessions, SubmitWrite(s)
  PROVE  LET u == UserOf[s]
             c == chat[s].contact
             r == IF chat[s].row = 0 THEN nextRow + 1 ELSE chat[s].row
         IN  /\ users[u].row = chat[s].row
             /\ chat[s].row # 0 => Active(chat[s].row) = {}
             /\ chat[s].pc = "checked"
             /\ users'[u].row = r
             /\ users'[u].contact = IF WritesContact(s) THEN c ELSE users[u].contact
             /\ \A v \in Users \ {u} : users'[v] = users[v]
             /\ \E a \in Unused :
                   /\ apps'[a] = [status |-> "pending_review", row |-> r, contact |-> c]
                   /\ \A b \in Apps \ {a} : apps'[b] = apps[b]
                   /\ logs' = logs \cup {NewLog(a, "application_submitted", u)}
<1>1. users \in [Users -> UserRow] /\ apps \in [Apps -> AppRow] /\ UserOf[s] \in Users
  BY SessionAssumption DEF TypeInv, TypeOK, UserRow, AppRow
<1>2. /\ users[UserOf[s]].row = chat[s].row /\ chat[s].pc = "checked"
      /\ chat[s].row # 0 => Active(chat[s].row) = {}
  BY DEF SubmitWrite, Violates, RowMoved
<1>3. Unused \subseteq Apps
  BY DEF Unused
<1> QED
  BY <1>1, <1>2, <1>3 DEF SubmitWrite

\* A step in which no chat of a player writes leaves the player's row, the
\* applications with it and the log rows about them alone, an admin's decision
\* apart.
LEMMA OthersKeep ==
  ASSUME TypeInv, RowInv, RowInv', KeyInv, SoloInv, [Next]_vars,
         NEW u \in Users, \A t \in Sessions : UserOf[t] = u => ~Writes(t),
         NEW r, r = users[u].row
  PROVE  /\ users'[u] = users[u]
         /\ OfRow(r)' = OfRow(r)
         /\ Active(r)' \subseteq Active(r)
         /\ \A a \in OfRow(r) : apps'[a].contact = apps[a].contact
         /\ \A l \in logs' : PlayerLog(l) /\ l.app \in OfRow(r) => l \in logs
<1> DEFINE Kept ==
      /\ users'[u] = users[u]
      /\ OfRow(r)' = OfRow(r)
      /\ Active(r)' \subseteq Active(r)
      /\ \A a \in OfRow(r) : apps'[a].contact = apps[a].contact
      /\ \A l \in logs' : PlayerLog(l) /\ l.app \in OfRow(r) => l \in logs
<1>1. /\ users \in [Users -> UserRow] /\ apps \in [Apps -> AppRow]
      /\ chat \in [Sessions -> ChatRow] /\ nextRow \in Nat
  BY ChatAt DEF TypeInv, TypeOK, UserRow, AppRow
<1>2. r \in Nat /\ r <= nextRow
  BY <1>1 DEF RowInv, UserRow
<1>3. ASSUME NEW t \in Sessions, UserOf[t] # u, chat[t].row # 0 PROVE chat[t].row # r
  BY <1>3 DEF KeyInv
<1>4. ASSUME \A a \in Apps : apps'[a] = apps[a]
      PROVE  /\ OfRow(r)' = OfRow(r) /\ Active(r)' = Active(r)
             /\ \A a \in OfRow(r) : apps'[a].contact = apps[a].contact
  BY <1>4 DEF Active, OfRow, Stored, Status
<1>5. ASSUME NEW t \in Sessions, SubmitWrite(t) PROVE Kept
  <2> DEFINE n == IF chat[t].row = 0 THEN nextRow + 1 ELSE chat[t].row
  <2>1. UserOf[t] # u /\ users'[u] = users[u]
    BY <1>5, Submitted DEF Writes
  <2>2. PICK a \in Unused :
           /\ apps'[a] = [status |-> "pending_review", row |-> n, contact |-> chat[t].contact]
           /\ \A b \in Apps \ {a} : apps'[b] = apps[b]
           /\ logs' = logs \cup {NewLog(a, "application_submitted", UserOf[t])}
    BY <1>5, Submitted
  <2>3. n # r
    BY <1>1, <1>2, <1>3, <2>1
  <2>4. a \in Apps /\ ~Stored(a)
    BY DEF Unused, Stored, Decisions
  <2>5. OfRow(r)' = OfRow(r) /\ Active(r)' = Active(r)
    BY <2>2, <2>3, <2>4 DEF OfRow, Active, Stored, Status
  <2>6. \A b \in OfRow(r) : b # a /\ apps'[b] = apps[b]
    BY <2>2, <2>4 DEF OfRow
  <2>7. \A l \in logs' : PlayerLog(l) /\ l.app \in OfRow(r) => l \in logs
    BY <2>2, <2>6 DEF NewLog
  <2> QED
    BY <2>1, <2>5, <2>6, <2>7
<1>6. ASSUME NEW t \in Sessions, LanguageWrite(t) PROVE Kept
  <2>1. UserOf[t] # u /\ UserOf[t] \in Users
    BY <1>6, SessionAssumption DEF Writes
  <2>2. users'[u] = users[u] /\ apps' = apps /\ logs' = logs
    BY <1>1, <1>6, <2>1 DEF LanguageWrite, EndWith
  <2> QED
    BY <1>4, <2>2
<1>7. ASSUME NEW t \in Sessions, EditWrite(t) PROVE Kept
  <2> DEFINE b == chat[t].app
  <2>1. UserOf[t] # u /\ chat[t].pc = "editing" /\ b \in Apps
    BY <1>7 DEF Writes, EditWrite, TypeInv, Aware
  <2>2. Stored(b) /\ apps[b].row = chat[t].row /\ chat[t].row # 0
    BY <2>1 DEF SoloInv, UpToDate, KeyInv, Holding
  <2>3. b \notin OfRow(r)
    BY <1>3, <2>1, <2>2 DEF OfRow
  <2>4. users'[u] = users[u]
    BY <1>1, <1>7, <2>1 DEF EditWrite, EndWith
  <2>5. \A a \in Apps : /\ apps'[a].status = apps[a].status /\ apps'[a].row = apps[a].row
                        /\ a # b => apps'[a] = apps[a]
    BY <1>1, <1>7, <2>1 DEF EditWrite, EndWith, AppRow
  <2>6. OfRow(r)' = OfRow(r) /\ Active(r)' = Active(r)
    BY <2>5 DEF OfRow, Active, Stored, Status
  <2>7. \A a \in OfRow(r) : apps'[a].contact = apps[a].contact
    BY <2>3, <2>5 DEF OfRow
  <2>8. \A l \in logs' : l \in logs \/ l.app = b
    BY <1>7, EditRowsAre DEF EditWrite, EndWith
  <2> QED
    BY <2>3, <2>4, <2>6, <2>7, <2>8
<1>8. ASSUME NEW t \in Sessions, WithdrawCommit(t) PROVE Kept
  <2>1. UserOf[t] # u /\ UserOf[t] \in Users /\ chat[t].pc = "told"
    BY <1>8, SessionAssumption DEF Writes, WithdrawCommit
  <2>2. chat[t].row # r
    BY <1>3, <2>1 DEF KeyInv, Holding, Removing
  <2>3. users'[u] = users[u]
    BY <1>1, <1>8, <2>1 DEF WithdrawCommit
  <2>4. \A a \in Apps : /\ apps'[a].row = apps[a].row
                        /\ apps[a].row = r => apps'[a] = apps[a]
    BY <1>1, <1>8, <2>2 DEF WithdrawCommit, OfRow, AppRow
  <2>5. OfRow(r)' = OfRow(r) /\ Active(r)' = Active(r)
    BY <2>4 DEF OfRow, Active, Stored, Status
  <2>6. \A a \in OfRow(r) : apps'[a].contact = apps[a].contact /\ a \notin OfRow(chat[t].row)
    BY <2>2, <2>4 DEF OfRow
  <2>7. ASSUME NEW l \in logs', PlayerLog(l), l.app \in OfRow(r) PROVE l \in logs
    <3>1. PICK m \in logs : m.app = l.app /\ (m.app \notin OfRow(chat[t].row) => l = m)
      BY <1>8, <2>7, SweptLog DEF PlayerLog
    <3> QED
      BY <2>6, <2>7, <3>1
  <2> QED
    BY <2>3, <2>5, <2>6, <2>7
<1>9. ASSUME NEW d \in Admins, ReviewDecide(d), StillExpected(desk[d].app) PROVE Kept
  <2> DEFINE b == desk[d].app
  <2>1. b \in Apps
    BY <1>9 DEF ReviewDecide, TypeInv, Aware
  <2>2. Status(b) = "pending_review" /\ desk[d].verdict \in Decisions
    BY <1>9, DeskAt DEF StillExpected, TypeInv, DeskRow
  <2>3. users' = users
    BY <1>9 DEF ReviewDecide
  <2>4. \A a \in Apps : /\ apps'[a].row = apps[a].row /\ apps'[a].contact = apps[a].contact
                        /\ a # b => apps'[a] = apps[a]
    BY <1>1, <1>9, <2>1 DEF ReviewDecide, AppRow
  <2>5. apps'[b].status \in Decisions
    BY <1>1, <1>9, <2>1, <2>2 DEF ReviewDecide, Status, AppRow
  <2>6. OfRow(r)' = OfRow(r) /\ Active(r)' \subseteq Active(r)
    BY <2>2, <2>4, <2>5 DEF OfRow, Active, Stored, Status, Decisions
  <2>7. \A a \in OfRow(r) : apps'[a].contact = apps[a].contact
    BY <2>4 DEF OfRow
  <2>8. \A l \in logs' : l \in logs \/ l.actor \in Admins
    BY <1>9 DEF ReviewDecide, NewLog
  <2> QED
    BY <2>3, <2>6, <2>7, <2>8 DEF PlayerLog
<1>10. CASE UNCHANGED <<users, apps, logs, nextRow>>
  BY <1>4, <1>10
<1>11. Kept
  BY <1>5, <1>6, <1>7, <1>8, <1>9, <1>10, TableWriters
<1> QED
  BY <1>11

\* With one chat each, what a handler of s has read stays so until it ends.
LEMMA SoloStep ==
  ASSUME OneChatEach, TypeInv, RowInv, RowInv', KeyInv, LogInv, SoloInv, [Next]_vars
  PROVE  SoloInv'
<1> SUFFICES ASSUME NEW s \in Sessions PROVE UpToDate(s)'
  BY DEF SoloInv
<1> DEFINE u == UserOf[s]
<1>1. /\ users \in [Users -> UserRow] /\ u \in Users
      /\ chat[s] \in ChatRow /\ apps \in [Apps -> AppRow]
  BY ChatAt, SessionAssumption DEF TypeInv, TypeOK, UserRow, AppRow
<1>2. CASE chat'[s] = chat[s] /\ chat[s].pc \in Reading \cup Holding
  <2>1. PICK r : r = users[u].row /\ chat[s].row = r
    BY <1>2 DEF SoloInv, UpToDate
  <2>2. \A t \in Sessions : UserOf[t] = u => ~Writes(t)
    BY <1>2, WriterEnds DEF Writes, OneChatEach, Reading, Holding, Removing
  <2>3. /\ users'[u] = users[u]
        /\ OfRow(r)' = OfRow(r) /\ Active(r)' \subseteq Active(r)
        /\ \A a \in OfRow(r) : apps'[a].contact = apps[a].contact
        /\ \A l \in logs' : PlayerLog(l) /\ l.app \in OfRow(r) => l \in logs
    BY <1>1, <2>1, <2>2, OthersKeep
  <2>4. UpToDate(s)
    BY DEF SoloInv
  <2>5. chat[s].pc = "editing" => chat[s].app \in OfRow(r)
    BY <2>1, <2>4 DEF UpToDate, OfRow, TypeInv, Aware
  <2>6. chat[s].pc = "editing" =>
           /\ apps'[chat[s].app].status \in {"pending_review"} \cup Decisions
           /\ apps'[chat[s].app].row = r
           /\ apps'[chat[s].app].contact = apps[chat[s].app].contact
    BY <2>3, <2>5 DEF OfRow, Stored, Status
  <2> QED
    BY <1>2, <2>1, <2>3, <2>4, <2>6 DEF UpToDate, OfRow, Active, Stored, Status
<1>3. CASE chat'[s] = chat[s] /\ chat[s].pc \notin Reading \cup Holding
  <2>1. UpToDate(s)
    BY DEF SoloInv
  <2> QED
    BY <1>3, <2>1 DEF UpToDate, Reading, Holding, Filing, Removing
<1>4. CASE Settles(s)
  BY <1>4 DEF Settles, UpToDate, Reading, Holding, Filing, Removing, Ready
<1>5. CASE Reads(s)
  <2>1. UNCHANGED <<users, apps, logs>> /\ UpToDate(s)
    BY <1>5 DEF Reads, SoloInv
  <2>2. CASE chat[s].pc = "counted"
             /\ chat'[s] = [chat[s] EXCEPT !.pc = "known", !.row = users[u].row,
                                           !.loaded = users[u].contact]
    BY <1>1, <2>1, <2>2 DEF UpToDate, ChatRow, Reading, Holding, Filing, Removing
  <2>3. CASE chat[s].pc = "known" /\ Active(chat[s].row) = {}
             /\ chat'[s] = [chat[s] EXCEPT !.pc = "checked"]
    BY <1>1, <2>1, <2>3 DEF UpToDate, ChatRow, Reading, Holding, Filing, Removing,
                            Active, OfRow, Stored, Status
  <2>4. CASE \E a \in Active(users[u].row), c \in Contacts \cup {NoContact} :
                chat'[s] = [Idle EXCEPT !.pc = "editing", !.row = users[u].row,
                               !.contact = c, !.loaded = users[u].contact,
                               !.copy = apps[a].contact, !.app = a]
    <3>1. PICK a \in Active(users[u].row), c \in Contacts \cup {NoContact} :
             chat'[s] = [Idle EXCEPT !.pc = "editing", !.row = users[u].row,
                            !.contact = c, !.loaded = users[u].contact,
                            !.copy = apps[a].contact, !.app = a]
      BY <2>4
    <3>2. /\ chat'[s].pc = "editing" /\ chat'[s].row = users[u].row
          /\ chat'[s].loaded = users[u].contact /\ chat'[s].app = a
          /\ chat'[s].copy = apps[a].contact
      BY <3>1 DEF Idle
    <3>3. Active(users[u].row) \subseteq {a} /\ Stored(a) /\ apps[a].row = users[u].row
      BY DEF RowInv, Active, OfRow, Live
    <3> QED
      BY <2>1, <3>2, <3>3 DEF UpToDate, Reading, Holding, Filing, Removing, Active, OfRow,
                              Stored, Status
  <2>5. CASE chat'[s] = [Idle EXCEPT !.pc = "loaded", !.row = users[u].row,
                            !.seen = {l \in logs : l.linked /\ l.app \in OfRow(users[u].row)}]
    <3>1. /\ chat'[s].pc = "loaded" /\ chat'[s].row = users[u].row
          /\ chat'[s].seen = {l \in logs : l.linked /\ l.app \in OfRow(users[u].row)}
      BY <2>5 DEF Idle
    <3>2. \A l \in logs : PlayerLog(l) /\ l.app \in OfRow(users[u].row) => l.linked
      BY DEF LogInv, PlayerLog, OfRow
    <3> QED
      BY <2>1, <3>1, <3>2 DEF UpToDate, Reading, Holding, Filing, Removing, OfRow,
                              Stored, Status
  <2>6. CASE /\ chat[s].pc \in {"loaded", "flushed"}
             /\ \E pc \in Removing : chat'[s] = [chat[s] EXCEPT !.pc = pc]
    BY <1>1, <2>1, <2>6 DEF UpToDate, ChatRow, Reading, Holding, Filing, Removing, OfRow,
                            Stored, Status
  <2>7. CASE \/ chat'[s] = [Idle EXCEPT !.pc = "naming", !.row = users[u].row]
             \/ chat'[s] = [chat[s] EXCEPT !.pc = "named"]
    BY <1>1, <2>7 DEF UpToDate, ChatRow, Idle, Reading, Holding, Filing, Removing
  <2> QED
    BY <1>5, <2>2, <2>3, <2>4, <2>5, <2>6, <2>7 DEF Reads
<1> QED
  BY <1>2, <1>3, <1>4, <1>5, ChatSteps

\* The invariant of a player with one chat, and all it rests on.
Solo == TypeInv /\ RowInv /\ KeyInv /\ LogInv /\ SoloInv

LEMMA SoloAlways == ASSUME OneChatEach PROVE Spec => []Solo
<1>1. Init => Solo
  BY TypeInit, RowInit, KeyInit, LogInit, SoloInit DEF Solo
<1>2. Solo /\ [Next]_vars => Solo'
  BY TypeStep, RowStep, KeyStep, LogStep, SoloStep DEF Solo
<1> QED
  BY <1>1, <1>2, PTL DEF Spec

\* An account that has no row, or has just got one, has no application.
LEMMA NoneThere ==
  ASSUME TypeInv, RowInv, NEW r, r = 0 \/ r = nextRow + 1
  PROVE  OfRow(r) = {} /\ Active(r) = {}
<1>1. nextRow \in Nat /\ \A a \in Apps : apps[a].row \in Nat
  BY DEF TypeInv, TypeOK
<1> QED
  BY <1>1 DEF RowInv, OfRow, Active

LEMMA SnapshotStep ==
  ASSUME Solo, Solo', SnapshotInSync, [Next]_vars
  PROVE  SnapshotInSync'
<1> SUFFICES ASSUME NEW u \in Users, NEW r, r = users'[u].row, NEW b \in Active(r)'
             PROVE  apps'[b].contact = users'[u].contact
  BY DEF SnapshotInSync
<1> USE DEF Solo
<1>1. /\ users \in [Users -> UserRow] /\ apps \in [Apps -> AppRow]
      /\ chat \in [Sessions -> ChatRow] /\ nextRow \in Nat
  BY ChatAt DEF TypeInv, TypeOK, UserRow, AppRow
<1>2. b \in Apps /\ Stored(b)' /\ apps'[b].row = r /\ Status(b)' # "rejected"
  BY DEF Active, OfRow
<1>3. CASE \A t \in Sessions : UserOf[t] = u => ~Writes(t)
  <2>1. PICK n : n = users[u].row
    OBVIOUS
  <2>2. /\ users'[u] = users[u] /\ Active(n)' \subseteq Active(n)
        /\ \A a \in OfRow(n) : apps'[a].contact = apps[a].contact
    BY <1>3, <2>1, OthersKeep
  <2>3. n = r
    BY <2>1, <2>2
  <2>4. b \in Active(users[u].row) /\ b \in OfRow(n)
    BY <2>1, <2>2, <2>3 DEF Active
  <2> QED
    BY <2>2, <2>4 DEF SnapshotInSync
<1>4. ASSUME NEW s \in Sessions, UserOf[s] = u, SubmitWrite(s)
      PROVE  apps'[b].contact = users'[u].contact
  <2> DEFINE n == IF chat[s].row = 0 THEN nextRow + 1 ELSE chat[s].row
             c == chat[s].contact
  <2>1. PICK a \in Unused :
           /\ apps'[a] = [status |-> "pending_review", row |-> n, contact |-> c]
           /\ \A d \in Apps \ {a} : apps'[d] = apps[d]
    BY <1>4, Submitted
  <2>2. r = n /\ users'[u].contact = IF WritesContact(s) THEN c ELSE users[u].contact
    BY <1>4, Submitted
  <2>3. users[u].contact = chat[s].loaded
    BY <1>4, Submitted DEF SoloInv, UpToDate, Reading
  <2>4. users'[u].contact = c
    BY <2>2, <2>3 DEF WritesContact
  <2>5. Active(n) = {}
    BY <1>4, Submitted, NoneThere
  <2>6. b = a
    BY <1>2, <2>1, <2>2, <2>5 DEF Active, OfRow, Stored, Status
  <2> QED
    BY <2>1, <2>4, <2>6
<1>5. ASSUME NEW s \in Sessions, UserOf[s] = u, LanguageWrite(s)
      PROVE  apps'[b].contact = users'[u].contact
  <2>1. apps' = apps
    BY <1>5 DEF LanguageWrite, EndWith
  <2>2. b \in Active(r)
    BY <1>2, <2>1 DEF Active, OfRow, Stored, Status
  <2>3. r # nextRow + 1
    BY <2>2, NoneThere
  <2>4. users' = users
    BY <1>1, <1>5, <2>3 DEF LanguageWrite, EndWith
  <2> QED
    BY <2>1, <2>2, <2>4 DEF SnapshotInSync
<1>6. ASSUME NEW s \in Sessions, UserOf[s] = u, EditWrite(s)
      PROVE  apps'[b].contact = users'[u].contact
  <2>1. /\ chat[s].pc = "editing" /\ chat[s].app \in Apps
        /\ chat[s].row = users[u].row /\ Active(chat[s].row) \subseteq {chat[s].app}
    BY <1>6 DEF EditWrite, TypeInv, Aware, SoloInv, UpToDate, Reading
  <2>2. \A a \in Apps : apps'[a].status = apps[a].status /\ apps'[a].row = apps[a].row
    BY <1>1, <1>6, <2>1 DEF EditWrite, EndWith, AppRow
  <2>3. r = users[u].row
    BY <1>1, <1>6 DEF EditWrite, EndWith, UserRow
  <2>4. b \in Active(users[u].row)
    BY <1>2, <2>2, <2>3 DEF Active, OfRow, Stored, Status
  <2>5. b = chat[s].app
    BY <2>1, <2>4
  <2>6. CASE UNCHANGED <<users, apps>>
    BY <2>4, <2>6 DEF SnapshotInSync
  <2>7. /\ users[u].contact = chat[s].loaded
        /\ apps[chat[s].app].contact = chat[s].copy
    BY <1>6, <2>1 DEF SoloInv, UpToDate, Reading
  <2>8. apps[b].contact = users[u].contact
    BY <2>4 DEF SnapshotInSync
  <2>9. CASE /\ users' = IF EditsContact(s)
                         THEN [users EXCEPT ![u].contact = chat[s].contact] ELSE users
             /\ apps' = IF EditsSnapshot(s)
                        THEN [apps EXCEPT ![chat[s].app].contact = chat[s].contact] ELSE apps
    <3>1. EditsContact(s) <=> EditsSnapshot(s)
      BY <2>5, <2>7, <2>8 DEF EditsContact, WritesContact, EditsSnapshot
    <3> QED
      BY <1>1, <2>1, <2>5, <2>8, <2>9, <3>1 DEF UserRow, AppRow
  <2> QED
    BY <1>6, <2>6, <2>9 DEF EditWrite, EndWith
<1>7. ASSUME NEW s \in Sessions, UserOf[s] = u, WithdrawCommit(s) PROVE FALSE
  <2>1. ~RowMoved(s)
    BY <1>7 DEF WithdrawCommit, RowMoved, SoloInv, UpToDate, Holding, Removing
  <2>2. r = 0
    BY <1>1, <1>7, <2>1 DEF WithdrawCommit, NoRow
  <2>3. apps'[b].row # 0
    BY <1>2 DEF RowInv
  <2> QED
    BY <1>2, <2>2, <2>3
<1> QED
  BY <1>3, <1>4, <1>5, <1>6, <1>7 DEF Writes

\* From one chat each, the contact details on a player's active application are
\* those of the player, whatever a submit, an edit and a /withdraw interleave
\* with (SnapshotInSync; the comment in update_contact asks for it).
THEOREM SnapshotAgrees == ASSUME OneChatEach PROVE Spec => []SnapshotInSync
<1>1. Init => SnapshotInSync
  BY DEF Init, SnapshotInSync, Active, OfRow, Stored, Status, Blank, Decisions
<1>2. Spec => []Solo
  BY SoloAlways
<1>3. Solo /\ Solo' /\ SnapshotInSync /\ [Next]_vars => SnapshotInSync'
  BY SnapshotStep
<1> QED
  BY <1>1, <1>2, <1>3, PTL DEF Spec

-----------------------------------------------------------------------------
LEMMA ErasureStep ==
  ASSUME Solo, NoPlayerLogStays, [Next]_vars
  PROVE  NoPlayerLogStays'
<1> SUFFICES ASSUME NEW l \in logs', PlayerLog(l), ~Stored(l.app)' PROVE FALSE
  BY DEF NoPlayerLogStays, PlayerLog
<1> USE DEF Solo
<1>1. apps \in [Apps -> AppRow]
  BY DEF TypeInv, TypeOK, AppRow
<1>2. ASSUME l \in logs
      PROVE  /\ l.app \in Apps /\ l.app \in OfRow(apps[l.app].row)
             /\ \E s \in Sessions : /\ WithdrawCommit(s)
                                    /\ apps[l.app].row = chat[s].row
  <2>1. l.app \in Apps /\ Stored(l.app)
    BY <1>2, LogAt DEF NoPlayerLogStays, PlayerLog
  <2>2. \E s \in Sessions : WithdrawCommit(s) /\ apps[l.app].row = chat[s].row
    BY <2>1, StatusSteps DEF Stored, Decisions
  <2> QED
    BY <2>1, <2>2 DEF OfRow
<1>3. ASSUME NEW s \in Sessions, WithdrawCommit(s) PROVE FALSE
  <2>1. PICK m \in logs \ chat[s].seen :
           /\ m.kind = l.kind /\ m.app = l.app /\ m.actor = l.actor
           /\ m.app \notin OfRow(chat[s].row) => l = m
    BY <1>3, SweptLog DEF PlayerLog
  <2>2. m.app \notin OfRow(chat[s].row)
    BY <1>3, <2>1 DEF SoloInv, UpToDate, Removing, PlayerLog, WithdrawCommit
  <2>3. l \in logs
    BY <2>1, <2>2
  <2>4. /\ l.app \in Apps /\ Stored(l.app)
        /\ apps'[l.app] = IF l.app \in OfRow(chat[s].row)
                          THEN [apps[l.app] EXCEPT !.status = "erased", !.contact = NoContact]
                          ELSE apps[l.app]
    BY <1>2, <1>3, <2>3 DEF WithdrawCommit, OfRow
  <2> QED
    BY <2>1, <2>2, <2>4 DEF Stored, Status
<1>4. l \notin logs
  BY <1>2, <1>3
<1>5. ASSUME NEW s \in Sessions, SubmitWrite(s) PROVE FALSE
  <2> DEFINE n == IF chat[s].row = 0 THEN nextRow + 1 ELSE chat[s].row
  <2>1. PICK a \in Unused :
           /\ apps'[a] = [status |-> "pending_review", row |-> n,
                          contact |-> chat[s].contact]
           /\ logs' = logs \cup {NewLog(a, "application_submitted", UserOf[s])}
    BY <1>5, Submitted
  <2> HIDE DEF n
  <2> QED
    BY <1>4, <2>1 DEF NewLog, Stored, Status
<1>6. ASSUME NEW s \in Sessions, EditWrite(s) PROVE FALSE
  <2>1. l.app = chat[s].app
    BY <1>4, <1>6, EditRowsAre DEF EditWrite, EndWith
  <2>2. chat[s].app \in Apps /\ Stored(chat[s].app)
    BY <1>6 DEF EditWrite, TypeInv, Aware, SoloInv, UpToDate
  <2>3. apps'[chat[s].app].status = apps[chat[s].app].status
    BY <1>1, <1>6, <2>2 DEF EditWrite, EndWith, AppRow
  <2> QED
    BY <2>1, <2>2, <2>3 DEF Stored, Status
<1>7. ASSUME NEW d \in Admins, ReviewDecide(d), StillExpected(desk[d].app) PROVE FALSE
  BY <1>4, <1>7 DEF ReviewDecide, NewLog, PlayerLog
<1>8. ASSUME NEW s \in Sessions, LanguageWrite(s) PROVE FALSE
  BY <1>4, <1>8 DEF LanguageWrite, EndWith
<1> QED
  BY <1>3, <1>4, <1>5, <1>6, <1>7, <1>8, TableWriters

\* From one chat each, no log row of the player's own doing outlives the
\* player's data, whenever it was written (NoPlayerLogStays, about
\* erase_user_data deleting the log rows it has loaded).
THEOREM ErasureLeavesNoTrace == ASSUME OneChatEach PROVE Spec => []NoPlayerLogStays
<1>1. Init => NoPlayerLogStays
  BY DEF Init, NoPlayerLogStays
<1>2. Spec => []Solo
  BY SoloAlways
<1>3. Solo /\ NoPlayerLogStays /\ [Next]_vars => NoPlayerLogStays'
  BY ErasureStep
<1> QED
  BY <1>1, <1>2, <1>3, PTL DEF Spec

-----------------------------------------------------------------------------
\* The only way to the contact detour is a refused submit.
LEMMA ToContactFix ==
  ASSUME TypeInv, [Next]_vars, NEW s \in Sessions,
         chat[s].pc = "checked", chat'[s].pc = "contact_fix"
  PROVE  SubmitRefused(s) /\ ~Stale(s)
<1>1. chat \in [Sessions -> ChatRow]
  BY ChatAt DEF TypeInv
<1>2. ASSUME NEW t \in Sessions, NEW x, chat' = [chat EXCEPT ![t] = x]
      PROVE  t = s /\ x.pc = "contact_fix"
  BY <1>1, <1>2
<1>3. ASSUME NEW t \in Sessions, EndWith(t, "idle") PROVE FALSE
  <2>1. [Idle EXCEPT !.pc = "idle"].pc = "idle"
    BY DEF Idle
  <2> QED
    BY <1>2, <1>3, <2>1 DEF EndWith
<1>4. ASSUME NEW t \in Sessions,
             \/ \E c \in Contacts : SubmitCount(t, c)
             \/ LanguageRead(t)
             \/ \E c \in Contacts \cup {NoContact} : EditRead(t, c)
             \/ WithdrawLoad(t)
      PROVE  FALSE
  <2>1. PICK x : chat' = [chat EXCEPT ![t] = x]
    BY <1>4 DEF SubmitCount, LanguageRead, EditRead, WithdrawLoad
  <2> QED
    BY <1>2, <1>4, <2>1 DEF SubmitCount, LanguageRead, EditRead, WithdrawLoad, Ready
<1>5. ASSUME NEW t \in Sessions,
             \/ SubmitReadUser(t) \/ SubmitCheckActive(t) \/ LanguageFlush(t)
             \/ WithdrawFlush(t) \/ WithdrawAnswer(t) \/ ChatFails(t)
      PROVE  FALSE
  BY <1>1, <1>3, <1>5 DEF SubmitReadUser, SubmitCheckActive, LanguageFlush, WithdrawFlush,
                          WithdrawAnswer, ChatFails
<1>6. ASSUME NEW t \in Sessions, Writes(t) PROVE FALSE
  <2>1. t = s
    BY <1>1, <1>6 DEF Writes, SubmitWrite, LanguageWrite, EditWrite, WithdrawCommit, EndWith
  <2>2. chat'[t].pc = "idle"
    BY <1>6, WriterEnds DEF Writes
  <2> QED
    BY <2>1, <2>2
<1>7. ASSUME NEW t \in Sessions, SubmitRefused(t) PROVE t = s /\ ~Stale(s)
  <2>1. ~Stale(t)
    BY <1>3, <1>7 DEF SubmitRefused
  <2>2. t = s
    BY <1>2, <1>7 DEF SubmitRefused, EndWith
  <2> QED
    BY <2>1, <2>2
<1>8. ASSUME NEW d \in Admins,
             \/ \E a \in Apps, v \in Decisions : ReviewFind(d, a, v)
             \/ DeskContinues(d) \/ DeskFails(d)
      PROVE  FALSE
  BY <1>8 DEF ReviewFind, DeskContinues, ReviewDecide, ReviewNotify, DeskFails
<1>9. ~Crash
  BY DEF Crash, Idle
<1>10. ~UNCHANGED vars
  BY DEF vars
<1> QED
  BY <1>4, <1>5, <1>6, <1>7, <1>8, <1>9, <1>10 DEF Next, ChatContinues, Writes

\* From one chat each, a player is sent to re-enter the contact details only
\* when somebody else has them (ContactFixMeansTaken: confirm_submit takes every
\* IntegrityError for a taken nickname or e-mail).
THEOREM DetourJustified == ASSUME OneChatEach PROVE Spec => ContactFixMeansTaken
<1>1. Spec => []Solo
  BY SoloAlways
<1>2. ASSUME Solo, [Next]_vars, NEW s \in Sessions,
             chat[s].pc = "checked", chat'[s].pc = "contact_fix"
      PROVE  Taken(chat[s].contact, UserOf[s])
  <2>1. Violates(s)
    BY <1>2, ToContactFix DEF SubmitRefused, Solo
  <2>2. ~RowMoved(s) /\ Active(chat[s].row) = {}
    BY <1>2 DEF Solo, SoloInv, UpToDate, RowMoved, Reading
  <2> QED
    BY <2>1, <2>2 DEF Violates
<1>3. Solo /\ [Next]_vars =>
         [\A s \in Sessions :
            chat[s].pc = "checked" /\ chat'[s].pc = "contact_fix"
               => Taken(chat[s].contact, UserOf[s])]_vars
  BY <1>2
<1> QED
  BY <1>1, <1>3, PTL DEF Spec, ContactFixMeansTaken
=============================================================================
