-------------------------- MODULE AdminPingProofs --------------------------
(* Theorems about AdminPing, for every set of applications and of admins,   *)
(* every window and every bound.                                            *)
EXTENDS AdminPing, TLAPS

\* _last_admin_ping is the moment of the latest ping of this process.
LastIsLatest ==
    /\ \A t \in last : \E p \in pings : p.boot = crashes /\ p.at = t
    /\ \A p \in pings : p.boot = crashes => \E t \in last : p.at <= t

\* A handler that has counted has counted its own application.
CountsOwn == \A x \in queue : pc[x] = "counted" => x \in counted[x]

PingInv ==
    TypeOK /\ LastIsLatest /\ CountsOwn /\ PingsSpaced /\ NoticedOrDebounced

\* The initial states.
LEMMA InitPing == Init => PingInv
<1> SUFFICES ASSUME Init PROVE PingInv
  OBVIOUS
<1>1. TypeOK
  BY PingBounds DEF Init, TypeOK, Stages
<1> QED
  BY <1>1 DEF Init, PingInv, LastIsLatest, CountsOwn, PingsSpaced, NoticedOrDebounced

\* Every step keeps the types.
LEMMA StepTypeOK == TypeOK /\ [Next]_vars => TypeOK'
<1> SUFFICES ASSUME TypeOK, [Next]_vars PROVE TypeOK'
  OBVIOUS
<1> USE WindowAssumption, PingBounds DEF TypeOK, Stages, Goes, ping
<1>1. ASSUME NEW x \in Apps, Commit(x) PROVE TypeOK'
  BY <1>1 DEF Commit
<1>2. ASSUME NEW x \in Apps, Reply(x) \/ Fail(x) PROVE TypeOK'
  BY <1>2 DEF Reply, Fail
<1>3. ASSUME NEW x \in Apps, Count(x) PROVE TypeOK'
  BY <1>3 DEF Count
<1>4. ASSUME NEW x \in Apps, Notify(x) PROVE TypeOK'
  BY <1>4 DEF Notify, Begin
<1>5. ASSUME NEW x \in Apps, NotifySkipped(x) PROVE TypeOK'
  BY <1>5 DEF NotifySkipped, Dropped
<1>6. ASSUME NEW x \in Apps, NEW d \in Admins, SendPing(x, d) PROVE TypeOK'
  BY <1>6 DEF SendPing
<1>7. ASSUME NEW x \in Apps, Told(x) \/ Leave(x) PROVE TypeOK'
  BY <1>7 DEF Told, Leave
<1>8. CASE Tick
  BY <1>8 DEF Tick
<1>9. CASE Crash
  BY <1>9 DEF Crash, Running
<1>10. CASE UNCHANGED vars
  BY <1>10 DEF vars
<1> QED
  BY <1>1, <1>2, <1>3, <1>4, <1>5, <1>6, <1>7, <1>8, <1>9, <1>10 DEF Next

\* The debounce: a ping begins a window after all others of its process.
LEMMA NotifyPings ==
    ASSUME PingInv, NEW x \in Apps, Notify(x)
    PROVE  LastIsLatest' /\ PingsSpaced'
<1> DEFINE new == [by |-> x, at |-> now, shown |-> counted[x], boot |-> crashes]
<1>1. /\ pings' = pings \cup {new}
      /\ last' = {now} /\ crashes' = crashes
  BY DEF Notify, Begin
<1>2. /\ now \in Int /\ crashes \in Int /\ last \subseteq Int /\ Window \in Nat
      /\ \A p \in pings : p.at \in Int /\ p.boot \in Int /\ p.at <= now
  BY WindowAssumption DEF PingInv, TypeOK
<1>3. \A p \in pings : p.boot = crashes => p.at + Window <= now
  BY <1>2 DEF PingInv, LastIsLatest, Notify, Debounced
<1>4. new.at = now /\ new.boot = crashes
  OBVIOUS
<1> HIDE DEF new
<1>5. LastIsLatest'
  BY <1>1, <1>2, <1>4 DEF LastIsLatest
<1>6. PingsSpaced'
  BY <1>1, <1>2, <1>3, <1>4 DEF PingInv, PingsSpaced
<1> QED
  BY <1>5, <1>6

\* ... and it shows the application that caused it, if it still waits.
LEMMA NotifyNotices ==
    ASSUME PingInv, NEW x \in Apps, Notify(x)
    PROVE  CountsOwn' /\ NoticedOrDebounced'
<1> DEFINE new == [by |-> x, at |-> now, shown |-> counted[x], boot |-> crashes]
<1>1. /\ pings' = pings \cup {new}
      /\ queue' = queue /\ counted' = counted /\ skippedAt' = skippedAt
      /\ pc[x] = "counted" /\ pc' = [pc EXCEPT ![x] = "pinging"]
  BY DEF Notify, Begin, Goes
<1>2. pc \in [Apps -> Stages] /\ queue \subseteq Apps
  BY DEF PingInv, TypeOK
<1>3. new.shown = counted[x]
  OBVIOUS
<1> HIDE DEF new
<1>4. CountsOwn'
  BY <1>1, <1>2 DEF PingInv, CountsOwn
<1>5. x \in queue => x \in new.shown
  BY <1>1, <1>3 DEF PingInv, CountsOwn
<1>6. NoticedOrDebounced'
  BY <1>1, <1>2, <1>5 DEF PingInv, NoticedOrDebounced
<1> QED
  BY <1>4, <1>6

LEMMA StepPingInv == PingInv /\ [Next]_vars => PingInv'
<1> SUFFICES ASSUME PingInv, [Next]_vars PROVE PingInv'
  OBVIOUS
<1> USE DEF PingInv
<1>0. TypeOK'
  BY StepTypeOK
<1>1. /\ pc \in [Apps -> Stages] /\ queue \subseteq Apps
      /\ now \in Int /\ crashes \in Int /\ last \subseteq Int
      /\ \A p \in pings : p.at \in Int /\ p.boot \in Int /\ p.at <= now /\ p.boot <= crashes
      /\ skippedAt \in [Apps -> Int] /\ Window \in Nat
      /\ \A y \in queue : pc[y] # "form"
  BY WindowAssumption DEF TypeOK
<1>2. ASSUME NEW x \in Apps,
             Commit(x) \/ Reply(x) \/ Fail(x) \/ Count(x) \/ Told(x) \/ Leave(x)
      PROVE  PingInv'
  <2>1. LastIsLatest' /\ PingsSpaced'
    BY <1>2 DEF Commit, Reply, Fail, Count, Told, Leave, ping, LastIsLatest, PingsSpaced
  <2>2. CountsOwn' /\ NoticedOrDebounced'
    <3>1. CASE Commit(x)
      BY <3>1, <1>1 DEF Commit, Goes, ping, CountsOwn, NoticedOrDebounced
    <3>2. CASE Reply(x) \/ Fail(x)
      BY <3>2, <1>1 DEF Reply, Fail, Goes, ping, CountsOwn, NoticedOrDebounced
    <3>3. CASE Count(x)
      <4>1. counted \in [Apps -> SUBSET Apps]
        BY DEF TypeOK
      <4> QED
        BY <3>3, <1>1, <4>1 DEF Count, Goes, ping, CountsOwn, NoticedOrDebounced
    <3>4. CASE Told(x)
      BY <3>4, <1>1 DEF Told, Goes, ping, CountsOwn, NoticedOrDebounced
    <3>5. CASE Leave(x)
      BY <3>5, <1>1 DEF Leave, ping, CountsOwn, NoticedOrDebounced
    <3> QED
      BY <1>2, <3>1, <3>2, <3>3, <3>4, <3>5
  <2> QED
    BY <1>0, <2>1, <2>2
<1>3. ASSUME NEW x \in Apps, Notify(x) PROVE PingInv'
  BY <1>0, <1>3, NotifyPings, NotifyNotices
<1>4. ASSUME NEW x \in Apps, NotifySkipped(x) PROVE PingInv'
  <2>1. LastIsLatest' /\ PingsSpaced'
    BY <1>4 DEF NotifySkipped, Dropped, LastIsLatest, PingsSpaced
  <2>2. CountsOwn'
    BY <1>4, <1>1 DEF NotifySkipped, Dropped, Goes, CountsOwn
  <2>3. Admins # {} => \E p \in pings : p.at <= now /\ now < p.at + Window
    BY <1>4, <1>1 DEF NotifySkipped, Dropped, Debounced, LastIsLatest
  <2>4. NoticedOrDebounced'
    BY <1>4, <1>1, <2>3 DEF NotifySkipped, Dropped, Goes, NoticedOrDebounced
  <2> QED
    BY <1>0, <2>1, <2>2, <2>4
<1>5. ASSUME NEW x \in Apps, NEW d \in Admins, SendPing(x, d) PROVE PingInv'
  BY <1>0, <1>5 DEF SendPing, LastIsLatest, CountsOwn, PingsSpaced, NoticedOrDebounced
<1>6. CASE Tick
  BY <1>0, <1>6 DEF Tick, ping, LastIsLatest, CountsOwn, PingsSpaced, NoticedOrDebounced
<1>7. CASE Crash
  <2>1. LastIsLatest' /\ PingsSpaced'
    BY <1>7, <1>1 DEF Crash, LastIsLatest, PingsSpaced
  <2>2. CountsOwn' /\ NoticedOrDebounced'
    BY <1>7, <1>1 DEF Crash, Running, CountsOwn, NoticedOrDebounced
  <2> QED
    BY <1>0, <2>1, <2>2
<1>8. CASE UNCHANGED vars
  BY <1>0, <1>8 DEF vars, LastIsLatest, CountsOwn, PingsSpaced, NoticedOrDebounced
<1> QED
  BY <1>2, <1>3, <1>4, <1>5, <1>6, <1>7, <1>8 DEF Next

LEMMA PingInvariant == Spec => []PingInv
<1> QED
  BY InitPing, StepPingInv, PTL DEF Spec

\* The variables keep their types: the last ping is not in the future, and only
\* filed applications wait.
THEOREM TypeCorrect == Spec => []TypeOK
<1>1. PingInv => TypeOK
  BY DEF PingInv
<1> QED
  BY <1>1, PingInvariant, PTL

\* However many submits reach the debounce at once, the pings of one process
\* are a window apart: nothing is awaited between the look and the note.
THEOREM PingsStaySpaced == Spec => []PingsSpaced
<1>1. PingInv => PingsSpaced
  BY DEF PingInv
<1> QED
  BY <1>1, PingInvariant, PTL

\* A waiting application whose handler came to the ping was counted in one, or
\* was filed less than a window after one.
THEOREM NobodyWaitsUnheard == Spec => []NoticedOrDebounced
<1>1. PingInv => NoticedOrDebounced
  BY DEF PingInv
<1> QED
  BY <1>1, PingInvariant, PTL
=============================================================================
