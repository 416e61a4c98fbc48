--------------------------- MODULE InstanceProofs ---------------------------
(* Theorems about Instance, for every number of processes, hosts and         *)
(* versions and every bound.                                                 *)
EXTENDS Instance, TLAPS

\* Every process that runs holds the file lock of its host.
RunningHasFile == \A p \in Procs : pc[p] # "down" => fileLock[HostOf[p]] = p

\* Every process that is past the advisory lock holds it, or its connection is
\* lost.
SingletonHasLock ==
    \A p \in Procs : pc[p] \in Singleton => dbLock = p \/ p \in cut
CutIsLoss == cut # {} => losses > 0

\* The schema never goes back behind a version that was migrated to.
Migrated == Singleton \cup {"migrated", "released"}
SchemaCaughtUp == \A p \in Procs : pc[p] \in Migrated => schema >= VersionOf[p]

\* The revision Alembic found was not undone since: it is what keeps an upgrade
\* with nothing to do honest when another host has moved the schema meanwhile.
FoundStands == \A p \in Procs : pc[p] = "migrating" => found[p] <= schema
SchemaInv == SchemaCaughtUp /\ FoundStands

\* While no connection is lost, what a poller has still to receive was never
\* handled: what an earlier one had not confirmed is dropped at its start.
NotYetHandled ==
    losses = 0 =>
        /\ \A i \in 1 .. MaxUpdates : handled[i] <= 1
        /\ \A i \in 1 .. MaxUpdates : sent < i => handled[i] = 0
        /\ \A p \in Procs, i \in 1 .. MaxUpdates :
              Polling(p) /\ confirmed < i /\ offset[p] < i => handled[i] = 0

Locks == RunningHasFile /\ SingletonHasLock /\ CutIsLoss
InstanceInv == TypeOK /\ Locks /\ SchemaInv /\ NotYetHandled

LEMMA InitInstance == Init => InstanceInv
<1> SUFFICES ASSUME Init PROVE InstanceInv
  OBVIOUS
<1>1. TypeOK
  BY ProcsAssumption, InstanceBounds DEF Init, TypeOK, Stages
<1> QED
  BY <1>1, InstanceBounds DEF Init, InstanceInv, Locks, RunningHasFile, SingletonHasLock,
     CutIsLoss, SchemaInv, SchemaCaughtUp, FoundStands, NotYetHandled, Singleton, Migrated, Polling

\* The kinds of steps: those that end p, and those that let it go on.
Ending(p) == MigrationFails(p) \/ SingletonTaken(p) \/ Exit(p) \/ Die(p)
Going(p) ==
    \/ AcquireFile(p) \/ BeginMigrations(p) \/ Migrate(p) \/ AcquireSingleton(p)
    \/ StartPolling(p) \/ Stop(p) \/ ReleaseSingleton(p)

LEMMA Steps ==
    Next => \/ \E p \in Procs : Ending(p) \/ Going(p) \/ Poll(p) \/ LoseConnection(p)
            \/ Send \/ Reap
<1> QED
  BY DEF Next, Advances, Ending, Going

-----------------------------------------------------------------------------
\* The end of a process frees its file lock and nothing else.
LEMMA EndsTyped ==
    ASSUME TypeOK, NEW p \in Procs, Ends(p), UNCHANGED <<sent, schema, found, confirmed, handled>>,
           dbLock' \in Procs \cup {Nobody, Dead},
           faults' \in 0 .. MaxFaults, losses' = losses
    PROVE  TypeOK'
<1> USE ProcsAssumption, InstanceBounds DEF Ends, TypeOK, Stages
<1>1. pc' \in [Procs -> Stages]
  OBVIOUS
<1>2. fileLock' \in [Hosts -> Procs \cup {Nobody}]
  OBVIOUS
<1>3. offset' \in [Procs -> 0 .. sent']
  OBVIOUS
<1>4. confirmed' \in 0 .. sent' /\ sent' \in 0 .. MaxUpdates
  OBVIOUS
<1> QED
  BY <1>1, <1>2, <1>3, <1>4

\* Every step keeps the types.
LEMMA StepTypeOK == TypeOK /\ [Next]_vars => TypeOK'
<1> SUFFICES ASSUME TypeOK, [Next]_vars PROVE TypeOK'
  OBVIOUS
<1> USE ProcsAssumption, InstanceBounds DEF locks, database, telegram
<1>1. ASSUME NEW p \in Procs, Ending(p) PROVE TypeOK'
  <2>1. /\ Ends(p) /\ UNCHANGED <<sent, schema, found, confirmed, handled>> /\ losses' = losses
    BY <1>1 DEF Ending, MigrationFails, SingletonTaken, Exit, Die
  <2>2. dbLock' \in Procs \cup {Nobody, Dead} /\ faults' \in 0 .. MaxFaults
    BY <1>1 DEF Ending, MigrationFails, SingletonTaken, Exit, Die, TypeOK
  <2> QED
    BY <2>1, <2>2, EndsTyped
<1>2. ASSUME NEW p \in Procs, Going(p) PROVE TypeOK'
  <2>1. pc' \in [Procs -> Stages]
    <3>1. \E st \in Stages : pc' = [pc EXCEPT ![p] = st]
      BY <1>2 DEF Going, AcquireFile, BeginMigrations, Migrate, AcquireSingleton,
         StartPolling, Stop, ReleaseSingleton, Goes, Stages
    <3> QED
      BY <3>1 DEF TypeOK
  <2>2. CASE AcquireFile(p)
    <3>1. fileLock' \in [Hosts -> Procs \cup {Nobody}]
      BY <2>2 DEF AcquireFile, TypeOK
    <3> QED
      BY <2>1, <2>2, <3>1 DEF AcquireFile, TypeOK
  <2>3. CASE BeginMigrations(p) \/ Migrate(p)
    <3>1. schema' \in Nat /\ found' \in [Procs -> Nat]
      <4>1. schema \in Nat /\ found \in [Procs -> Nat] /\ VersionOf[p] \in Nat
        BY DEF TypeOK
      <4>2. CASE BeginMigrations(p)
        BY <4>1, <4>2 DEF BeginMigrations
      <4>3. CASE Migrate(p)
        BY <4>1, <4>3 DEF Migrate
      <4> QED
        BY <2>3, <4>2, <4>3
    <3>2. UNCHANGED <<locks, telegram, faults, losses>>
      BY <2>3 DEF BeginMigrations, Migrate
    <3> QED
      BY <2>1, <3>1, <3>2 DEF TypeOK
  <2>4. CASE AcquireSingleton(p) \/ ReleaseSingleton(p)
    BY <2>1, <2>4 DEF AcquireSingleton, ReleaseSingleton, TypeOK
  <2>5. CASE StartPolling(p) \/ Stop(p)
    BY <2>1, <2>5 DEF StartPolling, Stop, TypeOK
  <2> QED
    BY <1>2, <2>2, <2>3, <2>4, <2>5 DEF Going
<1>3. ASSUME NEW p \in Procs, Poll(p) PROVE TypeOK'
  <2>1. offset' \in [Procs -> 0 .. sent']
    BY <1>3 DEF Poll, TypeOK
  <2>2. offset[p] \in 0 .. sent
    BY DEF TypeOK
  <2>3. confirmed' \in 0 .. sent'
    BY <1>3, <2>2 DEF Poll, TypeOK, Later
  <2>4. handled' \in [1 .. MaxUpdates -> Nat]
    BY <1>3 DEF Poll, TypeOK
  <2> QED
    BY <1>3, <2>1, <2>3, <2>4 DEF Poll, TypeOK
<1>4. ASSUME NEW p \in Procs, LoseConnection(p) PROVE TypeOK'
  BY <1>4 DEF LoseConnection, TypeOK
<1>5. CASE Send
  <2>1. sent' \in 0 .. MaxUpdates /\ confirmed' \in 0 .. sent'
    BY <1>5 DEF Send, TypeOK
  <2>2. offset' \in [Procs -> 0 .. sent']
    BY <1>5 DEF Send, TypeOK
  <2> QED
    BY <1>5, <2>1, <2>2 DEF Send, TypeOK
<1>6. CASE Reap
  BY <1>6 DEF Reap, TypeOK
<1>7. CASE UNCHANGED vars
  BY <1>7 DEF vars, TypeOK
<1> QED
  BY <1>1, <1>2, <1>3, <1>4, <1>5, <1>6, <1>7, Steps

-----------------------------------------------------------------------------
\* The locks.
LEMMA StepLocks == TypeOK /\ Locks /\ [Next]_vars => Locks'
<1> SUFFICES ASSUME TypeOK, Locks, [Next]_vars PROVE Locks'
  OBVIOUS
<1> USE ProcsAssumption DEF Locks, locks, database, telegram
<1>0. /\ pc \in [Procs -> Stages] /\ fileLock \in [Hosts -> Procs \cup {Nobody}]
      /\ \A p \in Procs : HostOf[p] \in Hosts
      /\ cut \subseteq Procs /\ losses \in Nat
  BY InstanceBounds DEF TypeOK
<1>1. ASSUME NEW p \in Procs, Ending(p) PROVE Locks'
  <2>1. Ends(p) /\ losses' = losses
    BY <1>1 DEF Ending, MigrationFails, SingletonTaken, Exit, Die
  <2>2. dbLock' = dbLock \/ dbLock = p
    BY <1>1 DEF Ending, MigrationFails, SingletonTaken, Exit, Die
  <2>3. RunningHasFile' /\ CutIsLoss'
    BY <1>0, <2>1 DEF Ends, RunningHasFile, CutIsLoss
  <2>4. SingletonHasLock'
    BY <1>0, <2>1, <2>2 DEF Ends, SingletonHasLock, Singleton
  <2> QED
    BY <2>3, <2>4
<1>2. ASSUME NEW p \in Procs, Going(p) PROVE Locks'
  <2>1. cut' = cut /\ losses' = losses /\ CutIsLoss'
    BY <1>2 DEF Going, AcquireFile, BeginMigrations, Migrate, AcquireSingleton,
       StartPolling, Stop, ReleaseSingleton, CutIsLoss
  <2>2. CASE AcquireFile(p)
    <3>1. RunningHasFile'
      BY <1>0, <2>2 DEF AcquireFile, Goes, RunningHasFile
    <3>2. SingletonHasLock'
      BY <1>0, <2>2 DEF AcquireFile, Goes, SingletonHasLock, Singleton
    <3> QED
      BY <2>1, <3>1, <3>2
  <2>3. CASE BeginMigrations(p) \/ Migrate(p) \/ StartPolling(p) \/ Stop(p)
    <3>1. fileLock' = fileLock /\ dbLock' = dbLock
      BY <2>3 DEF BeginMigrations, Migrate, StartPolling, Stop
    <3>2. RunningHasFile'
      BY <1>0, <2>3, <3>1 DEF BeginMigrations, Migrate, StartPolling, Stop, Goes, RunningHasFile
    <3>3. SingletonHasLock'
      BY <1>0, <2>1, <2>3, <3>1 DEF BeginMigrations, Migrate, StartPolling, Stop, Goes,
         SingletonHasLock, Singleton
    <3> QED
      BY <2>1, <3>2, <3>3
  <2>4. CASE AcquireSingleton(p) \/ ReleaseSingleton(p)
    <3>1. RunningHasFile'
      BY <1>0, <2>4 DEF AcquireSingleton, ReleaseSingleton, Goes, RunningHasFile
    <3>2. SingletonHasLock'
      BY <1>0, <2>4 DEF AcquireSingleton, ReleaseSingleton, Goes, SingletonHasLock, Singleton
    <3> QED
      BY <2>1, <3>1, <3>2
  <2> QED
    BY <1>2, <2>2, <2>3, <2>4 DEF Going
<1>3. ASSUME NEW p \in Procs, LoseConnection(p) PROVE Locks'
  BY <1>0, <1>3 DEF LoseConnection, RunningHasFile, SingletonHasLock, CutIsLoss
<1>4. ASSUME NEW p \in Procs, Poll(p) PROVE Locks'
  BY <1>4 DEF Poll, RunningHasFile, SingletonHasLock, CutIsLoss
<1>5. CASE Send \/ Reap
  BY <1>5 DEF Send, Reap, RunningHasFile, SingletonHasLock, CutIsLoss
<1>6. CASE UNCHANGED vars
  BY <1>6 DEF vars, RunningHasFile, SingletonHasLock, CutIsLoss
<1> QED
  BY <1>1, <1>2, <1>3, <1>4, <1>5, <1>6, Steps

\* The schema only moves forward.
LEMMA SchemaForward == TypeOK /\ [Next]_vars => schema' \in Nat /\ schema' >= schema
<1> SUFFICES ASSUME TypeOK, [Next]_vars PROVE schema' \in Nat /\ schema' >= schema
  OBVIOUS
<1> USE DEF locks, database, telegram
<1>0. schema \in Nat /\ found \in [Procs -> Nat] /\ \A p \in Procs : VersionOf[p] \in Nat
  BY ProcsAssumption DEF TypeOK
<1>1. ASSUME NEW p \in Procs, Migrate(p) PROVE schema' \in Nat /\ schema' >= schema
  BY <1>0, <1>1 DEF Migrate, UpToDate, Upgradable
<1>2. ASSUME NEW p \in Procs, Ending(p) PROVE schema' = schema
  BY <1>2 DEF Ending, MigrationFails, SingletonTaken, Exit, Die
<1>3. ASSUME NEW p \in Procs, Going(p), ~Migrate(p) PROVE schema' = schema
  BY <1>3 DEF Going, AcquireFile, BeginMigrations, AcquireSingleton, StartPolling, Stop,
     ReleaseSingleton
<1> QED
  BY <1>0, <1>1, <1>2, <1>3, Steps DEF Poll, LoseConnection, Send, Reap, vars

LEMMA StepSchema == TypeOK /\ SchemaInv /\ [Next]_vars => SchemaInv'
<1> SUFFICES ASSUME TypeOK, SchemaInv, [Next]_vars PROVE SchemaInv'
  OBVIOUS
<1> USE DEF locks, database, telegram
<1>0. /\ pc \in [Procs -> Stages] /\ schema \in Nat /\ found \in [Procs -> Nat]
      /\ schema' \in Nat /\ schema' >= schema
      /\ \A p \in Procs : VersionOf[p] \in Nat
      /\ SchemaCaughtUp /\ FoundStands
  BY ProcsAssumption, SchemaForward DEF TypeOK, SchemaInv
<1>1. ASSUME NEW p \in Procs, Ending(p) PROVE SchemaInv'
  BY <1>0, <1>1 DEF Ending, MigrationFails, SingletonTaken, Exit, Die, Ends, SchemaInv,
     SchemaCaughtUp, FoundStands, Migrated, Singleton
<1>2. ASSUME NEW p \in Procs, Migrate(p) PROVE SchemaInv'
  <2>1. schema' >= VersionOf[p]
    <3>1. CASE UpToDate(p)
      BY <1>0, <1>2, <3>1 DEF Migrate, UpToDate, Goes, FoundStands
    <3>2. CASE ~UpToDate(p)
      BY <1>0, <1>2, <3>2 DEF Migrate
    <3> QED
      BY <3>1, <3>2
  <2>2. SchemaCaughtUp'
    BY <1>0, <1>2, <2>1 DEF Migrate, Goes, SchemaCaughtUp
  <2>3. FoundStands'
    BY <1>0, <1>2 DEF Migrate, Goes, FoundStands
  <2> QED
    BY <2>2, <2>3 DEF SchemaInv
<1>3. ASSUME NEW p \in Procs, BeginMigrations(p) PROVE SchemaInv'
  BY <1>0, <1>3 DEF BeginMigrations, Goes, SchemaInv, SchemaCaughtUp, FoundStands, Migrated,
     Singleton
<1>4. ASSUME NEW p \in Procs, Going(p), ~Migrate(p), ~BeginMigrations(p) PROVE SchemaInv'
  BY <1>0, <1>4 DEF Going, AcquireFile, AcquireSingleton, StartPolling, Stop, ReleaseSingleton,
     Goes, SchemaInv, SchemaCaughtUp, FoundStands, Migrated, Singleton
<1>5. ASSUME UNCHANGED <<pc, schema, found>> PROVE SchemaInv'
  BY <1>5, <1>0 DEF SchemaInv, SchemaCaughtUp, FoundStands
<1> QED
  BY <1>1, <1>2, <1>3, <1>4, <1>5, Steps DEF Poll, LoseConnection, Send, Reap, vars

-----------------------------------------------------------------------------
\* While no connection is lost, one process is past the advisory lock.
LEMMA OneSingleton ==
    ASSUME Locks, losses = 0, NEW p \in Procs, NEW q \in Procs,
           pc[p] \in Singleton, pc[q] \in Singleton
    PROVE  p = q
<1>1. cut = {}
  BY DEF Locks, CutIsLoss
<1> QED
  BY <1>1 DEF Locks, SingletonHasLock

\* The updates.
LEMMA StepHandled == TypeOK /\ Locks /\ NotYetHandled /\ [Next]_vars => NotYetHandled'
<1> SUFFICES ASSUME TypeOK, Locks, NotYetHandled, [Next]_vars PROVE NotYetHandled'
  OBVIOUS
<1> USE InstanceBounds DEF locks, database, telegram
<1>0. /\ pc \in [Procs -> Stages] /\ losses \in Nat /\ sent \in Nat
      /\ confirmed \in Nat /\ confirmed <= sent
      /\ offset \in [Procs -> Nat] /\ \A p \in Procs : offset[p] <= sent
      /\ handled \in [1 .. MaxUpdates -> Nat]
  BY DEF TypeOK
<1>1. ASSUME UNCHANGED <<sent, confirmed, handled, losses>>,
             \A p \in Procs : Polling(p)' => Polling(p) /\ offset'[p] = offset[p]
      PROVE  NotYetHandled'
  BY <1>1 DEF NotYetHandled, Polling
<1>2. ASSUME NEW p \in Procs, Ending(p) PROVE NotYetHandled'
  BY <1>0, <1>1, <1>2 DEF Ending, MigrationFails, SingletonTaken, Exit, Die, Ends, Polling
<1>3. ASSUME NEW p \in Procs, Going(p), ~StartPolling(p) PROVE NotYetHandled'
  BY <1>0, <1>1, <1>3 DEF Going, AcquireFile, BeginMigrations, Migrate, AcquireSingleton,
     Stop, ReleaseSingleton, Goes, Polling
<1>4. ASSUME NEW p \in Procs, StartPolling(p) PROVE NotYetHandled'
  BY <1>0, <1>4 DEF StartPolling, NotYetHandled
<1>5. ASSUME NEW p \in Procs, Poll(p) PROVE NotYetHandled'
  <2> SUFFICES ASSUME losses = 0 PROVE NotYetHandled'
    BY <1>5 DEF Poll, NotYetHandled
  <2>1. \A q \in Procs : Polling(q) => q = p
    BY <1>5, OneSingleton DEF Poll, Polling, Singleton
  <2>2. /\ pc' = pc /\ sent' = sent /\ losses' = losses /\ offset'[p] = sent
        /\ \A i \in 1 .. MaxUpdates :
              handled'[i] = IF Later(confirmed, offset[p]) < i /\ i <= sent
                            THEN handled[i] + 1 ELSE handled[i]
    BY <1>0, <1>5 DEF Poll
  <2>3. \A i \in 1 .. MaxUpdates : Later(confirmed, offset[p]) < i => handled[i] = 0
    BY <1>0, <1>5 DEF Poll, Polling, Later, NotYetHandled
  <2>4. \A i \in 1 .. MaxUpdates : handled'[i] <= 1 /\ (sent < i => handled'[i] = 0)
    BY <1>0, <2>2, <2>3 DEF NotYetHandled
  <2> QED
    BY <1>0, <2>1, <2>2, <2>4 DEF NotYetHandled, Polling
<1>6. CASE Send
  BY <1>0, <1>6 DEF Send, NotYetHandled, Polling
<1>7. ASSUME NEW p \in Procs, LoseConnection(p) PROVE NotYetHandled'
  BY <1>0, <1>7 DEF LoseConnection, NotYetHandled
<1>8. CASE Reap \/ UNCHANGED vars
  BY <1>1, <1>8 DEF Reap, vars, Polling
<1> QED
  BY <1>2, <1>3, <1>4, <1>5, <1>6, <1>7, <1>8, Steps

LEMMA InstanceInvariant == Spec => []InstanceInv
<1>1. InstanceInv /\ [Next]_vars => InstanceInv'
  BY StepTypeOK, StepLocks, StepSchema, StepHandled DEF InstanceInv
<1> QED
  BY <1>1, InitInstance, PTL DEF Spec

\* The variables keep their types.
THEOREM TypeCorrect == Spec => []TypeOK
<1>1. InstanceInv => TypeOK
  BY DEF InstanceInv
<1> QED
  BY <1>1, InstanceInvariant, PTL

\* Two pollers at the same time are on different hosts, and one of them has lost
\* the connection of its lock.
THEOREM OnePollerAtATime == Spec => []OnePoller
<1>1. InstanceInv => OnePoller
  <2> SUFFICES ASSUME Locks, NEW p \in Procs, NEW q \in Procs,
                      Polling(p), Polling(q), p # q
               PROVE  HostOf[p] # HostOf[q] /\ (p \in cut \/ q \in cut)
    BY DEF InstanceInv, OnePoller
  <2>1. HostOf[p] # HostOf[q]
    BY DEF Locks, RunningHasFile, Polling
  <2>2. p \in cut \/ q \in cut
    BY DEF Locks, SingletonHasLock, Polling, Singleton
  <2> QED
    BY <2>1, <2>2
<1> QED
  BY <1>1, InstanceInvariant, PTL

\* As long as no lock connection is lost, no update is handled twice, although
\* processes die between receiving and confirming.
THEOREM UpdatesHandledOnce == Spec => []HandledOnce
<1>1. InstanceInv => HandledOnce
  BY DEF InstanceInv, NotYetHandled, HandledOnce
<1> QED
  BY <1>1, InstanceInvariant, PTL

\* A poller never finds a schema older than its code, whichever process
\* migrated between its own look at the revision and its upgrade.
THEOREM SchemaReady == Spec => []SchemaNotBehind
<1>1. InstanceInv => SchemaNotBehind
  BY DEF InstanceInv, SchemaInv, SchemaCaughtUp, SchemaNotBehind, Migrated, Singleton, Polling
<1> QED
  BY <1>1, InstanceInvariant, PTL
=============================================================================
