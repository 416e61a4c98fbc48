------------------------------ MODULE Instance ------------------------------
(***************************************************************************)
(* Start-up, polling and shutdown of the bot's processes (main.py), with   *)
(* the two locks that are to keep them apart: a file lock per host         *)
(* (InstanceLock) and a PostgreSQL advisory lock held by a connection of   *)
(* its own (acquire_singleton_db_lock).                                    *)
(*                                                                         *)
(* External: the operating system frees the file lock of a process that    *)
(* ends; PostgreSQL frees the advisory lock when it learns that the        *)
(* connection is gone, at once or some time later; Telegram keeps the      *)
(* updates in order and hands them out again until a later getUpdates call *)
(* confirms them by its offset; Alembic upgrades the schema in one         *)
(* transaction, which fails when the revision it started from is gone, and *)
(* does nothing when the revision it read is its own head.                 *)
(***************************************************************************)
EXTENDS Integers

CONSTANTS
    Procs, Hosts, HostOf,
    VersionOf,    \* the head revision of the migrations a process ships
    Nobody, Dead, \* the advisory lock: free; held by a connection nobody uses
    MaxUpdates,   \* bound: updates sent to the bot
    MaxFaults,    \* bound: failed starts, deaths and stops
    MaxLosses     \* bound: lost lock connections

ASSUME ProcsAssumption ==
    /\ HostOf \in [Procs -> Hosts] /\ VersionOf \in [Procs -> Nat]
    /\ Nobody \notin Procs /\ Dead \notin Procs /\ Dead # Nobody
ASSUME InstanceBounds == MaxUpdates \in Nat /\ MaxFaults \in Nat /\ MaxLosses \in Nat

VARIABLES
    pc,           \* pc[p]: how far main() of p has come
    fileLock,     \* fileLock[h]: the process that holds .bot.lock on h
    dbLock,       \* the holder of the advisory lock
    cut,          \* the processes whose lock connection is lost
    schema,       \* the revision of the database
    found,        \* found[p]: the revision Alembic found for p
    sent,         \* Telegram: the last update id
    confirmed,    \* Telegram: the last id confirmed or dropped
    offset,       \* offset[p]: the last id p has received
    faults, losses,
    handled       \* observer: handled[i]: how often update i was handled

vars == <<pc, fileLock, dbLock, cut, schema, found, sent, confirmed, offset,
          faults, losses, handled>>
locks == <<fileLock, dbLock, cut>>
database == <<schema, found>>
telegram == <<sent, confirmed, offset, handled>>

\* After the file lock, the migrations, the advisory lock, delete_webhook; and
\* in the finally block, before and after the advisory lock is given back.
Stages == {"down", "locked", "migrating", "migrated", "singleton", "polling",
           "stopping", "released"}
Singleton == {"singleton", "polling", "stopping"}

Init ==
    /\ pc = [p \in Procs |-> "down"]
    /\ fileLock = [h \in Hosts |-> Nobody]
    /\ dbLock = Nobody
    /\ cut = {}
    /\ schema = 0
    /\ found = [p \in Procs |-> 0]
    /\ sent = 0
    /\ confirmed = 0
    /\ offset = [p \in Procs |-> 0]
    /\ faults = 0
    /\ losses = 0
    /\ handled = [i \in 1 .. MaxUpdates |-> 0]

Goes(p, from, to) == pc[p] = from /\ pc' = [pc EXCEPT ![p] = to]

\* Mutant: the lock is that the file exists, and nobody deletes it.
EndsFileStays(p) ==
    /\ pc' = [pc EXCEPT ![p] = "down"]
    /\ cut' = cut \ {p}
    /\ offset' = [offset EXCEPT ![p] = 0]
    /\ UNCHANGED fileLock

\* The process of p ends: the file lock is free again.
Ends(p) ==
    /\ pc' = [pc EXCEPT ![p] = "down"]
    /\ fileLock' = [h \in Hosts |-> IF fileLock[h] = p THEN Nobody ELSE fileLock[h]]
    /\ cut' = cut \ {p}
    /\ offset' = [offset EXCEPT ![p] = 0]

-----------------------------------------------------------------------------
\* Start-up.

\* InstanceLock.acquire with timeout 0: a second process on the host exits.
AcquireFile(p) ==
    /\ fileLock[HostOf[p]] = Nobody
    /\ Goes(p, "down", "locked")
    /\ fileLock' = [fileLock EXCEPT ![HostOf[p]] = p]
    /\ UNCHANGED <<dbLock, cut, database, telegram, faults, losses>>

\* run_migrations: Alembic reads the revision ...
BeginMigrations(p) ==
    /\ Goes(p, "locked", "migrating")
    /\ found' = [found EXCEPT ![p] = schema]
    /\ UNCHANGED <<locks, schema, telegram, faults, losses>>

\* ... and has nothing to do when that is the head of p's version, or upgrades
\* from it to that head, unless another process has moved the revision meanwhile.
UpToDate(p) == found[p] = VersionOf[p]
Upgradable(p) == found[p] < VersionOf[p] /\ found[p] = schema

Migrate(p) ==
    /\ UpToDate(p) \/ Upgradable(p)
    /\ Goes(p, "migrating", "migrated")
    /\ schema' = IF UpToDate(p) THEN schema ELSE VersionOf[p]
    /\ UNCHANGED <<locks, found, telegram, faults, losses>>

\* Mutant: a failed upgrade is logged, and the start-up goes on.
MigrationFailsLogged(p) ==
    /\ ~UpToDate(p) /\ ~Upgradable(p)
    /\ Goes(p, "migrating", "migrated")
    /\ UNCHANGED <<locks, database, telegram, faults, losses>>

\* The upgrade lost its starting point, or the revision is one that p's version
\* does not know: run_migrations raises.
MigrationFails(p) ==
    /\ pc[p] = "migrating"
    /\ ~UpToDate(p) /\ ~Upgradable(p)
    /\ Ends(p)
    /\ UNCHANGED <<dbLock, database, sent, confirmed, handled, faults, losses>>

\* Mutant: the lock is tried, the answer is not looked at.
AcquireSingletonBlind(p) ==
    /\ Goes(p, "migrated", "singleton")
    /\ dbLock' = IF dbLock = Nobody THEN p ELSE dbLock
    /\ UNCHANGED <<fileLock, cut, database, telegram, faults, losses>>

\* pg_try_advisory_lock on a connection that stays open.
AcquireSingleton(p) ==
    /\ dbLock = Nobody
    /\ Goes(p, "migrated", "singleton")
    /\ dbLock' = p
    /\ UNCHANGED <<fileLock, cut, database, telegram, faults, losses>>

\* AnotherInstanceRunningError: the file lock is given back, exit status 1.
SingletonTaken(p) ==
    /\ pc[p] = "migrated"
    /\ dbLock # Nobody
    /\ Ends(p)
    /\ UNCHANGED <<dbLock, database, sent, confirmed, handled, faults, losses>>

\* Mutant: the waiting updates are kept.
StartPollingKeepUpdates(p) ==
    /\ Goes(p, "singleton", "polling")
    /\ UNCHANGED <<locks, database, telegram, faults, losses>>

\* delete_webhook(drop_pending_updates=True), then start_polling.
StartPolling(p) ==
    /\ Goes(p, "singleton", "polling")
    /\ confirmed' = sent
    /\ UNCHANGED <<locks, database, sent, offset, handled, faults, losses>>

-----------------------------------------------------------------------------
\* Somebody sends the bot an update.
Send ==
    /\ sent < MaxUpdates
    /\ sent' = sent + 1
    /\ UNCHANGED <<pc, locks, database, confirmed, offset, handled, faults, losses>>

Later(i, j) == IF i > j THEN i ELSE j

\* Mutant: one more than what was received counts as received.
PollSkipsOne(p) ==
    /\ pc[p] = "polling"
    /\ LET done == Later(confirmed, offset[p]) IN
       /\ done < sent
       /\ confirmed' = done
       /\ handled' = [i \in 1 .. MaxUpdates |->
             IF done < i /\ i <= sent THEN handled[i] + 1 ELSE handled[i]]
    /\ offset' = [offset EXCEPT ![p] = sent + 1]
    /\ UNCHANGED <<pc, locks, database, sent, faults, losses>>

\* getUpdates of p: its offset confirms what p has received, Telegram answers
\* with the rest, and p starts a handler for each update.
Poll(p) ==
    /\ pc[p] = "polling"
    /\ LET done == Later(confirmed, offset[p]) IN
       /\ done < sent
       /\ confirmed' = done
       /\ handled' = [i \in 1 .. MaxUpdates |->
             IF done < i /\ i <= sent THEN handled[i] + 1 ELSE handled[i]]
    /\ offset' = [offset EXCEPT ![p] = sent]
    /\ UNCHANGED <<pc, locks, database, sent, faults, losses>>

-----------------------------------------------------------------------------
\* Shutdown.

\* A signal stops the polling; the finally block begins.
Stop(p) ==
    /\ faults < MaxFaults /\ faults' = faults + 1
    /\ Goes(p, "polling", "stopping")
    /\ UNCHANGED <<locks, database, telegram, losses>>

\* release_singleton_db_lock.  On a lost connection the unlock fails, which is
\* only logged.
ReleaseSingleton(p) ==
    /\ Goes(p, "stopping", "released")
    /\ dbLock' = IF dbLock = p THEN Nobody ELSE dbLock
    /\ UNCHANGED <<fileLock, cut, database, telegram, faults, losses>>

\* lock.release() and the end of main().
Exit(p) ==
    /\ pc[p] = "released"
    /\ Ends(p)
    /\ UNCHANGED <<dbLock, database, sent, confirmed, handled, faults, losses>>

-----------------------------------------------------------------------------
\* Failures.

\* Any step of main() raises (database, Redis or Telegram out of reach), or the
\* process is killed.  PostgreSQL may learn of it later.
Die(p) ==
    /\ pc[p] # "down"
    /\ faults < MaxFaults /\ faults' = faults + 1
    /\ Ends(p)
    /\ dbLock' \in IF dbLock = p THEN {Nobody, Dead} ELSE {dbLock}
    /\ UNCHANGED <<database, sent, confirmed, handled, losses>>

\* PostgreSQL notices that a connection is dead.
Reap ==
    /\ dbLock = Dead
    /\ dbLock' = Nobody
    /\ UNCHANGED <<pc, fileLock, cut, database, telegram, faults, losses>>

\* The connection of the lock breaks (failover, idle timeout).  Nothing in the
\* process uses or watches it, so the bot goes on polling.
LoseConnection(p) ==
    /\ dbLock = p
    /\ losses < MaxLosses /\ losses' = losses + 1
    /\ dbLock' = Nobody
    /\ cut' = cut \cup {p}
    /\ UNCHANGED <<pc, fileLock, database, telegram, faults>>

-----------------------------------------------------------------------------
\* The steps of main() that need no signal.
Advances(p) ==
    \/ BeginMigrations(p) \/ Migrate(p) \/ MigrationFails(p)
    \/ SingletonTaken(p) \/ StartPolling(p) \/ Poll(p)
    \/ ReleaseSingleton(p) \/ Exit(p)

Next ==
    \/ \E p \in Procs :
          \/ AcquireFile(p) \/ AcquireSingleton(p) \/ Advances(p)
          \/ Stop(p) \/ Die(p) \/ LoseConnection(p)
    \/ Send \/ Reap

Spec == Init /\ [][Next]_vars

\* main() goes on; the supervisor (restart: unless-stopped, ALWAYS on Railway)
\* starts an ended process again and again, so that it meets a free lock some
\* time; PostgreSQL notices dead connections.
Fairness ==
    /\ \A p \in Procs :
          /\ WF_vars(Advances(p))
          /\ SF_vars(AcquireFile(p)) /\ SF_vars(AcquireSingleton(p))
    /\ WF_vars(Reap)

FairSpec == Spec /\ Fairness
-----------------------------------------------------------------------------
\* Properties

TypeOK ==
    /\ pc \in [Procs -> Stages]
    /\ fileLock \in [Hosts -> Procs \cup {Nobody}]
    /\ dbLock \in Procs \cup {Nobody, Dead}
    /\ cut \subseteq Procs
    /\ schema \in Nat
    /\ found \in [Procs -> Nat]
    /\ sent \in 0 .. MaxUpdates
    /\ confirmed \in 0 .. sent
    /\ offset \in [Procs -> 0 .. sent]
    /\ faults \in 0 .. MaxFaults
    /\ losses \in 0 .. MaxLosses
    /\ handled \in [1 .. MaxUpdates -> Nat]

Polling(p) == pc[p] = "polling"

\* Two processes poll at the same time only when one of them has lost the
\* connection of its advisory lock, and never on one host.
OnePoller ==
    \A p, q \in Procs : Polling(p) /\ Polling(q) /\ p # q =>
        HostOf[p] # HostOf[q] /\ (p \in cut \/ q \in cut)

\* As long as no lock connection is lost, no update is handled twice, although
\* a process may die before it has confirmed what it has received.
HandledOnce == losses = 0 => \A i \in 1 .. MaxUpdates : handled[i] <= 1

\* A process that polls finds the schema its code was written for, or a later
\* one: another host may migrate under it, but nobody migrates back.
SchemaNotBehind == \A p \in Procs : Polling(p) => schema >= VersionOf[p]

\* Once failures cease somebody polls, however the locks were left behind.
TakesOver == <>[](\E p \in Procs : Polling(p))
=============================================================================
