----------------------------- MODULE AdminPing -----------------------------
(***************************************************************************)
(* The ping that tells the admins of a new application: what confirm_submit *)
(* does after its commit, and the debounce of                              *)
(* NotificationService.notify_admins_new_application.                      *)
(*                                                                         *)
(* The submits of several players run side by side and await between the   *)
(* commit, the two replies, the count of the queue and the ping; admins    *)
(* decide and players withdraw meanwhile.  The moment of the last ping is   *)
(* kept by the process, which may die and be started again.                *)
(*                                                                         *)
(* Time is counted in ticks, and the number in a ping is modelled by the   *)
(* set of applications that were counted.                                  *)
(***************************************************************************)
EXTENDS Integers

CONSTANTS
    Apps,         \* the applications submitted
    Admins,       \* ADMIN_IDS, may be empty
    Window,       \* admin_ping_window
    MaxTime,      \* bound: the clock
    MaxCrashes    \* bound: process crashes

ASSUME WindowAssumption == Window \in Nat
ASSUME PingBounds == MaxTime \in Nat /\ MaxCrashes \in Nat

VARIABLES
    now,          \* time.monotonic()
    last,         \* _last_admin_ping: empty for None, or the moment
    queue,        \* the applications in pending_review
    pc,           \* pc[x]: how far the submit of x has come
    counted,      \* counted[x]: what the submit of x has counted
    todo,         \* todo[x]: the admins the ping of x has still to call
    crashes,
    pings,        \* observer: the pings begun, each with its process
    skippedAt     \* observer: skippedAt[x]: when the ping of x was dropped

vars == <<now, last, queue, pc, counted, todo, crashes, pings, skippedAt>>
ping == <<last, todo, pings, skippedAt>>

\* Before the commit; after it, after the replies, after the count; in the
\* loop over the admins.  At the end: told, dropped by the debounce, or
\* silent, when the handler failed before the ping.
Stages == {"form", "committed", "replied", "counted", "pinging",
           "told", "skipped", "silent"}
Running == {"committed", "replied", "counted", "pinging"}

Init ==
    /\ now = 0
    /\ last = {}
    /\ queue = {}
    /\ pc = [x \in Apps |-> "form"]
    /\ counted = [x \in Apps |-> {}]
    /\ todo = [x \in Apps |-> {}]
    /\ crashes = 0
    /\ pings = {}
    /\ skippedAt = [x \in Apps |-> 0]

Goes(x, from, to) == pc[x] = from /\ pc' = [pc EXCEPT ![x] = to]

-----------------------------------------------------------------------------
\* The commit of submit_registration; the session is reset.
Commit(x) ==
    /\ Goes(x, "form", "committed")
    /\ queue' = queue \cup {x}
    /\ UNCHANGED <<now, counted, crashes, ping>>

\* edit_text and answer.
Reply(x) ==
    /\ Goes(x, "committed", "replied")
    /\ UNCHANGED <<now, queue, counted, crashes, ping>>

\* Telegram refuses the edit or the answer, or the database the count: the
\* exception ends the handler, the application stays.
Fail(x) ==
    /\ Goes(x, "committed", "silent") \/ Goes(x, "replied", "silent")
    /\ UNCHANGED <<now, queue, counted, crashes, ping>>

\* count_pending.
Count(x) ==
    /\ Goes(x, "replied", "counted")
    /\ counted' = [counted EXCEPT ![x] = queue]
    /\ UNCHANGED <<now, queue, crashes, ping>>

Debounced == \E t \in last : now - t < Window

\* The text is made and the loop begins.
Begin(x) ==
    /\ Goes(x, "counted", "pinging")
    /\ todo' = [todo EXCEPT ![x] = Admins]
    /\ pings' = pings \cup
          {[by |-> x, at |-> now, shown |-> counted[x], boot |-> crashes]}

\* Mutant: the moment is not noted before the loop.
NotifyUnstamped(x) ==
    /\ Admins # {} /\ ~Debounced
    /\ Begin(x)
    /\ UNCHANGED <<now, last, queue, counted, crashes, skippedAt>>

\* notify_admins_new_application: nothing is awaited between the look at the
\* last ping and the note of this one.
Notify(x) ==
    /\ Admins # {} /\ ~Debounced
    /\ last' = {now}
    /\ Begin(x)
    /\ UNCHANGED <<now, queue, counted, crashes, skippedAt>>

\* ... within the window, or without ADMIN_IDS: the early returns.
Dropped(x) ==
    /\ Admins = {} \/ Debounced
    /\ Goes(x, "counted", "skipped")
    /\ skippedAt' = [skippedAt EXCEPT ![x] = now]
    /\ UNCHANGED <<now, queue, counted, todo, crashes, pings>>

\* Mutant: a dropped ping begins a new window.
NotifySlides(x) ==
    /\ last' = {now}
    /\ Dropped(x)

NotifySkipped(x) ==
    /\ last' = last
    /\ Dropped(x)

\* _safe_send to the admin d.  Whether it arrives makes no difference: an
\* exception is logged, and the loop goes on.
SendPing(x, d) ==
    /\ pc[x] = "pinging" /\ d \in todo[x]
    /\ todo' = [todo EXCEPT ![x] = @ \ {d}]
    /\ UNCHANGED <<now, last, queue, pc, counted, crashes, pings, skippedAt>>

\* The loop is over.
Told(x) ==
    /\ todo[x] = {}
    /\ Goes(x, "pinging", "told")
    /\ UNCHANGED <<now, queue, counted, crashes, ping>>

-----------------------------------------------------------------------------
\* An admin decides on x, or its player withdraws.
Leave(x) ==
    /\ x \in queue
    /\ queue' = queue \ {x}
    /\ UNCHANGED <<now, pc, counted, crashes, ping>>

Tick ==
    /\ now < MaxTime
    /\ now' = now + 1
    /\ UNCHANGED <<queue, pc, counted, crashes, ping>>

\* The process dies and is started again, with _last_admin_ping = None.
Crash ==
    /\ crashes < MaxCrashes /\ crashes' = crashes + 1
    /\ last' = {}
    /\ pc' = [x \in Apps |-> IF pc[x] \in Running THEN "silent" ELSE pc[x]]
    /\ todo' = [x \in Apps |-> {}]
    /\ UNCHANGED <<now, queue, counted, pings, skippedAt>>

-----------------------------------------------------------------------------
Next ==
    \/ \E x \in Apps :
          \/ Commit(x) \/ Reply(x) \/ Fail(x) \/ Count(x)
          \/ Notify(x) \/ NotifySkipped(x)
          \/ \E d \in Admins : SendPing(x, d)
          \/ Told(x) \/ Leave(x)
    \/ Tick
    \/ Crash

Spec == Init /\ [][Next]_vars
-----------------------------------------------------------------------------
\* Properties

TypeOK ==
    /\ now \in 0 .. MaxTime
    /\ last \subseteq 0 .. now
    /\ pc \in [Apps -> Stages]
    /\ queue \subseteq {x \in Apps : pc[x] # "form"}
    /\ counted \in [Apps -> SUBSET Apps]
    /\ todo \in [Apps -> SUBSET Admins]
    /\ crashes \in 0 .. MaxCrashes
    /\ pings \subseteq [by : Apps, at : 0 .. now, shown : SUBSET Apps,
                        boot : 0 .. crashes]
    /\ skippedAt \in [Apps -> 0 .. now]

\* However many submits reach the ping at once, a process begins its pings at
\* least a window apart.
PingsSpaced ==
    \A p, q \in pings :
        p # q /\ p.boot = q.boot /\ p.at <= q.at => p.at + Window <= q.at

\* An application that waits in the queue and whose handler came to its end was
\* counted in the ping its handler sent, or else the admins were pinged less
\* than a window before: a stream of submits cannot keep them uninformed.
NoticedOrDebounced ==
    \A x \in queue :
        /\ pc[x] \in {"pinging", "told"} => \E p \in pings : x \in p.shown
        /\ pc[x] = "skipped" /\ Admins # {} => \E p \in pings :
              p.at <= skippedAt[x] /\ skippedAt[x] < p.at + Window
=============================================================================
