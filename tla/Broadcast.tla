----------------------------- MODULE Broadcast -----------------------------
(***************************************************************************)
(* /broadcast: an admin composes a text, sees a preview with the buttons   *)
(* Send and Cancel, and the text goes to every approved player, one after  *)
(* the other (broadcast_send, NotificationService.broadcast).              *)
(*                                                                         *)
(* The handlers of one chat are serialized by its FSM key, the paced loop  *)
(* included: while a job of the chat is under way, its next update waits.  *)
(* The loop awaits after every message, so applications are approved and   *)
(* players withdraw between two messages.  The FSM data survive a crash    *)
(* with FSM_STORAGE=redis and are lost with FSM_STORAGE=memory.            *)
(*                                                                         *)
(* A text is a number, in the order of composing; previews never lose      *)
(* their buttons but when the bot edits them.                              *)
(***************************************************************************)
EXTENDS Naturals

CONSTANTS
    Admins,       \* the chats in which an admin broadcasts
    Players,
    MaxTexts,     \* bound: texts composed
    MaxCrashes    \* bound: process crashes

ASSUME BroadcastBounds == MaxTexts \in Nat /\ MaxCrashes \in Nat

VARIABLES
    approved,     \* list_approved: the players with an approved application
    fsm,          \* fsm[a]: the FSM state of the chat
    draft,        \* draft[a]: broadcast_text in the FSM data, NoText when absent
    previews,     \* previews[a]: previews in the chat whose buttons are there
    job,          \* job[a]: the broadcast_send that runs for the chat
    composed,     \* the number of texts composed so far
    crashes,
    tried,        \* observer: tried[t]: who was sent t, delivered or not
    received,     \* observer: received[t][p]: how often p got t
    dropped       \* observer: texts cancelled, cleared or composed anew

vars == <<approved, fsm, draft, previews, job, composed, crashes,
          tried, received, dropped>>
chats == <<fsm, draft, previews>>
observer == <<tried, received, dropped>>

NoText == 0
Texts == 1 .. MaxTexts
\* A job: its recipients, those not yet called, and the one to call again.
NoJob == [pc |-> "idle", text |-> NoText, list |-> {}, todo |-> {}, again |-> {}]
NewJob(t) == [pc |-> "announcing", text |-> t, list |-> approved,
              todo |-> approved, again |-> {}]
Free(a) == job[a].pc = "idle"
Composing == {"broadcast_message", "broadcast_confirm"}

Init ==
    /\ approved \in SUBSET Players
    /\ fsm = [a \in Admins |-> "none"]
    /\ draft = [a \in Admins |-> NoText]
    /\ previews = [a \in Admins |-> {}]
    /\ job = [a \in Admins |-> NoJob]
    /\ composed = 0
    /\ crashes = 0
    /\ tried = [t \in Texts |-> {}]
    /\ received = [t \in Texts |-> [p \in Players |-> 0]]
    /\ dropped = {}

-----------------------------------------------------------------------------
\* The flow in the chat.

\* The draft of a, if there is one, is given up.
Drops(a) == dropped' = dropped \cup ({draft[a]} \ {NoText})

\* state.clear().
Clear(a) ==
    /\ fsm' = [fsm EXCEPT ![a] = "none"]
    /\ draft' = [draft EXCEPT ![a] = NoText]

\* The message of a tapped button is edited and loses its buttons, unless
\* Telegram refuses the edit.
EditsPreview(a, t) ==
    previews' \in {previews, [previews EXCEPT ![a] = @ \ {t}]}

\* cmd_broadcast: in any state, and the old text stays among the data.
CmdBroadcast(a) ==
    /\ Free(a)
    /\ approved # {}
    /\ fsm' = [fsm EXCEPT ![a] = "broadcast_message"]
    /\ UNCHANGED <<approved, draft, previews, job, composed, crashes, observer>>

\* broadcast_compose, for a text that is neither a command nor too short.  The
\* state has moved on before the preview is sent, and a preview that is too
\* long for Telegram is refused.
Compose(a) ==
    /\ Free(a)
    /\ fsm[a] = "broadcast_message"
    /\ composed < MaxTexts /\ composed' = composed + 1
    /\ Drops(a)
    /\ draft' = [draft EXCEPT ![a] = composed']
    /\ fsm' = [fsm EXCEPT ![a] = "broadcast_confirm"]
    /\ previews' \in {previews, [previews EXCEPT ![a] = @ \cup {composed'}]}
    /\ UNCHANGED <<approved, job, crashes, tried, received>>

\* cancel_broadcast: the command.
CancelBroadcast(a) ==
    /\ Free(a)
    /\ fsm[a] \in Composing
    /\ Clear(a)
    /\ Drops(a)
    /\ UNCHANGED <<approved, previews, job, composed, crashes, tried, received>>

\* Mutant: the message says cancelled, the session is not reset.
BroadcastCancelKeeps(a, t) ==
    /\ Free(a)
    /\ fsm[a] = "broadcast_confirm" /\ t \in previews[a]
    /\ Drops(a)
    /\ EditsPreview(a, t)
    /\ UNCHANGED <<approved, fsm, draft, job, composed, crashes, tried, received>>

\* broadcast_cancel: the button of any preview.
BroadcastCancel(a, t) ==
    /\ Free(a)
    /\ fsm[a] = "broadcast_confirm" /\ t \in previews[a]
    /\ Clear(a)
    /\ Drops(a)
    /\ EditsPreview(a, t)
    /\ UNCHANGED <<approved, job, composed, crashes, tried, received>>

\* The other handlers of the chat share its FSM state: /edit and an old
\* consent message begin a form and keep the data ...
OtherFlowBegins(a) ==
    /\ Free(a)
    /\ fsm' = [fsm EXCEPT ![a] = "form"]
    /\ UNCHANGED <<approved, draft, previews, job, composed, crashes, observer>>

\* ... /start, /register, /withdraw and the end of a form clear them.
OtherFlowClears(a) ==
    /\ Free(a)
    /\ Clear(a)
    /\ Drops(a)
    /\ UNCHANGED <<approved, previews, job, composed, crashes, tried, received>>

-----------------------------------------------------------------------------
\* broadcast_send: the text is that of the FSM data, whatever preview was
\* tapped; the session is reset, the recipients are read, the transaction is
\* committed.  (Reading nothing from the data ends the handler at once.)
BroadcastSend(a, t) ==
    /\ Free(a)
    /\ fsm[a] = "broadcast_confirm" /\ t \in previews[a]
    /\ Clear(a)
    /\ job' = IF draft[a] = NoText THEN job
              ELSE [job EXCEPT ![a] = NewJob(draft[a])]
    /\ UNCHANGED <<approved, previews, composed, crashes, observer>>

\* "Sending ...": an edit of the tapped preview.  Telegram may refuse it, and
\* the exception ends the handler before anything was sent.
Announce(a) ==
    /\ job[a].pc = "announcing"
    /\ \/ /\ job' = [job EXCEPT ![a].pc = "sending"]
          /\ \E t \in previews[a] : EditsPreview(a, t)
       \/ /\ job' = [job EXCEPT ![a] = NoJob]
          /\ UNCHANGED previews
    /\ UNCHANGED <<approved, fsm, draft, composed, crashes, observer>>

Outcomes == {"delivered", "refused", "unclear", "flood"}

\* One send_message call of the job of a to p: "delivered"; "refused", not
\* delivered; "unclear", delivered but the answer was lost; "flood", rejected
\* with TelegramRetryAfter.
Call(a, p, outcome) ==
    LET t == job[a].text IN
    /\ tried' = [tried EXCEPT ![t] = @ \cup {p}]
    /\ received' = IF outcome \in {"delivered", "unclear"}
                   THEN [received EXCEPT ![t][p] = @ + 1] ELSE received
    /\ UNCHANGED <<approved, chats, composed, crashes, dropped>>

Sending(a) == job[a].pc = "sending" /\ job[a].again = {}

\* Mutant: every exception is answered with a second attempt.
SendOnceRetriesAll(a, p) ==
    /\ Sending(a)
    /\ p \in job[a].todo
    /\ \E outcome \in Outcomes :
       /\ Call(a, p, outcome)
       /\ job' = [job EXCEPT ![a].todo = @ \ {p},
                             ![a].again = IF outcome = "delivered" THEN {} ELSE {p}]

\* Mutant: the recipients are read anew after every message.
SendOnceReadsAgain(a, p) ==
    /\ Sending(a)
    /\ p \in job[a].todo
    /\ \E outcome \in Outcomes :
       /\ Call(a, p, outcome)
       /\ job' = [job EXCEPT ![a].todo = approved \ tried'[job[a].text],
                             ![a].again = IF outcome = "flood" THEN {p} ELSE {}]

\* _safe_send_once, the first attempt: a flooded call is repeated once, any
\* other exception is a failure and the loop goes on.
SendOnce(a, p) ==
    /\ Sending(a)
    /\ p \in job[a].todo
    /\ \E outcome \in Outcomes :
       /\ Call(a, p, outcome)
       /\ job' = [job EXCEPT ![a].todo = @ \ {p},
                             ![a].again = IF outcome = "flood" THEN {p} ELSE {}]

\* ... and the second attempt, whose exceptions are all failures.
SendAgain(a, p) ==
    /\ job[a].pc = "sending"
    /\ p \in job[a].again
    /\ \E outcome \in Outcomes : Call(a, p, outcome)
    /\ job' = [job EXCEPT ![a].again = {}]

\* The result is told to the admin, or the telling fails: the job is over.
Report(a) ==
    /\ Sending(a)
    /\ job[a].todo = {}
    /\ job' = [job EXCEPT ![a] = NoJob]
    /\ UNCHANGED <<approved, chats, composed, crashes, observer>>

-----------------------------------------------------------------------------
\* Elsewhere an application is approved, and a player withdraws.
Approve(p) ==
    /\ approved' = approved \cup {p}
    /\ UNCHANGED <<chats, job, composed, crashes, observer>>

Withdraw(p) ==
    /\ approved' = approved \ {p}
    /\ UNCHANGED <<chats, job, composed, crashes, observer>>

\* The process dies and is started again: the jobs are gone, and with the
\* memory storage the FSM data too.
Crash ==
    /\ crashes < MaxCrashes /\ crashes' = crashes + 1
    /\ job' = [a \in Admins |-> NoJob]
    /\ \/ UNCHANGED <<fsm, draft, dropped>>
       \/ /\ fsm' = [a \in Admins |-> "none"]
          /\ draft' = [a \in Admins |-> NoText]
          /\ dropped' = dropped \cup {draft[a] : a \in {b \in Admins : draft[b] # NoText}}
    /\ UNCHANGED <<approved, previews, composed, tried, received>>

-----------------------------------------------------------------------------
\* The steps of a job.
JobContinues(a) ==
    \/ Announce(a) \/ Report(a)
    \/ \E p \in Players : SendOnce(a, p) \/ SendAgain(a, p)

Next ==
    \/ \E a \in Admins :
          \/ CmdBroadcast(a) \/ Compose(a) \/ CancelBroadcast(a)
          \/ \E t \in Texts : BroadcastCancel(a, t) \/ BroadcastSend(a, t)
          \/ OtherFlowBegins(a) \/ OtherFlowClears(a)
          \/ JobContinues(a)
    \/ \E p \in Players : Approve(p) \/ Withdraw(p)
    \/ Crash

Spec == Init /\ [][Next]_vars
-----------------------------------------------------------------------------
\* Properties

TypeOK ==
    /\ approved \subseteq Players
    /\ fsm \in [Admins -> {"none", "form"} \cup Composing]
    /\ draft \in [Admins -> {NoText} \cup Texts]
    /\ previews \in [Admins -> SUBSET Texts]
    /\ job \in [Admins -> [pc : {"idle", "announcing", "sending"},
                           text : {NoText} \cup Texts, list : SUBSET Players,
                           todo : SUBSET Players, again : SUBSET Players]]
    /\ \A a \in Admins : /\ job[a].todo \cup job[a].again \subseteq job[a].list
                         /\ ~Free(a) => job[a].text # NoText
    /\ composed \in 0 .. MaxTexts
    /\ crashes \in 0 .. MaxCrashes
    /\ tried \in [Texts -> SUBSET Players]
    /\ received \in [Texts -> [Players -> Nat]]
    /\ dropped \subseteq Texts

\* Nobody gets a text twice, whatever is tapped again, retried or restarted;
\* and when a job tells its result, everyone on its list was called.
OncePerRecipient ==
    /\ \A t \in Texts, p \in Players : received[t][p] <= 1
    /\ \A a \in Admins :
          Sending(a) /\ job[a].todo = {} => tried[job[a].text] = job[a].list

\* A text that was cancelled, cleared away or composed anew is not sent any
\* more, although the Send button below its preview still works: a tap sends
\* the present draft.
DroppedStaysUnsent ==
    \A a \in Admins : ~Free(a) => job[a].text \notin dropped
=============================================================================
