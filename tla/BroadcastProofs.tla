-------------------------- MODULE BroadcastProofs --------------------------
(* Theorems about Broadcast, for every set of admins and players and every  *)
(* bound.                                                                   *)
EXTENDS Broadcast, TLAPS

\* No message with t has gone out, and nobody is about to send one.
Fresh(t) ==
    /\ tried[t] = {}
    /\ t \notin dropped
    /\ \A a \in Admins : ~Free(a) => job[a].text # t

\* Only a job has sent anything: the drafts and the texts to come are fresh.
DraftsFresh ==
    \A a \in Admins : draft[a] # NoText => draft[a] <= composed /\ Fresh(draft[a])
FutureFresh == \A t \in Texts : composed < t => Fresh(t)

\* A text has one author, as a draft and as a job.
DraftsDiffer ==
    \A a, b \in Admins : a # b /\ draft[a] # NoText => draft[a] # draft[b]
JobsDiffer ==
    \A a, b \in Admins : a # b /\ ~Free(a) /\ ~Free(b) => job[a].text # job[b].text

\* The players that were called and those still to be called make up the list,
\* and the one to be called again did not get the text.
JobsSound ==
    \A a \in Admins : ~Free(a) =>
        /\ tried[job[a].text] \cup job[a].todo = job[a].list
        /\ tried[job[a].text] \cap job[a].todo = {}
        /\ job[a].again \subseteq tried[job[a].text]
        /\ \A p \in job[a].again : received[job[a].text][p] = 0

\* Who was not called has received nothing, and nobody has received it twice.
ReceivedOnce ==
    \A t \in Texts, p \in Players :
        received[t][p] = 0 \/ (received[t][p] = 1 /\ p \in tried[t])

Sent == JobsSound /\ ReceivedOnce
BroadcastInv ==
    /\ TypeOK /\ DraftsFresh /\ FutureFresh /\ DraftsDiffer /\ JobsDiffer
    /\ Sent /\ DroppedStaysUnsent

LEMMA InitBroadcast == Init => BroadcastInv
<1> SUFFICES ASSUME Init PROVE BroadcastInv
  OBVIOUS
<1>1. TypeOK
  BY BroadcastBounds DEF Init, TypeOK, NoJob, NoText, Composing, Free, Texts
<1> QED
  BY <1>1 DEF Init, BroadcastInv, DraftsFresh, FutureFresh, DraftsDiffer, JobsDiffer,
     Sent, JobsSound, ReceivedOnce, DroppedStaysUnsent, Fresh, Free, NoJob

-----------------------------------------------------------------------------
\* The part of TypeOK that is about jobs.
JobsTyped ==
    /\ job \in [Admins -> [pc : {"idle", "announcing", "sending"},
                           text : {NoText} \cup Texts, list : SUBSET Players,
                           todo : SUBSET Players, again : SUBSET Players]]
    /\ \A a \in Admins : /\ job[a].todo \cup job[a].again \subseteq job[a].list
                         /\ ~Free(a) => job[a].text # NoText

\* ... and the rest of it.
OthersTyped ==
    /\ approved \subseteq Players
    /\ fsm \in [Admins -> {"none", "form"} \cup Composing]
    /\ draft \in [Admins -> {NoText} \cup Texts]
    /\ previews \in [Admins -> SUBSET Texts]
    /\ composed \in 0 .. MaxTexts
    /\ crashes \in 0 .. MaxCrashes
    /\ tried \in [Texts -> SUBSET Players]
    /\ received \in [Texts -> [Players -> Nat]]
    /\ dropped \subseteq Texts

LEMMA TypeParts == TypeOK <=> JobsTyped /\ OthersTyped
<1> QED
  BY DEF TypeOK, JobsTyped, OthersTyped

\* A step that leaves the jobs alone keeps them typed.
LEMMA SameJobs == JobsTyped /\ job' = job => JobsTyped'
<1> QED
  BY DEF JobsTyped, Free

\* So does one that gives a a job that is typed.
LEMMA OneJob ==
    ASSUME JobsTyped, NEW a \in Admins,
           NEW j \in [pc : {"idle", "announcing", "sending"},
                      text : {NoText} \cup Texts, list : SUBSET Players,
                      todo : SUBSET Players, again : SUBSET Players],
           j.todo \cup j.again \subseteq j.list,
           j.pc # "idle" => j.text # NoText,
           job' = [job EXCEPT ![a] = j]
    PROVE  JobsTyped'
<1>1. \A b \in Admins : job'[b] = IF b = a THEN j ELSE job[b]
  BY DEF JobsTyped
<1>2. job' \in [Admins -> [pc : {"idle", "announcing", "sending"},
                      text : {NoText} \cup Texts, list : SUBSET Players,
                      todo : SUBSET Players, again : SUBSET Players]]
  BY DEF JobsTyped
<1>3. \A b \in Admins : /\ job'[b].todo \cup job'[b].again \subseteq job'[b].list
                        /\ job'[b].pc # "idle" => job'[b].text # NoText
  BY <1>1 DEF JobsTyped, Free
<1> QED
  BY <1>2, <1>3 DEF JobsTyped, Free

\* A draft that is given up is a text.
LEMMA DropsTyped ==
    ASSUME OthersTyped, NEW a \in Admins, Drops(a)
    PROVE  dropped' \subseteq Texts
<1>1. draft[a] \in {NoText} \cup Texts
  BY DEF OthersTyped
<1> QED
  BY <1>1 DEF OthersTyped, Drops

\* Every step keeps the types.
LEMMA StepTypeOK == TypeOK /\ [Next]_vars => TypeOK'
<1> SUFFICES ASSUME JobsTyped, OthersTyped, [Next]_vars PROVE JobsTyped' /\ OthersTyped'
  BY TypeParts DEF TypeOK, JobsTyped, OthersTyped
<1> USE BroadcastBounds DEF Composing, NoText, Texts, observer, chats
<1>1. ASSUME NEW a \in Admins, CmdBroadcast(a) \/ CancelBroadcast(a)
                               \/ OtherFlowBegins(a) \/ OtherFlowClears(a)
      PROVE  JobsTyped' /\ OthersTyped'
  <2>1. job' = job
    BY <1>1 DEF CmdBroadcast, CancelBroadcast, OtherFlowBegins, OtherFlowClears
  <2>2. dropped' \subseteq Texts
    BY <1>1, DropsTyped DEF OthersTyped, CmdBroadcast, CancelBroadcast, OtherFlowBegins,
       OtherFlowClears
  <2>3. OthersTyped'
    BY <1>1, <2>2 DEF OthersTyped, CmdBroadcast, CancelBroadcast, OtherFlowBegins,
       OtherFlowClears, Clear
  <2> QED
    BY <2>1, <2>3, SameJobs
<1>2. ASSUME NEW a \in Admins, Compose(a) PROVE JobsTyped' /\ OthersTyped'
  <2>1. job' = job
    BY <1>2 DEF Compose
  <2>2. composed' \in Texts
    BY <1>2 DEF OthersTyped, Compose
  <2>3. dropped' \subseteq Texts
    BY <1>2, DropsTyped DEF Compose
  <2>4. previews' \in [Admins -> SUBSET Texts]
    <3>1. \A x \in {previews[a] \cup {composed'}} : [previews EXCEPT ![a] = x] \in [Admins -> SUBSET Texts]
      BY <2>2 DEF OthersTyped
    <3> QED
      BY <1>2, <3>1 DEF OthersTyped, Compose
  <2>5. draft' \in [Admins -> {NoText} \cup Texts] /\ composed' \in 0 .. MaxTexts
    BY <1>2, <2>2 DEF OthersTyped, Compose
  <2>6. fsm' \in [Admins -> {"none", "form"} \cup Composing]
    BY <1>2 DEF OthersTyped, Compose
  <2>7. UNCHANGED <<approved, crashes, tried, received>>
    BY <1>2 DEF Compose
  <2> QED
    BY <2>1, <2>3, <2>4, <2>5, <2>6, <2>7, SameJobs DEF OthersTyped
<1>3. ASSUME NEW a \in Admins, NEW t \in Texts, BroadcastCancel(a, t)
      PROVE  JobsTyped' /\ OthersTyped'
  <2>1. job' = job
    BY <1>3 DEF BroadcastCancel
  <2>2. OthersTyped'
    BY <1>3 DEF OthersTyped, BroadcastCancel, Clear, Drops, EditsPreview
  <2> QED
    BY <2>1, <2>2, SameJobs
<1>4. ASSUME NEW a \in Admins, NEW t \in Texts, BroadcastSend(a, t)
      PROVE  JobsTyped' /\ OthersTyped'
  <2>1. OthersTyped'
    BY <1>4 DEF OthersTyped, BroadcastSend, Clear
  <2>2. CASE draft[a] = NoText
    BY <1>4, <2>1, <2>2, SameJobs DEF BroadcastSend
  <2>3. CASE draft[a] # NoText
    <3>1. job' = [job EXCEPT ![a] = NewJob(draft[a])]
      BY <1>4, <2>3 DEF BroadcastSend
    <3>2. JobsTyped'
      BY <2>3, <3>1, OneJob DEF OthersTyped, NewJob
    <3> QED
      BY <2>1, <3>2
  <2> QED
    BY <2>2, <2>3
<1>5. ASSUME NEW a \in Admins, Announce(a) \/ Report(a) PROVE JobsTyped' /\ OthersTyped'
  <2>1. OthersTyped'
    BY <1>5 DEF OthersTyped, Announce, Report, EditsPreview
  <2>2. CASE job' = [job EXCEPT ![a] = NoJob]
    BY <2>1, <2>2, OneJob DEF NoJob
  <2>3. CASE job[a].pc = "announcing" /\ job' = [job EXCEPT ![a].pc = "sending"]
    <3>1. job' = [job EXCEPT ![a] = [job[a] EXCEPT !.pc = "sending"]]
      BY <2>3
    <3>2. JobsTyped'
      BY <2>3, <3>1, OneJob DEF JobsTyped, Free
    <3> QED
      BY <2>1, <3>2
  <2> QED
    BY <1>5, <2>2, <2>3 DEF Announce, Report
<1>6. ASSUME NEW a \in Admins, NEW p \in Players, SendOnce(a, p) \/ SendAgain(a, p)
      PROVE  JobsTyped' /\ OthersTyped'
  <2>1. job[a].text \in Texts /\ ~Free(a)
    BY <1>6 DEF SendOnce, SendAgain, Sending, JobsTyped, Free
  <2>2. PICK outcome \in Outcomes :
          /\ Call(a, p, outcome)
          /\ \/ /\ p \in job[a].todo
                /\ job' = [job EXCEPT ![a].todo = @ \ {p},
                                      ![a].again = IF outcome = "flood" THEN {p} ELSE {}]
             \/ job' = [job EXCEPT ![a].again = {}]
    BY <1>6 DEF SendOnce, SendAgain
  <2>3. tried' \in [Texts -> SUBSET Players]
    BY <2>2 DEF Call, OthersTyped
  <2>4. received' \in [Texts -> [Players -> Nat]]
    BY <2>1, <2>2 DEF Call, OthersTyped
  <2>5. OthersTyped'
    BY <2>2, <2>3, <2>4 DEF OthersTyped, Call
  <2>6. CASE p \in job[a].todo /\
             job' = [job EXCEPT ![a].todo = @ \ {p},
                                ![a].again = IF outcome = "flood" THEN {p} ELSE {}]
    <3> DEFINE again == IF outcome = "flood" THEN {p} ELSE {}
    <3> DEFINE j == [job[a] EXCEPT !.todo = @ \ {p}, !.again = again]
    <3>1. job' = [job EXCEPT ![a] = j]
      BY <2>6 DEF JobsTyped
    <3>2. again \subseteq {p}
      OBVIOUS
    <3> HIDE DEF again
    <3>3. /\ j \in [pc : {"idle", "announcing", "sending"}, text : {NoText} \cup Texts,
                    list : SUBSET Players, todo : SUBSET Players, again : SUBSET Players]
          /\ j.todo \cup j.again \subseteq j.list
          /\ j.pc # "idle" => j.text # NoText
      BY <2>1, <2>6, <3>2 DEF JobsTyped, Free
    <3> HIDE DEF j
    <3> QED
      BY <2>5, <3>1, <3>3, OneJob
  <2>7. CASE job' = [job EXCEPT ![a].again = {}]
    <3> DEFINE j == [job[a] EXCEPT !.again = {}]
    <3>1. job' = [job EXCEPT ![a] = j]
      BY <2>7
    <3>2. /\ j \in [pc : {"idle", "announcing", "sending"}, text : {NoText} \cup Texts,
                    list : SUBSET Players, todo : SUBSET Players, again : SUBSET Players]
          /\ j.todo \cup j.again \subseteq j.list
          /\ j.pc # "idle" => j.text # NoText
      BY <2>1 DEF JobsTyped, Free
    <3> HIDE DEF j
    <3> QED
      BY <2>5, <3>1, <3>2, OneJob
  <2> QED
    BY <2>2, <2>5, <2>6, <2>7
<1>7. ASSUME NEW p \in Players, Approve(p) \/ Withdraw(p) PROVE JobsTyped' /\ OthersTyped'
  BY <1>7, SameJobs DEF OthersTyped, Approve, Withdraw
<1>8. CASE Crash
  <2>1. JobsTyped'
    BY <1>8 DEF Crash, NoJob, JobsTyped, Free
  <2>2. OthersTyped'
    <3>1. {draft[a] : a \in {b \in Admins : draft[b] # NoText}} \subseteq Texts
      BY DEF OthersTyped
    <3>2. dropped' \subseteq Texts
      BY <1>8, <3>1 DEF Crash, OthersTyped
    <3> QED
      BY <1>8, <3>2 DEF Crash, OthersTyped
  <2> QED
    BY <2>1, <2>2
<1>9. CASE UNCHANGED vars
  BY <1>9, SameJobs DEF vars, OthersTyped
<1> QED
  BY <1>1, <1>2, <1>3, <1>4, <1>5, <1>6, <1>7, <1>8, <1>9 DEF Next, JobContinues

-----------------------------------------------------------------------------
\* The drafts and the jobs, when no message goes out.

\* A session that is cleared gives its draft up.
LEMMA ClearsDraft ==
    ASSUME BroadcastInv, NEW a \in Admins, Clear(a), Drops(a),
           UNCHANGED <<job, composed, tried, received>>, TypeOK'
    PROVE  BroadcastInv'
<1> USE DEF BroadcastInv
<1>1. /\ draft' = [draft EXCEPT ![a] = NoText]
      /\ dropped' = dropped \cup ({draft[a]} \ {NoText})
      /\ job' = job /\ composed' = composed /\ tried' = tried /\ received' = received
      /\ draft \in [Admins -> {NoText} \cup Texts] /\ composed \in Nat
      /\ \A b \in Admins : Free(b)' <=> Free(b)
  BY BroadcastBounds DEF Clear, Drops, TypeOK, Free
<1>2. \A t \in Texts : Fresh(t) /\ t # draft[a] => Fresh(t)'
  BY <1>1 DEF Fresh
<1>3. DraftsFresh' /\ DraftsDiffer'
  BY <1>1, <1>2 DEF DraftsFresh, DraftsDiffer
<1>4. FutureFresh'
  <2> SUFFICES ASSUME NEW t \in Texts, composed < t PROVE Fresh(t)'
    BY <1>1 DEF FutureFresh
  <2>1. t # draft[a]
    BY <1>1 DEF DraftsFresh, Texts, NoText
  <2> QED
    BY <1>2, <2>1 DEF FutureFresh
<1>5. JobsDiffer' /\ Sent'
  BY <1>1 DEF JobsDiffer, Sent, JobsSound, ReceivedOnce
<1>6. DroppedStaysUnsent'
  BY <1>1 DEF DroppedStaysUnsent, DraftsFresh, Fresh
<1> QED
  BY <1>3, <1>4, <1>5, <1>6

\* A new text is fresh, and the draft it replaces is given up.
LEMMA ComposeInv ==
    ASSUME BroadcastInv, NEW a \in Admins, Compose(a), TypeOK'
    PROVE  BroadcastInv'
<1> USE DEF BroadcastInv
<1>1. /\ composed' = composed + 1 /\ composed' \in Texts
      /\ draft' = [draft EXCEPT ![a] = composed']
      /\ dropped' = dropped \cup ({draft[a]} \ {NoText})
      /\ job' = job /\ tried' = tried /\ received' = received
      /\ draft \in [Admins -> {NoText} \cup Texts] /\ composed \in Nat
      /\ \A b \in Admins : Free(b)' <=> Free(b)
  BY BroadcastBounds DEF Compose, Drops, TypeOK, Free, Texts
<1>2. \A t \in Texts : Fresh(t) /\ t # draft[a] => Fresh(t)'
  BY <1>1 DEF Fresh
<1>3. \A b \in Admins : draft[b] # NoText => draft[b] <= composed /\ draft[b] \in Texts
  BY <1>1 DEF DraftsFresh
<1>4. \A t \in Texts : composed < t => Fresh(t)'
  BY <1>1, <1>2, <1>3 DEF FutureFresh, Texts, NoText
<1>5. \A b \in Admins, t \in Texts : b # a /\ draft[b] = t => t <= composed /\ Fresh(t)'
  BY <1>2, <1>3 DEF DraftsFresh, DraftsDiffer, Texts, NoText
<1>6. DraftsFresh'
  <2> SUFFICES ASSUME NEW b \in Admins, NEW t \in Texts, draft'[b] = t
               PROVE  t <= composed' /\ Fresh(t)'
    BY <1>1 DEF DraftsFresh
  <2>1. CASE b = a
    BY <2>1, <1>1, <1>4
  <2>2. CASE b # a
    BY <2>2, <1>1, <1>5 DEF Texts
  <2> QED
    BY <2>1, <2>2
<1>7. DraftsDiffer' /\ FutureFresh'
  <2>1. DraftsDiffer'
    BY <1>1, <1>3 DEF DraftsDiffer, Texts, NoText
  <2>2. FutureFresh'
    BY <1>1, <1>4 DEF FutureFresh, Texts
  <2> QED
    BY <2>1, <2>2
<1>8. JobsDiffer' /\ Sent'
  BY <1>1 DEF JobsDiffer, Sent, JobsSound, ReceivedOnce
<1>9. DroppedStaysUnsent'
  BY <1>1 DEF DroppedStaysUnsent, DraftsFresh, Fresh
<1> QED
  BY <1>6, <1>7, <1>8, <1>9

\* The draft becomes the text of a job.
LEMMA SendInv ==
    ASSUME BroadcastInv, NEW a \in Admins, NEW s \in Texts, BroadcastSend(a, s), TypeOK'
    PROVE  BroadcastInv'
<1> USE DEF BroadcastInv
<1>0. /\ draft' = [draft EXCEPT ![a] = NoText]
      /\ dropped' = dropped /\ composed' = composed /\ tried' = tried /\ received' = received
      /\ draft \in [Admins -> {NoText} \cup Texts]
      /\ job' = IF draft[a] = NoText THEN job ELSE [job EXCEPT ![a] = NewJob(draft[a])]
      /\ Free(a) /\ DOMAIN job = Admins
  BY DEF BroadcastSend, Clear, TypeOK, observer
<1>1. /\ \A b \in Admins : b # a => job'[b] = job[b] /\ (Free(b)' <=> Free(b))
      /\ ~Free(a)' => /\ draft[a] # NoText /\ job'[a].text = draft[a]
                      /\ job'[a].todo = job'[a].list /\ job'[a].again = {}
  <2>1. CASE draft[a] = NoText
    BY <1>0, <2>1 DEF Free
  <2>2. CASE draft[a] # NoText
    BY <1>0, <2>2 DEF Free, NewJob, TypeOK
  <2> QED
    BY <2>1, <2>2
<1>2. \A t \in Texts : Fresh(t) /\ (t # draft[a]) => Fresh(t)'
  BY <1>0, <1>1 DEF Fresh
<1>3. DraftsFresh' /\ DraftsDiffer'
  BY <1>0, <1>2 DEF DraftsFresh, DraftsDiffer
<1>4. FutureFresh'
  <2> SUFFICES ASSUME NEW t \in Texts, composed < t PROVE Fresh(t)'
    BY <1>0 DEF FutureFresh
  <2>1. t # draft[a] /\ composed \in Nat
    BY <1>0, BroadcastBounds DEF DraftsFresh, Texts, NoText, TypeOK
  <2> QED
    BY <1>2, <2>1 DEF FutureFresh
<1>5. ~Free(a)' => Fresh(draft[a])
  BY <1>1 DEF DraftsFresh
<1>6. JobsDiffer'
  BY <1>1, <1>5 DEF JobsDiffer, Fresh
<1>7. Sent'
  <2>1. JobsSound'
    BY <1>0, <1>1, <1>5 DEF Sent, JobsSound, Fresh
  <2> QED
    BY <1>0, <2>1 DEF Sent, ReceivedOnce
<1>8. DroppedStaysUnsent'
  BY <1>0, <1>1, <1>5 DEF DroppedStaysUnsent, Fresh
<1> QED
  BY <1>3, <1>4, <1>6, <1>7, <1>8

\* A job goes from one phase to the next, or ends; no call is made.
LEMMA PhaseInv ==
    ASSUME BroadcastInv, NEW a \in Admins, Announce(a) \/ Report(a), TypeOK'
    PROVE  BroadcastInv'
<1> USE DEF BroadcastInv
<1>1. /\ draft' = draft /\ dropped' = dropped /\ composed' = composed
      /\ tried' = tried /\ received' = received
  BY DEF Announce, Report, observer, chats
<1>2. /\ \A b \in Admins : b # a => job'[b] = job[b] /\ (Free(b)' <=> Free(b))
      /\ ~Free(a)' => /\ ~Free(a) /\ job'[a].text = job[a].text
                      /\ job'[a].todo = job[a].todo /\ job'[a].list = job[a].list
                      /\ job'[a].again = job[a].again
  BY DEF Announce, Report, TypeOK, Free, NoJob
<1>3. \A t \in Texts : Fresh(t) => Fresh(t)'
  BY <1>1, <1>2 DEF Fresh
<1>4. DraftsFresh' /\ DraftsDiffer' /\ FutureFresh'
  BY <1>1, <1>3 DEF DraftsFresh, DraftsDiffer, FutureFresh, TypeOK
<1>5. JobsDiffer' /\ DroppedStaysUnsent'
  BY <1>1, <1>2 DEF JobsDiffer, DroppedStaysUnsent
<1>6. Sent'
  BY <1>1, <1>2 DEF Sent, JobsSound, ReceivedOnce
<1> QED
  BY <1>4, <1>5, <1>6

-----------------------------------------------------------------------------
\* A call concerns the text of its job alone, and reaches somebody who has not
\* received it.
LEMMA CallInv ==
    ASSUME BroadcastInv, NEW a \in Admins, NEW p \in Players,
           SendOnce(a, p) \/ SendAgain(a, p), TypeOK'
    PROVE  BroadcastInv'
<1> USE DEF BroadcastInv
<1> DEFINE t == job[a].text
<1>1. ~Free(a) /\ t \in Texts
  BY DEF SendOnce, SendAgain, Sending, Free, TypeOK
<1>2. PICK outcome \in Outcomes :
        /\ Call(a, p, outcome)
        /\ \/ /\ p \in job[a].todo
              /\ job' = [job EXCEPT ![a].todo = @ \ {p},
                                    ![a].again = IF outcome = "flood" THEN {p} ELSE {}]
           \/ /\ p \in job[a].again
              /\ job' = [job EXCEPT ![a].again = {}]
  BY DEF SendOnce, SendAgain
<1>3. /\ draft' = draft /\ dropped' = dropped /\ composed' = composed
      /\ tried' = [tried EXCEPT ![t] = @ \cup {p}]
      /\ tried \in [Texts -> SUBSET Players]
      /\ received \in [Texts -> [Players -> Nat]]
      /\ DOMAIN job = Admins
  BY <1>2 DEF Call, chats, TypeOK
<1>4. /\ \A s \in Texts : s # t => tried'[s] = tried[s] /\ received'[s] = received[s]
      /\ tried'[t] = tried[t] \cup {p}
      /\ \A q \in Players : q # p => received'[t][q] = received[t][q]
      /\ received'[t][p] = IF outcome \in {"delivered", "unclear"}
                           THEN received[t][p] + 1 ELSE received[t][p]
  <2>1. received' = IF outcome \in {"delivered", "unclear"}
                    THEN [received EXCEPT ![t][p] = @ + 1] ELSE received
    BY <1>2 DEF Call
  <2> QED
    BY <1>1, <1>3, <2>1
<1>5. PICK j : /\ job' = [job EXCEPT ![a] = j]
               /\ j.pc = job[a].pc /\ j.text = job[a].text /\ j.list = job[a].list
               /\ \/ /\ p \in job[a].todo
                     /\ j.todo = job[a].todo \ {p}
                     /\ j.again = IF outcome = "flood" THEN {p} ELSE {}
                  \/ p \in job[a].again /\ j.todo = job[a].todo /\ j.again = {}
  <2>1. job[a] \in [pc : {"idle", "announcing", "sending"}, text : {NoText} \cup Texts,
                   list : SUBSET Players, todo : SUBSET Players, again : SUBSET Players]
    BY DEF TypeOK
  <2>2. CASE p \in job[a].todo /\
             job' = [job EXCEPT ![a].todo = @ \ {p},
                                ![a].again = IF outcome = "flood" THEN {p} ELSE {}]
    <3> DEFINE again == IF outcome = "flood" THEN {p} ELSE {}
    <3> DEFINE k == [job[a] EXCEPT !.todo = @ \ {p}, !.again = again]
    <3>1. job' = [job EXCEPT ![a] = k]
      BY <1>3, <2>2
    <3>2. /\ k.pc = job[a].pc /\ k.text = job[a].text /\ k.list = job[a].list
          /\ k.todo = job[a].todo \ {p} /\ k.again = again
      BY <2>1
    <3> HIDE DEF k
    <3> QED
      BY <2>2, <3>1, <3>2
  <2>3. CASE p \in job[a].again /\ job' = [job EXCEPT ![a].again = {}]
    <3> DEFINE k == [job[a] EXCEPT !.again = {}]
    <3>1. job' = [job EXCEPT ![a] = k]
      BY <2>3
    <3>2. /\ k.pc = job[a].pc /\ k.text = job[a].text /\ k.list = job[a].list
          /\ k.todo = job[a].todo /\ k.again = {}
      BY <2>1
    <3> HIDE DEF k
    <3> QED
      BY <2>3, <3>1, <3>2
  <2> QED
    BY <1>2, <2>2, <2>3
<1>6. /\ job'[a] = j
      /\ \A b \in Admins : b # a => job'[b] = job[b]
      /\ \A b \in Admins : job'[b].text = job[b].text /\ (Free(b)' <=> Free(b))
      /\ \A b \in Admins : job'[b].list = job[b].list
  BY <1>3, <1>5 DEF Free
<1>7. received[t][p] = 0
  BY <1>1, <1>5 DEF Sent, JobsSound, ReceivedOnce
<1> HIDE DEF t
<1>8. t = job[a].text
  BY DEF t
<1>9. \A s \in Texts : Fresh(s) => s # t /\ Fresh(s)'
  BY <1>1, <1>3, <1>4, <1>6, <1>8 DEF Fresh
<1>10. DraftsFresh' /\ DraftsDiffer' /\ FutureFresh'
  BY <1>3, <1>9 DEF DraftsFresh, DraftsDiffer, FutureFresh, TypeOK
<1>11. JobsDiffer' /\ DroppedStaysUnsent'
  BY <1>3, <1>6 DEF JobsDiffer, DroppedStaysUnsent
<1>12. ReceivedOnce'
  <2> SUFFICES ASSUME NEW s \in Texts, NEW q \in Players
               PROVE  received'[s][q] = 0 \/ (received'[s][q] = 1 /\ q \in tried'[s])
    BY DEF ReceivedOnce
  <2>1. received[s][q] = 0 \/ (received[s][q] = 1 /\ q \in tried[s])
    BY DEF Sent, ReceivedOnce
  <2>2. CASE s = t /\ q = p
    BY <2>2, <1>4, <1>7
  <2>3. CASE s # t
    BY <2>1, <2>3, <1>4
  <2>4. CASE s = t /\ q # p
    BY <2>1, <2>4, <1>4
  <2> QED
    BY <2>2, <2>3, <2>4
<1>13. JobsSound'
  <2> SUFFICES ASSUME NEW b \in Admins, ~Free(b)'
               PROVE  /\ tried'[job'[b].text] \cup job'[b].todo = job'[b].list
                      /\ tried'[job'[b].text] \cap job'[b].todo = {}
                      /\ job'[b].again \subseteq tried'[job'[b].text]
                      /\ \A q \in job'[b].again : received'[job'[b].text][q] = 0
    BY DEF JobsSound
  <2>1. /\ tried[job[b].text] \cup job[b].todo = job[b].list
        /\ tried[job[b].text] \cap job[b].todo = {}
        /\ job[b].again \subseteq tried[job[b].text]
        /\ \A q \in job[b].again : received[job[b].text][q] = 0
    BY <1>6 DEF Sent, JobsSound
  <2>2. CASE b # a
    <3>1. job[b].text \in Texts /\ job[b].text # t
      BY <2>2, <1>1, <1>6, <1>8 DEF JobsDiffer, TypeOK, Free
    <3> QED
      BY <2>1, <2>2, <3>1, <1>4, <1>6
  <2>3. CASE b = a
    <3>1. tried'[t] \cup job'[a].todo = job[a].list /\ tried'[t] \cap job'[a].todo = {}
      BY <2>1, <2>3, <1>4, <1>5, <1>6, <1>8
    <3>2. job'[a].again \subseteq tried'[t]
      BY <1>4, <1>5, <1>6
    <3>3. \A q \in job'[a].again : received'[t][q] = 0
      BY <1>4, <1>5, <1>6, <1>7
    <3> QED
      BY <2>3, <3>1, <3>2, <3>3, <1>6, <1>8
  <2> QED
    BY <2>2, <2>3
<1> QED
  BY <1>10, <1>11, <1>12, <1>13 DEF Sent

-----------------------------------------------------------------------------
\* A crash ends all jobs.
LEMMA CrashInv ==
    ASSUME BroadcastInv, Crash, TypeOK'
    PROVE  BroadcastInv'
<1> USE DEF BroadcastInv
<1>1. /\ composed' = composed /\ tried' = tried /\ received' = received
      /\ \A a \in Admins : Free(a)'
      /\ draft \in [Admins -> {NoText} \cup Texts] /\ composed \in Nat
      /\ \/ draft' = draft /\ dropped' = dropped
         \/ /\ draft' = [a \in Admins |-> NoText]
            /\ dropped' = dropped \cup {draft[a] : a \in {b \in Admins : draft[b] # NoText}}
  BY BroadcastBounds DEF Crash, NoJob, Free, TypeOK
<1>2. DraftsFresh' /\ DraftsDiffer'
  BY <1>1 DEF DraftsFresh, DraftsDiffer, Fresh
<1>3. FutureFresh'
  <2> SUFFICES ASSUME NEW t \in Texts, composed < t PROVE Fresh(t)'
    BY <1>1 DEF FutureFresh
  <2>1. Fresh(t) /\ t \in Nat
    BY DEF FutureFresh, Texts
  <2>2. \A a \in Admins : draft[a] # NoText => draft[a] # t
    BY <1>1, <2>1 DEF DraftsFresh, Texts
  <2> QED
    BY <1>1, <2>1, <2>2 DEF Fresh
<1>4. JobsDiffer' /\ DroppedStaysUnsent' /\ Sent'
  BY <1>1 DEF JobsDiffer, DroppedStaysUnsent, Sent, JobsSound, ReceivedOnce
<1> QED
  BY <1>2, <1>3, <1>4

LEMMA StepBroadcastInv == BroadcastInv /\ [Next]_vars => BroadcastInv'
<1> SUFFICES ASSUME BroadcastInv, [Next]_vars PROVE BroadcastInv'
  OBVIOUS
<1>0. TypeOK'
  BY StepTypeOK DEF BroadcastInv
\* Steps that leave drafts, jobs and messages alone.
<1>1. ASSUME UNCHANGED <<draft, job, composed, tried, received, dropped>>
      PROVE  BroadcastInv'
  BY <1>0, <1>1 DEF BroadcastInv, DraftsFresh, FutureFresh, DraftsDiffer, JobsDiffer,
     Sent, JobsSound, ReceivedOnce, DroppedStaysUnsent, Fresh, Free
<1>2. ASSUME NEW a \in Admins, CmdBroadcast(a) \/ OtherFlowBegins(a)
      PROVE  BroadcastInv'
  BY <1>1, <1>2 DEF CmdBroadcast, OtherFlowBegins, observer
<1>3. ASSUME NEW a \in Admins, CancelBroadcast(a) \/ OtherFlowClears(a)
      PROVE  BroadcastInv'
  BY <1>0, <1>3, ClearsDraft DEF CancelBroadcast, OtherFlowClears
<1>4. ASSUME NEW a \in Admins, NEW t \in Texts, BroadcastCancel(a, t)
      PROVE  BroadcastInv'
  BY <1>0, <1>4, ClearsDraft DEF BroadcastCancel
<1>5. ASSUME NEW p \in Players, Approve(p) \/ Withdraw(p) PROVE BroadcastInv'
  BY <1>1, <1>5 DEF Approve, Withdraw, observer, chats
<1>6. CASE UNCHANGED vars
  BY <1>1, <1>6 DEF vars
<1> QED
  BY <1>0, <1>2, <1>3, <1>4, <1>5, <1>6, ComposeInv, SendInv, PhaseInv, CallInv, CrashInv
     DEF Next, JobContinues

LEMMA BroadcastInvariant == Spec => []BroadcastInv
<1> QED
  BY InitBroadcast, StepBroadcastInv, PTL DEF Spec

\* The variables keep their types, and a job works off its own list.
THEOREM TypeCorrect == Spec => []TypeOK
<1>1. BroadcastInv => TypeOK
  BY DEF BroadcastInv
<1> QED
  BY <1>1, BroadcastInvariant, PTL

\* Nobody gets a text twice, and a finished job has called everybody once.
THEOREM SentOnce == Spec => []OncePerRecipient
<1>1. BroadcastInv => OncePerRecipient
  <2> SUFFICES ASSUME BroadcastInv PROVE OncePerRecipient
    OBVIOUS
  <2>1. \A t \in Texts, p \in Players : received[t][p] <= 1
    BY DEF BroadcastInv, Sent, ReceivedOnce
  <2>2. ASSUME NEW a \in Admins, Sending(a), job[a].todo = {}
        PROVE  tried[job[a].text] = job[a].list
    BY <2>2 DEF BroadcastInv, Sent, JobsSound, Sending, Free
  <2> QED
    BY <2>1, <2>2 DEF OncePerRecipient
<1> QED
  BY <1>1, BroadcastInvariant, PTL

\* What was cancelled or replaced never becomes the text of a job.
THEOREM DroppedNeverSent == Spec => []DroppedStaysUnsent
<1>1. BroadcastInv => DroppedStaysUnsent
  BY DEF BroadcastInv
<1> QED
  BY <1>1, BroadcastInvariant, PTL
=============================================================================
