-------------------------- MODULE RegistrationForm --------------------------
(***************************************************************************)
(* The registration questionnaire of one FSM key: handlers/registration.py *)
(* as a state machine over the aiogram state and the FSM data that Redis   *)
(* keeps for the key.  SimpleEventIsolation runs the updates of one key    *)
(* one after the other, so a handler is one step here; what other chats    *)
(* and admins do between two of them is ActiveElsewhere and Decided.       *)
(*                                                                         *)
(* Telegram keeps the buttons of old messages.  A consent message left     *)
(* behind, or the roles keyboard of an abandoned form, can still be tapped *)
(* and its callback is routed by the present state.                        *)
(***************************************************************************)
EXTENDS Naturals, FiniteSets

CONSTANTS
    Categories, NoCategory,
    Roles, CategoryOf,        \* the role ids and the category of each
    Engines, Tools,           \* the named options of the engine and tools steps
    Strengths, Motivations,
    MaxConsents               \* bound: consent messages with live buttons

ASSUME CatalogAssumption ==
    /\ NoCategory \notin Categories
    /\ CategoryOf \in [Roles -> Categories]
    /\ {"Other", "none_yet"} \cap (Engines \cup Tools) = {}
ASSUME FormBounds == MaxConsents \in Nat

VARIABLES
    state,     \* the FSM state, "clear" when there is none
    data,      \* the FSM data
    active,    \* does the player have a pending or approved application?
    consents,  \* consent messages whose buttons are still there
    boards,    \* categories of the roles keyboards left behind by old forms
    elsewhere  \* does the player use the bot in other chats too?

vars == <<state, data, active, consents, boards, elsewhere>>

FormStates == {"captcha", "consent", "nickname", "email", "category", "roles",
               "experience", "engine", "engine_other", "tools", "tools_other",
               "strengths", "motivation", "confirm"}
EditStates == {"edit_field", "edit_nickname", "edit_email"}

\* "beginner", or one of the levels that are treated alike.
Levels == {"beginner", "experienced"}
EngineOptions == Engines \cup {"Other", "none_yet"}
ToolOptions   == Tools \cup {"Other", "none_yet"}

\* The keys of the FSM data.  A contact or a free text is a flag (is it there),
\* a pick list is a set.
FormData == [nickname : BOOLEAN, email : BOOLEAN,
             category : Categories \cup {NoCategory}, roles : SUBSET Roles,
             experience : Levels \cup {"unset"},
             engine : SUBSET EngineOptions, engine_other : BOOLEAN,
             tools : SUBSET ToolOptions, tools_other : BOOLEAN,
             strengths : SUBSET Strengths, motivations : SUBSET Motivations,
             consent : BOOLEAN, edit_mode : BOOLEAN, awaiting_contact_fix : BOOLEAN]

Empty == [nickname |-> FALSE, email |-> FALSE, category |-> NoCategory, roles |-> {},
          experience |-> "unset", engine |-> {}, engine_other |-> FALSE,
          tools |-> {}, tools_other |-> FALSE, strengths |-> {}, motivations |-> {},
          consent |-> FALSE, edit_mode |-> FALSE, awaiting_contact_fix |-> FALSE]

\* RegistrationCreate: what the final validation asks of the pick lists.
Accepted(d) ==
    d.roles # {} /\ d.engine # {} /\ d.tools # {} /\ d.motivations # {}

\* The keys from_fsm_data reads without a default.
Filled(d) ==
    d.nickname /\ d.email /\ d.category # NoCategory /\ d.experience # "unset"

\* An answer "Other" comes with its text.
OtherNamed(d) ==
    /\ "Other" \in d.engine => d.engine_other
    /\ "Other" \in d.tools => d.tools_other

\* "Have not worked with any" excludes every other pick.
NoneAlone(picks) == "none_yet" \in picks => picks = {"none_yet"}

\* Tapping an option of the engine and tools keyboards.
Toggled(picks, o) ==
    IF o \in picks THEN picks \ {o}
    ELSE IF o = "none_yet" THEN {o}
    ELSE (picks \ {"none_yet"}) \cup {o}

Picked(picks, o) == IF o \in picks THEN picks \ {o} ELSE picks \cup {o}

-----------------------------------------------------------------------------
Init ==
    /\ state = "clear"
    /\ data = Empty
    /\ active \in BOOLEAN
    /\ consents = 0
    /\ boards = {}
    /\ elsewhere \in BOOLEAN

\* The roles keyboard on screen stays when a command or an old button ends or
\* replaces the form; the form's own buttons edit it away.
Left == IF state = "roles" THEN boards \cup {data.category} ELSE boards

\* state.clear() by a message or an old button.
Cleared ==
    /\ state' = "clear" /\ data' = Empty
    /\ boards' = Left
    /\ UNCHANGED <<consents, elsewhere>>

\* Moving on within the form, by its own buttons and answers.
Goto(s) ==
    /\ state' = s
    /\ UNCHANGED <<active, consents, boards, elsewhere>>

-----------------------------------------------------------------------------
\* /start clears the form, whatever it was.
Start == Cleared /\ UNCHANGED active

\* /withdraw also erases the player (its race with the other writers is in
\* Applications).
Withdraw == Cleared /\ active' = FALSE

\* /cancel, pinned to the states of the two groups.
Cancel == state # "clear" /\ Cleared /\ UNCHANGED active

\* /register and the start button: the gates may refuse, the captcha opens
\* when they do not.
Register ==
    /\ data' = Empty
    /\ boards' = Left
    /\ state' \in IF active THEN {"clear"} ELSE {"clear", "captcha"}
    /\ UNCHANGED <<active, consents, elsewhere>>

CaptchaSolved ==
    /\ state = "captcha"
    /\ consents < MaxConsents
    /\ state' = "consent"
    /\ consents' = consents + 1
    /\ UNCHANGED <<data, active, boards, elsewhere>>

CaptchaFailed ==
    /\ state = "captcha"
    /\ Cleared /\ UNCHANGED active

\* The consent buttons work in every state.
ConsentDecline ==
    /\ consents > 0
    /\ state' = "clear" /\ data' = Empty
    /\ boards' = Left
    /\ consents' = consents - 1
    /\ UNCHANGED <<active, elsewhere>>

ConsentAccept ==
    /\ consents > 0
    /\ state' = "nickname"
    /\ data' = [data EXCEPT !.consent = TRUE]
    /\ boards' = Left
    /\ consents' = consents - 1
    /\ UNCHANGED <<active, elsewhere>>

\* _reset_on_url: a link in any free text of the form or of /edit.
LinkTyped ==
    /\ state \in {"nickname", "email", "engine_other", "tools_other",
                  "edit_nickname", "edit_email"}
    /\ Cleared /\ UNCHANGED active

ProcessNickname ==
    /\ state = "nickname"
    /\ data' = [data EXCEPT !.nickname = TRUE]
    /\ Goto("email")

\* After a contact collision the answers are complete: back to confirm.
ProcessEmail ==
    /\ state = "email"
    /\ data' = [data EXCEPT !.email = TRUE, !.awaiting_contact_fix = FALSE]
    /\ Goto(IF data.awaiting_contact_fix THEN "confirm" ELSE "category")

\* Mutant: the roles of the old category are kept.
ProcessCategoryKeepsRoles(c) ==
    /\ state = "category"
    /\ data.nickname /\ data.email
    /\ data' = [data EXCEPT !.category = c]
    /\ Goto("roles")

ProcessCategory(c) ==
    /\ state = "category"
    /\ data.nickname /\ data.email
    /\ data' = [data EXCEPT
          !.category = c,
          !.roles = IF data.edit_mode /\ data.category = c THEN @ ELSE {}]
    /\ Goto("roles")

-----------------------------------------------------------------------------
\* A tap on a role of the present keyboard or of one left behind.
ToggleRole(r) ==
    /\ state = "roles"
    /\ CategoryOf[r] \in boards \cup {data.category}
    /\ data' = [data EXCEPT !.roles = Picked(@, r)]
    /\ Goto("roles")

RolesDone ==
    /\ state = "roles"
    /\ data.roles # {}
    /\ UNCHANGED data
    /\ Goto("experience")

\* Mutant: the callback data is stored without being split.
ProcessExperienceUnsplit(level) ==
    /\ state = "experience"
    /\ data' = [data EXCEPT !.experience = "exp:level"]
    /\ Goto("engine")

\* A new form starts its engine list afresh, an edit keeps it.
ProcessExperience(level) ==
    /\ state = "experience"
    /\ data' = IF data.edit_mode THEN [data EXCEPT !.experience = level]
               ELSE [data EXCEPT !.experience = level,
                                 !.engine = {}, !.engine_other = FALSE]
    /\ Goto("engine")

\* A real "none yet" drops the free text too.
ToggleEngine(o) ==
    /\ state = "engine"
    /\ data' = [data EXCEPT
          !.engine = Toggled(@, o),
          !.engine_other = @ /\ ~(o = "none_yet" /\ o \notin data.engine)]
    /\ Goto("engine")

\* _go_to_tools.
GoToTools(d) ==
    /\ data' = IF d.edit_mode THEN d
               ELSE [d EXCEPT !.tools = {}, !.tools_other = FALSE]
    /\ Goto("tools")

\* Mutant: the text of "Other" is not asked for.
EngineDoneUnasked ==
    /\ state = "engine"
    /\ data.engine # {}
    /\ GoToTools(data)

EngineDone ==
    /\ state = "engine"
    /\ data.engine # {}
    /\ IF "Other" \in data.engine /\ ~data.engine_other
       THEN Goto("engine_other") /\ UNCHANGED data
       ELSE GoToTools(data)

ProcessEngineOther ==
    /\ state = "engine_other"
    /\ GoToTools([data EXCEPT !.engine_other = TRUE])

ToggleTool(o) ==
    /\ state = "tools"
    /\ data' = [data EXCEPT
          !.tools = Toggled(@, o),
          !.tools_other = @ /\ ~(o = "none_yet" /\ o \notin data.tools)]
    /\ Goto("tools")

\* _go_to_strengths and _go_to_motivation: an edit keeps the picks.
GoToStrengths(d) ==
    /\ data' = IF d.edit_mode THEN d ELSE [d EXCEPT !.strengths = {}]
    /\ Goto("strengths")
GoToMotivation(d) ==
    /\ data' = IF d.edit_mode THEN d ELSE [d EXCEPT !.motivations = {}]
    /\ Goto("motivation")

\* Mutant: the strengths step is for new forms only.
AfterToolsNewOnly(d) ==
    IF d.experience = "beginner" /\ ~d.edit_mode THEN GoToStrengths(d)
    ELSE GoToMotivation(d)

AfterTools(d) ==
    IF d.experience = "beginner" THEN GoToStrengths(d) ELSE GoToMotivation(d)

ToolsDone ==
    /\ state = "tools"
    /\ data.tools # {}
    /\ IF "Other" \in data.tools /\ ~data.tools_other
       THEN Goto("tools_other") /\ UNCHANGED data
       ELSE AfterTools(data)

ProcessToolsOther ==
    /\ state = "tools_other"
    /\ AfterTools([data EXCEPT !.tools_other = TRUE])

ToggleStrength(x) ==
    /\ state = "strengths"
    /\ data' = [data EXCEPT !.strengths = Picked(@, x)]
    /\ Goto("strengths")

StrengthsDone ==
    /\ state = "strengths"
    /\ data.strengths # {}
    /\ GoToMotivation(data)

ToggleMotivation(x) ==
    /\ state = "motivation"
    /\ data' = [data EXCEPT !.motivations = Picked(@, x)]
    /\ Goto("motivation")

MotivationDone ==
    /\ state = "motivation"
    /\ data.motivations # {}
    /\ UNCHANGED data
    /\ Goto("confirm")

\* The back buttons, each pinned to the states whose keyboard shows it.
\* (nav_back_roles resets a form without a category, which StepHasItsData
\* shows never to be there.)
NavBack ==
    /\ \/ state = "roles" /\ Goto("category")
       \/ state = "experience" /\ Goto("roles")
       \/ state = "engine" /\ Goto("experience")
       \/ state = "tools" /\ Goto("engine")
       \/ state \in {"strengths", "motivation"} /\ Goto("tools")
       \/ state = "motivation" /\ Goto("strengths")
    /\ UNCHANGED data

-----------------------------------------------------------------------------
\* "Start over" on the confirm screen, of a new form or of an edit.
ConfirmRestart ==
    /\ state = "confirm"
    /\ consents < MaxConsents
    /\ state' = "consent" /\ data' = Empty
    /\ consents' = consents + 1
    /\ UNCHANGED <<active, boards, elsewhere>>

\* confirm_submit: a tap that may write.  When the payload is refused, when an
\* active application exists, or when the queue is full, nothing changes.
Submitting == state = "confirm" /\ Filled(data) /\ Accepted(data)

\* The profile is updated, or found gone; a crash after the commit leaves the
\* form as it was.
SubmitEdit ==
    /\ Submitting /\ data.edit_mode
    /\ Cleared /\ UNCHANGED active

SubmitFiled ==
    /\ Submitting /\ ~data.edit_mode
    /\ ~active
    /\ active' = TRUE
    /\ \/ state' = "clear" /\ data' = Empty
       \/ UNCHANGED <<state, data>>      \* a crash after the commit
    /\ UNCHANGED <<consents, boards, elsewhere>>

\* Mutant: only the contact details survive a collision.
SubmitTakenForgets ==
    /\ Submitting /\ ~data.edit_mode
    /\ data' = [Empty EXCEPT !.awaiting_contact_fix = TRUE, !.consent = data.consent]
    /\ Goto("nickname")

\* An IntegrityError: the contact is somebody else's, or the player's other
\* chat filed between the service's check and the INSERT.
SubmitTaken ==
    /\ Submitting /\ ~data.edit_mode
    /\ ~active
    /\ active' \in {FALSE, elsewhere}
    /\ data' = [data EXCEPT !.awaiting_contact_fix = TRUE]
    /\ state' = "nickname"
    /\ UNCHANGED <<consents, boards, elsewhere>>

-----------------------------------------------------------------------------
\* /edit, in any state; the data of a form under way stay.
Edit ==
    /\ active
    /\ state' = "edit_field"
    /\ boards' = Left
    /\ UNCHANGED <<data, active, consents, elsewhere>>

EditPick ==
    /\ state = "edit_field"
    /\ \E s \in {"edit_nickname", "edit_email"} : Goto(s)
    /\ UNCHANGED data

\* update_contact took the new value, or found no active application.
EditApply ==
    /\ state \in {"edit_nickname", "edit_email"}
    /\ Cleared /\ UNCHANGED active

\* What the form stores of d, and get_profile gives back.
Profiles ==
    {d \in [category : Categories, roles : SUBSET Roles, experience : Levels,
            engine : SUBSET EngineOptions, engine_other : BOOLEAN,
            tools : SUBSET ToolOptions, tools_other : BOOLEAN,
            strengths : SUBSET Strengths, motivations : SUBSET Motivations] :
        /\ Accepted(d) /\ OtherNamed(d)
        /\ NoneAlone(d.engine) /\ NoneAlone(d.tools)
        /\ (d.strengths # {}) <=> (d.experience = "beginner")
        /\ \A r \in d.roles : CategoryOf[r] = d.category}

\* edit_pick_skills: the form again, seeded from the profile.
EditSkills(p) ==
    /\ state = "edit_field"
    /\ active
    /\ data' = [nickname |-> TRUE, email |-> TRUE,
                category |-> p.category, roles |-> p.roles,
                experience |-> p.experience,
                engine |-> p.engine, engine_other |-> p.engine_other,
                tools |-> p.tools, tools_other |-> p.tools_other,
                strengths |-> p.strengths, motivations |-> p.motivations,
                consent |-> TRUE, edit_mode |-> TRUE,
                awaiting_contact_fix |-> data.awaiting_contact_fix]
    /\ Goto("category")

EditSkillsGone ==
    /\ state = "edit_field"
    /\ ~active
    /\ Cleared /\ UNCHANGED active

-----------------------------------------------------------------------------
\* An admin rejects the application.
Decided ==
    /\ active
    /\ active' = FALSE
    /\ UNCHANGED <<state, data, consents, boards, elsewhere>>

\* The player files in another chat, where this form is not known.
ActiveElsewhere ==
    /\ elsewhere
    /\ ~active
    /\ active' = TRUE
    /\ UNCHANGED <<state, data, consents, boards, elsewhere>>

Next ==
    \/ Start \/ Withdraw \/ Cancel \/ Register
    \/ CaptchaSolved \/ CaptchaFailed \/ ConsentDecline \/ ConsentAccept
    \/ LinkTyped \/ ProcessNickname \/ ProcessEmail
    \/ \E c \in Categories : ProcessCategory(c)
    \/ \E r \in Roles : ToggleRole(r)
    \/ RolesDone
    \/ \E level \in Levels : ProcessExperience(level)
    \/ \E o \in EngineOptions : ToggleEngine(o)
    \/ EngineDone \/ ProcessEngineOther
    \/ \E o \in ToolOptions : ToggleTool(o)
    \/ ToolsDone \/ ProcessToolsOther
    \/ \E x \in Strengths : ToggleStrength(x)
    \/ StrengthsDone
    \/ \E x \in Motivations : ToggleMotivation(x)
    \/ MotivationDone
    \/ NavBack
    \/ ConfirmRestart \/ SubmitEdit \/ SubmitFiled \/ SubmitTaken
    \/ Edit \/ EditPick \/ EditApply
    \/ \E p \in Profiles : EditSkills(p)
    \/ EditSkillsGone
    \/ Decided \/ ActiveElsewhere

Spec == Init /\ [][Next]_vars
-----------------------------------------------------------------------------
\* Properties

TypeOK ==
    /\ state \in FormStates \cup EditStates \cup {"clear"}
    /\ data \in FormData
    /\ active \in BOOLEAN
    /\ consents \in 0 .. MaxConsents
    /\ boards \subseteq Categories
    /\ elsewhere \in BOOLEAN

\* No handler looks up a key that is not there: the roles step has its
\* category, and the confirm screen everything from_fsm_data reads without a
\* default, whichever way back, contact fix or old button led there -- and the
\* consent, whose default would file a form that nobody had consented to.
StepHasItsData ==
    /\ state \in {"roles", "experience", "engine", "engine_other", "tools",
                  "tools_other", "strengths", "motivation"} => data.category # NoCategory
    /\ state = "confirm" => Filled(data) /\ data.consent

\* What a submit accepts names its "Other" answers and does not pick "none
\* yet" along with something; the schema of the payload checks neither.  For a
\* player who uses one chat.
AcceptedMakesSense ==
    ~elsewhere /\ Submitting => OtherNamed(data) /\ NoneAlone(data.engine) /\ NoneAlone(data.tools)

\* A beginner's submit has the strengths only beginners are asked for, also
\* when an edit changed the level.  For a player who uses one chat.
BeginnersNameStrengths ==
    ~elsewhere /\ Submitting /\ data.experience = "beginner" => data.strengths # {}

\* A player sent back for other contact details has kept every answer, so that
\* the short way back to confirm ends in a form that can be submitted.  For a
\* player who uses one chat.
ContactFixKeepsAnswers ==
    ~elsewhere /\ data.awaiting_contact_fix => Filled(data) /\ Accepted(data)

\* Roles belong to the category, through every change of it, back button and
\* edit, as long as no old form has left its roles keyboard on the screen: its
\* taps reach the present form, and neither toggle_role nor the schema compares
\* a role with the category.  For a player who uses one chat.
RolesFitCategory ==
    ~elsewhere /\ boards = {} => \A r \in data.roles : CategoryOf[r] = data.category
=============================================================================
