------------------------ MODULE RegistrationFormProofs ------------------------
(***************************************************************************)
(* Proofs about RegistrationForm: whatever the catalog, the number of open *)
(* consent messages and the player's other chats, the form never reads a   *)
(* key that is not there, and nothing is submitted without consent; roles  *)
(* fit their category unless an old keyboard was left behind; and what a   *)
(* player with one chat submits makes sense.                               *)
(***************************************************************************)
EXTENDS RegistrationForm, TLAPS

\* What each step can count on.  A contact fix counts on a filled form, from
\* which an edit or an old consent button takes nothing away.
WithContact == {"category", "roles", "experience", "engine", "engine_other", "tools",
                "tools_other", "strengths", "motivation", "confirm"}
WithCategory == WithContact \ {"category"}
WithLevel == WithCategory \ {"roles", "experience"}
Consented == WithContact \cup {"nickname", "email"}

StepInv ==
    /\ state \in Consented => data.consent
    /\ state \in WithContact \cup {"email"} => data.nickname
    /\ state \in WithContact => data.email
    /\ state \in WithCategory => data.category # NoCategory
    /\ state \in WithLevel => data.experience # "unset"
    /\ data.awaiting_contact_fix => Filled(data)

FormInv == TypeOK /\ StepInv

-----------------------------------------------------------------------------
\* The toggles stay within the options.
LEMMA ToggledType ==
    ASSUME NEW S, NEW picks \in SUBSET S, NEW o \in S
    PROVE  Toggled(picks, o) \in SUBSET S /\ Picked(picks, o) \in SUBSET S
BY DEF Toggled, Picked

LEMMA EmptyType == Empty \in FormData
BY DEF Empty, FormData

\* The form starts in FormInv.
LEMMA FormStart == Init => FormInv
<1> SUFFICES ASSUME Init PROVE FormInv
    OBVIOUS
<1>1. TypeOK
    BY EmptyType, FormBounds DEF Init, TypeOK
<1>2. StepInv
    BY DEF Init, StepInv, Empty, Consented, WithContact, WithCategory, WithLevel
<1> QED BY <1>1, <1>2 DEF FormInv

LEMMA LeftType == FormInv => Left \in SUBSET Categories
<1> SUFFICES ASSUME FormInv PROVE Left \in SUBSET Categories
    OBVIOUS
<1>1. CASE state = "roles"
  <2>1. data.category # NoCategory
      BY <1>1 DEF FormInv, StepInv, WithCategory, WithContact
  <2>2. data.category \in Categories
      BY <2>1 DEF FormInv, TypeOK, FormData
  <2> QED BY <1>1, <2>2 DEF Left, FormInv, TypeOK
<1>2. CASE state # "roles"
    BY <1>2 DEF Left, FormInv, TypeOK
<1> QED BY <1>1, <1>2

\* The steps that end the form.
LEMMA ClearedKeeps ==
    ASSUME FormInv, Cleared, active' \in BOOLEAN
    PROVE  FormInv'
<1>1. TypeOK'
    BY EmptyType, LeftType DEF FormInv, Cleared, TypeOK
<1>2. StepInv'
    BY DEF Cleared, StepInv, Empty, Consented, WithContact, WithCategory, WithLevel
<1> QED BY <1>1, <1>2 DEF FormInv

\* The helpers that move on within the form keep the type of the data.
LEMMA NextStepType ==
    ASSUME NEW d \in FormData, GoToTools(d) \/ AfterTools(d)
    PROVE  data' \in FormData
<1>1. CASE GoToTools(d)
    BY <1>1 DEF GoToTools, FormData
<1>2. CASE AfterTools(d)
    BY <1>2 DEF AfterTools, GoToStrengths, GoToMotivation, FormData
<1> QED BY <1>1, <1>2

\* ... and the picks of a profile.
LEMMA ProfileType ==
    ASSUME NEW p \in Profiles
    PROVE  /\ p.category \in Categories /\ p.category # NoCategory
           /\ p.roles \in SUBSET Roles
           /\ p.experience \in Levels /\ p.experience # "unset"
           /\ p.engine \in SUBSET EngineOptions /\ p.engine_other \in BOOLEAN
           /\ p.tools \in SUBSET ToolOptions /\ p.tools_other \in BOOLEAN
           /\ p.strengths \in SUBSET Strengths /\ p.motivations \in SUBSET Motivations
BY CatalogAssumption DEF Profiles, Levels

\* One step per action: what it does to the data, to the rest of the type
\* invariant, and to StepInv.
LEMMA FormStep == FormInv /\ [Next]_vars => FormInv'
<1> SUFFICES ASSUME FormInv, [Next]_vars PROVE FormInv'
    OBVIOUS
<1> USE DEF FormInv
<1>0. data \in FormData
    BY DEF TypeOK
<1>1. CASE Start
    BY <1>1, ClearedKeeps DEF Start, TypeOK
<1>2. CASE Withdraw
    BY <1>2, ClearedKeeps DEF Withdraw, TypeOK
<1>3. CASE Cancel
    BY <1>3, ClearedKeeps DEF Cancel, TypeOK
<1>4. CASE CaptchaFailed
    BY <1>4, ClearedKeeps DEF CaptchaFailed, TypeOK
<1>5. CASE LinkTyped
    BY <1>5, ClearedKeeps DEF LinkTyped, TypeOK
<1>6. CASE SubmitEdit
    BY <1>6, ClearedKeeps DEF SubmitEdit, TypeOK
<1>7. CASE EditApply
    BY <1>7, ClearedKeeps DEF EditApply, TypeOK
<1>8. CASE EditSkillsGone
    BY <1>8, ClearedKeeps DEF EditSkillsGone, TypeOK
<1>9. CASE Register
  <2>1. data' \in FormData
      BY <1>0, <1>9, EmptyType DEF Register
  <2>2. TypeOK'
      BY <1>9, <2>1, LeftType DEF Register, TypeOK, FormStates, EditStates
  <2>3. StepInv'
      BY <1>0, <1>9 DEF Register, StepInv, Filled, Empty, FormData,
          Consented, WithContact, WithCategory, WithLevel
  <2> QED BY <2>2, <2>3
<1>10. CASE CaptchaSolved
  <2>1. data' \in FormData
      BY <1>0, <1>10 DEF CaptchaSolved
  <2>2. TypeOK'
      BY <1>10, <2>1, FormBounds DEF CaptchaSolved, TypeOK, FormStates, EditStates
  <2>3. StepInv'
      BY <1>0, <1>10 DEF CaptchaSolved, StepInv, Filled, Empty, FormData,
          Consented, WithContact, WithCategory, WithLevel
  <2> QED BY <2>2, <2>3
<1>11. CASE ConsentDecline
  <2>1. data' \in FormData
      BY <1>0, <1>11, EmptyType DEF ConsentDecline
  <2>2. TypeOK'
      BY <1>11, <2>1, LeftType, FormBounds DEF ConsentDecline, TypeOK, FormStates, EditStates
  <2>3. StepInv'
      BY <1>0, <1>11 DEF ConsentDecline, StepInv, Filled, Empty, FormData,
          Consented, WithContact, WithCategory, WithLevel
  <2> QED BY <2>2, <2>3
<1>12. CASE ConsentAccept
  <2>1. data' \in FormData
      BY <1>0, <1>12 DEF ConsentAccept, FormData
  <2>2. TypeOK'
      BY <1>12, <2>1, LeftType, FormBounds DEF ConsentAccept, TypeOK, FormStates, EditStates
  <2>3. StepInv'
      BY <1>0, <1>12 DEF ConsentAccept, StepInv, Filled, Empty, FormData,
          Consented, WithContact, WithCategory, WithLevel
  <2> QED BY <2>2, <2>3
<1>13. CASE ProcessNickname
  <2>1. data' \in FormData
      BY <1>0, <1>13 DEF ProcessNickname, FormData
  <2>2. TypeOK'
      BY <1>13, <2>1 DEF ProcessNickname, TypeOK, FormStates, EditStates, Goto
  <2>3. StepInv'
      BY <1>0, <1>13 DEF ProcessNickname, StepInv, Filled, Empty, FormData,
          Consented, WithContact, WithCategory, WithLevel, Goto
  <2> QED BY <2>2, <2>3
<1>14. CASE ProcessEmail
  <2>1. data' \in FormData
      BY <1>0, <1>14 DEF ProcessEmail, FormData
  <2>2. TypeOK'
      BY <1>14, <2>1 DEF ProcessEmail, TypeOK, FormStates, EditStates, Goto
  <2>3. StepInv'
      BY <1>0, <1>14 DEF ProcessEmail, StepInv, Filled, Empty, FormData,
          Consented, WithContact, WithCategory, WithLevel, Goto
  <2> QED BY <2>2, <2>3
<1>15. CASE RolesDone
  <2>1. data' \in FormData
      BY <1>0, <1>15 DEF RolesDone
  <2>2. TypeOK'
      BY <1>15, <2>1 DEF RolesDone, TypeOK, FormStates, EditStates, Goto
  <2>3. StepInv'
      BY <1>0, <1>15 DEF RolesDone, StepInv, Filled, Empty, FormData,
          Consented, WithContact, WithCategory, WithLevel, Goto
  <2> QED BY <2>2, <2>3
<1>16. CASE EngineDone
  <2>1. data' \in FormData
      BY <1>0, <1>16, NextStepType DEF EngineDone
  <2>2. TypeOK'
      BY <1>16, <2>1 DEF EngineDone, TypeOK, FormStates, EditStates, Goto, GoToTools
  <2>3. StepInv'
      BY <1>0, <1>16 DEF EngineDone, StepInv, Filled, Empty, FormData,
          Consented, WithContact, WithCategory, WithLevel, Goto, GoToTools
  <2> QED BY <2>2, <2>3
<1>17. CASE ProcessEngineOther
  <2>0. [data EXCEPT !.engine_other = TRUE] \in FormData
      BY <1>0 DEF FormData
  <2>1. data' \in FormData
      BY <2>0, <1>17, NextStepType DEF ProcessEngineOther
  <2>2. TypeOK'
      BY <1>17, <2>1 DEF ProcessEngineOther, TypeOK, FormStates, EditStates, Goto, GoToTools
  <2>3. StepInv'
      BY <1>0, <1>17 DEF ProcessEngineOther, StepInv, Filled, Empty, FormData,
          Consented, WithContact, WithCategory, WithLevel, Goto, GoToTools
  <2> QED BY <2>2, <2>3
<1>18. CASE ToolsDone
  <2>1. data' \in FormData
      BY <1>0, <1>18, NextStepType DEF ToolsDone
  <2>2. TypeOK'
      BY <1>18, <2>1 DEF ToolsDone, TypeOK, FormStates, EditStates, Goto, AfterTools, GoToStrengths, GoToMotivation
  <2>3. StepInv'
      BY <1>0, <1>18 DEF ToolsDone, StepInv, Filled, Empty, FormData,
          Consented, WithContact, WithCategory, WithLevel, Goto, AfterTools, GoToStrengths, GoToMotivation
  <2> QED BY <2>2, <2>3
<1>19. CASE ProcessToolsOther
  <2>0. [data EXCEPT !.tools_other = TRUE] \in FormData
      BY <1>0 DEF FormData
  <2>1. data' \in FormData
      BY <2>0, <1>19, NextStepType DEF ProcessToolsOther
  <2>2. TypeOK'
      BY <1>19, <2>1 DEF ProcessToolsOther, TypeOK, FormStates, EditStates, Goto, AfterTools, GoToStrengths, GoToMotivation
  <2>3. StepInv'
      BY <1>0, <1>19 DEF ProcessToolsOther, StepInv, Filled, Empty, FormData,
          Consented, WithContact, WithCategory, WithLevel, Goto, AfterTools, GoToStrengths, GoToMotivation
  <2> QED BY <2>2, <2>3
<1>20. CASE StrengthsDone
  <2>1. data' \in FormData
      BY <1>0, <1>20 DEF StrengthsDone, FormData, GoToMotivation
  <2>2. TypeOK'
      BY <1>20, <2>1 DEF StrengthsDone, TypeOK, FormStates, EditStates, Goto, GoToMotivation
  <2>3. StepInv'
      BY <1>0, <1>20 DEF StrengthsDone, StepInv, Filled, Empty, FormData,
          Consented, WithContact, WithCategory, WithLevel, Goto, GoToMotivation
  <2> QED BY <2>2, <2>3
<1>21. CASE MotivationDone
  <2>1. data' \in FormData
      BY <1>0, <1>21 DEF MotivationDone
  <2>2. TypeOK'
      BY <1>21, <2>1 DEF MotivationDone, TypeOK, FormStates, EditStates, Goto
  <2>3. StepInv'
      BY <1>0, <1>21 DEF MotivationDone, StepInv, Filled, Empty, FormData,
          Consented, WithContact, WithCategory, WithLevel, Goto
  <2> QED BY <2>2, <2>3
<1>22. CASE NavBack
  <2>1. data' \in FormData
      BY <1>0, <1>22 DEF NavBack
  <2>2. TypeOK'
      BY <1>22, <2>1 DEF NavBack, TypeOK, FormStates, EditStates, Goto
  <2>3. StepInv'
      BY <1>0, <1>22 DEF NavBack, StepInv, Filled, Empty, FormData,
          Consented, WithContact, WithCategory, WithLevel, Goto
  <2> QED BY <2>2, <2>3
<1>23. CASE ConfirmRestart
  <2>1. data' \in FormData
      BY <1>0, <1>23, EmptyType DEF ConfirmRestart
  <2>2. TypeOK'
      BY <1>23, <2>1, FormBounds DEF ConfirmRestart, TypeOK, FormStates, EditStates
  <2>3. StepInv'
      BY <1>0, <1>23 DEF ConfirmRestart, StepInv, Filled, Empty, FormData,
          Consented, WithContact, WithCategory, WithLevel
  <2> QED BY <2>2, <2>3
<1>24. CASE SubmitFiled
  <2>1. data' \in FormData
      BY <1>0, <1>24, EmptyType DEF SubmitFiled
  <2>2. TypeOK'
      BY <1>24, <2>1 DEF SubmitFiled, TypeOK, FormStates, EditStates, Submitting
  <2>3. StepInv'
      BY <1>0, <1>24 DEF SubmitFiled, StepInv, Filled, Empty, FormData,
          Consented, WithContact, WithCategory, WithLevel, Submitting
  <2> QED BY <2>2, <2>3
<1>25. CASE SubmitTaken
  <2>1. data' \in FormData
      BY <1>0, <1>25 DEF SubmitTaken, FormData
  <2>2. TypeOK'
      BY <1>25, <2>1, FormBounds DEF SubmitTaken, TypeOK, FormStates, EditStates, Submitting
  <2>3. StepInv'
      BY <1>0, <1>25 DEF SubmitTaken, StepInv, Filled, Empty, FormData,
          Consented, WithContact, WithCategory, WithLevel, Submitting
  <2> QED BY <2>2, <2>3
<1>26. CASE Edit
  <2>1. data' \in FormData
      BY <1>0, <1>26 DEF Edit
  <2>2. TypeOK'
      BY <1>26, <2>1, LeftType DEF Edit, TypeOK, FormStates, EditStates
  <2>3. StepInv'
      BY <1>0, <1>26 DEF Edit, StepInv, Filled, Empty, FormData,
          Consented, WithContact, WithCategory, WithLevel
  <2> QED BY <2>2, <2>3
<1>27. CASE EditPick
  <2>1. data' \in FormData
      BY <1>0, <1>27 DEF EditPick
  <2>2. TypeOK'
      BY <1>27, <2>1 DEF EditPick, TypeOK, FormStates, EditStates, Goto
  <2>3. StepInv'
      BY <1>0, <1>27 DEF EditPick, StepInv, Filled, Empty, FormData,
          Consented, WithContact, WithCategory, WithLevel, Goto
  <2> QED BY <2>2, <2>3
<1>28. CASE Decided
  <2>1. data' \in FormData
      BY <1>0, <1>28 DEF Decided
  <2>2. TypeOK'
      BY <1>28, <2>1 DEF Decided, TypeOK, FormStates, EditStates
  <2>3. StepInv'
      BY <1>0, <1>28 DEF Decided, StepInv, Filled, Empty, FormData,
          Consented, WithContact, WithCategory, WithLevel
  <2> QED BY <2>2, <2>3
<1>29. CASE ActiveElsewhere
  <2>1. data' \in FormData
      BY <1>0, <1>29 DEF ActiveElsewhere
  <2>2. TypeOK'
      BY <1>29, <2>1 DEF ActiveElsewhere, TypeOK, FormStates, EditStates
  <2>3. StepInv'
      BY <1>0, <1>29 DEF ActiveElsewhere, StepInv, Filled, Empty, FormData,
          Consented, WithContact, WithCategory, WithLevel
  <2> QED BY <2>2, <2>3
<1>30. ASSUME NEW c \in Categories, ProcessCategory(c) PROVE FormInv'
  <2>1. data' \in FormData
      BY <1>0, <1>30 DEF ProcessCategory, FormData
  <2>2. TypeOK'
      BY <1>30, <2>1 DEF ProcessCategory, TypeOK, FormStates, EditStates, Goto
  <2>3. StepInv'
      BY <1>0, <1>30, CatalogAssumption DEF ProcessCategory, StepInv, Filled, Empty, FormData,
          Consented, WithContact, WithCategory, WithLevel, Goto
  <2> QED BY <2>2, <2>3
<1>31. ASSUME NEW r \in Roles, ToggleRole(r) PROVE FormInv'
  <2>0. Picked(data.roles, r) \in SUBSET Roles
    <3>1. data.roles \in SUBSET Roles
        BY <1>0 DEF FormData
    <3> QED BY <3>1, <1>31, ToggledType
  <2>1. data' \in FormData
      BY <1>0, <1>31, <2>0 DEF ToggleRole, FormData
  <2>2. TypeOK'
      BY <1>31, <2>1 DEF ToggleRole, TypeOK, FormStates, EditStates, Goto
  <2>3. StepInv'
      BY <1>0, <1>31 DEF ToggleRole, StepInv, Filled, Empty, FormData,
          Consented, WithContact, WithCategory, WithLevel, Goto
  <2> QED BY <2>2, <2>3
<1>32. ASSUME NEW level \in Levels, ProcessExperience(level) PROVE FormInv'
  <2>1. data' \in FormData
      BY <1>0, <1>32 DEF ProcessExperience, FormData
  <2>2. TypeOK'
      BY <1>32, <2>1 DEF ProcessExperience, TypeOK, FormStates, EditStates, Goto, Levels
  <2>3. StepInv'
      BY <1>0, <1>32 DEF ProcessExperience, StepInv, Filled, Empty, FormData,
          Consented, WithContact, WithCategory, WithLevel, Goto, Levels
  <2> QED BY <2>2, <2>3
<1>33. ASSUME NEW o \in EngineOptions, ToggleEngine(o) PROVE FormInv'
  <2>0. Toggled(data.engine, o) \in SUBSET EngineOptions
    <3>1. data.engine \in SUBSET EngineOptions
        BY <1>0 DEF FormData
    <3> QED BY <3>1, <1>33, ToggledType
  <2>1. data' \in FormData
      BY <1>0, <1>33, <2>0 DEF ToggleEngine, FormData
  <2>2. TypeOK'
      BY <1>33, <2>1 DEF ToggleEngine, TypeOK, FormStates, EditStates, Goto
  <2>3. StepInv'
      BY <1>0, <1>33 DEF ToggleEngine, StepInv, Filled, Empty, FormData,
          Consented, WithContact, WithCategory, WithLevel, Goto
  <2> QED BY <2>2, <2>3
<1>34. ASSUME NEW o \in ToolOptions, ToggleTool(o) PROVE FormInv'
  <2>0. Toggled(data.tools, o) \in SUBSET ToolOptions
    <3>1. data.tools \in SUBSET ToolOptions
        BY <1>0 DEF FormData
    <3> QED BY <3>1, <1>34, ToggledType
  <2>1. data' \in FormData
      BY <1>0, <1>34, <2>0 DEF ToggleTool, FormData
  <2>2. TypeOK'
      BY <1>34, <2>1 DEF ToggleTool, TypeOK, FormStates, EditStates, Goto
  <2>3. StepInv'
      BY <1>0, <1>34 DEF ToggleTool, StepInv, Filled, Empty, FormData,
          Consented, WithContact, WithCategory, WithLevel, Goto
  <2> QED BY <2>2, <2>3
<1>35. ASSUME NEW x \in Strengths, ToggleStrength(x) PROVE FormInv'
  <2>0. Picked(data.strengths, x) \in SUBSET Strengths
    <3>1. data.strengths \in SUBSET Strengths
        BY <1>0 DEF FormData
    <3> QED BY <3>1, <1>35, ToggledType
  <2>1. data' \in FormData
      BY <1>0, <1>35, <2>0 DEF ToggleStrength, FormData
  <2>2. TypeOK'
      BY <1>35, <2>1 DEF ToggleStrength, TypeOK, FormStates, EditStates, Goto
  <2>3. StepInv'
      BY <1>0, <1>35 DEF ToggleStrength, StepInv, Filled, Empty, FormData,
          Consented, WithContact, WithCategory, WithLevel, Goto
  <2> QED BY <2>2, <2>3
<1>36. ASSUME NEW x \in Motivations, ToggleMotivation(x) PROVE FormInv'
  <2>0. Picked(data.motivations, x) \in SUBSET Motivations
    <3>1. data.motivations \in SUBSET Motivations
        BY <1>0 DEF FormData
    <3> QED BY <3>1, <1>36, ToggledType
  <2>1. data' \in FormData
      BY <1>0, <1>36, <2>0 DEF ToggleMotivation, FormData
  <2>2. TypeOK'
      BY <1>36, <2>1 DEF ToggleMotivation, TypeOK, FormStates, EditStates, Goto
  <2>3. StepInv'
      BY <1>0, <1>36 DEF ToggleMotivation, StepInv, Filled, Empty, FormData,
          Consented, WithContact, WithCategory, WithLevel, Goto
  <2> QED BY <2>2, <2>3
<1>37. ASSUME NEW p \in Profiles, EditSkills(p) PROVE FormInv'
  <2>1. data' \in FormData
      BY <1>0, <1>37, ProfileType DEF EditSkills, FormData
  <2>2. TypeOK'
      BY <1>37, <2>1 DEF EditSkills, TypeOK, FormStates, EditStates, Goto
  <2>3. StepInv'
      BY <1>0, <1>37, ProfileType DEF EditSkills, StepInv, Filled, Empty, FormData,
          Consented, WithContact, WithCategory, WithLevel, Goto
  <2> QED BY <2>2, <2>3
<1>38. CASE UNCHANGED vars
    BY <1>38 DEF vars, TypeOK, StepInv, Filled
<1> QED
    BY <1>1, <1>2, <1>3, <1>4, <1>5, <1>6, <1>7, <1>8, <1>9, <1>10, <1>11, <1>12,
       <1>13, <1>14, <1>15, <1>16, <1>17, <1>18, <1>19, <1>20, <1>21, <1>22,
       <1>23, <1>24, <1>25, <1>26, <1>27, <1>28, <1>29, <1>30, <1>31, <1>32,
       <1>33, <1>34, <1>35, <1>36, <1>37, <1>38 DEF Next

-----------------------------------------------------------------------------
LEMMA FormAlways == Spec => []FormInv
<1>1. Init => FormInv
    BY FormStart
<1>2. FormInv /\ [Next]_vars => FormInv'
    BY FormStep
<1> QED BY <1>1, <1>2, PTL DEF Spec

\* The FSM state, its data and the buttons left behind stay what they are
\* declared to be.
THEOREM FormTypeCorrect == Spec => []TypeOK
<1>1. FormInv => TypeOK
    BY DEF FormInv
<1> QED BY <1>1, FormAlways, PTL

\* No step of the form and no tap on "submit" reads an FSM key that is not
\* there, whichever buttons of old messages are tapped on the way, and no form
\* comes to the confirm screen without consent.
THEOREM NoMissingKey == Spec => []StepHasItsData
<1>1. FormInv => StepHasItsData
  <2> SUFFICES ASSUME FormInv PROVE StepHasItsData
      OBVIOUS
  <2> QED BY DEF FormInv, StepInv, StepHasItsData, Filled, Consented, WithContact, WithCategory,
             WithLevel
<1> QED BY <1>1, FormAlways, PTL

-----------------------------------------------------------------------------
\* Roles come from the keyboard of the present category, from a profile or from
\* a keyboard left behind; those left behind stay there.
RolesInv == boards = {} => \A r \in data.roles : CategoryOf[r] = data.category

LEMMA RolesStep == FormInv /\ RolesInv /\ [Next]_vars => RolesInv'
<1> SUFFICES ASSUME FormInv, RolesInv, [Next]_vars, boards' = {}
             PROVE  \A r \in data'.roles : CategoryOf[r] = data'.category
    BY DEF RolesInv
<1>0. data \in FormData
    BY DEF FormInv, TypeOK
<1>1. boards = {} => \A r \in data.roles : CategoryOf[r] = data.category
    BY DEF RolesInv
<1>2. CASE Start
    BY <1>0, <1>1, <1>2 DEF Start, Cleared, Left, Empty, FormData
<1>3. CASE Withdraw
    BY <1>0, <1>1, <1>3 DEF Withdraw, Cleared, Left, Empty, FormData
<1>4. CASE Cancel
    BY <1>0, <1>1, <1>4 DEF Cancel, Cleared, Left, Empty, FormData
<1>5. CASE Register
    BY <1>0, <1>1, <1>5 DEF Register, Left, Empty, FormData
<1>6. CASE CaptchaSolved
    BY <1>0, <1>1, <1>6 DEF CaptchaSolved, Goto, Left, Empty, FormData
<1>7. CASE CaptchaFailed
    BY <1>0, <1>1, <1>7 DEF CaptchaFailed, Cleared, Left, Empty, FormData
<1>8. CASE ConsentDecline
    BY <1>0, <1>1, <1>8 DEF ConsentDecline, Left, Empty, FormData
<1>9. CASE ConsentAccept
    BY <1>0, <1>1, <1>9 DEF ConsentAccept, Left, Empty, FormData
<1>10. CASE LinkTyped
    BY <1>0, <1>1, <1>10 DEF LinkTyped, Cleared, Left, Empty, FormData
<1>11. CASE ProcessNickname
    BY <1>0, <1>1, <1>11 DEF ProcessNickname, Goto, Left, Empty, FormData
<1>12. CASE ProcessEmail
    BY <1>0, <1>1, <1>12 DEF ProcessEmail, Goto, Left, Empty, FormData
<1>13. CASE RolesDone
    BY <1>0, <1>1, <1>13 DEF RolesDone, Goto, Left, Empty, FormData
<1>14. CASE EngineDone
    BY <1>0, <1>1, <1>14 DEF EngineDone, Goto, GoToTools, Left, Empty, FormData
<1>15. CASE ProcessEngineOther
    BY <1>0, <1>1, <1>15 DEF ProcessEngineOther, Goto, GoToTools, Left, Empty, FormData
<1>16. CASE ToolsDone
    BY <1>0, <1>1, <1>16 DEF ToolsDone, Goto, AfterTools, GoToStrengths, GoToMotivation, Left, Empty, FormData
<1>17. CASE ProcessToolsOther
    BY <1>0, <1>1, <1>17 DEF ProcessToolsOther, Goto, AfterTools, GoToStrengths, GoToMotivation, Left, Empty, FormData
<1>18. CASE StrengthsDone
    BY <1>0, <1>1, <1>18 DEF StrengthsDone, Goto, GoToMotivation, Left, Empty, FormData
<1>19. CASE MotivationDone
    BY <1>0, <1>1, <1>19 DEF MotivationDone, Goto, Left, Empty, FormData
<1>20. CASE NavBack
    BY <1>0, <1>1, <1>20 DEF NavBack, Goto, Left, Empty, FormData
<1>21. CASE ConfirmRestart
    BY <1>0, <1>1, <1>21 DEF ConfirmRestart, Left, Empty, FormData
<1>22. CASE SubmitEdit
    BY <1>0, <1>1, <1>22 DEF SubmitEdit, Cleared, Left, Empty, FormData
<1>23. CASE SubmitFiled
    BY <1>0, <1>1, <1>23 DEF SubmitFiled, Cleared, Left, Empty, FormData
<1>24. CASE SubmitTaken
    BY <1>0, <1>1, <1>24 DEF SubmitTaken, Left, Empty, FormData
<1>25. CASE Edit
    BY <1>0, <1>1, <1>25 DEF Edit, Left, Empty, FormData
<1>26. CASE EditPick
    BY <1>0, <1>1, <1>26 DEF EditPick, Goto, Left, Empty, FormData
<1>27. CASE EditApply
    BY <1>0, <1>1, <1>27 DEF EditApply, Cleared, Left, Empty, FormData
<1>28. CASE EditSkillsGone
    BY <1>0, <1>1, <1>28 DEF EditSkillsGone, Cleared, Left, Empty, FormData
<1>29. CASE Decided
    BY <1>0, <1>1, <1>29 DEF Decided, Left, Empty, FormData
<1>30. CASE ActiveElsewhere
    BY <1>0, <1>1, <1>30 DEF ActiveElsewhere, Left, Empty, FormData
<1>31. ASSUME NEW c \in Categories, ProcessCategory(c)
      PROVE  \A q \in data'.roles : CategoryOf[q] = data'.category
    BY <1>0, <1>1, <1>31 DEF ProcessCategory, Goto, FormData
<1>32. ASSUME NEW r \in Roles, ToggleRole(r)
      PROVE  \A q \in data'.roles : CategoryOf[q] = data'.category
    BY <1>0, <1>1, <1>32 DEF ToggleRole, Picked, Goto, FormData
<1>33. ASSUME NEW level \in Levels, ProcessExperience(level)
      PROVE  \A q \in data'.roles : CategoryOf[q] = data'.category
    BY <1>0, <1>1, <1>33 DEF ProcessExperience, Goto, FormData
<1>34. ASSUME NEW o \in EngineOptions, ToggleEngine(o)
      PROVE  \A q \in data'.roles : CategoryOf[q] = data'.category
    BY <1>0, <1>1, <1>34 DEF ToggleEngine, Goto, FormData
<1>35. ASSUME NEW o \in ToolOptions, ToggleTool(o)
      PROVE  \A q \in data'.roles : CategoryOf[q] = data'.category
    BY <1>0, <1>1, <1>35 DEF ToggleTool, Goto, FormData
<1>36. ASSUME NEW x \in Strengths, ToggleStrength(x)
      PROVE  \A q \in data'.roles : CategoryOf[q] = data'.category
    BY <1>0, <1>1, <1>36 DEF ToggleStrength, Goto, FormData
<1>37. ASSUME NEW x \in Motivations, ToggleMotivation(x)
      PROVE  \A q \in data'.roles : CategoryOf[q] = data'.category
    BY <1>0, <1>1, <1>37 DEF ToggleMotivation, Goto, FormData
<1>38. ASSUME NEW p \in Profiles, EditSkills(p)
      PROVE  \A q \in data'.roles : CategoryOf[q] = data'.category
    BY <1>0, <1>1, <1>38 DEF EditSkills, Profiles, Goto
<1>39. CASE UNCHANGED vars
    BY <1>1, <1>39 DEF vars
<1> QED
    BY <1>2, <1>3, <1>4, <1>5, <1>6, <1>7, <1>8, <1>9, <1>10, <1>11,
       <1>12, <1>13, <1>14, <1>15, <1>16, <1>17, <1>18, <1>19, <1>20, <1>21,
       <1>22, <1>23, <1>24, <1>25, <1>26, <1>27, <1>28, <1>29, <1>30, <1>31,
       <1>32, <1>33, <1>34, <1>35, <1>36, <1>37, <1>38, <1>39 DEF Next

\* Only the keyboard of an abandoned form brings a role of another category.
THEOREM RolesFit == Spec => []RolesFitCategory
<1>1. Init => RolesInv
    BY DEF Init, Empty, RolesInv
<1>2. FormInv /\ RolesInv /\ [Next]_vars => RolesInv'
    BY RolesStep
<1>3. RolesInv => RolesFitCategory
    BY DEF RolesInv, RolesFitCategory
<1> QED BY <1>1, <1>2, <1>3, FormAlways, PTL DEF Spec

-----------------------------------------------------------------------------
\* What the later steps have behind them: each "done" button lets on only with
\* an answer, and with the text of an "Other".
WithTools == {"strengths", "motivation", "confirm"}
WithEngine == WithTools \cup {"tools", "tools_other"}
WithRoles == WithLevel \cup {"experience"}
Named(picks, text) == picks # {} /\ ("Other" \in picks => text)

Complete(d) ==
    /\ Filled(d) /\ Accepted(d) /\ OtherNamed(d)
    /\ d.experience = "beginner" => d.strengths # {}

AnswersInv ==
    /\ NoneAlone(data.engine) /\ NoneAlone(data.tools)
    /\ state \in WithRoles => data.roles # {}
    /\ state = "engine_other" => data.engine # {}
    /\ state = "tools_other" => data.tools # {}
    /\ state \in WithEngine => Named(data.engine, data.engine_other)
    /\ state \in WithTools => Named(data.tools, data.tools_other)
    /\ state \in {"motivation", "confirm"} /\ data.experience = "beginner"
          => data.strengths # {}
    /\ state = "confirm" => data.motivations # {}
    /\ data.awaiting_contact_fix =>
          state \in {"nickname", "email"} /\ ~active /\ Complete(data)

\* A player with one chat answers step by step; with two, an application filed
\* in the other chat opens /edit in the middle of a contact fix.
AloneInv == ~elsewhere => AnswersInv

\* "None yet" stays alone under any tap.
LEMMA ToggledAlone ==
    ASSUME NEW picks, NEW o, NoneAlone(picks)
    PROVE  NoneAlone(Toggled(picks, o))
BY DEF NoneAlone, Toggled

LEMMA AnswersStart == Init => AnswersInv
BY DEF Init, AnswersInv, Empty, NoneAlone, WithRoles, WithLevel, WithCategory, WithContact,
       WithEngine, WithTools

\* A form that ends or starts anew has nothing to keep.
LEMMA AnswersAnew ==
    ASSUME state' \in {"clear", "captcha", "consent"}, data' = Empty
    PROVE  AnswersInv'
BY DEF AnswersInv, Empty, NoneAlone, WithRoles, WithLevel, WithCategory, WithContact,
       WithEngine, WithTools

\* A step that changes no answer and leads where fewer are asked for.
LEMMA AnswersKept ==
    ASSUME AnswersInv, UNCHANGED data,
           state' \in WithRoles => state \in WithRoles,
           state' \in WithEngine => state \in WithEngine,
           state' \in WithTools => state \in WithTools,
           state' \in {"motivation", "confirm"} => state \in {"motivation", "confirm"},
           state' = "confirm" => state = "confirm",
           state' = "engine_other" => data.engine # {},
           state' = "tools_other" => data.tools # {},
           data.awaiting_contact_fix => state' = state /\ ~active'
    PROVE  AnswersInv'
<1> USE DEF AnswersInv
<1>1. data'.awaiting_contact_fix => state' \in {"nickname", "email"} /\ ~active'
    OBVIOUS
<1>2. data'.awaiting_contact_fix => Complete(data')
    OBVIOUS
<1>3. /\ NoneAlone(data'.engine) /\ NoneAlone(data'.tools)
      /\ state' \in WithEngine => Named(data'.engine, data'.engine_other)
      /\ state' \in WithTools => Named(data'.tools, data'.tools_other)
    OBVIOUS
<1> QED BY <1>1, <1>2, <1>3

\* One step per action.
LEMMA AnswersStep ==
    ASSUME FormInv, ~elsewhere, AnswersInv, [Next]_vars
    PROVE  AnswersInv'
<1> USE DEF WithRoles, WithLevel, WithCategory, WithContact, WithEngine, WithTools
<1>0. data \in FormData /\ (state = "confirm" => Filled(data))
    BY DEF FormInv, TypeOK, StepInv, Filled
<1>1. CASE Start \/ Withdraw \/ Cancel \/ CaptchaFailed \/ LinkTyped \/ SubmitEdit
           \/ EditApply \/ EditSkillsGone \/ Register \/ ConsentDecline \/ ConfirmRestart
    BY <1>1, AnswersAnew DEF Start, Withdraw, Cancel, CaptchaFailed, LinkTyped, SubmitEdit,
       EditApply, EditSkillsGone, Register, ConsentDecline, ConfirmRestart, Cleared
<1>2. CASE CaptchaSolved
    BY <1>2, AnswersKept DEF CaptchaSolved, AnswersInv
<1>3. CASE Edit \/ EditPick
    BY <1>3, AnswersKept DEF Edit, EditPick, Goto, AnswersInv
<1>4. CASE Decided
    BY <1>4, AnswersKept DEF Decided, AnswersInv
<1>5. CASE ActiveElsewhere
    BY <1>5 DEF ActiveElsewhere
<1>6. CASE NavBack
  <2>1. ~data.awaiting_contact_fix
      BY <1>6 DEF NavBack, AnswersInv
  <2>2. UNCHANGED data
      BY <1>6 DEF NavBack
  <2>3. \/ state = "roles" /\ state' = "category"
        \/ state = "experience" /\ state' = "roles"
        \/ state = "engine" /\ state' = "experience"
        \/ state = "tools" /\ state' = "engine"
        \/ state \in {"strengths", "motivation"} /\ state' = "tools"
        \/ state = "motivation" /\ state' = "strengths"
      BY <1>6 DEF NavBack, Goto
  <2> QED BY <2>1, <2>2, <2>3, AnswersKept
<1>7. CASE ConsentAccept
  <2>1. data' = [data EXCEPT !.consent = TRUE] /\ state' = "nickname" /\ active' = active
      BY <1>7 DEF ConsentAccept
  <2>2. Complete(data) => Complete(data')
      BY <1>0, <2>1 DEF Complete, Filled, Accepted, OtherNamed, FormData
  <2> QED BY <1>0, <2>1, <2>2 DEF AnswersInv, FormData
<1>8. CASE ProcessNickname
  <2>1. data' = [data EXCEPT !.nickname = TRUE] /\ state' = "email" /\ active' = active
      BY <1>8 DEF ProcessNickname, Goto
  <2>2. Complete(data) => Complete(data')
      BY <1>0, <2>1 DEF Complete, Filled, Accepted, OtherNamed, FormData
  <2> QED BY <1>0, <2>1, <2>2 DEF AnswersInv, FormData
<1>9. CASE ProcessEmail
  <2>1. /\ data' = [data EXCEPT !.email = TRUE, !.awaiting_contact_fix = FALSE]
        /\ state' = IF data.awaiting_contact_fix THEN "confirm" ELSE "category"
      BY <1>9 DEF ProcessEmail, Goto
  <2>2. NoneAlone(data'.engine) /\ NoneAlone(data'.tools) /\ ~data'.awaiting_contact_fix
      BY <1>0, <2>1 DEF AnswersInv, FormData
  <2>3. data.awaiting_contact_fix =>
           /\ data'.roles # {} /\ data'.motivations # {}
           /\ Named(data'.engine, data'.engine_other) /\ Named(data'.tools, data'.tools_other)
           /\ data'.experience = "beginner" => data'.strengths # {}
      BY <1>0, <2>1 DEF AnswersInv, Complete, Accepted, OtherNamed, Named, FormData
  <2> QED BY <2>1, <2>2, <2>3 DEF AnswersInv
<1>10. ASSUME NEW c \in Categories, ProcessCategory(c) PROVE AnswersInv'
    BY <1>0, <1>10 DEF ProcessCategory, Goto, AnswersInv, FormData
<1>11. ASSUME NEW r \in Roles, ToggleRole(r) PROVE AnswersInv'
    BY <1>0, <1>11 DEF ToggleRole, Goto, AnswersInv, FormData
<1>12. CASE RolesDone
    BY <1>0, <1>12 DEF RolesDone, Goto, AnswersInv
<1>13. ASSUME NEW level \in Levels, ProcessExperience(level) PROVE AnswersInv'
  <2>1. NoneAlone({})
      BY DEF NoneAlone
  <2> QED BY <1>0, <1>13, <2>1 DEF ProcessExperience, Goto, AnswersInv, FormData
<1>14. ASSUME NEW o \in EngineOptions, ToggleEngine(o) PROVE AnswersInv'
    BY <1>0, <1>14, ToggledAlone DEF ToggleEngine, Goto, AnswersInv, FormData
<1>15. ASSUME NEW o \in ToolOptions, ToggleTool(o) PROVE AnswersInv'
    BY <1>0, <1>15, ToggledAlone DEF ToggleTool, Goto, AnswersInv, FormData
<1>16. ASSUME NEW d \in FormData, GoToTools(d), NoneAlone(d.engine), NoneAlone(d.tools),
              d.roles # {}, Named(d.engine, d.engine_other), ~d.awaiting_contact_fix
       PROVE  AnswersInv'
  <2>1. NoneAlone({})
      BY DEF NoneAlone
  <2> QED BY <1>16, <2>1 DEF GoToTools, Goto, AnswersInv, FormData
<1>17. CASE EngineDone
  <2>1. /\ state = "engine" /\ data.engine # {} /\ data.roles # {}
        /\ NoneAlone(data.engine) /\ NoneAlone(data.tools) /\ ~data.awaiting_contact_fix
      BY <1>17 DEF EngineDone, AnswersInv
  <2>2. CASE "Other" \in data.engine /\ ~data.engine_other
      BY <1>17, <2>1, <2>2, AnswersKept DEF EngineDone, Goto
  <2>3. CASE ~("Other" \in data.engine /\ ~data.engine_other)
      BY <1>0, <1>16, <1>17, <2>1, <2>3 DEF EngineDone, Named
  <2> QED BY <2>2, <2>3
<1>18. CASE ProcessEngineOther
  <2> DEFINE d == [data EXCEPT !.engine_other = TRUE]
  <2>1. /\ d \in FormData /\ d.engine = data.engine /\ d.tools = data.tools
        /\ d.roles = data.roles /\ d.engine_other = TRUE
        /\ d.awaiting_contact_fix = data.awaiting_contact_fix
      BY <1>0 DEF FormData
  <2>2. GoToTools(d) /\ state = "engine_other"
      BY <1>18 DEF ProcessEngineOther
  <2> HIDE DEF d
  <2>3. /\ NoneAlone(d.engine) /\ NoneAlone(d.tools) /\ d.roles # {}
        /\ Named(d.engine, d.engine_other) /\ ~d.awaiting_contact_fix
      BY <2>1, <2>2 DEF AnswersInv, Named
  <2> QED BY <1>16, <2>1, <2>2, <2>3
<1>19. ASSUME NEW d \in FormData, AfterTools(d), NoneAlone(d.engine), NoneAlone(d.tools),
              d.roles # {}, Named(d.engine, d.engine_other),
              Named(d.tools, d.tools_other), ~d.awaiting_contact_fix
       PROVE  AnswersInv'
  <2>1. CASE d.experience = "beginner"
      BY <1>19, <2>1 DEF AfterTools, GoToStrengths, Goto, AnswersInv, FormData
  <2>2. CASE d.experience # "beginner"
      BY <1>19, <2>2 DEF AfterTools, GoToMotivation, Goto, AnswersInv, FormData
  <2> QED BY <2>1, <2>2
<1>20. CASE ToolsDone
  <2>1. /\ state = "tools" /\ data.tools # {} /\ data.roles # {}
        /\ Named(data.engine, data.engine_other)
        /\ NoneAlone(data.engine) /\ NoneAlone(data.tools) /\ ~data.awaiting_contact_fix
      BY <1>20 DEF ToolsDone, AnswersInv
  <2>2. CASE "Other" \in data.tools /\ ~data.tools_other
      BY <1>20, <2>1, <2>2, AnswersKept DEF ToolsDone, Goto
  <2>3. CASE ~("Other" \in data.tools /\ ~data.tools_other)
      BY <1>0, <1>19, <1>20, <2>1, <2>3 DEF ToolsDone, Named
  <2> QED BY <2>2, <2>3
<1>21. CASE ProcessToolsOther
  <2> DEFINE d == [data EXCEPT !.tools_other = TRUE]
  <2>1. /\ d \in FormData /\ d.engine = data.engine /\ d.tools = data.tools
        /\ d.roles = data.roles /\ d.engine_other = data.engine_other /\ d.tools_other = TRUE
        /\ d.awaiting_contact_fix = data.awaiting_contact_fix
      BY <1>0 DEF FormData
  <2>2. AfterTools(d) /\ state = "tools_other"
      BY <1>21 DEF ProcessToolsOther
  <2> HIDE DEF d
  <2>3. /\ NoneAlone(d.engine) /\ NoneAlone(d.tools) /\ d.roles # {}
        /\ Named(d.engine, d.engine_other) /\ Named(d.tools, d.tools_other)
        /\ ~d.awaiting_contact_fix
      BY <2>1, <2>2 DEF AnswersInv, Named
  <2> QED BY <1>19, <2>1, <2>2, <2>3
<1>22. ASSUME NEW x \in Strengths, ToggleStrength(x) PROVE AnswersInv'
    BY <1>0, <1>22 DEF ToggleStrength, Goto, AnswersInv, FormData
<1>23. CASE StrengthsDone
    BY <1>0, <1>23 DEF StrengthsDone, GoToMotivation, Goto, AnswersInv, FormData
<1>24. ASSUME NEW x \in Motivations, ToggleMotivation(x) PROVE AnswersInv'
    BY <1>0, <1>24 DEF ToggleMotivation, Goto, AnswersInv, FormData
<1>25. CASE MotivationDone
    BY <1>25 DEF MotivationDone, Goto, AnswersInv
<1>26. CASE SubmitFiled
  <2>1. state = "confirm" /\ ~data.awaiting_contact_fix
      BY <1>26 DEF SubmitFiled, Submitting, AnswersInv
  <2>2. CASE state' = "clear" /\ data' = Empty
      BY <2>2, AnswersAnew
  <2>3. CASE UNCHANGED <<state, data>>
      BY <2>1, <2>3, AnswersKept
  <2> QED BY <1>26, <2>2, <2>3 DEF SubmitFiled
\* The detour starts from a form that a submit has just accepted, and with no
\* other chat no application turns up behind its back.
<1>27. CASE SubmitTaken
  <2>1. /\ data' = [data EXCEPT !.awaiting_contact_fix = TRUE] /\ state' = "nickname"
        /\ state = "confirm" /\ Filled(data) /\ Accepted(data)
        /\ active' \in {FALSE, elsewhere}
      BY <1>27 DEF SubmitTaken, Submitting
  <2>2. ~active'
      BY <2>1
  <2>3. Complete(data')
      BY <1>0, <2>1 DEF AnswersInv, Complete, Filled, Accepted, OtherNamed, Named, FormData
  <2> QED BY <1>0, <2>1, <2>2, <2>3 DEF AnswersInv, FormData
<1>28. ASSUME NEW p \in Profiles, EditSkills(p) PROVE AnswersInv'
  <2>1. NoneAlone(p.engine) /\ NoneAlone(p.tools)
      BY DEF Profiles
  <2>2. /\ state' = "category" /\ data'.engine = p.engine /\ data'.tools = p.tools
        /\ ~data'.awaiting_contact_fix
      BY <1>28 DEF EditSkills, Goto, AnswersInv
  <2> QED BY <2>1, <2>2 DEF AnswersInv
<1>29. CASE UNCHANGED vars
    BY <1>29, AnswersKept DEF vars, AnswersInv
<1> QED
    BY <1>1, <1>2, <1>3, <1>4, <1>5, <1>6, <1>7, <1>8, <1>9, <1>10, <1>11, <1>12,
       <1>13, <1>14, <1>15, <1>17, <1>18, <1>20, <1>21, <1>22, <1>23, <1>24, <1>25,
       <1>26, <1>27, <1>28, <1>29 DEF Next

\* No step is taken from one chat to two.
LEMMA StaysAlone == FormInv /\ [Next]_vars => elsewhere' = elsewhere
BY DEF Next, vars, Goto, Cleared, Start, Withdraw, Cancel, Register, CaptchaSolved,
       CaptchaFailed, ConsentDecline, ConsentAccept, LinkTyped, ProcessNickname, ProcessEmail,
       ProcessCategory, ToggleRole, RolesDone, ProcessExperience, ToggleEngine, EngineDone,
       GoToTools, ProcessEngineOther, ToggleTool, ToolsDone, AfterTools, GoToStrengths,
       GoToMotivation, ProcessToolsOther, ToggleStrength, StrengthsDone, ToggleMotivation,
       MotivationDone, NavBack, ConfirmRestart, SubmitEdit, SubmitFiled, SubmitTaken, Edit,
       EditPick, EditApply, EditSkills, EditSkillsGone, Decided, ActiveElsewhere

LEMMA AloneAlways == Spec => []AloneInv
<1>1. Init => AloneInv
    BY AnswersStart DEF AloneInv
<1>2. FormInv /\ AloneInv /\ [Next]_vars => AloneInv'
    BY AnswersStep, StaysAlone DEF AloneInv
<1> QED BY <1>1, <1>2, FormAlways, PTL DEF Spec

\* Whatever steps back, old buttons, edits and contact fixes lead to it: what a
\* submit from a player's only chat accepts names its "Other" answers and picks
\* "none yet" alone (AcceptedMakesSense; RegistrationCreate checks neither).
THEOREM SubmitMakesSense == Spec => []AcceptedMakesSense
<1>1. FormInv /\ AloneInv => AcceptedMakesSense
  <2> SUFFICES ASSUME AnswersInv, Submitting
               PROVE  OtherNamed(data) /\ NoneAlone(data.engine) /\ NoneAlone(data.tools)
      BY DEF AloneInv, AcceptedMakesSense
  <2> QED BY DEF AnswersInv, Submitting, OtherNamed, Named, WithEngine, WithTools
<1> QED BY <1>1, FormAlways, AloneAlways, PTL

\* A beginner's submit names the strengths, also when the level was changed on
\* the way back or by an edit (BeginnersNameStrengths; the branch after tools).
THEOREM BeginnersAnswer == Spec => []BeginnersNameStrengths
<1>1. AloneInv => BeginnersNameStrengths
    BY DEF AloneInv, AnswersInv, BeginnersNameStrengths, Submitting
<1> QED BY <1>1, AloneAlways, PTL

\* The detour after a contact collision keeps every answer, so that its short
\* way back to confirm ends in a form that can be submitted
\* (ContactFixKeepsAnswers; awaiting_contact_fix in process_email).
THEOREM DetourKeepsAnswers == Spec => []ContactFixKeepsAnswers
<1>1. AloneInv => ContactFixKeepsAnswers
    BY DEF AloneInv, AnswersInv, Complete, ContactFixKeepsAnswers
<1> QED BY <1>1, AloneAlways, PTL
=============================================================================
