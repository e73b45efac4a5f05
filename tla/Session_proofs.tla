--------------------------- MODULE Session_proofs ---------------------------
(***************************************************************************)
(* Proofs about Greeter, for any list of login options: the types, that a  *)
(* reply reaches the question it was shown for, that nobody is logged in   *)
(* silently, and that nothing replaces a login that has succeeded; and     *)
(* about RunPasswd, for any passwords: which line of the queue reaches     *)
(* which prompt of passwd, and that a reported change has been made.       *)
(* MCSession's instance Change has the variables of RunPasswd under their  *)
(* own names.                                                              *)
(***************************************************************************)
EXTENDS MCSession, TLAPS

-----------------------------------------------------------------------------
(* Logging in: Greeter                                                     *)

\* What the gateway's flags say of the conversation.  PromptBelongs and
\* NoSilentLogin follow from the flags only together with these.
InStep ==
  /\ current_login = 0 <=> conversation.state = "none"
  /\ had_prompt => conversation.user
  /\ awaiting_confirmation => conversation.state = "done"
  /\ conversation.state = "done" => awaiting_start_session \/ awaiting_confirmation

LoginInv == LoginType /\ InStep /\ PromptBelongs /\ NoSilentLogin

-----------------------------------------------------------------------------
LEMMA OptionFacts ==
  /\ 0 \notin Options
  /\ \A n \in Sizes : n \in Nat /\ 1..n \subseteq Options
BY GreeterAssumption DEF GreeterAssumption, Options

\* The list: a selection is of an option that is there, and the timeouts
\* pending are those of options.
THEOREM ListCorrect == Spec => []ListType
<1>1. Init => ListType
  <2> SUFFICES ASSUME Init PROVE ListType
    OBVIOUS
  <2>1. size \in Sizes /\ current_user \in 1..size /\ pending = <<current_user>>
    BY DEF Init
  <2>2. current_user \in Options
    BY <2>1, OptionFacts
  <2>3. QED BY <2>1, <2>2 DEF ListType
<1>2. ListType /\ [Next]_vars => ListType'
  <2> SUFFICES ASSUME ListType, [Next]_vars PROVE ListType'
    OBVIOUS
  <2>1. ASSUME NEW i \in Options, Select(i) PROVE ListType'
    <3>1. size' = size /\ current_user' \in 1..size /\ pending' = Append(pending, i)
      BY <2>1 DEF Select
    <3>2. QED BY <2>1, <3>1 DEF ListType
  <2>2. ASSUME PassFocus PROVE ListType'
    <3>1. size' = size /\ current_user' = current_user /\ pending # <<>> /\ pending' = Tail(pending)
      BY <2>2 DEF PassFocus
    <3>2. QED BY <3>1 DEF ListType
  <2>3. CASE UNCHANGED list
    BY <2>3 DEF ListType, list
  <2>4. QED
    BY <2>1, <2>2, <2>3 DEF Next, vars, EditName, EnterName, Reply, Prompt, FingerMessage,
                            Authenticated, NotAuthenticated, FadeCompleted
<1>3. QED BY <1>1, <1>2, PTL DEF Spec

-----------------------------------------------------------------------------
(* The handlers' building blocks                                           *)

\* A new login starts with nothing shown in the box that was logging in.
LEMMA LoginKeepsInv ==
  ASSUME LoginInv, NEW i \in Options,
         NEW shown \in [Options -> {"none", "password", "button"}],
         \A j \in Options : shown[j] \in {"none", credentials[j]},
         login_with_mask(i, shown),
         UNCHANGED <<name, awaiting_start_session, session>>
  PROVE  LoginInv'
<1> USE DEF LoginInv, name
<1>1. CASE awaiting_start_session
  <2>1. /\ credentials' = shown
        /\ UNCHANGED <<current_login, had_prompt, awaiting_confirmation, conversation>>
    BY <1>1 DEF login_with_mask, gateway
  <2>2. LoginType'
    BY <2>1 DEF LoginType
  <2>3. InStep' /\ NoSilentLogin'
    BY <2>1 DEF InStep, NoSilentLogin
  <2>4. PromptBelongs'
    BY <2>1 DEF PromptBelongs, LoginType
  <2>5. QED BY <2>2, <2>3, <2>4
<1>2. CASE ~awaiting_start_session
  <2>1. /\ credentials' = [j \in Options |-> IF j = current_login THEN "none" ELSE shown[j]]
        /\ current_login' = i /\ had_prompt' = FALSE /\ awaiting_confirmation' = FALSE
        /\ conversation' = [state |-> "running", name |-> login_name(i, entry), user |-> FALSE]
    BY <1>2 DEF login_with_mask, authenticate
  <2>2. login_name(i, entry) \in Options \cup Names \cup {NoName}
    BY DEF login_name, LoginType
  <2>3. LoginType'
    BY <2>1, <2>2 DEF LoginType
  <2>4. \A j \in Options : credentials'[j] = "none"
    BY <2>1 DEF PromptBelongs
  <2>5. InStep'
    BY <2>1, OptionFacts DEF InStep
  <2>6. PromptBelongs' /\ NoSilentLogin'
    BY <1>2, <2>4 DEF PromptBelongs, NoSilentLogin
  <2>7. QED BY <2>3, <2>5, <2>6
<1>3. QED BY <1>1, <1>2 DEF LoginType

\* Removing what a box shows leaves every other box as it is.
LEMMA RemovedFacts ==
  ASSUME LoginType, NEW i \in Options
  PROVE  /\ Removed(i) \in [Options -> {"none", "password", "button"}]
         /\ \A j \in Options : Removed(i)[j] \in {"none", credentials[j]}
BY DEF LoginType, Removed

\* Less is shown, and nothing else changes that LoginInv speaks of.
LEMMA FewerKeepsInv ==
  ASSUME LoginInv,
         credentials' \in [Options -> {"none", "password", "button"}],
         \A j \in Options : credentials'[j] \in {"none", credentials[j]},
         entry' \in Names \cup {NoName}, sensitive' \in BOOLEAN,
         session' \in {"none", "fading", "started"},
         UNCHANGED <<gateway, awaiting_start_session, conversation>>
  PROVE  LoginInv'
<1> USE DEF LoginInv, gateway
<1>1. LoginType'
  BY DEF LoginType
<1>2. InStep' /\ NoSilentLogin'
  BY DEF InStep, NoSilentLogin
<1>3. PromptBelongs'
  BY DEF PromptBelongs
<1>4. QED BY <1>1, <1>2, <1>3

-----------------------------------------------------------------------------
\* The user's handlers keep the invariant.
LEMMA UserKeepsInv ==
  ASSUME ListType, LoginInv,
         \/ \E i \in Options : Select(i)
         \/ PassFocus
         \/ \E n \in Names \cup {NoName} : EditName(n)
         \/ EnterName
         \/ Reply
  PROVE  LoginInv'
<1>0. LoginType /\ 1..size \subseteq Options
  BY OptionFacts DEF LoginInv, ListType
<1>1. ASSUME NEW i \in Options, Select(i) PROVE LoginInv'
  <2>1. /\ credentials' = [j \in Options |-> "none"]
        /\ UNCHANGED <<entry, sensitive, session>>
        /\ UNCHANGED <<gateway, awaiting_start_session, conversation>>
    BY <1>1 DEF Select, name
  <2>2. QED BY <1>0, <2>1, FewerKeepsInv DEF LoginType
<1>2. ASSUME PassFocus PROVE LoginInv'
  <2> DEFINE i == Head(pending)
  <2>1. i \in Options
    BY <1>2 DEF PassFocus, ListType
  <2>2. UNCHANGED <<name, awaiting_start_session, session>>
    BY <1>2 DEF PassFocus
  <2>3. CASE login_with_mask(i, credentials)
    <3>1. /\ credentials \in [Options -> {"none", "password", "button"}]
          /\ \A j \in Options : credentials[j] \in {"none", credentials[j]}
      BY <1>0 DEF LoginType
    <3>2. QED BY <2>1, <2>2, <2>3, <3>1, LoginKeepsInv
  <2>4. CASE /\ credentials' \in {credentials, Removed(i)}
             /\ UNCHANGED <<gateway, conversation>>
    <3>1. /\ credentials' \in [Options -> {"none", "password", "button"}]
          /\ \A j \in Options : credentials'[j] \in {"none", credentials[j]}
      BY <1>0, <2>1, <2>4, RemovedFacts DEF LoginType
    <3>2. /\ entry' \in Names \cup {NoName} /\ sensitive' \in BOOLEAN
          /\ session' \in {"none", "fading", "started"}
      BY <1>0, <2>2 DEF LoginType, name
    <3>3. QED BY <2>2, <2>4, <3>1, <3>2, FewerKeepsInv
  <2>5. QED BY <1>2, <2>3, <2>4 DEF PassFocus
<1>3. ASSUME NEW n \in Names \cup {NoName}, EditName(n) PROVE LoginInv'
  <2>1. /\ credentials' = Removed(Manual) /\ entry' = n
        /\ Manual \in Options
        /\ UNCHANGED <<sensitive, session>>
        /\ UNCHANGED <<gateway, awaiting_start_session, conversation>>
    BY <1>0, <1>3 DEF EditName, CanType, HasBox
  <2>2. QED BY <1>0, <2>1, RemovedFacts, FewerKeepsInv DEF LoginType
<1>4. ASSUME EnterName PROVE LoginInv'
  <2>1. /\ login_with_mask(Manual, Removed(Manual)) /\ Manual \in Options
        /\ UNCHANGED <<name, awaiting_start_session, session>>
    BY <1>0, <1>4 DEF EnterName, CanType, HasBox
  <2>2. QED BY <1>0, <2>1, RemovedFacts, LoginKeepsInv
<1>5. ASSUME Reply PROVE LoginInv'
  <2> DEFINE i == current_user
  <2>1. /\ i \in Options /\ credentials[i] # "none"
        /\ credentials' = Removed(i)
        /\ entry' = entry /\ sensitive' \in BOOLEAN
        /\ UNCHANGED <<current_login, had_prompt, awaiting_confirmation>>
        /\ respond
    BY <1>0, <1>5 DEF Reply, HasBox, gateway
  <2>2. i = current_login /\ \A j \in Options : credentials'[j] = "none"
    BY <2>1, <1>0 DEF LoginInv, PromptBelongs, Removed, LoginType
  <2>3. credentials' \in [Options -> {"none", "password", "button"}]
    BY <1>0, <2>1, RemovedFacts
  <2>4. CASE awaiting_start_session
    <3>1. UNCHANGED <<awaiting_start_session, session, conversation>>
      BY <2>1, <2>4 DEF respond
    <3>2. QED BY <1>0, <2>1, <2>2, <2>3, <3>1, FewerKeepsInv DEF LoginType, gateway
  <2>5. CASE ~awaiting_start_session /\ awaiting_confirmation
    <3>1. /\ awaiting_start_session' = TRUE /\ session' = "fading"
          /\ conversation' = [state |-> "done", name |-> conversation.name, user |-> TRUE]
          /\ conversation.state = "done"
      BY <2>1, <2>5 DEF respond, login_successful, Touched, LoginInv, InStep
    <3>2. conversation'.state = "done" /\ conversation'.user
      BY <3>1, <1>0 DEF LoginType
    <3>3. LoginType'
      BY <1>0, <2>1, <2>3, <3>1 DEF LoginType
    <3>4. InStep' /\ NoSilentLogin'
      BY <2>1, <2>5, <3>1, <3>2 DEF LoginInv, InStep, NoSilentLogin
    <3>5. PromptBelongs'
      BY <2>2 DEF PromptBelongs
    <3>6. QED BY <3>3, <3>4, <3>5 DEF LoginInv
  <2>6. CASE ~awaiting_start_session /\ ~awaiting_confirmation
    <3>1. credentials[i] = "password" /\ conversation.state = "asked"
      BY <1>0, <2>1, <2>6 DEF LoginInv, PromptBelongs, LoginType
    <3>2. /\ conversation' = [state |-> "running", name |-> conversation.name, user |-> TRUE]
          /\ UNCHANGED <<awaiting_start_session, session>>
      BY <2>1, <2>6, <3>1 DEF respond, Touched
    <3>3. conversation'.state = "running" /\ conversation'.user
      BY <3>2, <1>0 DEF LoginType
    <3>4. LoginType'
      BY <1>0, <2>1, <2>3, <3>2 DEF LoginType
    <3>5. InStep' /\ NoSilentLogin'
      BY <2>1, <2>6, <3>1, <3>2, <3>3 DEF LoginInv, InStep, NoSilentLogin
    <3>6. PromptBelongs'
      BY <2>2 DEF PromptBelongs
    <3>7. QED BY <3>4, <3>5, <3>6 DEF LoginInv
  <2>7. QED BY <2>4, <2>5, <2>6
<1>6. QED BY <1>1, <1>2, <1>3, <1>4, <1>5

-----------------------------------------------------------------------------
\* LightDM's answers keep the invariant, and come only while they are
\* awaited.
LEMMA AnswersKeepInv ==
  ASSUME LoginInv,
         \/ \E t \in {"SECRET", "QUESTION"} : Prompt(t)
         \/ FingerMessage \/ Authenticated \/ NotAuthenticated
  PROVE  LoginInv' /\ ~awaiting_start_session
<1>0. LoginType
  BY DEF LoginInv
<1>1. /\ conversation.state \in {"running", "asked", "questioned"}
      /\ current_login \in Options
  BY DEF LoginInv, InStep, LoginType, Prompt, FingerMessage, Authenticated, NotAuthenticated
<1>2. ~awaiting_start_session /\ ~awaiting_confirmation
  BY <1>1 DEF LoginInv, InStep, NoSilentLogin
<1>3. \A j \in Options : credentials[j] \in {"none", "password"}
  BY <1>0, <1>2 DEF LoginInv, PromptBelongs, LoginType
<1>4. conversation.state = "running" => \A j \in Options : credentials[j] = "none"
  BY <1>3 DEF LoginInv, PromptBelongs
<1>5. ASSUME NEW t \in {"SECRET", "QUESTION"}, Prompt(t) PROVE LoginInv'
  <2> DEFINE shown == IF t = "SECRET" THEN "password" ELSE "none"
             state == IF t = "SECRET" THEN "asked" ELSE "questioned"
  <2>1. /\ credentials' = [credentials EXCEPT ![current_login] = shown]
        /\ entry' = entry /\ sensitive' \in BOOLEAN
        /\ conversation' = [state |-> state, name |-> conversation.name, user |-> TRUE]
        /\ had_prompt' = TRUE /\ conversation.state = "running"
        /\ UNCHANGED <<current_login, awaiting_confirmation, awaiting_start_session, session>>
    BY <1>0, <1>5 DEF Prompt, show_prompt, Touched, Removed, name, LoginType
  <2>2. LoginType'
    BY <1>0, <2>1 DEF LoginType
  <2>3. InStep' /\ NoSilentLogin'
    BY <1>2, <2>1 DEF LoginInv, InStep, NoSilentLogin
  <2>4. \A j \in Options : credentials'[j] # "none" =>
           j = current_login /\ credentials'[j] = "password" /\ t = "SECRET"
    BY <1>0, <1>4, <2>1 DEF LoginType
  <2>5. PromptBelongs'
    BY <1>2, <2>1, <2>4 DEF PromptBelongs
  <2>6. QED BY <2>2, <2>3, <2>5 DEF LoginInv
<1>6. ASSUME FingerMessage PROVE LoginInv'
  <2>1. /\ credentials' = [credentials EXCEPT ![current_login] = "none"]
        /\ entry' = entry /\ sensitive' \in BOOLEAN
        /\ conversation' = [state |-> "running", name |-> conversation.name, user |-> TRUE]
        /\ had_prompt' = TRUE /\ conversation.state = "running"
        /\ UNCHANGED <<current_login, awaiting_confirmation, awaiting_start_session, session>>
    BY <1>0, <1>6 DEF FingerMessage, show_prompt, Touched, LoginType
  <2>2. LoginType'
    BY <1>0, <2>1 DEF LoginType
  <2>3. InStep' /\ NoSilentLogin'
    BY <1>2, <2>1 DEF LoginInv, InStep, NoSilentLogin
  <2>4. \A j \in Options : credentials'[j] = "none"
    BY <1>0, <1>4, <2>1 DEF LoginType
  <2>5. PromptBelongs'
    BY <2>4 DEF PromptBelongs
  <2>6. QED BY <2>2, <2>3, <2>5 DEF LoginInv
<1>7. ASSUME Authenticated PROVE LoginInv'
  <2>1. /\ conversation.state = "running"
        /\ conversation' = [conversation EXCEPT !.state = "done"]
        /\ UNCHANGED <<current_login, had_prompt>>
    BY <1>7 DEF Authenticated
  <2>2. /\ conversation'.state = "done" /\ conversation'.user = conversation.user
        /\ conversation' \in [state : {"none", "running", "asked", "questioned", "done"},
                               name : Options \cup Names \cup {NoName}, user : BOOLEAN]
    BY <1>0, <2>1 DEF LoginType
  <2>3. CASE had_prompt
    <3>1. /\ awaiting_start_session' = TRUE /\ session' = "fading"
          /\ UNCHANGED <<credentials, entry, sensitive, awaiting_confirmation>>
      BY <1>7, <2>3 DEF Authenticated, login_successful, name
    <3>2. LoginType'
      BY <1>0, <2>1, <2>2, <3>1 DEF LoginType
    <3>3. InStep' /\ NoSilentLogin'
      BY <2>1, <2>2, <2>3, <3>1, <1>1, <1>2 DEF LoginInv, InStep, NoSilentLogin
    <3>4. PromptBelongs'
      BY <1>4, <2>1, <3>1 DEF PromptBelongs
    <3>5. QED BY <3>2, <3>3, <3>4 DEF LoginInv
  <2>4. CASE ~had_prompt
    <3>1. /\ awaiting_confirmation' = TRUE
          /\ credentials' = [credentials EXCEPT ![current_login] = "button"]
          /\ entry' = entry /\ sensitive' \in BOOLEAN
          /\ UNCHANGED <<awaiting_start_session, session>>
      BY <1>0, <1>7, <2>4 DEF Authenticated, show_prompt, LoginType
    <3>2. LoginType'
      BY <1>0, <2>1, <2>2, <3>1 DEF LoginType
    <3>3. InStep' /\ NoSilentLogin'
      BY <2>1, <2>2, <2>4, <3>1, <1>1, <1>2 DEF LoginInv, InStep, NoSilentLogin
    <3>4. \A j \in Options : credentials'[j] # "none" =>
             j = current_login /\ credentials'[j] = "button"
      BY <1>0, <1>4, <2>1, <3>1 DEF LoginType
    <3>5. PromptBelongs'
      BY <2>1, <2>2, <3>1, <3>4 DEF PromptBelongs
    <3>6. QED BY <3>2, <3>3, <3>5 DEF LoginInv
  <2>5. QED BY <2>3, <2>4
<1>8. ASSUME NotAuthenticated PROVE LoginInv'
  <2>1. /\ login_with_mask(current_login, Removed(current_login))
        /\ UNCHANGED <<name, awaiting_start_session, session>>
    BY <1>8 DEF NotAuthenticated
  <2>2. QED BY <1>0, <1>1, <2>1, RemovedFacts, LoginKeepsInv
<1>9. QED BY <1>2, <1>5, <1>6, <1>7, <1>8

\* The end of the fade-out and steps of nothing.
LEMMA OthersKeepInv ==
  ASSUME LoginInv, FadeCompleted \/ UNCHANGED vars
  PROVE  LoginInv'
<1>1. /\ UNCHANGED <<credentials, entry, sensitive>>
      /\ UNCHANGED <<gateway, awaiting_start_session, conversation>>
      /\ session' \in {session, "started"}
  BY DEF FadeCompleted, vars, name
<1>2. LoginType
  BY DEF LoginInv
<1>3. QED BY <1>1, <1>2, FewerKeepsInv DEF LoginType

-----------------------------------------------------------------------------
\* Every reachable state satisfies the invariant.
LEMMA InvCorrect == Spec => []LoginInv
<1>1. Init => LoginInv
  <2> SUFFICES ASSUME Init PROVE LoginInv
    OBVIOUS
  <2>1. LoginType
    BY DEF Init, LoginType, NoConversation
  <2>2. InStep /\ PromptBelongs /\ NoSilentLogin
    BY DEF Init, InStep, PromptBelongs, NoSilentLogin, NoConversation
  <2>3. QED BY <2>1, <2>2 DEF LoginInv
<1>2. ListType /\ LoginInv /\ [Next]_vars => LoginInv'
  BY UserKeepsInv, AnswersKeepInv, OthersKeepInv DEF Next
<1>3. QED BY <1>1, <1>2, ListCorrect, PTL DEF Spec

\* The greeter's variables keep their types.
THEOREM TypeCorrect == Spec => []TypeOK
<1>1. ListType /\ LoginInv => TypeOK
  BY DEF LoginInv, TypeOK
<1>2. QED BY <1>1, ListCorrect, InvCorrect, PTL

\* What is shown to be replied to belongs to the login under way.
THEOREM PromptCorrect == Spec => []PromptBelongs
<1>1. LoginInv => PromptBelongs
  BY DEF LoginInv
<1>2. QED BY <1>1, InvCorrect, PTL

\* Nobody is logged in without having been asked, or having confirmed.
THEOREM SilentCorrect == Spec => []NoSilentLogin
<1>1. LoginInv => NoSilentLogin
  BY DEF LoginInv
<1>2. QED BY <1>1, InvCorrect, PTL

\* A login that has succeeded is final: LightDM has nothing left to answer,
\* and the gateway ignores the requests of late timeouts and of the user.
THEOREM SuccessFinal == Spec => NothingAfterSuccess
<1> DEFINE Final == awaiting_start_session =>
                      UNCHANGED <<gateway, awaiting_start_session, conversation>>
<1>1. LoginInv /\ [Next]_vars => Final
  <2> SUFFICES ASSUME LoginInv, [Next]_vars, awaiting_start_session
               PROVE  UNCHANGED <<gateway, awaiting_start_session, conversation>>
    OBVIOUS
  <2>1. ASSUME NEW i \in Options, Select(i)
        PROVE  UNCHANGED <<gateway, awaiting_start_session, conversation>>
    BY <2>1 DEF Select
  <2>2. CASE PassFocus
    BY <2>2 DEF PassFocus, login_with_mask, gateway
  <2>3. ASSUME NEW n, EditName(n)
        PROVE  UNCHANGED <<gateway, awaiting_start_session, conversation>>
    BY <2>3 DEF EditName
  <2>4. CASE EnterName
    BY <2>4 DEF EnterName, login_with_mask, gateway
  <2>5. CASE Reply
    BY <2>5 DEF Reply, respond, gateway
  <2>6. CASE FadeCompleted
    BY <2>6 DEF FadeCompleted
  <2>7. CASE UNCHANGED vars
    BY <2>7 DEF vars
  <2>8. ~ \/ \E t \in {"SECRET", "QUESTION"} : Prompt(t)
          \/ FingerMessage \/ Authenticated \/ NotAuthenticated
    BY AnswersKeepInv
  <2>9. QED BY <2>1, <2>2, <2>3, <2>4, <2>5, <2>6, <2>7, <2>8 DEF Next
<1>2. QED BY <1>1, InvCorrect, PTL DEF Spec, NothingAfterSuccess
-----------------------------------------------------------------------------
(* Which login is served                                                   *)

\* The last timeout to come is that of the selected option: SelectedIsServed
\* holds when there is none only because of what the last one does.
LastIsSelected == pending # <<>> => pending[Len(pending)] = current_user

LEMMA LastCorrect == Spec => []LastIsSelected
<1>1. Init => LastIsSelected
  BY DEF Init, LastIsSelected
<1>2. ListType /\ LastIsSelected /\ [Next]_vars => LastIsSelected'
  <2> SUFFICES ASSUME ListType, LastIsSelected, [Next]_vars PROVE LastIsSelected'
    OBVIOUS
  <2>1. ASSUME NEW i \in Options, Select(i) PROVE LastIsSelected'
    <3>1. pending' = Append(pending, i) /\ current_user' = i /\ pending \in Seq(Options)
      BY <2>1 DEF Select, ListType
    <3>2. QED BY <3>1 DEF LastIsSelected
  <2>2. ASSUME PassFocus PROVE LastIsSelected'
    <3>1. /\ pending' = Tail(pending) /\ current_user' = current_user
          /\ pending \in Seq(Options) /\ pending # <<>>
      BY <2>2 DEF PassFocus, ListType
    <3>2. QED BY <3>1 DEF LastIsSelected
  <2>3. CASE UNCHANGED list
    BY <2>3 DEF LastIsSelected, list
  <2>4. QED
    BY <2>1, <2>2, <2>3 DEF Next, vars, EditName, EnterName, Reply, Prompt, FingerMessage,
                            Authenticated, NotAuthenticated, FadeCompleted
<1>3. QED BY <1>1, <1>2, ListCorrect, PTL DEF Spec

LEMMA OneLeft ==
  ASSUME NEW S, NEW s \in Seq(S), s # <<>>, Tail(s) = <<>>
  PROVE  Len(s) = 1
<1>1. Len(Tail(s)) = Len(s) - 1 /\ Len(s) \in Nat
  OBVIOUS
<1>2. Tail(s) \in Seq(S) /\ Tail(s) = <<>>
  OBVIOUS
<1>3. Len(<<>>) = 0
  OBVIOUS
<1>4. Len(Tail(s)) = 0
  BY <1>2, <1>3
<1>5. QED BY <1>1, <1>4

\* A new login of the selected option serves it; one that is ignored, or one
\* of the option that was served already, leaves it served.
LEMMA LoginServes ==
  ASSUME LoginInv, NEW i \in Options, NEW shown, login_with_mask(i, shown),
         UNCHANGED <<current_user, awaiting_start_session>>,
         i = current_user'
  PROVE  SelectedIsServed'
<1>1. CASE awaiting_start_session
  BY <1>1 DEF SelectedIsServed
<1>2. CASE ~awaiting_start_session
  <2>1. /\ current_login' = i
        /\ conversation' = [state |-> "running", name |-> login_name(i, entry), user |-> FALSE]
    BY <1>2 DEF login_with_mask, authenticate
  <2>2. provides_login_name(i) => login_name(i, entry) = i
    BY DEF login_name
  <2>3. conversation'.state = "running" /\ conversation'.name = login_name(i, entry)
    BY <2>1
  <2>4. provides_login_name(current_user)' => provides_login_name(i)
    BY DEF provides_login_name
  <2>5. QED BY <2>1, <2>2, <2>3, <2>4 DEF SelectedIsServed
<1>3. QED BY <1>1, <1>2 DEF LoginInv, LoginType

\* The selected option is served once the timeouts are over: every selection
\* has a timeout of its own, the timeouts fire in order, and only a mask that
\* is selected starts another login.
THEOREM ServedCorrect == Spec => []SelectedIsServed
<1>1. Init => SelectedIsServed
  BY DEF Init, SelectedIsServed
<1>2. ListType /\ LoginInv /\ LastIsSelected /\ SelectedIsServed /\ [Next]_vars => SelectedIsServed'
  <2> SUFFICES ASSUME ListType, LoginInv, LastIsSelected, SelectedIsServed, [Next]_vars,
                      pending' = <<>>, HasBox(current_user)',
                      provides_login_name(current_user)', ~awaiting_start_session'
               PROVE  SelectedIsServed'
    BY DEF SelectedIsServed
  <2>0. LoginType /\ current_user \in Options
    BY OptionFacts DEF LoginInv, ListType
  <2>1. ASSUME NEW i \in Options, Select(i) PROVE FALSE
    <3>1. pending' = Append(pending, i) /\ pending \in Seq(Options)
      BY <2>1 DEF Select, ListType
    <3>2. Len(Append(pending, i)) = Len(pending) + 1 /\ Len(pending) \in Nat
      BY <3>1
    <3>3. QED BY <3>1, <3>2
  <2>2. ASSUME PassFocus PROVE SelectedIsServed'
    <3>1. /\ pending # <<>> /\ pending' = Tail(pending) /\ pending \in Seq(Options)
          /\ UNCHANGED <<size, current_user, awaiting_start_session>>
      BY <2>2 DEF PassFocus, ListType
    <3>2. Len(pending) = 1
      BY <3>1, OneLeft
    <3>3. Head(pending) = current_user
      BY <3>1, <3>2 DEF LastIsSelected
    <3>4. HasBox(current_user) /\ provides_login_name(current_user)
      BY <3>1 DEF HasBox, provides_login_name
    <3>5. login_with_mask(current_user, credentials)
      BY <2>2, <3>3, <3>4 DEF PassFocus
    <3>6. QED BY <2>0, <3>1, <3>5, LoginServes
  <2>3. CASE EnterName
    BY <2>3 DEF EnterName, CanType, list, provides_login_name
  <2>4. ASSUME NEW n, EditName(n) PROVE FALSE
    BY <2>4 DEF EditName, CanType, list, provides_login_name
  <2>5. ASSUME UNCHANGED list, awaiting_start_session' = awaiting_start_session
        PROVE  /\ pending = <<>> /\ HasBox(current_user)
               /\ provides_login_name(current_user) /\ ~awaiting_start_session
               /\ current_user' = current_user
               /\ current_login = current_user /\ conversation.name = current_user
               /\ conversation.state = "asked" => credentials[current_user] = "password"
               /\ conversation.state = "done" => credentials[current_user] = "button"
    BY <2>5 DEF list, HasBox, provides_login_name, SelectedIsServed
  <2>6. CASE Reply
    <3>1. UNCHANGED list /\ UNCHANGED gateway /\ respond
      BY <2>6 DEF Reply
    <3>2. ~awaiting_start_session /\ ~awaiting_confirmation
      BY <3>1, <2>0 DEF respond, login_successful, LoginType
    <3>3. /\ credentials[current_user] # "none" /\ awaiting_start_session' = awaiting_start_session
          /\ conversation' = IF conversation.state = "asked"
                             THEN [state |-> "running", name |-> conversation.name, user |-> TRUE]
                             ELSE conversation
      BY <2>6, <3>1, <3>2 DEF Reply, respond, Touched
    <3>4. conversation.state = "asked"
      BY <2>0, <3>2, <3>3 DEF LoginInv, PromptBelongs, LoginType
    <3>5. conversation'.state = "running" /\ conversation'.name = conversation.name
      BY <3>3, <3>4
    <3>6. QED BY <2>5, <3>1, <3>3, <3>5 DEF SelectedIsServed, gateway
  <2>7. ASSUME NEW t \in {"SECRET", "QUESTION"}, Prompt(t) PROVE SelectedIsServed'
    <3>1. /\ conversation' = [state |-> IF t = "SECRET" THEN "asked" ELSE "questioned",
                              name |-> conversation.name, user |-> TRUE]
          /\ t = "SECRET" => credentials' = [credentials EXCEPT ![current_login] = "password"]
          /\ UNCHANGED list /\ UNCHANGED <<current_login, awaiting_start_session>>
      BY <2>7 DEF Prompt, Touched, show_prompt
    <3>2. /\ conversation'.state = IF t = "SECRET" THEN "asked" ELSE "questioned"
          /\ conversation'.name = conversation.name
      BY <3>1
    <3>3. t = "SECRET" => credentials'[current_login] = "password"
      BY <2>0, <2>5, <3>1 DEF LoginType
    <3>4. QED BY <2>5, <3>1, <3>2, <3>3 DEF SelectedIsServed
  <2>8. CASE FingerMessage
    <3>1. /\ conversation' = [state |-> "running", name |-> conversation.name, user |-> TRUE]
          /\ UNCHANGED list /\ UNCHANGED <<current_login, awaiting_start_session>>
      BY <2>8 DEF FingerMessage, Touched
    <3>2. conversation'.state = "running" /\ conversation'.name = conversation.name
      BY <3>1
    <3>3. QED BY <2>5, <3>1, <3>2 DEF SelectedIsServed
  <2>9. CASE Authenticated
    <3>1. /\ conversation' = [conversation EXCEPT !.state = "done"] /\ UNCHANGED list
          /\ current_login' = current_login
      BY <2>9 DEF Authenticated
    <3>2. /\ awaiting_start_session' = awaiting_start_session
          /\ credentials' = [credentials EXCEPT ![current_login] = "button"]
      BY <2>9 DEF Authenticated, login_successful, show_prompt
    <3>3. conversation'.state = "done" /\ conversation'.name = conversation.name
      BY <2>0, <3>1 DEF LoginType
    <3>4. credentials'[current_login] = "button"
      BY <2>0, <2>5, <3>1, <3>2 DEF LoginType
    <3>5. QED BY <2>5, <3>1, <3>2, <3>3, <3>4 DEF SelectedIsServed
  <2>10. CASE NotAuthenticated
    <3>1. /\ login_with_mask(current_login, Removed(current_login))
          /\ UNCHANGED list /\ UNCHANGED awaiting_start_session
      BY <2>10 DEF NotAuthenticated
    <3>2. QED BY <2>0, <2>5, <3>1, LoginServes
  <2>11. CASE UNCHANGED <<list, credentials, current_login, conversation, awaiting_start_session>>
    BY <2>5, <2>11 DEF SelectedIsServed
  <2>12. QED
    BY <2>1, <2>2, <2>3, <2>4, <2>6, <2>7, <2>8, <2>9, <2>10, <2>11
    DEF Next, FadeCompleted, gateway, vars
<1>3. QED BY <1>1, <1>2, ListCorrect, InvCorrect, LastCorrect, PTL DEF Spec

-----------------------------------------------------------------------------
(* Changing the password: RunPasswd                                        *)

AnyPassword == Passwords \cup {NoName}
Message == Change!Prompts \cup Change!Verdicts
State == {"NONE", "AUTH", "NEW", "RETYPE", "DONE", "ERR"}
Stage == Change!Asking \cup {"none", "exited"}
Child == [stage : Stage, in : Seq(AnyPassword), out : Seq(Message),
          first : AnyPassword, success : BOOLEAN]

-----------------------------------------------------------------------------
(* What the handlers are built from                                        *)

LEMMA NoChildFacts ==
  /\ Change!NoChild \in Child /\ Change!NoChild.stage = "none"
  /\ Change!NoChild.in = <<>> /\ Change!NoChild.out = <<>> /\ ~Change!NoChild.success
<1>1. /\ <<>> \in Seq(AnyPassword) /\ <<>> \in Seq(Message) /\ NoName \in AnyPassword
      /\ "none" \in Stage
  BY DEF AnyPassword, Stage
<1>2. QED BY <1>1 DEF Change!NoChild, Child

LEMMA SpawnedFacts ==
  ASSUME account \in AnyPassword
  PROVE  /\ Change!Spawned \in Child
         /\ Change!Spawned.stage = IF account = NoName THEN "new" ELSE "cur"
         /\ Change!Spawned.out = IF account = NoName THEN <<"new">> ELSE <<"cur">>
         /\ Change!Spawned.in = <<>> /\ ~Change!Spawned.success
<1> DEFINE p == IF account = NoName THEN "new" ELSE "cur"
<1>1. Change!Spawned = [Change!NoChild EXCEPT !.stage = p, !.out = <<p>>]
  BY DEF Change!Spawned
<1>2. p \in Stage /\ p \in Message
  BY DEF Stage, Message, Change!Prompts, Change!Asking
<1>3. <<p>> \in Seq(Message) /\ <<>> \in Seq(AnyPassword) /\ NoName \in AnyPassword
  BY <1>2 DEF AnyPassword
<1> HIDE DEF p
<1>4. /\ Change!Spawned \in Child /\ Change!Spawned.stage = p /\ Change!Spawned.out = <<p>>
      /\ Change!Spawned.in = <<>> /\ ~Change!Spawned.success
  BY <1>1, <1>2, <1>3, NoChildFacts DEF Child
<1>5. QED BY <1>4 DEF p

LEMMA WrittenFacts ==
  ASSUME NEW c \in Child, NEW q \in Seq(AnyPassword)
  PROVE  /\ Change!Written(c, q) \in Child
         /\ Change!Popped(q) \in Seq(AnyPassword)
         /\ Change!Written(c, q).stage = c.stage /\ Change!Written(c, q).out = c.out
         /\ Change!Written(c, q).first = c.first /\ Change!Written(c, q).success = c.success
         /\ q = <<>> \/ c.stage \notin Change!Asking => Change!Written(c, q).in = c.in
         /\ q # <<>> /\ c.stage \in Change!Asking =>
              Change!Written(c, q).in = Append(c.in, Head(q))
<1>1. c.in \in Seq(AnyPassword)
  BY DEF Child
<1>2. CASE q = <<>> \/ c.stage \notin Change!Asking
  BY <1>2 DEF Change!Written, Change!Popped
<1>3. CASE ~(q = <<>> \/ c.stage \notin Change!Asking)
  <2>1. Head(q) \in AnyPassword /\ Tail(q) \in Seq(AnyPassword)
    BY <1>3
  <2>2. Append(c.in, Head(q)) \in Seq(AnyPassword)
    BY <1>1, <2>1
  <2>3. Change!Written(c, q) = [c EXCEPT !.in = Append(c.in, Head(q))]
    BY <1>3 DEF Change!Written
  <2>4. Change!Popped(q) = Tail(q)
    BY <1>3 DEF Change!Popped
  <2>5. QED BY <1>3, <2>1, <2>2, <2>3, <2>4 DEF Child
<1>4. QED BY <1>2, <1>3

LEMMA PrintsFacts ==
  ASSUME NEW c \in Child, c.in # <<>>, NEW m \in Message, NEW s \in Stage
  PROVE  /\ Change!Prints(c, m, s) \in Child
         /\ Change!Prints(c, m, s).stage = s /\ Change!Prints(c, m, s).in = Tail(c.in)
         /\ Change!Prints(c, m, s).out = Append(c.out, m)
         /\ Change!Prints(c, m, s).first = c.first
         /\ Change!Prints(c, m, s).success = c.success
<1>1. c.in \in Seq(AnyPassword) /\ c.out \in Seq(Message)
  BY DEF Child
<1>2. Tail(c.in) \in Seq(AnyPassword) /\ Append(c.out, m) \in Seq(Message)
  BY <1>1
<1>3. Change!Prints(c, m, s) = [c EXCEPT !.in = Tail(c.in), !.out = Append(c.out, m), !.stage = s]
  BY DEF Change!Prints
<1>4. QED BY <1>2, <1>3 DEF Child

\* One read: all that is in the buffer then, and what passwd has left to read.
Read(k) == str \cup {child.out[i] : i \in 1..k}
Rest(k) == [child EXCEPT !.out = SubSeq(@, k + 1, Len(@))]

Prompted(k) == Read(k) \cap Change!Prompts # {}

\* A state has found a prompt, and the next line is sent.
Sends(k, state, q) ==
  /\ Prompted(k)
  /\ backend_state' = state /\ str' = {}
  /\ child' = Change!Written(Rest(k), q) /\ queue' = Change!Popped(q)
  /\ UNCHANGED <<authenticated, told>>

\* Nothing is sent.
Reads(k) == child' = Rest(k) /\ UNCHANGED queue

\* What a read does in each state.
LEMMA ReadOutcome ==
  ASSUME backend_state \in State, NEW k, Change!io_watch_stdout(k)
  PROVE  /\ UNCHANGED <<open, listening, current_password, chpasswd_cb, account, requested>>
         /\ \/ backend_state = "NONE" /\ Sends(k, "NEW", Change!Popped(queue))
            \/ /\ backend_state = "NONE" /\ Read(k) \cap {"new", "retype"} = {}
               /\ Sends(k, "AUTH", queue)
            \/ /\ backend_state = "AUTH" /\ Prompted(k)
               /\ Reads(k) /\ backend_state' = "NEW" /\ str' = {}
               /\ authenticated' = (authenticated \/ listening) /\ UNCHANGED told
            \/ /\ backend_state = "AUTH" /\ ~Prompted(k)
               /\ Reads(k) /\ UNCHANGED backend_state /\ str' = {}
               /\ authenticated' \in {authenticated, authenticated /\ ~listening}
               /\ told' \in {told, "error"}
            \/ backend_state = "NEW" /\ Sends(k, "RETYPE", queue)
            \/ /\ backend_state = "RETYPE" /\ "ok" \in Read(k)
               /\ Reads(k) /\ backend_state' = "DONE" /\ str' = {}
               /\ UNCHANGED authenticated /\ told' = IF chpasswd_cb THEN "ok" ELSE told
            \/ /\ backend_state = "RETYPE" /\ "ok" \notin Read(k)
               /\ Reads(k) /\ backend_state' = "ERR" /\ str' = {}
               /\ UNCHANGED authenticated /\ told' \in {told, "error"}
            \/ /\ Reads(k) /\ UNCHANGED <<backend_state, authenticated, told>>
               /\ \/ backend_state \in {"DONE", "ERR"} /\ str' = {}
                  \/ backend_state = "RETYPE" /\ "ok" \notin Read(k) /\ str' = Read(k)
                  \/ /\ backend_state \notin {"RETYPE", "DONE", "ERR"} /\ str' = Read(k)
                     /\ ~Prompted(k)
<1> USE DEF Read, Rest, Prompted, Sends, Reads
<1>1. CASE backend_state = "NONE"
  BY <1>1 DEF Change!io_watch_stdout
<1>2. CASE backend_state = "AUTH"
  BY <1>2 DEF Change!io_watch_stdout
<1>3. CASE backend_state = "NEW"
  BY <1>3 DEF Change!io_watch_stdout
<1>4. CASE backend_state = "RETYPE"
  BY <1>4 DEF Change!io_watch_stdout
<1>5. CASE backend_state \in {"DONE", "ERR"}
  BY <1>5 DEF Change!io_watch_stdout
<1>6. QED BY <1>1, <1>2, <1>3, <1>4, <1>5 DEF State

-----------------------------------------------------------------------------
(* The invariant                                                           *)

\* A line that is the password asked for; a message passwd has printed.
Only(p, s) == \A i \in DOMAIN s : s[i] = p
Meant(s) == Only(requested, s)
Says(m) == \E i \in DOMAIN child.out : child.out[i] = m

\* Until a change is asked for, the handler is never ahead of passwd, and
\* passwd has at most one line to read, the current password.
Authenticating == ~chpasswd_cb =>
  /\ child.stage # "retype" /\ ~child.success
  /\ child.stage = "none" => child.out = <<>>
  /\ \/ /\ backend_state = "NONE" /\ child.in = <<>> /\ Len(queue) <= 1
        /\ child.out \in {<<>>, <<"cur">>, <<"new">>}
        /\ child.stage = "new" => child.out = <<"new">>
        /\ child.out = <<"new">> => account = NoName
     \/ /\ backend_state = "AUTH" /\ queue = <<>>
        /\ \/ child.stage = "cur" /\ child.out = <<>> /\ Len(child.in) <= 1
           \/ child.stage = "new" /\ child.out = <<"new">> /\ child.in = <<>>
           \/ child.stage = "exited" /\ child.out \in {<<>>, <<"new">>, <<"error">>}
     \/ /\ backend_state = "NEW" /\ queue = <<>> /\ child.out = <<>>
        /\ child.stage \in Change!Asking => child.in = <<>>

\* The button is there when passwd has taken the current password, and has
\* asked for the new one or has gone.
Authed == authenticated =>
  /\ ~chpasswd_cb /\ account # NoName /\ queue = <<>>
  /\ \/ backend_state = "NEW" /\ child.stage \in {"new", "exited"} /\ child.out = <<>>
     \/ child.stage = "none"

\* Nothing asks for the current password of an account that has none.
NoneAsked == account = NoName =>
  /\ backend_state # "AUTH" /\ child.stage # "cur"
  /\ "cur" \notin str /\ ~Says("cur")

\* While a password is changed: whatever the handler has misread, the lines
\* that passwd can take for the new password are the one asked for.
Changing == chpasswd_cb =>
  /\ requested # NoName /\ Meant(queue)
  /\ child.stage = "cur" => child.in # <<>> /\ Meant(Tail(child.in))
  /\ child.stage \in {"new", "retype"} => Meant(child.in)
  /\ child.stage = "retype" => child.first = requested
  /\ child.success => /\ account = requested /\ child.stage = "exited"
                      /\ backend_state \in {"RETYPE", "DONE", "ERR"}
  /\ backend_state = "NONE" => /\ child.stage # "retype"
                               /\ child.stage = "cur" => Len(child.in) = 1
                               /\ child.stage = "new" => child.in = <<>>
  /\ backend_state \in {"AUTH", "NEW"} => /\ child.stage = "cur" => Len(child.in) <= 2
                                          /\ child.stage = "new" => Len(child.in) <= 1
                                          /\ child.stage = "retype" => child.in = <<>>

\* Success is read only of a change that has been made.
Reported ==
  /\ "ok" \notin str /\ (Says("ok") => child.success)
  /\ told = "ok" => account = requested

PasswordInv ==
  /\ Change!TypeOK /\ (listening => ~chpasswd_cb)
  /\ Authenticating /\ Authed /\ NoneAsked /\ Changing /\ Reported

-----------------------------------------------------------------------------
(* Sequences of at most one line                                           *)

LEMMA ShortFacts ==
  ASSUME NEW S, NEW s \in Seq(S), s # <<>>
  PROVE  /\ Tail(s) \in Seq(S) /\ Head(s) \in S /\ Len(Tail(s)) = Len(s) - 1
         /\ Len(s) <= 1 => Tail(s) = <<>>
  OBVIOUS

LEMMA OnlyFacts ==
  ASSUME NEW p, NEW s \in Seq(AnyPassword), Only(p, s)
  PROVE  /\ s # <<>> => Head(s) = p /\ Only(p, Tail(s))
         /\ Only(p, Change!Popped(s))
         /\ Only(p, Append(s, p))
<1>1. s # <<>> => Head(s) = p
  BY DEF Only
<1>2. s # <<>> => Only(p, Tail(s))
  BY DEF Only
<1>3. Only(p, Append(s, p))
  BY DEF Only
<1>4. QED BY <1>1, <1>2, <1>3 DEF Change!Popped

LEMMA FewFacts ==
  ASSUME NEW p \in AnyPassword
  PROVE  /\ Append(<<>>, p) = <<p>> /\ Tail(<<p>>) = <<>> /\ Len(<<p>>) = 1
         /\ <<>> \in Seq(AnyPassword) /\ <<p>> \in Seq(AnyPassword) /\ <<p, p>> \in Seq(AnyPassword)
         /\ Only(p, <<>>) /\ Only(p, <<p>>) /\ Only(p, <<p, p>>)
<1>1. Append(<<>>, p) = <<p>> /\ Tail(<<p>>) = <<>> /\ Len(<<p>>) = 1
  OBVIOUS
<1>2. /\ <<>> \in Seq(AnyPassword) /\ <<p>> \in Seq(AnyPassword)
      /\ <<p, p>> \in Seq(AnyPassword)
  OBVIOUS
<1>3. Only(p, <<>>)
  BY DEF Only
<1>4. Only(p, <<p>>)
  BY DEF Only
<1>5. Only(p, <<p, p>>)
  BY DEF Only
<1>6. QED BY <1>1, <1>2, <1>3, <1>4, <1>5

\* What passwd has printed and what a read leaves of it.
LEMMA ReadFacts ==
  ASSUME child \in Child, str \subseteq Message, NEW k \in 1..Len(child.out)
  PROVE  /\ Rest(k) \in Child /\ Read(k) \subseteq Message
         /\ Rest(k).stage = child.stage /\ Rest(k).in = child.in
         /\ Rest(k).first = child.first /\ Rest(k).success = child.success
         /\ \A m \in Read(k) : m \in str \/ Says(m)
         /\ \A i \in DOMAIN Rest(k).out : Says(Rest(k).out[i])
         /\ Len(child.out) = 1 => Rest(k).out = <<>> /\ child.out[1] \in Read(k)
<1>1. child.out \in Seq(Message)
  BY DEF Child
<1> DEFINE rest == SubSeq(child.out, k + 1, Len(child.out))
<1>2. /\ rest \in Seq(Message) /\ Len(rest) = Len(child.out) - k
      /\ \A i \in 1..Len(rest) : rest[i] = child.out[k + i]
  BY <1>1
<1>3. \A i \in 1..Len(rest) : Says(rest[i])
  BY <1>1, <1>2 DEF Says
<1>4. Len(child.out) = 1 => rest = <<>>
  BY <1>1, <1>2
<1>5. Rest(k) = [child EXCEPT !.out = rest]
  BY DEF Rest
<1>6. DOMAIN rest = 1..Len(rest)
  BY <1>2
<1> HIDE DEF rest
<1>7. /\ Rest(k) \in Child /\ Rest(k).out = rest
      /\ Rest(k).stage = child.stage /\ Rest(k).in = child.in
      /\ Rest(k).first = child.first /\ Rest(k).success = child.success
  BY <1>2, <1>5 DEF Child
<1>8. Read(k) \subseteq Message /\ \A m \in Read(k) : m \in str \/ Says(m)
  BY <1>1 DEF Read, Says
<1>9. Len(child.out) = 1 => child.out[1] \in Read(k)
  BY DEF Read
<1>10. QED BY <1>3, <1>4, <1>6, <1>7, <1>8, <1>9

LEMMA TypeFacts ==
  Change!TypeOK <=>
    /\ name_has_new \in BOOLEAN
    /\ open \in BOOLEAN /\ authenticated \in BOOLEAN /\ listening \in BOOLEAN
    /\ backend_state \in State /\ queue \in Seq(AnyPassword)
    /\ current_password \in AnyPassword
    /\ changing_password \in BOOLEAN /\ chpasswd_cb \in BOOLEAN
    /\ str \subseteq Message /\ child \in Child
    /\ account \in AnyPassword /\ requested \in AnyPassword
    /\ told \in {"nothing", "ok", "error"}
BY DEF Change!TypeOK, State, AnyPassword, Message, Child, Stage

-----------------------------------------------------------------------------
(* Init, and the user's actions                                            *)

LEMMA InitInv == Change!Init => PasswordInv
<1> SUFFICES ASSUME Change!Init PROVE PasswordInv
  OBVIOUS
<1>1. <<>> \in Seq(AnyPassword) /\ NoName \in AnyPassword
  BY DEF AnyPassword
<1>2. child.stage = "none" /\ child.in = <<>> /\ child.out = <<>> /\ ~child.success
  BY NoChildFacts DEF Change!Init
<1>3. Change!TypeOK
  BY <1>1, NoChildFacts DEF Change!Init, Change!TypeOK, AnyPassword, Child, Message, Stage
<1>4. ~Says("cur") /\ ~Says("ok")
  BY <1>2 DEF Says
<1>5. Authenticating
  BY <1>2 DEF Change!Init, Authenticating
<1>6. QED
  BY <1>2, <1>3, <1>4, <1>5 DEF Change!Init, PasswordInv, Authed, NoneAsked, Changing, Reported

LEMMA ToggleKeepsInv ==
  ASSUME PasswordInv, Change!TogglePopover, UNCHANGED name_has_new PROVE PasswordInv'
<1>1. Change!TypeOK'
  <2>1. open' \in BOOLEAN /\ authenticated' \in BOOLEAN /\ listening' \in BOOLEAN
    BY DEF Change!TogglePopover
  <2>2. QED BY <2>1 DEF PasswordInv, Change!TogglePopover, Change!TypeOK, Change!handler
<1>2. Authenticating' /\ NoneAsked' /\ Changing' /\ Reported'
  BY DEF PasswordInv, Change!TogglePopover, Change!handler, Authenticating, NoneAsked, Changing,
         Reported, Meant, Says
<1>3. Authed' /\ (listening => ~chpasswd_cb)'
  BY DEF PasswordInv, Change!TogglePopover, Change!handler, Authed
<1>4. QED BY <1>1, <1>2, <1>3 DEF PasswordInv

\* passwd asks first for what the account needs.
LEMMA SpawnedSays ==
  ASSUME account \in AnyPassword, child' = Change!Spawned, UNCHANGED account
  PROVE  ~Says("ok")' /\ (account = NoName => ~Says("cur")')
BY SpawnedFacts DEF Says

LEMMA AuthKeepsInv ==
  ASSUME PasswordInv, NEW p \in Passwords, NEW spawns \in BOOLEAN,
         Change!password_auth(p, spawns), UNCHANGED name_has_new
  PROVE  PasswordInv'
<1> USE DEF PasswordInv
<1>1. /\ backend_state' = "NONE" /\ ~chpasswd_cb' /\ ~authenticated'
      /\ UNCHANGED <<str, account, requested, told>>
  BY DEF Change!password_auth, Change!TypeOK
<1>2. p \in AnyPassword /\ <<p>> \in Seq(AnyPassword) /\ <<>> \in Seq(AnyPassword)
  BY DEF AnyPassword
<1>3. NoName \in AnyPassword
  BY DEF AnyPassword
<1>4. child' \in Child /\ queue' \in Seq(AnyPassword) /\ Len(queue') <= 1
  BY <1>2, <1>3, SpawnedFacts, NoChildFacts, TypeFacts DEF Change!password_auth
<1>5. Change!TypeOK'
  BY <1>1, <1>2, <1>4 DEF Change!password_auth, Change!TypeOK, AnyPassword, Child, Message, Stage
<1>6. CASE spawns
  <2>1. child' = Change!Spawned
    BY <1>6 DEF Change!password_auth
  <2>2. Authenticating'
    BY <1>1, <1>4, <2>1, SpawnedFacts, TypeFacts DEF Authenticating
  <2>3. NoneAsked' /\ Reported' /\ Changing' /\ Authed'
    BY <1>1, <2>1, SpawnedFacts, SpawnedSays, TypeFacts
       DEF NoneAsked, Reported, Changing, Authed
  <2>4. QED BY <1>1, <1>5, <2>2, <2>3
<1>7. CASE ~spawns
  <2>1. child' = Change!NoChild
    BY <1>7 DEF Change!password_auth
  <2>2. child'.stage = "none" /\ child'.in = <<>> /\ child'.out = <<>> /\ ~child'.success
    BY <2>1, NoChildFacts
  <2>3. ~Says("ok")' /\ ~Says("cur")'
    BY <2>2 DEF Says
  <2>4. Authenticating'
    BY <1>1, <1>4, <2>2 DEF Authenticating
  <2>5. NoneAsked' /\ Reported' /\ Changing' /\ Authed'
    BY <1>1, <2>2, <2>3 DEF NoneAsked, Reported, Changing, Authed
  <2>6. QED BY <1>1, <1>5, <2>4, <2>5
<1>8. QED BY <1>6, <1>7

\* The click: the request is queued behind what passwd still has to be told.
LEMMA ClickKeepsInv ==
  ASSUME PasswordInv, NEW n \in Passwords, NEW spawns \in BOOLEAN,
         Change!ClickChange(n, spawns), UNCHANGED name_has_new
  PROVE  PasswordInv'
<1> USE DEF PasswordInv
<1>1. /\ authenticated /\ requested' = n /\ told' = "nothing" /\ chpasswd_cb' = TRUE
      /\ authenticated' = FALSE /\ listening' = FALSE /\ open' = FALSE
      /\ changing_password' = TRUE
      /\ UNCHANGED <<str, account, current_password>>
      /\ Change!passwd_change_password(n, spawns)
  BY DEF Change!ClickChange, Change!passwd_change_password
<1>2. ~chpasswd_cb /\ account # NoName /\ queue = <<>>
  BY <1>1 DEF Authed
<1>3. /\ child \in Child /\ account \in AnyPassword /\ current_password \in AnyPassword
      /\ n \in AnyPassword /\ n # NoName
  BY TypeFacts, PasswordAssumption DEF PasswordAssumption, AnyPassword
<1>4. (listening => ~chpasswd_cb)' /\ Authed' /\ Authenticating'
  BY <1>1 DEF Authed, Authenticating
<1>5. Change!TypeOK' <=> backend_state' \in State /\ queue' \in Seq(AnyPassword) /\ child' \in Child
  BY <1>1, <1>3 DEF Change!TypeOK, State, AnyPassword, Child, Message, Stage
<1>6. CASE child.stage = "none"
  <2> DEFINE q == <<current_password, n, n>>
  <2>1. /\ q \in Seq(AnyPassword) /\ q # <<>> /\ Head(q) = current_password /\ Tail(q) = <<n, n>>
        /\ queue \o q = q
    BY <1>2, <1>3
  <2> HIDE DEF q
  <2>2. /\ backend_state' = "NONE"
        /\ IF spawns THEN child' = Change!Written(Change!Spawned, q) /\ queue' = <<n, n>>
                     ELSE child' = Change!NoChild /\ queue' = <<>>
    BY <1>1, <1>2, <1>6, <2>1 DEF Change!passwd_change_password, Change!Popped, q
  <2>3. CASE spawns
    <3>1. /\ child' \in Child /\ child'.stage = "cur" /\ child'.in = <<current_password>>
          /\ child'.out = <<"cur">> /\ ~child'.success
      <4>1. /\ Change!Spawned \in Child /\ Change!Spawned.stage = "cur"
            /\ Change!Spawned.in = <<>> /\ Change!Spawned.out = <<"cur">>
            /\ ~Change!Spawned.success
        BY <1>2, <1>3, SpawnedFacts
      <4>2. Change!Written(Change!Spawned, q).in = Append(<<>>, current_password)
        <5>1. Change!Spawned.stage \in Change!Asking
          BY <4>1 DEF Change!Asking
        <5>2. Change!Written(Change!Spawned, q).in = Append(Change!Spawned.in, Head(q))
          BY <2>1, <4>1, <5>1, WrittenFacts
        <5>3. QED BY <2>1, <4>1, <5>2
      <4>3. /\ Change!Written(Change!Spawned, q) \in Child
            /\ Change!Written(Change!Spawned, q).stage = "cur"
            /\ Change!Written(Change!Spawned, q).out = <<"cur">>
            /\ ~Change!Written(Change!Spawned, q).success
        BY <2>1, <4>1, WrittenFacts
      <4>4. QED BY <1>3, <2>2, <2>3, <4>2, <4>3, FewFacts
    <3>2. Meant(queue)' /\ Meant(Tail(child.in))' /\ queue' \in Seq(AnyPassword)
      BY <1>1, <1>3, <2>2, <2>3, <3>1, FewFacts DEF Meant
    <3>3. ~Says("ok")'
      BY <3>1 DEF Says
    <3>4. Changing'
      BY <1>1, <1>3, <2>2, <3>1, <3>2 DEF Changing
    <3>5. QED
      BY <1>1, <1>2, <1>4, <1>5, <2>2, <3>1, <3>2, <3>3, <3>4 DEF NoneAsked, Reported, State
  <2>4. CASE ~spawns
    <3>1. child' \in Child /\ child'.stage = "none" /\ child'.out = <<>> /\ ~child'.success
      BY <2>2, <2>4, NoChildFacts
    <3>2. Meant(queue)' /\ ~Says("ok")' /\ queue' \in Seq(AnyPassword)
      <4>1. Meant(queue)' /\ queue' \in Seq(AnyPassword)
        BY <1>1, <1>3, <2>2, <2>4, FewFacts DEF Meant
      <4>2. ~Says("ok")'
        BY <3>1 DEF Says
      <4>3. QED BY <4>1, <4>2
    <3>3. Changing'
      BY <1>1, <1>3, <2>2, <3>1, <3>2 DEF Changing
    <3>4. QED
      BY <1>1, <1>2, <1>4, <1>5, <2>2, <3>1, <3>2, <3>3 DEF NoneAsked, Reported, State
  <2>5. QED BY <2>3, <2>4
<1>7. CASE child.stage # "none"
  <2>1. backend_state = "NEW" /\ child.stage \in {"new", "exited"} /\ child.out = <<>>
    BY <1>1, <1>7 DEF Authed
  <2>2. (child.stage = "new" => child.in = <<>>) /\ ~child.success
    BY <1>2, <2>1 DEF Authenticating, Change!Asking
  <2> DEFINE q == <<n, n>>
  <2>3. q \in Seq(AnyPassword) /\ q # <<>> /\ Head(q) = n /\ Tail(q) = <<n>> /\ queue \o q = q
    BY <1>2, <1>3
  <2> HIDE DEF q
  <2>4. child' = Change!Written(child, q) /\ queue' = <<n>> /\ backend_state' = "NEW"
    BY <1>1, <1>7, <2>1, <2>3 DEF Change!passwd_change_password, Change!Popped, q
  <2>5. /\ child' \in Child /\ child'.stage = child.stage /\ child'.out = <<>> /\ ~child'.success
        /\ child.stage = "new" => child'.in = <<n>>
    <3>1. /\ child' \in Child /\ child'.stage = child.stage /\ child'.out = child.out
          /\ child'.success = child.success
          /\ child.stage \in Change!Asking => child'.in = Append(child.in, Head(q))
      BY <1>3, <2>3, <2>4, WrittenFacts
    <3>2. child.stage = "new" => child'.in = Append(<<>>, n)
      BY <2>2, <2>3, <3>1 DEF Change!Asking
    <3>3. Append(<<>>, n) = <<n>>
      BY <1>3, FewFacts
    <3>4. QED BY <2>1, <2>2, <3>1, <3>2, <3>3
  <2>6. Meant(queue)' /\ (child.stage = "new" => Meant(child.in)') /\ ~Says("ok")'
    <3>1. Meant(queue)' /\ (child.stage = "new" => Meant(child.in)')
      BY <1>1, <1>3, <2>4, <2>5, FewFacts DEF Meant
    <3>2. ~Says("ok")'
      BY <2>5 DEF Says
    <3>3. QED BY <3>1, <3>2
  <2>7. Changing'
    <3>1. child'.stage # "cur" /\ child'.stage # "retype" /\ child'.stage = child.stage
      BY <2>1, <2>5
    <3>0. (child.stage \in {"new", "retype"} => Meant(child.in))'
      BY <2>6, <3>1
    <3>2. child'.stage = "new" => Len(child'.in) <= 1
      <4>1. child'.stage = "new" => child'.in = <<n>>
        BY <2>5
      <4>2. Len(<<n>>) <= 1
        OBVIOUS
      <4>3. QED BY <4>1, <4>2
    <3>3. requested' # NoName /\ Meant(queue)' /\ ~child'.success /\ backend_state' = "NEW"
      BY <1>1, <1>3, <2>4, <2>5, <2>6
    <3>4. QED BY <3>0, <3>1, <3>2, <3>3 DEF Changing
  <2>8. QED
    BY <1>1, <1>2, <1>3, <1>4, <1>5, <2>4, <2>5, <2>6, <2>7 DEF NoneAsked, Reported, State
<1>8. QED BY <1>6, <1>7

-----------------------------------------------------------------------------
(* passwd's steps                                                          *)

\* What passwd says now, and what it said before.
LEMMA PrintsSays ==
  ASSUME child \in Child, NEW m \in Message,
         child'.out = Append(child.out, m), NEW w \in Message, w # m
  PROVE  Says(w)' => Says(w)
<1>1. child.out \in Seq(Message)
  BY DEF Child
<1>2. QED BY <1>1 DEF Says

LEMMA ReadsCurrentKeepsInv ==
  ASSUME PasswordInv, Change!ReadsCurrent, UNCHANGED name_has_new PROVE PasswordInv'
<1> USE DEF PasswordInv
<1>1. /\ child.stage = "cur" /\ child.in # <<>>
      /\ UNCHANGED <<open, authenticated, listening, backend_state, queue, current_password,
                     changing_password, chpasswd_cb, str, account, requested, told>>
  BY DEF Change!ReadsCurrent, Change!editor, Change!handler
<1>2. /\ child \in Child /\ child.in \in Seq(AnyPassword) /\ child.out \in Seq(Message)
  BY TypeFacts DEF Child
<1>3. PICK m \in {"new", "error"} :
        child' = Change!Prints(child, m, IF m = "new" THEN "new" ELSE "exited")
  BY DEF Change!ReadsCurrent
<1>4. m \in Message /\ "ok" \in Message /\ "cur" \in Message /\ m # "ok" /\ m # "cur"
  BY DEF Message, Change!Prompts, Change!Verdicts
<1>5. /\ child' \in Child /\ child'.in = Tail(child.in) /\ child'.out = Append(child.out, m)
      /\ child'.first = child.first /\ child'.success = child.success
      /\ child'.stage = IF m = "new" THEN "new" ELSE "exited"
  BY <1>1, <1>2, <1>3, <1>4, PrintsFacts DEF Stage, Change!Asking
<1>6. Change!TypeOK'
  BY <1>1, <1>5, TypeFacts DEF Change!TypeOK, AnyPassword, Child, Message, Stage
<1>7. account # NoName
  BY <1>1 DEF NoneAsked
<1>8. Authenticating'
  <2> SUFFICES ASSUME ~chpasswd_cb PROVE Authenticating'
    BY <1>1 DEF Authenticating
  <2>1. /\ backend_state = "AUTH" /\ queue = <<>> /\ child.out = <<>> /\ Len(child.in) <= 1
        /\ ~child.success
    BY <1>1 DEF Authenticating, Change!Asking
  <2>2. child'.in = <<>> /\ child'.out = <<m>>
    BY <1>1, <1>2, <1>4, <1>5, <2>1, ShortFacts
  <2>3. QED BY <1>1, <1>4, <1>5, <2>1, <2>2 DEF Authenticating
<1>9. Authed' /\ NoneAsked'
  BY <1>1, <1>5, <1>7 DEF Authed, NoneAsked
<1>10. Reported'
  <2>1. Says("ok")' => Says("ok")
    BY <1>2, <1>4, <1>5, PrintsSays
  <2>2. QED BY <1>1, <1>5, <2>1 DEF Reported
<1>11. Changing'
  <2> SUFFICES ASSUME chpasswd_cb PROVE Changing'
    BY <1>1 DEF Changing
  <2>1. /\ requested # NoName /\ Meant(queue) /\ Meant(Tail(child.in)) /\ ~child.success
        /\ backend_state = "NONE" => Len(child.in) = 1
        /\ backend_state \in {"AUTH", "NEW"} => Len(child.in) <= 2
    BY <1>1 DEF Changing
  <2>2. Meant(queue)' /\ Meant(child.in)'
    BY <1>1, <1>5, <2>1 DEF Meant
  <2>3. /\ Len(child'.in) = Len(child.in) - 1
        /\ Len(child.in) = 1 => child'.in = <<>>
    <3>1. Len(Tail(child.in)) = Len(child.in) - 1 /\ Len(child.in) \in Nat
      BY <1>1, <1>2, ShortFacts
    <3>2. ASSUME Len(child.in) = 1 PROVE Tail(child.in) = <<>>
      <4>1. Len(child.in) <= 1
        BY <3>2
      <4>2. QED BY <1>1, <1>2, <4>1, ShortFacts
    <3>3. QED BY <1>5, <3>1, <3>2
  <2>4. Len(child.in) \in Nat
    BY <1>2
  <2>5. /\ backend_state = "NONE" => child'.in = <<>>
        /\ backend_state \in {"AUTH", "NEW"} => Len(child'.in) <= 1
    BY <2>1, <2>3, <2>4
  <2>6. QED BY <1>1, <1>5, <2>1, <2>2, <2>5 DEF Changing
<1>12. QED BY <1>1, <1>6, <1>8, <1>9, <1>10, <1>11

\* passwd takes the new password: only when it is being changed.
LEMMA ReadsNewKeepsInv ==
  ASSUME PasswordInv, NEW verdict \in {"taken", "again", "refused"}, Change!ReadsNew(verdict),
         UNCHANGED name_has_new
  PROVE  PasswordInv'
<1> USE DEF PasswordInv
<1>1. /\ child.stage = "new" /\ child.in # <<>>
      /\ UNCHANGED <<open, authenticated, listening, backend_state, queue, current_password,
                     changing_password, chpasswd_cb, str, account, requested, told>>
  BY DEF Change!ReadsNew, Change!editor, Change!handler
<1>2. /\ child \in Child /\ child.in \in Seq(AnyPassword) /\ child.out \in Seq(Message)
  BY TypeFacts DEF Child
<1>3. chpasswd_cb
  BY <1>1 DEF Authenticating, Change!Asking
<1>4. /\ requested # NoName /\ Meant(queue) /\ Meant(child.in) /\ ~child.success
      /\ backend_state # "NONE"
      /\ backend_state \in {"AUTH", "NEW"} => Len(child.in) <= 1
  BY <1>1, <1>3 DEF Changing
<1> DEFINE m == IF verdict = "taken" THEN "retype" ELSE "bad"
           stage == IF verdict = "taken" THEN "retype" ELSE IF verdict = "again" THEN "new" ELSE "exited"
           printed == Change!Prints(child, m, stage)
<1>5. m \in Message /\ stage \in Stage /\ "ok" \in Message /\ m # "ok" /\ m # "cur" /\ "cur" \in Message
      /\ "new" \in Message
  BY DEF Message, Change!Prompts, Change!Verdicts, Stage, Change!Asking
<1>6. /\ printed \in Child /\ printed.in = Tail(child.in) /\ printed.out = Append(child.out, m)
      /\ printed.success = child.success /\ printed.stage = stage
  <2> HIDE DEF m, stage
  <2>1. QED BY <1>1, <1>2, <1>5, PrintsFacts
<1>7. /\ verdict = "taken" => child' = [printed EXCEPT !.first = Head(child.in)]
      /\ verdict = "again" => child' = [printed EXCEPT !.out = Append(printed.out, "new")]
      /\ verdict = "refused" => child' = printed
  BY <1>6 DEF Change!ReadsNew
<1>8. Head(child.in) = requested /\ requested \in AnyPassword /\ Only(requested, Tail(child.in))
      /\ (Len(child.in) <= 1 => Tail(child.in) = <<>>)
  BY <1>1, <1>2, <1>4, OnlyFacts, ShortFacts, TypeFacts DEF Meant
<1>9. /\ child' \in Child /\ child'.in = Tail(child.in)
      /\ child'.out = IF verdict = "again" THEN Append(printed.out, "new") ELSE printed.out
      /\ child'.success = child.success /\ child'.stage = stage
      /\ verdict = "taken" => child'.first = requested
  <2> HIDE DEF m, stage, printed
  <2>1. CASE verdict = "taken"
    BY <2>1, <1>6, <1>7, <1>8 DEF Child
  <2>2. CASE verdict = "again"
    <3>1. printed.out \in Seq(Message)
      BY <1>6 DEF Child
    <3>2. Append(printed.out, "new") \in Seq(Message)
      BY <3>1, <1>5
    <3>3. QED BY <2>2, <3>2, <1>6, <1>7 DEF Child
  <2>3. CASE verdict = "refused"
    BY <2>3, <1>6, <1>7
  <2>4. QED BY <2>1, <2>2, <2>3
<1>10. Change!TypeOK'
  BY <1>1, <1>9, TypeFacts DEF Change!TypeOK, AnyPassword, Child, Message, Stage
<1>11. Authed' /\ Authenticating'
  BY <1>1, <1>3 DEF Authed, Authenticating
<1>12. NoneAsked' /\ Reported'
  <2>1. (Says("ok")' => Says("ok")) /\ (Says("cur")' => Says("cur"))
    <3> HIDE DEF m, stage, printed
    <3>1. PICK out : out = Append(child.out, m)
      OBVIOUS
    <3>2. out \in Seq(Message) /\ child.out \in Seq(Message)
      BY <1>2, <1>5, <3>1
    <3>3. child'.out = out \/ child'.out = Append(out, "new")
      BY <1>6, <1>9, <3>1
    <3>4. \A w \in {"ok", "cur"} :
            (\E n \in DOMAIN child'.out : child'.out[n] = w) => \E n \in DOMAIN out : out[n] = w
      BY <3>2, <3>3
    <3>5. \A w \in {"ok", "cur"} :
            (\E n \in DOMAIN out : out[n] = w) => \E n \in DOMAIN child.out : child.out[n] = w
      BY <1>5, <3>1, <3>2
    <3>6. QED BY <1>1, <3>4, <3>5 DEF Says
  <2>2. child'.stage # "cur" /\ child'.success = child.success
    BY <1>9
  <2>3. QED BY <1>1, <2>1, <2>2 DEF NoneAsked, Reported
<1>13. Changing'
  <2>1. Meant(queue)' /\ Meant(child.in)'
    BY <1>1, <1>4, <1>8, <1>9 DEF Meant
  <2>2. /\ child'.stage \in {"retype", "new", "exited"} /\ ~child'.success
        /\ child'.stage = "retype" => child'.first = requested
    BY <1>4, <1>9
  <2>3. backend_state \in {"AUTH", "NEW"} => child'.in = <<>>
    BY <1>4, <1>8, <1>9
  <2>4. QED BY <1>1, <1>4, <2>1, <2>2, <2>3 DEF Changing
<1>14. QED BY <1>1, <1>10, <1>11, <1>12, <1>13

\* The change: of a password that was asked for, when the handler has seen
\* passwd ask for it again.
LEMMA ReadsRetypedKeepsInv ==
  ASSUME PasswordInv, NEW fits \in BOOLEAN, Change!ReadsRetyped(fits), UNCHANGED name_has_new
  PROVE  PasswordInv' /\ (account' # account => account' = requested)
<1> USE DEF PasswordInv
<1>1. /\ child.stage = "retype" /\ child.in # <<>>
      /\ UNCHANGED <<open, authenticated, listening, backend_state, queue, current_password,
                     changing_password, chpasswd_cb, str, requested, told>>
  BY DEF Change!ReadsRetyped, Change!editor, Change!handler
<1>2. /\ child \in Child /\ child.in \in Seq(AnyPassword) /\ child.out \in Seq(Message)
      /\ backend_state \in State
  BY TypeFacts DEF Child
<1>3. chpasswd_cb
  BY <1>1 DEF Authenticating
<1>4. /\ requested # NoName /\ Meant(queue) /\ child.first = requested /\ ~child.success
      /\ backend_state \in {"RETYPE", "DONE", "ERR"} /\ requested \in AnyPassword
  BY <1>1, <1>2, <1>3, TypeFacts DEF Changing, State
<1>5. PICK m \in {"ok", "bad"} :
        IF m = "ok" THEN /\ child' = [Change!Prints(child, m, "exited") EXCEPT !.success = TRUE]
                         /\ account' = requested
                    ELSE child' = Change!Prints(child, m, "exited") /\ UNCHANGED account
  BY <1>4 DEF Change!ReadsRetyped
<1>6. m \in Message /\ "exited" \in Stage /\ "ok" \in Message /\ "cur" \in Message /\ m # "cur"
  BY DEF Message, Change!Prompts, Change!Verdicts, Stage
<1>7. /\ child' \in Child /\ child'.stage = "exited" /\ child'.out = Append(child.out, m)
      /\ child'.success <=> m = "ok"
  <2> DEFINE printed == Change!Prints(child, m, "exited")
  <2>1. /\ printed \in Child /\ printed.stage = "exited" /\ printed.out = Append(child.out, m)
        /\ printed.success = child.success
    BY <1>1, <1>2, <1>6, PrintsFacts
  <2> HIDE DEF printed
  <2>2. IF m = "ok" THEN child' = [printed EXCEPT !.success = TRUE] ELSE child' = printed
    BY <1>5 DEF printed
  <2>3. CASE m = "ok"
    BY <2>1, <2>2, <2>3 DEF Child
  <2>4. CASE m = "bad"
    BY <1>4, <2>1, <2>2, <2>4
  <2>5. QED BY <2>3, <2>4
<1>8. account' \in {account, requested} /\ (m = "ok" => account' = requested)
  BY <1>5
<1>9. Change!TypeOK'
  BY <1>1, <1>4, <1>7, <1>8, TypeFacts DEF Change!TypeOK, AnyPassword, Child, Message, Stage
<1>10. Authed' /\ Authenticating'
  BY <1>1, <1>3 DEF Authed, Authenticating
<1>11. NoneAsked'
  <2>1. Says("cur")' => Says("cur")
    BY <1>1, <1>2, <1>6, <1>7, PrintsSays
  <2>2. account' = NoName => account = NoName
    BY <1>4, <1>8
  <2>3. QED BY <1>1, <1>7, <2>1, <2>2 DEF NoneAsked
<1>12. Reported'
  <2>1. Says("ok")' => m = "ok"
    BY <1>1, <1>2, <1>4, <1>6, <1>7, PrintsSays DEF Reported
  <2>2. told' = "ok" => account' = requested'
    BY <1>1, <1>8 DEF Reported
  <2>3. QED BY <1>1, <1>7, <2>1, <2>2 DEF Reported
<1>13. Changing'
  <2>1. Meant(queue)'
    BY <1>1, <1>4 DEF Meant
  <2>2. QED BY <1>1, <1>4, <1>7, <1>8, <2>1 DEF Changing
<1>14. QED BY <1>1, <1>8, <1>9, <1>10, <1>11, <1>12, <1>13

LEMMA DiesKeepsInv ==
  ASSUME PasswordInv, Change!Dies, UNCHANGED name_has_new PROVE PasswordInv'
<1> USE DEF PasswordInv
<1>1. /\ child.stage \in Change!Asking
      /\ UNCHANGED <<open, authenticated, listening, backend_state, queue, current_password,
                     changing_password, chpasswd_cb, str, account, requested, told>>
  BY DEF Change!Dies, Change!editor, Change!handler
<1>2. /\ child' \in Child /\ child'.stage = "exited" /\ child'.in = child.in
      /\ child'.out = child.out /\ child'.success = child.success
  <2>1. child \in Child /\ "exited" \in Stage
    BY TypeFacts DEF Stage
  <2>2. QED BY <2>1 DEF Change!Dies, Child
<1>3. Change!TypeOK'
  BY <1>1, <1>2, TypeFacts DEF Change!TypeOK, AnyPassword, Child, Message, Stage
<1>4. Authenticating'
  BY <1>1, <1>2 DEF Authenticating, Change!Asking
<1>5. Authed'
  BY <1>1, <1>2 DEF Authed, Change!Asking
<1>6. NoneAsked' /\ Reported'
  BY <1>1, <1>2 DEF NoneAsked, Reported, Says
<1>7. Changing'
  <2>1. Meant(queue) => Meant(queue)'
    BY <1>1 DEF Meant
  <2>2. QED BY <1>1, <1>2, <2>1 DEF Changing, Change!Asking
<1>8. QED BY <1>1, <1>3, <1>4, <1>5, <1>6, <1>7

-----------------------------------------------------------------------------
(* The watches                                                             *)

LEMMA ChildWatchKeepsInv ==
  ASSUME PasswordInv, Change!child_watch_cb, UNCHANGED name_has_new PROVE PasswordInv'
<1> USE DEF PasswordInv
<1>1. /\ child.stage = "exited" /\ backend_state' = "NONE"
      /\ UNCHANGED <<open, authenticated, listening, queue, current_password,
                     changing_password, chpasswd_cb, str, account, requested>>
  BY DEF Change!child_watch_cb, Change!editor
<1>2. /\ child' \in Child /\ child'.stage = "none" /\ child'.in = <<>>
      /\ child'.out = <<>> /\ ~child'.success
  BY NoChildFacts DEF Change!child_watch_cb
<1>3. told' \in {told, "ok"} /\ (told' # told => chpasswd_cb /\ child.success)
  BY DEF Change!child_watch_cb
<1>4. Change!TypeOK'
  BY <1>1, <1>2, <1>3, TypeFacts DEF Change!TypeOK, AnyPassword, Child, Message, Stage
<1>5. Authenticating'
  <2>1. ~chpasswd_cb => Len(queue) <= 1
    BY <1>1 DEF Authenticating
  <2>2. QED BY <1>1, <1>2, <2>1 DEF Authenticating
<1>6. Authed' /\ NoneAsked'
  BY <1>1, <1>2 DEF Authed, NoneAsked, Says
<1>7. Reported'
  <2>1. ~Says("ok")'
    BY <1>2 DEF Says
  <2>2. told' = "ok" => account = requested
    BY <1>3 DEF Reported, Changing
  <2>3. QED BY <1>1, <2>1, <2>2 DEF Reported
<1>8. Changing'
  <2>1. Meant(queue) => Meant(queue)'
    BY <1>1 DEF Meant
  <2>2. QED BY <1>1, <1>2, <2>1 DEF Changing
<1>9. QED BY <1>1, <1>4, <1>5, <1>6, <1>7, <1>8

\* A read while only authenticating.
LEMMA ReadAuthenticating ==
  ASSUME PasswordInv, NEW k \in 1..Len(child.out), Change!io_watch_stdout(k), ~chpasswd_cb
  PROVE  /\ Authenticating' /\ (authenticated' => Authed')
         /\ UNCHANGED chpasswd_cb /\ told' \in {told, "error"}
         /\ backend_state' \in {"AUTH", "NEW"}
<1> USE DEF PasswordInv
<1>1. /\ child \in Child /\ str \subseteq Message /\ queue \in Seq(AnyPassword)
      /\ backend_state \in State
      /\ authenticated \in BOOLEAN /\ listening \in BOOLEAN
  BY TypeFacts
<1>2. UNCHANGED <<chpasswd_cb, account, listening>>
  BY <1>1, ReadOutcome
<1>3. /\ child.out # <<>> /\ child.stage \notin {"none", "retype"} /\ ~child.success
      /\ ~authenticated
  BY DEF Authenticating, Authed
<1>4. /\ Rest(k) \in Child /\ Rest(k).stage = child.stage /\ Rest(k).in = child.in
      /\ Rest(k).success = child.success
      /\ Len(child.out) = 1 => Rest(k).out = <<>> /\ child.out[1] \in Read(k)
  BY <1>1, ReadFacts
<1>5. CASE backend_state = "NONE"
  <2>1. /\ child.in = <<>> /\ Len(queue) <= 1 /\ child.out \in {<<"cur">>, <<"new">>}
        /\ child.stage = "new" => child.out = <<"new">>
    BY <1>3, <1>5 DEF Authenticating
  <2>2. Rest(k).out = <<>> /\ child.out[1] \in Read(k) /\ child.out[1] \in {"cur", "new"}
    BY <1>4, <2>1
  <2>3. Change!Popped(queue) = <<>>
    BY <1>1, <2>1, ShortFacts DEF Change!Popped
  <2>4. \/ Sends(k, "NEW", <<>>)
        \/ Sends(k, "AUTH", queue) /\ child.stage # "new"
    BY <1>1, <1>5, <2>1, <2>2, <2>3, ReadOutcome DEF Prompted, Change!Prompts
  <2>5. CASE Sends(k, "NEW", <<>>)
    <3>1. child'.in = <<>> /\ child'.stage = child.stage /\ child'.out = <<>> /\ ~child'.success
      <4>1. <<>> \in Seq(AnyPassword)
        OBVIOUS
      <4>2. QED BY <1>3, <1>4, <2>1, <2>2, <2>5, <4>1, WrittenFacts DEF Sends
    <3>2. queue' = <<>> /\ backend_state' = "NEW" /\ ~authenticated' /\ told' = told
      BY <1>3, <2>5 DEF Sends, Change!Popped
    <3>3. QED BY <1>2, <1>3, <3>1, <3>2 DEF Authenticating
  <2>6. CASE Sends(k, "AUTH", queue) /\ child.stage # "new"
    <3>1. child'.stage = child.stage /\ child'.out = <<>> /\ ~child'.success
      BY <1>1, <1>3, <1>4, <2>2, <2>6, WrittenFacts DEF Sends
    <3>2. queue' = <<>> /\ backend_state' = "AUTH" /\ ~authenticated' /\ told' = told
      BY <1>3, <2>3, <2>6 DEF Sends
    <3>3. Len(child'.in) <= 1
      <4>1. child' = Change!Written(Rest(k), queue) /\ Rest(k).in = <<>>
        BY <1>4, <2>1, <2>6 DEF Sends
      <4>2. CASE queue = <<>> \/ Rest(k).stage \notin Change!Asking
        <5>1. child'.in = <<>>
          BY <1>1, <1>4, <4>1, <4>2, WrittenFacts
        <5>2. Len(<<>>) <= 1
          OBVIOUS
        <5>3. QED BY <5>1, <5>2
      <4>3. CASE queue # <<>> /\ Rest(k).stage \in Change!Asking
        <5>0. Head(queue) \in AnyPassword
          BY <1>1, <4>3, ShortFacts
        <5>1. child'.in = Append(<<>>, Head(queue)) /\ Head(queue) \in AnyPassword
          <6>1. Change!Written(Rest(k), queue).in = Append(Rest(k).in, Head(queue))
            BY <1>1, <1>4, <4>3, WrittenFacts
          <6>2. QED BY <4>1, <5>0, <6>1
        <5>2. child'.in = <<Head(queue)>>
          BY <5>1, FewFacts
        <5>3. Len(<<Head(queue)>>) <= 1
          OBVIOUS
        <5>4. QED BY <5>2, <5>3
      <4>4. QED BY <4>2, <4>3
    <3>4. child.stage \in {"cur", "exited"}
      BY <1>1, <1>3, <2>6 DEF Child, Stage, Change!Asking
    <3>5. QED BY <1>2, <1>3, <3>1, <3>2, <3>3, <3>4 DEF Authenticating
  <2>7. QED BY <2>4, <2>5, <2>6
<1>6. CASE backend_state = "AUTH"
  <2>1. /\ queue = <<>> /\ child.stage \in {"new", "exited"}
        /\ child.out \in {<<"new">>, <<"error">>}
        /\ child.stage = "new" => child.in = <<>>
    BY <1>3, <1>6 DEF Authenticating
  <2>2. Reads(k) /\ child' = Rest(k) /\ queue' = <<>> /\ told' \in {told, "error"}
    BY <1>1, <1>6, <2>1, ReadOutcome DEF Reads
  <2>3. /\ child'.stage = child.stage /\ child'.in = child.in /\ child'.out = <<>>
        /\ ~child'.success
    BY <1>3, <1>4, <2>1, <2>2
  <2>4. \/ backend_state' = "NEW"
        \/ backend_state' = "AUTH" /\ child.stage = "exited" /\ ~authenticated'
    <3>1. child.stage = "new" => child.out = <<"new">>
      BY <1>3, <1>6 DEF Authenticating
    <3>2. ASSUME child.stage = "new" PROVE Prompted(k)
      <4>0. child.out = <<"new">>
        BY <3>1, <3>2
      <4>1. Len(child.out) = 1 /\ child.out[1] = "new"
        BY <4>0
      <4>2. "new" \in Read(k)
        BY <1>4, <4>1
      <4>3. QED BY <4>2 DEF Prompted, Change!Prompts
    <3>3. CASE child.stage = "new"
      BY <1>1, <1>6, <3>2, <3>3, ReadOutcome
    <3>4. CASE child.stage = "exited"
      <4>1. \/ backend_state' = "NEW"
            \/ backend_state' = "AUTH" /\ authenticated' \in {authenticated, authenticated /\ ~listening}
        BY <1>1, <1>6, ReadOutcome
      <4>2. QED BY <1>3, <3>4, <4>1
    <3>5. QED BY <2>1, <3>3, <3>4
  <2>5. Authenticating'
    BY <1>2, <2>1, <2>2, <2>3, <2>4 DEF Authenticating, Change!Asking
  <2>6. account # NoName
    BY <1>6 DEF NoneAsked
  <2>7. authenticated' => Authed'
    BY <1>2, <2>1, <2>2, <2>3, <2>4, <2>6 DEF Authed
  <2>8. QED BY <1>2, <2>2, <2>4, <2>5, <2>7
<1>7. backend_state \in {"NONE", "AUTH"}
  BY <1>3 DEF Authenticating
<1>8. QED BY <1>5, <1>6, <1>7

\* A line that is the password asked for keeps passwd's lines what they are.
LEMMA AppendFacts ==
  ASSUME NEW p \in AnyPassword, NEW s \in Seq(AnyPassword)
  PROVE  /\ Append(s, p) \in Seq(AnyPassword) /\ Len(Append(s, p)) = Len(s) + 1
         /\ Only(p, s) => Only(p, Append(s, p))
         /\ s # <<>> /\ Only(p, Tail(s)) => Append(s, p) # <<>> /\ Only(p, Tail(Append(s, p)))
<1>1. Append(s, p) \in Seq(AnyPassword) /\ Len(Append(s, p)) = Len(s) + 1
  OBVIOUS
<1>2. Only(p, s) => Only(p, Append(s, p))
  BY OnlyFacts
<1>3. ASSUME s # <<>>, Only(p, Tail(s)) PROVE Only(p, Tail(Append(s, p)))
  <2> DEFINE t == Append(s, p)
  <2>1. t \in Seq(AnyPassword) /\ t # <<>> /\ Len(t) = Len(s) + 1 /\ Len(s) \in Nat \ {0}
    BY <1>3
  <2>2. t[Len(s) + 1] = p /\ \A k \in 1..Len(s) : t[k] = s[k]
    OBVIOUS
  <2>3. \A k \in 1..Len(s) - 1 : s[k + 1] = p
    <3>1. DOMAIN Tail(s) = 1..Len(s) - 1 /\ \A k \in 1..Len(s) - 1 : Tail(s)[k] = s[k + 1]
      BY <1>3
    <3>2. QED BY <1>3, <3>1 DEF Only
  <2> HIDE DEF t
  <2>4. DOMAIN Tail(t) = 1..Len(s) /\ \A k \in 1..Len(s) : Tail(t)[k] = t[k + 1]
    BY <2>1
  <2>5. ASSUME NEW k \in 1..Len(s) PROVE Tail(t)[k] = p
    <3>1. k = Len(s) \/ (k \in 1..Len(s) - 1 /\ k + 1 \in 1..Len(s))
      BY <2>1
    <3>2. QED BY <2>2, <2>3, <2>4, <3>1
  <2>6. QED BY <2>4, <2>5 DEF Only, t
<1>4. s # <<>> => Append(s, p) # <<>>
  OBVIOUS
<1>5. QED BY <1>1, <1>2, <1>3, <1>4

LEMMA LinesFacts ==
  ASSUME NEW p \in AnyPassword, NEW c \in Child, NEW q \in Seq(AnyPassword), Only(p, q)
  PROVE  /\ Only(p, c.in) => Only(p, Change!Written(c, q).in)
         /\ c.in # <<>> /\ Only(p, Tail(c.in)) => /\ Change!Written(c, q).in # <<>>
                                                  /\ Only(p, Tail(Change!Written(c, q).in))
         /\ Len(Change!Written(c, q).in) <= Len(c.in) + 1
<1>1. c.in \in Seq(AnyPassword) /\ Len(c.in) \in Nat
  BY DEF Child
<1>2. CASE q = <<>> \/ c.stage \notin Change!Asking
  <2>1. Change!Written(c, q).in = c.in
    BY <1>2, WrittenFacts
  <2>2. QED BY <1>1, <2>1
<1>3. CASE q # <<>> /\ c.stage \in Change!Asking
  <2>1. Change!Written(c, q).in = Append(c.in, Head(q))
    BY <1>3, WrittenFacts
  <2>2. Head(q) = p
    BY <1>3, OnlyFacts
  <2>3. QED BY <1>1, <2>1, <2>2, AppendFacts
<1>4. QED BY <1>2, <1>3

\* A read while a password is changed.
LEMMA ReadChanging ==
  ASSUME PasswordInv, NEW k \in 1..Len(child.out), Change!io_watch_stdout(k), chpasswd_cb
  PROVE  Changing' /\ (told' = "ok" => account = requested)
<1> USE DEF PasswordInv
<1>1. /\ child \in Child /\ str \subseteq Message /\ queue \in Seq(AnyPassword)
      /\ backend_state \in State /\ requested \in AnyPassword /\ child.in \in Seq(AnyPassword)
  BY TypeFacts DEF Child
<1>2. UNCHANGED <<chpasswd_cb, account, requested>>
  BY <1>1, ReadOutcome
<1>3. /\ Rest(k) \in Child /\ Rest(k).stage = child.stage /\ Rest(k).in = child.in
      /\ Rest(k).first = child.first /\ Rest(k).success = child.success
  BY <1>1, ReadFacts
<1>4. Meant(queue) /\ Meant(Change!Popped(queue)) /\ Change!Popped(queue) \in Seq(AnyPassword)
  BY <1>1, OnlyFacts, WrittenFacts DEF Changing, Meant
<1>5. Len(child.in) \in Nat /\ (child.in = <<>> => Len(child.in) = 0)
  BY <1>1
<1>6. ASSUME NEW state \in {"AUTH", "NEW", "RETYPE"}, NEW q \in Seq(AnyPassword),
             Meant(q), Sends(k, state, q),
             backend_state = "NEW" <=> state = "RETYPE", backend_state \in {"NONE", "NEW"}
      PROVE  Changing' /\ (told' = "ok" => account = requested)
  <2>1. backend_state' = state /\ child' = Change!Written(Rest(k), q) /\ queue' = Change!Popped(q)
        /\ told' = told
    BY <1>6 DEF Sends
  <2>2. /\ child' \in Child /\ child'.stage = child.stage /\ child'.first = child.first
        /\ child'.success = child.success
    BY <1>3, <2>1, WrittenFacts
  <2>3. /\ Only(requested, child.in) => Only(requested, child'.in)
        /\ child.in # <<>> /\ Only(requested, Tail(child.in)) =>
             child'.in # <<>> /\ Only(requested, Tail(child'.in))
        /\ Len(child'.in) <= Len(child.in) + 1
    BY <1>1, <1>3, <1>6, <2>1, LinesFacts DEF Meant
  <2>4. Only(requested, queue')
    BY <1>6, <2>1, OnlyFacts DEF Meant
  <2>5. ~child.success /\ requested # NoName
    BY <1>6 DEF Changing
  <2>6. child.stage = "cur" => child'.in # <<>> /\ Only(requested, Tail(child'.in))
    BY <2>3 DEF Changing, Meant
  <2>7. child.stage \in {"new", "retype"} => Only(requested, child'.in)
    BY <2>3 DEF Changing, Meant
  <2>8. child.stage = "retype" => child.first = requested
    BY DEF Changing
  <2>9. Len(child'.in) \in Nat
    BY <2>2 DEF Child
  <2>10. state \in {"AUTH", "NEW"} => /\ child.stage = "cur" => Len(child'.in) <= 2
                                      /\ child.stage = "new" => Len(child'.in) <= 1
                                      /\ child.stage # "retype"
    <3>1. state \in {"AUTH", "NEW"} => /\ child.stage # "retype"
                                       /\ child.stage = "cur" => Len(child.in) = 1
                                       /\ child.stage = "new" => Len(child.in) = 0
      BY <1>5, <1>6 DEF Changing
    <3>2. Len(child'.in) <= Len(child.in) + 1 /\ Len(child.in) \in Nat
      BY <1>5, <2>3
    <3>3. \A m, n \in Nat : n <= m + 1 => (m = 1 => n <= 2) /\ (m = 0 => n <= 1)
      OBVIOUS
    <3>4. (Len(child.in) = 1 => Len(child'.in) <= 2) /\ (Len(child.in) = 0 => Len(child'.in) <= 1)
      BY <2>9, <3>2, <3>3
    <3>5. QED BY <3>1, <3>4
  <2>11. Changing'
    BY <1>2, <1>6, <2>1, <2>2, <2>4, <2>5, <2>6, <2>7, <2>8, <2>10 DEF Changing, Meant
  <2>12. QED BY <2>1, <2>11 DEF Reported
<1>7. ASSUME Reads(k),
             backend_state' = "NONE" => backend_state = "NONE",
             backend_state' \in {"AUTH", "NEW"} => backend_state \in {"NONE", "AUTH", "NEW"},
             backend_state \in {"RETYPE", "DONE", "ERR"} => backend_state' \in {"RETYPE", "DONE", "ERR"},
             backend_state = "NONE" => backend_state' = "NONE",
             told' \in {told, "error"} \/ "ok" \in Read(k)
      PROVE  Changing' /\ (told' = "ok" => account = requested)
  <2>1. child' = Rest(k) /\ queue' = queue
    BY <1>7 DEF Reads
  <2>2. Changing'
    BY <1>2, <1>3, <1>7, <2>1 DEF Changing, Meant
  <2>3. "ok" \in Read(k) => child.success
    BY <1>1, ReadFacts DEF Reported
  <2>4. QED BY <1>7, <2>2, <2>3 DEF Reported, Changing
<1>8. \/ backend_state = "NONE" /\ Sends(k, "NEW", Change!Popped(queue))
      \/ backend_state = "NONE" /\ Sends(k, "AUTH", queue)
      \/ backend_state = "NEW" /\ Sends(k, "RETYPE", queue)
      \/ /\ Reads(k)
         /\ \/ backend_state = "AUTH" /\ backend_state' = "NEW" /\ told' = told
            \/ backend_state' = backend_state /\ told' \in {told, "error"}
            \/ backend_state = "RETYPE" /\ "ok" \in Read(k) /\ backend_state' = "DONE"
            \/ backend_state = "RETYPE" /\ backend_state' = "ERR" /\ told' \in {told, "error"}
  BY <1>1, ReadOutcome
<1>9. QED BY <1>1, <1>4, <1>6, <1>7, <1>8

LEMMA ReadKeepsInv ==
  ASSUME PasswordInv, NEW k \in 1..Len(child.out), Change!io_watch_stdout(k), UNCHANGED name_has_new
  PROVE  PasswordInv'
<1> USE DEF PasswordInv
<1>1. /\ child \in Child /\ str \subseteq Message /\ queue \in Seq(AnyPassword)
      /\ backend_state \in State /\ authenticated \in BOOLEAN /\ listening \in BOOLEAN
      /\ chpasswd_cb \in BOOLEAN /\ told \in {"nothing", "ok", "error"}
  BY TypeFacts
<1>2. UNCHANGED <<open, listening, current_password, chpasswd_cb, account, requested>>
  BY <1>1, ReadOutcome
<1>3. /\ Rest(k) \in Child /\ Read(k) \subseteq Message
      /\ Rest(k).stage = child.stage /\ Rest(k).success = child.success
      /\ \A m \in Read(k) : m \in str \/ Says(m)
      /\ \A i \in DOMAIN Rest(k).out : Says(Rest(k).out[i])
  BY <1>1, ReadFacts
<1>4. Change!Popped(queue) \in Seq(AnyPassword)
  BY <1>1, WrittenFacts
<1>5. \/ \E state \in {"AUTH", "NEW", "RETYPE"}, q \in Seq(AnyPassword) : Sends(k, state, q)
      \/ /\ Reads(k) /\ backend_state' \in State /\ authenticated' \in BOOLEAN
         /\ told' \in {"nothing", "ok", "error"}
         /\ \/ str' = {}
            \/ str' = Read(k) /\ "ok" \notin Read(k)
            \/ str' = Read(k) /\ backend_state \notin {"RETYPE", "DONE", "ERR"}
  BY <1>1, <1>4, ReadOutcome DEF State
<1> DEFINE After ==
             /\ child' \in Child /\ child'.stage = child.stage /\ child'.out = Rest(k).out
             /\ child'.success = child.success /\ queue' \in Seq(AnyPassword)
             /\ backend_state' \in State /\ authenticated' \in BOOLEAN
             /\ told' \in {"nothing", "ok", "error"} /\ str' \subseteq Message
<1>6. After
  <2>1. ASSUME NEW state \in {"AUTH", "NEW", "RETYPE"}, NEW q \in Seq(AnyPassword),
               Sends(k, state, q)
        PROVE  After
    BY <1>1, <1>3, <2>1, WrittenFacts DEF Sends, State
  <2>2. CASE Reads(k)
    <3>1. /\ backend_state' \in State /\ authenticated' \in BOOLEAN
          /\ told' \in {"nothing", "ok", "error"} /\ str' \in {{}, Read(k)}
      BY <1>1, <1>5, <2>2 DEF Reads, Sends, State
    <3>2. QED BY <1>1, <1>3, <2>2, <3>1 DEF Reads
  <2>3. QED BY <1>5, <2>1, <2>2
<1>7. changing_password' \in BOOLEAN
  BY TypeFacts DEF Change!io_watch_stdout
<1>8. Change!TypeOK'
  BY <1>2, <1>6, <1>7, TypeFacts DEF Change!TypeOK, State, AnyPassword, Child, Message, Stage
<1>9. \A m : Says(m)' => Says(m)
  BY <1>3, <1>6 DEF Says
<1>10. child.success => backend_state \in {"RETYPE", "DONE", "ERR"}
  BY <1>1 DEF Authenticating, Changing
<1>11. "ok" \notin str' /\ (Says("ok")' => child'.success)
  <2>1. "ok" \in Read(k) => child.success
    BY <1>3 DEF Reported
  <2>2. str' = {} \/ (str' = Read(k) /\ "ok" \notin Read(k))
    BY <1>5, <1>10, <2>1 DEF Sends
  <2>3. QED BY <1>6, <1>9, <2>2 DEF Reported
<1>12. NoneAsked'
  <2> SUFFICES ASSUME account = NoName
               PROVE  /\ backend_state' # "AUTH" /\ child'.stage # "cur"
                      /\ "cur" \notin str' /\ ~Says("cur")'
    BY <1>2 DEF NoneAsked
  <2>1. backend_state # "AUTH" /\ child.stage # "cur" /\ "cur" \notin Read(k) /\ ~Says("cur")
    BY <1>3 DEF NoneAsked
  <2>2. str' \in {{}, Read(k)}
    BY <1>5 DEF Sends
  <2>3. backend_state' = "AUTH" =>
          \/ backend_state = "AUTH"
          \/ Read(k) \cap {"new", "retype"} = {} /\ Prompted(k)
    BY <1>1, ReadOutcome DEF Sends, Reads
  <2>4. Prompted(k) => "cur" \in Read(k) \/ Read(k) \cap {"new", "retype"} # {}
    BY DEF Prompted, Change!Prompts
  <2>5. QED BY <1>6, <1>9, <2>1, <2>2, <2>3, <2>4
<1>13. CASE ~chpasswd_cb
  <2>1. Authenticating' /\ (authenticated' => Authed') /\ told' \in {told, "error"}
    BY <1>13, ReadAuthenticating
  <2>2. Authed' /\ Changing'
    BY <1>2, <1>13, <2>1 DEF Authed, Changing
  <2>3. Reported'
    BY <1>2, <1>11, <2>1 DEF Reported
  <2>4. QED BY <1>2, <1>8, <1>12, <2>1, <2>2, <2>3
<1>14. CASE chpasswd_cb
  <2>1. Changing' /\ (told' = "ok" => account = requested)
    BY <1>14, ReadChanging
  <2>2. ~authenticated /\ ~listening
    BY <1>14 DEF Authed
  <2>3. \/ authenticated' = authenticated
        \/ authenticated' = (authenticated \/ listening)
        \/ authenticated' \in {authenticated, authenticated /\ ~listening}
    BY <1>1, ReadOutcome DEF Sends
  <2>4. ~authenticated'
    BY <1>1, <1>6, <2>2, <2>3
  <2>5. Authed' /\ Authenticating'
    BY <1>2, <1>14, <2>4 DEF Authed, Authenticating
  <2>6. Reported'
    BY <1>2, <1>11, <2>1 DEF Reported
  <2>7. QED BY <1>2, <1>8, <1>12, <2>1, <2>5, <2>6
<1>15. QED BY <1>13, <1>14

-----------------------------------------------------------------------------
(* Every step                                                              *)

\* What is taken for the new password is the one asked for.
TakesRequested == /\ account' # account => account' = requested
                  /\ told' = "ok" => requested' = requested

LEMMA NextKeepsInv ==
  PasswordInv /\ [Change!Next]_Change!vars => PasswordInv' /\ TakesRequested
<1> SUFFICES ASSUME PasswordInv, [Change!Next]_Change!vars
             PROVE  PasswordInv' /\ TakesRequested
  OBVIOUS
<1>1. CASE UNCHANGED Change!vars
  <2>1. UNCHANGED <<name_has_new, open, authenticated, listening, backend_state, queue,
                    current_password, changing_password, chpasswd_cb, str, child, account,
                    requested, told>>
    BY <1>1 DEF Change!vars, Change!editor, Change!handler
  <2>2. QED
    BY <2>1 DEF PasswordInv, Change!TypeOK, Authenticating, Authed, NoneAsked, Changing, Reported,
                Meant, Says, TakesRequested
<1>2. CASE Change!Next
  <2> USE <1>2 DEF TakesRequested
  <2>0. UNCHANGED name_has_new
    BY DEF Change!Next
  <2>1. CASE Change!TogglePopover
    BY <2>0, <2>1, ToggleKeepsInv DEF Change!TogglePopover
  <2>2. ASSUME NEW p \in Passwords, NEW b \in BOOLEAN, Change!password_auth(p, b)
        PROVE  PasswordInv' /\ TakesRequested
    BY <2>0, <2>2, AuthKeepsInv DEF Change!password_auth
  <2>3. ASSUME NEW p \in Passwords, NEW b \in BOOLEAN, Change!ClickChange(p, b)
        PROVE  PasswordInv' /\ TakesRequested
    BY <2>0, <2>3, ClickKeepsInv DEF Change!ClickChange
  <2>4. CASE Change!ReadsCurrent
    BY <2>0, <2>4, ReadsCurrentKeepsInv DEF Change!ReadsCurrent
  <2>5. ASSUME NEW v \in {"taken", "again", "refused"}, Change!ReadsNew(v)
        PROVE  PasswordInv' /\ TakesRequested
    BY <2>0, <2>5, ReadsNewKeepsInv DEF Change!ReadsNew
  <2>6. ASSUME NEW b \in BOOLEAN, Change!ReadsRetyped(b)
        PROVE  PasswordInv' /\ TakesRequested
    BY <2>0, <2>6, ReadsRetypedKeepsInv DEF Change!ReadsRetyped
  <2>7. CASE Change!Dies
    BY <2>0, <2>7, DiesKeepsInv DEF Change!Dies
  <2>8. CASE Change!child_watch_cb
    BY <2>0, <2>8, ChildWatchKeepsInv DEF Change!child_watch_cb
  <2>9. ASSUME NEW k \in 1..Len(child.out), Change!io_watch_stdout(k)
        PROVE  PasswordInv' /\ TakesRequested
    <3>1. account' = account /\ requested' = requested
      BY <2>9 DEF Change!io_watch_stdout
    <3>2. QED BY <2>0, <2>9, <3>1, ReadKeepsInv
  <2>10. QED
    BY <2>1, <2>2, <2>3, <2>4, <2>5, <2>6, <2>7, <2>8, <2>9 DEF Change!Next, Change!passwd
<1>3. QED BY <1>1, <1>2

\* The types: of any passwords, and of queues and buffers of any length.
THEOREM PasswordTypeCorrect == Change!Spec => []Change!TypeOK
<1>1. PasswordInv => Change!TypeOK
  BY DEF PasswordInv
<1>2. QED BY <1>1, InitInv, NextKeepsInv, PTL DEF Change!Spec

\* passwd never takes a line for the new password that was not meant as one,
\* and success is reported only of a change that has been made: whatever
\* prompts run-passwd.c misreads, and however its two watches interleave.
THEOREM ChangesCorrect == Change!Spec => ChangesAsTold
<1>1. PasswordInv /\ [Change!Next]_Change!vars =>
        /\ PasswordInv'
        /\ [/\ account' # account => account' = requested
            /\ told' = "ok" => account' = requested]_Change!vars
  BY NextKeepsInv DEF PasswordInv, Reported, TakesRequested
<1>2. QED BY <1>1, InitInv, PTL DEF Change!Spec, ChangesAsTold, Change!ChangesAsTold
=============================================================================
