------------------------------- MODULE Greeter -------------------------------
(***************************************************************************)
(* greeter/src: how somebody logs in.  The greeter shows a list of login   *)
(* options (users, perhaps the guest, perhaps a manual login where a name  *)
(* is typed); the selected one starts to authenticate 300 ms after its     *)
(* selection.  A LoginBox (the LoginMask) and the LightDMGateway speak the  *)
(* protocol of Interfaces/LoginMask.vala; the gateway passes it on to      *)
(* LightDM, whose PAM conversation prompts, accepts or refuses.            *)
(*                                                                         *)
(* All handlers run on one main loop.  What interleaves is the user, the   *)
(* selection timeouts (never cancelled), LightDM's answers and the end of  *)
(* the fade-out that starts the session.  liblightdm drops what belongs to *)
(* a conversation that has been replaced, so only the current one is there.*)
(***************************************************************************)
EXTENDS Integers, Sequences

CONSTANTS
  Sizes,         \* how many options a UserList may hold; they are 1..size
  Guest, Manual, \* the options of the guest and of the manual login (0: none)
  Names,         \* what may be typed as a name
  NoName,        \* the empty entry
  MaxPending     \* bound: selections within 300 ms

ASSUME GreeterAssumption ==
  /\ Sizes \subseteq Nat \ {0}
  /\ Guest \in Nat /\ Manual \in Nat
  /\ MaxPending \in Nat \ {0}

Options == UNION {1..n : n \in Sizes}

VARIABLES
  size, current_user,      \* UserList
  pending,                 \* the options whose selection timeout has not fired
  credentials,             \* CredentialsArea of each box
  entry, sensitive,        \* login_name_entry of the manual login
  current_login, had_prompt, awaiting_confirmation,   \* LightDMGateway
  awaiting_start_session,
  conversation,            \* external: LightDM's current conversation
  session                  \* "none", "fading" out the greeter, "started"

gateway == <<current_login, had_prompt, awaiting_confirmation>>
list    == <<size, current_user, pending>>
name    == <<entry, sensitive>>
vars == <<list, credentials, name, gateway, awaiting_start_session, conversation, session>>

\* UserListActor makes a box for every option only if there are more than two.
HasBox(i) == i \in 1..size /\ (size > 2 \/ i = 1)

provides_login_name(i) == i # Manual

login_name(i, typed) == IF provides_login_name(i) THEN i ELSE typed

-----------------------------------------------------------------------------
(* The conversation: authenticate, prompts and answers                     *)

NoConversation == [state |-> "none", name |-> NoName, user |-> FALSE]

\* user: the user has been asked, has touched the reader, or has replied.
authenticate(n) == [state |-> "running", name |-> n, user |-> FALSE]

Touched(c, state) == [state |-> state, name |-> c.name, user |-> TRUE]

-----------------------------------------------------------------------------
(* LightDMGateway                                                          *)

\* Mutant: requests are taken while start_session is awaited.
login_with_mask_Unguarded(i, shown) ==
  /\ credentials' = [j \in Options |-> IF j = current_login THEN "none" ELSE shown[j]]
  /\ current_login' = i
  /\ had_prompt' = FALSE /\ awaiting_confirmation' = FALSE
  /\ conversation' = authenticate(login_name(i, entry))

\* Mutant: what the last conversation asked still counts.
login_with_mask_KeepsPrompt(i, shown) ==
  IF awaiting_start_session
  THEN credentials' = shown /\ UNCHANGED <<gateway, conversation>>
  ELSE /\ credentials' = [j \in Options |-> IF j = current_login THEN "none" ELSE shown[j]]
       /\ current_login' = i
       /\ awaiting_confirmation' = FALSE
       /\ conversation' = authenticate(login_name(i, entry))
       /\ UNCHANGED had_prompt

\* Mutant: the mask that was logging in is not told.
login_with_mask_NotAborted(i, shown) ==
  IF awaiting_start_session
  THEN credentials' = shown /\ UNCHANGED <<gateway, conversation>>
  ELSE /\ credentials' = shown
       /\ current_login' = i
       /\ had_prompt' = FALSE /\ awaiting_confirmation' = FALSE
       /\ conversation' = authenticate(login_name(i, entry))

\* shown: the credentials as the caller has left them.
login_with_mask(i, shown) ==
  IF awaiting_start_session
  THEN credentials' = shown /\ UNCHANGED <<gateway, conversation>>
  ELSE /\ credentials' = [j \in Options |-> IF j = current_login THEN "none" ELSE shown[j]]
       /\ current_login' = i
       /\ had_prompt' = FALSE /\ awaiting_confirmation' = FALSE
       /\ conversation' = authenticate(login_name(i, entry))

login_successful ==
  /\ awaiting_start_session' = TRUE
  /\ session' = "fading"

respond ==
  \/ /\ awaiting_start_session
     /\ UNCHANGED <<awaiting_start_session, session, conversation>>
  \/ /\ ~awaiting_start_session /\ awaiting_confirmation
     /\ login_successful
     /\ conversation' = Touched(conversation, conversation.state)
  \/ /\ ~awaiting_start_session /\ ~awaiting_confirmation
     /\ conversation' = IF conversation.state = "asked"
                        THEN Touched(conversation, "running") ELSE conversation
     /\ UNCHANGED <<awaiting_start_session, session>>

-----------------------------------------------------------------------------
(* CredentialsArea of box i                                                *)

Removed(i) == [credentials EXCEPT ![i] = "none"]

\* show_prompt for a prompt it implements: the new credentials replace the
\* old ones, and the name can be edited again.
show_prompt(i, shown) ==
  /\ credentials' = [credentials EXCEPT ![i] = shown]
  /\ sensitive' = (sensitive \/ i = Manual)
  /\ UNCHANGED entry

-----------------------------------------------------------------------------
(* A greeter that has just started has selected the last user, or the      *)
(* first in the list (constructor of PantheonGreeter).                     *)
Init ==
  /\ size \in Sizes
  /\ current_user \in 1..size
  /\ pending = <<current_user>>
  /\ credentials = [i \in Options |-> "none"]
  /\ entry = NoName /\ sensitive = TRUE
  /\ current_login = 0
  /\ had_prompt = FALSE /\ awaiting_confirmation = FALSE
  /\ awaiting_start_session = FALSE
  /\ conversation = NoConversation
  /\ session = "none"

-----------------------------------------------------------------------------
(* The user                                                                *)

\* Mutant: a timeout that is still pending serves for the next selection too.
Select_OneTimeout(i) ==
  /\ session # "started"
  /\ i \in (1..size) \ {current_user}
  /\ HasBox(i) \/ i \in {current_user - 1, current_user + 1}
  /\ current_user' = i
  /\ credentials' = [j \in Options |-> "none"]
  /\ pending' = IF pending = <<>> THEN <<i>> ELSE pending
  /\ UNCHANGED <<size, name, gateway, awaiting_start_session, conversation, session>>

\* current_user is set by a click on an avatar, by an arrow key or by
\* scrolling.  animate_list (un)selects every box, which removes its
\* credentials, and starts the timeout of the selected one.
Select(i) ==
  /\ session # "started"
  /\ i \in (1..size) \ {current_user}
  /\ HasBox(i) \/ i \in {current_user - 1, current_user + 1}
  /\ Len(pending) < MaxPending
  /\ current_user' = i
  /\ credentials' = [j \in Options |-> "none"]
  /\ pending' = Append(pending, i)
  /\ UNCHANGED <<size, name, gateway, awaiting_start_session, conversation, session>>

\* The timeout of a selection: LoginBox.pass_focus.  The manual login only
\* focuses its entry, which removes its credentials.
PassFocus ==
  LET i == Head(pending) IN
  /\ session # "started"
  /\ pending # <<>> /\ pending' = Tail(pending)
  /\ \/ ~HasBox(i) /\ UNCHANGED <<credentials, gateway, conversation>>
     \/ HasBox(i) /\ provides_login_name(i) /\ login_with_mask(i, credentials)
     \/ /\ HasBox(i) /\ ~provides_login_name(i)
        /\ credentials' = IF sensitive THEN Removed(i) ELSE credentials
        /\ UNCHANGED <<gateway, conversation>>
  /\ UNCHANGED <<size, current_user, name, awaiting_start_session, session>>

CanType == session # "started" /\ current_user = Manual /\ HasBox(Manual) /\ sensitive

\* The user focuses the entry of the manual login, and changes the name.
EditName(n) ==
  /\ CanType /\ n # entry
  /\ entry' = n
  /\ credentials' = Removed(Manual)
  /\ UNCHANGED <<list, sensitive, gateway, awaiting_start_session, conversation, session>>

\* Return or a click on the icon in the entry: entered_login_name.
EnterName ==
  /\ CanType
  /\ login_with_mask(Manual, Removed(Manual))
  /\ UNCHANGED <<list, name, awaiting_start_session, session>>

\* The user replies in the box that is shown: the name is locked, the
\* credentials go away, and the gateway gets the answer.
Reply ==
  /\ session # "started" /\ HasBox(current_user) /\ credentials[current_user] # "none"
  /\ sensitive' = (sensitive /\ current_user # Manual)
  /\ credentials' = Removed(current_user)
  /\ respond
  /\ UNCHANGED <<list, entry, gateway>>

-----------------------------------------------------------------------------
(* LightDM                                                                 *)

\* A prompt.  A QUESTION is not implemented by CredentialsArea: it only
\* removes what was shown.
Prompt(type) ==
  /\ conversation.state = "running" /\ current_login # Guest
  /\ conversation' = Touched(conversation, IF type = "SECRET" THEN "asked" ELSE "questioned")
  /\ had_prompt' = TRUE
  /\ IF type = "SECRET"
     THEN show_prompt(current_login, "password")
     ELSE credentials' = Removed(current_login) /\ UNCHANGED name
  /\ UNCHANGED <<list, current_login, awaiting_confirmation, awaiting_start_session, session>>

\* pam_fprintd asks for a finger: a message that counts as a prompt.
FingerMessage ==
  /\ conversation.state = "running" /\ current_login # Guest
  /\ conversation' = Touched(conversation, "running")
  /\ had_prompt' = TRUE
  /\ show_prompt(current_login, "none")
  /\ UNCHANGED <<list, current_login, awaiting_confirmation, awaiting_start_session, session>>

\* authentication, when LightDM has accepted the user.
Authenticated ==
  /\ conversation.state = "running"
  /\ conversation' = [conversation EXCEPT !.state = "done"]
  /\ IF had_prompt
     THEN login_successful /\ UNCHANGED <<credentials, name, awaiting_confirmation>>
     ELSE /\ awaiting_confirmation' = TRUE
          /\ show_prompt(current_login, "button")
          /\ UNCHANGED <<awaiting_start_session, session>>
  /\ UNCHANGED <<list, current_login, had_prompt>>

\* authentication, when LightDM has refused: the mask starts over at once.
NotAuthenticated ==
  /\ conversation.state \in {"running", "asked", "questioned"}
  /\ login_with_mask(current_login, Removed(current_login))
  /\ UNCHANGED <<list, name, awaiting_start_session, session>>

\* The fade-out is over: start_session, which ends the greeter.
FadeCompleted ==
  /\ session = "fading" /\ session' = "started"
  /\ UNCHANGED <<list, credentials, name, gateway, awaiting_start_session, conversation>>

Next ==
  \/ \E i \in Options : Select(i)
  \/ PassFocus
  \/ \E n \in Names \cup {NoName} : EditName(n)
  \/ EnterName
  \/ Reply
  \/ \E t \in {"SECRET", "QUESTION"} : Prompt(t)
  \/ FingerMessage
  \/ Authenticated
  \/ NotAuthenticated
  \/ FadeCompleted

Spec == Init /\ [][Next]_vars

-----------------------------------------------------------------------------
(* Properties                                                              *)

\* Type invariant: the list, and the boxes, the gateway and the conversation.
ListType ==
  /\ size \in Sizes /\ current_user \in 1..size
  /\ pending \in Seq(Options)

LoginType ==
  /\ credentials \in [Options -> {"none", "password", "button"}]
  /\ entry \in Names \cup {NoName} /\ sensitive \in BOOLEAN
  /\ current_login \in Options \cup {0}
  /\ had_prompt \in BOOLEAN /\ awaiting_confirmation \in BOOLEAN
  /\ awaiting_start_session \in BOOLEAN
  /\ conversation \in [state : {"none", "running", "asked", "questioned", "done"},
                       name : Options \cup Names \cup {NoName}, user : BOOLEAN]
  /\ session \in {"none", "fading", "started"}

TypeOK == ListType /\ LoginType

\* A box shows something to reply to only if it is the one that logs in, and
\* the reply reaches the question it was shown for: a password goes to a
\* conversation that asks for one, a click on the button confirms a login
\* that LightDM has accepted.
PromptBelongs ==
  \A i \in Options :
    /\ credentials[i] # "none" => i = current_login
    /\ credentials[i] = "password" => conversation.state = "asked" /\ ~awaiting_confirmation
    /\ credentials[i] = "button" => awaiting_confirmation /\ conversation.state = "done"

\* When the selection timeouts are over, the selected option is the one that
\* logs in, under its name, and shows what LightDM waits for.
SelectedIsServed ==
  /\ pending = <<>> /\ HasBox(current_user) /\ provides_login_name(current_user)
  /\ ~awaiting_start_session
  => /\ current_login = current_user /\ conversation.name = current_user
     /\ conversation.state = "asked" => credentials[current_user] = "password"
     /\ conversation.state = "done" => credentials[current_user] = "button"

\* "you would automatically login as guest if you select the guest login"
\* (LightDMGateway.vala:36): a session starts only after this very
\* conversation has asked the user for something, or the user has confirmed.
NoSilentLogin ==
  awaiting_start_session => conversation.state = "done" /\ conversation.user

\* "The Gateway shall not accept any request from now on beside the
\* start_session call" (LoginGateway.vala:40): after login_successful neither
\* the user nor a late timeout replaces the login the session starts for.
NothingAfterSuccess ==
  [][awaiting_start_session => UNCHANGED <<gateway, awaiting_start_session, conversation>>]_vars

\* "Prevents that the user changes his login name during the authentication
\* process" (CredentialsArea.vala:191): from the prompt to the answer of
\* LightDM the name that was sent to it stays in the entry.
NameFixed ==
  [][/\ conversation.state \in {"asked", "running"} /\ conversation.user
     /\ current_login = Manual /\ UNCHANGED conversation
     => entry' = entry]_vars

\* The manual login can always be given a name, unless its own login is
\* under way.  It cannot after a password has been sent and another option
\* been selected before the answer.
EntryUsable ==
  current_user = Manual /\ pending = <<>> /\ current_login # Manual
    /\ ~awaiting_start_session => sensitive
=============================================================================
