------------------------------ MODULE RunPasswd ------------------------------
(***************************************************************************)
(* useraccounts-settings: how an unprivileged user changes the password.   *)
(* lib/run-passwd.c drives /usr/bin/passwd through pipes: it guesses from  *)
(* what the program has printed which state it is in, and writes the next  *)
(* line of a queue.  PasswordEditor and PasswordPopover call it, with a    *)
(* new handler for each authentication (Utils.vala, get_passwd_handler).   *)
(*                                                                         *)
(* The program is external: it reads lines when they are there, prints,    *)
(* and exits.  What it prints is a sequence of messages; a read may return *)
(* any number of them at once, and the child watch may run before the last *)
(* ones are read.  A message is named for the word that is looked for:     *)
(*   "cur", "new", "retype"   a prompt ("... assword: ")                   *)
(*   "error", "bad", "ok"     refused current, refused new, successfully   *)
(***************************************************************************)
EXTENDS Integers, Sequences

CONSTANTS
  Passwords,    \* what accounts have and users type
  NoPassword    \* an account without a password; nothing asked for.  Not in Passwords

VARIABLES
  name_has_new,              \* the login name, which passwd prints first, contains "new"
  open, authenticated,       \* the PasswordEditor in the open popover, if any
  listening,                 \* auth_cb was set by that editor
  backend_state, queue, current_password, changing_password, chpasswd_cb,
  str,                       \* io_watch_stdout's static buffer
  child,                     \* the passwd program
  account, requested,        \* the account's password; the one asked for
  told                       \* what chpasswd_cb has said of the request

editor  == <<open, authenticated, listening>>
handler == <<backend_state, queue, current_password, changing_password, chpasswd_cb>>
vars == <<name_has_new, editor, handler, str, child, account, requested, told>>

Prompts == {"cur", "new", "retype"}
Verdicts == {"error", "bad", "ok"}
Asking == {"cur", "new", "retype"}   \* the stages in which it waits for a line

NoChild == [stage |-> "none", in |-> <<>>, out |-> <<>>, first |-> NoPassword, success |-> FALSE]

\* spawn_passwd: passwd asks for the current password if there is one.
Spawned ==
  LET prompt == IF account = NoPassword THEN "new" ELSE "cur"
  IN [NoChild EXCEPT !.stage = prompt, !.out = <<prompt>>]

\* io_queue_pop of queue q, written to child c (lost when it has exited).
Written(c, q) ==
  IF q = <<>> \/ c.stage \notin Asking THEN c ELSE [c EXCEPT !.in = Append(@, Head(q))]
Popped(q) == IF q = <<>> THEN q ELSE Tail(q)

-----------------------------------------------------------------------------
Init ==
  /\ name_has_new \in BOOLEAN
  /\ open = FALSE /\ authenticated = FALSE /\ listening = FALSE
  /\ backend_state = "NONE" /\ queue = <<>> /\ current_password = NoPassword
  /\ changing_password = FALSE /\ chpasswd_cb = FALSE
  /\ str = {}
  /\ child = NoChild
  /\ account \in Passwords \cup {NoPassword}
  /\ requested = NoPassword /\ told = "nothing"

-----------------------------------------------------------------------------
(* The user                                                                *)

\* The password button makes a new popover, with a new editor; it may be
\* closed by clicking elsewhere.
TogglePopover ==
  /\ open' = ~open /\ authenticated' = FALSE /\ listening' = FALSE
  /\ UNCHANGED <<handler, str, child, account, requested, told>>

\* password_auth: a new handler replaces and destroys the old one, whose
\* passwd is killed; passwd_authenticate then spawns another.
password_auth(p, spawns) ==
  /\ open /\ ~authenticated
  /\ listening' = TRUE
  /\ current_password' = p
  /\ backend_state' = "NONE"
  /\ changing_password' = FALSE /\ chpasswd_cb' = FALSE
  /\ child' = IF spawns THEN Spawned ELSE NoChild
  /\ queue' = IF spawns THEN <<p>> ELSE <<>>
  /\ UNCHANGED <<open, authenticated, str, account, requested, told>>

passwd_change_password(n, spawns) ==
  /\ changing_password' = TRUE /\ chpasswd_cb' = TRUE
  /\ IF backend_state = "ERR" \/ child.stage = "none"
     THEN /\ backend_state' = "NONE"
          /\ LET q == queue \o <<current_password, n, n>> IN
             IF spawns THEN child' = Written(Spawned, q) /\ queue' = Popped(q)
                       ELSE child' = NoChild /\ UNCHANGED queue
     ELSE /\ child' = Written(child, queue \o <<n, n>>)
          /\ queue' = Popped(queue \o <<n, n>>)
          /\ UNCHANGED backend_state
  /\ UNCHANGED current_password

\* A click on the button of the popover, which is then destroyed.
ClickChange(n, spawns) ==
  /\ open /\ authenticated
  /\ passwd_change_password(n, spawns)
  /\ open' = FALSE /\ authenticated' = FALSE /\ listening' = FALSE
  /\ requested' = n /\ told' = "nothing"
  /\ UNCHANGED <<str, account>>

-----------------------------------------------------------------------------
(* passwd (external)                                                       *)

Prints(c, m, stage) == [c EXCEPT !.in = Tail(@), !.out = Append(@, m), !.stage = stage]

ReadsCurrent ==
  /\ child.stage = "cur" /\ child.in # <<>>
  /\ child' = IF Head(child.in) = account THEN Prints(child, "new", "new")
                                          ELSE Prints(child, "error", "exited")
  /\ UNCHANGED <<editor, handler, str, account, requested, told>>

\* The new password is taken, or refused; then passwd asks again or gives up.
ReadsNew(verdict) ==
  /\ child.stage = "new" /\ child.in # <<>>
  /\ child' = CASE verdict = "taken"  -> [Prints(child, "retype", "retype") EXCEPT !.first = Head(child.in)]
                [] verdict = "again"  -> [Prints(child, "bad", "new") EXCEPT !.out = Append(@, "new")]
                [] verdict = "refused" -> Prints(child, "bad", "exited")
  /\ UNCHANGED <<editor, handler, str, account, requested, told>>

\* The retyped one is compared, and checked against the history.
ReadsRetyped(fits) ==
  /\ child.stage = "retype" /\ child.in # <<>>
  /\ IF fits /\ Head(child.in) = child.first
     THEN /\ child' = [Prints(child, "ok", "exited") EXCEPT !.success = TRUE]
          /\ account' = child.first
     ELSE /\ child' = Prints(child, "bad", "exited")
          /\ UNCHANGED account
  /\ UNCHANGED <<editor, handler, str, requested, told>>

\* passwd dies.
Dies ==
  /\ child.stage \in Asking
  /\ child' = [child EXCEPT !.stage = "exited"]
  /\ UNCHANGED <<editor, handler, str, account, requested, told>>

-----------------------------------------------------------------------------
(* The watches                                                             *)

\* Mutant: any exit after the retyping counts as success.
child_watch_cb_AnyStatus ==
  /\ child.stage = "exited"
  /\ told' = IF backend_state = "RETYPE" /\ chpasswd_cb THEN "ok" ELSE told
  /\ backend_state' = "NONE" /\ child' = NoChild
  /\ UNCHANGED <<editor, queue, current_password, changing_password, chpasswd_cb,
                 str, account, requested>>

\* free_passwd_resources at the end drops what was not read.
child_watch_cb ==
  /\ child.stage = "exited"
  /\ told' = IF child.success /\ backend_state = "RETYPE" /\ chpasswd_cb THEN "ok" ELSE told
  /\ backend_state' = "NONE" /\ child' = NoChild
  /\ UNCHANGED <<editor, queue, current_password, changing_password, chpasswd_cb,
                 str, account, requested>>

\* One call reads k messages.  read is all that is in the buffer then; the
\* buffer is emptied when the state has found what it looks for.
io_watch_stdout(k) ==
  LET read   == str \cup {child.out[i] : i \in 1..k}
      rest   == [child EXCEPT !.out = SubSeq(@, k + 1, Len(@))]
      prompt == read \cap Prompts # {}
      hasNew == name_has_new \/ read \cap {"new", "retype"} # {}
      \* the state's words have been found, and the next line is sent from q
      sends(state, q) == /\ backend_state' = state /\ str' = {}
                         /\ child' = Written(rest, q) /\ queue' = Popped(q)
                         /\ UNCHANGED <<authenticated, told, changing_password>>
      silent(buffer)  == /\ str' = buffer /\ child' = rest
                         /\ UNCHANGED <<authenticated, told, changing_password,
                                        backend_state, queue>>
  IN
  /\ CASE backend_state = "NONE" /\ prompt /\ hasNew ->
            sends("NEW", Popped(queue))     \* "skip the AUTH phase"
       [] backend_state = "NONE" /\ prompt /\ ~hasNew -> sends("AUTH", queue)
       [] backend_state = "AUTH" /\ prompt ->       \* auth_cb without an error
            /\ backend_state' = "NEW" /\ str' = {} /\ child' = rest
            /\ authenticated' = (authenticated \/ listening)
            /\ UNCHANGED <<told, changing_password, queue>>
       [] backend_state = "AUTH" /\ ~prompt /\ read \cap {"error", "bad"} # {} ->
            /\ str' = {} /\ child' = rest
            /\ changing_password' = FALSE
            /\ IF chpasswd_cb THEN told' = "error" /\ UNCHANGED authenticated
                              ELSE authenticated' = (authenticated /\ ~listening) /\ UNCHANGED told
            /\ UNCHANGED <<backend_state, queue>>
       [] backend_state = "NEW" /\ prompt -> sends("RETYPE", queue)
       [] backend_state = "RETYPE" /\ "ok" \in read ->
            /\ backend_state' = "DONE" /\ str' = {} /\ child' = rest
            /\ told' = IF chpasswd_cb THEN "ok" ELSE told
            /\ UNCHANGED <<authenticated, changing_password, queue>>
       [] backend_state = "RETYPE" /\ "ok" \notin read /\ read \cap Verdicts # {} ->
            /\ backend_state' = "ERR" /\ str' = {} /\ child' = rest
            /\ told' = IF chpasswd_cb THEN "error" ELSE told
            /\ changing_password' = FALSE
            /\ UNCHANGED <<authenticated, queue>>
       [] backend_state \in {"DONE", "ERR"} -> silent({})
       [] OTHER -> silent(read)
  /\ UNCHANGED <<open, listening, current_password, chpasswd_cb, account, requested>>

passwd ==
  \/ ReadsCurrent
  \/ \E v \in {"taken", "again", "refused"} : ReadsNew(v)
  \/ \E b \in BOOLEAN : ReadsRetyped(b)
  \/ Dies

Next ==
  /\ UNCHANGED name_has_new
  /\ \/ TogglePopover
     \/ \E p \in Passwords, b \in BOOLEAN : password_auth(p, b) \/ ClickChange(p, b)
     \/ passwd
     \/ child_watch_cb
     \/ \E k \in 1..Len(child.out) : io_watch_stdout(k)

Spec == Init /\ [][Next]_vars

-----------------------------------------------------------------------------
(* Properties                                                              *)

\* Type invariant
TypeOK ==
  /\ name_has_new \in BOOLEAN
  /\ open \in BOOLEAN /\ authenticated \in BOOLEAN /\ listening \in BOOLEAN
  /\ backend_state \in {"NONE", "AUTH", "NEW", "RETYPE", "DONE", "ERR"}
  /\ queue \in Seq(Passwords \cup {NoPassword})
  /\ current_password \in Passwords \cup {NoPassword}
  /\ changing_password \in BOOLEAN /\ chpasswd_cb \in BOOLEAN
  /\ str \subseteq Prompts \cup Verdicts
  /\ child \in [stage : Asking \cup {"none", "exited"},
                in : Seq(Passwords \cup {NoPassword}), out : Seq(Prompts \cup Verdicts),
                first : Passwords \cup {NoPassword}, success : BOOLEAN]
  /\ account \in Passwords \cup {NoPassword}
  /\ requested \in Passwords \cup {NoPassword}
  /\ told \in {"nothing", "ok", "error"}

\* However the lines written and the prompts read are interleaved, passwd
\* never takes a line for the new password that was not meant as one, and
\* success is reported only of a change that has been made.
ChangesAsTold ==
  [][/\ account' # account => account' = requested
     /\ told' = "ok" => account' = requested]_vars

\* "Don't stop if we've already started chaging password" (run-passwd.c:682):
\* a passwd that is changing the password is not killed.
NotStopped ==
  [][changing_password /\ child.stage = "retype" /\ child'.stage # child.stage
     => child'.stage = "exited"]_vars

\* Who is told nothing waits for something: when the program has gone, the
\* request has been answered.  It is not when passwd gives up before the
\* retyping or the child watch runs before the error has been read.
Answered == requested # NoPassword /\ child.stage = "none" => told # "nothing"
=============================================================================
