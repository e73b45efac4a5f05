------------------------------ MODULE MCSession ------------------------------
(***************************************************************************)
(* Logging in and changing the password, in small instances.  The two do   *)
(* not share state: focus, chosen at the start, says what happens.         *)
(*   login     with two users, the guest and the manual login, or with two *)
(*             users only, when the second one has no box                  *)
(*   password  the password of an account is changed, which has one or has *)
(*             none, and whose name may contain "new"                      *)
(***************************************************************************)
EXTENDS Greeter

CONSTANTS Passwords, Focus

ASSUME PasswordAssumption == NoName \notin Passwords

VARIABLES
  focus, name_has_new,
  open, authenticated, listening, backend_state, queue, current_password,
  changing_password, chpasswd_cb, str, child, account, requested, told

passwords == <<name_has_new, open, authenticated, listening, backend_state, queue,
               current_password, changing_password, chpasswd_cb, str, child, account,
               requested, told>>

Change == INSTANCE RunPasswd WITH NoPassword <- NoName

MCInit ==
  /\ focus \in Focus
  /\ Init /\ (focus # "login" => size = 2 /\ current_user = 1)
  /\ Change!Init
  /\ focus = "login" => account = NoName /\ ~name_has_new

MCNext ==
  \/ focus = "login" /\ Next /\ UNCHANGED <<focus, passwords>>
  \/ focus = "password" /\ Change!Next /\ UNCHANGED <<focus, vars>>

MCSpec == MCInit /\ [][MCNext]_<<focus, vars, passwords>>

\* A reported change of the password has been made, to what was asked for.
ChangesAsTold == Change!ChangesAsTold
NotStopped == Change!NotStopped
Answered == Change!Answered
PasswdTypeOK == Change!TypeOK
=============================================================================
