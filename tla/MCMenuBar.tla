----------------------------- MODULE MCMenuBar -----------------------------
(***************************************************************************)
(* TLC instances of AppMenu and of AppMatcher, which share nothing: each   *)
(* behaviour is one of the component that `focus` names.  The windows are  *)
(* that of a program with a registered menu, its dialog, and one with a    *)
(* GTK+ menu bar whose program knows only the old protocol.  The           *)
(* applications claim the windows' classes, or are named or start files    *)
(* that are named as they are.                                             *)
(***************************************************************************)
EXTENDS AppMenu

CONSTANTS qt, dialog, gtk,
          Apps, AppWindows, Pids, NoName, NoApp, MaxChanges    \* of AppMatcher

VARIABLES
  focus,
  installed, changes, noticed, idles, invalidated, tables, pid_cache, answer  \* AppMatcher

matcher == <<installed, changes, noticed, idles, invalidated, tables, pid_cache, answer>>

MCParent == [w \in {qt, dialog, gtk} |-> IF w = dialog THEN qt ELSE NoWindow]

Named == [id |-> "gimp", key |-> "gimp", startup_wm_class |-> "none", exec |-> "gimp"]
Claiming == [id |-> "paint", key |-> "paint", startup_wm_class |-> "gimp", exec |-> "paint"]
Upper == [id |-> "Code", key |-> "code", startup_wm_class |-> "none", exec |-> "electron"]
Lower == [id |-> "shell", key |-> "shell", startup_wm_class |-> "none", exec |-> "electron"]

MCApps == {Named, Claiming, Upper, Lower}
MCAppWindows == {[cls |-> "gimp", grp |-> "none", gtk_id |-> "none", pid |-> 1],
                 [cls |-> "electron", grp |-> "none", gtk_id |-> "code", pid |-> 0],
                 [cls |-> "electron", grp |-> "gimp", gtk_id |-> "none", pid |-> 2]}

Matcher == INSTANCE AppMatcher

\* What is not looked at starts in one state only.
MCInit ==
  /\ focus \in {"menu bar", "matcher"} /\ Init /\ Matcher!Init
  /\ focus = "menu bar" => installed = {}
  /\ focus = "matcher" => ~registrar.up

MCNext ==
  \/ focus = "menu bar" /\ Next /\ UNCHANGED <<focus, matcher>>
  \/ focus = "matcher" /\ Matcher!Next /\ UNCHANGED <<focus, vars>>

\* The fairness is that of the menu bar.
MCSpec == MCInit /\ [][MCNext]_<<focus, vars, matcher>> /\ Fairness

\* What the matcher answers is installed, and goes by the window's class.
MatchesInstalled == Matcher!MatchesInstalled
=============================================================================
