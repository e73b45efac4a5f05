----------------------------- MODULE MCDockItems -----------------------------
(* Instances of DockItems for TLC.  A behaviour is of one of two scenarios: *)
(* one dock that runs, with an application with a desktop file and one     *)
(* without and two files for one launcher; or a dock that is restarted,    *)
(* with one application and two files for two launchers.                   *)
EXTENDS DockItems, TLC

CONSTANTS a1, a2, l1, l2, f1, f2

MCLauncherOf == a1 :> l1
MCLauncherOfWindow == a1 :> l1 @@ a2 :> Empty

MCOwnFiles == f1 :> l1 @@ f2 :> l2
MCSameFiles == f1 :> l1 @@ f2 :> l1

VARIABLE scenario

Restarted == INSTANCE DockItems WITH
               Apps <- {a1}, Launchers <- {l1, l2}, Content <- MCOwnFiles,
               LauncherOf <- MCLauncherOf, Badges <- {},
               StartPinnedOnly <- {FALSE}, Restarts <- TRUE

MCInit ==
  \/ scenario = "live" /\ Init
  \/ scenario = "restart" /\ Restarted!Init

MCNext ==
  \/ scenario = "live" /\ Next /\ UNCHANGED scenario
  \/ scenario = "restart" /\ Restarted!Next /\ UNCHANGED scenario

MCSpec == MCInit /\ [][MCNext]_<<vars, scenario>>

\* In one life of the dock, every visible running application has an item (a
\* restart can lose one: Matcher does not put a hidden view on its list).
LiveRunningShown == scenario = "live" => RunningShown
=============================================================================
