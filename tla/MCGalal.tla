------------------------------ MODULE MCGalal ------------------------------
(***************************************************************************)
(* galal in small instances: what the user does is about one of            *)
(*   column   workspaces above each other, three windows                   *)
(*   row      workspaces in one row as the code lays them out, two windows,*)
(*            dynamic workspaces switched off and on                       *)
(*   spread   the same, with maximized windows moved to other workspaces   *)
(*   effects  one window's effects and the switching of workspaces         *)
(*   shield   the screen saver, locking and sleeping                       *)
(***************************************************************************)
EXTENDS WorkspaceManager

CONSTANTS w1, w2, w3, Focus,
          Shown,         \* the windows whose effects are followed
          MaxSignals

VARIABLES focus, kind, sticky, life, minimized, in, hooks, running, look, goal, owed,
          ghosts, collected, switching, enable_animations,
          connected_to_buses, shield, lock_enabled, lock_on_suspend, lock_prohibited,
          session_active, sleep, signals, promised

effects == <<kind, sticky, life, minimized, in, hooks, running, look, goal, owed, ghosts,
             collected, switching, enable_animations>>
shields == <<connected_to_buses, shield, lock_enabled, lock_on_suspend, lock_prohibited,
             session_active, sleep, signals, promised>>

MCWindows == {w1, w2, w3}
MCResizable == {w1, w2}

Row == INSTANCE WorkspaceManager WITH
  Windows <- MCResizable, Counted <- MCResizable, Ids <- 1..4,
  Column <- FALSE, Toggles <- TRUE, MoveMaximized <- FALSE
Spread == INSTANCE WorkspaceManager WITH
  Windows <- MCResizable, Counted <- MCResizable, Ids <- 1..4,
  Column <- FALSE, Toggles <- FALSE, MoveMaximized <- TRUE

Effects == INSTANCE WindowEffects WITH Windows <- Shown
Shield == INSTANCE ScreenShield

Idle == /\ connected_to_buses = FALSE /\ ~lock_enabled /\ ~lock_on_suspend /\ ~lock_prohibited

MCInit ==
  /\ focus \in Focus
  /\ Effects!Init /\ (focus # "effects" => sticky = {} /\ \A w \in Shown : kind[w] = "normal")
  /\ IF focus \in {"row", "spread"} THEN Row!Init ELSE Init
  /\ Shield!Init /\ (focus # "shield" => Idle)
  /\ focus \in {"effects", "shield"} => Len(s.list) = 1 /\ \A w \in Windows : s.at[w] = Closed

MCNext ==
  /\ \/ focus = "column" /\ Next /\ UNCHANGED <<effects, shields>>
     \/ focus = "row" /\ Row!Next /\ UNCHANGED <<effects, shields>>
     \/ focus = "spread" /\ Spread!Next /\ UNCHANGED <<effects, shields>>
     \/ focus = "effects" /\ Effects!Next /\ UNCHANGED <<vars, shields>>
     \/ focus = "shield" /\ Shield!Next /\ UNCHANGED <<vars, effects>>
  /\ UNCHANGED focus

MCSpec == MCInit /\ [][MCNext]_<<focus, vars, effects, shields>> /\ Effects!Fairness

EffectsTracked == Effects!EffectsTracked
ShapeRestored == Effects!ShapeRestored
EffectsComplete == Effects!EffectsComplete
ShieldUp == Shield!ShieldUp
LockedBeforeSleep == Shield!LockedBeforeSleep
=============================================================================
