--------------------------- MODULE MCHideManager ---------------------------
(***************************************************************************)
(* Instances of HideManager for TLC and for the proofs.  A behaviour is of *)
(* one scenario:                                                           *)
(*   timers   one window; menus and drags, and delays that may be zero     *)
(*   screen   two windows of two applications in the dodging modes         *)
(*   barrier  the pointer pushes against the barrier of a hidden dock;     *)
(*            only here does it matter whether pressure is to reveal it      *)
(*   sole     an external drag on a dock that hides automatically          *)
(***************************************************************************)
EXTENDS Integers, TLC

CONSTANTS
  w1, w2, Scenarios,
  Windows, NoWindow, Pid, Dialogs, HideTypes, Delays, Inhibitors,    \* HideManager
  BarriersSupported, PressureThreshold, MaxHit

VARIABLES
  scenario,
  Hidden, HidingDisabled, DockHovered, hide_timer, unhide_timer,     \* HideManager
  prefs_changed_timer, geometry_timer, window_changed_timer, pointer_update,
  intersect, barrier, pressure, pressure_timer, HideMode, HideDelay, UnhideDelay,
  PressureReveal, inside, pushing, inhibitors, active, overlap, maximized, untracked,
  cut

Hide == INSTANCE HideManager WITH Disabled <- HidingDisabled, Hovered <- DockHovered

ASSUME HideAssumption ==
  /\ NoWindow \notin Windows
  /\ Dialogs \subseteq Windows
  /\ HideTypes \subseteq Hide!AllHideTypes /\ HideTypes # {}
  /\ Delays \subseteq Nat /\ Delays # {}
  /\ Inhibitors \subseteq {"menu", "internal_drag", "external_drag"}
  /\ BarriersSupported \in BOOLEAN
  /\ PressureThreshold \in Nat \ {0}
  /\ MaxHit \in Nat

MCPid == w1 :> 1 @@ w2 :> 2

Timers == INSTANCE HideManager WITH
  Disabled <- HidingDisabled, Hovered <- DockHovered,
  Windows <- {w1}, HideTypes <- {"NONE", "INTELLIGENT"}, BarriersSupported <- FALSE

Screen == INSTANCE HideManager WITH
  Disabled <- HidingDisabled, Hovered <- DockHovered,
  HideTypes <- {"NONE", "DODGE_MAXIMIZED", "WINDOW_DODGE"},
  Delays <- {0}, Inhibitors <- {}, BarriersSupported <- FALSE

Barrier == INSTANCE HideManager WITH
  Disabled <- HidingDisabled, Hovered <- DockHovered,
  Windows <- {w1}, HideTypes <- {"NONE", "AUTO"}, Delays <- {0},
  Inhibitors <- {}

Sole == INSTANCE HideManager WITH
  Disabled <- HidingDisabled, Hovered <- DockHovered,
  Windows <- {w1}, HideTypes <- {"AUTO"}, Delays <- {1},
  Inhibitors <- {"external_drag"}, BarriersSupported <- FALSE

MCInit ==
  /\ scenario \in Scenarios
  /\ CASE scenario = "timers" -> Timers!Init
       [] scenario = "screen" -> Screen!Init
       [] scenario = "barrier" -> Barrier!Init
       [] scenario = "sole"   -> Sole!Init
  /\ PressureReveal => scenario = "barrier"

MCNext ==
  \/ scenario = "timers" /\ Timers!Next /\ UNCHANGED <<scenario, PressureReveal>>
  \/ scenario = "screen" /\ Screen!Next /\ UNCHANGED <<scenario, PressureReveal>>
  \/ scenario = "barrier" /\ Barrier!Next /\ UNCHANGED scenario
  \/ scenario = "sole" /\ Sole!Next /\ UNCHANGED <<scenario, PressureReveal>>

MCSpec == MCInit /\ [][MCNext]_<<Hide!vars, scenario>>

\* The fairness of HideManager's FairSpec.
MCFairSpec == MCSpec /\ Hide!Fairness

\* The manager's switches are switches, and the pressure is below the threshold.
HidingTypeOK == Hide!TypeOK
\* The dock is, or comes to be, where its mode wants it, and no timeout disagrees.
Settled == Hide!Settled
\* With no re-evaluation due the flags are those of the screen.
FlagsCurrent == Hide!FlagsCurrent
\* The barrier is where it may be, and only a renewal of it under a push leaves
\* pressure that is not about to be discarded.
PressureDiscarded == Hide!PressureDiscarded
\* A wish of the mode that lasts is fulfilled.
EventuallySettles == Hide!EventuallySettles
\* "If hiding the dock is currently disabled" (HideManager.vala:84): while it is, the
\* dock does not go into hiding.
DisabledMeansNoHiding == Hide!DisabledMeansNoHiding
=============================================================================
