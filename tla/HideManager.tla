----------------------------- MODULE HideManager -----------------------------
(***************************************************************************)
(* plank/lib/HideManager.vala: when the dock hides and when it shows.      *)
(*                                                                         *)
(* The manager is driven by the GTK main loop: every handler below runs to *)
(* completion, and the interleaving is that of the events and of the GLib  *)
(* timeouts, which are modelled as firing in any order (the delays are     *)
(* configurable, so no order between two pending timeouts can be relied    *)
(* on).  A "..._timer" variable is TRUE when the source id is non-zero.    *)
(*                                                                         *)
(* The environment is the pointer, the menu and the drags that inhibit     *)
(* hiding (DockWindow, DragManager), the preferences, and the windows that *)
(* libwnck reports.  A window counts as overlapping when it is on the      *)
(* active workspace, not minimized, of an ordinary type, not plank's own,  *)
(* and its geometry intersects the static dock region.                     *)
(***************************************************************************)
EXTENDS Integers, FiniteSets

CONSTANTS
  Windows,            \* windows of the screen
  NoWindow,           \* "no active window"
  Pid,                \* the process that owns each window
  Dialogs,            \* the windows of type DIALOG
  HideTypes,          \* the hide modes the user switches between
  Delays,             \* values of the HideDelay and UnhideDelay preferences
  Inhibitors,         \* subset of {"menu", "internal_drag", "external_drag"}
  BarriersSupported,  \* XInput 2.3 is there (initialize_barriers_support)
  PressureThreshold,  \* PRESSURE_THRESHOLD, in units of one barrier hit
  MaxHit              \* the cap on what one barrier hit adds

AllHideTypes == {"NONE", "INTELLIGENT", "AUTO", "DODGE_MAXIMIZED",
                 "WINDOW_DODGE", "DODGE_ACTIVE"}

\* window_intersect, active_application_intersect, active_window_intersect,
\* active_maximized_window_intersect and dialog_windows_intersect
Flags == {"window", "application", "active", "maximized", "dialog"}

VARIABLES
  Hidden, Disabled, Hovered,
  hide_timer, unhide_timer,
  prefs_changed_timer, geometry_timer, window_changed_timer,
  pointer_update,
  intersect,          \* the ..._intersect flags that are raised
  barrier, pressure, pressure_timer,
  HideMode, HideDelay, UnhideDelay, PressureReveal,   \* DockPreferences
  inside,             \* the pointer is inside the cursor region
  pushing,            \* the pointer is held back by the barrier
  inhibitors,         \* what currently inhibits hiding
  active,             \* wnck: the active window
  overlap,            \* wnck: the windows that overlap the dock
  maximized,          \* wnck: the (half) maximized windows
  untracked,          \* history: an overlap changed without any signal the
                      \* manager listens to, since the last re-evaluation
  cut                 \* history: the barrier was renewed under a push, whose
                      \* pressure nothing has been due to discard since

hiding  == <<Hidden, hide_timer, unhide_timer, pointer_update>>
updates == <<prefs_changed_timer, geometry_timer, window_changed_timer>>
pushes  == <<barrier, pressure, pressure_timer, pushing, cut>>
prefs   == <<HideMode, HideDelay, UnhideDelay, PressureReveal>>
screen  == <<active, overlap, maximized, untracked>>
pointer == <<inside, inhibitors>>
vars == <<hiding, updates, pushes, prefs, screen, pointer,
          Disabled, Hovered, intersect>>

-----------------------------------------------------------------------------
(* Deciding and switching                                                  *)

\* What the switch of update_hidden asks for.
ShouldHide(mode, hovered, seen) ==
  /\ ~hovered
  /\ CASE mode = "INTELLIGENT"     -> "application" \in seen
       [] mode = "AUTO"            -> TRUE
       [] mode = "DODGE_MAXIMIZED" -> "maximized" \in seen \/ "dialog" \in seen
       [] mode = "WINDOW_DODGE"    -> "window" \in seen
       [] mode = "DODGE_ACTIVE"    -> "active" \in seen
       [] OTHER                    -> FALSE

hide ==
  /\ unhide_timer' = FALSE
  /\ \/ Hidden /\ UNCHANGED <<Hidden, hide_timer>>
     \/ ~Hidden /\ HideDelay = 0 /\ Hidden' = TRUE /\ UNCHANGED hide_timer
     \/ ~Hidden /\ HideDelay # 0 /\ hide_timer' = TRUE /\ UNCHANGED Hidden

\* Mutant: a pending hide timeout is not removed.
show_KeepsHideTimer(immediate) ==
  /\ UNCHANGED hide_timer
  /\ \/ ~Hidden /\ UNCHANGED <<Hidden, unhide_timer>>
     \/ Hidden /\ Hidden' = FALSE /\ UNCHANGED unhide_timer

show(immediate) ==
  /\ hide_timer' = FALSE
  /\ \/ ~Hidden /\ UNCHANGED <<Hidden, unhide_timer>>
     \/ /\ Hidden /\ (immediate \/ UnhideDelay = 0)
        /\ Hidden' = FALSE /\ UNCHANGED unhide_timer
     \/ /\ Hidden /\ ~immediate /\ UnhideDelay # 0
        /\ unhide_timer' = TRUE /\ UNCHANGED Hidden

\* update_hidden for new values of Disabled, Hovered and the flags; pu is
\* the value of pointer_update the call starts with.
update_hidden(disabled, hovered, seen, pu) ==
  \/ /\ disabled
     /\ Hidden' = FALSE
     /\ pointer_update' = pu
     /\ UNCHANGED <<hide_timer, unhide_timer>>
  \/ /\ ~disabled
     /\ pointer_update' = TRUE
     /\ IF ShouldHide(HideMode, hovered, seen) THEN hide ELSE show(~pu)

\* Mutant: only a change of Hovered is acted upon.
update_hovered_IgnoresDisabled(hovered, inhib) ==
  /\ Hovered' = hovered
  /\ Disabled' = (inhib # {})
  /\ IF hovered # Hovered
     THEN update_hidden(Disabled', hovered, intersect, pointer_update)
     ELSE UNCHANGED hiding

update_hovered_with_coords(hovered, inhib) ==
  LET disabled == inhib # {} IN
  /\ Hovered' = hovered
  /\ Disabled' = disabled
  /\ IF hovered # Hovered \/ disabled # Disabled
     THEN update_hidden(disabled, hovered, intersect, pointer_update)
     ELSE UNCHANGED hiding

\* The flags update_window_intersect raises for the screen as it is.
Seen ==
  LET sameApp == {w \in overlap : active # NoWindow /\ Pid[w] = Pid[active]}
      raised  == [window      |-> active # NoWindow /\ overlap # {},
                  application |-> sameApp # {},
                  active      |-> active \in sameApp,
                  maximized   |-> active \in sameApp \cap maximized,
                  dialog      |-> sameApp \cap Dialogs # {}]
  IN {f \in Flags : raised[f]}

update_window_intersect ==
  /\ intersect' = Seen
  /\ untracked' = FALSE
  /\ update_hidden(Disabled, Hovered, Seen, FALSE)

\* Mutant: the barrier is renewed whatever the hide mode.
update_barrier_AnyMode(reveal) ==
  /\ barrier' = (BarriersSupported /\ reveal)
  /\ pushing' = FALSE
  /\ cut' = (cut \/ pushing)

\* The old barrier is destroyed and lets the pointer go; its LEAVE names a
\* barrier the filter no longer knows, so that no timeout is started.  The
\* pressure and a timeout that is pending stay as they are.  (Without support
\* for barriers there is no push to cut.)
update_barrier(reveal) ==
  /\ barrier' = (BarriersSupported /\ reveal /\ HideMode # "NONE")
  /\ pushing' = FALSE
  /\ cut' = (cut \/ pushing)

-----------------------------------------------------------------------------
Init ==
  /\ Hidden = TRUE /\ Disabled = FALSE /\ Hovered = FALSE
  /\ hide_timer = FALSE /\ unhide_timer = FALSE
  /\ prefs_changed_timer = FALSE /\ geometry_timer = FALSE
  /\ window_changed_timer = TRUE        \* initialize -> setup_active_window
  /\ pointer_update = TRUE
  /\ intersect = {}
  /\ barrier = FALSE /\ pressure = 0 /\ pressure_timer = FALSE
  /\ HideMode \in HideTypes
  /\ HideDelay \in Delays /\ UnhideDelay \in Delays
  /\ PressureReveal \in BOOLEAN
  /\ inside = FALSE /\ pushing = FALSE /\ inhibitors = {}
  /\ active \in Windows \cup {NoWindow}
  /\ overlap \in SUBSET Windows
  /\ maximized = {}
  /\ untracked = FALSE /\ cut = FALSE

-----------------------------------------------------------------------------
(* Pointer, menu and drags                                                 *)

\* handle_enter_notify_event; pressing is device_supports_pressure.
PointerEnter(pressing) ==
  /\ ~inside /\ inside' = TRUE
  /\ IF \/ Hidden /\ BarriersSupported /\ PressureReveal /\ pressing
        \/ Hovered
     THEN UNCHANGED <<Hovered, Disabled, hiding>>
     ELSE update_hovered_with_coords(TRUE, inhibitors)
  /\ UNCHANGED <<updates, pushes, prefs, screen, inhibitors, intersect>>

\* handle_leave_notify_event
PointerLeave ==
  /\ inside /\ inside' = FALSE
  /\ IF Hovered THEN update_hovered_with_coords(FALSE, inhibitors)
                ELSE UNCHANGED <<Hovered, Disabled, hiding>>
  /\ UNCHANGED <<updates, pushes, prefs, screen, inhibitors, intersect>>

\* A menu pops up or an internal drag begins: both need a visible dock under
\* the pointer, and neither calls the manager.
InhibitorStarts(i) ==
  /\ i \in Inhibitors \ inhibitors /\ i # "external_drag"
  /\ inside /\ ~Hidden
  /\ inhibitors' = inhibitors \cup {i}
  /\ UNCHANGED <<hiding, updates, pushes, prefs, screen, inside,
                 Disabled, Hovered, intersect>>

\* DragManager.drag_motion: the pointer position of the drag is reported, and
\* an external drag is noticed on its first motion over the dock.
DragMotion ==
  LET inhib == IF inhibitors \cap {"internal_drag"} # {} THEN inhibitors
               ELSE inhibitors \cup (Inhibitors \cap {"external_drag"})
  IN /\ inhib \cap {"internal_drag", "external_drag"} # {}
     /\ inhibitors' = inhib
     /\ inside' = TRUE
     /\ update_hovered_with_coords(TRUE, inhib)
     /\ UNCHANGED <<updates, pushes, prefs, screen, intersect>>

\* DragManager.drag_leave: the position is re-read, the drag is still active.
DragLeave ==
  /\ inhibitors \cap {"internal_drag", "external_drag"} # {}
  /\ inside' = FALSE
  /\ update_hovered_with_coords(FALSE, inhibitors)
  /\ UNCHANGED <<updates, pushes, prefs, screen, inhibitors, intersect>>

\* on_menu_hide, drag_end and the idle of drag_leave: the inhibitor is gone
\* and the caller makes the manager look at the pointer again.
InhibitorEnds(i) ==
  /\ i \in inhibitors
  /\ inhibitors' = inhibitors \ {i}
  /\ update_hovered_with_coords(inside, inhibitors \ {i})
  /\ UNCHANGED <<updates, pushes, prefs, screen, inside, intersect>>

-----------------------------------------------------------------------------
(* Preferences                                                             *)

SetHideMode(m) ==
  /\ HideMode # m /\ HideMode' = m
  /\ prefs_changed_timer' = TRUE
  /\ UNCHANGED <<hiding, geometry_timer, window_changed_timer, pushes,
                 HideDelay, UnhideDelay, PressureReveal, screen, pointer,
                 Disabled, Hovered, intersect>>

\* The delays are read when a timer is started; changing one does nothing.
SetDelays(h, u) ==
  /\ <<h, u>> # <<HideDelay, UnhideDelay>>
  /\ HideDelay' = h /\ UnhideDelay' = u
  /\ UNCHANGED <<hiding, updates, pushes, HideMode, PressureReveal, screen,
                 pointer, Disabled, Hovered, intersect>>

SetPressureReveal(r) ==
  /\ PressureReveal # r /\ PressureReveal' = r
  /\ update_barrier(r)
  /\ UNCHANGED <<hiding, updates, pressure, pressure_timer, HideMode,
                 HideDelay, UnhideDelay, screen, pointer, Disabled, Hovered,
                 intersect>>

-----------------------------------------------------------------------------
(* Timeouts                                                                *)

\* Mutant: the check before the switch is inverted.
HideTimeout_Inverted ==
  /\ hide_timer /\ hide_timer' = FALSE
  /\ UNCHANGED <<Hidden, unhide_timer, pointer_update, updates, pushes, prefs,
                 screen, pointer, Disabled, Hovered, intersect>>

HideTimeout ==
  /\ hide_timer /\ hide_timer' = FALSE
  /\ Hidden' = TRUE
  /\ UNCHANGED <<unhide_timer, pointer_update, updates, pushes, prefs,
                 screen, pointer, Disabled, Hovered, intersect>>

UnhideTimeout ==
  /\ unhide_timer /\ unhide_timer' = FALSE
  /\ Hidden' = FALSE
  /\ UNCHANGED <<hide_timer, pointer_update, updates, pushes, prefs,
                 screen, pointer, Disabled, Hovered, intersect>>

PrefsTimeout ==
  /\ prefs_changed_timer /\ prefs_changed_timer' = FALSE
  /\ update_window_intersect
  /\ update_barrier(PressureReveal)
  /\ UNCHANGED <<geometry_timer, window_changed_timer, pressure,
                 pressure_timer, prefs, active, overlap, maximized, pointer,
                 Disabled, Hovered>>

GeometryTimeout ==
  /\ geometry_timer /\ geometry_timer' = FALSE
  /\ update_window_intersect
  /\ UNCHANGED <<prefs_changed_timer, window_changed_timer, pushes, prefs,
                 active, overlap, maximized, pointer, Disabled, Hovered>>

WindowChangedTimeout ==
  /\ window_changed_timer /\ window_changed_timer' = FALSE
  /\ update_window_intersect
  /\ UNCHANGED <<prefs_changed_timer, geometry_timer, pushes, prefs,
                 active, overlap, maximized, pointer, Disabled, Hovered>>

-----------------------------------------------------------------------------
(* Windows                                                                 *)

schedule_update == window_changed_timer' = TRUE

offScreen == <<hiding, prefs_changed_timer, pushes, prefs, pointer,
               Disabled, Hovered, intersect>>

\* window_opened, window_closed and active_workspace_changed, which may bring
\* another active window with them (handle_active_window_changed).
ScreenChanged(o, a) ==
  /\ <<o, a>> # <<overlap, active>>
  /\ overlap' = o /\ active' = a
  /\ schedule_update
  /\ UNCHANGED <<offScreen, geometry_timer, maximized, untracked>>

\* handle_geometry_changed: the active window moved, resized or (un)maximized.
ActiveMoved(o, m) ==
  /\ active # NoWindow
  /\ o \in {overlap \ {active}, overlap \cup {active}}
  /\ m \in {maximized \ {active}, maximized \cup {active}}
  /\ overlap' = o /\ maximized' = m
  /\ geometry_timer' = TRUE
  /\ UNCHANGED <<offScreen, window_changed_timer, active, untracked>>

\* Mutant: a minimized window schedules nothing.
ActiveMinimized_Unscheduled ==
  /\ active \in overlap
  /\ overlap' = overlap \ {active}
  /\ UNCHANGED <<offScreen, geometry_timer, window_changed_timer, active,
                 maximized, untracked>>

\* handle_state_changed with MINIMIZED in the mask
ActiveMinimized ==
  /\ active \in overlap
  /\ overlap' = overlap \ {active}
  /\ schedule_update
  /\ UNCHANGED <<offScreen, geometry_timer, active, maximized, untracked>>

\* A window other than the active one moves: only the active window's
\* geometry and state signals are connected (setup_active_window).
InactiveMoved(w) ==
  /\ w # active
  /\ \/ overlap' = overlap \ {w}
     \/ overlap' = overlap \cup {w}
  /\ overlap' # overlap
  /\ untracked' = TRUE
  /\ UNCHANGED <<offScreen, geometry_timer, window_changed_timer,
                 active, maximized>>

\* PositionManager.update_regions: the dock itself changed its region, which
\* renews the barrier; only if the user moved the dock to another edge (the
\* Position preference) are the windows re-evaluated.
DockRegionChanged(o, moved) ==
  /\ overlap' = o
  /\ untracked' = (untracked \/ o # overlap)
  /\ prefs_changed_timer' = (prefs_changed_timer \/ moved)
  /\ update_barrier(PressureReveal)
  /\ UNCHANGED <<hiding, geometry_timer, window_changed_timer, pressure,
                 pressure_timer, prefs, active, maximized, pointer,
                 Disabled, Hovered, intersect>>

-----------------------------------------------------------------------------
(* The pointer barrier                                                     *)

\* Mutant: the pressure is not reset when the dock is revealed.
BarrierHit_NoReset(d) ==
  /\ barrier /\ pressure < PressureThreshold
  /\ pushing' = TRUE
  /\ pressure' = pressure + d
  /\ Hovered' = (Hovered \/ pressure' >= PressureThreshold)
  /\ UNCHANGED <<hiding, pressure_timer, cut, updates, barrier, prefs, screen,
                 pointer, Disabled, intersect>>

\* BARRIER_HIT; d is what the hit adds (0 when it slides along the edge).
BarrierHit(d) ==
  /\ barrier
  /\ pushing' = TRUE
  /\ IF pressure + d >= PressureThreshold
     THEN /\ pressure' = 0 /\ pressure_timer' = FALSE /\ cut' = FALSE
          /\ Hovered' = TRUE
          /\ IF Hovered THEN UNCHANGED hiding
             ELSE update_hidden(Disabled, TRUE, intersect, pointer_update)
     ELSE /\ pressure' = pressure + d
          /\ UNCHANGED <<pressure_timer, cut, Hovered, hiding>>
  /\ UNCHANGED <<updates, barrier, prefs, screen, pointer, Disabled,
                 intersect>>

\* Mutant: leaving the barrier does not start the pressure timeout.
BarrierLeave_NoTimer ==
  /\ barrier /\ pushing
  /\ pushing' = FALSE
  /\ UNCHANGED <<hiding, updates, barrier, pressure, pressure_timer, cut, prefs,
                 screen, pointer, Disabled, Hovered, intersect>>

\* BARRIER_LEAVE
BarrierLeave ==
  /\ barrier /\ pushing
  /\ pushing' = FALSE
  /\ pressure_timer' = TRUE
  /\ cut' = FALSE
  /\ UNCHANGED <<hiding, updates, barrier, pressure, prefs, screen, pointer,
                 Disabled, Hovered, intersect>>

PressureTimeout ==
  /\ pressure_timer /\ pressure_timer' = FALSE
  /\ pressure' = 0
  /\ cut' = FALSE
  /\ UNCHANGED <<hiding, updates, barrier, pushing, prefs, screen, pointer,
                 Disabled, Hovered, intersect>>

-----------------------------------------------------------------------------
Timeout ==
  \/ HideTimeout \/ UnhideTimeout \/ PrefsTimeout
  \/ GeometryTimeout \/ WindowChangedTimeout \/ PressureTimeout

Next ==
  \/ \E b \in BOOLEAN : PointerEnter(b)
  \/ PointerLeave
  \/ \E i \in Inhibitors : InhibitorStarts(i) \/ InhibitorEnds(i)
  \/ DragMotion
  \/ DragLeave
  \/ \E m \in HideTypes : SetHideMode(m)
  \/ \E h, u \in Delays : SetDelays(h, u)
  \/ \E r \in BOOLEAN : SetPressureReveal(r)
  \/ \E o \in SUBSET Windows, a \in Windows \cup {NoWindow} : ScreenChanged(o, a)
  \/ \E o, m \in SUBSET Windows : ActiveMoved(o, m)
  \/ ActiveMinimized
  \/ \E w \in Windows : InactiveMoved(w)
  \/ \E o \in SUBSET Windows, b \in BOOLEAN : DockRegionChanged(o, b)
  \/ \E d \in 0..MaxHit : BarrierHit(d)
  \/ BarrierLeave
  \/ Timeout

Spec == Init /\ [][Next]_vars

\* The main loop dispatches every timeout that stays pending.
Fairness ==
  /\ WF_vars(HideTimeout) /\ WF_vars(UnhideTimeout) /\ WF_vars(PrefsTimeout)
  /\ WF_vars(GeometryTimeout) /\ WF_vars(WindowChangedTimeout)
  /\ WF_vars(PressureTimeout)

FairSpec == Spec /\ Fairness

-----------------------------------------------------------------------------
(* Properties                                                              *)

\* Type invariant: the switches and the preferences, and the pressure, which
\* stays below the threshold.
SwitchTypes ==
  /\ Hidden \in BOOLEAN /\ Disabled \in BOOLEAN /\ Hovered \in BOOLEAN
  /\ hide_timer \in BOOLEAN /\ unhide_timer \in BOOLEAN
  /\ prefs_changed_timer \in BOOLEAN /\ geometry_timer \in BOOLEAN
  /\ window_changed_timer \in BOOLEAN
  /\ pointer_update \in BOOLEAN
  /\ intersect \subseteq Flags
  /\ barrier \in BOOLEAN /\ pressure_timer \in BOOLEAN
  /\ HideMode \in HideTypes
  /\ HideDelay \in Delays /\ UnhideDelay \in Delays
  /\ PressureReveal \in BOOLEAN
  /\ inside \in BOOLEAN /\ pushing \in BOOLEAN
  /\ inhibitors \subseteq Inhibitors
  /\ active \in Windows \cup {NoWindow}
  /\ overlap \subseteq Windows /\ maximized \subseteq Windows
  /\ untracked \in BOOLEAN /\ cut \in BOOLEAN

PressureType == pressure \in 0..(PressureThreshold - 1)

TypeOK == SwitchTypes /\ PressureType

WantsHide == ShouldHide(HideMode, Hovered, intersect)

\* The mode in force has been looked at: no change of HideMode is waiting for
\* its timeout, and neither is the very first evaluation.
ModeApplied == ~prefs_changed_timer /\ ~window_changed_timer

\* Whenever hiding is not disabled, the dock is where the mode wants it, or
\* the timeout that takes it there is pending: no interleaving of menus,
\* drags, hovering, barrier pushes and window changes leaves it stranded.
Settling ==
  ~Disabled /\ ModeApplied =>
    /\ WantsHide => Hidden \/ hide_timer
    /\ ~WantsHide => ~Hidden \/ unhide_timer

\* A pending timeout is never stale: outside the disabled periods it only
\* carries out what the mode still wants, so that a late hide cannot take the
\* dock away from under the pointer.
NoStaleTimeout ==
  ~Disabled /\ ModeApplied =>
    /\ hide_timer => WantsHide
    /\ unhide_timer => ~WantsHide

\* Both: the dock comes to where its mode wants it, and stays there.
Settled == Settling /\ NoStaleTimeout

\* Once all re-evaluation timeouts have run, the flags describe the screen,
\* unless an overlap changed without a signal the manager listens to.
FlagsCurrent ==
  ~window_changed_timer /\ ~geometry_timer /\ ~untracked => intersect = Seen

\* The barrier is there only while a hidden dock can be revealed by pressure; a
\* mode change takes it down with the preferences timeout.  When nobody pushes,
\* pressure that is left over has its timeout pending (a push that begins before
\* it fires is helped by it), unless the barrier was renewed under the push:
\* that LEAVE is not heard, and the pressure stays for a later push to find.
\* Nothing else, no order of hits, leaves and timeouts, leaves pressure behind.
PressureDiscarded ==
  /\ barrier /\ ~prefs_changed_timer => PressureReveal /\ HideMode # "NONE"
  /\ pressure > 0 /\ ~pushing => pressure_timer \/ cut

\* When from some moment on the mode wants the dock hidden (shown) and hiding
\* is not disabled, the dock ends up hidden (shown) for good.
EventuallySettles ==
  /\ <>[](WantsHide /\ ~Disabled) => <>[]Hidden
  /\ <>[](~WantsHide /\ ~Disabled) => <>[]~Hidden

\* "If hiding the dock is currently disabled" (HideManager.vala:84): while
\* Disabled stays set the dock does not go into hiding.
DisabledMeansNoHiding == [][Disabled /\ Disabled' /\ ~Hidden => ~Hidden']_vars

\* "The dock hides if there is any window overlapping it" (HideManager.vala:
\* 44): with nothing left to evaluate, an overlapping window keeps the dock
\* hidden in WINDOW_DODGE mode.
DodgesAnyWindow ==
  /\ HideMode = "WINDOW_DODGE" /\ overlap # {} /\ ~Hovered /\ ~Disabled
  /\ ModeApplied /\ ~geometry_timer /\ ~hide_timer
  => Hidden
=============================================================================
