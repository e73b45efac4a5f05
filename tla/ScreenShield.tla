----------------------------- MODULE ScreenShield -----------------------------
(***************************************************************************)
(* galal/src/Widgets/ScreenShield.vala with ScreenSaverManager.vala: the   *)
(* black screen saver of the window manager, which locks the session.      *)
(*                                                                         *)
(* It is driven by the user (input on the shield, once it is shown), the   *)
(* session's presence, calls on the bus, logind's signals and the timeout  *)
(* that ends the fading in.  Before the machine sleeps, logind announces   *)
(* it and waits while a delay inhibitor is held; it refuses new inhibitors *)
(* by then.  The announcement reaches the handler some time later, but     *)
(* before logind has waited for as long as it ever does.                   *)
(***************************************************************************)
EXTENDS Naturals, Sequences

CONSTANTS MaxSignals   \* bound on logind's sleep signals under way

VARIABLES
  connected_to_buses,
  shield,           \* the fields of the class, see Shields
  lock_enabled, lock_on_suspend, lock_prohibited,   \* the settings
  session_active,   \* logind: the session is in front
  sleep,            \* external: "awake", "announced" or "asleep"
  signals,          \* prepare_for_sleep on the way: about_to_suspend
  promised          \* history: when sleep was announced the inhibitor was held by
                    \* the session in front, and neither the user nor the
                    \* settings have interfered since

settings == <<lock_enabled, lock_on_suspend, lock_prohibited>>
power == <<sleep, signals>>
vars == <<connected_to_buses, shield, settings, session_active, power, promised>>

-----------------------------------------------------------------------------
(* What a handler makes of the shield                                      *)

\* Mutant: the old inhibitor is closed before the new one is there.
sync_inhibitor_ClosesFirst(t) ==
  [t EXCEPT !.inhibitor = /\ session_active /\ ~t.active
                          /\ lock_on_suspend /\ ~lock_prohibited
                          /\ sleep = "awake"]

\* A new inhibitor replaces the old one; if it is refused the old one stays.
sync_inhibitor(t) ==
  [t EXCEPT !.inhibitor = /\ session_active /\ ~t.active
                          /\ lock_on_suspend /\ ~lock_prohibited
                          /\ t.inhibitor \/ sleep = "awake"]

_set_active(t, new) == sync_inhibitor([t EXCEPT !.active = new])

\* lock, when the shield is up.
Locked(t) == IF lock_prohibited THEN t ELSE [t EXCEPT !.is_locked = TRUE]

\* The shield is black: by then the screen saver is active.
Covered(t) == LET u == _set_active(t, TRUE) IN IF lock_enabled THEN Locked(u) ELSE u

activate(t, animate) ==
  LET u == [t EXCEPT !.visible = TRUE, !.modal = TRUE, !.activation_time = TRUE]
  IN IF t.visible THEN t
     ELSE IF animate THEN [u EXCEPT !.animating = TRUE]
     ELSE Covered(u)

lock(t, animate) == IF t.is_locked \/ lock_prohibited THEN t ELSE activate(Locked(t), animate)

\* Mutant: the timeout of the fading in survives.
deactivate_KeepsTimer(t) ==
  _set_active([t EXCEPT !.is_locked = FALSE, !.modal = FALSE, !.visible = FALSE,
                        !.activation_time = FALSE], FALSE)

deactivate(t) ==
  _set_active([t EXCEPT !.animating = FALSE, !.is_locked = FALSE, !.modal = FALSE,
                        !.visible = FALSE, !.activation_time = FALSE], FALSE)

-----------------------------------------------------------------------------
(* The constructor calls sync_inhibitor and on_status_changed before it    *)
(* has set connected_to_buses, so that neither does anything.              *)
Init ==
  /\ connected_to_buses \in BOOLEAN
  /\ shield = [visible |-> FALSE, modal |-> FALSE, animating |-> FALSE, active |-> FALSE,
               is_locked |-> FALSE, in_greeter |-> FALSE, activation_time |-> FALSE,
               inhibitor |-> FALSE]
  /\ lock_enabled \in BOOLEAN /\ lock_on_suspend \in BOOLEAN /\ lock_prohibited \in BOOLEAN
  /\ session_active = TRUE
  /\ sleep = "awake" /\ signals = <<>>
  /\ promised = FALSE

-----------------------------------------------------------------------------
(* Handlers; none runs while the machine sleeps.                           *)

Handles == connected_to_buses /\ sleep # "asleep"

\* session_presence has become idle, or set_active (true) is called.
Activate ==
  /\ Handles
  /\ shield' = activate(shield, TRUE)
  /\ UNCHANGED <<connected_to_buses, settings, session_active, power, promised>>

\* lock is called, or logind signals it.
Lock(animate) ==
  /\ Handles
  /\ shield' = lock(shield, animate)
  /\ UNCHANGED <<connected_to_buses, settings, session_active, power, promised>>

\* set_active (false) is called, or logind signals unlock.
Deactivate(unlock) ==
  /\ Handles
  /\ shield' = [deactivate(shield) EXCEPT !.in_greeter = @ /\ ~unlock]
  /\ promised' = FALSE
  /\ UNCHANGED <<connected_to_buses, settings, session_active, power>>

\* on_user_became_active: the greeter is called for, which brings another
\* session to the front unless the call fails.
BecomesActive ==
  \/ /\ shield.is_locked /\ ~shield.in_greeter
     /\ shield' = [shield EXCEPT !.animating = FALSE, !.in_greeter = TRUE]
     /\ session_active' \in {session_active, FALSE}
     /\ UNCHANGED promised
  \/ /\ shield.is_locked /\ shield.in_greeter
     /\ UNCHANGED <<shield, session_active, promised>>
  \/ /\ ~shield.is_locked
     /\ shield' = deactivate(shield)
     /\ promised' = FALSE
     /\ UNCHANGED session_active

\* A key or the pointer.
Input ==
  /\ Handles /\ shield.visible /\ session_active
  /\ BecomesActive
  /\ UNCHANGED <<connected_to_buses, settings, power>>

\* The timeout of animate_and_lock.
AnimationTimeout ==
  /\ Handles /\ shield.animating
  /\ shield' = Covered([shield EXCEPT !.animating = FALSE])
  /\ UNCHANGED <<connected_to_buses, settings, session_active, power, promised>>

prepare_for_sleep ==
  /\ Handles /\ signals # <<>>
  /\ signals' = Tail(signals)
  /\ \/ /\ Head(signals)
        /\ shield' = IF lock_on_suspend THEN lock(shield, FALSE) ELSE shield
        /\ UNCHANGED <<session_active, promised>>
     \/ ~Head(signals) /\ BecomesActive
  /\ UNCHANGED <<connected_to_buses, settings, sleep>>

\* login_session.notify, for whatever property.
SessionNotify ==
  /\ Handles
  /\ shield' = sync_inhibitor(shield)
  /\ UNCHANGED <<connected_to_buses, settings, session_active, power, promised>>

-----------------------------------------------------------------------------
(* The user and logind (external)                                          *)

\* Nothing listens to the settings: they are read when they are needed.
ChangeSetting ==
  /\ sleep # "asleep"
  /\ \/ lock_enabled' = ~lock_enabled /\ UNCHANGED <<lock_on_suspend, lock_prohibited>>
     \/ lock_on_suspend' = ~lock_on_suspend /\ UNCHANGED <<lock_enabled, lock_prohibited>>
     \/ lock_prohibited' = ~lock_prohibited /\ UNCHANGED <<lock_enabled, lock_on_suspend>>
  /\ promised' = FALSE
  /\ UNCHANGED <<connected_to_buses, shield, session_active, power>>

\* Another session is brought to the front, or this one.
SwitchSession ==
  /\ sleep # "asleep"
  /\ session_active' = ~session_active
  /\ promised' = FALSE
  /\ UNCHANGED <<connected_to_buses, shield, settings, power>>

AnnounceSleep ==
  /\ sleep = "awake" /\ sleep' = "announced"
  /\ Len(signals) < MaxSignals /\ signals' = Append(signals, TRUE)
  /\ promised' = (shield.inhibitor /\ session_active)
  /\ UNCHANGED <<connected_to_buses, shield, settings, session_active>>

\* Nobody delays the sleep any more.
FallAsleep ==
  /\ sleep = "announced" /\ ~shield.inhibitor
  /\ sleep' = "asleep"
  /\ UNCHANGED <<connected_to_buses, shield, settings, session_active, signals, promised>>

Resume ==
  /\ sleep = "asleep" /\ sleep' = "awake"
  /\ signals' = Append(signals, FALSE)
  /\ UNCHANGED <<connected_to_buses, shield, settings, session_active, promised>>

Next ==
  \/ Activate
  \/ \E b \in BOOLEAN : Lock(b) \/ Deactivate(b)
  \/ Input
  \/ AnimationTimeout
  \/ prepare_for_sleep
  \/ SessionNotify
  \/ ChangeSetting
  \/ SwitchSession
  \/ AnnounceSleep
  \/ FallAsleep
  \/ Resume

Spec == Init /\ [][Next]_vars

-----------------------------------------------------------------------------
(* Properties                                                              *)

\* Type invariant.
Shields ==
  [visible : BOOLEAN, modal : BOOLEAN, animating : BOOLEAN, active : BOOLEAN,
   is_locked : BOOLEAN, in_greeter : BOOLEAN, activation_time : BOOLEAN, inhibitor : BOOLEAN]

TypeOK ==
  /\ shield \in Shields
  /\ {lock_enabled, lock_on_suspend, lock_prohibited, connected_to_buses} \subseteq BOOLEAN
  /\ session_active \in BOOLEAN /\ promised \in BOOLEAN
  /\ sleep \in {"awake", "announced", "asleep"}
  /\ signals \in Seq(BOOLEAN)

\* However idleness, calls, signals, input and the end of the fading in are
\* interleaved: a locked or active screen is covered and holds the input, it
\* is left with neither, and a shield that is up is black or about to be,
\* unless the greeter has been called for.
Consistent(t) ==
  /\ t.visible <=> t.modal
  /\ t.visible <=> t.activation_time
  /\ t.is_locked \/ t.active \/ t.animating => t.visible
  /\ t.visible => t.active \/ t.animating \/ (t.is_locked /\ t.in_greeter)
  /\ ~(t.active /\ t.animating)

ShieldUp == Consistent(shield)

\* "We briefly inhibit sleep so that we can try and lock before sleep occurs"
\* (line 230): when the inhibitor was held and the settings ask for it, the
\* machine falls asleep locked.  Where the screen saver does not lock, the end
\* of the fading in can release the inhibitor before the announcement is handled.
LockedBeforeSleep ==
  sleep = "asleep" /\ promised /\ lock_on_suspend /\ ~lock_prohibited /\ lock_enabled
  => shield.is_locked

\* The inhibitor is held whenever it should be.  It is not from the start, and
\* not after a change of the settings.
InhibitorHeld ==
  /\ connected_to_buses /\ sleep = "awake" /\ session_active /\ ~shield.active
  /\ lock_on_suspend /\ ~lock_prohibited
  => shield.inhibitor

\* "Screensaver active but not necessarily locked" (line 81): a locked screen
\* is active, or about to be.  It is not when the user moves the pointer
\* during the fading in of a lock.
LockedIsActive == shield.is_locked => shield.active \/ shield.animating

\* A user in front of a locked session can get to the greeter.  After the
\* call has failed, or the session was brought back without being unlocked,
\* input does nothing any more.
GreeterInReach == shield.is_locked /\ session_active => ~shield.in_greeter
=============================================================================
