------------------------------- MODULE MCPlank -------------------------------
(* Instances for TLC of plank's smaller services, which do not share state: *)
(* each behaviour is one of the service that `focus` names, chosen at the  *)
(* start.  Unity runs with two programs and two pinned items, or with one   *)
(* program and an item that is not pinned.                                 *)
EXTENDS Unity, TLC

CONSTANTS s1, s2, u1, u2, count, progress,
          Objects, Keys, Writable, Foreign, MaxEvents    \* of Preferences

ASSUME PreferencesAssumption == Writable \subseteq Objects

VARIABLES
  focus,
  prop, file, events, is_delayed, is_changed, told    \* Preferences

prefs == <<prop, file, events, is_delayed, is_changed, told>>

\* A program turns on one property at a time, and both off together.
TurnsOn(uri, mark) == [uri |-> uri, on |-> {mark}, off |-> {}]
TurnsOff(uri) == [uri |-> uri, on |-> {}, off |-> {count, progress}]
Both(uri) == {TurnsOn(uri, count), TurnsOn(uri, progress), TurnsOff(uri)}

MCSays == s1 :> Both(u1) @@ s2 :> {TurnsOn(u2, count)}
MCOneSays == s1 :> Both(u1) @@ s2 :> {}
MCPinned == <<u1, u2>>

Prefs == INSTANCE Preferences

Unpinned == INSTANCE Unity WITH
              Says <- MCOneSays, PinnedUris <- <<>>, AppsMove <- TRUE

MCInit ==
  /\ focus \in {"pinned badges", "unpinned badges", "preferences"}
  /\ IF focus = "pinned badges" THEN Init ELSE Unpinned!Init
  /\ Prefs!Init

MCNext ==
  \/ focus = "pinned badges" /\ Next /\ UNCHANGED <<focus, prefs>>
  \/ focus = "unpinned badges" /\ Unpinned!Next /\ UNCHANGED <<focus, prefs>>
  \/ focus = "preferences" /\ Prefs!Next /\ UNCHANGED <<focus, vars>>

MCSpec == MCInit /\ [][MCNext]_<<focus, vars, prefs>>

\* The fairness of FairSpec.
MCFairSpec ==
  /\ MCSpec
  /\ WF_vars(Dispatch) /\ WF_vars(Retry)
  /\ \A s \in Senders : WF_vars(ThrottleTimeout(s))

\* What the dock shows for a program on a pinned item is what it was told, but for
\* what the throttle lost; an item that is not pinned is there for an application,
\* a badge or a progress bar.
UnityUpdatesShown == TypeOK /\ (focus = "pinned badges" => UpdatesShown)
\* What is left on, and not lost in the throttle, is in the end shown on a pinned
\* item.
UnityEventuallyShown == focus = "pinned badges" => EventuallyShown
\* Preferences objects on one file agree once nothing is on the way, and about
\* whether there is a file: deleted() is emitted when it is gone and only then.
PrefsAgree == Prefs!Converged /\ Prefs!OwnerTold
\* A monitor event does not bring a deleted preferences file back.
PrefsNoResurrection == Prefs!NoResurrection
=============================================================================
