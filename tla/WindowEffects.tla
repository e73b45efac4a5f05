--------------------------- MODULE WindowEffects ---------------------------
(***************************************************************************)
(* The window effects of galal's window manager (WindowManager.vala):      *)
(* mapping, minimizing, maximizing, destroying, and the switch between     *)
(* workspaces that takes the windows' actors into containers of its own.   *)
(*                                                                         *)
(* Mutter counts the effects it has started on an actor and is owed one    *)
(* X_completed for each; an actor that closes stays until all are paid.    *)
(* The manager pays from handlers of transitions_completed.  Two Clutter   *)
(* facts make that delicate: removing an actor's transitions, and taking   *)
(* the actor out of its parent, end the animation without that signal; and *)
(* a handler that was not run stays connected, for the next animation.     *)
(***************************************************************************)
EXTENDS Naturals, FiniteSets

CONSTANTS Windows

VARIABLES
  kind,       \* of each window: "normal", "popup" (dialogs and menus), "note",
              \* "other"
  sticky,     \* windows on all workspaces
  life,       \* of its actor: "unmapped", "live", "dying" (is_destroyed), "gone"
  minimized,
  in,         \* the sets mapping, minimizing ... the actor is in
  hooks,      \* the effects whose handler is connected to transitions_completed
  running,    \* the actor has transitions
  look, goal, \* what of it is not as it should be, now and when they have run
  owed,       \* what mutter waits for
  ghosts,     \* windows with a snapshot that still fades over them
  collected,  \* windows in the containers of the workspace switch
  switching, enable_animations

vars == <<kind, sticky, life, minimized, in, hooks, running, look, goal, owed, ghosts,
          collected, switching, enable_animations>>

\* What a step does to one actor is a function of the actor's record.
Actor(w) == [in |-> in[w], hooks |-> hooks[w], running |-> running[w], look |-> look[w],
             goal |-> goal[w], owed |-> owed[w], life |-> life[w]]
Become(A(_)) ==
  /\ in'      = [w \in Windows |-> A(w).in]
  /\ hooks'   = [w \in Windows |-> A(w).hooks]
  /\ running' = [w \in Windows |-> A(w).running]
  /\ look'    = [w \in Windows |-> A(w).look]
  /\ goal'    = [w \in Windows |-> A(w).goal]
  /\ owed'    = [w \in Windows |-> A(w).owed]
  /\ life'    = [w \in Windows |-> A(w).life]
Only(w, a) == Become(LAMBDA x : IF x = w THEN a ELSE Actor(x))

Simple == {"map", "minimize", "unminimize", "destroy"}   \* counted by mutter
Effects == Simple \cup {"maximize", "unmaximize"}

-----------------------------------------------------------------------------
(* Clutter and mutter                                                      *)

\* remove_all_transitions: what they moved stays where it is.
Stop(a) == [a EXCEPT !.running = FALSE, !.goal = a.look]

\* An animation of some properties that leads to the given look; while it runs
\* they are off.
Animate(a, props, final) ==
  [a EXCEPT !.running = TRUE, !.look = @ \cup props,
            !.goal = (@ \ props) \cup final]

\* effect_completed; an actor that closes goes with its last effect.
Complete(a, effects) ==
  LET left == a.owed \ effects
  IN [a EXCEPT !.owed = left,
               !.life = IF @ = "dying" /\ left = {} THEN "gone" ELSE @]

-----------------------------------------------------------------------------
(* kill_window_effects                                                     *)

\* Mutant: the end of an unminimize animation is not reported.
kill_window_effects_Unpaid(a) ==
  IF a.in = {} THEN a
  ELSE IF a.life # "live" THEN [a EXCEPT !.in = {}]
  ELSE LET b == [Stop(a) EXCEPT !.look = @ \cap {"place"}, !.goal = a.look \cap {"place"},
                                !.in = {}]
       IN Complete(b, a.in \ {"unminimize"})

\* Mutant: the animation is ended, the actor stays in its set.
kill_window_effects_Keeps(a) ==
  IF a.life # "live" \/ a.in = {} THEN a
  ELSE Complete([Stop(a) EXCEPT !.look = @ \cap {"place"}, !.goal = a.look \cap {"place"}], a.in)

\* end_animation of every set the actor is in; the translation is not reset.
\* A destroyed actor only leaves the sets.
kill_window_effects(a) ==
  IF a.in = {} THEN a
  ELSE IF a.life # "live" THEN [a EXCEPT !.in = {}]
  ELSE LET b == [Stop(a) EXCEPT !.look = @ \cap {"place"}, !.goal = a.look \cap {"place"},
                                !.in = {}]
       IN Complete(b, a.in)

\* The actor joins the effect's set, and its handler is connected.
Started(a, effect) == [a EXCEPT !.in = @ \cup {effect}, !.hooks = @ \cup {effect}]

\* The mutter side of an effect: minimize, unminimize and map kill first.
Owe(a, effect) == [a EXCEPT !.owed = @ \cup {effect}]

-----------------------------------------------------------------------------
(* Effects                                                                 *)

Shape == {"scale", "opacity"}

Map(w) ==
  LET a == [Owe(kill_window_effects(Actor(w)), "map") EXCEPT !.life = "live"]
  IN /\ life[w] = "unmapped"
     /\ Only(w, IF enable_animations /\ kind[w] \in {"normal", "popup"}
                THEN Animate(Started(Stop(a), "map"), Shape, {})
                ELSE Complete(a, {"map"}))
     /\ UNCHANGED <<kind, sticky, minimized, ghosts, collected, switching, enable_animations>>

minimize(w) ==
  LET a == Owe(kill_window_effects(Actor(w)), "minimize")
  IN /\ life[w] = "live" /\ ~minimized[w]
     /\ Only(w, IF enable_animations /\ kind[w] = "normal"
                THEN Animate(Started(kill_window_effects(a), "minimize"), Shape, Shape)
                ELSE Complete(a, {"minimize"}))
     /\ minimized' = [minimized EXCEPT ![w] = TRUE]
     /\ UNCHANGED <<kind, sticky, ghosts, collected, switching, enable_animations>>

unminimize(w) ==
  LET a == Owe(kill_window_effects(Actor(w)), "unminimize")
      b == IF enable_animations THEN Stop(a) ELSE a
  IN /\ life[w] = "live" /\ minimized[w]
     /\ Only(w, IF enable_animations /\ kind[w] = "normal"
                THEN Animate(Started(b, "unminimize"), Shape, {})
                ELSE Complete(b, {"unminimize"}))
     /\ minimized' = [minimized EXCEPT ![w] = FALSE]
     /\ UNCHANGED <<kind, sticky, ghosts, collected, switching, enable_animations>>

\* maximize and unmaximize, called by size_changed.  The snapshot may fail.
\* (The 80 ms for which maximize shows only the snapshot, with a timeout that makes
\* the window opaque again whatever has happened, are left out.)
Resize(w, effect, snapshot) ==
  LET a == kill_window_effects(Actor(w))
  IN /\ life[w] = "live" /\ ~minimized[w] /\ enable_animations
     /\ LET animates == kind[w] = "normal" /\ snapshot
        IN /\ Only(w, IF animates THEN Animate(Started(a, effect), {"scale", "place"}, {}) ELSE a)
           /\ ghosts' = IF animates /\ effect = "maximize" THEN ghosts \cup {w} ELSE ghosts
     /\ UNCHANGED <<kind, sticky, minimized, collected, switching, enable_animations>>

\* Mutant: nothing waits for the end of the animation.
destroy_Unhooked(w) ==
  LET a == [Owe(Actor(w), "destroy") EXCEPT !.life = "dying"]
  IN /\ life[w] = "live"
     /\ Only(w, IF enable_animations /\ kind[w] # "other"
                THEN Animate([Stop(a) EXCEPT !.in = @ \cup {"destroy"}], Shape, Shape)
                ELSE Complete(a, {"destroy"}))
     /\ UNCHANGED <<kind, sticky, minimized, ghosts, collected, switching, enable_animations>>

\* destroy: mutter does not kill what runs on the actor.
destroy(w) ==
  LET a == [Owe(Actor(w), "destroy") EXCEPT !.life = "dying"]
      b == IF enable_animations THEN Stop(a) ELSE a
  IN /\ life[w] = "live"
     /\ Only(w, IF enable_animations /\ kind[w] # "other"
                THEN Animate(Started(b, "destroy"), Shape, Shape)
                ELSE Complete(b, {"destroy"}))
     /\ UNCHANGED <<kind, sticky, minimized, ghosts, collected, switching, enable_animations>>

\* Mutant: a minimized actor keeps the shape of an icon.
Handlers_NoReset(a) == Complete([a EXCEPT !.in = @ \ a.hooks, !.hooks = {}], a.hooks)

\* What the handlers do, all those that are connected: the one of minimize also
\* resets the shape.  Every handler disconnects itself.
Handlers(a) ==
  Complete([a EXCEPT !.in = @ \ a.hooks, !.hooks = {},
                     !.look = IF "minimize" \in a.hooks THEN @ \ Shape ELSE @,
                     !.goal = IF "minimize" \in a.hooks THEN @ \ Shape ELSE @], a.hooks)

TransitionsCompleted(w) ==
  /\ running[w]
  /\ Only(w, Handlers([Actor(w) EXCEPT !.running = FALSE, !.look = goal[w]]))
  /\ UNCHANGED <<kind, sticky, minimized, ghosts, collected, switching, enable_animations>>

\* The snapshot of a maximized window has faded: the translation is reset.
SnapshotFaded(w) ==
  /\ w \in ghosts
  /\ ghosts' = ghosts \ {w}
  /\ Only(w, [Actor(w) EXCEPT !.look = @ \ {"place"}, !.goal = @ \ {"place"}])
  /\ UNCHANGED <<kind, sticky, minimized, collected, switching, enable_animations>>

-----------------------------------------------------------------------------
(* Switching workspaces                                                    *)

\* clutter_actor_reparent; the transitions of a notification are restored.
Reparent(w, a) == IF kind[w] = "note" THEN a ELSE Stop(a)

\* The windows that are visible on one of the two workspaces are moved to the
\* containers; those on all workspaces fade out.
Collect(w, a) ==
  LET b == Reparent(w, a)
  IN IF w \in sticky /\ kind[w] # "note" THEN Animate(b, {"opacity"}, {"opacity"}) ELSE b

\* end_switch_workspace.  A destroyed actor stays in its container and goes with
\* it.
Release(w, a) ==
  IF a.life = "dying" THEN [kill_window_effects(a) EXCEPT !.life = "gone", !.running = FALSE,
                                                          !.owed = {}, !.hooks = {}]
  ELSE LET b == [Reparent(w, a) EXCEPT !.look = @ \ {"place"}, !.goal = @ \ {"place"}]
           c == kill_window_effects(b)
       IN IF "opacity" \in c.look THEN Animate(c, {"opacity"}, {}) ELSE c

\* Mutter kills a switch that is under way before it starts another.
Released(w) == IF w \in collected /\ life[w] # "gone" THEN Release(w, Actor(w)) ELSE Actor(w)

switch_workspace(ws) ==
  /\ \A w \in ws : life[w] = "live" /\ ~minimized[w]
  /\ IF enable_animations
     THEN /\ Become(LAMBDA w : IF w \in ws THEN Collect(w, Released(w))
                               ELSE Released(w))
          /\ collected' = ws /\ switching' = TRUE
     ELSE /\ Become(Released) /\ collected' = {} /\ switching' = FALSE
  /\ UNCHANGED <<kind, sticky, minimized, ghosts, enable_animations>>

end_switch_workspace ==
  /\ switching
  /\ Become(Released)
  /\ collected' = {} /\ switching' = FALSE
  /\ UNCHANGED <<kind, sticky, minimized, ghosts, enable_animations>>

SetAnimations(b) ==
  /\ enable_animations # b /\ enable_animations' = b
  /\ UNCHANGED <<kind, sticky, life, minimized, in, hooks, running, look, goal, owed, ghosts,
                 collected, switching>>

-----------------------------------------------------------------------------
Init ==
  /\ kind \in [Windows -> {"normal", "popup", "note", "other"}]
  /\ sticky \in SUBSET Windows
  /\ life = [w \in Windows |-> "unmapped"]
  /\ minimized = [w \in Windows |-> FALSE] /\ running = [w \in Windows |-> FALSE]
  /\ in = [w \in Windows |-> {}] /\ hooks = in /\ look = in /\ goal = in /\ owed = in
  /\ ghosts = {} /\ collected = {} /\ switching = FALSE /\ enable_animations = TRUE

Next ==
  \/ \E w \in Windows :
       \/ Map(w) \/ minimize(w) \/ unminimize(w) \/ destroy(w)
       \/ TransitionsCompleted(w) \/ SnapshotFaded(w)
       \/ \E effect \in {"maximize", "unmaximize"}, b \in BOOLEAN : Resize(w, effect, b)
  \/ \E ws \in SUBSET Windows : switch_workspace(ws)
  \/ end_switch_workspace
  \/ \E b \in BOOLEAN : SetAnimations(b)

\* Clutter's frame clock runs every transition to its end.
Fairness ==
  /\ \A w \in Windows : WF_vars(TransitionsCompleted(w)) /\ WF_vars(SnapshotFaded(w))
  /\ WF_vars(end_switch_workspace)

Spec == Init /\ [][Next]_vars /\ Fairness

-----------------------------------------------------------------------------
(* Properties                                                              *)

TypeOK ==
  /\ life \in [Windows -> {"unmapped", "live", "dying", "gone"}]
  /\ {in, hooks} \subseteq [Windows -> SUBSET Effects]
  /\ owed \in [Windows -> SUBSET Simple]
  /\ {look, goal} \subseteq [Windows -> SUBSET (Shape \cup {"place"})]
  /\ collected \subseteq Windows /\ ghosts \subseteq Windows

\* Whatever cuts an animation short, mutter is not left waiting: an effect that
\* is owed is under way on the actor with its handler connected, or the actor
\* is in the containers of a switch, which ends it.  The sets name only such
\* actors: otherwise a later kill would end, and report, an effect that is over.
EffectsTracked ==
  \A w \in Windows :
    LET held == switching /\ w \in collected
    IN /\ \A effect \in owed[w] : (running[w] /\ effect \in hooks[w]) \/ held
       /\ in[w] # {} /\ life[w] # "gone" => running[w] \/ held

Settled(w) == life[w] = "live" /\ ~minimized[w] /\ ~running[w] /\ w \notin ghosts \cup collected

\* A window that nothing animates any more has its full size and is opaque.  (One
\* that is on all workspaces need not: the end of its fading out runs the handler
\* of an animation that the switch has cut short.)
ShapeRestored == \A w \in Windows \ sticky : Settled(w) => look[w] \cap Shape = {}

\* A window that closes is gone in the end, and every other effect is reported.
EffectsComplete ==
  \A w \in Windows :
    /\ life[w] = "dying" ~> life[w] = "gone"
    /\ \A effect \in Simple : effect \in owed[w] ~> effect \notin owed[w]
=============================================================================
