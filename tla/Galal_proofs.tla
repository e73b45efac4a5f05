---------------------------- MODULE Galal_proofs ----------------------------
(***************************************************************************)
(* Proofs about galal, for any windows: the screen shield is consistent    *)
(* and locks before the machine sleeps (ScreenShield), mutter is not left  *)
(* waiting for an effect (WindowEffects), and the workspaces are in order  *)
(* after every operation, which disturbs no windows that it is not about   *)
(* (WorkspaceManager, for any number of workspaces).                       *)
(* MCGalal extends WorkspaceManager, and its instances Shield and Effects  *)
(* have the variables of those modules under their own names.              *)
(***************************************************************************)
EXTENDS MCGalal, DataLemmas, FiniteSetTheorems, TLAPS

-----------------------------------------------------------------------------
(* ScreenShield: what a handler makes of the shield                        *)

\* The inhibitor is given up when the screen saver becomes active.
Good(t) == t \in Shield!Shields /\ Shield!Consistent(t) /\ (t.inhibitor => ~t.active)

\* The settings ask for a lock before the machine sleeps, and it cannot sleep
\* before there is one.
Wanted == lock_enabled /\ lock_on_suspend /\ ~lock_prohibited
Ready(t) == t.is_locked \/ (t.inhibitor /\ session_active /\ ~t.active)

\* What a handler makes of a shield: it stays good, and ready where it was.
Keeps(t, u) == Good(u) /\ (Wanted /\ Ready(t) => Ready(u))

\* An inhibitor that is held is not given up while the settings ask for it.
LEMMA SyncKeeps ==
  ASSUME NEW t \in Shield!Shields, Shield!Consistent(t)
  PROVE  Keeps(t, Shield!sync_inhibitor(t)) /\ Shield!sync_inhibitor(t).visible = t.visible
BY DEF Keeps, Good, Wanted, Ready, Shield!Consistent, Shield!Shields, Shield!sync_inhibitor

\* A shield that is up and does not fade in is made black; it is locked where
\* the settings ask for it, or was locked already.
LEMMA CoveredKeeps ==
  ASSUME NEW t \in Shield!Shields, t.visible, t.modal, t.activation_time, ~t.animating
  PROVE  Good(Shield!Covered(t)) /\ (Wanted \/ t.is_locked => Shield!Covered(t).is_locked)
<1> DEFINE b == [t EXCEPT !.active = TRUE]
           u == Shield!sync_inhibitor(b)
<1>1. b \in Shield!Shields /\ Shield!Consistent(b) /\ b.is_locked = t.is_locked
  BY DEF Shield!Shields, Shield!Consistent
<1>2. Good(u) /\ u.visible /\ u.is_locked = t.is_locked
  <2>1. b.visible
    BY DEF Shield!Shields
  <2> HIDE DEF b
  <2>2. u.is_locked = b.is_locked
    BY <1>1 DEF Shield!sync_inhibitor, Shield!Shields
  <2>3. QED BY <1>1, <2>1, <2>2, SyncKeeps DEF Keeps
<1> HIDE DEF b
<1>3. Good([u EXCEPT !.is_locked = TRUE]) /\ [u EXCEPT !.is_locked = TRUE].is_locked
  BY <1>2 DEF Good, Shield!Consistent, Shield!Shields
<1>4. QED
  BY <1>2, <1>3 DEF Shield!Covered, Shield!_set_active, Shield!Locked, Good, Wanted, b

\* activate takes a shield up.
LEMMA UpKeeps ==
  ASSUME NEW t \in Shield!Shields, ~t.visible, ~t.animating, ~t.active, t.inhibitor => ~t.active,
         NEW animate \in BOOLEAN
  PROVE  Good(Shield!activate(t, animate)) /\ (Wanted /\ Ready(t) => Ready(Shield!activate(t, animate)))
<1> DEFINE u == [t EXCEPT !.visible = TRUE, !.modal = TRUE, !.activation_time = TRUE]
<1>1. /\ u \in Shield!Shields /\ u.visible /\ u.modal /\ u.activation_time
      /\ ~u.animating /\ ~u.active
      /\ u.is_locked = t.is_locked /\ u.inhibitor = t.inhibitor
  BY DEF Shield!Shields
<1> HIDE DEF u
<1>2. Good([u EXCEPT !.animating = TRUE]) /\ (Ready(t) => Ready([u EXCEPT !.animating = TRUE]))
  BY <1>1 DEF Good, Ready, Shield!Consistent, Shield!Shields
<1>3. Good(Shield!Covered(u)) /\ (Wanted => Ready(Shield!Covered(u)))
  BY <1>1, CoveredKeeps DEF Ready
<1>4. Shield!activate(t, animate) = IF animate THEN [u EXCEPT !.animating = TRUE] ELSE Shield!Covered(u)
  BY DEF Shield!activate, u
<1>5. QED BY <1>2, <1>3, <1>4

LEMMA ActivateKeeps ==
  ASSUME NEW t, Good(t), NEW animate \in BOOLEAN
  PROVE  Keeps(t, Shield!activate(t, animate))
<1>1. CASE t.visible
  BY <1>1 DEF Keeps, Good, Shield!activate
<1>2. CASE ~t.visible
  <2>1. t \in Shield!Shields /\ ~t.animating /\ ~t.active
    BY <1>2 DEF Good, Shield!Consistent, Shield!Shields
  <2>2. QED BY <1>2, <2>1, UpKeeps DEF Keeps
<1>3. QED BY <1>1, <1>2

\* lock hands activate a shield that says it is locked before it is up.
LEMMA LockKeeps ==
  ASSUME NEW t, Good(t), NEW animate \in BOOLEAN
  PROVE  Keeps(t, Shield!lock(t, animate))
<1> DEFINE l == [t EXCEPT !.is_locked = TRUE]
<1>1. CASE t.is_locked \/ lock_prohibited
  BY <1>1 DEF Keeps, Good, Shield!lock
<1>2. CASE ~(t.is_locked \/ lock_prohibited)
  <2>1. l \in Shield!Shields /\ l.is_locked /\ (l.inhibitor => ~l.active) /\ l.visible = t.visible
    BY DEF Good, Shield!Shields
  <2>2. t.visible => Shield!Consistent(l)
    BY DEF Good, Shield!Consistent, Shield!Shields
  <2>3. ~t.visible => ~l.animating /\ ~l.active
    BY DEF Good, Shield!Consistent, Shield!Shields
  <2>4. Shield!lock(t, animate) = Shield!activate(l, animate)
    BY <1>2 DEF Shield!lock, Shield!Locked
  <2> HIDE DEF l
  <2>5. Ready(l)
    BY <2>1 DEF Ready
  <2>6. CASE t.visible
    BY <2>1, <2>2, <2>4, <2>5, <2>6, ActivateKeeps DEF Good, Keeps
  <2>7. CASE ~t.visible
    BY <2>1, <2>3, <2>4, <2>5, <2>7, UpKeeps DEF Keeps
  <2>8. QED BY <2>6, <2>7
<1>3. QED BY <1>1, <1>2

\* deactivate leaves nothing, whatever was there.
LEMMA DeactivateGood ==
  ASSUME NEW t \in Shield!Shields
  PROVE  Good(Shield!deactivate(t)) /\ ~Shield!deactivate(t).visible
<1> DEFINE u == [t EXCEPT !.animating = FALSE, !.is_locked = FALSE, !.modal = FALSE,
                          !.visible = FALSE, !.activation_time = FALSE]
           v == [u EXCEPT !.active = FALSE]
<1>1. v \in Shield!Shields /\ Shield!Consistent(v) /\ ~v.visible
  BY DEF Shield!Shields, Shield!Consistent
<1>2. Good(Shield!sync_inhibitor(v)) /\ ~Shield!sync_inhibitor(v).visible
  BY <1>1, SyncKeeps DEF Keeps
<1>3. QED BY <1>2 DEF Shield!deactivate, Shield!_set_active

-----------------------------------------------------------------------------
(* ScreenShield: the handlers                                              *)

\* Between the announcement and the sleep, the shield is ready: LockedBeforeSleep
\* alone says nothing before it is too late.
ShieldInv ==
  /\ Shield!TypeOK /\ Good(shield)
  /\ Wanted /\ promised /\ sleep = "announced" => Ready(shield)
  /\ LockedBeforeSleep

\* A handler that does not end the promise.
LEMMA HandlerKeepsInv ==
  ASSUME ShieldInv, Keeps(shield, shield'), sleep # "asleep",
         UNCHANGED <<lock_enabled, lock_on_suspend, lock_prohibited, connected_to_buses,
                     session_active, promised, sleep>>,
         signals' \in Seq(BOOLEAN)
  PROVE  ShieldInv'
<1>1. Shield!TypeOK'
  BY DEF ShieldInv, Keeps, Good, Shield!TypeOK
<1>2. Good(shield)' /\ (Wanted /\ promised /\ sleep = "announced" => Ready(shield))'
  BY DEF ShieldInv, Keeps, Good, Wanted, Ready, Shield!Consistent, Shield!Shields
<1>3. LockedBeforeSleep'
  BY DEF LockedBeforeSleep, Shield!LockedBeforeSleep
<1>4. QED BY <1>1, <1>2, <1>3 DEF ShieldInv

\* A handler that does: it leaves a good shield.
LEMMA PromiseEnds ==
  ASSUME ShieldInv, Good(shield'), ~promised', promised' \in BOOLEAN,
         {lock_enabled', lock_on_suspend', lock_prohibited', connected_to_buses'} \subseteq BOOLEAN,
         session_active' \in BOOLEAN, UNCHANGED sleep, signals' \in Seq(BOOLEAN)
  PROVE  ShieldInv'
<1>1. Shield!TypeOK'
  BY DEF ShieldInv, Good, Shield!TypeOK
<1>2. Good(shield)'
  BY DEF Good, Shield!Consistent, Shield!Shields
<1>3. LockedBeforeSleep'
  BY DEF LockedBeforeSleep, Shield!LockedBeforeSleep
<1>4. QED BY <1>1, <1>2, <1>3 DEF ShieldInv

LEMMA BecomesActiveKeepsInv ==
  ASSUME ShieldInv, Shield!BecomesActive, sleep # "asleep", signals' \in Seq(BOOLEAN),
         UNCHANGED <<lock_enabled, lock_on_suspend, lock_prohibited, connected_to_buses, sleep>>
  PROVE  ShieldInv'
<1> DEFINE called == [shield EXCEPT !.animating = FALSE, !.in_greeter = TRUE]
<1>1. /\ shield \in Shield!Shields /\ session_active \in BOOLEAN /\ Good(shield)
      /\ {lock_enabled, lock_on_suspend, lock_prohibited, connected_to_buses} \subseteq BOOLEAN
  BY DEF ShieldInv, Shield!TypeOK
<1>2. ASSUME shield.is_locked, shield' \in {shield, called}, UNCHANGED promised,
             session_active' \in {session_active, FALSE}
      PROVE  ShieldInv'
  <2>1. Good(shield') /\ shield'.is_locked
    BY <1>1, <1>2 DEF Good, Shield!Consistent, Shield!Shields
  <2>2. Shield!TypeOK'
    <3>1. session_active' \in BOOLEAN /\ promised' \in BOOLEAN
      BY <1>1, <1>2 DEF ShieldInv, Shield!TypeOK
    <3>2. QED BY <1>1, <2>1, <3>1 DEF ShieldInv, Good, Shield!TypeOK
  <2>3. Good(shield)' /\ Ready(shield)'
    BY <2>1 DEF Good, Ready, Shield!Consistent, Shield!Shields
  <2>4. LockedBeforeSleep'
    BY DEF LockedBeforeSleep, Shield!LockedBeforeSleep
  <2>5. QED BY <2>2, <2>3, <2>4 DEF ShieldInv
<1>3. CASE shield' = Shield!deactivate(shield) /\ promised' = FALSE /\ UNCHANGED session_active
  BY <1>1, <1>3, DeactivateGood, PromiseEnds
<1>4. QED BY <1>2, <1>3 DEF Shield!BecomesActive

LEMMA ShieldInvCorrect == Shield!Spec => []ShieldInv
<1>1. Shield!Init => ShieldInv
  <2> SUFFICES ASSUME Shield!Init PROVE ShieldInv
    OBVIOUS
  <2>1. shield \in Shield!Shields /\ Good(shield)
    BY DEF Shield!Init, Good, Shield!Consistent, Shield!Shields
  <2>2. Shield!TypeOK
    <3>1. signals \in Seq(BOOLEAN)
      BY DEF Shield!Init
    <3>2. session_active \in BOOLEAN /\ promised \in BOOLEAN
      BY DEF Shield!Init
    <3>3. QED BY <2>1, <3>1, <3>2 DEF Shield!Init, Shield!TypeOK
  <2>3. QED
    BY <2>1, <2>2 DEF Shield!Init, ShieldInv, LockedBeforeSleep, Shield!LockedBeforeSleep
<1>2. ShieldInv /\ [Shield!Next]_Shield!vars => ShieldInv'
  <2> SUFFICES ASSUME ShieldInv, [Shield!Next]_Shield!vars PROVE ShieldInv'
    OBVIOUS
  <2> USE DEF Shield!settings, Shield!power, Shield!Handles
  <2>0. /\ shield \in Shield!Shields /\ Good(shield) /\ Shield!Consistent(shield)
        /\ {lock_enabled, lock_on_suspend, lock_prohibited, connected_to_buses} \subseteq BOOLEAN
        /\ session_active \in BOOLEAN /\ signals \in Seq(BOOLEAN)
    BY DEF ShieldInv, Shield!TypeOK, Good
  <2>1. CASE Shield!Activate
    BY <2>0, <2>1, ActivateKeeps, HandlerKeepsInv DEF Shield!Activate
  <2>2. ASSUME NEW b \in BOOLEAN, Shield!Lock(b) PROVE ShieldInv'
    BY <2>0, <2>2, LockKeeps, HandlerKeepsInv DEF Shield!Lock
  <2>3. ASSUME NEW b \in BOOLEAN, Shield!Deactivate(b) PROVE ShieldInv'
    <3> DEFINE d == Shield!deactivate(shield)
    <3>1. Good(d) /\ ~d.visible
      BY <2>0, DeactivateGood
    <3>2. shield' = [d EXCEPT !.in_greeter = @ /\ ~b]
      BY <2>3 DEF Shield!Deactivate
    <3> HIDE DEF d
    <3>3. Good(shield')
      <4>1. d \in Shield!Shields /\ (d.in_greeter /\ ~b) \in BOOLEAN
        BY <3>1 DEF Good
      <4>2. QED BY <3>1, <3>2, <4>1 DEF Good, Shield!Consistent, Shield!Shields
    <3>4. QED BY <2>0, <2>3, <3>3, PromiseEnds DEF Shield!Deactivate
  <2>4. CASE Shield!Input
    BY <2>0, <2>4, BecomesActiveKeepsInv DEF Shield!Input
  <2>5. CASE Shield!AnimationTimeout
    <3> DEFINE u == [shield EXCEPT !.animating = FALSE]
    <3>1. u \in Shield!Shields /\ u.visible /\ u.modal /\ u.activation_time /\ ~u.animating
      BY <2>0, <2>5 DEF Shield!AnimationTimeout, Shield!Consistent, Shield!Shields
    <3>2. shield' = Shield!Covered(u)
      BY <2>5 DEF Shield!AnimationTimeout
    <3>3. Keeps(shield, shield')
      BY <3>1, <3>2, CoveredKeeps DEF Keeps, Ready
    <3>4. QED BY <2>0, <2>5, <3>3, HandlerKeepsInv DEF Shield!AnimationTimeout
  <2>6. CASE Shield!prepare_for_sleep
    <3>1. Tail(signals) \in Seq(BOOLEAN)
      <4>1. signals # <<>>
        BY <2>6 DEF Shield!prepare_for_sleep
      <4>2. QED BY <2>0, <4>1
    <3>2. CASE Shield!BecomesActive
      BY <2>6, <3>1, <3>2, BecomesActiveKeepsInv DEF Shield!prepare_for_sleep
    <3>3. CASE ~Shield!BecomesActive
      <4>1. Keeps(shield, shield')
        BY <2>0, <2>6, <3>3, LockKeeps DEF Shield!prepare_for_sleep, Keeps
      <4>2. QED BY <2>6, <3>1, <3>3, <4>1, HandlerKeepsInv DEF Shield!prepare_for_sleep
    <3>4. QED BY <3>2, <3>3
  <2>7. CASE Shield!SessionNotify
    BY <2>0, <2>7, SyncKeeps, HandlerKeepsInv DEF Shield!SessionNotify
  <2>8. CASE Shield!ChangeSetting
    BY <2>0, <2>8, PromiseEnds DEF Shield!ChangeSetting
  <2>9. CASE Shield!SwitchSession
    BY <2>0, <2>9, PromiseEnds DEF Shield!SwitchSession
  <2>10. CASE Shield!AnnounceSleep
    <3>1. Shield!TypeOK'
      BY <2>0, <2>10 DEF ShieldInv, Shield!AnnounceSleep, Shield!TypeOK
    <3>2. Good(shield)' /\ (promised => Ready(shield))'
      BY <2>0, <2>10 DEF Shield!AnnounceSleep, Good, Ready, Shield!Consistent, Shield!Shields
    <3>3. LockedBeforeSleep'
      BY <2>10 DEF Shield!AnnounceSleep, LockedBeforeSleep, Shield!LockedBeforeSleep
    <3>4. QED BY <3>1, <3>2, <3>3 DEF ShieldInv
  <2>11. CASE Shield!FallAsleep
    <3>1. Shield!TypeOK' /\ Good(shield)'
      BY <2>0, <2>11 DEF ShieldInv, Shield!FallAsleep, Shield!TypeOK, Good, Shield!Consistent
    <3>2. Wanted /\ promised => shield.is_locked
      BY <2>11 DEF ShieldInv, Shield!FallAsleep, Ready
    <3>3. LockedBeforeSleep'
      BY <2>11, <3>2 DEF Shield!FallAsleep, Wanted, LockedBeforeSleep, Shield!LockedBeforeSleep
    <3>4. QED BY <2>11, <3>1, <3>3 DEF ShieldInv, Shield!FallAsleep
  <2>12. CASE Shield!Resume
    <3>1. Shield!TypeOK' /\ Good(shield)'
      BY <2>0, <2>12 DEF ShieldInv, Shield!Resume, Shield!TypeOK, Good, Shield!Consistent
    <3>2. LockedBeforeSleep'
      BY <2>12 DEF Shield!Resume, LockedBeforeSleep, Shield!LockedBeforeSleep
    <3>3. QED BY <2>12, <3>1, <3>2 DEF ShieldInv, Shield!Resume
  <2>13. CASE UNCHANGED Shield!vars
    BY <2>13 DEF ShieldInv, Shield!vars, Shield!TypeOK, Good, Ready, Wanted, Shield!Consistent,
                 LockedBeforeSleep, Shield!LockedBeforeSleep
  <2>14. QED
    BY <2>1, <2>2, <2>3, <2>4, <2>5, <2>6, <2>7, <2>8, <2>9, <2>10, <2>11, <2>12, <2>13
       DEF Shield!Next
<1>3. QED BY <1>1, <1>2, PTL DEF Shield!Spec

\* A locked or active screen is covered and holds the input, and it is left
\* with neither.
THEOREM ShieldCorrect == Shield!Spec => []ShieldUp
<1>1. ShieldInv => ShieldUp
  BY DEF ShieldInv, Good, ShieldUp, Shield!ShieldUp
<1>2. QED BY <1>1, ShieldInvCorrect, PTL

\* When the inhibitor was held and the settings ask for it, the machine falls
\* asleep locked, however the announcement, the fading in and the end of the
\* screen saver interleave.
THEOREM LockedCorrect == Shield!Spec => []LockedBeforeSleep
<1>1. ShieldInv => LockedBeforeSleep
  BY DEF ShieldInv
<1>2. QED BY <1>1, ShieldInvCorrect, PTL

-----------------------------------------------------------------------------
(* WindowEffects: what is known of one actor                               *)

Looks == Effects!Shape \cup {"place"}
Life == {"unmapped", "live", "dying", "gone"}
Kinds == {"normal", "popup", "note", "other"}
Actors == [in : SUBSET Effects!Effects, hooks : SUBSET Effects!Effects, running : BOOLEAN,
           look : SUBSET Looks, goal : SUBSET Looks, owed : SUBSET Effects!Simple, life : Life]

\* The sets, the handlers and mutter agree: what is owed is in the sets, and what
\* is in the sets has its handler.  Only then does a kill report all that is owed.
Agrees(a) ==
  /\ a.owed \subseteq a.in /\ a.in \subseteq a.hooks
  /\ a.life = "unmapped" => a.in = {}
  /\ a.life = "gone" => a.owed = {}

\* The actor is under way, unless the containers of a switch hold it.
Animated(a, held) == a.in # {} /\ a.life # "gone" => a.running \/ held

\* The shape is off only while an effect is under way, and the end of its
\* animation brings it back.
Shaped(a) ==
  a.life \in {"unmapped", "live"} =>
    /\ a.in = {} => a.look \cap Effects!Shape = {} /\ a.goal \cap Effects!Shape = {}
    /\ a.running => a.goal \cap Effects!Shape = {} \/ "minimize" \in a.hooks

\* Windows of other kinds have no effects but, for notifications, the last one.
Modest(a, k) ==
  /\ k = "other" => a.in = {}
  /\ k = "note" /\ a.life = "live" => a.in = {}

Held(w) == switching /\ w \in collected

Tracked(a, k, held) == a \in Actors /\ Agrees(a) /\ Animated(a, held) /\ Modest(a, k)

EffectsInv ==
  /\ kind \in [Shown -> Kinds]
  /\ ~switching => collected = {}
  /\ \A w \in Shown : Tracked(Effects!Actor(w), kind[w], Held(w))
  /\ \A w \in Shown \ sticky : Shaped(Effects!Actor(w))

\* What a step makes of an actor.
Fits(w, a, held) == Tracked(a, kind[w], held) /\ (w \notin sticky => Shaped(a))

-----------------------------------------------------------------------------
(* WindowEffects: what the handlers are built from                         *)

\* The kill ends everything: nothing is owed, and the shape is back.
LEMMA KillFacts ==
  ASSUME NEW a \in Actors, Agrees(a), a.life \in {"unmapped", "live"}
  PROVE  LET b == Effects!kill_window_effects(a) IN
         /\ b \in Actors /\ Agrees(b) /\ b.in = {} /\ b.owed = {} /\ b.life = a.life
         /\ b.hooks = a.hooks
         /\ b.look \subseteq a.look /\ (Shaped(a) => Shaped(b))
<1> DEFINE c == [Effects!Stop(a) EXCEPT !.look = @ \cap {"place"}, !.goal = a.look \cap {"place"},
                                        !.in = {}]
           b == Effects!kill_window_effects(a)
<1>1. CASE a.in = {}
  BY <1>1 DEF Effects!kill_window_effects, Agrees
<1>2. CASE a.in # {}
  <2>1. a.life = "live"
    BY <1>2 DEF Agrees
  <2>2. Effects!Stop(a) \in Actors /\ Effects!Stop(a).look = a.look
        /\ Effects!Stop(a).owed = a.owed /\ Effects!Stop(a).life = a.life
        /\ Effects!Stop(a).hooks = a.hooks /\ ~Effects!Stop(a).running
    BY DEF Effects!Stop, Actors
  <2>3. /\ c \in Actors /\ c.in = {} /\ c.look = a.look \cap {"place"} /\ c.goal = a.look \cap {"place"}
        /\ c.owed = a.owed /\ c.life = a.life /\ c.hooks = a.hooks /\ ~c.running
    BY <2>2 DEF Actors
  <2> HIDE DEF c
  <2>4. b = Effects!Complete(c, a.in)
    BY <1>2, <2>1 DEF Effects!kill_window_effects, c
  <2>5. c.owed \ a.in = {}
    BY <2>3 DEF Agrees
  <2>6. /\ b \in Actors /\ b.in = {} /\ b.owed = {} /\ b.life = a.life
        /\ b.look = a.look \cap {"place"} /\ b.goal = a.look \cap {"place"} /\ b.hooks = a.hooks
        /\ ~b.running
    BY <2>1, <2>3, <2>4, <2>5 DEF Effects!Complete, Actors
  <2> HIDE DEF b
  <2>7. Agrees(b) /\ Shaped(b)
    BY <2>1, <2>6 DEF Agrees, Shaped, Effects!Shape
  <2>8. QED BY <2>6, <2>7 DEF b
<1>3. QED BY <1>1, <1>2

LEMMA StopFacts ==
  ASSUME NEW a \in Actors
  PROVE  LET b == Effects!Stop(a) IN
         /\ b \in Actors /\ b.in = a.in /\ b.hooks = a.hooks /\ ~b.running
         /\ b.look = a.look /\ b.goal = a.look /\ b.owed = a.owed /\ b.life = a.life
BY DEF Effects!Stop, Actors

LEMMA OweFacts ==
  ASSUME NEW a \in Actors, NEW effect \in Effects!Simple
  PROVE  LET b == Effects!Owe(a, effect) IN
         /\ b \in Actors /\ b.in = a.in /\ b.hooks = a.hooks /\ b.running = a.running
         /\ b.look = a.look /\ b.goal = a.goal /\ b.owed = a.owed \cup {effect} /\ b.life = a.life
BY DEF Effects!Owe, Actors

LEMMA LifeFacts ==
  ASSUME NEW a \in Actors, NEW l \in Life
  PROVE  LET b == [a EXCEPT !.life = l] IN
         /\ b \in Actors /\ b.in = a.in /\ b.hooks = a.hooks /\ b.running = a.running
         /\ b.look = a.look /\ b.goal = a.goal /\ b.owed = a.owed /\ b.life = l
BY DEF Actors

LEMMA CompleteFacts ==
  ASSUME NEW a \in Actors, NEW ended
  PROVE  LET b == Effects!Complete(a, ended) IN
         /\ b \in Actors /\ b.in = a.in /\ b.hooks = a.hooks /\ b.running = a.running
         /\ b.look = a.look /\ b.goal = a.goal /\ b.owed = a.owed \ ended
         /\ b.life = IF a.life = "dying" /\ a.owed \ ended = {} THEN "gone" ELSE a.life
BY DEF Effects!Complete, Actors, Life

LEMMA AnimateFacts ==
  ASSUME NEW a \in Actors, NEW props \in SUBSET Looks, NEW final \in SUBSET Looks
  PROVE  LET b == Effects!Animate(a, props, final) IN
         /\ b \in Actors /\ b.in = a.in /\ b.hooks = a.hooks /\ b.running
         /\ b.look = a.look \cup props /\ b.goal = (a.goal \ props) \cup final
         /\ b.owed = a.owed /\ b.life = a.life
BY DEF Effects!Animate, Actors

LEMMA StartedFacts ==
  ASSUME NEW a \in Actors, NEW effect \in Effects!Effects
  PROVE  LET b == Effects!Started(a, effect) IN
         /\ b \in Actors /\ b.in = a.in \cup {effect} /\ b.hooks = a.hooks \cup {effect}
         /\ b.running = a.running /\ b.look = a.look /\ b.goal = a.goal
         /\ b.owed = a.owed /\ b.life = a.life
BY DEF Effects!Started, Actors

\* Every actor becomes what f says.
ActorsBecome(f) ==
  /\ in' = [w \in Shown |-> f[w].in] /\ hooks' = [w \in Shown |-> f[w].hooks]
  /\ running' = [w \in Shown |-> f[w].running]
  /\ look' = [w \in Shown |-> f[w].look] /\ goal' = [w \in Shown |-> f[w].goal]
  /\ owed' = [w \in Shown |-> f[w].owed] /\ life' = [w \in Shown |-> f[w].life]

LEMMA BecomesKeepsInv ==
  ASSUME EffectsInv, NEW f, ActorsBecome(f), UNCHANGED <<kind, sticky>>,
         ~switching' => collected' = {},
         \A w \in Shown : Fits(w, f[w], Held(w)')
  PROVE  EffectsInv'
<1>1. ASSUME NEW w \in Shown
      PROVE  /\ Tracked(Effects!Actor(w), kind[w], Held(w))'
             /\ w \notin sticky' => Shaped(Effects!Actor(w))'
  <2>1. Fits(w, f[w], Held(w)') /\ f[w] \in Actors
    BY DEF Fits, Tracked
  <2>2. /\ Effects!Actor(w)'.in = f[w].in /\ Effects!Actor(w)'.hooks = f[w].hooks
        /\ Effects!Actor(w)'.running = f[w].running /\ Effects!Actor(w)'.look = f[w].look
        /\ Effects!Actor(w)'.goal = f[w].goal /\ Effects!Actor(w)'.owed = f[w].owed
        /\ Effects!Actor(w)'.life = f[w].life
    BY DEF ActorsBecome, Effects!Actor
  <2>3. Effects!Actor(w)' \in Actors
    BY <2>1, <2>2 DEF Actors, Effects!Actor
  <2>4. (Agrees(Effects!Actor(w)) /\ Animated(Effects!Actor(w), Held(w)))'
    BY <2>1, <2>2 DEF Fits, Tracked, Agrees, Animated
  <2>5. Modest(Effects!Actor(w), kind[w])'
    BY <2>1, <2>2 DEF Fits, Tracked, Modest
  <2>6. w \notin sticky' => Shaped(Effects!Actor(w))'
    BY <2>1, <2>2 DEF Fits, Shaped
  <2>7. QED BY <2>3, <2>4, <2>5, <2>6 DEF Tracked
<1>2. QED BY <1>1 DEF EffectsInv

\* A step of one actor.
LEMMA OnlyKeepsInv ==
  ASSUME EffectsInv, NEW w \in Shown, NEW a, Effects!Only(w, a), Fits(w, a, Held(w)),
         UNCHANGED <<kind, sticky, collected, switching>>
  PROVE  EffectsInv'
<1> DEFINE f == [x \in Shown |-> IF x = w THEN a ELSE Effects!Actor(x)]
<1>1. ActorsBecome(f)
  BY DEF Effects!Only, Effects!Become, ActorsBecome
<1>2. \A x \in Shown : Fits(x, f[x], Held(x)')
  BY DEF EffectsInv, Fits, Held
<1> HIDE DEF f
<1>3. QED BY <1>1, <1>2, BecomesKeepsInv DEF EffectsInv

LEMMA ActorFacts ==
  ASSUME EffectsInv, NEW w \in Shown
  PROVE  /\ Fits(w, Effects!Actor(w), Held(w)) /\ Effects!Actor(w) \in Actors
         /\ Agrees(Effects!Actor(w)) /\ kind[w] \in Kinds
         /\ Effects!Actor(w).life = life[w] /\ Effects!Actor(w).running = running[w]
         /\ Effects!Actor(w).goal = goal[w]
BY DEF EffectsInv, Fits, Tracked, Effects!Actor

-----------------------------------------------------------------------------
(* WindowEffects: the steps                                                *)

\* After a kill, mutter starts an effect and the manager animates it.
LEMMA EffectFits ==
  ASSUME NEW w, NEW a \in Actors, NEW effect \in Effects!Effects, NEW held,
         a.in = {}, a.owed \subseteq {effect}, a.life = "live",
         kind[w] = "normal" \/ (effect = "map" /\ kind[w] = "popup"),
         NEW moved \in SUBSET Looks, NEW left \in SUBSET Looks,
         w \notin sticky => \/ effect = "minimize"
                            \/ a.goal \cap Effects!Shape = {} /\ left \cap Effects!Shape = {}
  PROVE  Fits(w, Effects!Animate(Effects!Started(a, effect), moved, left), held)
<1> DEFINE b == Effects!Started(a, effect)
           c == Effects!Animate(b, moved, left)
<1>1. /\ b \in Actors /\ b.in = a.in \cup {effect} /\ b.hooks = a.hooks \cup {effect}
      /\ b.goal = a.goal /\ b.owed = a.owed /\ b.life = "live"
  BY StartedFacts
<1> HIDE DEF b
<1>2. /\ c \in Actors /\ c.in = a.in \cup {effect} /\ c.hooks = a.hooks \cup {effect} /\ c.running
      /\ c.goal = (a.goal \ moved) \cup left /\ c.owed = a.owed /\ c.life = "live"
  <2>1. b \in Actors /\ moved \in SUBSET Looks /\ left \in SUBSET Looks
    BY <1>1
  <2>2. /\ c \in Actors /\ c.in = b.in /\ c.hooks = b.hooks /\ c.running
        /\ c.goal = (b.goal \ moved) \cup left /\ c.owed = b.owed /\ c.life = b.life
    BY <2>1 DEF Effects!Animate, Actors
  <2>3. QED BY <1>1, <2>2
<1> HIDE DEF c
<1>3. Tracked(c, kind[w], held)
  BY <1>2 DEF Tracked, Agrees, Animated, Modest
<1>4. w \notin sticky => Shaped(c)
  BY <1>2 DEF Shaped
<1>5. QED BY <1>3, <1>4 DEF Fits, b, c

\* An actor that has been killed, and is not animated: nothing is owed.
LEMMA RestFits ==
  ASSUME NEW w, NEW a \in Actors, NEW held, a.in = {}, a.owed = {}, w \notin sticky => Shaped(a)
  PROVE  Fits(w, a, held)
BY DEF Fits, Tracked, Agrees, Animated, Modest

\* The kill mutter makes before an effect, and what it then owes.
LEMMA OwedFacts ==
  ASSUME EffectsInv, NEW w \in Shown, life[w] \in {"unmapped", "live"},
         NEW effect \in Effects!Simple
  PROVE  LET k == Effects!kill_window_effects(Effects!Actor(w))
             a == Effects!Owe(k, effect) IN
         /\ a \in Actors /\ a.in = {} /\ a.owed = {effect} /\ a.life = life[w]
         /\ w \notin sticky => /\ a.look \cap Effects!Shape = {} /\ a.goal \cap Effects!Shape = {}
<1> DEFINE k == Effects!kill_window_effects(Effects!Actor(w))
           a == Effects!Owe(k, effect)
<1>1. /\ k \in Actors /\ k.in = {} /\ k.owed = {} /\ k.life = life[w]
      /\ w \notin sticky => Shaped(k)
  BY ActorFacts, KillFacts DEF Fits
<1> HIDE DEF k
<1>2. /\ a \in Actors /\ a.in = {} /\ a.owed = {effect} /\ a.life = life[w]
      /\ a.look = k.look /\ a.goal = k.goal
  BY <1>1, OweFacts
<1> HIDE DEF a
<1>3. w \notin sticky => a.look \cap Effects!Shape = {} /\ a.goal \cap Effects!Shape = {}
  BY <1>1, <1>2 DEF Shaped
<1>4. QED BY <1>2, <1>3 DEF a, k

\* An effect that is over at once.
LEMMA CompletedFits ==
  ASSUME NEW w, NEW a \in Actors, NEW effect, NEW held, a.in = {}, a.owed = {effect},
         w \notin sticky => /\ a.look \cap Effects!Shape = {} /\ a.goal \cap Effects!Shape = {}
  PROVE  Fits(w, Effects!Complete(a, {effect}), held)
<1> DEFINE c == Effects!Complete(a, {effect})
<1>1. c \in Actors /\ c.in = {} /\ c.owed = {} /\ c.look = a.look /\ c.goal = a.goal
  BY CompleteFacts
<1> HIDE DEF c
<1>2. w \notin sticky => Shaped(c)
  BY <1>1 DEF Shaped
<1>3. QED BY <1>1, <1>2, RestFits DEF c

LEMMA NamesFacts ==
  /\ {"map", "minimize", "unminimize", "destroy"} \subseteq Effects!Simple
  /\ Effects!Simple \subseteq Effects!Effects
  /\ {"maximize", "unmaximize"} \subseteq Effects!Effects
  /\ Effects!Shape \in SUBSET Looks /\ {} \in SUBSET Looks
  /\ {"scale", "place"} \in SUBSET Looks /\ {"opacity"} \in SUBSET Looks
<1>1. /\ {"map", "minimize", "unminimize", "destroy"} \subseteq Effects!Simple
      /\ Effects!Simple \subseteq Effects!Effects
      /\ {"maximize", "unmaximize"} \subseteq Effects!Effects
  BY DEF Effects!Simple, Effects!Effects
<1>2. Effects!Shape \in SUBSET Looks /\ {} \in SUBSET Looks
  BY DEF Effects!Shape, Looks
<1>3. {"scale", "place"} \in SUBSET Looks
  BY DEF Effects!Shape, Looks
<1>4. {"opacity"} \in SUBSET Looks
  BY DEF Effects!Shape, Looks
<1>5. QED BY <1>1, <1>2, <1>3, <1>4

LEMMA MapKeepsInv ==
  ASSUME EffectsInv, NEW w \in Shown, Effects!Map(w) PROVE EffectsInv'
<1> DEFINE o == Effects!Owe(Effects!kill_window_effects(Effects!Actor(w)), "map")
           a == [o EXCEPT !.life = "live"]
           b == Effects!Stop(a)
           animates == enable_animations /\ kind[w] \in {"normal", "popup"}
           new == IF animates
                  THEN Effects!Animate(Effects!Started(b, "map"), Effects!Shape, {})
                  ELSE Effects!Complete(a, {"map"})
<1>1. /\ o \in Actors /\ o.in = {} /\ o.owed = {"map"}
      /\ w \notin sticky => /\ o.look \cap Effects!Shape = {} /\ o.goal \cap Effects!Shape = {}
  BY NamesFacts, OwedFacts DEF Effects!Map
<1>2. Effects!Only(w, new) /\ UNCHANGED <<kind, sticky, collected, switching>>
  BY DEF Effects!Map
<1> HIDE DEF o
<1>3. /\ a \in Actors /\ a.in = {} /\ a.owed = {"map"} /\ a.life = "live"
      /\ a.look = o.look /\ a.goal = o.goal
  BY <1>1, LifeFacts DEF Life
<1> HIDE DEF a
<1>4. /\ b \in Actors /\ b.in = {} /\ b.owed = {"map"} /\ b.life = "live" /\ b.goal = a.look
  BY <1>3, StopFacts
<1> HIDE DEF b
<1>5. CASE animates
  <2>1. Fits(w, Effects!Animate(Effects!Started(b, "map"), Effects!Shape, {}), Held(w))
    BY <1>1, <1>3, <1>4, <1>5, NamesFacts, EffectFits
  <2>2. QED BY <1>2, <1>5, <2>1, OnlyKeepsInv
<1>6. CASE ~animates
  <2>1. Fits(w, Effects!Complete(a, {"map"}), Held(w))
    BY <1>1, <1>3, CompletedFits
  <2>2. QED BY <1>2, <1>6, <2>1, OnlyKeepsInv
<1>7. QED BY <1>5, <1>6

LEMMA MinimizeKeepsInv ==
  ASSUME EffectsInv, NEW w \in Shown, Effects!minimize(w) PROVE EffectsInv'
<1> DEFINE a == Effects!Owe(Effects!kill_window_effects(Effects!Actor(w)), "minimize")
           b == Effects!kill_window_effects(a)
           animates == enable_animations /\ kind[w] = "normal"
           new == IF animates
                  THEN Effects!Animate(Effects!Started(b, "minimize"), Effects!Shape, Effects!Shape)
                  ELSE Effects!Complete(a, {"minimize"})
<1>1. /\ a \in Actors /\ a.in = {} /\ a.owed = {"minimize"} /\ a.life = "live"
      /\ w \notin sticky => /\ a.look \cap Effects!Shape = {} /\ a.goal \cap Effects!Shape = {}
  BY NamesFacts, OwedFacts DEF Effects!minimize
<1>2. Effects!Only(w, new) /\ UNCHANGED <<kind, sticky, collected, switching>>
  BY DEF Effects!minimize
<1> HIDE DEF a
<1>3. b = a
  BY <1>1 DEF Effects!kill_window_effects
<1>4. CASE animates
  <2>1. Fits(w, Effects!Animate(Effects!Started(a, "minimize"), Effects!Shape, Effects!Shape), Held(w))
    BY <1>1, <1>4, NamesFacts, EffectFits
  <2>2. QED BY <1>2, <1>3, <1>4, <2>1, OnlyKeepsInv
<1>5. CASE ~animates
  <2>1. Fits(w, Effects!Complete(a, {"minimize"}), Held(w))
    BY <1>1, CompletedFits
  <2>2. QED BY <1>2, <1>5, <2>1, OnlyKeepsInv
<1>6. QED BY <1>4, <1>5

LEMMA UnminimizeKeepsInv ==
  ASSUME EffectsInv, NEW w \in Shown, Effects!unminimize(w) PROVE EffectsInv'
<1> DEFINE a == Effects!Owe(Effects!kill_window_effects(Effects!Actor(w)), "unminimize")
           b == IF enable_animations THEN Effects!Stop(a) ELSE a
           animates == enable_animations /\ kind[w] = "normal"
           new == IF animates
                  THEN Effects!Animate(Effects!Started(b, "unminimize"), Effects!Shape, {})
                  ELSE Effects!Complete(b, {"unminimize"})
<1>1. /\ a \in Actors /\ a.in = {} /\ a.owed = {"unminimize"} /\ a.life = "live"
      /\ w \notin sticky => /\ a.look \cap Effects!Shape = {} /\ a.goal \cap Effects!Shape = {}
  BY NamesFacts, OwedFacts DEF Effects!unminimize
<1>2. Effects!Only(w, new) /\ UNCHANGED <<kind, sticky, collected, switching>>
  BY DEF Effects!unminimize
<1> HIDE DEF a
<1>3. /\ b \in Actors /\ b.in = {} /\ b.owed = {"unminimize"} /\ b.life = "live"
      /\ w \notin sticky => /\ b.look \cap Effects!Shape = {} /\ b.goal \cap Effects!Shape = {}
  BY <1>1, StopFacts
<1> HIDE DEF b
<1>4. CASE animates
  <2>1. Fits(w, Effects!Animate(Effects!Started(b, "unminimize"), Effects!Shape, {}), Held(w))
    BY <1>3, <1>4, NamesFacts, EffectFits
  <2>2. QED BY <1>2, <1>4, <2>1, OnlyKeepsInv
<1>5. CASE ~animates
  <2>1. Fits(w, Effects!Complete(b, {"unminimize"}), Held(w))
    BY <1>3, CompletedFits
  <2>2. QED BY <1>2, <1>5, <2>1, OnlyKeepsInv
<1>6. QED BY <1>4, <1>5

LEMMA ResizeKeepsInv ==
  ASSUME EffectsInv, NEW w \in Shown, NEW effect \in {"maximize", "unmaximize"},
         NEW snapshot \in BOOLEAN, Effects!Resize(w, effect, snapshot)
  PROVE  EffectsInv'
<1> DEFINE a == Effects!kill_window_effects(Effects!Actor(w))
           animates == kind[w] = "normal" /\ snapshot
           new == IF animates
                  THEN Effects!Animate(Effects!Started(a, effect), {"scale", "place"}, {})
                  ELSE a
<1>1. /\ a \in Actors /\ a.in = {} /\ a.owed = {} /\ a.life = "live"
      /\ w \notin sticky => Shaped(a)
  BY ActorFacts, KillFacts DEF Effects!Resize, Fits
<1>2. Effects!Only(w, new) /\ UNCHANGED <<kind, sticky, collected, switching>>
  BY DEF Effects!Resize
<1> HIDE DEF a
<1>3. CASE animates
  <2>1. w \notin sticky => a.goal \cap Effects!Shape = {}
    BY <1>1 DEF Shaped
  <2>2. Fits(w, Effects!Animate(Effects!Started(a, effect), {"scale", "place"}, {}), Held(w))
    BY <1>1, <1>3, <2>1, NamesFacts, EffectFits
  <2>3. QED BY <1>2, <1>3, <2>2, OnlyKeepsInv
<1>4. CASE ~animates
  BY <1>1, <1>2, <1>4, RestFits, OnlyKeepsInv
<1>5. QED BY <1>3, <1>4

\* The last effect is started over those that run: they stay owed, and in the sets.
LEMMA DestroyKeepsInv ==
  ASSUME EffectsInv, NEW w \in Shown, Effects!destroy(w) PROVE EffectsInv'
<1>0. "destroy" \in Effects!Effects /\ "destroy" \in Effects!Simple
  BY DEF Effects!Effects, Effects!Simple
<1> DEFINE r == Effects!Actor(w)
           o == Effects!Owe(r, "destroy")
           a == [o EXCEPT !.life = "dying"]
           b == IF enable_animations THEN Effects!Stop(a) ELSE a
           st == Effects!Started(b, "destroy")
           c == Effects!Animate(st, Effects!Shape, Effects!Shape)
           d == Effects!Complete(b, {"destroy"})
           animates == enable_animations /\ kind[w] # "other"
<1>1. /\ r \in Actors /\ Agrees(r) /\ Animated(r, Held(w)) /\ Modest(r, kind[w])
      /\ kind[w] \in Kinds /\ r.life = "live"
  BY ActorFacts DEF Fits, Tracked, Effects!destroy
<1>2. Effects!Only(w, IF animates THEN c ELSE d) /\ UNCHANGED <<kind, sticky, collected, switching>>
  BY DEF Effects!destroy
<1> HIDE DEF r
<1>3. /\ o \in Actors /\ o.in = r.in /\ o.hooks = r.hooks /\ o.running = r.running
      /\ o.owed = r.owed \cup {"destroy"}
  BY <1>0, <1>1, OweFacts
<1> HIDE DEF o
<1>4. /\ a \in Actors /\ a.in = r.in /\ a.hooks = r.hooks /\ a.running = r.running
      /\ a.owed = r.owed \cup {"destroy"} /\ a.life = "dying"
  BY <1>3, LifeFacts DEF Life
<1> HIDE DEF a
<1>5. /\ b \in Actors /\ b.in = r.in /\ b.hooks = r.hooks
      /\ b.owed = r.owed \cup {"destroy"} /\ b.life = "dying"
      /\ ~enable_animations => b.running = r.running
  BY <1>4, StopFacts
<1> HIDE DEF b
<1>6. CASE animates
  <2>1. /\ st \in Actors /\ st.in = r.in \cup {"destroy"} /\ st.hooks = r.hooks \cup {"destroy"}
        /\ st.owed = r.owed \cup {"destroy"} /\ st.life = "dying"
    BY <1>0, <1>5, StartedFacts
  <2> HIDE DEF st
  <2>2. /\ c \in Actors /\ c.in = r.in \cup {"destroy"} /\ c.hooks = r.hooks \cup {"destroy"}
        /\ c.owed = r.owed \cup {"destroy"} /\ c.life = "dying" /\ c.running
    <3>1. st \in Actors /\ Effects!Shape \in SUBSET Looks
      BY <2>1, NamesFacts
    <3>2. /\ c \in Actors /\ c.in = st.in /\ c.hooks = st.hooks /\ c.running
          /\ c.owed = st.owed /\ c.life = st.life
      BY <3>1, AnimateFacts
    <3>3. QED BY <2>1, <3>2
  <2> HIDE DEF c
  <2>3. Fits(w, c, Held(w))
    BY <1>1, <1>6, <2>2 DEF Fits, Tracked, Agrees, Animated, Modest, Shaped
  <2>4. QED BY <1>2, <1>6, <2>3, OnlyKeepsInv
<1>7. CASE ~animates
  <2>1. /\ d \in Actors /\ d.in = r.in /\ d.hooks = r.hooks /\ d.running = b.running
        /\ d.owed = b.owed \ {"destroy"} /\ b.owed = r.owed \cup {"destroy"}
        /\ d.life = IF b.life = "dying" /\ b.owed \ {"destroy"} = {} THEN "gone" ELSE b.life
    BY <1>5, CompleteFacts
  <2> HIDE DEF d
  <2>2. r.in # {} => d.running = r.running
    BY <1>1, <1>5, <1>7, <2>1 DEF Modest
  <2>3. d.life \in {"dying", "gone"} /\ (d.life = "gone" => d.owed = {}) /\ d.owed \subseteq r.owed
    BY <1>5, <2>1
  <2>4. Agrees(d) /\ Shaped(d)
    BY <1>1, <2>1, <2>3 DEF Agrees, Shaped
  <2>5. Animated(d, Held(w)) /\ Modest(d, kind[w])
    BY <1>1, <2>1, <2>2, <2>3 DEF Animated, Modest
  <2>6. QED BY <1>2, <1>7, <2>1, <2>4, <2>5, OnlyKeepsInv DEF Fits, Tracked
<1>8. QED BY <1>6, <1>7

\* The end of an animation reports all that is in the sets, and resets the shape.
LEMMA TransitionsKeepInv ==
  ASSUME EffectsInv, NEW w \in Shown, Effects!TransitionsCompleted(w) PROVE EffectsInv'
<1> DEFINE r == Effects!Actor(w)
           a == [r EXCEPT !.running = FALSE, !.look = goal[w]]
           b == [a EXCEPT !.in = @ \ a.hooks, !.hooks = {},
                          !.look = IF "minimize" \in a.hooks THEN @ \ Effects!Shape ELSE @,
                          !.goal = IF "minimize" \in a.hooks THEN @ \ Effects!Shape ELSE @]
           c == Effects!Complete(b, a.hooks)
<1>1. /\ r \in Actors /\ Agrees(r) /\ r.running /\ r.goal = goal[w]
      /\ w \notin sticky => Shaped(r)
  BY ActorFacts DEF Fits, Effects!TransitionsCompleted
<1>2. Effects!Only(w, c) /\ UNCHANGED <<kind, sticky, collected, switching>>
  BY DEF Effects!TransitionsCompleted, Effects!Handlers
<1> HIDE DEF r
<1>3. /\ a \in Actors /\ a.in = r.in /\ a.hooks = r.hooks /\ a.look = r.goal /\ a.goal = r.goal
      /\ a.owed = r.owed /\ a.life = r.life
  BY <1>1 DEF Actors
<1> HIDE DEF a
<1>4. /\ b \in Actors /\ b.in = a.in \ a.hooks
      /\ b.look = IF "minimize" \in a.hooks THEN a.look \ Effects!Shape ELSE a.look
      /\ b.goal = IF "minimize" \in a.hooks THEN a.goal \ Effects!Shape ELSE a.goal
      /\ b.owed = a.owed /\ b.life = a.life
  BY <1>3 DEF Actors
<1> HIDE DEF b
<1>5. /\ c \in Actors /\ c.in = b.in /\ c.look = b.look /\ c.goal = b.goal
      /\ c.owed = b.owed \ a.hooks /\ (c.life \in {"unmapped", "live"} => c.life = b.life)
  BY <1>4, CompleteFacts
<1> HIDE DEF c
<1>6. c.in = {} /\ c.owed = {}
  BY <1>1, <1>3, <1>4, <1>5 DEF Agrees
<1>7. w \notin sticky => Shaped(c)
  BY <1>1, <1>3, <1>4, <1>5, <1>6 DEF Shaped
<1>8. QED BY <1>2, <1>5, <1>6, <1>7, RestFits, OnlyKeepsInv

LEMMA SnapshotKeepsInv ==
  ASSUME EffectsInv, NEW w \in Shown, Effects!SnapshotFaded(w) PROVE EffectsInv'
<1> DEFINE r == Effects!Actor(w)
           a == [r EXCEPT !.look = @ \ {"place"}, !.goal = @ \ {"place"}]
<1>1. r \in Actors /\ Fits(w, r, Held(w))
  BY ActorFacts
<1>2. Effects!Only(w, a) /\ UNCHANGED <<kind, sticky, collected, switching>>
  BY DEF Effects!SnapshotFaded
<1> HIDE DEF r
<1>3. /\ a \in Actors /\ a.in = r.in /\ a.hooks = r.hooks /\ a.running = r.running
      /\ a.look = r.look \ {"place"} /\ a.goal = r.goal \ {"place"}
      /\ a.owed = r.owed /\ a.life = r.life
  BY <1>1 DEF Actors
<1> HIDE DEF a
<1>4. Fits(w, a, Held(w))
  BY <1>1, <1>3 DEF Fits, Tracked, Agrees, Animated, Modest, Shaped
<1>5. QED BY <1>2, <1>4, OnlyKeepsInv

-----------------------------------------------------------------------------
(* WindowEffects: switching workspaces                                     *)

\* Another parent ends the animation, but the effects stay in their sets.
LEMMA ReparentFacts ==
  ASSUME NEW w, NEW a \in Actors
  PROVE  LET b == Effects!Reparent(w, a) IN
         /\ b \in Actors /\ b.in = a.in /\ b.hooks = a.hooks /\ b.look = a.look
         /\ b.owed = a.owed /\ b.life = a.life
         /\ kind[w] = "note" => b = a
         /\ Shaped(a) => Shaped(b)
<1>1. CASE kind[w] = "note"
  BY <1>1 DEF Effects!Reparent
<1>2. CASE kind[w] # "note"
  <2> DEFINE b == Effects!Stop(a)
  <2>1. /\ b \in Actors /\ b.in = a.in /\ b.hooks = a.hooks /\ ~b.running
        /\ b.look = a.look /\ b.goal = a.look /\ b.owed = a.owed /\ b.life = a.life
    BY StopFacts
  <2>2. Effects!Reparent(w, a) = b
    BY <1>2 DEF Effects!Reparent
  <2> HIDE DEF b
  <2>3. Shaped(a) => Shaped(b)
    BY <2>1 DEF Shaped
  <2>4. QED BY <1>2, <2>1, <2>2, <2>3
<1>3. QED BY <1>1, <1>2

\* The kill at the end of a switch pays for all that the containers have cut
\* short; a destroyed actor goes.
LEMMA ReleaseFits ==
  ASSUME NEW w, NEW a \in Actors, Agrees(a), a.life # "gone", w \notin sticky => Shaped(a),
         NEW held
  PROVE  Fits(w, Effects!Release(w, a), held)
<1>1. CASE a.life = "dying"
  <2> DEFINE k == Effects!kill_window_effects(a)
             g == [k EXCEPT !.life = "gone", !.running = FALSE, !.owed = {}, !.hooks = {}]
  <2>1. k \in Actors /\ k.in = {}
    BY <1>1 DEF Effects!kill_window_effects, Actors
  <2> HIDE DEF k
  <2>2. g \in Actors /\ g.in = {} /\ g.owed = {} /\ g.life = "gone"
    BY <2>1 DEF Actors, Life
  <2>3. Effects!Release(w, a) = g
    BY <1>1 DEF Effects!Release, k
  <2> HIDE DEF g
  <2>4. QED BY <2>2, <2>3, RestFits DEF Shaped
<1>2. CASE a.life # "dying"
  <2> DEFINE r == Effects!Reparent(w, a)
             b == [r EXCEPT !.look = @ \ {"place"}, !.goal = @ \ {"place"}]
             c == Effects!kill_window_effects(b)
             d == Effects!Animate(c, {"opacity"}, {})
  <2>0. a.life \in {"unmapped", "live"}
    BY <1>2 DEF Actors, Life
  <2>1. /\ r \in Actors /\ r.in = a.in /\ r.hooks = a.hooks /\ r.owed = a.owed /\ r.life = a.life
        /\ w \notin sticky => Shaped(r)
    BY ReparentFacts
  <2>2. Effects!Release(w, a) = IF "opacity" \in c.look THEN d ELSE c
    BY <1>2 DEF Effects!Release
  <2> HIDE DEF r
  <2>3. /\ b \in Actors /\ b.in = r.in /\ b.hooks = r.hooks /\ b.running = r.running
        /\ b.look = r.look \ {"place"} /\ b.goal = r.goal \ {"place"}
        /\ b.owed = r.owed /\ b.life = r.life
    BY <2>1 DEF Actors
  <2> HIDE DEF b
  <2>4. Agrees(b) /\ b.life \in {"unmapped", "live"} /\ (w \notin sticky => Shaped(b))
    BY <2>0, <2>1, <2>3 DEF Agrees, Shaped
  <2>5. /\ c \in Actors /\ c.in = {} /\ c.owed = {} /\ c.life = b.life
        /\ w \notin sticky => Shaped(c)
    BY <2>3, <2>4, KillFacts
  <2> HIDE DEF c
  <2>6. /\ d \in Actors /\ d.in = {} /\ d.owed = {}
    BY <2>5, NamesFacts, AnimateFacts
  <2>7. w \notin sticky => "opacity" \notin c.look
    BY <2>4, <2>5 DEF Shaped, Effects!Shape
  <2> HIDE DEF d
  <2>8. CASE "opacity" \in c.look
    BY <2>2, <2>6, <2>7, <2>8, RestFits
  <2>9. CASE "opacity" \notin c.look
    BY <2>2, <2>5, <2>9, RestFits
  <2>10. QED BY <2>8, <2>9
<1>3. QED BY <1>1, <1>2

LEMMA ReleasedFits ==
  ASSUME EffectsInv, NEW w \in Shown, NEW held
  PROVE  Fits(w, Effects!Released(w), held)
<1> DEFINE a == Effects!Actor(w)
<1>1. /\ a \in Actors /\ Fits(w, a, Held(w)) /\ Agrees(a) /\ a.life = life[w]
      /\ w \notin sticky => Shaped(a)
  BY ActorFacts DEF Fits
<1> HIDE DEF a
<1>2. CASE w \in collected /\ life[w] # "gone"
  <2>1. Fits(w, Effects!Release(w, a), held)
    BY <1>1, <1>2, ReleaseFits
  <2>2. QED BY <1>2, <2>1 DEF Effects!Released, a
<1>3. CASE ~(w \in collected /\ life[w] # "gone")
  <2>1. Animated(a, Held(w)) /\ (a.life = "gone" \/ ~Held(w))
    BY <1>1, <1>3 DEF Fits, Tracked, Held
  <2>2. Fits(w, a, held)
    BY <1>1, <2>1 DEF Fits, Tracked, Animated
  <2>3. QED BY <1>3, <2>2 DEF Effects!Released, a
<1>4. QED BY <1>2, <1>3

\* An actor in the containers need not be animated: they end its effects.
LEMMA CollectFits ==
  ASSUME NEW w, NEW a, Fits(w, a, TRUE)
  PROVE  Fits(w, Effects!Collect(w, a), TRUE)
<1> DEFINE b == Effects!Reparent(w, a)
           c == Effects!Animate(b, {"opacity"}, {"opacity"})
<1>1. a \in Actors /\ Agrees(a) /\ Modest(a, kind[w]) /\ (w \notin sticky => Shaped(a))
  BY DEF Fits, Tracked
<1>2. /\ b \in Actors /\ b.in = a.in /\ b.hooks = a.hooks /\ b.owed = a.owed /\ b.life = a.life
      /\ w \notin sticky => Shaped(b)
  BY <1>1, ReparentFacts
<1>3. Effects!Collect(w, a) = IF w \in sticky /\ kind[w] # "note" THEN c ELSE b
  BY DEF Effects!Collect
<1> HIDE DEF b
<1>4. /\ c \in Actors /\ c.in = b.in /\ c.hooks = b.hooks /\ c.owed = b.owed /\ c.life = b.life
  <2>1. b \in Actors /\ {"opacity"} \in SUBSET Looks
    BY <1>2, NamesFacts
  <2>2. QED BY <2>1 DEF Effects!Animate, Actors
<1> HIDE DEF c
<1>5. Tracked(b, kind[w], TRUE) /\ Tracked(c, kind[w], TRUE)
  BY <1>1, <1>2, <1>4 DEF Tracked, Agrees, Animated, Modest
<1>6. QED BY <1>2, <1>3, <1>5 DEF Fits

LEMMA SwitchKeepsInv ==
  ASSUME EffectsInv, NEW ws \in SUBSET Shown, Effects!switch_workspace(ws)
  PROVE  EffectsInv'
<1> DEFINE f == [w \in Shown |-> IF enable_animations /\ w \in ws
                                 THEN Effects!Collect(w, Effects!Released(w))
                                 ELSE Effects!Released(w)]
<1>1. ActorsBecome(f)
  BY DEF Effects!switch_workspace, Effects!Become, ActorsBecome
<1>2. /\ UNCHANGED <<kind, sticky>> /\ (~switching' => collected' = {})
      /\ enable_animations => collected' = ws /\ switching' = TRUE
  BY DEF Effects!switch_workspace
<1>3. ASSUME NEW w \in Shown PROVE Fits(w, f[w], Held(w)')
  <2>1. CASE enable_animations /\ w \in ws
    <3>1. Held(w)' = TRUE
      BY <1>2, <2>1 DEF Held
    <3>2. Fits(w, Effects!Collect(w, Effects!Released(w)), TRUE)
      BY ReleasedFits, CollectFits
    <3>3. f[w] = Effects!Collect(w, Effects!Released(w))
      BY <2>1
    <3>4. QED BY <3>1, <3>2, <3>3
  <2>2. CASE ~(enable_animations /\ w \in ws)
    <3>1. f[w] = Effects!Released(w)
      BY <2>2
    <3> HIDE DEF f
    <3>2. QED BY <3>1, ReleasedFits
  <2>3. QED BY <2>1, <2>2
<1> HIDE DEF f
<1>4. QED BY <1>1, <1>2, <1>3, BecomesKeepsInv

LEMMA EndSwitchKeepsInv ==
  ASSUME EffectsInv, Effects!end_switch_workspace PROVE EffectsInv'
<1> DEFINE f == [w \in Shown |-> Effects!Released(w)]
<1>1. ActorsBecome(f)
  BY DEF Effects!end_switch_workspace, Effects!Become, ActorsBecome
<1>2. UNCHANGED <<kind, sticky>> /\ (~switching' => collected' = {})
  BY DEF Effects!end_switch_workspace
<1>3. ASSUME NEW w \in Shown PROVE Fits(w, f[w], Held(w)')
  BY ReleasedFits
<1> HIDE DEF f
<1>4. QED BY <1>1, <1>2, <1>3, BecomesKeepsInv

-----------------------------------------------------------------------------
(* WindowEffects: the theorems                                             *)

LEMMA EffectsInvCorrect == Effects!Spec => []EffectsInv
<1>1. Effects!Init => EffectsInv
  <2> SUFFICES ASSUME Effects!Init PROVE EffectsInv
    OBVIOUS
  <2>1. ASSUME NEW w \in Shown
        PROVE  Tracked(Effects!Actor(w), kind[w], Held(w)) /\ Shaped(Effects!Actor(w))
    <3> DEFINE a == Effects!Actor(w)
    <3>1. /\ a.in = {} /\ a.hooks = {} /\ a.running = FALSE /\ a.look = {} /\ a.goal = {}
          /\ a.owed = {} /\ a.life = "unmapped"
      BY DEF Effects!Init, Effects!Actor
    <3>2. a \in Actors
      BY <3>1 DEF Effects!Actor, Actors, Life
    <3> HIDE DEF a
    <3>3. Tracked(a, kind[w], Held(w)) /\ Shaped(a)
      BY <3>1, <3>2 DEF Tracked, Agrees, Animated, Modest, Shaped
    <3>4. QED BY <3>3 DEF a
  <2>2. kind \in [Shown -> Kinds] /\ collected = {}
    BY DEF Effects!Init, Kinds
  <2>3. QED BY <2>1, <2>2 DEF EffectsInv
<1>2. EffectsInv /\ [Effects!Next]_Effects!vars => EffectsInv'
  <2> SUFFICES ASSUME EffectsInv, [Effects!Next]_Effects!vars PROVE EffectsInv'
    OBVIOUS
  <2>1. ASSUME UNCHANGED <<kind, sticky, life, in, hooks, running, look, goal, owed, collected,
                           switching>>
        PROVE  EffectsInv'
    BY <2>1 DEF EffectsInv, Tracked, Held, Effects!Actor, Agrees, Animated, Modest, Shaped
  <2>2. CASE \E w \in Shown :
               \/ Effects!Map(w) \/ Effects!minimize(w) \/ Effects!unminimize(w)
               \/ Effects!destroy(w) \/ Effects!TransitionsCompleted(w) \/ Effects!SnapshotFaded(w)
               \/ \E effect \in {"maximize", "unmaximize"}, b \in BOOLEAN :
                    Effects!Resize(w, effect, b)
    BY <2>2, MapKeepsInv, MinimizeKeepsInv, UnminimizeKeepsInv, DestroyKeepsInv,
       TransitionsKeepInv, SnapshotKeepsInv, ResizeKeepsInv
  <2>3. CASE \E ws \in SUBSET Shown : Effects!switch_workspace(ws)
    BY <2>3, SwitchKeepsInv
  <2>4. CASE Effects!end_switch_workspace
    BY <2>4, EndSwitchKeepsInv
  <2>5. CASE \E b \in BOOLEAN : Effects!SetAnimations(b)
    BY <2>1, <2>5 DEF Effects!SetAnimations
  <2>6. CASE UNCHANGED Effects!vars
    BY <2>1, <2>6 DEF Effects!vars
  <2>7. QED BY <2>2, <2>3, <2>4, <2>5, <2>6 DEF Effects!Next
<1>3. QED BY <1>1, <1>2, PTL DEF Effects!Spec

\* Mutter is not left waiting: what it is owed is under way with its handler
\* connected, or in the containers of a switch, whatever cut the animation short.
THEOREM EffectsCorrect == Effects!Spec => []EffectsTracked
<1>1. EffectsInv => EffectsTracked
  <2> SUFFICES ASSUME EffectsInv, NEW w \in Shown
               PROVE  /\ \A effect \in owed[w] : (running[w] /\ effect \in hooks[w]) \/ Held(w)
                      /\ in[w] # {} /\ life[w] # "gone" => running[w] \/ Held(w)
    BY DEF EffectsTracked, Effects!EffectsTracked, Held
  <2>1. /\ owed[w] \subseteq in[w] /\ in[w] \subseteq hooks[w]
        /\ life[w] = "gone" => owed[w] = {}
        /\ in[w] # {} /\ life[w] # "gone" => running[w] \/ Held(w)
    BY DEF EffectsInv, Tracked, Agrees, Animated, Effects!Actor
  <2>2. QED BY <2>1
<1>2. QED BY <1>1, EffectsInvCorrect, PTL

\* A window that nothing animates any more has its full size and is opaque.
THEOREM ShapeCorrect == Effects!Spec => []ShapeRestored
<1>1. EffectsInv => ShapeRestored
  <2> SUFFICES ASSUME EffectsInv, NEW w \in Shown \ sticky, Effects!Settled(w)
               PROVE  look[w] \cap Effects!Shape = {}
    BY DEF ShapeRestored, Effects!ShapeRestored
  <2>1. /\ in[w] # {} /\ life[w] # "gone" => running[w] \/ Held(w)
        /\ life[w] = "live" /\ in[w] = {} => look[w] \cap Effects!Shape = {}
    BY DEF EffectsInv, Tracked, Animated, Shaped, Effects!Actor
  <2>2. QED BY <2>1 DEF Effects!Settled, Held
<1>2. QED BY <1>1, EffectsInvCorrect, PTL

-----------------------------------------------------------------------------
(* WorkspaceManager: the compositor between mutter's calls                 *)

Compositors ==
  [list : Seq(Ids), active : Ids, at : [Windows -> Ids \cup {Closed, Sticky, None}],
   marked : SUBSET Ids, frozen : Int, modal : Int, dynamic : BOOLEAN,
   assoc : [Windows -> Nat], over : BOOLEAN]

\* Workspaces are distinct, windows are on workspaces that exist, and what is
\* marked is gone.
Whole(t) ==
  /\ t \in Compositors
  /\ \A j, k \in DOMAIN t.list : t.list[j] = t.list[k] => j = k
  /\ t.active \in ToSet(t.list)
  /\ \A w \in Windows : t.at[w] \in ToSet(t.list) \cup {Closed, Sticky, None}
  /\ t.marked \cap ToSet(t.list) = {}

End(t) == t.list[Len(t.list)]
Vacant(t, id) == \A w \in Windows \cap Counted : t.at[w] # id

\* The last workspace is empty, and of the others only the active one may be.  What
\* happens when there are no more identities does not matter.
EndVacant(t) == t.dynamic /\ ~t.over => Vacant(t, End(t))
Tidy(t) ==
  t.dynamic /\ ~t.over => \A id \in ToSet(t.list) : Vacant(t, id) => id \in {t.active, End(t)}

SameRest(t, u) ==
  u.frozen = t.frozen /\ u.modal = t.modal /\ u.dynamic = t.dynamic /\ u.assoc = t.assoc

\* From t to u empty workspaces go, but not the last.
Thinner(t, u) ==
  /\ Whole(u) /\ SameRest(t, u) /\ u.over = t.over
  /\ ToSet(u.list) \subseteq ToSet(t.list) /\ End(u) = End(t)
  /\ \A w \in Windows : IF w \in Counted \/ t.at[w] \notin Ids THEN u.at[w] = t.at[w]
                        ELSE u.at[w] \in Ids

LEMMA EmptyIs ==
  ASSUME NEW t \in Compositors, NEW id
  PROVE  IsEmpty(t, id) <=> Vacant(t, id)
<1> DEFINE there == WindowsOf(t, id) \cap Counted
<1>1. DOMAIN t.at = Windows
  BY DEF Compositors
<1>2. there \subseteq Windows /\ IsFiniteSet(Windows)
  BY <1>1, WorkspaceAssumption DEF WindowsOf
<1>3. there = {} <=> Vacant(t, id)
  BY <1>1 DEF WindowsOf, Vacant
<1>4. get_n_windows(t, id) = Cardinality(there)
  BY DEF get_n_windows
<1> HIDE DEF there
<1>5. IsFiniteSet(there) /\ Cardinality(there) \in Nat /\ (Cardinality(there) = 0 <=> there = {})
  BY <1>2, FS_Subset, FS_CardinalityType, FS_EmptySet
<1>6. QED BY <1>3, <1>4, <1>5 DEF IsEmpty

LEMMA ListFacts ==
  ASSUME NEW t, Whole(t)
  PROVE  /\ t.list \in Seq(Ids) /\ Len(t.list) \in Nat \ {0} /\ DOMAIN t.list = 1..Len(t.list)
         /\ LastIndex(t) = Len(t.list) /\ End(t) \in ToSet(t.list) /\ ToSet(t.list) \subseteq Ids
         /\ \A k \in 1..Len(t.list) : t.list[k] \in ToSet(t.list)
<1>1. t.list \in Seq(Ids) /\ DOMAIN t.list = 1..Len(t.list) /\ Len(t.list) \in Nat
  BY DEF Whole, Compositors
<1>2. \A k \in 1..Len(t.list) : t.list[k] \in ToSet(t.list) /\ t.list[k] \in Ids
  BY <1>1 DEF ToSet
<1>3. Len(t.list) # 0
  BY <1>1 DEF Whole, ToSet
<1>4. ToSet(t.list) \subseteq Ids
  BY <1>1 DEF ToSet
<1>5. QED BY <1>1, <1>2, <1>3, <1>4 DEF End, LastIndex

LEMMA IndexIs ==
  ASSUME NEW t, Whole(t), NEW id
  PROVE  /\ id \in ToSet(t.list) => Index(t, id) \in 1..Len(t.list) /\ t.list[Index(t, id)] = id
         /\ id \notin ToSet(t.list) => Index(t, id) = 0
         /\ id \in ToSet(t.list) => (Index(t, id) = LastIndex(t) <=> id = End(t))
         /\ \A k \in 1..Len(t.list) : Index(t, t.list[k]) = k
<1>0. /\ DOMAIN t.list = 1..Len(t.list) /\ LastIndex(t) = Len(t.list) /\ Len(t.list) \in Nat \ {0}
      /\ \A j, k \in DOMAIN t.list : t.list[j] = t.list[k] => j = k
      /\ \A k \in 1..Len(t.list) : t.list[k] \in ToSet(t.list)
  BY ListFacts DEF Whole
<1>1. ASSUME NEW x \in ToSet(t.list)
      PROVE  Index(t, x) \in 1..Len(t.list) /\ t.list[Index(t, x)] = x
  <2>1. \E k \in DOMAIN t.list : t.list[k] = x
    BY DEF ToSet
  <2>2. Index(t, x) = CHOOSE k \in DOMAIN t.list : t.list[k] = x
    BY DEF Index
  <2>3. Index(t, x) \in DOMAIN t.list /\ t.list[Index(t, x)] = x
    BY <2>1, <2>2
  <2>4. QED BY <1>0, <2>3
<1>2. id \notin ToSet(t.list) => Index(t, id) = 0
  BY DEF Index
<1>3. ASSUME NEW k \in 1..Len(t.list) PROVE Index(t, t.list[k]) = k
  BY <1>0, <1>1
<1>4. id \in ToSet(t.list) => (Index(t, id) = LastIndex(t) <=> id = End(t))
  BY <1>0, <1>1, <1>3 DEF End
<1>5. QED BY <1>1, <1>2, <1>3, <1>4

LEMMA SameVacant ==
  ASSUME NEW t, NEW u, Thinner(t, u)
  PROVE  /\ \A id : Vacant(u, id) <=> Vacant(t, id)
         /\ EndVacant(t) => EndVacant(u)
BY DEF Thinner, Vacant, EndVacant, SameRest

LEMMA ThinnerTrans ==
  ASSUME NEW t, NEW u, NEW v, Thinner(t, u), Thinner(u, v)
  PROVE  Thinner(t, v)
<1>1. /\ Whole(v) /\ SameRest(t, v) /\ v.over = t.over
      /\ ToSet(v.list) \subseteq ToSet(t.list) /\ End(v) = End(t)
  BY DEF Thinner, SameRest
<1>2. ASSUME NEW w \in Windows
      PROVE  IF w \in Counted \/ t.at[w] \notin Ids THEN v.at[w] = t.at[w] ELSE v.at[w] \in Ids
  BY DEF Thinner
<1>3. QED BY <1>1, <1>2 DEF Thinner

LEMMA ThinnerSelf == ASSUME NEW t, Whole(t) PROVE Thinner(t, t)
BY DEF Thinner, SameRest

\* Of the windows but w none comes or goes, and the counted ones that share a
\* workspace still do, and no others.
Undisturbed(t, u, w) ==
  /\ \A x \in Windows \ {w} : IF t.at[x] \in Ids THEN u.at[x] \in Ids ELSE u.at[x] = t.at[x]
  /\ \A x, y \in (Windows \cap Counted) \ {w} :
       t.at[x] \in Ids /\ t.at[y] \in Ids => (t.at[x] = t.at[y] <=> u.at[x] = u.at[y])

LEMMA UndisturbedSelf == ASSUME NEW t, NEW w PROVE Undisturbed(t, t, w)
BY DEF Undisturbed

LEMMA UndisturbedTrans ==
  ASSUME NEW t, NEW u, NEW v, NEW w, Undisturbed(t, u, w), Undisturbed(u, v, w)
  PROVE  Undisturbed(t, v, w)
<1>1. ASSUME NEW x \in Windows \ {w}
      PROVE  IF t.at[x] \in Ids THEN v.at[x] \in Ids ELSE v.at[x] = t.at[x]
  BY DEF Undisturbed
<1>2. ASSUME NEW x \in (Windows \cap Counted) \ {w}, NEW y \in (Windows \cap Counted) \ {w},
             t.at[x] \in Ids, t.at[y] \in Ids
      PROVE  t.at[x] = t.at[y] <=> v.at[x] = v.at[y]
  <2>1. u.at[x] \in Ids /\ u.at[y] \in Ids
    BY <1>2 DEF Undisturbed
  <2>2. QED BY <1>2, <2>1 DEF Undisturbed
<1>3. QED BY <1>1, <1>2 DEF Undisturbed

LEMMA ThinnerUndisturbed ==
  ASSUME NEW t, NEW u, NEW w, Thinner(t, u)
  PROVE  Undisturbed(t, u, w)
BY DEF Thinner, Undisturbed

\* The second half of remove_workspace, for a workspace that was removed before.
LEMMA MarkOnly ==
  ASSUME NEW t, Whole(t), NEW id \in Ids, id \notin ToSet(t.list)
  PROVE  /\ Thinner(t, MarkAndRemove(t, id)) /\ MarkAndRemove(t, id).list = t.list
         /\ MarkAndRemove(t, id).active = t.active
<1>1. CASE id \in t.marked
  BY <1>1, ThinnerSelf DEF MarkAndRemove
<1>2. CASE id \notin t.marked
  <2> DEFINE u == [t EXCEPT !.marked = @ \cup {id}]
  <2>1. /\ u \in Compositors /\ u.list = t.list /\ u.at = t.at /\ u.active = t.active
        /\ u.marked = t.marked \cup {id} /\ SameRest(t, u) /\ u.over = t.over
    BY DEF Whole, Compositors, SameRest
  <2>2. MarkAndRemove(t, id) = u
    <3>1. Index(u, id) = 0
      BY <2>1 DEF Index
    <3>2. MarkAndRemove(t, id) = MutterRemove(u, id)
      BY <1>2 DEF MarkAndRemove
    <3> HIDE DEF u
    <3>3. QED BY <3>1, <3>2 DEF MutterRemove
  <2> HIDE DEF u
  <2>3. Whole(u)
    BY <2>1 DEF Whole
  <2>4. Thinner(t, u)
    BY <2>1, <2>3 DEF Thinner, End, Whole, Compositors
  <2>5. QED BY <2>1, <2>2, <2>4
<1>3. QED BY <1>1, <1>2

\* Taking a workspace off the list.
LEMMA ListWithout ==
  ASSUME NEW t, Whole(t), NEW k \in 1..Len(t.list), k # Len(t.list)
  PROVE  LET q == RemoveAt(t.list, k) IN
         /\ q \in Seq(Ids) /\ ToSet(q) = ToSet(t.list) \ {t.list[k]}
         /\ \A i, j \in DOMAIN q : q[i] = q[j] => i = j
         /\ Len(q) = Len(t.list) - 1 /\ q[Len(q)] = End(t)
<1> DEFINE q == RemoveAt(t.list, k)
           orig(i) == IF i < k THEN i ELSE i + 1
<1>0. /\ t.list \in Seq(Ids) /\ Len(t.list) \in Nat /\ DOMAIN t.list = 1..Len(t.list)
      /\ \A i, j \in DOMAIN t.list : t.list[i] = t.list[j] => i = j
  BY ListFacts DEF Whole
<1>1. /\ q \in Seq(Ids) /\ Len(q) = Len(t.list) - 1
      /\ \A i \in 1..k - 1 : q[i] = t.list[i]
      /\ \A i \in k..Len(t.list) - 1 : q[i] = t.list[i + 1]
  <2> DEFINE l == t.list
  <2>1. l \in Seq(Ids) /\ k \in 1..Len(l)
    BY <1>0
  <2> HIDE DEF l
  <2>2. /\ RemoveAt(l, k) \in Seq(Ids) /\ Len(RemoveAt(l, k)) = Len(l) - 1
        /\ \A i \in 1..k - 1 : RemoveAt(l, k)[i] = l[i]
        /\ \A i \in k..Len(l) - 1 : RemoveAt(l, k)[i] = l[i + 1]
    BY <2>1, RemoveAtFacts
  <2>3. QED BY <2>2 DEF l
<1> HIDE DEF q
<1>2. DOMAIN q = 1..Len(t.list) - 1
  BY <1>1
<1>3. ASSUME NEW i \in DOMAIN q PROVE orig(i) \in DOMAIN t.list /\ orig(i) # k /\ q[i] = t.list[orig(i)]
  <2>1. i \in 1..k - 1 \/ i \in k..Len(t.list) - 1
    BY <1>2
  <2>2. QED BY <1>0, <1>1, <1>2, <2>1
<1>4. \A i, j \in DOMAIN q : orig(i) = orig(j) => i = j
  BY <1>2
<1>5. \A j \in DOMAIN t.list : j # k => \E i \in DOMAIN q : orig(i) = j
  <2> SUFFICES ASSUME NEW j \in DOMAIN t.list, j # k PROVE \E i \in DOMAIN q : orig(i) = j
    OBVIOUS
  <2>1. CASE j < k
    BY <1>0, <1>2, <2>1
  <2>2. CASE j > k
    <3>1. j - 1 \in DOMAIN q /\ orig(j - 1) = j
      BY <1>0, <1>2, <2>2
    <3>2. QED BY <3>1
  <2>3. QED BY <1>0, <2>1, <2>2
<1>6. orig(Len(q)) = Len(t.list) /\ Len(q) \in DOMAIN q
  BY <1>0, <1>1, <1>2
<1> HIDE DEF orig
<1>7. \A i, j \in DOMAIN q : q[i] = q[j] => i = j
  BY <1>0, <1>3, <1>4
<1>8. ToSet(q) = ToSet(t.list) \ {t.list[k]}
  <2>1. ASSUME NEW x \in ToSet(q) PROVE x \in ToSet(t.list) \ {t.list[k]}
    <3>1. PICK i \in DOMAIN q : x = q[i]
      BY DEF ToSet
    <3>2. QED BY <1>0, <1>3, <3>1 DEF ToSet
  <2>2. ASSUME NEW x \in ToSet(t.list), x # t.list[k] PROVE x \in ToSet(q)
    <3>1. PICK j \in DOMAIN t.list : x = t.list[j] /\ j # k
      BY <2>2 DEF ToSet
    <3>2. PICK i \in DOMAIN q : orig(i) = j
      BY <1>5, <3>1
    <3>3. QED BY <1>3, <3>1, <3>2 DEF ToSet
  <2>3. QED BY <2>1, <2>2
<1>9. q[Len(q)] = End(t)
  BY <1>3, <1>6 DEF End
<1>10. QED BY <1>1, <1>7, <1>8, <1>9 DEF q

\* A workspace without counted windows is removed; its other windows go to a neighbour.
LEMMA Removal ==
  ASSUME NEW t, Whole(t), NEW id \in ToSet(t.list), id # End(t), Vacant(t, id)
  PROVE  LET u == MarkAndRemove(t, id) IN
         /\ Thinner(t, u) /\ ToSet(u.list) = ToSet(t.list) \ {id}
         /\ t.active # id => u.active = t.active
<1> DEFINE m == [t EXCEPT !.marked = @ \cup {id}]
           k == Index(t, id)
           q == RemoveAt(t.list, k)
           next == IF k > 1 THEN t.list[k - 1] ELSE t.list[k + 1]
           at == [w \in Windows |-> IF t.at[w] = id THEN next ELSE t.at[w]]
           u == [m EXCEPT !.list = q,
                          !.active = IF @ = id THEN next ELSE @,
                          !.at = [w \in DOMAIN @ |-> IF @[w] = id THEN next ELSE @[w]],
                          !.marked = @ \cap ToSet(q)]
<1>0. /\ t \in Compositors /\ t.list \in Seq(Ids) /\ Len(t.list) \in Nat
      /\ ToSet(t.list) \subseteq Ids /\ id \in Ids
      /\ \A i \in 1..Len(t.list) : t.list[i] \in ToSet(t.list)
      /\ \A i, j \in 1..Len(t.list) : t.list[i] = t.list[j] => i = j
      /\ \A w \in Windows : t.at[w] \in ToSet(t.list) \cup {Closed, Sticky, None}
      /\ t.active \in ToSet(t.list) /\ t.marked \cap ToSet(t.list) = {}
      /\ DOMAIN t.at = Windows
  BY ListFacts DEF Whole, Compositors
<1>1. k \in 1..Len(t.list) /\ t.list[k] = id /\ k # Len(t.list)
  BY IndexIs DEF End
<1>2. MarkAndRemove(t, id) = u
  <2>1. id \notin t.marked
    BY <1>0
  <2>2. MarkAndRemove(t, id) = MutterRemove(m, id)
    BY <2>1 DEF MarkAndRemove
  <2>3. m.list = t.list /\ Index(m, id) = k
    BY <1>0 DEF Compositors, Index
  <2>4. k # 0
    BY <1>1
  <2> HIDE DEF m, k
  <2>5. QED BY <2>2, <2>3, <2>4 DEF MutterRemove
<1> HIDE DEF k
<1>3. /\ q \in Seq(Ids) /\ ToSet(q) = ToSet(t.list) \ {id}
      /\ \A i, j \in DOMAIN q : q[i] = q[j] => i = j
      /\ q[Len(q)] = End(t)
  BY <1>1, ListWithout
<1> HIDE DEF q
<1>4. next \in ToSet(q)
  <2>1. k > 1 => k - 1 \in 1..Len(t.list) /\ k - 1 # k
    BY <1>0, <1>1
  <2>2. k + 1 \in 1..Len(t.list) /\ k + 1 # k
    BY <1>0, <1>1
  <2>3. next \in ToSet(t.list) /\ next # id
    BY <1>0, <1>1, <2>1, <2>2
  <2>4. QED BY <1>3, <2>3
<1> HIDE DEF next
<1>5. next \in Ids /\ ToSet(q) \subseteq Ids
  BY <1>0, <1>3, <1>4
<1>6. /\ m \in Compositors /\ m.list = t.list /\ m.active = t.active /\ m.at = t.at
      /\ m.marked = t.marked \cup {id} /\ SameRest(t, m) /\ m.over = t.over
  BY <1>0 DEF Compositors, SameRest
<1> HIDE DEF m
<1>7. at \in [Windows -> Ids \cup {Closed, Sticky, None}]
  BY <1>0, <1>5 DEF Compositors
<1>8. /\ u.list = q /\ u.active = (IF t.active = id THEN next ELSE t.active) /\ u.at = at
      /\ u.marked = (t.marked \cup {id}) \cap ToSet(q)
      /\ SameRest(t, u) /\ u.over = t.over
  BY <1>0, <1>6 DEF Compositors, SameRest
<1>9. u \in Compositors
  BY <1>0, <1>3, <1>5, <1>6, <1>7 DEF Compositors
<1> HIDE DEF u
<1>10. \A w \in Windows : u.at[w] = IF t.at[w] = id THEN next ELSE t.at[w]
  BY <1>8
<1>11. \A w \in Windows : u.at[w] \in ToSet(u.list) \cup {Closed, Sticky, None}
  BY <1>0, <1>3, <1>4, <1>8, <1>10
<1>12. Whole(u)
  BY <1>0, <1>3, <1>4, <1>8, <1>9, <1>11 DEF Whole
<1>13. ASSUME NEW w \in Windows
       PROVE  IF w \in Counted \/ t.at[w] \notin Ids THEN u.at[w] = t.at[w] ELSE u.at[w] \in Ids
  <2>1. w \in Counted \/ t.at[w] \notin Ids => t.at[w] # id
    BY <1>0 DEF Vacant
  <2>2. QED BY <1>5, <1>10, <2>1
<1>14. Thinner(t, u)
  BY <1>3, <1>8, <1>12, <1>13 DEF Thinner, End
<1>15. QED BY <1>2, <1>3, <1>8, <1>14

\* Activating a workspace removes the one that is left if it is empty.
LEMMA Activation ==
  ASSUME NEW t, Whole(t), NEW id \in ToSet(t.list)
  PROVE  LET u == activate(t, id) IN
         /\ Thinner(t, u) /\ u.active = id
         /\ ToSet(t.list) \ {t.active} \subseteq ToSet(u.list)
         /\ t.dynamic /\ Vacant(t, t.active) /\ t.active \notin {id, End(t)} =>
              t.active \notin ToSet(u.list)
         /\ ~Vacant(t, t.active) => ToSet(u.list) = ToSet(t.list)
<1>0. t \in Compositors /\ ToSet(t.list) \subseteq Ids /\ t.active \in ToSet(t.list)
  BY ListFacts DEF Whole
<1>1. CASE t.active = id
  BY <1>1, ThinnerSelf DEF activate
<1>2. CASE t.active # id
  <2> DEFINE v == [t EXCEPT !.active = id]
  <2>1. /\ v \in Compositors /\ v.list = t.list /\ v.at = t.at /\ v.active = id
        /\ v.marked = t.marked /\ SameRest(t, v) /\ v.over = t.over
    BY <1>0 DEF Compositors, SameRest
  <2>2. activate(t, id) = workspace_switched(v, t.active)
    BY <1>2 DEF activate
  <2> HIDE DEF v
  <2>3. Whole(v) /\ End(v) = End(t) /\ v.dynamic = t.dynamic
    BY <2>1 DEF Whole, End, SameRest
  <2>4. Thinner(t, v)
    BY <2>1, <2>3 DEF Thinner, Whole, Compositors
  <2>5. /\ IsEmpty(v, t.active) <=> Vacant(t, t.active)
        /\ Index(v, t.active) = LastIndex(v) <=> t.active = End(t)
    <3>1. IsEmpty(v, t.active) <=> Vacant(v, t.active)
      BY <2>1, EmptyIs
    <3>2. Index(v, t.active) = LastIndex(v) <=> t.active = End(v)
      BY <1>0, <2>1, <2>3, IndexIs
    <3>3. QED BY <2>1, <2>3, <3>1, <3>2 DEF Vacant
  <2>6. CASE t.dynamic /\ Vacant(t, t.active) /\ t.active # End(t)
    <3>1. activate(t, id) = MarkAndRemove(v, t.active)
      BY <2>2, <2>3, <2>5, <2>6 DEF workspace_switched
    <3>2. Vacant(v, t.active) /\ t.active \in ToSet(v.list) /\ t.active # End(v) /\ v.active # t.active
      BY <1>0, <1>2, <2>1, <2>3, <2>6 DEF Vacant
    <3>3. /\ Thinner(v, MarkAndRemove(v, t.active))
          /\ ToSet(MarkAndRemove(v, t.active).list) = ToSet(v.list) \ {t.active}
          /\ MarkAndRemove(v, t.active).active = v.active
      BY <2>3, <3>2, Removal
    <3>4. QED BY <2>1, <2>4, <2>6, <3>1, <3>3, ThinnerTrans
  <2>7. CASE ~(t.dynamic /\ Vacant(t, t.active) /\ t.active # End(t))
    <3>1. activate(t, id) = v
      BY <2>2, <2>3, <2>5, <2>7 DEF workspace_switched
    <3>2. QED BY <2>1, <2>4, <2>7, <3>1
  <2>8. QED BY <2>6, <2>7
<1>3. QED BY <1>1, <1>2

\* An empty workspace that is not the last is removed, and left first if it is active.
LEMMA RemoveFacts ==
  ASSUME NEW t, Whole(t), t.dynamic, NEW id \in ToSet(t.list), id # End(t), Vacant(t, id)
  PROVE  LET u == remove_workspace(t, id) IN
         /\ Thinner(t, u) /\ ToSet(u.list) = ToSet(t.list) \ {id}
         /\ t.active # id => u.active = t.active
<1> DEFINE up   == Neighbor(t, id, -1)
           next == IF up = id THEN Neighbor(t, id, 1) ELSE up
           v == activate(t, next)
<1>0. /\ ToSet(t.list) \subseteq Ids /\ DOMAIN t.list = 1..Len(t.list)
      /\ \A k \in DOMAIN t.list : t.list[k] \in ToSet(t.list)
  BY ListFacts
<1>1. \A step \in {-1, 1} : Neighbor(t, id, step) \in ToSet(t.list)
  BY <1>0 DEF Neighbor
<1>2. next \in ToSet(t.list)
  BY <1>1
<1>3. remove_workspace(t, id) = MarkAndRemove(IF id = t.active THEN v ELSE t, id)
  BY DEF remove_workspace
<1> HIDE DEF next
<1>4. CASE id # t.active
  <2>1. remove_workspace(t, id) = MarkAndRemove(t, id)
    BY <1>3, <1>4
  <2>2. QED BY <2>1, Removal
<1>5. CASE id = t.active
  <2>1. /\ Thinner(t, v) /\ v.active = next /\ ToSet(t.list) \ {id} \subseteq ToSet(v.list)
        /\ id # next => id \notin ToSet(v.list)
    BY <1>2, <1>5, Activation
  <2>2. remove_workspace(t, id) = MarkAndRemove(v, id)
    BY <1>3, <1>5
  <2> HIDE DEF v
  <2>3. Whole(v) /\ End(v) = End(t) /\ ToSet(v.list) \subseteq ToSet(t.list) /\ Vacant(v, id)
    BY <2>1, SameVacant DEF Thinner
  <2>4. CASE id \in ToSet(v.list)
    <3>1. /\ Thinner(v, MarkAndRemove(v, id))
          /\ ToSet(MarkAndRemove(v, id).list) = ToSet(v.list) \ {id}
      BY <2>3, <2>4, Removal
    <3>2. QED BY <1>5, <2>1, <2>2, <2>3, <3>1, ThinnerTrans
  <2>5. CASE id \notin ToSet(v.list)
    <3>1. /\ Thinner(v, MarkAndRemove(v, id)) /\ MarkAndRemove(v, id).list = v.list
      BY <1>0, <2>3, <2>5, MarkOnly
    <3>2. QED BY <1>5, <2>1, <2>2, <2>3, <2>5, <3>1, ThinnerTrans
  <2>6. QED BY <2>4, <2>5
<1>6. QED BY <1>4, <1>5

-----------------------------------------------------------------------------
(* WorkspaceManager: windows that come and go                              *)

\* From t to u workspaces may be added behind the others.
Fuller(t, u) ==
  /\ Whole(u) /\ SameRest(t, u) /\ (t.over => u.over)
  /\ u.at = t.at /\ u.active = t.active /\ ToSet(t.list) \subseteq ToSet(u.list)
  /\ Len(t.list) <= Len(u.list) /\ \A k \in 1..Len(t.list) : u.list[k] = t.list[k]

LEMMA AppendFacts ==
  ASSUME NEW t, Whole(t)
  PROVE  LET u == append_workspace(t) IN
         /\ Fuller(t, u) /\ Len(u.list) <= Len(t.list) + 1
         /\ ~u.over => /\ ToSet(u.list) = ToSet(t.list) \cup {End(u)} /\ End(u) \notin ToSet(t.list)
                       /\ Vacant(u, End(u)) /\ Len(u.list) = Len(t.list) + 1
<1> DEFINE fresh == Ids \ (ToSet(t.list) \cup t.marked)
           new == Min(fresh)
           u == append_workspace(t)
<1>0. /\ t \in Compositors /\ t.list \in Seq(Ids) /\ DOMAIN t.list = 1..Len(t.list)
      /\ Len(t.list) \in Nat \ {0}
      /\ \A i, j \in DOMAIN t.list : t.list[i] = t.list[j] => i = j
      /\ \A w \in Windows : t.at[w] \in ToSet(t.list) \cup {Closed, Sticky, None}
      /\ t.active \in ToSet(t.list) /\ t.marked \cap ToSet(t.list) = {}
  BY ListFacts DEF Whole
<1>1. CASE fresh = {}
  <2>1. u = [t EXCEPT !.over = TRUE]
    BY <1>1 DEF append_workspace
  <2>2. /\ u \in Compositors /\ u.list = t.list /\ u.at = t.at /\ u.active = t.active
        /\ u.marked = t.marked /\ SameRest(t, u) /\ u.over = TRUE
    BY <1>0, <2>1 DEF Compositors, SameRest
  <2> HIDE DEF u
  <2>3. Whole(u) /\ Len(t.list) <= Len(u.list) /\ Len(u.list) <= Len(t.list) + 1
    BY <1>0, <2>2 DEF Whole
  <2>4. QED BY <2>2, <2>3 DEF Fuller, u
<1>2. CASE fresh # {}
  <2>1. new \in fresh
    <3>1. fresh \subseteq Nat
      <4>1. Cardinality(Ids) \in Nat /\ Ids = 1..Cardinality(Ids)
        BY WorkspaceAssumption, FS_CardinalityType
      <4>2. Ids \subseteq Nat
        BY <4>1
      <4>3. QED BY <4>2
    <3>2. \E x \in fresh : \A y \in fresh : x <= y
      <4> HIDE DEF fresh
      <4>1. QED BY <1>2, <3>1, SmallestNumber
    <3>3. QED BY <3>2 DEF Min
  <2>2. new \in Ids /\ new \notin ToSet(t.list) /\ new \notin t.marked
    BY <2>1
  <2>3. u = [t EXCEPT !.list = Append(@, new)]
    BY <1>2 DEF append_workspace
  <2> HIDE DEF new, fresh
  <2>4. /\ u.list = Append(t.list, new) /\ u.at = t.at /\ u.active = t.active
        /\ u.marked = t.marked /\ SameRest(t, u) /\ u.over = t.over
    BY <1>0, <2>3 DEF Compositors, SameRest
  <2>5. u \in Compositors
    <3>1. Append(t.list, new) \in Seq(Ids)
      BY <1>0, <2>2
    <3>2. QED BY <1>0, <2>3, <3>1 DEF Compositors
  <2> HIDE DEF u
  <2>6. /\ DOMAIN u.list = 1..Len(t.list) + 1 /\ u.list[Len(t.list) + 1] = new
        /\ Len(u.list) = Len(t.list) + 1
        /\ \A k \in 1..Len(t.list) : u.list[k] = t.list[k]
    BY <1>0, <2>2, <2>4
  <2>7. \A k \in DOMAIN u.list : k \in DOMAIN t.list \/ k = Len(t.list) + 1
    BY <1>0, <2>6
  <2>8. ToSet(u.list) = ToSet(t.list) \cup {new}
    <3>1. \A k \in DOMAIN u.list : u.list[k] \in ToSet(t.list) \cup {new}
      BY <1>0, <2>6, <2>7 DEF ToSet
    <3>2. \A x \in ToSet(t.list) : x \in ToSet(u.list)
      BY <1>0, <2>6 DEF ToSet
    <3>3. new \in ToSet(u.list)
      BY <1>0, <2>6 DEF ToSet
    <3>4. QED BY <3>1, <3>2, <3>3 DEF ToSet
  <2>9. \A i, j \in DOMAIN u.list : u.list[i] = u.list[j] => i = j
    <3>1. \A k \in DOMAIN t.list : t.list[k] # new
      BY <2>2 DEF ToSet
    <3>2. QED BY <1>0, <2>6, <2>7, <3>1
  <2>10. Whole(u)
    BY <1>0, <2>2, <2>4, <2>5, <2>8, <2>9 DEF Whole
  <2>11. End(u) = new
    BY <2>6 DEF End
  <2>12. Vacant(u, new)
    BY <1>0, <2>2, <2>4, WorkspaceAssumption DEF Vacant
  <2>13. Len(t.list) <= Len(u.list) /\ Len(u.list) <= Len(t.list) + 1
    BY <1>0, <2>6
  <2>14. QED BY <2>2, <2>4, <2>6, <2>8, <2>10, <2>11, <2>12, <2>13 DEF Fuller, u
<1>3. QED BY <1>1, <1>2

\* What every operation keeps: the order of things, an empty workspace at the end
\* and, unless removals are frozen, no other.  No window gets lost.
Kept(t, u) ==
  /\ Whole(u) /\ SameRest(t, u) /\ (t.over => u.over)
  /\ EndVacant(t) => EndVacant(u)
  /\ t.frozen = 0 /\ Tidy(t) => Tidy(u)
  /\ \A w \in Windows : u.at[w] = None => t.at[w] = None

LEMMA KeptTrans ==
  ASSUME NEW t, NEW u, NEW v, Kept(t, u), Kept(u, v)
  PROVE  Kept(t, v)
BY DEF Kept, SameRest

LEMMA KeptSelf == ASSUME NEW t, Whole(t) PROVE Kept(t, t)
BY DEF Kept, SameRest

LEMMA ActivationKeeps ==
  ASSUME NEW t, Whole(t), NEW id \in ToSet(t.list)
  PROVE  Kept(t, activate(t, id))
<1> DEFINE u == activate(t, id)
<1>1. /\ Thinner(t, u) /\ u.active = id
      /\ t.dynamic /\ Vacant(t, t.active) /\ t.active \notin {id, End(t)} =>
           t.active \notin ToSet(u.list)
  BY Activation
<1> HIDE DEF u
<1>2. /\ Whole(u) /\ SameRest(t, u) /\ u.over = t.over /\ ToSet(u.list) \subseteq ToSet(t.list)
      /\ End(u) = End(t) /\ u.dynamic = t.dynamic
  BY <1>1 DEF Thinner, SameRest
<1>3. (\A x : Vacant(u, x) <=> Vacant(t, x)) /\ (EndVacant(t) => EndVacant(u))
  BY <1>1, SameVacant
<1>4. Tidy(t) => Tidy(u)
  BY <1>1, <1>2, <1>3 DEF Tidy
<1>5. ASSUME NEW w \in Windows, u.at[w] = None PROVE t.at[w] = None
  BY <1>1, <1>5, WorkspaceAssumption DEF Thinner
<1>6. QED BY <1>2, <1>3, <1>4, <1>5 DEF Kept, u

\* A window leaves its workspace, which is removed if nothing is left on it.
LEMMA TakeOffFacts ==
  ASSUME NEW t, Whole(t), NEW w \in Windows, t.at[w] # None
  PROVE  LET u == TakeOff(t, w) IN
         /\ Whole(u) /\ SameRest(t, u) /\ u.over = t.over
         /\ EndVacant(t) => EndVacant(u)
         /\ t.frozen = 0 /\ Tidy(t) => Tidy(u)
         /\ u.at[w] \notin Ids /\ ToSet(t.list) \ {t.at[w]} \subseteq ToSet(u.list)
         /\ \A x \in Windows \ {w} : u.at[x] = None => t.at[x] = None
         /\ Undisturbed(t, u, w)
         /\ t.frozen = 1 =>
              u.list = t.list /\ u.active = t.active /\ \A x \in Windows \ {w} : u.at[x] = t.at[x]
<1>id. PICK id : id = t.at[w]
  OBVIOUS
<1> DEFINE u == TakeOff(t, w)
           v == [t EXCEPT !.at[w] = None]
<1>0. /\ t \in Compositors /\ ToSet(t.list) \subseteq Ids /\ DOMAIN t.at = Windows
      /\ \A x \in Windows : t.at[x] \in ToSet(t.list) \cup {Closed, Sticky, None}
  BY ListFacts DEF Whole, Compositors
<1>1. CASE id \in {Closed, Sticky}
  <2>1. u = t
    BY <1>id, <1>1 DEF TakeOff
  <2>2. SameRest(t, t) /\ Undisturbed(t, t, w)
    BY UndisturbedSelf DEF SameRest
  <2>3. QED BY <1>id, <1>1, <2>1, <2>2, WorkspaceAssumption
<1>2. CASE id \notin {Closed, Sticky}
  <2>1. id \in ToSet(t.list) /\ id \in Ids
    BY <1>id, <1>0, <1>2
  <2>2. u = window_removed(v, id, w, FALSE)
    BY <1>id, <1>2 DEF TakeOff
  <2>3. /\ v \in Compositors /\ v.list = t.list /\ v.active = t.active /\ v.marked = t.marked
        /\ v.at = [t.at EXCEPT ![w] = None] /\ SameRest(t, v) /\ v.over = t.over
    BY <1>0 DEF Compositors, SameRest
  <2> HIDE DEF v, u
  <2>4. \A x \in Windows : v.at[x] = IF x = w THEN None ELSE t.at[x]
    BY <1>0, <2>3
  <2>5. Whole(v) /\ End(v) = End(t) /\ v.dynamic = t.dynamic
    BY <1>0, <2>3, <2>4 DEF Whole, End, SameRest
  <2>6. /\ \A x \in Ids : Vacant(t, x) => Vacant(v, x)
        /\ \A x \in Ids : Vacant(v, x) /\ (x # id \/ w \notin Counted) => Vacant(t, x)
    BY <1>id, <2>4, WorkspaceAssumption DEF Vacant
  <2>7. End(t) \in Ids /\ (EndVacant(t) => EndVacant(v))
    <3>1. End(t) \in Ids
      BY <1>0, ListFacts
    <3>2. QED BY <2>3, <2>5, <2>6, <3>1 DEF EndVacant
  <2>z. Undisturbed(t, v, w)
    BY <2>4 DEF Undisturbed
  <2>8. CASE /\ t.dynamic /\ w \in Counted /\ (id # t.active \/ is_modal(v))
             /\ v.frozen < 1 /\ Vacant(v, id) /\ id # End(t)
    <3>1. IsEmpty(v, id) /\ Index(v, id) # LastIndex(v) /\ Index(v, id) # 0
      BY <2>1, <2>3, <2>5, <2>8, EmptyIs, IndexIs, ListFacts
    <3>2. u = remove_workspace(v, id)
      <4>1. /\ v.dynamic /\ w \in Counted /\ Index(v, id) # 0
            /\ id # v.active \/ is_modal(v)
            /\ v.frozen < 1 /\ IsEmpty(v, id) /\ Index(v, id) # LastIndex(v)
        BY <2>3, <2>5, <2>8, <3>1
      <4>2. QED BY <2>2, <4>1 DEF window_removed
    <3>3. /\ Thinner(v, u) /\ ToSet(u.list) = ToSet(v.list) \ {id}
          /\ (v.active # id => u.active = v.active)
      <4>1. id \in ToSet(v.list) /\ id # End(v) /\ v.dynamic
        BY <2>1, <2>3, <2>5, <2>8
      <4>2. QED BY <2>5, <2>8, <3>2, <4>1, RemoveFacts
    <3>4. (\A x : Vacant(u, x) <=> Vacant(v, x)) /\ (EndVacant(v) => EndVacant(u))
      BY <3>3, SameVacant
    <3>5. Whole(u) /\ SameRest(t, u) /\ u.over = t.over /\ End(u) = End(t) /\ u.dynamic = t.dynamic
      BY <2>3, <2>5, <3>3 DEF Thinner, SameRest
    <3>6. ASSUME Tidy(t) PROVE Tidy(u)
      BY <1>0, <2>3, <2>6, <3>3, <3>4, <3>5, <3>6 DEF Tidy
    <3>7. ASSUME NEW x \in Windows PROVE u.at[x] = None <=> v.at[x] = None
      BY <3>3, WorkspaceAssumption DEF Thinner
    <3>8. u.at[w] \notin Ids
      BY <2>4, <3>7, WorkspaceAssumption
    <3>9. Undisturbed(t, u, w)
      BY <2>z, <3>3, ThinnerUndisturbed, UndisturbedTrans
    <3>10. t.frozen # 1
      BY <2>3, <2>8 DEF SameRest
    <3>11. QED BY <1>id, <2>3, <2>4, <2>7, <3>3, <3>4, <3>5, <3>6, <3>7, <3>8, <3>9, <3>10 DEF u
  <2>9. CASE ~(/\ t.dynamic /\ w \in Counted /\ (id # t.active \/ is_modal(v))
               /\ v.frozen < 1 /\ Vacant(v, id) /\ id # End(t))
    <3>1. IsEmpty(v, id) <=> Vacant(v, id)
      BY <2>3, EmptyIs
    <3>2. Index(v, id) # LastIndex(v) <=> id # End(t)
      BY <2>1, <2>3, <2>5, IndexIs
    <3>3. u = v
      BY <2>2, <2>3, <2>5, <2>9, <3>1, <3>2 DEF window_removed
    <3>4. ASSUME t.frozen = 0, Tidy(t) PROVE Tidy(v)
      <4>1. v.frozen < 1
        BY <2>3, <3>4 DEF SameRest
      <4>2. SUFFICES ASSUME v.dynamic, ~v.over, NEW x \in ToSet(v.list), Vacant(v, x)
                     PROVE  x \in {v.active, End(v)}
        BY DEF Tidy
      <4>3. CASE x # id \/ w \notin Counted
        BY <1>0, <2>3, <2>5, <2>6, <3>4, <4>2, <4>3 DEF Tidy
      <4>4. CASE x = id /\ w \in Counted
        BY <2>3, <2>5, <2>9, <4>1, <4>2, <4>4
      <4>5. QED BY <4>3, <4>4
    <3>5. v.at[w] \notin Ids
      BY <2>4, WorkspaceAssumption
    <3>6. QED BY <1>id, <2>3, <2>4, <2>5, <2>7, <2>z, <3>3, <3>4, <3>5 DEF u
  <2>10. QED BY <2>8, <2>9
<1>3. QED BY <1>1, <1>2

\* Workspaces may be added behind the others, at most one and only if b holds.
Prolonged(t, u, b) ==
  /\ u.active = t.active /\ Len(t.list) <= Len(u.list) /\ Len(u.list) <= Len(t.list) + 1
  /\ \A k \in 1..Len(t.list) : u.list[k] = t.list[k]
  /\ b \/ Len(u.list) = Len(t.list)

\* A window comes to a workspace; behind the last one there is a new one then.
LEMMA PutOnFacts ==
  ASSUME NEW t, Whole(t), NEW w \in Windows, t.at[w] \notin Ids, NEW id \in ToSet(t.list)
  PROVE  LET u == PutOn(t, w, id) IN
         /\ Kept(t, u) /\ ToSet(t.list) \subseteq ToSet(u.list)
         /\ \A x \in Windows : u.at[x] = IF x = w THEN id ELSE t.at[x]
         /\ Prolonged(t, u, t.dynamic /\ w \in Counted /\ id = End(t))
<1> DEFINE v == [t EXCEPT !.at[w] = id]
           u == PutOn(t, w, id)
           a == append_workspace(v)
<1>0. /\ t \in Compositors /\ ToSet(t.list) \subseteq Ids /\ DOMAIN t.at = Windows
      /\ \A x \in Windows : t.at[x] \in ToSet(t.list) \cup {Closed, Sticky, None}
      /\ End(t) \in ToSet(t.list) /\ id \in Ids /\ Len(t.list) \in Nat
  BY ListFacts DEF Whole, Compositors
<1>1. /\ v \in Compositors /\ v.list = t.list /\ v.active = t.active /\ v.marked = t.marked
      /\ v.at = [t.at EXCEPT ![w] = id] /\ SameRest(t, v) /\ v.over = t.over
  BY <1>0 DEF Compositors, SameRest
<1>2. u = window_added(v, id, w)
  BY DEF PutOn
<1> HIDE DEF v, u
<1>3. \A x \in Windows : v.at[x] = IF x = w THEN id ELSE t.at[x]
  BY <1>0, <1>1
<1>4. Whole(v) /\ End(v) = End(t) /\ v.dynamic = t.dynamic
  BY <1>0, <1>1, <1>3 DEF Whole, End, SameRest
<1>5. /\ \A x \in Ids : Vacant(v, x) => Vacant(t, x)
      /\ \A x \in Ids : Vacant(t, x) /\ (x # id \/ w \notin Counted) => Vacant(v, x)
      /\ w \in Counted => ~Vacant(v, id)
  BY <1>3 DEF Vacant
<1>6. id # None /\ id # Sticky
  BY <1>0, WorkspaceAssumption
<1>7. v.at[w] # Sticky /\ (Index(v, id) = LastIndex(v) <=> id = End(t))
  BY <1>1, <1>3, <1>4, <1>6, IndexIs
<1>8. CASE t.dynamic /\ w \in Counted /\ id = End(t)
  <2>1. u = a
    BY <1>2, <1>4, <1>7, <1>8 DEF window_added
  <2>2. /\ Fuller(v, a) /\ Len(a.list) <= Len(v.list) + 1
        /\ ~a.over => /\ ToSet(a.list) = ToSet(v.list) \cup {End(a)} /\ End(a) \notin ToSet(v.list)
                      /\ Vacant(a, End(a))
    BY <1>4, AppendFacts
  <2> HIDE DEF a
  <2>3. /\ Whole(a) /\ SameRest(t, a) /\ (t.over => a.over) /\ a.at = v.at /\ a.active = t.active
        /\ ToSet(t.list) \subseteq ToSet(a.list) /\ a.dynamic = t.dynamic
    BY <1>1, <2>2 DEF Fuller, SameRest
  <2>4. EndVacant(a)
    BY <2>2 DEF EndVacant
  <2>5. ASSUME Tidy(t) PROVE Tidy(a)
    <3>1. SUFFICES ASSUME a.dynamic, ~a.over, NEW x \in ToSet(a.list), Vacant(a, x)
                   PROVE  x \in {a.active, End(a)}
      BY DEF Tidy
    <3>2. Vacant(v, x)
      BY <2>3, <3>1 DEF Vacant
    <3>3. x # End(a) => x \in ToSet(t.list) /\ x # id
      BY <1>1, <1>5, <1>8, <2>2, <3>1, <3>2
    <3>4. QED BY <1>0, <1>5, <1>8, <2>3, <2>5, <3>1, <3>2, <3>3 DEF Tidy
  <2>6. /\ Len(t.list) <= Len(a.list) /\ Len(a.list) <= Len(t.list) + 1
        /\ \A k \in 1..Len(t.list) : a.list[k] = t.list[k]
    BY <1>1, <2>2 DEF Fuller
  <2>7. QED BY <1>3, <1>6, <1>8, <2>1, <2>3, <2>4, <2>5, <2>6 DEF Kept, Prolonged, u
<1>9. CASE ~(t.dynamic /\ w \in Counted /\ id = End(t))
  <2>1. u = v
    BY <1>2, <1>4, <1>7, <1>9 DEF window_added
  <2>2. EndVacant(t) => EndVacant(v)
    BY <1>0, <1>1, <1>4, <1>5, <1>9 DEF EndVacant
  <2>3. Tidy(t) => Tidy(v)
    BY <1>0, <1>1, <1>4, <1>5 DEF Tidy
  <2>4. QED BY <1>0, <1>1, <1>3, <1>4, <1>6, <2>1, <2>2, <2>3 DEF Kept, Prolonged, u
<1>10. QED BY <1>8, <1>9

LEMMA ChangeFacts ==
  ASSUME NEW t, Whole(t), NEW w \in Windows, t.at[w] # None, NEW id \in ToSet(t.list)
  PROVE  LET u == change_workspace(t, w, id) IN
         Kept(t, u) /\ id \in ToSet(u.list) /\ u.at[w] # None /\ Undisturbed(t, u, w)
<1> DEFINE v == TakeOff(t, w)
           u == change_workspace(t, w, id)
<1>1. CASE t.at[w] = id
  BY <1>1, KeptSelf, UndisturbedSelf DEF change_workspace
<1>2. CASE t.at[w] # id
  <2>1. u = PutOn(v, w, id)
    BY <1>2 DEF change_workspace
  <2>2. /\ Whole(v) /\ SameRest(t, v) /\ v.over = t.over
        /\ EndVacant(t) => EndVacant(v)
        /\ t.frozen = 0 /\ Tidy(t) => Tidy(v)
        /\ v.at[w] \notin Ids /\ ToSet(t.list) \ {t.at[w]} \subseteq ToSet(v.list)
        /\ \A x \in Windows \ {w} : v.at[x] = None => t.at[x] = None
        /\ Undisturbed(t, v, w)
    BY TakeOffFacts
  <2> HIDE DEF v, u
  <2>3. id \in ToSet(v.list) /\ id \in Ids
    BY <1>2, <2>2, ListFacts
  <2>4. /\ Kept(v, u) /\ ToSet(v.list) \subseteq ToSet(u.list)
        /\ \A x \in Windows : u.at[x] = IF x = w THEN id ELSE v.at[x]
    BY <2>1, <2>2, <2>3, PutOnFacts
  <2>5. u.at[w] # None
    BY <2>3, <2>4, WorkspaceAssumption
  <2>6. ASSUME NEW x \in Windows, u.at[x] = None PROVE t.at[x] = None
    BY <2>2, <2>4, <2>5, <2>6
  <2>7. v.frozen = t.frozen
    BY <2>2 DEF SameRest
  <2>8. Kept(t, u)
    BY <2>2, <2>4, <2>6, <2>7 DEF Kept, SameRest
  <2>9. Undisturbed(v, u, w)
    BY <2>4 DEF Undisturbed
  <2>10. QED BY <2>2, <2>3, <2>4, <2>5, <2>8, <2>9, UndisturbedTrans DEF u
<1>3. QED BY <1>1, <1>2

\* One turn of the loop of cleanup.
Swept(t, id) ==
  IF IsEmpty(t, id) /\ Index(t, id) # LastIndex(t) THEN remove_workspace(t, id) ELSE t

LEMMA SweptFacts ==
  ASSUME NEW t, Whole(t), t.dynamic, NEW id \in Ids
  PROVE  LET u == Swept(t, id) IN
         /\ Thinner(t, u)
         /\ id \in ToSet(u.list) /\ Vacant(u, id) => id = End(u)
<1>1. t \in Compositors /\ t.active \in ToSet(t.list) /\ End(t) \in ToSet(t.list)
  BY ListFacts DEF Whole
<1>2. CASE id \notin ToSet(t.list)
  <2>1. remove_workspace(t, id) = MarkAndRemove(t, id)
    BY <1>1, <1>2 DEF remove_workspace
  <2>2. Thinner(t, MarkAndRemove(t, id)) /\ MarkAndRemove(t, id).list = t.list
    BY <1>2, MarkOnly
  <2>3. QED BY <1>2, <2>1, <2>2, ThinnerSelf DEF Swept
<1>3. CASE id \in ToSet(t.list)
  <2>1. (IsEmpty(t, id) <=> Vacant(t, id)) /\ (Index(t, id) = LastIndex(t) <=> id = End(t))
    BY <1>1, <1>3, EmptyIs, IndexIs
  <2>2. CASE Vacant(t, id) /\ id # End(t)
    <3>1. /\ Thinner(t, remove_workspace(t, id))
          /\ ToSet(remove_workspace(t, id).list) = ToSet(t.list) \ {id}
      BY <1>3, <2>2, RemoveFacts
    <3>2. QED BY <2>1, <2>2, <3>1 DEF Swept
  <2>3. CASE ~(Vacant(t, id) /\ id # End(t))
    <3>1. Swept(t, id) = t
      BY <2>1, <2>3 DEF Swept
    <3>2. QED BY <2>3, <3>1, ThinnerSelf
  <2>4. QED BY <2>2, <2>3
<1>4. QED BY <1>2, <1>3

\* cleanup leaves no workspace empty but the last.
LEMMA CleanupFacts ==
  ASSUME NEW t, Whole(t)
  PROVE  Thinner(t, cleanup(t)) /\ Tidy(cleanup(t))
<1>1. CASE ~t.dynamic
  <2>1. cleanup(t) = t
    BY <1>1 DEF cleanup
  <2>2. QED BY <1>1, <2>1, ThinnerSelf DEF Tidy
<1>2. CASE t.dynamic
  <2>n. PICK n : n = Len(t.list)
    OBVIOUS
  <2>0. /\ n \in Nat /\ t \in Compositors /\ ToSet(t.list) \subseteq Ids
        /\ \A k \in 1..n : t.list[k] \in Ids
        /\ \A x \in ToSet(t.list) : \E k \in 1..n : x = t.list[k]
    BY <2>n, ListFacts DEF Whole, ToSet
  <2> DEFINE S == {v \in Compositors : Thinner(t, v)}
             step == [k \in 1..n |-> [v \in S |-> Swept(v, t.list[k])]]
             body(o) == [k \in 0..n |-> IF k = 0 THEN t ELSE Swept(o[k - 1], t.list[k])]
             order == CHOOSE o : o = body(o)
  <2>1. \A v \in S : Thinner(t, v) /\ Whole(v) /\ v.dynamic
    BY <1>2 DEF Thinner, SameRest
  <2>2. \A v \in Compositors : Thinner(t, v) => v \in S
    OBVIOUS
  <2>3. t \in S
    BY <2>0, ThinnerSelf
  <2> HIDE DEF S
  <2>4. ASSUME NEW v \in S, NEW k \in 1..n
        PROVE  /\ Swept(v, t.list[k]) \in S
               /\ Thinner(v, Swept(v, t.list[k]))
               /\ t.list[k] \in ToSet(Swept(v, t.list[k]).list) /\ Vacant(Swept(v, t.list[k]), t.list[k])
                    => t.list[k] = End(Swept(v, t.list[k]))
    <3>1. PICK id : id = t.list[k]
      OBVIOUS
    <3>2. id \in Ids
      BY <2>0, <3>1
    <3>3. /\ Thinner(v, Swept(v, id))
          /\ id \in ToSet(Swept(v, id).list) /\ Vacant(Swept(v, id), id) => id = End(Swept(v, id))
      BY <2>1, <3>2, SweptFacts
    <3>4. Thinner(t, Swept(v, id))
      BY <2>1, <3>3, ThinnerTrans
    <3>5. Swept(v, id) \in Compositors
      BY <3>3 DEF Thinner, Whole
    <3>6. QED BY <2>2, <3>1, <3>3, <3>4, <3>5
  <2>5. step \in [1..n -> [S -> S]]
    BY <2>4
  <2>6. \A k \in 1..n, v \in S : step[k][v] = Swept(v, t.list[k])
    OBVIOUS
  <2> HIDE DEF step
  <2>7. PICK g \in [0..n -> S] : g[0] = t /\ \A k \in 1..n : g[k] = step[k][g[k - 1]]
    BY <2>0, <2>3, <2>5, Folding
  <2>8. g = body(g)
    <3>1. ASSUME NEW k \in 0..n PROVE g[k] = body(g)[k]
      <4>1. CASE k = 0
        BY <2>7, <4>1
      <4>2. CASE k # 0
        <5>1. k \in 1..n /\ k - 1 \in 0..n
          BY <2>0, <4>2
        <5>2. g[k - 1] \in S
          BY <2>7, <5>1
        <5>3. QED BY <2>6, <2>7, <4>2, <5>1, <5>2
      <4>3. QED BY <4>1, <4>2
    <3>2. QED BY <2>7, <3>1
  <2>9. order = body(order)
    <3> HIDE DEF body
    <3>1. QED BY <2>8
  <2>10. cleanup(t) = order[n]
    BY <1>2, <2>n DEF cleanup, Swept
  <2> HIDE DEF order
  <2>11. order[0] = t /\ \A k \in 1..n : order[k] = Swept(order[k - 1], t.list[k])
    BY <2>0, <2>9
  <2> HIDE DEF body
  <2> DEFINE Done == {k \in 0..n : /\ order[k] \in S
                                   /\ \A j \in 1..k : t.list[j] \in ToSet(order[k].list)
                                        /\ Vacant(order[k], t.list[j]) => t.list[j] = End(order[k])}
  <2>12. 0 \in Done
    BY <2>0, <2>3, <2>11
  <2>13. ASSUME NEW k \in 1..n, k - 1 \in Done PROVE k \in Done
    <3>1. PICK v : v = order[k - 1]
      OBVIOUS
    <3>2. PICK u : u = order[k]
      OBVIOUS
    <3>3. /\ v \in S /\ u = Swept(v, t.list[k])
          /\ \A j \in 1..k - 1 : t.list[j] \in ToSet(v.list) /\ Vacant(v, t.list[j]) => t.list[j] = End(v)
      BY <2>11, <2>13, <3>1, <3>2
    <3>4. /\ u \in S /\ Thinner(v, u)
          /\ t.list[k] \in ToSet(u.list) /\ Vacant(u, t.list[k]) => t.list[k] = End(u)
      BY <2>4, <3>3
    <3>5. ASSUME NEW j \in 1..k, t.list[j] \in ToSet(u.list), Vacant(u, t.list[j])
          PROVE  t.list[j] = End(u)
      <4>1. CASE j = k
        BY <3>4, <3>5, <4>1
      <4>2. CASE j # k
        <5>1. j \in 1..k - 1
          BY <4>2
        <5>2. Vacant(v, t.list[j])
          BY <3>4, <3>5, SameVacant
        <5>3. ToSet(u.list) \subseteq ToSet(v.list) /\ End(u) = End(v)
          BY <3>4 DEF Thinner
        <5>4. QED BY <3>3, <3>5, <5>1, <5>2, <5>3
      <4>3. QED BY <4>1, <4>2
    <3>6. k \in 0..n
      OBVIOUS
    <3>7. QED BY <3>2, <3>4, <3>5, <3>6
  <2>14. n \in Done
    <3> HIDE DEF Done
    <3>1. \A k \in 0..n : k \in Done
      BY <2>0, <2>12, <2>13, RangeInduction
    <3>2. QED BY <2>0, <3>1
  <2>15. Thinner(t, order[n])
    BY <2>1, <2>14
  <2>16. Tidy(order[n])
    <3>1. SUFFICES ASSUME NEW x \in ToSet(order[n].list), Vacant(order[n], x)
                   PROVE  x = End(order[n])
      BY DEF Tidy
    <3>2. x \in ToSet(t.list)
      BY <2>15, <3>1 DEF Thinner
    <3>3. PICK j \in 1..n : x = t.list[j]
      BY <2>0, <3>2
    <3>4. QED BY <2>14, <3>1, <3>3
  <2>17. QED BY <2>10, <2>15, <2>16
<1>3. QED BY <1>1, <1>2

LEMMA CleanupKeeps ==
  ASSUME NEW t, Whole(t)
  PROVE  Kept(t, cleanup(t))
<1>1. Thinner(t, cleanup(t)) /\ Tidy(cleanup(t))
  BY CleanupFacts
<1>2. EndVacant(t) => EndVacant(cleanup(t))
  BY <1>1, SameVacant
<1>3. \A w \in Windows : cleanup(t).at[w] = None => t.at[w] = None
  BY <1>1, WorkspaceAssumption DEF Thinner
<1>4. QED BY <1>1, <1>2, <1>3 DEF Thinner, Kept

\* While removals are frozen, workspaces may be added behind the others.
LEMMA AppendKeeps ==
  ASSUME NEW t, Whole(t), t.frozen # 0
  PROVE  LET u == append_workspace(t) IN Kept(t, u) /\ ToSet(t.list) \subseteq ToSet(u.list) /\ u.at = t.at
<1> DEFINE u == append_workspace(t)
<1>1. /\ Fuller(t, u)
      /\ ~u.over => Vacant(u, End(u))
  BY AppendFacts
<1> HIDE DEF u
<1>2. EndVacant(u)
  BY <1>1 DEF EndVacant
<1>3. QED BY <1>1, <1>2 DEF Fuller, Kept, u

\* No window is nowhere.
Housed(t) == \A w \in Windows : t.at[w] # None

LEMMA ByIndexFacts ==
  ASSUME NEW t, Whole(t), t.frozen # 0, NEW w \in Windows, t.at[w] # None, NEW k \in Nat \ {0}
  PROVE  Kept(t, ChangeByIndex(t, w, k))
<1>0. Len(t.list) \in Nat \ {0} /\ LastIndex(t) = Len(t.list)
  BY ListFacts
<1>1. CASE k <= LastIndex(t)
  <2>1. PICK id : id = t.list[k]
    OBVIOUS
  <2>2. id \in ToSet(t.list)
    BY <1>0, <1>1, <2>1, ListFacts
  <2>3. ChangeByIndex(t, w, k) = change_workspace(t, w, id)
    BY <1>1, <2>1 DEF ChangeByIndex
  <2>4. QED BY <2>2, <2>3, ChangeFacts
<1>2. CASE ~(k <= LastIndex(t))
  <2>1. PICK u : u = append_workspace(t)
    OBVIOUS
  <2>2. Kept(t, u) /\ u.at = t.at
    BY <2>1, AppendKeeps
  <2>3. Whole(u)
    BY <2>2 DEF Kept
  <2>4. End(u) \in ToSet(u.list) /\ Last(u.list) = End(u)
    BY <2>3, ListFacts DEF End, Last
  <2>5. PICK id : id = Last(u.list)
    OBVIOUS
  <2>6. ChangeByIndex(t, w, k) = change_workspace(u, w, id)
    BY <1>2, <2>1, <2>5 DEF ChangeByIndex
  <2>7. Kept(u, change_workspace(u, w, id))
    BY <2>2, <2>3, <2>4, <2>5, ChangeFacts
  <2>8. QED BY <2>2, <2>6, <2>7, KeptTrans
<1>3. QED BY <1>1, <1>2

\* One turn of the loop of insert_workspace_with_window.
Shifted(t, x, k) ==
  IF t.at[x] \notin {Closed, Sticky} /\ Index(t, t.at[x]) >= k
  THEN ChangeByIndex(t, x, Index(t, t.at[x]) + 1) ELSE t

LEMMA ShiftedFacts ==
  ASSUME NEW t, Whole(t), Housed(t), t.frozen # 0, NEW x \in Windows, NEW k
  PROVE  Kept(t, Shifted(t, x, k))
<1>1. t.at[x] # None /\ t.at[x] \in ToSet(t.list) \cup {Closed, Sticky, None} /\ Len(t.list) \in Nat
  BY ListFacts DEF Housed, Whole
<1>2. CASE t.at[x] \notin {Closed, Sticky} /\ Index(t, t.at[x]) >= k
  <2>1. PICK m : m = Index(t, t.at[x]) + 1
    OBVIOUS
  <2>2. PICK id : id = t.at[x]
    OBVIOUS
  <2>3. id \in ToSet(t.list)
    BY <1>1, <1>2, <2>2
  <2>4. Index(t, id) \in 1..Len(t.list)
    BY <2>3, IndexIs
  <2>5. m \in Nat \ {0}
    BY <1>1, <2>1, <2>2, <2>4
  <2>6. Shifted(t, x, k) = ChangeByIndex(t, x, m)
    BY <1>2, <2>1 DEF Shifted
  <2>7. QED BY <1>1, <2>5, <2>6, ByIndexFacts
<1>3. CASE ~(t.at[x] \notin {Closed, Sticky} /\ Index(t, t.at[x]) >= k)
  BY <1>3, KeptSelf DEF Shifted
<1>4. QED BY <1>2, <1>3

\* The number of freezes is all that changes.
LEMMA FreezeFacts ==
  ASSUME NEW t, Whole(t), NEW d \in Int
  PROVE  LET u == [t EXCEPT !.frozen = @ + d] IN
         /\ Whole(u) /\ u.frozen = t.frozen + d /\ u.over = t.over /\ u.at = t.at /\ u.list = t.list
         /\ u.active = t.active
         /\ u.modal = t.modal /\ u.dynamic = t.dynamic /\ u.assoc = t.assoc
         /\ EndVacant(u) <=> EndVacant(t)
<1> DEFINE u == [t EXCEPT !.frozen = @ + d]
<1>1. t \in Compositors /\ t.frozen \in Int
  BY DEF Whole, Compositors
<1>m. PICK m : m = t.frozen + d /\ m \in Int
  BY <1>1
<1>e. u = [t EXCEPT !.frozen = m]
  BY <1>m
<1> HIDE DEF u
<1>2. /\ u \in Compositors /\ u.list = t.list /\ u.active = t.active /\ u.marked = t.marked
      /\ u.frozen = t.frozen + d /\ u.over = t.over /\ u.at = t.at
      /\ u.modal = t.modal /\ u.dynamic = t.dynamic /\ u.assoc = t.assoc
  BY <1>m, <1>1, <1>e DEF Compositors
<1>3. Whole(u)
  BY <1>2 DEF Whole
<1>4. EndVacant(u) <=> EndVacant(t)
  BY <1>2 DEF EndVacant, End, Vacant
<1>5. QED BY <1>2, <1>3, <1>4 DEF u

-----------------------------------------------------------------------------
(* WorkspaceManager: where insert_workspace_with_window puts the windows   *)

\* The elements of T, each once, are the first n of q.
Ordering(q, n, T) ==
  /\ n \in Nat /\ \A i \in 1..n : q[i] \in T
  /\ \A i, j \in 1..n : q[i] = q[j] => i = j
  /\ \A x \in T : \E i \in 1..n : q[i] = x

LEMMA SomeOrder ==
  ASSUME NEW T, IsFiniteSet(T), NEW q, q = SetToSeq(T)
  PROVE  Ordering(q, Len(q), T)
<1>n. PICK n : n = Cardinality(T)
  OBVIOUS
<1>1. n \in Nat
  BY <1>n, FS_CardinalityType
<1>2. \E f \in [1..n -> T] : IsInjective(f)
  <2>1. PICK f : f \in Bijection(1..n, T)
    BY <1>n, FS_CardinalityType DEF ExistsBijection
  <2>2. f \in [1..n -> T] /\ IsInjective(f)
    BY <2>1 DEF Bijection, Injection, IsInjective
  <2>3. QED BY <2>2
<1>3. q \in [1..n -> T] /\ IsInjective(q)
  BY <1>n, <1>2 DEF SetToSeq
<1>4. q \in Injection(1..n, T)
  BY <1>3 DEF Injection
<1>5. IsFiniteSet(1..n) /\ Cardinality(1..n) = n
  BY <1>1, FS_Interval
<1>6. q \in Surjection(1..n, T)
  BY <1>n, <1>4, <1>5, FS_Injection
<1>7. \A x \in T : \E i \in 1..n : q[i] = x
  BY <1>6 DEF Surjection
<1>8. q \in Seq(T) /\ Len(q) = n
  BY <1>1, <1>3
<1>9. Ordering(q, n, T)
  BY <1>1, <1>3, <1>7 DEF IsInjective, Ordering
<1>10. QED BY <1>8, <1>9

\* With removals frozen a window is moved, and nothing else.
LEMMA FrozenChange ==
  ASSUME NEW t, Whole(t), t.frozen = 1, NEW w \in Windows, t.at[w] # None, NEW id \in ToSet(t.list),
         NEW u, u = change_workspace(t, w, id)
  PROVE  /\ Prolonged(t, u, t.dynamic /\ w \in Counted /\ id = End(t))
         /\ u.at[w] = id /\ \A x \in Windows \ {w} : u.at[x] = t.at[x]
<1>1. Len(t.list) \in Nat
  BY ListFacts
<1>2. CASE t.at[w] = id
  BY <1>1, <1>2 DEF change_workspace, Prolonged
<1>3. CASE t.at[w] # id
  <2>1. PICK v : v = TakeOff(t, w)
    OBVIOUS
  <2>2. /\ Whole(v) /\ SameRest(t, v) /\ v.at[w] \notin Ids /\ v.list = t.list /\ v.active = t.active
        /\ \A x \in Windows \ {w} : v.at[x] = t.at[x]
    BY <2>1, TakeOffFacts
  <2>3. u = PutOn(v, w, id)
    BY <1>3, <2>1 DEF change_workspace
  <2>4. Prolonged(v, u, v.dynamic /\ w \in Counted /\ id = End(v))
        /\ \A x \in Windows : u.at[x] = IF x = w THEN id ELSE v.at[x]
    BY <2>2, <2>3, PutOnFacts
  <2>5. v.dynamic = t.dynamic /\ End(v) = End(t)
    BY <2>2 DEF SameRest, End
  <2>6. QED BY <2>2, <2>4, <2>5 DEF Prolonged
<1>4. QED BY <1>2, <1>3

\* How far along a window's workspace is.
Spot(t, x) == IF t.at[x] \in Ids THEN Index(t, t.at[x]) ELSE 0
Further(j, k) == IF j >= k THEN j + 1 ELSE j

Extends(t, u) == Len(t.list) <= Len(u.list) /\ \A k \in 1..Len(t.list) : u.list[k] = t.list[k]

LEMMA SpotFacts ==
  ASSUME NEW t, Whole(t), NEW x \in Windows
  PROVE  /\ t.at[x] \in Ids => Spot(t, x) \in 1..Len(t.list) /\ t.list[Spot(t, x)] = t.at[x]
         /\ t.at[x] \notin Ids => Spot(t, x) = 0
         /\ Spot(t, x) \in Nat
<1>1. Len(t.list) \in Nat
  BY ListFacts
<1>2. CASE t.at[x] \in Ids
  <2>1. PICK id : id = t.at[x]
    OBVIOUS
  <2>2. id \in ToSet(t.list)
    BY <1>2, <2>1, WorkspaceAssumption DEF Whole
  <2>3. Index(t, id) \in 1..Len(t.list) /\ t.list[Index(t, id)] = id
    BY <2>2, IndexIs
  <2>4. QED BY <1>1, <1>2, <2>1, <2>3 DEF Spot
<1>3. CASE t.at[x] \notin Ids
  BY <1>3 DEF Spot
<1>4. QED BY <1>2, <1>3

LEMMA SpotIs ==
  ASSUME NEW t, Whole(t), NEW x \in Windows, NEW m \in 1..Len(t.list), t.at[x] = t.list[m]
  PROVE  Spot(t, x) = m /\ t.at[x] \in Ids
<1>1. t.list[m] \in Ids
  BY ListFacts
<1>2. Index(t, t.list[m]) = m
  BY IndexIs
<1>3. QED BY <1>1, <1>2 DEF Spot

LEMMA SpotStays ==
  ASSUME NEW t, Whole(t), NEW u, Whole(u), Extends(t, u), NEW x \in Windows, u.at[x] = t.at[x]
  PROVE  Spot(u, x) = Spot(t, x)
<1>1. Len(t.list) \in Nat /\ Len(u.list) \in Nat
  BY ListFacts
<1>2. CASE t.at[x] \in Ids
  <2>1. PICK m : m = Spot(t, x)
    OBVIOUS
  <2>2. m \in 1..Len(t.list) /\ t.list[m] = t.at[x]
    BY <1>2, <2>1, SpotFacts
  <2>3. m \in 1..Len(u.list) /\ u.at[x] = u.list[m]
    BY <1>1, <2>2 DEF Extends
  <2>4. QED BY <2>1, <2>3, SpotIs
<1>3. CASE t.at[x] \notin Ids
  BY <1>3 DEF Spot
<1>4. QED BY <1>2, <1>3

LEMMA FrozenByIndex ==
  ASSUME NEW v, Whole(v), v.frozen = 1, NEW x \in Windows, v.at[x] # None, NEW m \in Nat \ {0},
         NEW u, u = ChangeByIndex(v, x, m), ~u.over,
         NEW L \in Nat, L <= Len(v.list), Len(v.list) <= L + 1, m <= L + 1,
         v.dynamic /\ x \in Counted => m <= L
  PROVE  /\ u.active = v.active /\ Extends(v, u) /\ Len(u.list) <= L + 1
         /\ \A y \in Windows \ {x} : u.at[y] = v.at[y]
         /\ u.at[x] \in Ids /\ Spot(u, x) = m
<1>0. Len(v.list) \in Nat \ {0} /\ LastIndex(v) = Len(v.list)
  BY ListFacts
<1>1. Whole(u)
  BY ByIndexFacts DEF Kept
<1>2. CASE m <= LastIndex(v)
  <2>1. PICK id : id = v.list[m]
    OBVIOUS
  <2>2. id \in ToSet(v.list) /\ m \in 1..Len(v.list)
    BY <1>0, <1>2, <2>1, ListFacts
  <2>3. u = change_workspace(v, x, id)
    BY <1>2, <2>1 DEF ChangeByIndex
  <2>4. /\ Prolonged(v, u, v.dynamic /\ x \in Counted /\ id = End(v))
        /\ u.at[x] = id /\ \A y \in Windows \ {x} : u.at[y] = v.at[y]
    BY <2>2, <2>3, FrozenChange
  <2>5. id = End(v) => m = Len(v.list)
    BY <1>0, <2>1, <2>2, IndexIs
  <2>6. Len(u.list) <= L + 1
    BY <1>0, <2>4, <2>5 DEF Prolonged
  <2>7. m \in 1..Len(u.list) /\ u.at[x] = u.list[m]
    <3>1. Len(u.list) \in Nat
      BY <1>1, ListFacts
    <3>2. QED BY <1>0, <2>1, <2>2, <2>4, <3>1 DEF Prolonged
  <2>8. Spot(u, x) = m /\ u.at[x] \in Ids
    BY <1>1, <2>7, SpotIs
  <2>9. QED BY <2>4, <2>6, <2>8 DEF Prolonged, Extends
<1>3. CASE ~(m <= LastIndex(v))
  <2>0. m = L + 1 /\ Len(v.list) = L /\ ~(v.dynamic /\ x \in Counted)
    BY <1>0, <1>3
  <2>1. PICK a : a = append_workspace(v)
    OBVIOUS
  <2>2. PICK id : id = Last(a.list)
    OBVIOUS
  <2>3. u = change_workspace(a, x, id)
    BY <1>3, <2>1, <2>2 DEF ChangeByIndex
  <2>4. Fuller(v, a) /\ (~a.over => Len(a.list) = Len(v.list) + 1)
    BY <2>1, AppendFacts
  <2>5. Whole(a) /\ a.frozen = 1 /\ a.dynamic = v.dynamic /\ a.at = v.at /\ a.active = v.active
    BY <2>4 DEF Fuller, SameRest
  <2>6. id = End(a) /\ id \in ToSet(a.list)
    BY <2>2, <2>5, ListFacts DEF End, Last
  <2>7. Kept(a, u)
    BY <2>3, <2>5, <2>6, ChangeFacts
  <2>8. Len(a.list) = L + 1 /\ id = a.list[L + 1]
    BY <2>0, <2>4, <2>6, <2>7 DEF Kept, End
  <2>9. /\ Prolonged(a, u, a.dynamic /\ x \in Counted /\ id = End(a))
        /\ u.at[x] = id /\ \A y \in Windows \ {x} : u.at[y] = a.at[y]
    BY <2>3, <2>5, <2>6, FrozenChange
  <2>10. Len(u.list) = L + 1 /\ u.active = v.active
         /\ \A j \in 1..L + 1 : u.list[j] = a.list[j]
    BY <2>0, <2>5, <2>8, <2>9 DEF Prolonged
  <2>11. Extends(v, u)
    BY <2>0, <2>4, <2>10 DEF Fuller, Extends
  <2>12. m \in 1..Len(u.list) /\ u.at[x] = u.list[m]
    BY <2>0, <2>8, <2>9, <2>10
  <2>13. Spot(u, x) = m /\ u.at[x] \in Ids
    BY <1>1, <2>12, SpotIs
  <2>14. QED BY <2>5, <2>9, <2>10, <2>11, <2>13
<1>4. QED BY <1>2, <1>3

\* What one turn of the loop does, x being the window.
Budged(v, u, L, x, k) ==
  /\ u.active = v.active /\ Extends(v, u) /\ Len(u.list) <= L + 1
  /\ \A y \in Windows \ {x} : u.at[y] = v.at[y]
  /\ IF v.at[x] \in Ids THEN u.at[x] \in Ids /\ Spot(u, x) = Further(Spot(v, x), k) ELSE u.at[x] = v.at[x]

LEMMA ShiftedBudges ==
  ASSUME NEW v, Whole(v), Housed(v), v.frozen = 1, NEW x \in Windows, NEW k,
         NEW u, u = Shifted(v, x, k), ~u.over,
         NEW L \in Nat, L <= Len(v.list), Len(v.list) <= L + 1, Spot(v, x) <= L,
         v.dynamic /\ x \in Counted /\ v.at[x] \in Ids => Spot(v, x) < L
  PROVE  Budged(v, u, L, x, k)
<1>0. Len(v.list) \in Nat /\ v.at[x] # None
  BY ListFacts DEF Housed
<1>1. v.at[x] \notin {Closed, Sticky} <=> v.at[x] \in Ids
  BY <1>0, ListFacts, WorkspaceAssumption DEF Whole
<1>2. PICK j : j = Spot(v, x)
  OBVIOUS
<1>3. v.at[x] \in Ids => j = Index(v, v.at[x]) /\ j \in 1..Len(v.list)
  BY <1>2, SpotFacts DEF Spot
<1>4. CASE v.at[x] \in Ids /\ j >= k
  <2>1. PICK m : m = j + 1
    OBVIOUS
  <2>2. m \in Nat \ {0} /\ m <= L + 1 /\ (v.dynamic /\ x \in Counted => m <= L)
    BY <1>0, <1>2, <1>3, <1>4, <2>1
  <2>3. u = ChangeByIndex(v, x, m)
    BY <1>1, <1>3, <1>4, <2>1 DEF Shifted
  <2>4. /\ u.active = v.active /\ Extends(v, u) /\ Len(u.list) <= L + 1
        /\ \A y \in Windows \ {x} : u.at[y] = v.at[y]
        /\ u.at[x] \in Ids /\ Spot(u, x) = m
    BY <1>0, <2>2, <2>3, FrozenByIndex
  <2>5. Further(j, k) = m
    BY <1>4, <2>1 DEF Further
  <2>6. QED BY <1>2, <1>4, <2>4, <2>5 DEF Budged
<1>5. CASE ~(v.at[x] \in Ids /\ j >= k)
  <2>1. u = v
    BY <1>1, <1>3, <1>5 DEF Shifted
  <2>2. v.at[x] \in Ids => Further(j, k) = j
    BY <1>5 DEF Further
  <2>3. QED BY <1>0, <1>2, <2>1, <2>2 DEF Budged, Extends
<1>6. QED BY <1>4, <1>5

\* The windows T but w have had their turn.
Along(p, v, w, T, k) ==
  /\ v.active = p.active /\ Extends(p, v) /\ v.at[w] = p.at[w]
  /\ \A x \in Windows \ {w} :
       IF p.at[x] \in Ids
       THEN v.at[x] \in Ids /\ Spot(v, x) = IF x \in T THEN Further(Spot(p, x), k) ELSE Spot(p, x)
       ELSE v.at[x] = p.at[x]

LEMMA AlongBudged ==
  ASSUME NEW w \in Windows, NEW k, NEW p, Whole(p), NEW v, Whole(v), NEW u, Whole(u), NEW L,
         NEW T, NEW x \in Windows \ {w}, x \notin T,
         Along(p, v, w, T, k), Budged(v, u, L, x, k)
  PROVE  Along(p, u, w, T \cup {x}, k)
<1>0. Len(p.list) \in Nat /\ Len(v.list) \in Nat /\ Len(u.list) \in Nat
  BY ListFacts
<1>1. u.active = p.active /\ u.at[w] = p.at[w]
  BY DEF Along, Budged
<1>2. Extends(v, u) /\ Extends(p, u)
  BY <1>0 DEF Along, Budged, Extends
<1>3. ASSUME NEW y \in Windows \ {w}
      PROVE  IF p.at[y] \in Ids
             THEN u.at[y] \in Ids /\ Spot(u, y) = IF y \in T \cup {x} THEN Further(Spot(p, y), k) ELSE Spot(p, y)
             ELSE u.at[y] = p.at[y]
  <2>1. CASE y = x
    BY <2>1 DEF Along, Budged
  <2>2. CASE y # x
    <3>1. u.at[y] = v.at[y]
      BY <2>2 DEF Budged
    <3>2. Spot(u, y) = Spot(v, y)
      BY <1>2, <3>1, SpotStays
    <3>3. QED BY <2>2, <3>1, <3>2 DEF Along
  <2>3. QED BY <2>1, <2>2
<1>4. QED BY <1>1, <1>2, <1>3 DEF Along

\* There is room behind the first L workspaces: no window is further, no counted one is
\* on the last of them.
Room(p, w, L) ==
  /\ L <= Len(p.list) /\ Len(p.list) <= L + 1
  /\ \A x \in Windows \ {w} : /\ Spot(p, x) <= L
                              /\ p.dynamic /\ x \in Counted /\ p.at[x] \in Ids => Spot(p, x) < L

\* The loop over the other windows, in the order q.
Turns(p, q, n, k, run) ==
  /\ run[0] = p /\ \A i \in 1..n : run[i] = Shifted(run[i - 1], q[i], k)
  /\ \A i \in 0..n : Kept(p, run[i])

LEMMA RunMoves ==
  ASSUME NEW w \in Windows, NEW k, NEW q, NEW n, Ordering(q, n, Windows \ {w}),
         NEW p, Whole(p), Housed(p), p.frozen = 1, NEW L \in Nat, Room(p, w, L),
         NEW run, Turns(p, q, n, k, run), NEW r, r = run[n], ~r.over
  PROVE  Along(p, r, w, Windows \ {w}, k) /\ Len(r.list) <= L + 1
<1> DEFINE Turned(i) == {q[j] : j \in 1..i}
           Done == {i \in 0..n : ~run[i].over => /\ Along(p, run[i], w, Turned(i), k)
                                                 /\ Len(run[i].list) <= L + 1}
<1>0. /\ Len(p.list) \in Nat /\ L <= Len(p.list) /\ Len(p.list) <= L + 1
      /\ \A x \in Windows \ {w} : /\ Spot(p, x) <= L
                                  /\ p.dynamic /\ x \in Counted /\ p.at[x] \in Ids => Spot(p, x) < L
  BY ListFacts DEF Room
<1>q. /\ n \in Nat /\ \A i \in 1..n : q[i] \in Windows \ {w}
      /\ \A i, j \in 1..n : q[i] = q[j] => i = j
      /\ \A x \in Windows \ {w} : \E i \in 1..n : q[i] = x
  BY DEF Ordering
<1>r. /\ run[0] = p /\ \A i \in 1..n : run[i] = Shifted(run[i - 1], q[i], k)
      /\ \A i \in 0..n : Kept(p, run[i])
  BY DEF Turns
<1>1. 0 \in Done
  <2>1. Turned(0) = {}
    <3>1. \A j : j \notin 1..0
      OBVIOUS
    <3>2. QED BY <3>1
  <2>2. Along(p, p, w, {}, k)
    BY <1>0 DEF Along, Extends
  <2>3. 0 \in 0..n /\ Along(p, run[0], w, Turned(0), k) /\ Len(run[0].list) <= L + 1
    <3>1. PICK y : y = run[0]
      OBVIOUS
    <3>2. PICK T : T = Turned(0)
      OBVIOUS
    <3>3. y = p /\ T = {}
      BY <1>r, <2>1, <3>1, <3>2
    <3> HIDE DEF Turned, Done
    <3>4. Along(p, y, w, T, k) /\ Len(y.list) <= L + 1
      BY <1>0, <2>2, <3>3
    <3>5. QED BY <1>q, <3>1, <3>2, <3>4
  <2> HIDE DEF Turned
  <2>4. QED BY <2>3
<1>2. ASSUME NEW i \in 1..n, i - 1 \in Done PROVE i \in Done
  <2>1. PICK v : v = run[i - 1]
    OBVIOUS
  <2>2. PICK u : u = run[i]
    OBVIOUS
  <2>3. PICK x : x = q[i]
    OBVIOUS
  <2>4. i \in 0..n /\ i - 1 \in 0..n
    BY <1>q
  <2>5. SUFFICES ASSUME ~u.over
                 PROVE  Along(p, u, w, Turned(i), k) /\ Len(u.list) <= L + 1
    BY <2>2, <2>4
  <2>6. x \in Windows \ {w} /\ u = Shifted(v, x, k)
    BY <1>q, <1>r, <2>1, <2>2, <2>3
  <2>7. Kept(p, v) /\ Kept(p, u)
    BY <1>r, <2>1, <2>2, <2>4
  <2>8. Whole(v) /\ Housed(v) /\ v.frozen = 1 /\ v.dynamic = p.dynamic /\ Whole(u)
    BY <2>7 DEF Kept, SameRest, Housed
  <2>9. Kept(v, u)
    BY <2>6, <2>8, ShiftedFacts
  <2>10. ~v.over
    BY <2>5, <2>9 DEF Kept
  <2>11. PICK T : T = Turned(i - 1)
    OBVIOUS
  <2>12. Along(p, v, w, T, k) /\ Len(v.list) <= L + 1
    BY <1>2, <2>1, <2>10, <2>11
  <2>13. x \notin T /\ Turned(i) = T \cup {x}
    <3>1. \A j \in 1..i - 1 : j \in 1..n /\ j # i
      BY <1>q
    <3>2. x \notin T
      BY <1>q, <2>3, <2>11, <3>1
    <3>3. \A j : j \in 1..i <=> j \in 1..i - 1 \/ j = i
      OBVIOUS
    <3>4. Turned(i) = T \cup {x}
      BY <2>3, <2>11, <3>3
    <3>5. QED BY <3>2, <3>4
  <2> HIDE DEF Turned, Done
  <2>14. Len(v.list) \in Nat /\ L <= Len(v.list)
    <3>1. Len(v.list) \in Nat
      BY <2>8, ListFacts
    <3>2. QED BY <1>0, <2>12, <3>1 DEF Along, Extends
  <2>15. Spot(v, x) <= L /\ (v.dynamic /\ x \in Counted /\ v.at[x] \in Ids => Spot(v, x) < L)
    <3>1. CASE p.at[x] \in Ids
      BY <1>0, <2>6, <2>8, <2>12, <2>13, <3>1 DEF Along
    <3>2. CASE p.at[x] \notin Ids
      <4>1. v.at[x] \notin Ids
        BY <2>6, <2>12, <3>2 DEF Along
      <4>2. Spot(v, x) = 0
        BY <4>1 DEF Spot
      <4>3. QED BY <4>1, <4>2
    <3>3. QED BY <3>1, <3>2
  <2>16. Budged(v, u, L, x, k)
    BY <2>5, <2>6, <2>8, <2>12, <2>14, <2>15, ShiftedBudges
  <2>17. Along(p, u, w, T \cup {x}, k)
    BY <2>6, <2>8, <2>12, <2>13, <2>16, AlongBudged
  <2>18. QED BY <2>13, <2>16, <2>17 DEF Budged
<1>3. n \in Done
  <2> HIDE DEF Done
  <2>1. \A i \in 0..n : i \in Done
    BY <1>q, <1>1, <1>2, RangeInduction
  <2>2. QED BY <1>q, <2>1
<1>4. Turned(n) = Windows \ {w}
  BY <1>q
<1>5. QED BY <1>3, <1>4

\* t with removals frozen.
Freeze(t, f) ==
  /\ Whole(f) /\ f.frozen = 1 /\ f.over = t.over /\ f.at = t.at /\ f.list = t.list
  /\ f.active = t.active /\ f.dynamic = t.dynamic

\* The window is on the workspace k, and the others are where they were.
Given(t, p, w, k) ==
  /\ p.active = t.active /\ Extends(t, p)
  /\ p.at[w] = IF k <= Len(t.list) THEN t.list[k] ELSE t.at[w]
  /\ \A x \in Windows \ {w} : p.at[x] = t.at[x] /\ Spot(p, x) = Spot(t, x)

LEMMA PlacedFacts ==
  ASSUME NEW t, Whole(t), Housed(t), EndVacant(t), ~t.over, NEW k \in Nat \ {0}, NEW w \in Windows,
         NEW f, Freeze(t, f),
         NEW p, p = (IF k <= LastIndex(t) THEN change_workspace(f, w, t.list[k]) ELSE f),
         Whole(p), p.dynamic = t.dynamic
  PROVE  Given(t, p, w, k) /\ Room(p, w, Len(t.list))
<1>L. PICK L : L = Len(t.list)
  OBVIOUS
<1>0. L \in Nat \ {0} /\ LastIndex(t) = L /\ \A j \in 1..L : t.list[j] \in ToSet(t.list)
  BY <1>L, ListFacts
<1>f. /\ Whole(f) /\ f.frozen = 1 /\ f.at = t.at /\ f.list = t.list /\ f.active = t.active
  BY DEF Freeze
<1>1. /\ p.active = t.active /\ Extends(t, p) /\ Len(p.list) <= L + 1
      /\ p.at[w] = IF k <= L THEN t.list[k] ELSE t.at[w]
      /\ \A x \in Windows \ {w} : p.at[x] = t.at[x]
  <2>1. CASE k <= L
    <3>1. PICK id : id = t.list[k]
      OBVIOUS
    <3>2. id \in ToSet(f.list) /\ f.at[w] # None
      BY <1>0, <1>f, <2>1, <3>1 DEF Housed
    <3>3. p = change_workspace(f, w, id)
      BY <1>0, <2>1, <3>1
    <3>4. /\ Prolonged(f, p, f.dynamic /\ w \in Counted /\ id = End(f))
          /\ p.at[w] = id /\ \A x \in Windows \ {w} : p.at[x] = f.at[x]
      BY <1>f, <3>2, <3>3, FrozenChange
    <3>5. QED BY <1>L, <1>0, <1>f, <2>1, <3>1, <3>4 DEF Prolonged, Extends
  <2>2. CASE ~(k <= L)
    <3>1. p = f
      BY <1>0, <2>2
    <3>2. QED BY <1>L, <1>0, <1>f, <2>2, <3>1 DEF Extends
  <2>3. QED BY <2>1, <2>2
<1>2. ASSUME NEW x \in Windows \ {w}
      PROVE  /\ p.at[x] = t.at[x] /\ Spot(p, x) = Spot(t, x)
             /\ Spot(p, x) <= L /\ (p.dynamic /\ x \in Counted /\ p.at[x] \in Ids => Spot(p, x) < L)
  <2>1. p.at[x] = t.at[x] /\ Spot(p, x) = Spot(t, x)
    BY <1>1, SpotStays
  <2>2. PICK m : m = Spot(t, x)
    OBVIOUS
  <2>3. /\ t.at[x] \in Ids => m \in 1..L /\ t.list[m] = t.at[x]
        /\ t.at[x] \notin Ids => m = 0
    BY <1>L, <2>2, SpotFacts
  <2>4. t.dynamic /\ x \in Counted => t.at[x] # t.list[L]
    BY <1>L DEF EndVacant, Vacant, End
  <2>5. QED BY <1>0, <2>1, <2>2, <2>3, <2>4
<1>3. Given(t, p, w, k)
  BY <1>L, <1>1, <1>2 DEF Given
<1>4. Room(p, w, L)
  BY <1>L, <1>1, <1>2 DEF Room, Extends
<1>5. QED BY <1>L, <1>3, <1>4

\* What insert_workspace_with_window does before cleanup.
Inserted(t, z, w, k) ==
  /\ z.active = t.active /\ Extends(t, z) /\ Len(z.list) <= Len(t.list) + 1
  /\ z.at[w] = IF k <= Len(t.list) THEN t.list[k] ELSE t.at[w]
  /\ \A x \in Windows \ {w} :
       IF t.at[x] \in Ids THEN z.at[x] \in Ids /\ Spot(z, x) = Further(Spot(t, x), k)
       ELSE z.at[x] = t.at[x]

LEMMA AlongInserts ==
  ASSUME NEW t, Whole(t), NEW k, NEW w \in Windows, NEW p, Whole(p), Given(t, p, w, k),
         NEW r, Whole(r), Along(p, r, w, Windows \ {w}, k), Len(r.list) <= Len(t.list) + 1,
         NEW z, z.active = r.active, z.list = r.list, z.at = r.at
  PROVE  Inserted(t, z, w, k)
<1>0. Len(t.list) \in Nat /\ Len(p.list) \in Nat /\ Len(r.list) \in Nat
  BY ListFacts
<1>1. Extends(t, z)
  BY <1>0 DEF Given, Along, Extends
<1>2. \A x : Spot(z, x) = Spot(r, x)
  BY DEF Spot, Index
<1>3. z.active = t.active /\ Len(z.list) <= Len(t.list) + 1
      /\ z.at[w] = IF k <= Len(t.list) THEN t.list[k] ELSE t.at[w]
  BY DEF Given, Along
<1>4. ASSUME NEW x \in Windows \ {w}
      PROVE  IF t.at[x] \in Ids THEN z.at[x] \in Ids /\ Spot(z, x) = Further(Spot(t, x), k)
             ELSE z.at[x] = t.at[x]
  BY <1>2 DEF Given, Along
<1>5. QED BY <1>1, <1>3, <1>4 DEF Inserted

Unfrozen(t, u, w, k) ==
  \E z : Whole(z) /\ SameRest(t, z) /\ Inserted(t, z, w, k) /\ u = cleanup(z)

\* Inserting a workspace moves windows, loses none, and cleans up.
LEMMA InsertFacts ==
  ASSUME NEW t, Whole(t), Housed(t), t.frozen = 0, NEW k \in Nat \ {0}, NEW w \in Windows
  PROVE  LET u == insert_workspace_with_window(t, k, w) IN
         /\ Kept(t, u) /\ Tidy(u)
         /\ EndVacant(t) /\ ~t.over /\ ~u.over => Unfrozen(t, u, w, k)
<1>o. PICK others : others = SetToSeq(Windows \ {w})
  OBVIOUS
<1>n. PICK n : n = Len(others)
  OBVIOUS
<1>f. PICK frozen : frozen = [t EXCEPT !.frozen = @ + 1]
  OBVIOUS
<1>p. PICK placed : placed = IF k <= LastIndex(t) THEN change_workspace(frozen, w, t.list[k]) ELSE frozen
  OBVIOUS
<1> DEFINE S == {v \in Compositors : Kept(placed, v)}
           step == [i \in 1..n |-> [v \in S |-> Shifted(v, others[i], k)]]
           body(o) == [i \in 0..n |-> IF i = 0 THEN placed ELSE Shifted(o[i - 1], others[i], k)]
           run == CHOOSE o : o = body(o)
<1>q. Ordering(others, n, Windows \ {w})
  <2>1. IsFiniteSet(Windows \ {w})
    BY WorkspaceAssumption, FS_RemoveElement
  <2>2. QED BY <1>o, <1>n, <2>1, SomeOrder
<1>1. n \in Nat /\ \A i \in 1..n : others[i] \in Windows
  BY <1>q DEF Ordering
<1>2. /\ Whole(frozen) /\ frozen.frozen = 1 /\ frozen.over = t.over /\ frozen.at = t.at
      /\ frozen.list = t.list /\ frozen.modal = t.modal /\ frozen.dynamic = t.dynamic
      /\ frozen.assoc = t.assoc /\ frozen.active = t.active
      /\ EndVacant(frozen) <=> EndVacant(t)
  BY <1>f, FreezeFacts
<1>3. Kept(frozen, placed)
  <2>1. CASE k <= LastIndex(t)
    <3>1. PICK id : id = t.list[k]
      OBVIOUS
    <3>2. id \in ToSet(t.list)
      BY <2>1, <3>1, ListFacts
    <3>3. id \in ToSet(frozen.list) /\ frozen.at[w] # None
      BY <1>2, <3>2 DEF Housed
    <3>4. Kept(frozen, change_workspace(frozen, w, id))
      BY <1>2, <3>3, ChangeFacts
    <3>5. QED BY <1>p, <2>1, <3>1, <3>4
  <2>2. CASE ~(k <= LastIndex(t))
    BY <1>2, <1>p, <2>2, KeptSelf
  <2>3. QED BY <2>1, <2>2
<1>4. Whole(placed) /\ Housed(placed) /\ placed.frozen = 1
  BY <1>2, <1>3 DEF Kept, SameRest, Housed
<1>5. ASSUME NEW v \in S PROVE Whole(v) /\ Housed(v) /\ v.frozen # 0 /\ Kept(placed, v)
  BY <1>4 DEF Kept, SameRest, Housed
<1>6. \A v \in Compositors : Kept(placed, v) => v \in S
  OBVIOUS
<1>7. placed \in S
  BY <1>4, KeptSelf DEF Whole
<1> HIDE DEF S
<1>8. ASSUME NEW v \in S, NEW i \in 1..n PROVE Shifted(v, others[i], k) \in S
  <2>1. PICK x : x = others[i]
    OBVIOUS
  <2>2. Kept(v, Shifted(v, x, k))
    BY <1>1, <1>5, <2>1, ShiftedFacts
  <2>3. Kept(placed, Shifted(v, x, k))
    BY <1>5, <2>2, KeptTrans
  <2>4. Shifted(v, x, k) \in Compositors
    BY <2>2 DEF Kept, Whole
  <2>5. QED BY <1>6, <2>1, <2>3, <2>4
<1>9. step \in [1..n -> [S -> S]]
  BY <1>8
<1>10. \A i \in 1..n, v \in S : step[i][v] = Shifted(v, others[i], k)
  OBVIOUS
<1> HIDE DEF step
<1>11. PICK g \in [0..n -> S] : g[0] = placed /\ \A i \in 1..n : g[i] = step[i][g[i - 1]]
  BY <1>1, <1>7, <1>9, Folding
<1>12. g = body(g)
  <2>1. ASSUME NEW i \in 0..n PROVE g[i] = body(g)[i]
    <3>1. CASE i = 0
      BY <1>11, <3>1
    <3>2. CASE i # 0
      <4>1. i \in 1..n /\ i - 1 \in 0..n
        BY <1>1, <3>2
      <4>2. g[i - 1] \in S
        BY <1>11, <4>1
      <4>3. QED BY <1>10, <1>11, <3>2, <4>1, <4>2
    <3>3. QED BY <3>1, <3>2
  <2>2. QED BY <1>11, <2>1
<1>13. run = body(run)
  <2> HIDE DEF body
  <2>1. QED BY <1>12
<1>14. insert_workspace_with_window(t, k, w) = cleanup([run[n] EXCEPT !.frozen = @ - 1])
  BY <1>o, <1>n, <1>f, <1>p DEF insert_workspace_with_window, Shifted
<1> HIDE DEF run
<1>15. run[0] = placed /\ \A i \in 1..n : run[i] = Shifted(run[i - 1], others[i], k)
  BY <1>1, <1>13
<1> HIDE DEF body
<1>16. \A i \in 0..n : run[i] \in S
  <2> DEFINE Done == {i \in 0..n : run[i] \in S}
  <2>1. 0 \in Done
    BY <1>1, <1>7, <1>15
  <2>2. ASSUME NEW i \in 1..n, i - 1 \in Done PROVE i \in Done
    BY <1>8, <1>15, <2>2
  <2>3. \A i \in 0..n : i \in Done
    <3> HIDE DEF Done
    <3>1. QED BY <1>1, <2>1, <2>2, RangeInduction
  <2>4. QED BY <2>3
<1>17. PICK v : v = [run[n] EXCEPT !.frozen = @ - 1]
  OBVIOUS
<1>18. PICK z : z = run[n]
  OBVIOUS
<1>19. Kept(frozen, z) /\ Whole(z)
  BY <1>1, <1>3, <1>5, <1>16, <1>18, KeptTrans
<1>20. /\ Whole(v) /\ v.frozen = z.frozen - 1 /\ v.over = z.over /\ v.at = z.at /\ v.modal = z.modal
       /\ v.dynamic = z.dynamic /\ v.assoc = z.assoc /\ (EndVacant(v) <=> EndVacant(z))
       /\ v.active = z.active /\ v.list = z.list
  <2>1. z.frozen \in Int /\ z \in Compositors
    BY <1>19 DEF Whole, Compositors
  <2>d. PICK d \in Int : d = -1
    OBVIOUS
  <2>2. v = [z EXCEPT !.frozen = @ + d]
    BY <1>17, <1>18, <2>1, <2>d DEF Compositors
  <2>3. PICK y : y = [z EXCEPT !.frozen = @ + d]
    OBVIOUS
  <2>4. /\ Whole(y) /\ y.frozen = z.frozen + d /\ y.over = z.over /\ y.at = z.at /\ y.modal = z.modal
        /\ y.dynamic = z.dynamic /\ y.assoc = z.assoc /\ (EndVacant(y) <=> EndVacant(z))
        /\ y.active = z.active /\ y.list = z.list
    BY <1>19, <2>3, FreezeFacts
  <2>5. QED BY <2>1, <2>d, <2>2, <2>3, <2>4
<1>21. PICK u : u = cleanup(v)
  OBVIOUS
<1>22. Kept(v, u) /\ Tidy(u) /\ Thinner(v, u)
  BY <1>20, <1>21, CleanupKeeps, CleanupFacts
<1>23. SameRest(t, u)
  BY <1>2, <1>19, <1>20, <1>22 DEF Kept, SameRest
<1>24. Kept(t, u)
  BY <1>2, <1>19, <1>20, <1>22, <1>23 DEF Kept
<1>25. insert_workspace_with_window(t, k, w) = u
  BY <1>14, <1>17, <1>21
<1>26. ASSUME EndVacant(t), ~t.over, ~u.over
       PROVE  Unfrozen(t, u, w, k)
  <2>1. Freeze(t, frozen)
    BY <1>2 DEF Freeze
  <2>2. placed.dynamic = t.dynamic
    BY <1>2, <1>3 DEF Kept, SameRest
  <2>3. Given(t, placed, w, k) /\ Room(placed, w, Len(t.list))
    BY <1>p, <1>4, <1>26, <2>1, <2>2, PlacedFacts
  <2>4. Turns(placed, others, n, k, run)
    BY <1>5, <1>15, <1>16 DEF Turns
  <2>5. ~z.over /\ Len(t.list) \in Nat
    BY <1>20, <1>22, <1>26, ListFacts DEF Thinner
  <2>6. Along(placed, z, w, Windows \ {w}, k) /\ Len(z.list) <= Len(t.list) + 1
    BY <1>q, <1>4, <1>18, <2>3, <2>4, <2>5, RunMoves
  <2>7. Inserted(t, v, w, k)
    BY <1>4, <1>19, <1>20, <2>3, <2>6, AlongInserts
  <2>8. SameRest(t, v)
    BY <1>2, <1>19, <1>20 DEF Kept, SameRest
  <2>9. QED BY <1>20, <1>21, <2>7, <2>8 DEF Unfrozen
<1>27. QED BY <1>22, <1>24, <1>25, <1>26

LEMMA SpotsTell ==
  ASSUME NEW t, Whole(t), NEW x \in Windows, NEW y \in Windows, t.at[x] \in Ids, t.at[y] \in Ids
  PROVE  t.at[x] = t.at[y] <=> Spot(t, x) = Spot(t, y)
<1>1. t.list[Spot(t, x)] = t.at[x] /\ t.list[Spot(t, y)] = t.at[y]
  BY SpotFacts
<1>2. t.at[x] = t.at[y] => Spot(t, x) = Spot(t, y)
  BY DEF Spot
<1>3. QED BY <1>1, <1>2

\* The others are only moved further, those of a workspace together.
LEMMA InsertUndisturbed ==
  ASSUME NEW t, Whole(t), NEW w \in Windows, NEW k \in Nat, NEW u, Unfrozen(t, u, w, k)
  PROVE  Undisturbed(t, u, w)
<1>1. PICK z : Whole(z) /\ SameRest(t, z) /\ Inserted(t, z, w, k) /\ u = cleanup(z)
  BY DEF Unfrozen
<1>2. Undisturbed(z, u, w)
  BY <1>1, CleanupFacts, ThinnerUndisturbed
<1>3. ASSUME NEW x \in Windows \ {w}
      PROVE  IF t.at[x] \in Ids THEN z.at[x] \in Ids /\ Spot(z, x) = Further(Spot(t, x), k)
             ELSE z.at[x] = t.at[x]
  BY <1>1 DEF Inserted
<1>4. ASSUME NEW x \in (Windows \cap Counted) \ {w}, NEW y \in (Windows \cap Counted) \ {w},
             t.at[x] \in Ids, t.at[y] \in Ids
      PROVE  t.at[x] = t.at[y] <=> z.at[x] = z.at[y]
  <2>1. /\ z.at[x] \in Ids /\ Spot(z, x) = Further(Spot(t, x), k)
        /\ z.at[y] \in Ids /\ Spot(z, y) = Further(Spot(t, y), k)
    BY <1>3, <1>4
  <2>2. Spot(t, x) \in Nat /\ Spot(t, y) \in Nat
    BY SpotFacts
  <2>3. Further(Spot(t, x), k) = Further(Spot(t, y), k) <=> Spot(t, x) = Spot(t, y)
    BY <2>2 DEF Further
  <2>4. /\ t.at[x] = t.at[y] <=> Spot(t, x) = Spot(t, y)
        /\ z.at[x] = z.at[y] <=> Spot(z, x) = Spot(z, y)
    BY <1>1, <1>4, <2>1, SpotsTell
  <2>5. QED BY <2>1, <2>3, <2>4
<1>5. Undisturbed(t, z, w)
  BY <1>3, <1>4 DEF Undisturbed
<1>6. QED BY <1>2, <1>5, UndisturbedTrans

-----------------------------------------------------------------------------
(* WorkspaceManager: the compositor between two events                     *)

Settled(t) ==
  /\ Whole(t) /\ Housed(t) /\ EndVacant(t) /\ t.frozen = 0 /\ t.modal \in 0..1
  /\ \A w \in Windows : t.assoc[w] <= Cardinality(Ids)

LEMMA KeptSettled ==
  ASSUME NEW t, Settled(t), NEW u, Kept(t, u)
  PROVE  Settled(u) /\ (Tidy(t) => Tidy(u))
<1>1. u.frozen = t.frozen /\ u.modal = t.modal /\ u.assoc = t.assoc
  BY DEF Kept, SameRest
<1>2. QED BY <1>1 DEF Settled, Kept, Housed

LEMMA ListSize ==
  ASSUME NEW t, Whole(t)
  PROVE  /\ Cardinality(ToSet(t.list)) = Len(t.list)
         /\ Len(t.list) <= Cardinality(Ids) /\ Cardinality(Ids) \in Nat
<1> DEFINE n == Len(t.list)
           T == ToSet(t.list)
<1>1. /\ n \in Nat /\ t.list \in Seq(Ids) /\ DOMAIN t.list = 1..n /\ T \subseteq Ids
      /\ \A k \in 1..n : t.list[k] \in T
      /\ \A x \in T : \E k \in 1..n : t.list[k] = x
      /\ \A j, k \in 1..n : t.list[j] = t.list[k] => j = k
  BY ListFacts DEF Whole, ToSet
<1>2. t.list \in [1..n -> T]
  BY <1>1
<1> HIDE DEF T, n
<1>3. t.list \in Bijection(1..n, T)
  BY <1>1, <1>2 DEF Bijection, Injection, Surjection, IsInjective
<1>4. IsFiniteSet(1..n) /\ Cardinality(1..n) = n
  BY <1>1, FS_Interval
<1>5. Cardinality(T) = n
  BY <1>3, <1>4, FS_Bijection DEF ExistsBijection
<1>6. Cardinality(T) <= Cardinality(Ids) /\ Cardinality(Ids) \in Nat
  BY <1>1, WorkspaceAssumption, FS_Subset, FS_CardinalityType
<1>7. QED BY <1>5, <1>6 DEF T, n

\* To number the workspaces again changes nothing about them.
LEMMA RenumberedFacts ==
  ASSUME NEW t, Settled(t)
  PROVE  LET r == Renumbered(t) IN
         /\ Settled(r) /\ r.over = t.over /\ (Tidy(t) => Tidy(r))
         /\ \A w : Undisturbed(t, r, w)
         /\ r.active = Index(t, t.active)
         /\ \A x \in Windows : t.at[x] \in Ids => r.at[x] = Index(t, t.at[x])
<1>n. PICK n : n = Len(t.list)
  OBVIOUS
<1> DEFINE r == Renumbered(t)
           q == [k \in DOMAIN t.list |-> k]
           at == [w \in DOMAIN t.at |-> IF t.at[w] \in {Closed, Sticky} THEN t.at[w] ELSE Index(t, t.at[w])]
<1>1. /\ t \in Compositors /\ n \in Nat \ {0} /\ DOMAIN t.list = 1..n /\ DOMAIN t.at = Windows
      /\ t.list \in Seq(Ids) /\ ToSet(t.list) \subseteq Ids /\ t.active \in ToSet(t.list)
      /\ \A k \in 1..n : t.list[k] \in ToSet(t.list)
      /\ \A w \in Windows : t.at[w] \in ToSet(t.list) \cup {Closed, Sticky}
      /\ Whole(t)
  BY <1>n, ListFacts DEF Settled, Whole, Housed, Compositors
<1>2. 1..n \subseteq Ids
  <2>1. n <= Cardinality(Ids) /\ Cardinality(Ids) \in Nat /\ Ids = 1..Cardinality(Ids)
    BY <1>n, <1>1, ListSize, WorkspaceAssumption
  <2>2. QED BY <1>1, <2>1
<1>3. q = [k \in 1..n |-> k] /\ q \in Seq(Ids) /\ Len(q) = n /\ DOMAIN q = 1..n /\ ToSet(q) = 1..n
  <2>1. q = [k \in 1..n |-> k]
    BY <1>1
  <2>2. q \in Seq(Ids) /\ Len(q) = n
    BY <1>1, <1>2, <2>1
  <2>3. ToSet(q) = 1..n
    BY <2>1 DEF ToSet
  <2>4. QED BY <2>1, <2>2, <2>3
<1>4. /\ \A x \in ToSet(t.list) : Index(t, x) \in 1..n /\ t.list[Index(t, x)] = x
      /\ \A k \in 1..n : Index(t, t.list[k]) = k
  BY <1>n, <1>1, IndexIs
<1>5. \A w \in Windows : at[w] = IF t.at[w] \in {Closed, Sticky} THEN t.at[w] ELSE Index(t, t.at[w])
  BY <1>1
<1>6. at \in [Windows -> Ids \cup {Closed, Sticky, None}]
  BY <1>1, <1>2, <1>4
<1>7. r = [t EXCEPT !.list = q, !.marked = {}, !.active = Index(t, @), !.at = at]
  BY <1>1 DEF Renumbered, Compositors
<1> HIDE DEF r, q, at
<1>8. /\ r.list = q /\ r.marked = {} /\ r.active = Index(t, t.active) /\ r.at = at
      /\ r.frozen = t.frozen /\ r.modal = t.modal /\ r.dynamic = t.dynamic /\ r.assoc = t.assoc
      /\ r.over = t.over
  BY <1>1, <1>7 DEF Compositors
<1>9. r \in Compositors
  <2>1. Index(t, t.active) \in Ids
    BY <1>1, <1>2, <1>4
  <2>2. QED BY <1>1, <1>3, <1>6, <1>7, <2>1 DEF Compositors
<1>10. Whole(r)
  <2>1. \A j, k \in DOMAIN r.list : r.list[j] = r.list[k] => j = k
    BY <1>3, <1>8
  <2>2. r.active \in ToSet(r.list)
    BY <1>1, <1>3, <1>4, <1>8
  <2>3. \A w \in Windows : r.at[w] \in ToSet(r.list) \cup {Closed, Sticky, None}
    BY <1>1, <1>3, <1>4, <1>5, <1>8
  <2>4. QED BY <1>8, <1>9, <2>1, <2>2, <2>3 DEF Whole
<1>11. Housed(r)
  BY <1>1, <1>2, <1>4, <1>5, <1>8, WorkspaceAssumption DEF Housed
<1>12. End(r) = n /\ End(t) = t.list[n] /\ n \in 1..n
  BY <1>n, <1>1, <1>3, <1>8 DEF End
<1>13. ASSUME NEW k \in 1..n PROVE Vacant(r, k) <=> Vacant(t, t.list[k])
  <2>1. ASSUME NEW w \in Windows PROVE r.at[w] = k <=> t.at[w] = t.list[k]
    <3>1. CASE t.at[w] \in {Closed, Sticky}
      <4>1. r.at[w] = t.at[w] /\ t.at[w] \notin Ids
        BY <1>5, <1>8, <3>1, WorkspaceAssumption
      <4>2. k \in Ids /\ t.list[k] \in Ids
        BY <1>1, <1>2
      <4>3. QED BY <4>1, <4>2
    <3>2. CASE t.at[w] \notin {Closed, Sticky}
      BY <1>1, <1>4, <1>5, <1>8, <3>2
    <3>3. QED BY <3>1, <3>2
  <2>2. QED BY <2>1 DEF Vacant
<1>14. EndVacant(r)
  BY <1>8, <1>12, <1>13 DEF EndVacant, Settled
<1>15. ASSUME Tidy(t) PROVE Tidy(r)
  <2>1. SUFFICES ASSUME r.dynamic, ~r.over, NEW k \in ToSet(r.list), Vacant(r, k)
                 PROVE  k \in {r.active, End(r)}
    BY DEF Tidy
  <2>2. k \in 1..n
    BY <1>3, <1>8
  <2>3. t.list[k] \in {t.active, End(t)}
    BY <1>1, <1>8, <1>13, <1>15, <2>1, <2>2 DEF Tidy
  <2>4. QED BY <1>4, <1>8, <1>12, <2>2, <2>3
<1>16. ASSUME NEW x \in Windows
       PROVE  /\ t.at[x] \in Ids => t.at[x] \in ToSet(t.list) /\ r.at[x] \in Ids /\ r.at[x] = Index(t, t.at[x])
              /\ t.at[x] \notin Ids => r.at[x] = t.at[x]
  BY <1>1, <1>2, <1>4, <1>5, <1>8, WorkspaceAssumption
<1>17. \A w : Undisturbed(t, r, w)
  BY <1>4, <1>16 DEF Undisturbed
<1>18. QED BY <1>8, <1>10, <1>11, <1>14, <1>15, <1>16, <1>17 DEF Settled, r

\* The workspace a window came from is remembered, or forgotten.
LEMMA AssocFacts ==
  ASSUME NEW t, Settled(t), NEW w \in Windows, NEW k \in 0..Cardinality(Ids)
  PROVE  LET u == [t EXCEPT !.assoc[w] = k] IN
         /\ Settled(u) /\ u.over = t.over /\ (Tidy(t) => Tidy(u))
         /\ u.at = t.at /\ u.list = t.list
<1> DEFINE u == [t EXCEPT !.assoc[w] = k]
<1>1. t \in Compositors /\ k \in Nat /\ k <= Cardinality(Ids)
  <2>1. Cardinality(Ids) \in Nat
    BY WorkspaceAssumption, FS_CardinalityType
  <2>2. QED BY <2>1 DEF Settled, Whole
<1>2. /\ u \in Compositors /\ u.list = t.list /\ u.active = t.active /\ u.at = t.at
      /\ u.marked = t.marked /\ u.frozen = t.frozen /\ u.modal = t.modal /\ u.dynamic = t.dynamic
      /\ u.over = t.over /\ u.assoc = [t.assoc EXCEPT ![w] = k]
  BY <1>1 DEF Compositors
<1> HIDE DEF u
<1>3. Whole(u) /\ Housed(u)
  BY <1>2 DEF Whole, Settled, Housed
<1>4. EndVacant(u) /\ (Tidy(t) => Tidy(u))
  BY <1>2 DEF Settled, EndVacant, Tidy, End, Vacant
<1>5. \A x \in Windows : u.assoc[x] <= Cardinality(Ids)
  <2>1. \A x \in Windows : u.assoc[x] = IF x = w THEN k ELSE t.assoc[x]
    BY <1>1, <1>2 DEF Compositors
  <2>2. QED BY <1>1, <2>1 DEF Settled
<1>6. QED BY <1>2, <1>3, <1>4, <1>5 DEF Settled, u

\* Mutter is asked to move a window to workspace k and to activate that.
LEMMA FollowFacts ==
  ASSUME NEW u, Settled(u), NEW w \in Windows, NEW k \in Nat \ {0}, NEW id, id = u.list[k],
         NEW v, v = (IF k > LastIndex(u) THEN u ELSE activate(change_workspace(u, w, id), id))
  PROVE  Kept(u, v) /\ Undisturbed(u, v, w)
<1>1. Whole(u) /\ Housed(u)
  BY DEF Settled
<1>2. CASE k > LastIndex(u)
  BY <1>1, <1>2, KeptSelf, UndisturbedSelf
<1>3. CASE ~(k > LastIndex(u))
  <2>1. id \in ToSet(u.list) /\ u.at[w] # None
    <3>1. Len(u.list) \in Nat /\ LastIndex(u) = Len(u.list)
          /\ \A j \in 1..Len(u.list) : u.list[j] \in ToSet(u.list)
      BY <1>1, ListFacts
    <3>2. k \in 1..Len(u.list)
      BY <1>3, <3>1
    <3>3. QED BY <1>1, <3>1, <3>2 DEF Housed
  <2>2. PICK c : c = change_workspace(u, w, id)
    OBVIOUS
  <2>3. Kept(u, c) /\ id \in ToSet(c.list) /\ Undisturbed(u, c, w) /\ Whole(c)
    BY <1>1, <2>1, <2>2, ChangeFacts DEF Kept
  <2>4. v = activate(c, id)
    BY <1>3, <2>2
  <2>5. Kept(c, v) /\ Thinner(c, v)
    BY <2>3, <2>4, ActivationKeeps, Activation
  <2>6. QED BY <2>3, <2>5, KeptTrans, ThinnerUndisturbed, UndisturbedTrans
<1>4. QED BY <1>2, <1>3

LEMMA MoveToNextFacts ==
  ASSUME NEW t, Settled(t), NEW w \in Windows, t.at[w] \notin {Closed, Sticky}
  PROVE  LET u == MoveToNext(t, w) IN
         /\ Settled(u) /\ (Tidy(t) => Tidy(u))
         /\ ~t.over /\ ~u.over => Undisturbed(t, u, w)
<1>1. Whole(t) /\ Housed(t) /\ t.frozen = 0 /\ t.at[w] \in ToSet(t.list)
  BY DEF Settled, Whole, Housed
<1>o. PICK old : old = Index(t, t.at[w])
  OBVIOUS
<1>2. old \in 1..Len(t.list) /\ Len(t.list) \in Nat /\ old \in 0..Cardinality(Ids)
  <2>1. old \in 1..Len(t.list) /\ Len(t.list) \in Nat
    BY <1>o, <1>1, IndexIs, ListFacts
  <2>2. QED BY <1>1, <2>1, ListSize
<1>k. PICK k : k = old + 1 /\ k \in Nat \ {0}
  BY <1>2
<1>3. PICK u : u = insert_workspace_with_window(t, k, w)
  OBVIOUS
<1>4. Kept(t, u) /\ (~t.over /\ ~u.over => Undisturbed(t, u, w))
  <2>1. Kept(t, u) /\ (~t.over /\ ~u.over => Unfrozen(t, u, w, k))
    BY <1>1, <1>k, <1>3, InsertFacts DEF Settled
  <2>2. QED BY <1>1, <1>k, <2>1, InsertUndisturbed
<1>5. Settled(u) /\ (Tidy(t) => Tidy(u))
  BY <1>4, KeptSettled
<1>6. PICK id : id = u.list[k]
  OBVIOUS
<1>7. PICK v : v = IF k > LastIndex(u) THEN u ELSE activate(change_workspace(u, w, id), id)
  OBVIOUS
<1>8. Settled(v) /\ (Tidy(t) => Tidy(v)) /\ (~t.over /\ ~v.over => Undisturbed(t, v, w))
  <2>1. Kept(u, v) /\ Undisturbed(u, v, w)
    BY <1>k, <1>5, <1>6, <1>7, FollowFacts
  <2>2. ~v.over => ~u.over
    BY <2>1 DEF Kept
  <2>3. QED BY <1>4, <1>5, <2>1, <2>2, KeptSettled, UndisturbedTrans
<1>9. /\ Settled([v EXCEPT !.assoc[w] = old])
      /\ Tidy(v) => Tidy([v EXCEPT !.assoc[w] = old])
      /\ [v EXCEPT !.assoc[w] = old].over = v.over /\ [v EXCEPT !.assoc[w] = old].at = v.at
  BY <1>2, <1>8, AssocFacts
<1>10. MoveToNext(t, w) = IF get_n_windows(t, t.at[w]) <= 1 THEN t ELSE [v EXCEPT !.assoc[w] = old]
  BY <1>o, <1>k, <1>3, <1>6, <1>7 DEF MoveToNext
<1>11. PICK r : r = [v EXCEPT !.assoc[w] = old]
  OBVIOUS
<1>12. Settled(r) /\ (Tidy(t) => Tidy(r)) /\ (~t.over /\ ~r.over => Undisturbed(t, r, w))
  BY <1>8, <1>9, <1>11 DEF Undisturbed
<1>13. QED BY <1>10, <1>11, <1>12, UndisturbedSelf

LEMMA MoveBackFacts ==
  ASSUME NEW t, Settled(t), NEW w \in Windows
  PROVE  LET u == MoveBack(t, w) IN
         /\ Settled(u) /\ (Tidy(t) => Tidy(u)) /\ Undisturbed(t, u, w)
<1>o. PICK old : old = t.assoc[w]
  OBVIOUS
<1>1. Whole(t) /\ t.at[w] # None /\ old \in Nat
  BY <1>o DEF Settled, Housed, Whole, Compositors
<1>2. PICK id : id = t.list[old]
  OBVIOUS
<1>3. PICK u : u = IF old # Index(t, t.at[w]) /\ old <= LastIndex(t)
                   THEN activate(change_workspace(t, w, id), id) ELSE t
  OBVIOUS
<1>4. MoveBack(t, w) = IF old = 0 THEN t ELSE [u EXCEPT !.assoc[w] = 0]
  BY <1>o, <1>2, <1>3 DEF MoveBack
<1>5. CASE old = 0
  BY <1>4, <1>5, UndisturbedSelf
<1>6. CASE old # 0
  <2>1. Settled(u) /\ (Tidy(t) => Tidy(u)) /\ Undisturbed(t, u, w)
    <3>1. CASE ~(old # Index(t, t.at[w]) /\ old <= LastIndex(t))
      BY <1>3, <3>1, UndisturbedSelf
    <3>2. CASE old # Index(t, t.at[w]) /\ old <= LastIndex(t)
      <4>1. id \in ToSet(t.list)
        <5>1. Len(t.list) \in Nat /\ LastIndex(t) = Len(t.list)
              /\ \A j \in 1..Len(t.list) : t.list[j] \in ToSet(t.list)
          BY <1>1, ListFacts
        <5>2. old \in 1..Len(t.list)
          BY <1>1, <1>6, <3>2, <5>1
        <5>3. QED BY <1>2, <5>1, <5>2
      <4>2. PICK c : c = change_workspace(t, w, id)
        OBVIOUS
      <4>3. Kept(t, c) /\ id \in ToSet(c.list) /\ Undisturbed(t, c, w) /\ Whole(c)
        BY <1>1, <4>1, <4>2, ChangeFacts DEF Kept
      <4>4. Kept(c, activate(c, id)) /\ Thinner(c, activate(c, id))
        BY <4>3, ActivationKeeps, Activation
      <4>5. u = activate(c, id)
        BY <1>3, <3>2, <4>2
      <4>6. Kept(t, u)
        BY <4>3, <4>4, <4>5, KeptTrans
      <4>7. Undisturbed(t, u, w)
        BY <4>3, <4>4, <4>5, ThinnerUndisturbed, UndisturbedTrans
      <4>8. QED BY <4>6, <4>7, KeptSettled
    <3>3. QED BY <3>1, <3>2
  <2>2. PICK k \in 0..Cardinality(Ids) : k = 0
    <3>1. Cardinality(Ids) \in Nat
      BY WorkspaceAssumption, FS_CardinalityType
    <3>2. QED BY <3>1
  <2>3. /\ Settled([u EXCEPT !.assoc[w] = k])
        /\ Tidy(u) => Tidy([u EXCEPT !.assoc[w] = k])
        /\ [u EXCEPT !.assoc[w] = k].at = u.at
    BY <2>1, AssocFacts
  <2>4. PICK r : r = [u EXCEPT !.assoc[w] = k]
    OBVIOUS
  <2>5. Settled(r) /\ (Tidy(t) => Tidy(r)) /\ Undisturbed(t, r, w)
    BY <2>1, <2>3, <2>4 DEF Undisturbed
  <2>6. QED BY <1>4, <1>6, <2>2, <2>4, <2>5
<1>7. QED BY <1>5, <1>6

\* A window that is closed, or shown on all workspaces.
LEMMA LeaveFacts ==
  ASSUME NEW t, Settled(t), NEW w \in Windows, NEW c \in {Closed, Sticky}
  PROVE  LET u == [TakeOff(t, w) EXCEPT !.at[w] = c] IN
         /\ Settled(u) /\ (Tidy(t) => Tidy(u)) /\ Undisturbed(t, u, w)
<1>1. PICK v : v = TakeOff(t, w)
  OBVIOUS
<1>2. /\ Whole(v) /\ SameRest(t, v) /\ v.over = t.over
      /\ EndVacant(v)
      /\ Tidy(t) => Tidy(v)
      /\ v.at[w] \notin Ids
      /\ \A x \in Windows \ {w} : v.at[x] # None
      /\ Undisturbed(t, v, w)
  BY <1>1, TakeOffFacts DEF Settled, Housed
<1> DEFINE u == [v EXCEPT !.at[w] = c]
<1>3. /\ u \in Compositors /\ u.list = v.list /\ u.active = v.active /\ u.marked = v.marked
      /\ u.at = [v.at EXCEPT ![w] = c] /\ SameRest(t, u) /\ u.over = v.over
      /\ u.dynamic = v.dynamic /\ v.at \in [Windows -> Ids \cup {Closed, Sticky, None}]
  BY <1>2 DEF Whole, Compositors, SameRest
<1> HIDE DEF u
<1>4. \A x \in Windows : u.at[x] = IF x = w THEN c ELSE v.at[x]
  BY <1>3
<1>5. c \notin Ids /\ c # None
  BY WorkspaceAssumption
<1>6. Whole(u) /\ Housed(u)
  BY <1>2, <1>3, <1>4, <1>5 DEF Whole, Housed
<1>7. /\ \A x \in Ids : Vacant(u, x) <=> Vacant(v, x)
      /\ End(u) = End(v) /\ End(v) \in Ids /\ ToSet(v.list) \subseteq Ids
  <2>1. \A x \in Ids : Vacant(u, x) <=> Vacant(v, x)
    BY <1>2, <1>4, <1>5 DEF Vacant
  <2>2. QED BY <1>2, <1>3, <2>1, ListFacts DEF End
<1>8. EndVacant(u) /\ (Tidy(t) => Tidy(u))
  <2>1. EndVacant(u)
    BY <1>2, <1>3, <1>7 DEF EndVacant
  <2>2. ASSUME Tidy(v) PROVE Tidy(u)
    BY <1>3, <1>7, <2>2 DEF Tidy
  <2>3. QED BY <1>2, <2>1, <2>2
<1>9. Settled(u)
  BY <1>3, <1>6, <1>8 DEF Settled, SameRest
<1>10. Undisturbed(t, u, w)
  BY <1>2, <1>4 DEF Undisturbed
<1>11. QED BY <1>1, <1>8, <1>9, <1>10 DEF u

\* Such a window comes back, and may be announced twice.
LEMMA AnnouncedFacts ==
  ASSUME NEW t, Settled(t), NEW w \in Windows, t.at[w] \notin Ids, NEW b \in BOOLEAN,
         NEW u, u = PutOn(t, w, t.active),
         NEW v, v = (IF b THEN window_added(u, t.active, w) ELSE u), ~v.over
  PROVE  Settled(v) /\ (Tidy(t) => Tidy(v)) /\ Undisturbed(t, v, w)
<1>i. PICK id : id = t.active
  OBVIOUS
<1>1. Whole(t) /\ id \in ToSet(t.list)
  BY <1>i DEF Settled, Whole
<1>2. /\ Kept(t, u) /\ ToSet(t.list) \subseteq ToSet(u.list)
      /\ \A x \in Windows : u.at[x] = IF x = w THEN id ELSE t.at[x]
  BY <1>1, <1>i, PutOnFacts
<1>3. Settled(u) /\ (Tidy(t) => Tidy(u)) /\ Whole(u)
  BY <1>2, KeptSettled DEF Kept
<1>4. CASE v = u
  <2>1. Undisturbed(t, u, w)
    BY <1>2 DEF Undisturbed
  <2>2. QED BY <1>3, <1>4, <2>1
<1>5. CASE v # u
  <2>1. v = append_workspace(u) /\ u.dynamic /\ w \in Counted /\ Index(u, id) = LastIndex(u)
    BY <1>5, <1>i DEF window_added
  <2>2. ~u.over
    BY <1>3, <2>1, AppendFacts DEF Fuller
  <2>3. id = End(u)
    BY <1>1, <1>2, <1>3, <2>1, IndexIs
  <2>4. Vacant(u, id)
    BY <1>3, <2>1, <2>2, <2>3 DEF Settled, EndVacant
  <2>5. QED BY <1>2, <2>1, <2>4 DEF Vacant
<1>6. QED BY <1>4, <1>5

LEMMA ModalFacts ==
  ASSUME NEW t, Settled(t), NEW d \in Int, t.modal + d \in 0..1
  PROVE  LET u == [t EXCEPT !.modal = @ + d] IN
         /\ Settled(u) /\ (Tidy(t) => Tidy(u)) /\ u.at = t.at
<1>m. PICK m : m = t.modal + d /\ m \in 0..1 /\ m \in Int
  OBVIOUS
<1> DEFINE u == [t EXCEPT !.modal = @ + d]
<1>1. t \in Compositors
  BY DEF Settled, Whole
<1>2. u = [t EXCEPT !.modal = m]
  BY <1>m
<1> HIDE DEF u
<1>3. /\ u \in Compositors /\ u.list = t.list /\ u.active = t.active /\ u.at = t.at
      /\ u.marked = t.marked /\ u.frozen = t.frozen /\ u.modal = m /\ u.dynamic = t.dynamic
      /\ u.over = t.over /\ u.assoc = t.assoc
  BY <1>1, <1>m, <1>2 DEF Compositors
<1>4. Whole(u) /\ Housed(u)
  BY <1>3 DEF Whole, Settled, Housed
<1>5. EndVacant(u) /\ (Tidy(t) => Tidy(u))
  BY <1>3 DEF Settled, EndVacant, Tidy, End, Vacant
<1>6. QED BY <1>m, <1>3, <1>4, <1>5 DEF Settled, u

\* The setting changes; with it switched on, the last workspace has to be empty.
WithDynamic(t, b) == [t EXCEPT !.dynamic = b]
Refilled(u, b) == IF b /\ ~IsEmpty(u, Last(u.list)) THEN append_workspace(u) ELSE u

LEMMA DynamicFacts ==
  ASSUME NEW t, Settled(t), NEW b \in BOOLEAN, NEW u, u = WithDynamic(t, b),
         NEW v, v = Refilled(u, b)
  PROVE  Settled(v) /\ v.at = t.at
<1>1. t \in Compositors
  BY DEF Settled, Whole
<1>2. /\ u \in Compositors /\ u.list = t.list /\ u.active = t.active /\ u.at = t.at
      /\ u.marked = t.marked /\ u.frozen = t.frozen /\ u.modal = t.modal /\ u.dynamic = b
      /\ u.over = t.over /\ u.assoc = t.assoc
  BY <1>1 DEF Compositors, WithDynamic
<1>3. Whole(u) /\ Housed(u)
  BY <1>2 DEF Whole, Settled, Housed
<1>4. Last(u.list) = End(u) /\ (IsEmpty(u, End(u)) <=> Vacant(u, End(u)))
  BY <1>2, EmptyIs DEF Last, End
<1>5. CASE b /\ ~IsEmpty(u, Last(u.list))
  <2>0. v = append_workspace(u)
    BY <1>5 DEF Refilled
  <2>1. Fuller(u, v) /\ (~v.over => Vacant(v, End(v)))
    BY <1>3, <2>0, AppendFacts
  <2>2. EndVacant(v)
    BY <2>1 DEF EndVacant
  <2>3. QED BY <1>2, <1>3, <2>1, <2>2 DEF Settled, Fuller, SameRest, Housed
<1>6. CASE ~(b /\ ~IsEmpty(u, Last(u.list)))
  <2>1. v = u
    BY <1>6 DEF Refilled
  <2>2. EndVacant(u)
    BY <1>2, <1>4, <1>6 DEF EndVacant
  <2>3. QED BY <1>2, <1>3, <2>1, <2>2 DEF Settled
<1>7. QED BY <1>5, <1>6

-----------------------------------------------------------------------------
(* WorkspaceManager: the invariant                                         *)

\* A state between two events, b saying whether dynamic workspaces were off.
Orderly(t, b) == Settled(t) /\ ~t.over /\ (~b => Tidy(t))
WorkspacesInv == Orderly(s, untidy) /\ size \in [Windows -> {"normal", "full", "max"}]

\* A step that leads to t.
LEMMA BecomesFacts ==
  ASSUME NEW t, Settled(t), Becomes(t), ~untidy' => Tidy(t)
  PROVE  Orderly(s', untidy') /\ \A w : Undisturbed(t, s', w)
<1>1. ~t.over /\ s' = Renumbered(t)
  BY DEF Becomes
<1>2. PICK r : r = Renumbered(t)
  OBVIOUS
<1>3. Settled(r) /\ r.over = t.over /\ (Tidy(t) => Tidy(r)) /\ \A w : Undisturbed(t, r, w)
  BY <1>2, RenumberedFacts
<1>4. QED BY <1>1, <1>2, <1>3 DEF Orderly

\* construct: the windows from before are on the first workspaces.
LEMMA StartedWell ==
  ASSUME NEW n \in 1..3, NEW active \in 1..n, NEW at \in [Windows -> 1..n \cup {Closed, Sticky}]
  PROVE  LET u == Started([k \in 1..n |-> k], active, at) IN
         Settled(u) /\ ~u.over /\ Tidy(u)
<1>q. PICK q : q = [k \in 1..n |-> k]
  OBVIOUS
<1> DEFINE t == [list |-> q, active |-> active, at |-> at, marked |-> {}, frozen |-> 0,
                 modal |-> 0, dynamic |-> TRUE, assoc |-> [w \in Windows |-> 0], over |-> FALSE]
<1>1. Cardinality(Ids) \in Nat /\ Ids = 1..Cardinality(Ids) /\ Cardinality(Ids) > 3
  BY WorkspaceAssumption, FS_CardinalityType
<1>2. 1..n \subseteq Ids /\ n + 1 \in Ids /\ n \in Nat
  BY <1>1
<1>3. q \in Seq(Ids) /\ Len(q) = n /\ DOMAIN q = 1..n /\ ToSet(q) = 1..n /\ q[n] = n
  <2>1. q \in Seq(Ids) /\ Len(q) = n /\ DOMAIN q = 1..n /\ q[n] = n
    BY <1>q, <1>2
  <2>2. ToSet(q) = 1..n
    BY <1>q DEF ToSet
  <2>3. QED BY <2>1, <2>2
<1>4. at \in [Windows -> Ids \cup {Closed, Sticky, None}]
  BY <1>2
<1>5. t \in Compositors
  BY <1>2, <1>3, <1>4 DEF Compositors
<1>6. /\ t.list = q /\ t.active = active /\ t.at = at /\ t.marked = {} /\ t.frozen = 0
      /\ t.modal = 0 /\ t.assoc = [w \in Windows |-> 0] /\ t.over = FALSE
  OBVIOUS
<1>7. Started([k \in 1..n |-> k], active, at)
        = cleanup(IF IsEmpty(t, Last(q)) THEN t ELSE append_workspace(t))
  BY <1>q DEF Started
<1> HIDE DEF t
<1>8. Whole(t)
  <2>1. \A j, k \in DOMAIN t.list : t.list[j] = t.list[k] => j = k
    BY <1>q, <1>3, <1>6
  <2>2. QED BY <1>3, <1>5, <1>6, <2>1 DEF Whole
<1>9. Housed(t)
  BY <1>2, <1>6, WorkspaceAssumption DEF Housed
<1>10. PICK v : v = IF IsEmpty(t, Last(q)) THEN t ELSE append_workspace(t)
  OBVIOUS
<1>11. Whole(v) /\ Housed(v) /\ SameRest(t, v) /\ ~v.over /\ EndVacant(v)
  <2>1. Last(q) = End(t) /\ (IsEmpty(t, End(t)) <=> Vacant(t, End(t)))
    BY <1>5, <1>6, EmptyIs DEF Last, End
  <2>2. CASE Vacant(t, End(t))
    BY <1>6, <1>8, <1>9, <1>10, <2>1, <2>2 DEF EndVacant, SameRest
  <2>3. CASE ~Vacant(t, End(t))
    <3>1. v = append_workspace(t)
      BY <1>10, <2>1, <2>3
    <3>2. n + 1 \in Ids \ (ToSet(t.list) \cup t.marked)
      BY <1>2, <1>3, <1>6
    <3>3. v.over = FALSE
      BY <1>5, <1>6, <3>1, <3>2 DEF append_workspace, Compositors
    <3>4. Fuller(t, v) /\ Vacant(v, End(v))
      BY <1>8, <3>1, <3>3, AppendFacts
    <3>5. QED BY <1>9, <3>3, <3>4 DEF Fuller, Housed, EndVacant
  <2>4. QED BY <2>2, <2>3
<1>12. PICK u : u = cleanup(v)
  OBVIOUS
<1>13. Thinner(v, u) /\ Tidy(u) /\ Kept(v, u)
  BY <1>11, <1>12, CleanupFacts, CleanupKeeps
<1>14. /\ Whole(u) /\ EndVacant(u) /\ ~u.over /\ Housed(u)
       /\ u.frozen = 0 /\ u.modal = 0 /\ u.assoc = [w \in Windows |-> 0]
  BY <1>6, <1>11, <1>13 DEF Thinner, Kept, Housed, SameRest
<1>15. Settled(u)
  BY <1>1, <1>14 DEF Settled
<1>16. QED BY <1>7, <1>10, <1>12, <1>13, <1>14, <1>15

LEMMA WorkspacesInit == Init => WorkspacesInv
<1> SUFFICES ASSUME Init PROVE WorkspacesInv
  OBVIOUS
<1>n. PICK n \in 1..3 : \E active \in 1..n, at \in [Windows -> 1..n \cup {Closed, Sticky}] :
        s = Renumbered(Started([k \in 1..n |-> k], active, at))
  BY DEF Init
<1>1. PICK active \in 1..n, at \in [Windows -> 1..n \cup {Closed, Sticky}] :
        s = Renumbered(Started([k \in 1..n |-> k], active, at))
  BY <1>n
<1>2. PICK t : t = Started([k \in 1..n |-> k], active, at)
  OBVIOUS
<1>3. Settled(t) /\ ~t.over /\ Tidy(t)
  BY <1>2, StartedWell
<1>4. PICK r : r = Renumbered(t)
  OBVIOUS
<1>5. Settled(r) /\ ~r.over /\ Tidy(r)
  BY <1>3, <1>4, RenumberedFacts
<1>6. s = r /\ size \in [Windows -> {"normal", "full", "max"}]
  BY <1>1, <1>2, <1>4 DEF Init
<1>7. QED BY <1>5, <1>6 DEF WorkspacesInv, Orderly

\* What a step does to the windows other than w.
Rearranges(w) == Undisturbed(s, s', w) /\ \A x \in Windows \ {w} : size'[x] = size[x]
Sorted == WorkspacesInv' /\ \E w \in Windows \cup {None} : Rearranges(w)

LEMMA WorkspacesStep == WorkspacesInv /\ [Next]_vars => Sorted
<1> SUFFICES ASSUME WorkspacesInv, [Next]_vars PROVE Sorted
  OBVIOUS
<1>t. PICK t : t = s
  OBVIOUS
<1>0. /\ Settled(t) /\ ~t.over /\ (~untidy => Tidy(t)) /\ Whole(t) /\ Housed(t) /\ t.frozen = 0
      /\ t.active \in ToSet(t.list) /\ size \in [Windows -> {"normal", "full", "max"}]
      /\ \A k \in DOMAIN t.list : t.list[k] \in ToSet(t.list) /\ k \in Nat \ {0}
  <2>1. /\ Settled(t) /\ ~t.over /\ (~untidy => Tidy(t))
        /\ size \in [Windows -> {"normal", "full", "max"}]
    BY <1>t DEF WorkspacesInv, Orderly
  <2>2. Whole(t) /\ Housed(t) /\ t.frozen = 0 /\ t.active \in ToSet(t.list)
    BY <2>1 DEF Settled, Whole
  <2>3. \A k \in DOMAIN t.list : t.list[k] \in ToSet(t.list) /\ k \in Nat \ {0}
    BY <2>2, ListFacts
  <2>4. QED BY <2>1, <2>2, <2>3
\* A step that leads to u.
<1>1. ASSUME NEW u, Settled(u), Tidy(t) => Tidy(u), Becomes(u), untidy' = untidy,
             size' \in [Windows -> {"normal", "full", "max"}],
             NEW w \in Windows \cup {None}, Undisturbed(t, u, w),
             \A x \in Windows \ {w} : size'[x] = size[x]
      PROVE  Sorted
  <2>1. Orderly(s', untidy') /\ Undisturbed(u, s', w)
    BY <1>0, <1>1, BecomesFacts
  <2>2. Undisturbed(s, s', w)
    BY <1>t, <1>1, <2>1, UndisturbedTrans
  <2>3. QED BY <1>1, <2>1, <2>2 DEF WorkspacesInv, Rearranges, Sorted
<1>2. ASSUME NEW u, Kept(t, u), Becomes(u), UNCHANGED <<size, untidy>>,
             NEW w \in Windows \cup {None}, Undisturbed(t, u, w)
      PROVE  Sorted
  <2>1. Settled(u) /\ (Tidy(t) => Tidy(u))
    BY <1>0, <1>2, KeptSettled
  <2>2. QED BY <1>0, <1>1, <1>2, <2>1
<1>3. \A step \in {-1, 1} : Neighbor(t, t.active, step) \in ToSet(t.list)
  BY <1>0 DEF Neighbor
<1>4. ASSUME NEW w \in Windows, NEW id \in ToSet(s.list), Open(w, id) PROVE Sorted
  <2>1. PICK u : u = PutOn(t, w, id)
    OBVIOUS
  <2>2. t.at[w] \notin Ids /\ id \in ToSet(t.list)
    BY <1>t, <1>4, WorkspaceAssumption DEF Open
  <2>3. Kept(t, u) /\ Undisturbed(t, u, w)
    BY <1>0, <2>1, <2>2, PutOnFacts DEF Undisturbed
  <2>4. Becomes(u) /\ UNCHANGED <<size, untidy>>
    BY <1>t, <1>4, <2>1 DEF Open
  <2>5. QED BY <1>2, <2>3, <2>4
<1>5. ASSUME NEW w \in Windows, Close(w) PROVE Sorted
  <2>1. PICK k \in 0..Cardinality(Ids) : k = 0
    <3>1. Cardinality(Ids) \in Nat
      BY WorkspaceAssumption, FS_CardinalityType
    <3>2. QED BY <3>1
  <2>2. PICK v : v = [t EXCEPT !.assoc[w] = k]
    OBVIOUS
  <2>3. Settled(v) /\ (Tidy(t) => Tidy(v)) /\ v.at = t.at
    BY <1>0, <2>2, AssocFacts
  <2>4. PICK u : u = [TakeOff(v, w) EXCEPT !.at[w] = Closed]
    OBVIOUS
  <2>5. Settled(u) /\ (Tidy(t) => Tidy(u)) /\ Undisturbed(t, u, w)
    <3>1. Settled(u) /\ (Tidy(v) => Tidy(u)) /\ Undisturbed(v, u, w)
      BY <2>3, <2>4, LeaveFacts
    <3>2. QED BY <2>3, <3>1 DEF Undisturbed
  <2>6. Becomes(u) /\ untidy' = untidy
    BY <1>t, <1>5, <2>1, <2>2, <2>4 DEF Close
  <2>7. /\ size' \in [Windows -> {"normal", "full", "max"}]
        /\ \A x \in Windows \ {w} : size'[x] = size[x]
    BY <1>0, <1>5 DEF Close
  <2>8. QED BY <1>1, <2>5, <2>6, <2>7
<1>6. ASSUME NEW w \in Windows, Stick(w) PROVE Sorted
  <2>1. PICK u : u = [TakeOff(t, w) EXCEPT !.at[w] = Sticky]
    OBVIOUS
  <2>2. Settled(u) /\ (Tidy(t) => Tidy(u)) /\ Undisturbed(t, u, w)
    BY <1>0, <2>1, LeaveFacts
  <2>3. Becomes(u) /\ UNCHANGED <<size, untidy>>
    BY <1>t, <1>6, <2>1 DEF Stick
  <2>4. QED BY <1>0, <1>1, <2>2, <2>3
<1>7. ASSUME NEW w \in Windows, NEW b \in BOOLEAN, Unstick(w, b) PROVE Sorted
  <2>1. PICK v : v = PutOn(t, w, t.active)
    OBVIOUS
  <2>2. PICK u : u = IF b THEN window_added(v, t.active, w) ELSE v
    OBVIOUS
  <2>3. Becomes(u) /\ UNCHANGED <<size, untidy>> /\ t.at[w] = Sticky
    BY <1>t, <1>7, <2>1, <2>2 DEF Unstick
  <2>4. ~u.over /\ t.at[w] \notin Ids
    BY <2>3, WorkspaceAssumption DEF Becomes
  <2>5. Settled(u) /\ (Tidy(t) => Tidy(u)) /\ Undisturbed(t, u, w)
    BY <1>0, <2>1, <2>2, <2>4, AnnouncedFacts
  <2>6. QED BY <1>0, <1>1, <2>3, <2>5
<1>8. ASSUME NEW id \in ToSet(t.list), SwitchTo(id) PROVE Sorted
  <2>1. PICK u : u = activate(t, id)
    OBVIOUS
  <2>2. Kept(t, u) /\ Undisturbed(t, u, None)
    BY <1>0, <2>1, ActivationKeeps, Activation, ThinnerUndisturbed
  <2>3. Becomes(u) /\ UNCHANGED <<size, untidy>>
    BY <1>t, <1>8, <2>1 DEF SwitchTo
  <2>4. QED BY <1>2, <2>2, <2>3
<1>9. ASSUME NEW step \in {-1, 1}, switch_to_next_workspace(step) PROVE Sorted
  <2>1. PICK id : id = Neighbor(t, t.active, step)
    OBVIOUS
  <2>2. SwitchTo(id)
    BY <1>t, <1>9, <2>1 DEF switch_to_next_workspace
  <2>3. QED BY <1>3, <1>8, <2>1, <2>2
<1>10. ASSUME NEW w \in Windows, NEW step \in {-1, 1}, move_window(w, step) PROVE Sorted
  <2>1. PICK id : id = Neighbor(t, t.active, step)
    OBVIOUS
  <2>2. PICK v : v = IF t.at[w] = Sticky THEN t ELSE change_workspace(t, w, id)
    OBVIOUS
  <2>3. PICK u : u = activate(v, id)
    OBVIOUS
  <2>4. id \in ToSet(t.list) /\ t.at[w] # None
    BY <1>0, <1>3, <2>1 DEF Housed
  <2>5. Kept(t, v) /\ id \in ToSet(v.list) /\ Undisturbed(t, v, w)
    BY <1>0, <2>2, <2>4, ChangeFacts, KeptSelf, UndisturbedSelf
  <2>6. Kept(v, u) /\ Undisturbed(v, u, w)
    <3>1. Whole(v)
      BY <2>5 DEF Kept
    <3>2. QED BY <2>3, <2>5, <3>1, ActivationKeeps, Activation, ThinnerUndisturbed
  <2>7. Becomes(u) /\ UNCHANGED <<size, untidy>>
    BY <1>t, <1>10, <2>1, <2>2, <2>3 DEF move_window
  <2>8. Kept(t, u) /\ Undisturbed(t, u, w)
    BY <2>5, <2>6, KeptTrans, UndisturbedTrans
  <2>9. QED BY <1>2, <2>7, <2>8
<1>11. ASSUME NEW w \in Windows, NEW id \in ToSet(s.list), MoveCurrent(w, id) PROVE Sorted
  <2>1. PICK u : u = change_workspace(t, w, id)
    OBVIOUS
  <2>2. Kept(t, u) /\ Undisturbed(t, u, w)
    BY <1>t, <1>0, <2>1, ChangeFacts DEF Housed
  <2>3. Becomes(u) /\ UNCHANGED <<size, untidy>>
    BY <1>t, <1>11, <2>1 DEF MoveCurrent
  <2>4. QED BY <1>2, <2>2, <2>3
<1>12. ASSUME NEW w \in Windows, NEW k \in DOMAIN s.list, DropOnInserter(w, k) PROVE Sorted
  <2>1. PICK u : u = insert_workspace_with_window(t, k, w)
    OBVIOUS
  <2>2. k \in Nat \ {0}
    BY <1>t, <1>0
  <2>3. Becomes(u) /\ UNCHANGED <<size, untidy>>
    BY <1>t, <1>12, <2>1 DEF DropOnInserter
  <2>4. ~u.over
    BY <2>3 DEF Becomes
  <2>5. Kept(t, u) /\ Unfrozen(t, u, w, k)
    BY <1>0, <2>1, <2>2, <2>4, InsertFacts DEF Settled
  <2>6. Undisturbed(t, u, w)
    BY <1>0, <2>2, <2>5, InsertUndisturbed
  <2>7. QED BY <1>2, <2>3, <2>5, <2>6
<1>13. ASSUME NEW w \in Windows, NEW how \in {"full", "max"}, Enlarge(w, how) PROVE Sorted
  <2>1. PICK u : u = IF how = "max" \/ t.dynamic THEN MoveToNext(t, w) ELSE t
    OBVIOUS
  <2>2. t.at[w] \notin {Closed, Sticky} /\ Becomes(u) /\ untidy' = untidy
    BY <1>t, <1>13, <2>1 DEF Enlarge, Placed
  <2>3. Settled(u) /\ (Tidy(t) => Tidy(u)) /\ Undisturbed(t, u, w)
    BY <1>0, <2>1, <2>2, MoveToNextFacts, UndisturbedSelf DEF Becomes
  <2>4. /\ size' \in [Windows -> {"normal", "full", "max"}]
        /\ \A x \in Windows \ {w} : size'[x] = size[x]
    BY <1>0, <1>13 DEF Enlarge
  <2>5. QED BY <1>1, <2>2, <2>3, <2>4
<1>14. ASSUME NEW w \in Windows, Shrink(w) PROVE Sorted
  <2>1. \E u \in {MoveBack(t, w), t} : Becomes(u)
    BY <1>t, <1>14 DEF Shrink
  <2>2. PICK u \in {MoveBack(t, w), t} : Becomes(u)
    BY <2>1
  <2>3. Settled(u) /\ (Tidy(t) => Tidy(u)) /\ Undisturbed(t, u, w)
    BY <1>0, <2>2, MoveBackFacts, UndisturbedSelf
  <2>4. /\ size' \in [Windows -> {"normal", "full", "max"}] /\ untidy' = untidy
        /\ \A x \in Windows \ {w} : size'[x] = size[x]
    BY <1>0, <1>14 DEF Shrink
  <2>5. QED BY <1>1, <2>2, <2>3, <2>4
<1>15. ASSUME NEW d \in {-1, 1}, SetModal(d) PROVE Sorted
  <2>1. PICK u : u = [t EXCEPT !.modal = @ + d]
    OBVIOUS
  <2>2. t.modal + d \in 0..1 /\ Becomes(u) /\ UNCHANGED <<size, untidy>>
    BY <1>t, <1>15, <2>1 DEF SetModal
  <2>3. Settled(u) /\ (Tidy(t) => Tidy(u)) /\ Undisturbed(t, u, None)
    <3>1. d \in Int
      OBVIOUS
    <3>2. Settled(u) /\ (Tidy(t) => Tidy(u)) /\ u.at = t.at
      BY <1>0, <2>1, <2>2, <3>1, ModalFacts
    <3>3. QED BY <3>2 DEF Undisturbed
  <2>4. QED BY <1>0, <1>1, <2>2, <2>3
<1>16. ASSUME NEW b \in BOOLEAN, SetDynamic(b) PROVE Sorted
  <2>1. PICK v : v = WithDynamic(t, b)
    OBVIOUS
  <2>2. PICK u : u = Refilled(v, b)
    OBVIOUS
  <2>3. Settled(u) /\ u.at = t.at
    <3>1. Settled(t) /\ b \in BOOLEAN
      BY <1>0
    <3>2. QED BY <2>1, <2>2, <3>1, DynamicFacts
  <2>4. Becomes(u) /\ untidy' = TRUE /\ size' = size
    BY <1>t, <1>16, <2>1, <2>2 DEF SetDynamic, WithDynamic, Refilled
  <2>5. Orderly(s', untidy') /\ Undisturbed(u, s', None)
    BY <2>3, <2>4, BecomesFacts
  <2>6. Undisturbed(t, u, None)
    BY <2>3 DEF Undisturbed
  <2>7. Undisturbed(s, s', None)
    BY <1>t, <2>5, <2>6, UndisturbedTrans
  <2>8. QED BY <1>0, <2>4, <2>5, <2>7 DEF WorkspacesInv, Rearranges, Sorted
<1>17. CASE UNCHANGED vars
  BY <1>17 DEF vars, WorkspacesInv, Undisturbed, Rearranges, Sorted
<1>18. QED
  BY <1>t, <1>4, <1>5, <1>6, <1>7, <1>8, <1>9, <1>10, <1>11, <1>12, <1>13, <1>14, <1>15, <1>16, <1>17
  DEF Next

\* What such a step looks like from the outside.
LEMMA RearrangesFacts ==
  ASSUME WorkspacesInv, WorkspacesInv', NEW w \in Windows \cup {None}, Rearranges(w)
  PROVE  /\ w \in DOMAIN s.at \cup {None} /\ Touched \subseteq {w}
         /\ \A x, y \in (Counted \cap DOMAIN s.at) \ {w} :
              s.at[x] \notin {Closed, Sticky} /\ s.at[y] \notin {Closed, Sticky}
              => (Together(s, x, y) <=> Together(s', x, y))
<1>1. /\ DOMAIN s.at = Windows
      /\ \A x \in Windows : s.at[x] \in {Closed, Sticky} <=> s.at[x] \notin Ids
      /\ \A x \in Windows : s'.at[x] \in {Closed, Sticky} <=> s'.at[x] \notin Ids
  BY ListFacts, WorkspaceAssumption DEF WorkspacesInv, Orderly, Settled, Whole, Housed, Compositors
<1>2. Touched \subseteq {w}
  BY <1>1 DEF Touched, Rearranges, Undisturbed
<1>3. ASSUME NEW x \in (Counted \cap DOMAIN s.at) \ {w}, NEW y \in (Counted \cap DOMAIN s.at) \ {w},
             s.at[x] \notin {Closed, Sticky}, s.at[y] \notin {Closed, Sticky}
      PROVE  Together(s, x, y) <=> Together(s', x, y)
  BY <1>1, <1>3 DEF Together, Rearranges, Undisturbed
<1>4. QED BY <1>1, <1>2, <1>3

LEMMA WorkspacesInvSound == WorkspacesInv => WorkspacesSound
<1> SUFFICES ASSUME WorkspacesInv PROVE WorkspacesSound
  OBVIOUS
<1>1. /\ Settled(s) /\ ~s.over /\ (~untidy => Tidy(s)) /\ Whole(s) /\ s \in Compositors
      /\ Housed(s) /\ EndVacant(s) /\ s.frozen = 0 /\ s.modal \in 0..1
      /\ size \in [Windows -> {"normal", "full", "max"}]
  BY DEF WorkspacesInv, Orderly, Settled, Whole
<1>2. DOMAIN s.at = Windows /\ s.list \in Seq(Ids) /\ s.dynamic \in BOOLEAN
  BY <1>1 DEF Compositors
<1>3. ToSet(s.list) \subseteq Ids /\ Len(s.list) \in Nat \ {0} /\ Last(s.list) = End(s)
  BY <1>1, ListFacts DEF Last, End
<1>4. TypeOK
  <2>1. ToSet(s.list) \subseteq Ids /\ s.list # <<>>
    BY <1>2, <1>3
  <2>2. Cardinality(ToSet(s.list)) = Len(s.list)
    BY <1>1, ListSize
  <2>3. s.at \in [DOMAIN s.at -> ToSet(s.list) \cup {Closed, Sticky}]
    <3>1. s.at \in [Windows -> Ids \cup {Closed, Sticky, None}]
      BY <1>1 DEF Compositors
    <3>2. \A w \in Windows : s.at[w] \in ToSet(s.list) \cup {Closed, Sticky}
      BY <1>1 DEF Whole, Housed
    <3>3. QED BY <1>2, <3>1, <3>2
  <2>4. s.assoc \in [DOMAIN s.at -> 0..Cardinality(Ids)]
    <3>1. s.assoc \in [Windows -> Nat] /\ \A w \in Windows : s.assoc[w] <= Cardinality(Ids)
      BY <1>1 DEF Compositors, Settled
    <3>2. Cardinality(Ids) \in Nat
      BY WorkspaceAssumption, FS_CardinalityType
    <3>3. \A w \in Windows : s.assoc[w] \in 0..Cardinality(Ids)
      BY <3>1, <3>2
    <3>4. QED BY <1>2, <3>1, <3>3
  <2>5. s.active \in ToSet(s.list) /\ size \in [DOMAIN s.at -> {"normal", "full", "max"}]
    BY <1>1, <1>2 DEF Whole
  <2>6. QED BY <1>1, <1>2, <2>1, <2>2, <2>3, <2>4, <2>5 DEF TypeOK
<1>5. LastEmpty
  BY <1>1, <1>3, EmptyIs DEF LastEmpty, EndVacant
<1>6. NoOtherEmpty
  BY <1>1, <1>3, EmptyIs DEF NoOtherEmpty, Tidy
<1>7. QED BY <1>4, <1>5, <1>6 DEF WorkspacesSound

\* Whatever opens, closes, moves, sticks or is inserted, with the handlers nested in
\* the calls that trigger them: no workspace is listed twice or lost under its windows,
\* the last one is empty, and no other is but the active one.
THEOREM WorkspacesCorrect == Spec => []WorkspacesSound
<1>1. WorkspacesInv /\ [Next]_vars => WorkspacesInv'
  BY WorkspacesStep DEF Sorted
<1>2. QED BY <1>1, WorkspacesInit, WorkspacesInvSound, PTL DEF Spec

\* A step rearranges at most one window: of the others, those that share a workspace
\* still do, and no others, also when inserting a workspace moves them all.
THEOREM OthersUndisturbed == Spec => OthersStayTogether
<1>1. WorkspacesInv /\ [Next]_vars => WorkspacesInv'
  BY WorkspacesStep DEF Sorted
<1>2. WorkspacesInv /\ WorkspacesInv' /\ [Next]_vars =>
        [\E w \in DOMAIN s.at \cup {None} :
           /\ Touched \subseteq {w}
           /\ \A x, y \in (Counted \cap DOMAIN s.at) \ {w} :
                s.at[x] \notin {Closed, Sticky} /\ s.at[y] \notin {Closed, Sticky}
                => (Together(s, x, y) <=> Together(s', x, y))]_vars
  <2> SUFFICES ASSUME WorkspacesInv, WorkspacesInv', [Next]_vars
               PROVE  \E w \in DOMAIN s.at \cup {None} :
                        /\ Touched \subseteq {w}
                        /\ \A x, y \in (Counted \cap DOMAIN s.at) \ {w} :
                             s.at[x] \notin {Closed, Sticky} /\ s.at[y] \notin {Closed, Sticky}
                             => (Together(s, x, y) <=> Together(s', x, y))
    OBVIOUS
  <2>1. PICK w \in Windows \cup {None} : Rearranges(w)
    BY WorkspacesStep DEF Sorted
  <2>2. QED BY <2>1, RearrangesFacts
<1>3. QED BY <1>1, <1>2, WorkspacesInit, PTL DEF Spec, OthersStayTogether

-----------------------------------------------------------------------------
(* WorkspaceManager: a window that is made full-screen                     *)

\* Where only the last workspace is empty, cleanup has nothing to do.
LEMMA CleanupIdle ==
  ASSUME NEW t, Whole(t), \A id \in ToSet(t.list) : Vacant(t, id) => id = End(t)
  PROVE  cleanup(t) = t
<1>1. CASE ~t.dynamic
  BY <1>1 DEF cleanup
<1>2. CASE t.dynamic
  <2>n. PICK n : n = Len(t.list)
    OBVIOUS
  <2>0. n \in Nat /\ t \in Compositors /\ \A k \in 1..n : t.list[k] \in ToSet(t.list)
    BY <2>n, ListFacts DEF Whole
  <2>1. ASSUME NEW id \in ToSet(t.list) PROVE Swept(t, id) = t
    <3>1. (IsEmpty(t, id) <=> Vacant(t, id)) /\ (Index(t, id) = LastIndex(t) <=> id = End(t))
      BY <2>0, EmptyIs, IndexIs
    <3>2. QED BY <3>1 DEF Swept
  <2> DEFINE body(o) == [k \in 0..n |-> IF k = 0 THEN t ELSE Swept(o[k - 1], t.list[k])]
             order == CHOOSE o : o = body(o)
             g == [k \in 0..n |-> t]
  <2>2. g = body(g)
    <3>1. ASSUME NEW k \in 0..n PROVE body(g)[k] = t
      <4>1. CASE k = 0
        BY <4>1
      <4>2. CASE k # 0
        <5>1. k \in 1..n /\ k - 1 \in 0..n
          BY <2>0, <4>2
        <5>2. g[k - 1] = t
          BY <5>1
        <5>3. QED BY <2>0, <2>1, <4>2, <5>1, <5>2
      <4>3. QED BY <4>1, <4>2
    <3>2. QED BY <3>1
  <2>3. order = body(order)
    <3> HIDE DEF body
    <3>1. QED BY <2>2
  <2>4. cleanup(t) = order[n]
    BY <1>2, <2>n DEF cleanup, Swept
  <2> HIDE DEF order
  <2>5. order[0] = t /\ \A k \in 1..n : order[k] = Swept(order[k - 1], t.list[k])
    BY <2>0, <2>3
  <2> HIDE DEF body
  <2> DEFINE AsBefore == {k \in 0..n : order[k] = t}
  <2>6. 0 \in AsBefore
    BY <2>0, <2>5
  <2>7. ASSUME NEW k \in 1..n, k - 1 \in AsBefore PROVE k \in AsBefore
    BY <2>0, <2>1, <2>5, <2>7
  <2>8. \A k \in 0..n : k \in AsBefore
    <3> HIDE DEF AsBefore
    <3>1. QED BY <2>0, <2>6, <2>7, RangeInduction
  <2>9. QED BY <2>0, <2>4, <2>8
<1>3. QED BY <1>1, <1>2

\* After an insertion in front of k, for a window of the workspace before it, that window
\* is alone on k, and of all the workspaces only a new last one is empty.
LEMMA InsertedAlone ==
  ASSUME NEW t, Settled(t), Tidy(t), ~t.over, t.dynamic, NEW w \in Windows \cap Counted,
         NEW y0 \in (Windows \cap Counted) \ {w}, t.at[y0] = t.at[w],
         t.at[w] = t.active, NEW k, k = Index(t, t.active) + 1,
         NEW z, Whole(z), Inserted(t, z, w, k)
  PROVE  /\ \A id \in ToSet(z.list) : Vacant(z, id) => id = End(z)
         /\ k \in 1..Len(z.list) /\ z.at[w] = z.list[k]
         /\ \A y \in (Windows \cap Counted) \ {w} : z.at[y] # z.at[w]
<1>L. PICK L : L = Len(t.list)
  OBVIOUS
<1>M. PICK M : M = Len(z.list)
  OBVIOUS
<1>0. Whole(t) /\ L \in Nat \ {0} /\ M \in Nat /\ L <= M /\ M <= L + 1
      /\ \A m \in 1..L : t.list[m] \in ToSet(t.list) /\ z.list[m] = t.list[m]
      /\ \A i, j \in 1..L : t.list[i] = t.list[j] => i = j
      /\ t.active \in ToSet(t.list)
  <2>1. Whole(t)
    BY DEF Settled
  <2>2. QED BY <1>L, <1>M, <2>1, ListFacts DEF Inserted, Extends, Whole
<1>1. k - 1 \in 1..L /\ t.list[k - 1] = t.active /\ t.active # t.list[L]
  <2>1. Vacant(t, t.list[L]) /\ ~Vacant(t, t.active)
    BY <1>L DEF Settled, EndVacant, Vacant, End
  <2>2. QED BY <1>0, <1>L, <2>1, IndexIs
<1>2. k \in Nat /\ k <= L /\ k - 1 < L /\ k - 1 \in Nat
  <2>1. k - 1 # L
    BY <1>1
  <2>2. QED BY <1>0, <1>1, <2>1
<1>3. z.at[w] = t.list[k] /\ z.at[w] = z.list[k] /\ k \in 1..M /\ k \in 1..L
  BY <1>0, <1>1, <1>2, <1>L DEF Inserted
<1>4. ASSUME NEW j \in 1..L, j # L
      PROVE  \E y \in (Windows \cap Counted) \ {w} : t.at[y] = t.list[j]
  <2>1. CASE t.list[j] = t.active
    BY <2>1
  <2>2. CASE t.list[j] # t.active
    <3>1. t.list[j] # End(t)
      BY <1>0, <1>L, <1>4 DEF End
    <3>2. ~Vacant(t, t.list[j])
      BY <1>0, <2>2, <3>1 DEF Tidy
    <3>3. QED BY <2>2, <3>2 DEF Vacant
  <2>3. QED BY <2>1, <2>2
<1>5. ASSUME NEW y \in Windows \ {w}, t.at[y] \in Ids
      PROVE  z.at[y] \in Ids /\ Spot(z, y) = Further(Spot(t, y), k) /\ Spot(t, y) \in 1..L
             /\ z.at[y] = z.list[Spot(z, y)]
  <2>1. z.at[y] \in Ids /\ Spot(z, y) = Further(Spot(t, y), k)
    BY <1>5 DEF Inserted
  <2>2. Spot(t, y) \in 1..L
    BY <1>0, <1>L, <1>5, SpotFacts
  <2>3. z.list[Spot(z, y)] = z.at[y]
    BY <2>1, SpotFacts
  <2>4. QED BY <2>1, <2>2, <2>3
<1>6. ASSUME NEW m \in 1..L PROVE ~Vacant(z, z.list[m])
  <2>1. CASE m = k
    BY <1>3, <2>1 DEF Vacant
  <2>2. CASE m # k
    <3>1. PICK j : j = IF m < k THEN m ELSE m - 1
      OBVIOUS
    <3>2. j \in 1..L /\ j # L /\ Further(j, k) = m
      BY <1>0, <1>2, <1>1, <2>2, <3>1 DEF Further
    <3>3. PICK y \in (Windows \cap Counted) \ {w} : t.at[y] = t.list[j]
      BY <1>4, <3>2
    <3>4. Spot(t, y) = j /\ t.at[y] \in Ids
      BY <1>0, <1>L, <3>2, <3>3, SpotIs
    <3>5. z.at[y] = z.list[m]
      BY <1>5, <3>2, <3>4
    <3>6. QED BY <3>5 DEF Vacant
  <2>3. QED BY <2>1, <2>2
<1>7. ASSUME NEW id \in ToSet(z.list), Vacant(z, id) PROVE id = End(z)
  <2>1. PICK m \in 1..M : z.list[m] = id
    BY <1>M, ListFacts DEF ToSet
  <2>2. m \notin 1..L
    BY <1>6, <1>7, <2>1
  <2>3. m = M
    BY <1>0, <2>1, <2>2
  <2>4. QED BY <1>M, <2>1, <2>3 DEF End
<1>8. ASSUME NEW y \in (Windows \cap Counted) \ {w}, z.at[y] = z.at[w] PROVE FALSE
  <2>1. z.at[y] \in Ids
    BY <1>3, <1>8, <1>M, ListFacts
  <2>2. t.at[y] \in Ids
    BY <2>1 DEF Inserted
  <2>3. Spot(z, y) = k
    BY <1>3, <1>8, <1>M, SpotIs
  <2>4. PICK j : j = Spot(t, y)
    OBVIOUS
  <2>5. Further(j, k) = k /\ j \in 1..L
    BY <1>5, <2>2, <2>3, <2>4
  <2>6. QED BY <1>0, <1>2, <2>5 DEF Further
<1>9. QED BY <1>3, <1>7, <1>8, <1>M

\* The only window of its kind on its workspace, which is the active one.
AloneActive(t, w) ==
  t.active = t.at[w] /\ t.at[w] \in Ids /\ \A y \in (Windows \cap Counted) \ {w} : t.at[y] # t.at[w]

LEMMA MoveToNextAlone ==
  ASSUME NEW t, Settled(t), Tidy(t), ~t.over, t.dynamic, NEW w \in Windows \cap Counted,
         t.at[w] = t.active, get_n_windows(t, t.active) > 1,
         NEW r, r = MoveToNext(t, w), ~r.over
  PROVE  AloneActive(r, w)
<1>1. Whole(t) /\ Housed(t) /\ t.frozen = 0 /\ t.active \in ToSet(t.list) /\ EndVacant(t) /\ t \in Compositors
  BY DEF Settled, Whole
<1>2. PICK y0 \in (Windows \cap Counted) \ {w} : t.at[y0] = t.at[w]
  <2>1. SUFFICES ASSUME \A y \in (Windows \cap Counted) \ {w} : t.at[y] # t.at[w] PROVE FALSE
    OBVIOUS
  <2>2. WindowsOf(t, t.active) \cap Counted = {w}
    BY <1>1, <2>1 DEF WindowsOf, Compositors
  <2>3. get_n_windows(t, t.active) = 1
    BY <2>2, FS_Singleton DEF get_n_windows
  <2>4. QED BY <2>3
<1>o. PICK old : old = Index(t, t.active)
  OBVIOUS
<1>3. old \in 1..Len(t.list) /\ Len(t.list) \in Nat /\ old \in 0..Cardinality(Ids)
  <2>1. old \in 1..Len(t.list) /\ Len(t.list) \in Nat
    BY <1>o, <1>1, IndexIs, ListFacts
  <2>2. QED BY <1>1, <2>1, ListSize
<1>k. PICK k : k = old + 1 /\ k \in Nat \ {0}
  BY <1>3
<1>4. PICK u : u = insert_workspace_with_window(t, k, w)
  OBVIOUS
<1>5. PICK id : id = u.list[k]
  OBVIOUS
<1>6. PICK v : v = IF k > LastIndex(u) THEN u ELSE activate(change_workspace(u, w, id), id)
  OBVIOUS
<1>7. r = [v EXCEPT !.assoc[w] = old]
  <2>1. ~(get_n_windows(t, t.at[w]) <= 1)
    <3>1. PICK n : n = get_n_windows(t, t.active)
      OBVIOUS
    <3>2. IsFiniteSet(WindowsOf(t, t.active) \cap Counted)
      <4>1. WindowsOf(t, t.active) \cap Counted \in SUBSET Windows
        BY <1>1 DEF WindowsOf, Compositors
      <4>2. QED BY <4>1, WorkspaceAssumption, FS_Subset
    <3>3. n \in Nat
      BY <3>1, <3>2, FS_CardinalityType DEF get_n_windows
    <3>4. n > 1 /\ get_n_windows(t, t.at[w]) = n
      BY <3>1
    <3>5. QED BY <3>3, <3>4
  <2>2. QED BY <1>o, <1>k, <1>4, <1>5, <1>6, <2>1 DEF MoveToNext
<1>8. Kept(t, u) /\ (~u.over => Unfrozen(t, u, w, k))
  BY <1>1, <1>k, <1>4, InsertFacts
<1>9. ASSUME NEW z, Whole(z), Inserted(t, z, w, k)
      PROVE  /\ \A x \in ToSet(z.list) : Vacant(z, x) => x = End(z)
             /\ k \in 1..Len(z.list) /\ z.at[w] = z.list[k]
             /\ \A y \in (Windows \cap Counted) \ {w} : z.at[y] # z.at[w]
  BY <1>2, <1>o, <1>k, <1>9, InsertedAlone
<1>10. ASSUME ~u.over
       PROVE  /\ Whole(u) /\ k \in 1..Len(u.list) /\ u.at[w] = u.list[k]
              /\ \A y \in (Windows \cap Counted) \ {w} : u.at[y] # u.at[w]
  <2>1. PICK z : Whole(z) /\ Inserted(t, z, w, k) /\ u = cleanup(z)
    BY <1>8, <1>10 DEF Unfrozen
  <2>2. u = z
    BY <1>9, <2>1, CleanupIdle
  <2>3. QED BY <1>9, <2>1, <2>2
<1>11. ASSUME ~u.over
       PROVE  Thinner(u, v) /\ v.active = id /\ id = u.at[w] /\ id \in Ids
  <2>1. /\ id = u.at[w] /\ id \in ToSet(u.list) /\ id \in Ids /\ ~(k > LastIndex(u)) /\ Whole(u)
    BY <1>5, <1>10, <1>11, ListFacts
  <2>2. change_workspace(u, w, id) = u
    BY <2>1 DEF change_workspace
  <2>3. v = activate(u, id)
    BY <1>6, <2>1, <2>2
  <2>4. QED BY <2>1, <2>3, Activation
<1>12. Kept(u, v)
  <2>1. Settled(u)
    BY <1>8, KeptSettled
  <2>2. QED BY <1>k, <1>5, <1>6, <2>1, FollowFacts
<1>13. r.over = v.over /\ r.at = v.at /\ r.active = v.active
  <2>1. v \in Compositors
    BY <1>12 DEF Kept, Whole
  <2>2. QED BY <1>7, <2>1 DEF Compositors
<1>14. ~u.over
  BY <1>12, <1>13 DEF Kept
<1>15. \A y \in Windows \cap Counted : v.at[y] = u.at[y]
  BY <1>11, <1>14 DEF Thinner
<1>16. QED BY <1>10, <1>11, <1>13, <1>14, <1>15 DEF AloneActive

\* Nothing else makes a window full-screen.
LEMMA FullScreens ==
  ASSUME [Next]_vars, NEW w \in Windows, size \in [Windows -> {"normal", "full", "max"}],
         size[w] = "normal", size'[w] = "full"
  PROVE  Enlarge(w, "full")
<1>1. size' # size
  OBVIOUS
<1>2. Next
  BY <1>1 DEF vars
<1>3. ~(UNCHANGED size)
  BY <1>1
<1>4. ASSUME NEW x \in Windows, Close(x) \/ Shrink(x) PROVE FALSE
  <2>1. size' = [size EXCEPT ![x] = "normal"]
    BY <1>4 DEF Close, Shrink
  <2>2. QED BY <2>1
<1>5. ASSUME NEW x \in Windows, NEW how \in {"full", "max"}, Enlarge(x, how) PROVE Enlarge(w, "full")
  <2>1. size' = [size EXCEPT ![x] = how]
    BY <1>5 DEF Enlarge
  <2>2. x = w /\ how = "full"
    BY <2>1
  <2>3. QED BY <1>5, <2>2
<1>6. ASSUME NEW x \in Windows
      PROVE  /\ ~Stick(x)
             /\ \A b \in BOOLEAN : ~Unstick(x, b)
             /\ \A id \in ToSet(s.list) : ~Open(x, id) /\ ~MoveCurrent(x, id)
             /\ \A step \in {-1, 1} : ~move_window(x, step)
             /\ \A k \in DOMAIN s.list : ~DropOnInserter(x, k)
  BY <1>3 DEF Stick, Unstick, Open, MoveCurrent, move_window, DropOnInserter
<1>7. /\ \A id \in ToSet(s.list) : ~SwitchTo(id)
      /\ \A step \in {-1, 1} : ~switch_to_next_workspace(step) /\ ~SetModal(step)
      /\ \A b \in BOOLEAN : ~SetDynamic(b)
  BY <1>3 DEF SwitchTo, switch_to_next_workspace, SetModal, SetDynamic
<1>8. QED BY <1>2, <1>4, <1>5, <1>6, <1>7 DEF Next

LEMMA FullStep ==
  ASSUME WorkspacesInv, WorkspacesInv', NEW w \in Windows \cap Counted, Enlarge(w, "full"), s.dynamic, ~untidy,
         s.at[w] = s.active, get_n_windows(s, s.at[w]) > 1
  PROVE  get_n_windows(s', s'.at[w]) = 1 /\ s'.active = s'.at[w]
<1>t. PICK t : t = s
  OBVIOUS
<1>u. PICK u : u = s'
  OBVIOUS
<1>1. Settled(t) /\ ~t.over /\ Tidy(t) /\ Settled(u) /\ Whole(u)
  BY <1>t, <1>u DEF WorkspacesInv, Orderly, Settled
<1>2. PICK r : r = MoveToNext(t, w)
  OBVIOUS
<1>3. ~r.over /\ u = Renumbered(r)
  BY <1>t, <1>u, <1>2 DEF Enlarge, Becomes
<1>4. AloneActive(r, w)
  <2>1. t.dynamic /\ t.at[w] = t.active /\ get_n_windows(t, t.active) > 1
    BY <1>t
  <2>2. QED BY <1>1, <1>2, <1>3, <2>1, MoveToNextAlone
<1>5. Settled(r) /\ Whole(r)
  <2>1. t.at[w] \notin {Closed, Sticky}
    BY <1>t DEF Enlarge, Placed
  <2>2. QED BY <1>1, <1>2, <2>1, MoveToNextFacts DEF Settled
<1>6. /\ u.active = Index(r, r.active)
      /\ \A x \in Windows : r.at[x] \in Ids => u.at[x] = Index(r, r.at[x])
      /\ Undisturbed(r, u, w)
  BY <1>3, <1>5, RenumberedFacts
<1>7. u.active = u.at[w] /\ u.at[w] \in Ids
  BY <1>1, <1>4, <1>6, ListFacts DEF AloneActive, Whole, Compositors
<1>8. ASSUME NEW y \in (Windows \cap Counted) \ {w}, u.at[y] = u.at[w] PROVE FALSE
  <2>1. r.at[y] \in Ids
    BY <1>6, <1>7, <1>8 DEF Undisturbed
  <2>2. u.at[y] = Spot(r, y) /\ u.at[w] = Spot(r, w)
    BY <1>4, <1>6, <2>1 DEF Spot, AloneActive
  <2>3. r.at[y] = r.at[w]
    <3>1. r.at[w] \in Ids
      BY <1>4 DEF AloneActive
    <3>2. r.at[y] = r.at[w] <=> Spot(r, y) = Spot(r, w)
      BY <1>5, <2>1, <3>1, SpotsTell
    <3>3. QED BY <1>8, <2>2, <3>2
  <2>4. QED BY <1>4, <2>3 DEF AloneActive
<1>9. WindowsOf(u, u.at[w]) \cap Counted = {w}
  <2>1. DOMAIN u.at = Windows
    BY <1>1 DEF Whole, Compositors
  <2>2. QED BY <1>8, <2>1 DEF WindowsOf
<1>10. get_n_windows(u, u.at[w]) = 1
  BY <1>9, FS_Singleton DEF get_n_windows
<1>11. QED BY <1>u, <1>7, <1>10

\* A window of the active workspace that is made full-screen next to others ends up alone
\* on the active workspace, wherever its workspace is among the others.
THEOREM FullscreenCorrect == Spec => FullscreenAlone
<1>1. WorkspacesInv /\ [Next]_vars => WorkspacesInv'
  BY WorkspacesStep DEF Sorted
<1>2. WorkspacesInv /\ WorkspacesInv' /\ [Next]_vars =>
        [\A w \in Counted \cap DOMAIN s.at :
           /\ size[w] = "normal" /\ size'[w] = "full" /\ s.dynamic /\ ~untidy
           /\ s.at[w] = s.active
           /\ get_n_windows(s, s.at[w]) > 1
           => get_n_windows(s', s'.at[w]) = 1 /\ s'.active = s'.at[w]]_vars
  <2> SUFFICES ASSUME WorkspacesInv, WorkspacesInv', [Next]_vars, NEW w \in Counted \cap DOMAIN s.at,
                      size[w] = "normal", size'[w] = "full", s.dynamic, ~untidy, s.at[w] = s.active,
                      get_n_windows(s, s.at[w]) > 1
               PROVE  get_n_windows(s', s'.at[w]) = 1 /\ s'.active = s'.at[w]
    OBVIOUS
  <2>1. w \in Windows \cap Counted /\ size \in [Windows -> {"normal", "full", "max"}]
    BY DEF WorkspacesInv, Orderly, Settled, Whole, Compositors
  <2>2. Enlarge(w, "full")
    BY <2>1, FullScreens
  <2>3. QED BY <2>1, <2>2, FullStep
<1>3. QED BY <1>1, <1>2, WorkspacesInit, PTL DEF Spec, FullscreenAlone
=============================================================================
