----------------------------- MODULE Dock_proofs -----------------------------
(***************************************************************************)
(* Proofs about the two managers that share plank's dock window.           *)
(*                                                                         *)
(* DragManager, for any items, drags and bounds: the types, that a drag    *)
(* leaves nothing behind, that data is accepted in its own drag, and that  *)
(* only a drag that ends off the dock takes an item away.                  *)
(*                                                                         *)
(* HideManager, for any windows, delays and modes, as the instance Hide,   *)
(* which MCHideManager makes: the types, and the invariants that say what  *)
(* the hide and unhide timeouts, the flags of the windows and the pressure *)
(* on the barrier are worth.                                               *)
(***************************************************************************)
EXTENDS DragManager, MCHideManager, DataLemmas, FiniteSetTheorems, TLAPS

-----------------------------------------------------------------------------
(* The order of the items                                                  *)

\* What the items may become by being moved: nothing is lost or doubled.
Arrangements == {s \in Seq(Items) : Distinct(s) /\ ToSet(s) = ToSet(items)}

LEMMA IndexOf ==
  ASSUME NEW s, NEW x \in ToSet(s)
  PROVE  index_of(s, x) \in DOMAIN s /\ s[index_of(s, x)] = x
BY DEF index_of, ToSet

\* move_to puts an item elsewhere in the same order.
LEMMA MoveFacts ==
  ASSUME NEW s \in Arrangements, NEW x, NEW y
  PROVE  move_to(s, x, y) \in Arrangements
<1>0. s \in Seq(Items) /\ Distinct(s) /\ ToSet(s) = ToSet(items) /\ DOMAIN s = 1..Len(s)
  BY DEF Arrangements
<1>1. CASE x = y \/ x \notin ToSet(s) \/ y \notin ToSet(s)
  BY <1>1 DEF move_to
<1>2. CASE ~(x = y \/ x \notin ToSet(s) \/ y \notin ToSet(s))
  <2> DEFINE from == index_of(s, x)
             to   == index_of(s, y)
             r    == RemoveAt(s, from)
             t    == InsertAt(r, to, x)
             n    == Len(s)
  <2>1. /\ from \in 1..n /\ s[from] = x
        /\ to \in 1..n /\ s[to] = y /\ x \in Items /\ n \in Nat
    BY <1>0, <1>2, IndexOf
  <2>2. move_to(s, x, y) = t
    BY <1>2 DEF move_to
  <2> HIDE DEF from, to
  <2>3. /\ r \in Seq(Items) /\ Len(r) = n - 1
        /\ \A k \in 1..from - 1 : r[k] = s[k]
        /\ \A k \in from..n - 1 : r[k] = s[k + 1]
    BY <1>0, <2>1, RemoveAtFacts
  <2> HIDE DEF r
  <2>4. /\ t \in Seq(Items) /\ Len(t) = n
        /\ t[to] = x
        /\ \A k \in 1..to - 1 : t[k] = r[k]
        /\ \A k \in to + 1..n : t[k] = r[k - 1]
    <3>1. to \in 1..Len(r) + 1 /\ Len(r) + 1 = n
      BY <2>1, <2>3
    <3>2. QED BY <2>1, <2>3, <3>1, InsertAtFacts
  <2> HIDE DEF t
  \* Where the element at k of the new order comes from
  <2> DEFINE hole(k) == IF k < to THEN k ELSE k - 1
             orig(k) == IF k = to THEN from
                        ELSE IF hole(k) < from THEN hole(k) ELSE hole(k) + 1
  <2>5. ASSUME NEW k \in 1..n
        PROVE  orig(k) \in 1..n /\ t[k] = s[orig(k)]
    <3>1. CASE k = to
      BY <2>1, <2>4, <3>1
    <3>2. CASE k < to
      <4>1. k \in 1..to - 1 /\ k \in 1..n - 1
        BY <2>1, <3>2
      <4>2. t[k] = r[k]
        BY <2>4, <4>1
      <4>3. CASE k < from
        BY <2>1, <2>3, <3>2, <4>1, <4>2, <4>3
      <4>4. CASE k >= from
        BY <2>1, <2>3, <3>2, <4>1, <4>2, <4>4
      <4>5. QED BY <2>1, <4>3, <4>4
    <3>3. CASE k > to
      <4>1. k \in to + 1..n /\ k - 1 \in 1..n - 1
        BY <2>1, <3>3
      <4>2. t[k] = r[k - 1]
        BY <2>4, <4>1
      <4>3. CASE k - 1 < from
        <5>1. k - 1 \in 1..from - 1 /\ orig(k) = k - 1
          BY <2>1, <3>3, <4>1, <4>3
        <5>2. QED BY <2>1, <2>3, <4>1, <4>2, <5>1
      <4>4. CASE k - 1 >= from
        <5>1. r[k - 1] = s[(k - 1) + 1]
          <6>1. k - 1 \in from..n - 1
            BY <2>1, <4>1, <4>4
          <6>2. QED BY <2>3, <6>1
        <5>2. orig(k) = (k - 1) + 1
          BY <2>1, <3>3, <4>4
        <5>3. QED BY <4>2, <5>1, <5>2
      <4>5. QED BY <2>1, <4>3, <4>4
    <3>4. k = to \/ k < to \/ k > to
      BY <2>1
    <3> HIDE DEF orig
    <3>5. QED BY <3>1, <3>2, <3>3, <3>4
  <2>6. ASSUME NEW j \in 1..n PROVE \E k \in 1..n : orig(k) = j
    <3> DEFINE m == IF j < from THEN j ELSE j - 1
               k == IF j = from THEN to ELSE IF m < to THEN m ELSE m + 1
    <3>1. k \in 1..n /\ orig(k) = j
      BY <2>1
    <3>2. QED BY <3>1
  <2>7. ASSUME NEW j \in 1..n, NEW k \in 1..n, orig(j) = orig(k) PROVE j = k
    BY <2>1, <2>7
  <2> HIDE DEF orig
  <2>8. Distinct(t)
    <3> SUFFICES ASSUME NEW j \in 1..n, NEW k \in 1..n, t[j] = t[k] PROVE j = k
      BY <2>4 DEF Distinct
    <3>1. s[orig(j)] = s[orig(k)] /\ orig(j) \in DOMAIN s /\ orig(k) \in DOMAIN s
      BY <1>0, <2>5
    <3>2. QED BY <1>0, <2>7, <3>1 DEF Distinct
  <2>9. ToSet(t) = ToSet(s)
    <3>1. DOMAIN t = 1..n /\ DOMAIN s = 1..n
      BY <1>0, <2>4
    <3>2. ASSUME NEW z \in ToSet(t) PROVE z \in ToSet(s)
      BY <2>5, <3>1 DEF ToSet
    <3>3. ASSUME NEW z \in ToSet(s) PROVE z \in ToSet(t)
      <4>1. PICK j \in 1..n : z = s[j]
        BY <3>1 DEF ToSet
      <4>2. PICK k \in 1..n : orig(k) = j
        BY <2>6
      <4>3. QED BY <2>5, <3>1, <4>1, <4>2 DEF ToSet
    <3>4. QED BY <3>2, <3>3
  <2>10. QED BY <1>0, <2>2, <2>4, <2>8, <2>9 DEF Arrangements
<1>3. QED BY <1>1, <1>2

\* However often the dragged item is moved.
LEMMA MovedFacts ==
  ASSUME items \in Arrangements, NEW n \in Nat, NEW h
  PROVE  Moved(n, h) \in Arrangements
<1> DEFINE step == [s \in Arrangements |-> move_to(s, DragItem, h)]
           body(o) == [k \in 0..n |-> IF k = 0 THEN items ELSE move_to(o[k - 1], DragItem, h)]
           order == CHOOSE o : o = body(o)
<1>1. step \in [Arrangements -> Arrangements]
  BY MoveFacts
<1>2. PICK g \in [0..n -> Arrangements] : g[0] = items /\ \A k \in 1..n : g[k] = step[g[k - 1]]
  <2> HIDE DEF step
  <2>1. Runs(Arrangements, items, step, n) # {}
    BY <1>1, Iteration
  <2>2. QED BY <2>1 DEF Runs
<1>3. g = body(g)
  <2>1. ASSUME NEW k \in 0..n PROVE g[k] = body(g)[k]
    <3>1. CASE k = 0
      BY <1>2, <3>1
    <3>2. CASE k # 0
      <4>1. k \in 1..n /\ k - 1 \in 0..n
        BY <3>2
      <4>2. g[k - 1] \in Arrangements
        BY <1>2, <4>1
      <4>3. QED BY <1>2, <3>2, <4>1, <4>2
    <3>3. QED BY <3>1, <3>2
  <2>2. QED BY <1>2, <2>1
<1>4. order = body(order)
  <2> HIDE DEF body
  <2>1. QED BY <1>3
<1>5. Moved(n, h) = order[n]
  BY DEF Moved
<1> HIDE DEF order
<1> DEFINE Kept == {k \in 0..n : order[k] \in Arrangements}
<1>6. 0 \in Kept
  BY <1>4
<1>7. ASSUME NEW k \in 1..n, k - 1 \in Kept PROVE k \in Kept
  <2>1. order[k] = move_to(order[k - 1], DragItem, h)
    BY <1>4
  <2>2. QED BY <1>7, <2>1, MoveFacts
<1>8. n \in Kept
  <2> HIDE DEF Kept
  <2>1. QED BY <1>6, <1>7, RangeInduction
<1>9. QED BY <1>5, <1>8

\* Taking an item away leaves the others as they were.
LEMMA RemovedFacts ==
  ASSUME NEW s \in Seq(Items), Distinct(s), NEW x
  PROVE  Removed(s, x) \in Seq(Items) /\ Distinct(Removed(s, x))
<1>1. CASE x \notin ToSet(s)
  BY <1>1 DEF Removed
<1>2. CASE x \in ToSet(s)
  <2> DEFINE i == index_of(s, x)
             r == RemoveAt(s, i)
             orig(k) == IF k < i THEN k ELSE k + 1
  <2>1. i \in 1..Len(s) /\ Removed(s, x) = r /\ DOMAIN s = 1..Len(s) /\ Len(s) \in Nat
    BY <1>2, IndexOf DEF Removed
  <2> HIDE DEF i
  <2>2. /\ r \in Seq(Items) /\ Len(r) = Len(s) - 1
        /\ \A k \in 1..i - 1 : r[k] = s[k]
        /\ \A k \in i..Len(s) - 1 : r[k] = s[k + 1]
    BY <2>1, RemoveAtFacts
  <2> HIDE DEF r
  <2>3. ASSUME NEW k \in DOMAIN r PROVE orig(k) \in DOMAIN s /\ r[k] = s[orig(k)]
    <3>1. k \in 1..Len(s) - 1
      BY <2>2
    <3>2. k \in 1..i - 1 \/ k \in i..Len(s) - 1
      BY <2>1, <3>1
    <3>3. QED BY <2>1, <2>2, <3>1, <3>2
  <2>4. ASSUME NEW j \in DOMAIN r, NEW k \in DOMAIN r, r[j] = r[k] PROVE j = k
    <3>1. orig(j) = orig(k)
      BY <2>3, <2>4 DEF Distinct
    <3>2. j \in Nat /\ k \in Nat
      BY <2>2
    <3>3. QED BY <2>1, <3>1, <3>2
  <2>5. QED BY <2>1, <2>2, <2>4 DEF Distinct
<1>3. QED BY <1>1, <1>2

-----------------------------------------------------------------------------
(* Types                                                                   *)

\* TypeOK in three parts: what StopExternal sets, what a move of the pointer
\* sets, and the rest.
ExternalType ==
  /\ external_drag_active \in BOOLEAN /\ drag_known \in BOOLEAN
  /\ drag_data \in Contexts \cup {NoData}
  /\ drag_data_requested \in BOOLEAN /\ DragNeedsCheck \in BOOLEAN

HoverType ==
  /\ drag_hover_timer \in BOOLEAN
  /\ HoveredItem \in Items \cup {NoItem}
  /\ Hovered \in BOOLEAN /\ Disabled \in BOOLEAN
  /\ items \in Seq(Items) /\ Distinct(items)
  /\ pointer \in Positions

DragType ==
  /\ InternalDragActive \in BOOLEAN /\ drag_canceled \in BOOLEAN
  /\ DragItem \in Items \cup {NoItem}
  /\ marker \in Contexts \cup {NoDrag, "internal"}
  /\ handlers \in 0..MaxHandlers
  /\ LockItems \in BOOLEAN
  /\ pinned \subseteq Items
  /\ session \in Contexts \cup {NoDrag, "internal"}
  /\ over \in {"yes", "no", "dropping"}
  /\ idles \in 0..MaxIdles
  /\ replies \in Seq(Contexts) /\ Len(replies) <= MaxReplies
  /\ settled \in BOOLEAN /\ foreign \in BOOLEAN

LEMMA TypeParts == TypeOK <=> ExternalType /\ HoverType /\ DragType
BY DEF TypeOK, ExternalType, HoverType, DragType

LEMMA NextParts == ASSUME ExternalType', HoverType', DragType' PROVE TypeOK'
BY DEF TypeOK, ExternalType, HoverType, DragType

LEMMA InitType == Init => TypeOK
<1> SUFFICES ASSUME Init PROVE TypeOK
  OBVIOUS
<1>1. Cardinality(Items) \in Nat
  BY DragAssumption, FS_CardinalityType DEF DragAssumption
<1>2. items \in [1..Cardinality(Items) -> Items] /\ DOMAIN items = 1..Cardinality(Items)
  BY DEF Init, SetToSeqs
<1>3. items \in Seq(Items)
  BY <1>1, <1>2
<1>4. Distinct(items)
  BY <1>2 DEF Init, SetToSeqs, Distinct
<1>5. ExternalType
  BY DEF Init, ExternalType
<1>6. HoverType
  BY <1>3, <1>4 DEF Init, HoverType, Positions
<1>7. replies \in Seq(Contexts) /\ Len(replies) = 0
  BY DEF Init
<1>8. DragType
  <2>1. 0 \in 0..MaxHandlers /\ 0 \in 0..MaxIdles /\ MaxReplies >= 0
    BY DragAssumption DEF DragAssumption
  <2>2. Items \ Transients \subseteq Items
    OBVIOUS
  <2>3. QED BY <1>7, <2>1, <2>2 DEF Init, DragType
<1>9. QED BY <1>5, <1>6, <1>8, TypeParts

LEMMA StopType == ASSUME ExternalType, StopExternal PROVE ExternalType'
BY DEF ExternalType, StopExternal

LEMMA ArrangedType ==
  ASSUME items' \in Arrangements PROVE items' \in Seq(Items) /\ Distinct(items)'
BY DEF Arrangements, Distinct

LEMMA HoverFacts ==
  ASSUME HoverType, NEW n \in Nat, NEW h, NEW e \in BOOLEAN, NEW d,
         hovered_item_changed(n, h, e, d)
  PROVE  items' \in Arrangements /\ drag_hover_timer' \in BOOLEAN
<1>1. items \in Arrangements
  BY DEF HoverType, Arrangements
<1>2. Moved(n, h) \in Arrangements
  BY <1>1, MovedFacts
<1>3. QED BY <1>1, <1>2 DEF hovered_item_changed, HoverType

\* The pointer is found at p, over h.
LEMMA SetHoveredType ==
  ASSUME HoverType, NEW n \in Nat, NEW p, NEW h \in {ItemAt(p), NoItem},
         NEW e \in BOOLEAN, NEW d, set_hovered(h, n, e, d),
         pointer' \in Positions, Hovered' \in BOOLEAN, Disabled' \in BOOLEAN
  PROVE  HoverType' /\ items' \in Arrangements
<1>1. h \in Items \cup {NoItem}
  BY DEF ItemAt, HoverType, ToSet
<1>2. HoveredItem' = h /\ items' \in Arrangements /\ drag_hover_timer' \in BOOLEAN
  BY HoverFacts DEF set_hovered
<1>3. QED BY <1>1, <1>2, ArrangedType DEF HoverType

\* The dock's own drag is active as long as GTK+ has it under way.
OwnDragActive == InternalDragActive <=> session = "internal"

LEMMA OwnDragCorrect == Spec => []OwnDragActive
<1>1. Init => OwnDragActive
  BY DragAssumption DEF Init, OwnDragActive, DragAssumption
<1>2. OwnDragActive /\ [Next]_vars => OwnDragActive'
  <2> SUFFICES ASSUME OwnDragActive, [Next]_vars PROVE OwnDragActive'
    OBVIOUS
  <2>1. CASE UNCHANGED <<InternalDragActive, session>>
    BY <2>1 DEF OwnDragActive
  <2>2. CASE drag_begin
    BY <2>2 DEF drag_begin, OwnDragActive
  <2>3. ASSUME NEW p, drag_end(p) PROVE OwnDragActive'
    BY <2>3, DragAssumption DEF drag_end, OwnDragActive, DragAssumption
  <2>4. ASSUME NEW c \in Contexts, SourceBegins(c) PROVE OwnDragActive'
    BY <2>4, DragAssumption DEF SourceBegins, OwnDragActive, DragAssumption, internal
  <2>5. CASE SourceEnds
    BY <2>5, DragAssumption DEF SourceEnds, OwnDragActive, DragAssumption, internal
  <2>6. CASE drag_drop
    BY <2>6, DragAssumption DEF drag_drop, OwnDragActive, DragAssumption, internal
  <2>7. QED
    BY <2>1, <2>2, <2>3, <2>4, <2>5, <2>6
    DEF Next, Event, vars, drag_failed, SetLockItems, LeaveIdle, PointerMotion, drag_motion,
        drag_leave, drag_data_received, HoverTimeout, internal, gtk
<1>3. QED BY <1>1, <1>2, PTL DEF Spec

\* Every handler keeps the types.
LEMMA NextType == TypeOK /\ OwnDragActive /\ [Next]_vars => TypeOK'
<1> SUFFICES ASSUME TypeOK, OwnDragActive, [Next]_vars PROVE TypeOK'
  OBVIOUS
<1>0. ExternalType /\ HoverType /\ DragType /\ handlers \in Nat
  BY TypeParts, DragAssumption DEF DragType, DragAssumption
<1>1. CASE drag_begin
  <2>1. ExternalType' /\ HoverType'
    BY <1>0, <1>1 DEF drag_begin, ExternalType, HoverType, external, hide, dock, Distinct
  <2>2. DragType'
    <3>1. handlers' \in 0..MaxHandlers
      BY <1>0, <1>1, DragAssumption DEF drag_begin, DragType, DragAssumption
    <3>2. QED BY <1>0, <1>1, <3>1 DEF drag_begin, DragType, HoverType, dock, history
  <2>3. QED BY <2>1, <2>2, NextParts
<1>2. ASSUME NEW b \in BOOLEAN, drag_failed(b) PROVE TypeOK'
  BY <1>2 DEF drag_failed, TypeOK, external, hide, dock, gtk, history
<1>3. ASSUME NEW b \in BOOLEAN, SetLockItems(b) PROVE TypeOK'
  BY <1>3 DEF SetLockItems, TypeOK, internal, external, hide, gtk, history
<1>4. ASSUME NEW p \in Positions, drag_end(p) PROVE TypeOK'
  <2>1. items' \in Seq(Items) /\ Distinct(items)'
    <3>1. items' \in {items, Removed(items, DragItem)}
      BY <1>4 DEF drag_end
    <3>2. QED BY <1>0, <3>1, RemovedFacts DEF HoverType, Distinct
  <2>2. pinned' \subseteq Items
    BY <1>0, <1>4, DragAssumption DEF drag_end, DragType, DragAssumption
  <2>3. HoverType'
    BY <1>0, <1>4, <2>1 DEF drag_end, HoverType, update_hide, ExternalType
  <2>4. ExternalType'
    BY <1>0, <1>4 DEF drag_end, ExternalType, external
  <2>5. DragType'
    <3>1. /\ session' = NoDrag /\ InternalDragActive' = FALSE /\ DragItem' = NoItem
          /\ handlers' = 0
          /\ UNCHANGED <<drag_canceled, marker, LockItems, over, idles, replies, history>>
      BY <1>4 DEF drag_end
    <3>2. 0 \in 0..MaxHandlers
      BY DragAssumption DEF DragAssumption
    <3>3. QED BY <1>0, <2>2, <3>1, <3>2 DEF DragType, history
  <2>6. QED BY <2>3, <2>4, <2>5, NextParts
<1>5. ASSUME NEW p \in Positions, LeaveIdle(p) PROVE TypeOK'
  <2>1. ExternalType'
    BY <1>0, <1>5, StopType DEF LeaveIdle
  <2>2. pointer' \in Positions /\ Hovered' \in BOOLEAN /\ Disabled' \in BOOLEAN
    BY <1>0, <1>5 DEF LeaveIdle, update_hide, DragType
  <2>3. handlers \in Nat /\ set_hovered(NoItem, handlers, FALSE, NoData)
    BY <1>0, <1>5 DEF LeaveIdle
  <2>4. HoverType'
    BY <1>0, <2>2, <2>3, SetHoveredType
  <2>5. DragType'
    BY <1>0, <1>5, DragAssumption DEF LeaveIdle, DragType, internal, history, DragAssumption
  <2>6. QED BY <2>1, <2>4, <2>5, NextParts
<1>6. ASSUME NEW p \in Positions, PointerMotion(p) PROVE TypeOK'
  <2>1. pointer' \in Positions /\ Hovered' \in BOOLEAN /\ Disabled' \in BOOLEAN
    BY <1>0, <1>6 DEF PointerMotion, update_hide, DragType, ExternalType, HoverType, hide
  <2>2. PICK h \in {ItemAt(p), NoItem} :
          set_hovered(h, handlers, external_drag_active, drag_data)
    BY <1>6 DEF PointerMotion
  <2>3. handlers \in Nat /\ external_drag_active \in BOOLEAN
    BY <1>0 DEF DragType, ExternalType
  <2>4. HoverType'
    BY <1>0, <2>1, <2>2, <2>3, SetHoveredType
  <2>5. ExternalType' /\ DragType'
    BY <1>0, <1>6 DEF PointerMotion, ExternalType, DragType, internal, external, history
  <2>6. QED BY <2>4, <2>5, NextParts
<1>7. ASSUME NEW p \in Positions, NEW b \in BOOLEAN, drag_motion(p, b) PROVE TypeOK'
  <2> DEFINE ext == ~InternalDragActive
             ask == ext /\ (~drag_known \/ marker # session)
             n   == IF ask THEN handlers + 1 ELSE handlers
  <2>1. /\ n \in Nat /\ n <= MaxHandlers /\ handlers' = n
        /\ set_hovered(ItemAt(p), n, ext, drag_data')
        /\ update_hide(p, InternalDragActive, ext) /\ pointer' = p
    BY <1>0, <1>7 DEF drag_motion, DragType
  <2>2. HoverType'
    <3>1. Hovered' \in BOOLEAN /\ Disabled' \in BOOLEAN
      BY <1>0, <2>1 DEF update_hide, DragType
    <3>2. QED BY <1>0, <2>1, <3>1, SetHoveredType
  <2>3. ExternalType'
    BY <1>0, <1>7 DEF drag_motion, ExternalType, DragType
  <2>4. replies' \in Seq(Contexts) /\ Len(replies') <= MaxReplies
    <3>1. CASE ask /\ b
      <4>1. session \in Contexts \/ session = "internal"
        BY <1>0, <1>7 DEF drag_motion, DragType
      <4>2. replies' = Append(replies, session) /\ Len(replies) < MaxReplies
        BY <1>7, <3>1 DEF drag_motion
      <4>3. session \in Contexts
        BY <3>1, <4>1 DEF OwnDragActive
      <4>4. QED BY <1>0, <4>2, <4>3, DragAssumption DEF DragType, DragAssumption
    <3>2. CASE ~(ask /\ b)
      BY <1>0, <1>7, <3>2 DEF drag_motion, DragType
    <3>3. QED BY <3>1, <3>2
  <2>5. DragType'
    BY <1>0, <1>7, <2>1, <2>4 DEF drag_motion, DragType, internal, history
  <2>6. QED BY <2>2, <2>3, <2>5, NextParts
<1>8. ASSUME NEW p \in Positions, NEW b \in BOOLEAN, drag_leave(p, b) PROVE TypeOK'
  <2>1. ExternalType'
    BY <1>0, <1>8 DEF drag_leave, ExternalType
  <2>2. HoverType'
    <3>1. items' = items /\ Distinct(items)'
      BY <1>0, <1>8 DEF drag_leave, dock, HoverType, Distinct
    <3>2. QED
      BY <1>0, <1>8, <3>1 DEF drag_leave, HoverType, update_hide, ExternalType, DragType
  <2>3. handlers' \in 0..MaxHandlers /\ idles' \in 0..MaxIdles
    BY <1>0, <1>8, DragAssumption DEF drag_leave, DragType, DragAssumption
  <2>4. DragType'
    <3>1. /\ over' \in {"yes", "no", "dropping"}
          /\ UNCHANGED <<internal, marker, LockItems, pinned, session, replies, history>>
      BY <1>8 DEF drag_leave, dock
    <3>2. QED BY <1>0, <2>3, <3>1 DEF DragType, internal, history
  <2>5. QED BY <2>1, <2>2, <2>4, NextParts
<1>9. ASSUME NEW c \in Contexts, SourceBegins(c) PROVE TypeOK'
  BY <1>9 DEF SourceBegins, TypeOK, internal, external, hide, dock, Distinct
<1>10. CASE SourceEnds
  BY <1>10 DEF SourceEnds, TypeOK, internal, external, hide, dock, Distinct
<1>11. CASE drag_data_received
  <2>1. items' \in Arrangements /\ drag_hover_timer' \in BOOLEAN
    <3>1. CASE UNCHANGED <<items, drag_hover_timer>>
      BY <1>0, <3>1 DEF HoverType, Arrangements
    <3>2. ASSUME NEW c, hovered_item_changed(1, HoveredItem, external_drag_active, c)
          PROVE  items' \in Arrangements /\ drag_hover_timer' \in BOOLEAN
      BY <1>0, <3>2, HoverFacts DEF ExternalType
    <3>3. QED BY <1>11, <3>1, <3>2 DEF drag_data_received
  <2>2. HoverType'
    BY <1>0, <1>11, <2>1, ArrangedType DEF drag_data_received, HoverType, hide
  <2>3. replies # <<>> /\ replies' = Tail(replies) /\ Head(replies) \in Contexts
    BY <1>0, <1>11 DEF drag_data_received, DragType
  <2>4. ExternalType'
    BY <1>0, <1>11, <2>3 DEF drag_data_received, ExternalType
  <2>5. DragType'
    <3>1. replies' \in Seq(Contexts) /\ Len(replies') <= MaxReplies
      BY <1>0, <2>3, DragAssumption DEF DragType, DragAssumption
    <3>2. QED BY <1>0, <1>11, <3>1 DEF drag_data_received, DragType, internal, history
  <2>6. QED BY <2>2, <2>4, <2>5, NextParts
<1>12. CASE HoverTimeout
  BY <1>12 DEF HoverTimeout, TypeOK, internal, external, hide, gtk, dock, history, Distinct
<1>13. CASE drag_drop
  <2>1. ExternalType'
    BY <1>0, <1>13, StopType DEF drag_drop, ExternalType, external
  <2>2. HoverType'
    BY <1>0, <1>13 DEF drag_drop, HoverType, hide, dock, Distinct
  <2>3. DragType'
    BY <1>0, <1>13 DEF drag_drop, DragType, internal, dock
  <2>4. QED BY <2>1, <2>2, <2>3, NextParts
<1>14. CASE UNCHANGED vars
  BY <1>14 DEF vars, TypeOK, internal, external, hide, gtk, dock, history, Distinct
<1>15. QED
  BY <1>1, <1>2, <1>3, <1>4, <1>5, <1>6, <1>7, <1>8, <1>9, <1>10, <1>11, <1>12, <1>13, <1>14
  DEF Next, Event

\* The variables of the drag manager and of what it drives keep their types;
\* in particular no item is ever doubled in the order of the dock.
THEOREM TypeCorrect == Spec => []TypeOK
BY InitType, NextType, OwnDragCorrect, PTL DEF Spec
-----------------------------------------------------------------------------
(* What is left of a drag                                                  *)

\* DragForgotten is not inductive: while a drag is over the dock, or the callback of
\* a leave is waiting, much may be set, but only what the callback, the drop
\* or the end of the drag will reset.
CleansUp ==
  /\ OwnDragActive
  /\ ~InternalDragActive => DragItem = NoItem
  /\ external_drag_active /\ over # "yes" => idles > 0
  /\ ~external_drag_active => drag_data = NoData /\ ~drag_data_requested /\ DragNeedsCheck
  /\ ~external_drag_active => ~drag_known
  /\ over = "dropping" => session # NoDrag

\* The data of a drag that began when nothing was left of the ones before.
DataBelongs ==
  /\ InternalDragActive /\ over # "no" => ~external_drag_active
  /\ settled /\ session \in Contexts =>
       /\ drag_data \in {NoData, session}
       /\ \A k \in DOMAIN replies : replies[k] = session
  /\ ~foreign

IInv == CleansUp /\ DataBelongs

\* Steps in which only the pointer, the items and the hovered item change.
LEMMA SameDragKeepsIInv ==
  ASSUME IInv, UNCHANGED <<InternalDragActive, DragItem, external_drag_active, drag_known,
                           drag_data,
                           drag_data_requested, DragNeedsCheck, over, idles, session,
                           replies, history>>
  PROVE  IInv'
BY DEF IInv, CleansUp, DataBelongs, OwnDragActive, history

LEMMA StopFacts ==
  ASSUME TypeOK, CleansUp, StopExternal
  PROVE  ~external_drag_active' /\ ~drag_known' /\ drag_data' = NoData
         /\ ~drag_data_requested' /\ DragNeedsCheck'
BY DEF TypeOK, CleansUp, StopExternal

LEMMA NextIInv == TypeOK /\ IInv /\ [Next]_vars => IInv'
<1> SUFFICES ASSUME TypeOK, IInv, [Next]_vars PROVE IInv'
  OBVIOUS
<1>0. CleansUp /\ DataBelongs /\ OwnDragActive /\ idles \in Nat
  BY DragAssumption DEF IInv, CleansUp, TypeOK, DragAssumption
<1>1. CASE drag_begin
  <2>1. /\ session = NoDrag /\ over = "no" /\ session' = "internal"
        /\ InternalDragActive' = TRUE
        /\ UNCHANGED <<external, over, idles, replies, history>>
    BY <1>1 DEF drag_begin
  <2>2. CleansUp'
    BY <1>0, <2>1, DragAssumption DEF CleansUp, OwnDragActive, external, DragAssumption
  <2>3. DataBelongs'
    BY <1>0, <2>1, DragAssumption DEF DataBelongs, external, history, DragAssumption
  <2>4. QED BY <2>2, <2>3 DEF IInv
<1>2. ASSUME NEW p, drag_end(p), over # "dropping" PROVE IInv'
  <2>1. /\ session = "internal" /\ session' = NoDrag
        /\ InternalDragActive' = FALSE /\ DragItem' = NoItem
        /\ over # "dropping"
        /\ UNCHANGED <<external, over, idles, replies, history>>
    BY <1>2 DEF drag_end
  <2>2. CleansUp'
    BY <1>0, <2>1, DragAssumption DEF CleansUp, OwnDragActive, external, DragAssumption
  <2>3. DataBelongs'
    BY <1>0, <2>1, DragAssumption DEF DataBelongs, external, history, DragAssumption
  <2>4. QED BY <2>2, <2>3 DEF IInv
<1>3. ASSUME NEW c \in Contexts, SourceBegins(c) PROVE IInv'
  <2>1. /\ session = NoDrag /\ over = "no" /\ session' = c /\ c # "internal"
        /\ settled' = (replies = <<>> /\ idles = 0)
        /\ UNCHANGED <<internal, external, over, idles, replies, foreign>>
    BY <1>3, DragAssumption DEF SourceBegins, DragAssumption
  <2>2. CleansUp'
    BY <1>0, <2>1, DragAssumption
    DEF CleansUp, OwnDragActive, internal, external, DragAssumption
  <2>3. settled' => drag_data = NoData /\ replies = <<>>
    <3>1. settled' => replies = <<>> /\ idles = 0
      BY <2>1
    <3>2. idles = 0 => drag_data = NoData
      BY <1>0, <2>1 DEF CleansUp
    <3>3. QED BY <3>1, <3>2
  <2>4. DataBelongs'
    BY <1>0, <2>1, <2>3 DEF DataBelongs, internal, external
  <2>5. QED BY <2>2, <2>4 DEF IInv
<1>4. CASE SourceEnds
  <2>1. /\ session \in Contexts /\ session' = NoDrag /\ over = "no"
        /\ UNCHANGED <<internal, external, over, idles, replies, foreign>>
    BY <1>4 DEF SourceEnds
  <2>2. CleansUp'
    BY <1>0, <2>1, DragAssumption
    DEF CleansUp, OwnDragActive, internal, external, DragAssumption
  <2>3. DataBelongs'
    BY <1>0, <2>1, DragAssumption DEF DataBelongs, internal, external, DragAssumption
  <2>4. QED BY <2>2, <2>3 DEF IInv
<1>5. ASSUME NEW p, NEW b \in BOOLEAN, drag_motion(p, b) PROVE IInv'
  <2>1. /\ over' = "yes" /\ session # NoDrag
        /\ external_drag_active' = ~InternalDragActive
        /\ UNCHANGED <<internal, idles, session, history>>
    BY <1>5 DEF drag_motion
  <2>2. CASE InternalDragActive
    <3>1. /\ ~external_drag_active' /\ ~drag_known' /\ drag_data' = NoData
          /\ ~drag_data_requested' /\ DragNeedsCheck'
      BY <1>0, <1>5, <2>2 DEF drag_motion, CleansUp, TypeOK
    <3>2. session \notin Contexts
      BY <1>0, <2>2, DragAssumption DEF OwnDragActive, DragAssumption
    <3>3. CleansUp'
      BY <1>0, <2>1, <2>2, <3>1 DEF CleansUp, OwnDragActive, internal
    <3>4. DataBelongs'
      BY <1>0, <2>1, <3>1, <3>2 DEF DataBelongs, internal, history
    <3>5. QED BY <3>3, <3>4 DEF IInv
  <2>3. CASE ~InternalDragActive
    <3>1. drag_data' = drag_data /\ replies' \in {replies, Append(replies, session)}
      BY <1>0, <1>5, <2>3 DEF drag_motion, TypeOK
    <3>2. CleansUp'
      BY <1>0, <2>1, <2>3 DEF CleansUp, OwnDragActive, internal, TypeOK
    <3>3. settled /\ session \in Contexts => \A k \in DOMAIN replies' : replies'[k] = session
      BY <1>0, <3>1 DEF DataBelongs, TypeOK
    <3>4. DataBelongs'
      BY <1>0, <2>1, <2>3, <3>1, <3>3 DEF DataBelongs, internal, history
    <3>5. QED BY <3>2, <3>4 DEF IInv
  <2>4. QED BY <2>2, <2>3
<1>6. ASSUME drag_data_received PROVE IInv'
  <2>1. /\ replies # <<>> /\ replies' = Tail(replies)
        /\ UNCHANGED <<internal, external_drag_active, drag_known, over, idles, session,
                       history>>
        /\ ~external_drag_active => UNCHANGED <<drag_data, drag_data_requested, DragNeedsCheck>>
        /\ drag_data' \in {drag_data, Head(replies)}
    BY <1>0, <1>6 DEF drag_data_received, CleansUp
  <2>2. CleansUp'
    BY <1>0, <2>1 DEF CleansUp, OwnDragActive, internal
  <2>3. settled /\ session \in Contexts =>
          /\ Head(replies) = session
          /\ \A k \in DOMAIN replies' : replies'[k] = session
    BY <1>0, <2>1 DEF DataBelongs, TypeOK
  <2>4. DataBelongs'
    BY <1>0, <2>1, <2>3 DEF DataBelongs, internal, history
  <2>5. QED BY <2>2, <2>4 DEF IInv
<1>7. ASSUME NEW p, NEW b \in BOOLEAN, drag_leave(p, b) PROVE IInv'
  <2>1. /\ over = "yes"
        /\ over' = IF b THEN "dropping" ELSE "no"
        /\ b => session # NoDrag
        /\ external_drag_active => idles' = idles + 1
        /\ ~drag_known'
        /\ UNCHANGED <<internal, external_drag_active, drag_data, drag_data_requested,
                       DragNeedsCheck, session, replies, history>>
    BY <1>7 DEF drag_leave
  <2>2. CleansUp'
    BY <1>0, <2>1 DEF CleansUp, OwnDragActive, internal
  <2>3. DataBelongs'
    BY <1>0, <2>1 DEF DataBelongs, internal, history
  <2>4. QED BY <2>2, <2>3 DEF IInv
<1>8. ASSUME NEW p, LeaveIdle(p), over # "dropping" PROVE IInv'
  <2>1. /\ UNCHANGED <<internal, session, over, replies, history>>
        /\ ~external_drag_active' /\ ~drag_known' /\ drag_data' = NoData
        /\ ~drag_data_requested' /\ DragNeedsCheck'
    BY <1>0, <1>8, StopFacts DEF LeaveIdle
  <2>2. CleansUp'
    BY <1>0, <2>1 DEF CleansUp, OwnDragActive, internal
  <2>3. DataBelongs'
    BY <1>0, <2>1 DEF DataBelongs, internal, history
  <2>4. QED BY <2>2, <2>3 DEF IInv
<1>9. CASE drag_drop
  <2>1. /\ over = "dropping" /\ over' = "no"
        /\ session' = IF session = "internal" THEN session ELSE NoDrag
        /\ UNCHANGED <<internal, idles, replies>>
    BY <1>9 DEF drag_drop, gtk
  <2>2. session \in Contexts \cup {"internal"}
    BY <1>0, <2>1 DEF CleansUp, TypeOK
  <2>3. session = "internal" => drag_data = NoData
    BY <1>0, <2>1 DEF CleansUp, DataBelongs, OwnDragActive
  <2>4. \/ UNCHANGED external
        \/ /\ ~external_drag_active' /\ ~drag_known' /\ drag_data' = NoData
           /\ ~drag_data_requested' /\ DragNeedsCheck'
    BY <1>0, <1>9, StopFacts DEF drag_drop
  <2>5. CleansUp'
    BY <1>0, <2>1, <2>2, <2>4, DragAssumption
    DEF CleansUp, OwnDragActive, internal, external, DragAssumption
  <2>6. foreign' = FALSE
    <3>1. CASE drag_data = NoData
      BY <1>0, <1>9, <3>1 DEF drag_drop, DataBelongs, TypeOK
    <3>2. CASE drag_data # NoData
      <4>1. settled => drag_data = session
        BY <1>0, <2>2, <2>3, <3>2 DEF DataBelongs
      <4>2. QED BY <1>0, <1>9, <3>2, <4>1 DEF drag_drop, DataBelongs, TypeOK
    <3>3. QED BY <3>1, <3>2
  <2>7. session' \notin Contexts
    BY <2>1, DragAssumption DEF DragAssumption
  <2>8. DataBelongs'
    BY <2>1, <2>6, <2>7 DEF DataBelongs
  <2>9. QED BY <2>5, <2>8 DEF IInv
<1>10. ASSUME \/ \E b \in BOOLEAN : drag_failed(b) \/ SetLockItems(b)
              \/ \E p \in Positions : PointerMotion(p)
              \/ HoverTimeout
              \/ UNCHANGED vars
       PROVE  IInv'
  <2>1. UNCHANGED <<InternalDragActive, DragItem, external_drag_active, drag_known,
                    drag_data,
                    drag_data_requested, DragNeedsCheck, over, idles, session,
                    replies, history>>
    BY <1>10 DEF drag_failed, SetLockItems, PointerMotion, HoverTimeout, vars, internal,
                 external, gtk
  <2>2. QED BY <2>1, SameDragKeepsIInv
<1>11. CASE over # "dropping" /\ Event
  BY <1>1, <1>2, <1>3, <1>4, <1>5, <1>6, <1>7, <1>8, <1>10, <1>11 DEF Event
<1>12. QED BY <1>9, <1>10, <1>11 DEF Next

LEMMA IInvCorrect == Spec => []IInv
<1>1. Init => IInv
  <2> SUFFICES ASSUME Init PROVE IInv
    OBVIOUS
  <2>1. session = NoDrag /\ NoDrag \notin Contexts /\ NoDrag # "internal"
    BY DragAssumption DEF Init, DragAssumption
  <2>2. QED BY <2>1 DEF Init, IInv, CleansUp, DataBelongs, OwnDragActive
<1>2. QED BY <1>1, NextIInv, TypeCorrect, PTL DEF Spec

\* What the manager knows of a drag is forgotten with it, whatever drag it was,
\* however it ended and in whatever order the leave, its idle callback and late
\* answers came.
THEOREM ForgottenCorrect == Spec => []DragForgotten
<1>1. TypeOK /\ IInv => DragForgotten
  BY DEF TypeOK, IInv, CleansUp, OwnDragActive, DragForgotten
<1>2. QED BY <1>1, TypeCorrect, IInvCorrect, PTL

\* A drag that begins when the ones before are over, and have been answered,
\* never gets the data of another, however many requests it makes.
THEOREM OwnDataCorrect == Spec => []OwnData
<1>1. IInv => OwnData
  BY DEF IInv, DataBelongs, OwnData
<1>2. QED BY <1>1, IInvCorrect, PTL

-----------------------------------------------------------------------------
(* What is thrown away                                                     *)

\* No step but the end of a drag takes an item away or adds one.
LEMMA OnlyDragEndRemoves ==
  ASSUME TypeOK, [Next]_vars, \A p \in Positions : ~drag_end(p)
  PROVE  ToSet(items') = ToSet(items)
<1>0. HoverType /\ ExternalType /\ DragType /\ handlers \in Nat
  BY TypeParts, DragAssumption DEF DragType, DragAssumption
<1>1. SUFFICES items' \in Arrangements
  BY DEF Arrangements
<1>2. CASE items' = items
  BY <1>0, <1>2 DEF Arrangements, HoverType
<1>3. ASSUME NEW p \in Positions, LeaveIdle(p) PROVE items' \in Arrangements
  BY <1>0, <1>3, HoverFacts DEF LeaveIdle, set_hovered
<1>4. ASSUME NEW p \in Positions, PointerMotion(p) PROVE items' \in Arrangements
  <2>1. PICK h \in {ItemAt(p), NoItem} :
          set_hovered(h, handlers, external_drag_active, drag_data)
    BY <1>4 DEF PointerMotion
  <2>2. QED BY <1>0, <2>1, HoverFacts DEF set_hovered, ExternalType
<1>5. ASSUME NEW p \in Positions, NEW b \in BOOLEAN, drag_motion(p, b)
      PROVE  items' \in Arrangements
  <2>1. PICK n \in Nat : set_hovered(ItemAt(p), n, ~InternalDragActive, drag_data')
    BY <1>0, <1>5 DEF drag_motion
  <2>2. QED BY <1>0, <2>1, HoverFacts DEF set_hovered, DragType
<1>6. CASE drag_data_received
  <2>1. ASSUME NEW c, hovered_item_changed(1, HoveredItem, external_drag_active, c)
        PROVE  items' \in Arrangements
    BY <1>0, <2>1, HoverFacts DEF ExternalType
  <2>2. QED BY <1>2, <1>6, <2>1 DEF drag_data_received
<1>7. QED
  BY <1>2, <1>3, <1>4, <1>5, <1>6
  DEF Next, Event, vars, dock, drag_begin, drag_failed, SetLockItems, drag_leave,
      SourceBegins, SourceEnds, HoverTimeout, drag_drop

\* An item is lost only to a drag that was not cancelled and that ends with the
\* pointer off the dock; moving items about, however often, loses none.
THEOREM ThrownCorrect == Spec => ThrownOutside
<1> DEFINE Thrown == \A i \in Items : i \in ToSet(items) /\ i \notin ToSet(items') =>
                       pointer' = Outside /\ ~drag_canceled
<1>1. TypeOK /\ [Next]_vars => Thrown
  <2> SUFFICES ASSUME TypeOK, [Next]_vars PROVE Thrown
    OBVIOUS
  <2>1. ASSUME NEW p \in Positions, drag_end(p) PROVE Thrown
    BY <2>1 DEF drag_end
  <2>2. CASE \A p \in Positions : ~drag_end(p)
    BY <2>2, OnlyDragEndRemoves
  <2>3. QED BY <2>1, <2>2
<1>2. QED BY <1>1, TypeCorrect, PTL DEF Spec, ThrownOutside

-----------------------------------------------------------------------------
(* The hide manager                                                        *)

\* A re-evaluation raises known flags only.
LEMMA SeenType == Hide!Seen \subseteq Hide!Flags
BY DEF Hide!Seen

\* update_hidden only switches booleans.
LEMMA UpdateHiddenType ==
  ASSUME Hide!SwitchTypes, NEW d \in BOOLEAN, NEW h \in BOOLEAN, NEW s,
         NEW pu \in BOOLEAN, Hide!update_hidden(d, h, s, pu)
  PROVE  /\ Hidden' \in BOOLEAN /\ hide_timer' \in BOOLEAN
         /\ unhide_timer' \in BOOLEAN /\ pointer_update' \in BOOLEAN
BY DEF Hide!SwitchTypes, Hide!update_hidden, Hide!hide, Hide!show

LEMMA UpdateHoveredType ==
  ASSUME Hide!SwitchTypes, NEW h \in BOOLEAN, NEW i, Hide!update_hovered_with_coords(h, i)
  PROVE  /\ Hidden' \in BOOLEAN /\ hide_timer' \in BOOLEAN
         /\ unhide_timer' \in BOOLEAN /\ pointer_update' \in BOOLEAN
         /\ DockHovered' \in BOOLEAN /\ HidingDisabled' \in BOOLEAN
<1>1. CASE UNCHANGED Hide!hiding
  BY <1>1 DEF Hide!SwitchTypes, Hide!update_hovered_with_coords, Hide!hiding
<1>2. CASE Hide!update_hidden(i # {}, h, intersect, pointer_update)
  <2>1. intersect \subseteq Hide!Flags /\ pointer_update \in BOOLEAN /\ (i # {}) \in BOOLEAN
    BY DEF Hide!SwitchTypes
  <2>2. /\ Hidden' \in BOOLEAN /\ hide_timer' \in BOOLEAN
        /\ unhide_timer' \in BOOLEAN /\ pointer_update' \in BOOLEAN
    BY <1>2, <2>1, UpdateHiddenType
  <2>3. QED BY <2>2 DEF Hide!update_hovered_with_coords
<1>3. QED
  BY <1>1, <1>2 DEF Hide!update_hovered_with_coords

\* What a re-evaluation of the windows changes, with its types.
Retyped ==
  /\ Hidden' \in BOOLEAN /\ hide_timer' \in BOOLEAN
  /\ unhide_timer' \in BOOLEAN /\ pointer_update' \in BOOLEAN
  /\ intersect' \subseteq Hide!Flags
  /\ untracked' \in BOOLEAN

\* A re-evaluation of the windows keeps the types of all it changes.
LEMMA UpdateIntersectType ==
  ASSUME Hide!SwitchTypes, Hide!update_window_intersect
  PROVE  Retyped
<1>1. Hide!update_hidden(HidingDisabled, DockHovered, Hide!Seen, FALSE)
  BY DEF Hide!update_window_intersect
<1>2. QED
  BY <1>1, SeenType, UpdateHiddenType DEF Hide!SwitchTypes, Hide!update_window_intersect, Retyped

\* The types of what it leaves alone.
OthersTyped ==
  /\ HidingDisabled \in BOOLEAN /\ DockHovered \in BOOLEAN
  /\ HideMode \in HideTypes /\ HideDelay \in Delays /\ UnhideDelay \in Delays
  /\ PressureReveal \in BOOLEAN /\ pressure_timer \in BOOLEAN /\ pushing \in BOOLEAN
  /\ inside \in BOOLEAN /\ inhibitors \subseteq Inhibitors
  /\ active \in Windows \cup {NoWindow}
  /\ overlap \subseteq Windows /\ maximized \subseteq Windows
  /\ cut \in BOOLEAN

LEMMA RetypedFacts ==
  ASSUME Retyped, OthersTyped', barrier' \in BOOLEAN, prefs_changed_timer' \in BOOLEAN,
         geometry_timer' \in BOOLEAN, window_changed_timer' \in BOOLEAN
  PROVE  Hide!SwitchTypes'
BY DEF Retyped, OthersTyped, Hide!SwitchTypes, Hide!Flags

\* Every reachable state keeps the switches in their types.
LEMMA SwitchesCorrect == Hide!Spec => []Hide!SwitchTypes
<1>1. Hide!Init => Hide!SwitchTypes
  BY DEF Hide!Init, Hide!SwitchTypes
<1>2. Hide!SwitchTypes /\ [Hide!Next]_Hide!vars => Hide!SwitchTypes'
  <2> SUFFICES ASSUME Hide!SwitchTypes, [Hide!Next]_Hide!vars PROVE Hide!SwitchTypes'
    OBVIOUS
  <2> USE DEF Hide!updates, Hide!pushes, Hide!prefs, Hide!screen, Hide!pointer,
  Hide!offScreen
  <2>1. ASSUME NEW b \in BOOLEAN, Hide!PointerEnter(b) PROVE Hide!SwitchTypes'
    <3>1. CASE UNCHANGED <<DockHovered, HidingDisabled, Hide!hiding>>
      BY <2>1, <3>1 DEF Hide!SwitchTypes, Hide!PointerEnter, Hide!hiding
    <3>2. CASE Hide!update_hovered_with_coords(TRUE, inhibitors)
      <4>1. /\ Hidden' \in BOOLEAN /\ hide_timer' \in BOOLEAN
            /\ unhide_timer' \in BOOLEAN /\ pointer_update' \in BOOLEAN
            /\ DockHovered' \in BOOLEAN /\ HidingDisabled' \in BOOLEAN
        BY <3>2, UpdateHoveredType
      <4>2. /\ inside' = TRUE
            /\ UNCHANGED <<Hide!updates, Hide!pushes, Hide!prefs, Hide!screen, inhibitors,
                           intersect>>
        BY <2>1 DEF Hide!PointerEnter
      <4>3. QED BY <4>1, <4>2 DEF Hide!SwitchTypes
    <3>3. QED BY <2>1, <3>1, <3>2 DEF Hide!PointerEnter
  <2>2. ASSUME Hide!PointerLeave PROVE Hide!SwitchTypes'
    <3>1. CASE UNCHANGED <<DockHovered, HidingDisabled, Hide!hiding>>
      <4>1. /\ inside' \in BOOLEAN
            /\ UNCHANGED <<Hide!updates, Hide!pushes, Hide!prefs, Hide!screen, inhibitors,
                           intersect>>
        BY <2>2 DEF Hide!PointerLeave
      <4>2. QED BY <3>1, <4>1 DEF Hide!SwitchTypes, Hide!hiding
    <3>2. CASE Hide!update_hovered_with_coords(FALSE, inhibitors)
      <4>1. /\ Hidden' \in BOOLEAN /\ hide_timer' \in BOOLEAN
            /\ unhide_timer' \in BOOLEAN /\ pointer_update' \in BOOLEAN
            /\ DockHovered' \in BOOLEAN /\ HidingDisabled' \in BOOLEAN
        BY <3>2, UpdateHoveredType
      <4>2. /\ inside' \in BOOLEAN
            /\ UNCHANGED <<Hide!updates, Hide!pushes, Hide!prefs, Hide!screen, inhibitors,
                           intersect>>
        BY <2>2 DEF Hide!PointerLeave
      <4>3. QED BY <4>1, <4>2 DEF Hide!SwitchTypes
    <3>3. QED BY <2>2, <3>1, <3>2 DEF Hide!PointerLeave
  <2>3. ASSUME NEW i \in Inhibitors, Hide!InhibitorStarts(i) PROVE Hide!SwitchTypes'
    BY <2>3 DEF Hide!SwitchTypes, Hide!InhibitorStarts, Hide!hiding
  <2>4. ASSUME NEW i \in Inhibitors, Hide!InhibitorEnds(i) PROVE Hide!SwitchTypes'
    <3>1. Hide!update_hovered_with_coords(inside, inhibitors \ {i})
      BY <2>4 DEF Hide!InhibitorEnds
    <3>2. inside \in BOOLEAN
      BY DEF Hide!SwitchTypes
    <3>3. QED
      BY <2>4, <3>1, <3>2, UpdateHoveredType DEF Hide!SwitchTypes, Hide!InhibitorEnds
  <2>5. ASSUME Hide!DragMotion PROVE Hide!SwitchTypes'
    <3>1. PICK i \in SUBSET Inhibitors :
             inhibitors' = i /\ Hide!update_hovered_with_coords(TRUE, i)
      BY <2>5 DEF Hide!SwitchTypes, Hide!DragMotion
    <3>2. /\ Hidden' \in BOOLEAN /\ hide_timer' \in BOOLEAN
          /\ unhide_timer' \in BOOLEAN /\ pointer_update' \in BOOLEAN
          /\ DockHovered' \in BOOLEAN /\ HidingDisabled' \in BOOLEAN
      BY <3>1, UpdateHoveredType
    <3>3. QED BY <2>5, <3>1, <3>2 DEF Hide!SwitchTypes, Hide!DragMotion
  <2>6. ASSUME Hide!DragLeave PROVE Hide!SwitchTypes'
    <3>1. Hide!update_hovered_with_coords(FALSE, inhibitors)
      BY <2>6 DEF Hide!DragLeave
    <3>2. /\ Hidden' \in BOOLEAN /\ hide_timer' \in BOOLEAN
          /\ unhide_timer' \in BOOLEAN /\ pointer_update' \in BOOLEAN
          /\ DockHovered' \in BOOLEAN /\ HidingDisabled' \in BOOLEAN
      BY <3>1, UpdateHoveredType
    <3>3. /\ inside' \in BOOLEAN
          /\ UNCHANGED <<Hide!updates, Hide!pushes, Hide!prefs, Hide!screen, inhibitors,
                         intersect>>
      BY <2>6 DEF Hide!DragLeave
    <3>4. QED BY <3>2, <3>3 DEF Hide!SwitchTypes
  <2>7. ASSUME NEW m \in HideTypes, Hide!SetHideMode(m) PROVE Hide!SwitchTypes'
    BY <2>7 DEF Hide!SwitchTypes, Hide!SetHideMode, Hide!hiding
  <2>8. ASSUME NEW h \in Delays, NEW u \in Delays, Hide!SetDelays(h, u)
        PROVE Hide!SwitchTypes'
    BY <2>8 DEF Hide!SwitchTypes, Hide!SetDelays, Hide!hiding
  <2>9. ASSUME NEW r \in BOOLEAN, Hide!SetPressureReveal(r) PROVE Hide!SwitchTypes'
    <3>1. /\ barrier' \in BOOLEAN /\ pushing' \in BOOLEAN /\ cut' \in BOOLEAN
      BY <2>9 DEF Hide!SwitchTypes, Hide!SetPressureReveal, Hide!update_barrier
    <3>2. /\ PressureReveal' \in BOOLEAN
          /\ UNCHANGED <<Hide!hiding, Hide!updates, pressure_timer, HideMode, HideDelay,
                         UnhideDelay, Hide!screen, Hide!pointer, HidingDisabled,
                         DockHovered, intersect>>
      BY <2>9 DEF Hide!SwitchTypes, Hide!SetPressureReveal
    <3>3. QED BY <3>1, <3>2 DEF Hide!SwitchTypes, Hide!hiding
  <2>10. ASSUME NEW o \in SUBSET Windows, NEW a \in Windows \cup {NoWindow},
                Hide!ScreenChanged(o, a)
         PROVE Hide!SwitchTypes'
    BY <2>10 DEF Hide!SwitchTypes, Hide!ScreenChanged, Hide!hiding, Hide!schedule_update
  <2>11. ASSUME NEW o \in SUBSET Windows, NEW m \in SUBSET Windows,
                Hide!ActiveMoved(o, m)
         PROVE Hide!SwitchTypes'
    BY <2>11 DEF Hide!SwitchTypes, Hide!ActiveMoved, Hide!hiding
  <2>12. ASSUME Hide!ActiveMinimized PROVE Hide!SwitchTypes'
    BY <2>12 DEF Hide!SwitchTypes, Hide!ActiveMinimized, Hide!hiding, Hide!schedule_update
  <2>13. ASSUME NEW w \in Windows, Hide!InactiveMoved(w) PROVE Hide!SwitchTypes'
    BY <2>13 DEF Hide!SwitchTypes, Hide!InactiveMoved, Hide!hiding
  <2>14. ASSUME NEW o \in SUBSET Windows, NEW b \in BOOLEAN,
                Hide!DockRegionChanged(o, b)
         PROVE Hide!SwitchTypes'
    <3>1. /\ barrier' \in BOOLEAN /\ pushing' \in BOOLEAN /\ cut' \in BOOLEAN
      BY <2>14 DEF Hide!SwitchTypes, Hide!DockRegionChanged, Hide!update_barrier
    <3>2. /\ overlap' \subseteq Windows /\ untracked' \in BOOLEAN
          /\ prefs_changed_timer' \in BOOLEAN
          /\ UNCHANGED <<Hide!hiding, geometry_timer, window_changed_timer, pressure_timer,
                         Hide!prefs, active, maximized, Hide!pointer, HidingDisabled,
                         DockHovered, intersect>>
      BY <2>14 DEF Hide!SwitchTypes, Hide!DockRegionChanged
    <3>3. QED BY <3>1, <3>2 DEF Hide!SwitchTypes, Hide!hiding
  <2>15. ASSUME NEW d \in 0..MaxHit, Hide!BarrierHit(d) PROVE Hide!SwitchTypes'
    <3> DEFINE full == pressure + d >= PressureThreshold
    <3> HIDE DEF full
    <3>0. /\ pressure_timer' \in BOOLEAN /\ cut' \in BOOLEAN
          /\ DockHovered' \in BOOLEAN
          /\ \/ UNCHANGED Hide!hiding
             \/ Hide!update_hidden(HidingDisabled, TRUE, intersect, pointer_update)
      BY <2>15 DEF Hide!SwitchTypes, Hide!BarrierHit
    <3>1. CASE UNCHANGED Hide!hiding
      BY <2>15, <3>0, <3>1 DEF Hide!SwitchTypes, Hide!BarrierHit, Hide!hiding
    <3>2. CASE Hide!update_hidden(HidingDisabled, TRUE, intersect, pointer_update)
      <4>1. /\ Hidden' \in BOOLEAN /\ hide_timer' \in BOOLEAN
            /\ unhide_timer' \in BOOLEAN /\ pointer_update' \in BOOLEAN
        BY <3>2, UpdateHiddenType DEF Hide!SwitchTypes
      <4>2. QED BY <2>15, <3>0, <4>1 DEF Hide!SwitchTypes, Hide!BarrierHit
    <3>3. QED BY <3>0, <3>1, <3>2
  <2>16. ASSUME Hide!BarrierLeave PROVE Hide!SwitchTypes'
    <3>1. /\ pushing' \in BOOLEAN /\ pressure_timer' \in BOOLEAN /\ cut' \in BOOLEAN
          /\ UNCHANGED <<Hide!hiding, Hide!updates, barrier, pressure, Hide!prefs,
                         Hide!screen,
                         Hide!pointer, HidingDisabled, DockHovered, intersect>>
      BY <2>16 DEF Hide!BarrierLeave
    <3>2. QED BY <3>1 DEF Hide!SwitchTypes, Hide!hiding
  <2>17. ASSUME Hide!HideTimeout PROVE Hide!SwitchTypes'
    <3>1. /\ hide_timer' \in BOOLEAN /\ Hidden' \in BOOLEAN
          /\ UNCHANGED <<unhide_timer, pointer_update, Hide!updates, Hide!pushes,
                         Hide!prefs,
                         Hide!screen, Hide!pointer, HidingDisabled, DockHovered, intersect>>
      BY <2>17 DEF Hide!HideTimeout
    <3>2. QED BY <3>1 DEF Hide!SwitchTypes
  <2>18. ASSUME Hide!UnhideTimeout PROVE Hide!SwitchTypes'
    <3>1. /\ unhide_timer' \in BOOLEAN /\ Hidden' \in BOOLEAN
          /\ UNCHANGED <<hide_timer, pointer_update, Hide!updates, Hide!pushes,
                         Hide!prefs,
                         Hide!screen, Hide!pointer, HidingDisabled, DockHovered, intersect>>
      BY <2>18 DEF Hide!UnhideTimeout
    <3>2. QED BY <3>1 DEF Hide!SwitchTypes
  <2>19. ASSUME Hide!PrefsTimeout PROVE Hide!SwitchTypes'
    <3>1. Hide!update_window_intersect
      BY <2>19 DEF Hide!PrefsTimeout
    <3>2. Retyped
      BY <3>1, UpdateIntersectType
    <3>3. OthersTyped'
      BY <2>19 DEF Hide!SwitchTypes, Hide!PrefsTimeout, Hide!update_barrier, OthersTyped
    <3>4. /\ prefs_changed_timer' \in BOOLEAN /\ geometry_timer' \in BOOLEAN
          /\ window_changed_timer' \in BOOLEAN /\ barrier' \in BOOLEAN
      BY <2>19 DEF Hide!SwitchTypes, Hide!PrefsTimeout, Hide!update_barrier
    <3>5. QED BY <3>2, <3>3, <3>4, RetypedFacts
  <2>20. ASSUME Hide!GeometryTimeout PROVE Hide!SwitchTypes'
    <3>1. Hide!update_window_intersect
      BY <2>20 DEF Hide!GeometryTimeout
    <3>2. Retyped
      BY <3>1, UpdateIntersectType
    <3>3. OthersTyped'
      BY <2>20 DEF Hide!SwitchTypes, Hide!GeometryTimeout, OthersTyped
    <3>4. /\ prefs_changed_timer' \in BOOLEAN /\ geometry_timer' \in BOOLEAN
          /\ window_changed_timer' \in BOOLEAN /\ barrier' \in BOOLEAN
      BY <2>20 DEF Hide!SwitchTypes, Hide!GeometryTimeout
    <3>5. QED BY <3>2, <3>3, <3>4, RetypedFacts
  <2>21. ASSUME Hide!WindowChangedTimeout PROVE Hide!SwitchTypes'
    <3>1. Hide!update_window_intersect
      BY <2>21 DEF Hide!WindowChangedTimeout
    <3>2. Retyped
      BY <3>1, UpdateIntersectType
    <3>3. OthersTyped'
      BY <2>21 DEF Hide!SwitchTypes, Hide!WindowChangedTimeout, OthersTyped
    <3>4. /\ prefs_changed_timer' \in BOOLEAN /\ geometry_timer' \in BOOLEAN
          /\ window_changed_timer' \in BOOLEAN /\ barrier' \in BOOLEAN
      BY <2>21 DEF Hide!SwitchTypes, Hide!WindowChangedTimeout
    <3>5. QED BY <3>2, <3>3, <3>4, RetypedFacts
  <2>22. ASSUME Hide!PressureTimeout PROVE Hide!SwitchTypes'
    <3>1. /\ pressure_timer' \in BOOLEAN /\ cut' \in BOOLEAN
          /\ UNCHANGED <<Hide!hiding, Hide!updates, barrier, pushing, Hide!prefs,
                         Hide!screen,
                         Hide!pointer, HidingDisabled, DockHovered, intersect>>
      BY <2>22 DEF Hide!PressureTimeout
    <3>2. QED BY <3>1 DEF Hide!SwitchTypes, Hide!hiding
  <2>23. ASSUME UNCHANGED Hide!vars PROVE Hide!SwitchTypes'
    BY <2>23 DEF Hide!SwitchTypes, Hide!vars, Hide!hiding
  <2>24. QED
    BY <2>1, <2>2, <2>3, <2>4, <2>5, <2>6, <2>7, <2>8, <2>9, <2>10, <2>11,
       <2>12, <2>13, <2>14, <2>15, <2>16, <2>17, <2>18, <2>19, <2>20, <2>21,
       <2>22, <2>23 DEF Hide!Next, Hide!Timeout
<1>3. QED
  BY <1>1, <1>2, PTL DEF Hide!Spec

\* A hit adds to the pressure only as long as it stays below the threshold.
LEMMA PressureCorrect == Hide!Spec => []Hide!PressureType
<1>1. PressureThreshold \in Nat \ {0} /\ MaxHit \in Nat
  BY HideAssumption DEF HideAssumption
<1>2. Hide!Init => Hide!PressureType
  BY <1>1 DEF Hide!Init, Hide!PressureType
<1>3. Hide!PressureType /\ [Hide!Next]_Hide!vars => Hide!PressureType'
  <2> SUFFICES ASSUME Hide!PressureType, [Hide!Next]_Hide!vars PROVE Hide!PressureType'
    OBVIOUS
  <2>1. ASSUME NEW d \in 0..MaxHit, Hide!BarrierHit(d) PROVE Hide!PressureType'
    <3>1. \/ pressure' = 0
          \/ ~(pressure + d >= PressureThreshold) /\ pressure' = pressure + d
      BY <2>1 DEF Hide!BarrierHit
    <3>2. pressure \in Nat /\ d \in Nat
      BY <1>1, <2>1 DEF Hide!PressureType
    <3>3. QED BY <1>1, <3>1, <3>2 DEF Hide!PressureType
  <2>2. ASSUME Hide!PressureTimeout PROVE Hide!PressureType'
    BY <1>1, <2>2 DEF Hide!PressureType, Hide!PressureTimeout
  <2>3. ASSUME UNCHANGED pressure PROVE Hide!PressureType'
    BY <2>3 DEF Hide!PressureType
  <2>4. QED
    BY <2>1, <2>2, <2>3
    DEF Hide!Next, Hide!Timeout, Hide!vars, Hide!pushes, Hide!offScreen,
        Hide!PointerEnter, Hide!PointerLeave,
        Hide!InhibitorStarts, Hide!InhibitorEnds, Hide!DragMotion, Hide!DragLeave,
        Hide!SetHideMode,
        Hide!SetDelays, Hide!SetPressureReveal, Hide!ScreenChanged, Hide!ActiveMoved,
        Hide!ActiveMinimized, Hide!InactiveMoved, Hide!DockRegionChanged,
        Hide!BarrierLeave,
        Hide!HideTimeout, Hide!UnhideTimeout, Hide!PrefsTimeout, Hide!GeometryTimeout,
        Hide!WindowChangedTimeout
<1>4. QED
  BY <1>2, <1>3, PTL DEF Hide!Spec

\* The manager keeps its variables in their types, whatever the windows, the
\* preferences and the order of events.
THEOREM HidingTypeCorrect == Hide!Spec => []HidingTypeOK
BY SwitchesCorrect, PressureCorrect, PTL DEF Hide!TypeOK, HidingTypeOK

-----------------------------------------------------------------------------
(* The timeouts carry the dock where the mode wants it                     *)

\* After update_hidden the dock is where the mode wants it, or a timeout that
\* takes it there is pending and none that takes it elsewhere.
LEMMA UpdateHiddenSettles ==
  ASSUME NEW d \in BOOLEAN, NEW h, NEW s, NEW pu,
         Hide!SwitchTypes, Hide!SwitchTypes',
         Hide!update_hidden(d, h, s, pu),
         HidingDisabled' = d, DockHovered' = h, intersect' = s, HideMode' = HideMode
  PROVE  Hide!Settled'
<1>1. Hide!WantsHide' <=> Hide!ShouldHide(HideMode, h, s)
  BY DEF Hide!WantsHide
<1>2. CASE d
  BY <1>2 DEF Hide!Settled, Hide!Settling, Hide!NoStaleTimeout
<1>3. CASE ~d /\ Hide!ShouldHide(HideMode, h, s)
  <2>1. Hide!hide
    BY <1>3 DEF Hide!update_hidden
  <2>2. (Hidden' \/ hide_timer') /\ ~unhide_timer'
    BY <2>1 DEF Hide!hide
  <2>3. QED BY <1>1, <1>3, <2>2 DEF Hide!Settled, Hide!Settling, Hide!NoStaleTimeout
<1>4. CASE ~d /\ ~Hide!ShouldHide(HideMode, h, s)
  <2>1. Hide!show(~pu)
    BY <1>4 DEF Hide!update_hidden
  <2>2. (~Hidden' \/ unhide_timer') /\ ~hide_timer'
    BY <2>1 DEF Hide!show
  <2>3. QED BY <1>1, <1>4, <2>2 DEF Hide!Settled, Hide!Settling, Hide!NoStaleTimeout
<1>5. QED
  BY <1>2, <1>3, <1>4

\* A step that changes nothing the decision depends on, and completes no
\* evaluation, keeps the dock settled.
LEMMA SameSettled ==
  ASSUME Hide!Settled, Hide!ModeApplied' => Hide!ModeApplied,
         UNCHANGED <<Hide!hiding, HidingDisabled, DockHovered, intersect>>,
         Hide!ModeApplied' => HideMode' = HideMode
  PROVE  Hide!Settled'
<1>1. CASE ~Hide!ModeApplied'
  BY <1>1 DEF Hide!Settled, Hide!Settling, Hide!NoStaleTimeout
<1>2. CASE Hide!ModeApplied'
  <2>1. Hide!WantsHide' = Hide!WantsHide
    BY <1>2 DEF Hide!WantsHide
  <2>2. QED
    BY <1>2, <2>1 DEF Hide!Settled, Hide!Settling, Hide!NoStaleTimeout, Hide!hiding
<1>3. QED
  BY <1>1, <1>2

\* Looking at the pointer again keeps the dock settled: either nothing the
\* decision depends on changes, or the decision is taken anew.
LEMMA UpdateHoveredSettles ==
  ASSUME Hide!Settled, Hide!SwitchTypes, Hide!SwitchTypes', NEW h, NEW i,
         Hide!update_hovered_with_coords(h, i),
         UNCHANGED <<Hide!updates, HideMode, intersect>>
  PROVE  Hide!Settled'
<1>1. CASE h # DockHovered \/ (i # {}) # HidingDisabled
  BY <1>1, UpdateHiddenSettles DEF Hide!update_hovered_with_coords
<1>2. CASE h = DockHovered /\ (i # {}) = HidingDisabled
  <2>1. UNCHANGED <<Hide!hiding, HidingDisabled, DockHovered, intersect, HideMode, Hide!updates>>
    BY <1>2 DEF Hide!update_hovered_with_coords
  <2>2. Hide!ModeApplied' = Hide!ModeApplied
    BY <2>1 DEF Hide!ModeApplied, Hide!updates
  <2>3. QED BY <2>1, <2>2, SameSettled
<1>3. QED
  BY <1>1, <1>2

\* A re-evaluation of the windows settles the dock.
LEMMA UpdateIntersectSettles ==
  ASSUME Hide!SwitchTypes, Hide!SwitchTypes', Hide!update_window_intersect,
         UNCHANGED <<HidingDisabled, DockHovered, HideMode>>
  PROVE  Hide!Settled'
<1>1. HidingDisabled \in BOOLEAN
  BY DEF Hide!SwitchTypes
<1>2. QED
  BY <1>1, UpdateHiddenSettles DEF Hide!update_window_intersect

\* Whatever the order of hovering, menus, drags, barrier pushes, window and
\* preference changes and timeouts: outside the periods in which hiding is
\* disabled the dock is, or is about to be, where its hide mode wants it, and
\* no pending timeout contradicts the mode.
THEOREM SettledCorrect == Hide!Spec => []Settled
<1>1. Hide!Init => Hide!Settled
  BY DEF Hide!Init, Hide!Settled, Hide!Settling, Hide!NoStaleTimeout, Hide!ModeApplied

<1>2. Hide!Settled /\ Hide!SwitchTypes /\ Hide!SwitchTypes' /\ [Hide!Next]_Hide!vars => Hide!Settled'
  <2> SUFFICES ASSUME Hide!Settled, Hide!SwitchTypes, Hide!SwitchTypes',
  [Hide!Next]_Hide!vars
               PROVE  Hide!Settled'
    OBVIOUS
  <2>1. CASE /\ UNCHANGED <<Hide!hiding, HidingDisabled, DockHovered, intersect>>
             /\ Hide!ModeApplied' => Hide!ModeApplied /\ HideMode' = HideMode
    BY <2>1, SameSettled
  <2> USE DEF Hide!updates, Hide!prefs
  <2>2. ASSUME NEW b \in BOOLEAN, Hide!PointerEnter(b) PROVE Hide!Settled'
    BY <2>1, <2>2, UpdateHoveredSettles DEF Hide!PointerEnter, Hide!ModeApplied
  <2>3. ASSUME Hide!PointerLeave PROVE Hide!Settled'
    BY <2>1, <2>3, UpdateHoveredSettles DEF Hide!PointerLeave, Hide!ModeApplied
  <2>4. ASSUME NEW i, Hide!InhibitorStarts(i) PROVE Hide!Settled'
    BY <2>1, <2>4 DEF Hide!InhibitorStarts, Hide!ModeApplied
  <2>5. ASSUME NEW i, Hide!InhibitorEnds(i) PROVE Hide!Settled'
    BY <2>5, UpdateHoveredSettles DEF Hide!InhibitorEnds
  <2>6. ASSUME Hide!DragMotion PROVE Hide!Settled'
    <3>1. PICK i : Hide!update_hovered_with_coords(TRUE, i)
      BY <2>6 DEF Hide!DragMotion
    <3>2. UNCHANGED <<Hide!updates, HideMode, intersect>>
      BY <2>6 DEF Hide!DragMotion
    <3>3. QED BY <3>1, <3>2, UpdateHoveredSettles
  <2>7. ASSUME Hide!DragLeave PROVE Hide!Settled'
    BY <2>7, UpdateHoveredSettles DEF Hide!DragLeave
  <2>8. ASSUME NEW m, Hide!SetHideMode(m) PROVE Hide!Settled'
    BY <2>1, <2>8 DEF Hide!SetHideMode, Hide!ModeApplied
  <2>9. ASSUME NEW h, NEW u, Hide!SetDelays(h, u) PROVE Hide!Settled'
    BY <2>1, <2>9 DEF Hide!SetDelays, Hide!ModeApplied
  <2>10. ASSUME NEW r, Hide!SetPressureReveal(r) PROVE Hide!Settled'
    BY <2>1, <2>10 DEF Hide!SetPressureReveal, Hide!ModeApplied
  <2>11. ASSUME NEW o, NEW a, Hide!ScreenChanged(o, a) PROVE Hide!Settled'
    BY <2>1, <2>11 DEF Hide!ScreenChanged, Hide!ModeApplied, Hide!offScreen,
    Hide!schedule_update
  <2>12. ASSUME NEW o, NEW m, Hide!ActiveMoved(o, m) PROVE Hide!Settled'
    BY <2>1, <2>12 DEF Hide!ActiveMoved, Hide!ModeApplied, Hide!offScreen
  <2>13. ASSUME Hide!ActiveMinimized PROVE Hide!Settled'
    BY <2>1, <2>13 DEF Hide!ActiveMinimized, Hide!ModeApplied, Hide!offScreen,
    Hide!schedule_update
  <2>14. ASSUME NEW w, Hide!InactiveMoved(w) PROVE Hide!Settled'
    BY <2>1, <2>14 DEF Hide!InactiveMoved, Hide!ModeApplied, Hide!offScreen
  <2>15. ASSUME NEW o, NEW b \in BOOLEAN, Hide!DockRegionChanged(o, b)
         PROVE Hide!Settled'
    BY <2>1, <2>15 DEF Hide!DockRegionChanged, Hide!ModeApplied, Hide!SwitchTypes
  <2>16. ASSUME NEW d, Hide!BarrierHit(d) PROVE Hide!Settled'
    <3>1. UNCHANGED <<Hide!updates, HideMode, HidingDisabled, intersect>>
      BY <2>16 DEF Hide!BarrierHit
    <3>2. \/ UNCHANGED <<DockHovered, Hide!hiding>>
          \/ DockHovered' = TRUE /\ DockHovered = TRUE /\ UNCHANGED Hide!hiding
          \/ /\ DockHovered' = TRUE
             /\ Hide!update_hidden(HidingDisabled, TRUE, intersect, pointer_update)
      BY <2>16 DEF Hide!BarrierHit, Hide!SwitchTypes
    <3>3. CASE UNCHANGED <<DockHovered, Hide!hiding>>
      BY <2>1, <3>1, <3>3 DEF Hide!ModeApplied
    <3>4. CASE /\ DockHovered' = TRUE
               /\ Hide!update_hidden(HidingDisabled, TRUE, intersect, pointer_update)
      <4>1. HidingDisabled \in BOOLEAN
        BY DEF Hide!SwitchTypes
      <4>2. QED BY <3>1, <3>4, <4>1, UpdateHiddenSettles
    <3>5. QED BY <3>2, <3>3, <3>4
  <2>17. ASSUME Hide!BarrierLeave PROVE Hide!Settled'
    BY <2>1, <2>17 DEF Hide!BarrierLeave, Hide!ModeApplied
  <2>18. ASSUME Hide!HideTimeout PROVE Hide!Settled'
    <3>1. hide_timer /\ Hidden' /\ ~hide_timer'
      BY <2>18 DEF Hide!HideTimeout
    <3>2. UNCHANGED <<unhide_timer, HidingDisabled, Hide!ModeApplied, Hide!WantsHide>>
      BY <2>18 DEF Hide!HideTimeout, Hide!ModeApplied, Hide!WantsHide
    <3>3. QED BY <3>1, <3>2 DEF Hide!Settled, Hide!Settling, Hide!NoStaleTimeout
  <2>19. ASSUME Hide!UnhideTimeout PROVE Hide!Settled'
    <3>1. unhide_timer /\ ~Hidden' /\ ~unhide_timer'
      BY <2>19 DEF Hide!UnhideTimeout
    <3>2. UNCHANGED <<hide_timer, HidingDisabled, Hide!ModeApplied, Hide!WantsHide>>
      BY <2>19 DEF Hide!UnhideTimeout, Hide!ModeApplied, Hide!WantsHide
    <3>3. QED BY <3>1, <3>2 DEF Hide!Settled, Hide!Settling, Hide!NoStaleTimeout
  <2>20. ASSUME Hide!PrefsTimeout PROVE Hide!Settled'
    BY <2>20, UpdateIntersectSettles DEF Hide!PrefsTimeout
  <2>21. ASSUME Hide!GeometryTimeout PROVE Hide!Settled'
    BY <2>21, UpdateIntersectSettles DEF Hide!GeometryTimeout
  <2>22. ASSUME Hide!WindowChangedTimeout PROVE Hide!Settled'
    BY <2>22, UpdateIntersectSettles DEF Hide!WindowChangedTimeout
  <2>23. ASSUME Hide!PressureTimeout PROVE Hide!Settled'
    BY <2>1, <2>23 DEF Hide!PressureTimeout, Hide!ModeApplied
  <2>24. ASSUME UNCHANGED Hide!vars PROVE Hide!Settled'
    BY <2>1, <2>24 DEF Hide!vars, Hide!ModeApplied
  <2>25. QED
    BY <2>2, <2>3, <2>4, <2>5, <2>6, <2>7, <2>8, <2>9, <2>10, <2>11, <2>12,
       <2>13, <2>14, <2>15, <2>16, <2>17, <2>18, <2>19, <2>20, <2>21, <2>22,
       <2>23, <2>24 DEF Hide!Next, Hide!Timeout
<1>3. QED
  BY <1>1, <1>2, SwitchesCorrect, PTL DEF Hide!Spec, Settled

-----------------------------------------------------------------------------
(* What is known of the windows, and the pressure on the barrier           *)

\* A change of the screen that leaves the flags behind is scheduled to be looked
\* at; a re-evaluation of the windows raises the flags of the screen as it is.
THEOREM FlagsCorrect == Hide!Spec => []FlagsCurrent
<1>1. Hide!Init => Hide!FlagsCurrent
  BY DEF Hide!Init, Hide!FlagsCurrent
<1>2. Hide!FlagsCurrent /\ [Hide!Next]_Hide!vars => Hide!FlagsCurrent'
  <2> SUFFICES ASSUME Hide!FlagsCurrent, [Hide!Next]_Hide!vars PROVE Hide!FlagsCurrent'
    OBVIOUS
  <2>1. CASE UNCHANGED <<intersect, Hide!screen, window_changed_timer, geometry_timer>>
    <3>1. UNCHANGED <<intersect, active, overlap, maximized, untracked,
                      window_changed_timer, geometry_timer>>
      BY <2>1 DEF Hide!screen
    <3>2. UNCHANGED Hide!Seen
      BY <3>1 DEF Hide!Seen
    <3>3. QED BY <3>1, <3>2 DEF Hide!FlagsCurrent
  <2>2. CASE Hide!update_window_intersect /\ UNCHANGED <<active, overlap, maximized>>
    <3>1. intersect' = Hide!Seen
      BY <2>2 DEF Hide!update_window_intersect
    <3>2. UNCHANGED Hide!Seen
      BY <2>2 DEF Hide!Seen
    <3>3. QED BY <3>1, <3>2 DEF Hide!FlagsCurrent
  <2>3. CASE window_changed_timer' \/ geometry_timer' \/ untracked'
    BY <2>3 DEF Hide!FlagsCurrent
  <2>4. ASSUME NEW o, NEW b, Hide!DockRegionChanged(o, b) PROVE Hide!FlagsCurrent'
    <3>1. CASE o = overlap
      <4>1. UNCHANGED <<intersect, active, overlap, maximized, window_changed_timer,
                        geometry_timer>>
        BY <2>4, <3>1 DEF Hide!DockRegionChanged
      <4>2. UNCHANGED Hide!Seen
        BY <4>1 DEF Hide!Seen
      <4>3. ~untracked' => ~untracked
        BY <2>4, <3>1 DEF Hide!DockRegionChanged
      <4>4. QED BY <4>1, <4>2, <4>3 DEF Hide!FlagsCurrent
    <3>2. CASE o # overlap
      BY <2>3, <2>4, <3>2 DEF Hide!DockRegionChanged
    <3>3. QED BY <3>1, <3>2
  <2>5. ASSUME NEW o, NEW a, Hide!ScreenChanged(o, a) PROVE Hide!FlagsCurrent'
    BY <2>3, <2>5 DEF Hide!ScreenChanged, Hide!schedule_update
  <2>6. ASSUME NEW o, NEW m, Hide!ActiveMoved(o, m) PROVE Hide!FlagsCurrent'
    BY <2>3, <2>6 DEF Hide!ActiveMoved
  <2>7. ASSUME Hide!ActiveMinimized PROVE Hide!FlagsCurrent'
    BY <2>3, <2>7 DEF Hide!ActiveMinimized, Hide!schedule_update
  <2>8. ASSUME NEW w, Hide!InactiveMoved(w) PROVE Hide!FlagsCurrent'
    BY <2>3, <2>8 DEF Hide!InactiveMoved
  <2>9. ASSUME Hide!PrefsTimeout \/ Hide!GeometryTimeout \/ Hide!WindowChangedTimeout
        PROVE  Hide!FlagsCurrent'
    BY <2>2, <2>9 DEF Hide!PrefsTimeout, Hide!GeometryTimeout, Hide!WindowChangedTimeout
  <2>10. QED
    BY <2>1, <2>4, <2>5, <2>6, <2>7, <2>8, <2>9
    DEF Hide!Next, Hide!Timeout, Hide!vars, Hide!updates, Hide!offScreen,
        Hide!PointerEnter, Hide!PointerLeave,
        Hide!InhibitorStarts, Hide!InhibitorEnds, Hide!DragMotion, Hide!DragLeave,
        Hide!SetHideMode,
        Hide!SetDelays, Hide!SetPressureReveal, Hide!HideTimeout, Hide!UnhideTimeout,
        Hide!BarrierHit,
        Hide!BarrierLeave, Hide!PressureTimeout
<1>3. QED
  BY <1>1, <1>2, PTL DEF Hide!Spec, FlagsCurrent

\* The two halves of PressureDiscarded: where the barrier may be, and what is left
\* of a push when it is over.
BarrierWanted == barrier /\ ~prefs_changed_timer => PressureReveal /\ HideMode # "NONE"
PressureDrains == pressure > 0 /\ ~pushing => pressure_timer \/ cut

\* Each change of the mode or of PressureReveal renews the barrier, or will with
\* the preferences timeout.
LEMMA BarrierCorrect == Hide!Spec => []BarrierWanted
<1>1. Hide!Init => BarrierWanted
  BY DEF Hide!Init, BarrierWanted
<1>2. BarrierWanted /\ [Hide!Next]_Hide!vars => BarrierWanted'
  <2> SUFFICES ASSUME BarrierWanted, [Hide!Next]_Hide!vars PROVE BarrierWanted'
    OBVIOUS
  <2>1. CASE UNCHANGED <<barrier, prefs_changed_timer, PressureReveal, HideMode>>
    BY <2>1 DEF BarrierWanted
  <2>2. CASE Hide!update_barrier(PressureReveal) /\ UNCHANGED <<PressureReveal, HideMode>>
    BY <2>2 DEF BarrierWanted, Hide!update_barrier
  <2>3. ASSUME NEW m, Hide!SetHideMode(m) PROVE BarrierWanted'
    BY <2>3 DEF BarrierWanted, Hide!SetHideMode
  <2>4. ASSUME NEW r, Hide!SetPressureReveal(r) PROVE BarrierWanted'
    BY <2>4 DEF BarrierWanted, Hide!SetPressureReveal, Hide!update_barrier
  <2>5. ASSUME NEW o, NEW b, Hide!DockRegionChanged(o, b) PROVE BarrierWanted'
    BY <2>2, <2>5 DEF Hide!DockRegionChanged, Hide!prefs
  <2>6. ASSUME Hide!PrefsTimeout PROVE BarrierWanted'
    BY <2>2, <2>6 DEF Hide!PrefsTimeout, Hide!prefs
  <2>7. QED
    BY <2>1, <2>3, <2>4, <2>5, <2>6
    DEF Hide!Next, Hide!Timeout, Hide!vars, Hide!updates, Hide!pushes, Hide!prefs,
        Hide!offScreen, Hide!PointerEnter,
        Hide!PointerLeave, Hide!InhibitorStarts, Hide!InhibitorEnds, Hide!DragMotion,
        Hide!DragLeave,
        Hide!SetDelays, Hide!ScreenChanged, Hide!ActiveMoved, Hide!ActiveMinimized,
        Hide!InactiveMoved,
        Hide!BarrierHit, Hide!BarrierLeave, Hide!HideTimeout, Hide!UnhideTimeout,
        Hide!GeometryTimeout,
        Hide!WindowChangedTimeout, Hide!PressureTimeout
<1>3. QED
  BY <1>1, <1>2, PTL DEF Hide!Spec

\* Pressure is collected while pushing only; who stops pushing starts the timeout
\* that discards it or was cut off by a renewal of the barrier; revealing the dock
\* discards it at once.
LEMMA DrainsCorrect == Hide!Spec => []PressureDrains
<1>1. Hide!Init => PressureDrains
  BY DEF Hide!Init, PressureDrains
<1>2. PressureDrains /\ [Hide!Next]_Hide!vars => PressureDrains'
  <2> SUFFICES ASSUME PressureDrains, [Hide!Next]_Hide!vars PROVE PressureDrains'
    OBVIOUS
  <2>1. CASE UNCHANGED <<pressure, pushing, pressure_timer, cut>>
    BY <2>1 DEF PressureDrains
  <2>2. ASSUME NEW d, Hide!BarrierHit(d) PROVE PressureDrains'
    BY <2>2 DEF PressureDrains, Hide!BarrierHit
  <2>3. ASSUME Hide!BarrierLeave PROVE PressureDrains'
    BY <2>3 DEF PressureDrains, Hide!BarrierLeave
  <2>4. ASSUME Hide!PressureTimeout PROVE PressureDrains'
    BY <2>4 DEF PressureDrains, Hide!PressureTimeout
  <2>5. ASSUME NEW r, Hide!update_barrier(r), UNCHANGED <<pressure, pressure_timer>>
        PROVE  PressureDrains'
    BY <2>5 DEF PressureDrains, Hide!update_barrier
  <2>6. ASSUME NEW r, Hide!SetPressureReveal(r) PROVE PressureDrains'
    BY <2>5, <2>6 DEF Hide!SetPressureReveal
  <2>7. ASSUME NEW o, NEW b, Hide!DockRegionChanged(o, b) PROVE PressureDrains'
    BY <2>5, <2>7 DEF Hide!DockRegionChanged
  <2>8. ASSUME Hide!PrefsTimeout PROVE PressureDrains'
    BY <2>5, <2>8 DEF Hide!PrefsTimeout
  <2>9. QED
    BY <2>1, <2>2, <2>3, <2>4, <2>6, <2>7, <2>8
    DEF Hide!Next, Hide!Timeout, Hide!vars, Hide!pushes, Hide!offScreen,
        Hide!PointerEnter, Hide!PointerLeave,
        Hide!InhibitorStarts, Hide!InhibitorEnds, Hide!DragMotion, Hide!DragLeave,
        Hide!SetHideMode,
        Hide!SetDelays, Hide!ScreenChanged, Hide!ActiveMoved,
        Hide!ActiveMinimized, Hide!InactiveMoved, Hide!HideTimeout,
        Hide!UnhideTimeout, Hide!GeometryTimeout,
        Hide!WindowChangedTimeout
<1>3. QED
  BY <1>1, <1>2, PTL DEF Hide!Spec

\* The barrier is there only where pressure is to reveal the dock, and what a push
\* has collected is about to be discarded when it is over, unless a renewal of
\* the barrier cut the push short.
THEOREM PressureDiscardedCorrect == Hide!Spec => []PressureDiscarded
<1>1. BarrierWanted /\ PressureDrains => Hide!PressureDiscarded
  BY DEF BarrierWanted, PressureDrains, Hide!PressureDiscarded
<1>2. QED
  BY <1>1, BarrierCorrect, DrainsCorrect, PTL DEF PressureDiscarded
=============================================================================
