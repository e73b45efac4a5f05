----------------------------- MODULE DragManager -----------------------------
(***************************************************************************)
(* plank/lib/DragManager.vala: drag'n'drop on the dock, with the part of   *)
(* DockWindow that tracks the hovered item and of HideManager that is told *)
(* about drags.                                                            *)
(*                                                                         *)
(* A drag is the dock's own ("internal") or one from another application,  *)
(* which is identified by its drag context.  GTK+ sends the window motion  *)
(* and leave events; a drop is announced by a leave.  The data of a drag   *)
(* is requested on its first motion and arrives later, in the order of the *)
(* requests, even if the drag has gone in the meantime.  What drag_leave   *)
(* has to do is left to an idle callback, which runs when no event is      *)
(* waiting: after a drop, but maybe after the drag has come back as well.  *)
(*                                                                         *)
(* RepositionMode and proxy_window are never set by any caller and are     *)
(* left out; so are drag icons and the hover popup.                        *)
(***************************************************************************)
EXTENDS Integers, Sequences, FiniteSets, SequencesExt

CONSTANTS
  Items,          \* the items of one provider of the dock
  Removable,      \* the items with can_be_removed
  Running,        \* the items of running applications
  Transients,     \* the TransientDockItems, which a drag can pin
  Contexts,       \* the drag contexts of other applications
  Launchers,      \* the contexts that drag one .desktop or docklet URI
  Empty,          \* the contexts that answer a request with no data
  NoItem, NoData, NoDrag,
  Gap, Outside,   \* pointer positions that are no item
  MaxHandlers, MaxIdles, MaxReplies      \* bounds

ASSUME DragAssumption ==
  /\ IsFiniteSet(Items)
  /\ Removable \subseteq Items /\ Running \subseteq Items /\ Transients \subseteq Items
  /\ Launchers \subseteq Contexts /\ Empty \subseteq Contexts
  /\ Items \cap {NoItem, Gap, Outside} = {} /\ Gap # Outside
  /\ Contexts \cap {NoDrag, NoData, "internal"} = {} /\ NoDrag # "internal"
  /\ MaxHandlers \in Nat /\ MaxIdles \in Nat /\ MaxReplies \in Nat

VARIABLES
  InternalDragActive, DragItem, drag_canceled,
  external_drag_active, drag_known, drag_data, drag_data_requested,
  DragNeedsCheck, marker,
  drag_hover_timer,
  handlers,       \* connections of hovered_item_changed to "HoveredItem"
  HoveredItem,    \* DockWindow
  Hovered, Disabled,                     \* HideManager
  LockItems,      \* DockPreferences
  items,          \* the items of the provider, in order
  pinned,         \* the items that have a .dockitem file
  session,        \* the drag under way: "internal", a context or NoDrag
  over,           \* "yes": GTK+ has reported the drag over the dock and no
                  \* leave since; "dropping": between the leave and the drop
                  \* of one drop event; "no" otherwise
  pointer,        \* where the pointer is
  idles,          \* idle callbacks of drag_leave that wait to run
  replies,        \* data requests under way, oldest first
  settled,        \* history: the drag under way began when every request had
                  \* been answered and no idle callback was waiting
  foreign         \* history: a drop of a settled drag has accepted the data
                  \* of another drag

internal == <<InternalDragActive, DragItem, drag_canceled>>
external == <<external_drag_active, drag_known, drag_data,
              drag_data_requested, DragNeedsCheck>>
hide     == <<Hovered, Disabled>>
gtk      == <<session, over, pointer, idles, replies>>
dock     == <<items, pinned, LockItems>>
history  == <<settled, foreign>>
vars == <<internal, external, marker, drag_hover_timer, handlers, HoveredItem,
          hide, gtk, dock, history>>

Positions == Items \cup {Gap, Outside}

-----------------------------------------------------------------------------
(* What the handlers are built from                                        *)

\* Mutants: the setter forgets to reset one of them.
StopExternal_KeepsRequest ==
  /\ external_drag_active' = FALSE
  /\ IF external_drag_active
     THEN /\ drag_known' = FALSE /\ drag_data' = NoData /\ DragNeedsCheck' = TRUE
          /\ UNCHANGED drag_data_requested
     ELSE UNCHANGED <<drag_known, drag_data, drag_data_requested,
                      DragNeedsCheck>>

StopExternal_KeepsData ==
  /\ external_drag_active' = FALSE
  /\ IF external_drag_active
     THEN /\ drag_known' = FALSE /\ drag_data_requested' = FALSE
          /\ UNCHANGED <<drag_data, DragNeedsCheck>>
     ELSE UNCHANGED <<drag_known, drag_data, drag_data_requested,
                      DragNeedsCheck>>

\* The setter of ExternalDragActive; the primed values of what it owns.
StopExternal ==
  /\ external_drag_active' = FALSE
  /\ IF external_drag_active
     THEN /\ drag_known' = FALSE /\ drag_data' = NoData
          /\ drag_data_requested' = FALSE /\ DragNeedsCheck' = TRUE
     ELSE UNCHANGED <<drag_known, drag_data, drag_data_requested,
                      DragNeedsCheck>>

index_of(s, x) == CHOOSE k \in DOMAIN s : s[k] = x

Removed(s, x) == IF x \in ToSet(s) THEN RemoveAt(s, index_of(s, x)) ELSE s

\* DockContainer.move_to, for the elements that (still) are in the container
move_to(s, x, y) ==
  IF x = y \/ x \notin ToSet(s) \/ y \notin ToSet(s) THEN s
  ELSE InsertAt(RemoveAt(s, index_of(s, x)), index_of(s, y), x)

\* HideManager.update_hovered: p is where the pointer is found.
update_hide(p, isInternal, isExternal) ==
  /\ Hovered' = (p # Outside)
  /\ Disabled' = (isInternal \/ isExternal)

\* DockWindow.update_hovered never reports the dragged item itself.
ItemAt(p) == IF p \in ToSet(items) \ {DragItem} THEN p ELSE NoItem

\* The items, after the dragged one has been moved to h n times
Moved(n, h) ==
  LET order[k \in 0..n] ==
        IF k = 0 THEN items ELSE move_to(order[k - 1], DragItem, h)
  IN order[n]

\* n calls of hovered_item_changed, one for each connection, with h hovered.
hovered_item_changed(n, h, isExternal, data) ==
  IF n = 0 THEN UNCHANGED <<items, drag_hover_timer>>
  ELSE /\ items' = IF InternalDragActive /\ DragItem # NoItem /\ h # NoItem
                   THEN Moved(n, h) ELSE items
       /\ drag_hover_timer' = (isExternal /\ data # NoData)

\* DockWindow.set_hovered with n handlers connected
set_hovered(h, n, isExternal, data) ==
  /\ HoveredItem' = h
  /\ hovered_item_changed(IF h = HoveredItem THEN 0 ELSE n, h, isExternal, data)

-----------------------------------------------------------------------------
Init ==
  /\ InternalDragActive = FALSE /\ DragItem = NoItem /\ drag_canceled = FALSE
  /\ external_drag_active = FALSE /\ drag_known = FALSE
  /\ drag_data = NoData /\ drag_data_requested = FALSE
  /\ DragNeedsCheck = TRUE
  /\ marker = NoDrag /\ drag_hover_timer = FALSE
  /\ handlers = 0 /\ HoveredItem = NoItem
  /\ Hovered = FALSE /\ Disabled = FALSE
  /\ LockItems \in BOOLEAN
  /\ items \in SetToSeqs(Items)
  /\ pinned = Items \ Transients
  /\ session = NoDrag /\ over = "no" /\ pointer = Outside
  /\ idles = 0 /\ replies = <<>>
  /\ settled = TRUE /\ foreign = FALSE

-----------------------------------------------------------------------------
(* The dock's own drag                                                     *)

drag_begin ==
  /\ session = NoDrag /\ over = "no"
  /\ ~LockItems /\ pointer # Outside
  /\ handlers < MaxHandlers
  /\ session' = "internal"
  /\ handlers' = handlers + 1
  /\ InternalDragActive' = TRUE /\ drag_canceled' = FALSE
  /\ DragItem' = HoveredItem             \* NoItem: the drag is aborted
  /\ UNCHANGED <<external, marker, drag_hover_timer, HoveredItem, hide, dock,
                 over, pointer, idles, replies, history>>

drag_failed(cancelled) ==
  /\ session = "internal" /\ drag_canceled # cancelled
  /\ drag_canceled' = cancelled
  /\ UNCHANGED <<InternalDragActive, DragItem, external, marker,
                 drag_hover_timer, handlers, HoveredItem, hide, gtk, dock,
                 history>>

\* Mutants: the first, and the last, look at the pointer is left out.
drag_end_StaleHover(p) ==
  /\ session = "internal" /\ session' = NoDrag
  /\ pointer' = p
  /\ items' = IF ~drag_canceled /\ ~Hovered /\ DragItem \in Removable \ Running
              THEN Removed(items, DragItem) ELSE items
  /\ InternalDragActive' = FALSE /\ DragItem' = NoItem
  /\ handlers' = 0
  /\ update_hide(p, FALSE, external_drag_active)
  /\ UNCHANGED <<drag_canceled, external, marker, drag_hover_timer, pinned,
                 HoveredItem, LockItems, over, idles, replies, history>>

drag_end_StaysDisabled(p) ==
  /\ session = "internal" /\ session' = NoDrag
  /\ pointer' = p
  /\ InternalDragActive' = FALSE /\ DragItem' = NoItem
  /\ handlers' = 0
  /\ UNCHANGED <<drag_canceled, external, marker, drag_hover_timer, items,
                 pinned, hide, HoveredItem, LockItems, over, idles, replies,
                 history>>

\* p is where update_hovered finds the pointer.
drag_end(p) ==
  LET done    == ~drag_canceled /\ DragItem # NoItem
      thrown  == done /\ p = Outside /\ DragItem \in Removable
      planted == done /\ p # Outside /\ HoveredItem = NoItem
                 /\ DragItem \in Transients
  IN /\ session = "internal"
     /\ pointer' = p
     /\ items' = IF thrown /\ DragItem \notin Running
                 THEN Removed(items, DragItem) ELSE items
     /\ pinned' = IF thrown THEN pinned \ {DragItem}
                  ELSE IF planted THEN pinned \cup {DragItem} ELSE pinned
     /\ session' = NoDrag
     /\ InternalDragActive' = FALSE /\ DragItem' = NoItem
     /\ handlers' = 0
     /\ update_hide(p, FALSE, external_drag_active)
     /\ UNCHANGED <<drag_canceled, external, marker, drag_hover_timer,
                    HoveredItem, LockItems, over, idles, replies, history>>

-----------------------------------------------------------------------------
(* Drags over the dock                                                     *)

\* Another application starts a drag; it ends it away from the dock.
SourceBegins(c) ==
  /\ session = NoDrag /\ over = "no"
  /\ session' = c
  /\ settled' = (replies = <<>> /\ idles = 0)
  /\ UNCHANGED <<internal, external, marker, drag_hover_timer, handlers,
                 HoveredItem, hide, dock, over, pointer, idles, replies,
                 foreign>>

SourceEnds ==
  /\ session \in Contexts /\ over = "no"
  /\ session' = NoDrag /\ settled' = TRUE
  /\ UNCHANGED <<internal, external, marker, drag_hover_timer, handlers,
                 HoveredItem, hide, dock, over, pointer, idles, replies,
                 foreign>>

\* The drag moves to p; target is whether the drag offers a type the dock
\* takes.  After the first test ExternalDragActive is ~InternalDragActive.
drag_motion(p, target) ==
  LET ext  == ~InternalDragActive
      stop == external_drag_active /\ ~ext
      ask  == ext /\ (~drag_known \/ marker # session)
      n    == IF ask THEN handlers + 1 ELSE handlers
  IN /\ session # NoDrag /\ n <= MaxHandlers
     /\ over' = "yes" /\ pointer' = p
     /\ external_drag_active' = ext
     /\ marker' = session
     /\ drag_known' = (ext \/ (drag_known /\ marker = session /\ ~stop))
     /\ drag_data' = IF stop THEN NoData ELSE drag_data
     /\ DragNeedsCheck' = (stop \/ DragNeedsCheck)
     /\ handlers' = n
     /\ IF ask /\ target
        THEN /\ Len(replies) < MaxReplies
             /\ drag_data_requested' = TRUE
             /\ replies' = Append(replies, session)
        ELSE /\ drag_data_requested' = (drag_data_requested /\ ~stop)
             /\ UNCHANGED replies
     /\ update_hide(p, InternalDragActive, ext)
     /\ set_hovered(ItemAt(p), n, ext, drag_data')
     /\ UNCHANGED <<internal, LockItems, pinned, session, idles, history>>

\* The oldest request is answered.  The handler knows no drag, only whether
\* some request is under way.
drag_data_received ==
  /\ replies # <<>>
  /\ replies' = Tail(replies)
  /\ LET c == Head(replies) IN
     \/ /\ ~drag_data_requested
        /\ UNCHANGED <<drag_data, drag_data_requested, DragNeedsCheck, items,
                       drag_hover_timer>>
     \/ /\ drag_data_requested /\ c \in Empty
        /\ drag_data_requested' = FALSE
        /\ UNCHANGED <<drag_data, DragNeedsCheck, items, drag_hover_timer>>
     \/ /\ drag_data_requested /\ c \notin Empty
        /\ drag_data' = c
        /\ drag_data_requested' = FALSE
        /\ DragNeedsCheck' = (c \notin Launchers)
        /\ hovered_item_changed(1, HoveredItem, external_drag_active, c)
  /\ UNCHANGED <<internal, external_drag_active, drag_known, marker, handlers,
                 HoveredItem, hide, LockItems, pinned, session, over, pointer,
                 idles, history>>

\* The drag leaves, or is about to be dropped; p is where update_hovered
\* finds the pointer.
drag_leave(p, dropping) ==
  /\ over = "yes"
  /\ dropping => session # NoDrag /\ p # Outside
  /\ over' = IF dropping THEN "dropping" ELSE "no"
  /\ pointer' = p
  /\ drag_hover_timer' = FALSE
  /\ update_hide(p, InternalDragActive, external_drag_active)
  /\ drag_known' = FALSE
  /\ IF external_drag_active
     THEN idles < MaxIdles /\ idles' = idles + 1 /\ handlers' = 0
     ELSE UNCHANGED <<idles, handlers>>
  /\ HoveredItem' = IF DragItem # NoItem /\ p = Outside THEN NoItem
                    ELSE HoveredItem
  /\ UNCHANGED <<internal, external_drag_active, drag_data,
                 drag_data_requested, DragNeedsCheck, marker, dock, session,
                 replies, history>>

\* Mutant: the callback does not make the hide manager look again.
LeaveIdle_StaysDisabled(p) ==
  /\ idles > 0 /\ idles' = idles - 1
  /\ pointer' = p
  /\ StopExternal
  /\ set_hovered(NoItem, handlers, FALSE, NoData)
  /\ UNCHANGED <<internal, marker, handlers, hide, LockItems, pinned, session,
                 over, replies, history>>

\* The idle callback that drag_leave has queued.
LeaveIdle(p) ==
  /\ idles > 0 /\ idles' = idles - 1
  /\ pointer' = p
  /\ StopExternal
  /\ set_hovered(NoItem, handlers, FALSE, NoData)
  /\ update_hide(p, InternalDragActive, FALSE)
  /\ UNCHANGED <<internal, marker, handlers, LockItems, pinned, session, over,
                 replies, history>>

\* The drop that follows its leave event; the item or the provider under the
\* pointer may take the data.
drag_drop ==
  /\ over = "dropping" /\ over' = "no"
  /\ drag_hover_timer' = FALSE
  /\ session' = IF session = "internal" THEN session ELSE NoDrag
  /\ settled' = TRUE
  /\ IF drag_data = NoData THEN UNCHANGED <<external, foreign>>
     ELSE /\ StopExternal
          /\ \/ UNCHANGED foreign
             \/ /\ (DragNeedsCheck /\ HoveredItem # NoItem) \/ ~LockItems
                /\ foreign' = (foreign \/ (settled /\ drag_data # session))
  /\ UNCHANGED <<internal, marker, handlers, HoveredItem, hide, dock, pointer,
                 idles, replies>>

\* Hovering for 1500 ms scrolls the item, again and again.
HoverTimeout ==
  /\ drag_hover_timer
  /\ drag_hover_timer' = (HoveredItem # NoItem)
  /\ UNCHANGED <<internal, external, marker, handlers, HoveredItem, hide, gtk,
                 dock, history>>

-----------------------------------------------------------------------------
(* What else happens                                                       *)

\* The pointer moves without a drag.  A hidden dock has no hovered item.
PointerMotion(p) ==
  /\ session = NoDrag /\ over = "no" /\ p # pointer
  /\ pointer' = p
  /\ IF (p # Outside) # Hovered
     THEN update_hide(p, InternalDragActive, external_drag_active)
     ELSE UNCHANGED hide
  /\ \E h \in {ItemAt(p), NoItem} :
       set_hovered(h, handlers, external_drag_active, drag_data)
  /\ UNCHANGED <<internal, external, marker, handlers, LockItems, pinned,
                 session, over, idles, replies, history>>

SetLockItems(lock) ==
  /\ LockItems # lock /\ LockItems' = lock
  /\ UNCHANGED <<internal, external, marker, drag_hover_timer, handlers,
                 HoveredItem, hide, gtk, items, pinned, history>>

-----------------------------------------------------------------------------
Event ==
  \/ drag_begin
  \/ \E b \in BOOLEAN : drag_failed(b) \/ SetLockItems(b)
  \/ \E p \in Positions : drag_end(p) \/ LeaveIdle(p) \/ PointerMotion(p)
  \/ \E p \in Positions, b \in BOOLEAN : drag_motion(p, b) \/ drag_leave(p, b)
  \/ \E c \in Contexts : SourceBegins(c)
  \/ SourceEnds
  \/ drag_data_received
  \/ HoverTimeout

\* A drop event is dispatched as one: nothing comes between leave and drop.
Next == drag_drop \/ (over # "dropping" /\ Event)

Spec == Init /\ [][Next]_vars

\* The main loop runs idle callbacks, and the second half of a drop event.
FairSpec == Spec /\ WF_vars(\E p \in Positions : over # "dropping" /\ LeaveIdle(p))
                 /\ WF_vars(drag_drop)

-----------------------------------------------------------------------------
(* Properties                                                              *)

Distinct(s) == \A j, k \in DOMAIN s : s[j] = s[k] => j = k

TypeOK ==
  /\ InternalDragActive \in BOOLEAN /\ drag_canceled \in BOOLEAN
  /\ DragItem \in Items \cup {NoItem}
  /\ external_drag_active \in BOOLEAN /\ drag_known \in BOOLEAN
  /\ drag_data \in Contexts \cup {NoData}
  /\ drag_data_requested \in BOOLEAN /\ DragNeedsCheck \in BOOLEAN
  /\ marker \in Contexts \cup {NoDrag, "internal"}
  /\ drag_hover_timer \in BOOLEAN
  /\ handlers \in 0..MaxHandlers
  /\ HoveredItem \in Items \cup {NoItem}
  /\ Hovered \in BOOLEAN /\ Disabled \in BOOLEAN
  /\ LockItems \in BOOLEAN
  /\ items \in Seq(Items) /\ Distinct(items)
  /\ pinned \subseteq Items
  /\ session \in Contexts \cup {NoDrag, "internal"}
  /\ over \in {"yes", "no", "dropping"}
  /\ pointer \in Positions
  /\ idles \in 0..MaxIdles
  /\ replies \in Seq(Contexts) /\ Len(replies) <= MaxReplies
  /\ settled \in BOOLEAN /\ foreign \in BOOLEAN

\* What the manager knows of a drag is forgotten with it: once none is over the
\* dock and the idle callbacks have run, no drag counts as active or known, no
\* item, data or unanswered request is kept for it, and DragNeedsCheck is back at
\* its default, however the drag ended and whatever answers are still to come.
\* Two things may be left.  A connection of hovered_item_changed (`handlers`)
\* stays when a leave finds the drag inactive already, which ActiveWhileOver
\* shows to happen.  A hover timeout that the data started between a leave and
\* its callback goes on until it finds no item under the pointer.
DragForgotten ==
  session # "internal" /\ over = "no" /\ idles = 0 =>
    /\ ~external_drag_active /\ ~drag_known
    /\ ~InternalDragActive /\ DragItem = NoItem
    /\ drag_data = NoData /\ ~drag_data_requested /\ DragNeedsCheck

\* Hiding is enabled again after the last drag.
EventuallyEnabled ==
  <>[](session = NoDrag /\ over = "no") => <>[]~Disabled

\* An item is thrown off the dock only if the pointer really is off the dock
\* when the drag ends, and the user did not cancel the drag.
ThrownOutside ==
  [][\A i \in Items : i \in ToSet(items) /\ i \notin ToSet(items') =>
       pointer' = Outside /\ ~drag_canceled]_vars

\* Data is accepted only in the drag it was requested for, unless that drag
\* began while an answer or the idle callback of a leave was still to come:
\* drag_data_received cannot tell the requests apart.
OwnData == ~foreign

\* "we will miss to receive the very first emmit after entering the
\* dock-window" (DragManager.vala:271): the hover timer belongs to a drag that
\* has entered the dock and is still over it.
ScrollsDuringDrag == drag_hover_timer => over = "yes"

\* "Make sure ExternalDragActive gets set to false ... while getting a leave
\* event without followed by a drop" (DragManager.vala:380): as long as a drag
\* stays over the dock it stays active.
ActiveWhileOver ==
  [][over = "yes" /\ over' = "yes" /\ external_drag_active
     /\ ~InternalDragActive => external_drag_active']_vars

\* "If true, prevent drag'n'drop actions and lock dock items in place" (data/
\* net.launchpad.plank.gschema.xml.in:82)
LockedInPlace == [][LockItems /\ LockItems' => items' = items]_vars
=============================================================================
