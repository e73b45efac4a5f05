-------------------------- MODULE WorkspaceManager --------------------------
(***************************************************************************)
(* galal's dynamic workspaces: WorkspaceManager.vala, insert_workspace_with_ *)
(* window (InternalUtils.vala), and the window manager's operations that   *)
(* move windows between workspaces (WindowManager.vala), in the build with *)
(* HAS_MUTTER330.                                                          *)
(*                                                                         *)
(* Everything runs on the compositor's main loop.  What makes it hard is   *)
(* that mutter emits its signals synchronously: a handler that removes or  *)
(* activates a workspace is re-entered before it returns.  A step is thus  *)
(* a function of the state record, the handlers nested in the calls that   *)
(* trigger them.                                                           *)
(***************************************************************************)
EXTENDS Integers, Sequences, FiniteSets, SequencesExt, FiniteSetsExt

CONSTANTS
  Windows,
  Counted,           \* the normal and dialog windows (Utils.get_n_windows)
  Resizable,         \* those that can be maximized and made full-screen
  Ids,               \* identities of workspaces (a bound on their number)
  Column,            \* workspaces are above each other: UP and DOWN lead to
                     \* another one (in one row they do not)
  MoveMaximized,     \* the setting move-maximized-workspace
  Toggles,           \* whether the user switches dynamic workspaces off and on
  Closed, Sticky, None   \* not open; on all workspaces; no workspace

\* Init's workspaces, and those that are made, are the first of Ids.
ASSUME WorkspaceAssumption ==
  /\ IsFiniteSet(Windows)
  /\ IsFiniteSet(Ids) /\ Ids = 1..Cardinality(Ids) /\ Cardinality(Ids) > 3
  /\ Closed \notin Ids /\ Sticky \notin Ids /\ None \notin Ids
  /\ Closed # Sticky /\ Closed # None /\ Sticky # None

VARIABLES
  s,          \* the compositor, see TypeOK
  size,       \* of each window: "normal", "full" or "max"
  untidy      \* history: dynamic workspaces were off at some time

vars == <<s, size, untidy>>

-----------------------------------------------------------------------------
\* from 1; 0 of a workspace that has been removed
Index(t, id) == IF id \in ToSet(t.list) THEN CHOOSE k \in DOMAIN t.list : t.list[k] = id ELSE 0
LastIndex(t) == Len(t.list)
WindowsOf(t, id) == {w \in DOMAIN t.at : t.at[w] = id}
get_n_windows(t, id) == Cardinality(WindowsOf(t, id) \cap Counted)
IsEmpty(t, id) == get_n_windows(t, id) < 1
is_modal(t) == t.modal > 0

\* get_neighbor: itself at an end, and everywhere in a row.
Neighbor(t, id, step) ==
  LET k == Index(t, id) + step
  IN IF Column /\ k \in DOMAIN t.list THEN t.list[k] ELSE id

\* mutter: the windows of a workspace that goes are moved to a neighbour, which
\* also becomes active; then workspace_removed forgets the mark.
MutterRemove(t, id) ==
  LET k    == Index(t, id)
      next == IF k > 1 THEN t.list[k - 1] ELSE t.list[k + 1]
      list == RemoveAt(t.list, k)
  IN IF k = 0 THEN t
     ELSE [t EXCEPT !.list = list,
                    !.active = IF @ = id THEN next ELSE @,
                    !.at = [w \in DOMAIN @ |-> IF @[w] = id THEN next ELSE @[w]],
                    !.marked = @ \cap ToSet(list)]

\* The second half of remove_workspace.
MarkAndRemove(t, id) ==
  IF id \in t.marked THEN t
  ELSE MutterRemove([t EXCEPT !.marked = @ \cup {id}], id)

\* Mutant: the workspace that was left is kept.
workspace_switched_Keeps(t, from) == t

\* workspace_switched
workspace_switched(t, from) ==
  IF t.dynamic /\ IsEmpty(t, from) /\ Index(t, from) # LastIndex(t)
  THEN MarkAndRemove(t, from) ELSE t

activate(t, id) ==
  IF t.active = id THEN t
  ELSE workspace_switched([t EXCEPT !.active = id], t.active)

\* An active workspace is left first, which may already have removed it.
remove_workspace(t, id) ==
  LET up   == Neighbor(t, id, -1)
      next == IF up = id THEN Neighbor(t, id, 1) ELSE up
  IN MarkAndRemove(IF id = t.active THEN activate(t, next) ELSE t, id)

append_workspace(t) ==
  LET fresh == Ids \ (ToSet(t.list) \cup t.marked)
  IN IF fresh = {} THEN [t EXCEPT !.over = TRUE]
     ELSE [t EXCEPT !.list = Append(@, Min(fresh))]

\* Mutant: the index of the last workspace is one too high.
window_added_OffByOne(t, id, w) ==
  IF t.dynamic /\ t.at[w] # Sticky /\ w \in Counted /\ Index(t, id) = LastIndex(t) + 1
  THEN append_workspace(t) ELSE t

window_added(t, id, w) ==
  IF t.dynamic /\ t.at[w] # Sticky /\ w \in Counted /\ Index(t, id) = LastIndex(t)
  THEN append_workspace(t) ELSE t

\* Mutant: it is not checked that the workspace is empty.
window_removed_NotEmpty(t, id, w, sticky) ==
  IF /\ t.dynamic /\ ~sticky /\ w \in Counted
     /\ Index(t, id) \notin {0, LastIndex(t)}
     /\ id # t.active \/ is_modal(t)
     /\ t.frozen < 1
  THEN remove_workspace(t, id) ELSE t

\* w was on all workspaces, or on none, while the signal is emitted.
window_removed(t, id, w, sticky) ==
  IF /\ t.dynamic /\ ~sticky /\ w \in Counted
     /\ Index(t, id) # 0
     /\ id # t.active \/ is_modal(t)
     /\ t.frozen < 1
     /\ IsEmpty(t, id)
     /\ Index(t, id) # LastIndex(t)
  THEN remove_workspace(t, id) ELSE t

\* mutter's moves: removed from where it is, then added.
TakeOff(t, w) ==
  LET id == t.at[w]
  IN IF id \in {Closed, Sticky} THEN t
     ELSE window_removed([t EXCEPT !.at[w] = None], id, w, FALSE)
PutOn(t, w, id) == window_added([t EXCEPT !.at[w] = id], id, w)
change_workspace(t, w, id) ==
  IF t.at[w] = id THEN t ELSE PutOn(TakeOff(t, w), w, id)

cleanup(t) ==
  LET f[k \in 0..Len(t.list)] ==
        IF k = 0 THEN t
        ELSE IF /\ IsEmpty(f[k - 1], t.list[k])
                /\ Index(f[k - 1], t.list[k]) # LastIndex(f[k - 1])
             THEN remove_workspace(f[k - 1], t.list[k]) ELSE f[k - 1]
  IN IF t.dynamic THEN f[Len(t.list)] ELSE t

\* change_workspace_by_index with append
ChangeByIndex(t, w, k) ==
  IF k <= LastIndex(t) THEN change_workspace(t, w, t.list[k])
  ELSE LET u == append_workspace(t) IN change_workspace(u, w, Last(u.list))

\* Mutant: the other windows are not moved out of the way.
insert_workspace_with_window_NoShift(t, k, w) ==
  IF k <= LastIndex(t) THEN cleanup(change_workspace(t, w, t.list[k])) ELSE t

\* Mutant: removals stay frozen.
insert_workspace_with_window_StaysFrozen(t, k, w) ==
  IF k <= LastIndex(t) THEN cleanup(change_workspace([t EXCEPT !.frozen = 1], w, t.list[k])) ELSE t

\* insert_workspace_with_window: w is put on workspace k, every other window
\* from there on moves one further, with removals frozen; then cleanup.
insert_workspace_with_window(t, k, w) ==
  LET frozen == [t EXCEPT !.frozen = @ + 1]
      placed == IF k <= LastIndex(t) THEN change_workspace(frozen, w, t.list[k]) ELSE frozen
      others == SetToSeq(Windows \ {w})
      Shift(u, x) == IF u.at[x] \notin {Closed, Sticky} /\ Index(u, u.at[x]) >= k
                     THEN ChangeByIndex(u, x, Index(u, u.at[x]) + 1) ELSE u
      f[i \in 0..Len(others)] == IF i = 0 THEN placed ELSE Shift(f[i - 1], others[i])
      shifted == f[Len(others)]
  IN cleanup([shifted EXCEPT !.frozen = @ - 1])

\* handle_fullscreen_window and move_window_to_next_ws.  If cleanup has left no
\* workspace of that index, mutter refuses the two calls.
MoveToNext(t, w) ==
  LET old == Index(t, t.at[w])
      u   == insert_workspace_with_window(t, old + 1, w)
      id  == u.list[old + 1]
  IN IF get_n_windows(t, t.at[w]) <= 1 THEN t
     ELSE [IF old + 1 > LastIndex(u) THEN u
           ELSE activate(change_workspace(u, w, id), id) EXCEPT !.assoc[w] = old]

\* and back: the workspace is remembered by its index.
MoveBack(t, w) ==
  LET old == t.assoc[w]
      id  == t.list[old]
      u   == IF old # Index(t, t.at[w]) /\ old <= LastIndex(t)
             THEN activate(change_workspace(t, w, id), id) ELSE t
  IN IF old = 0 THEN t ELSE [u EXCEPT !.assoc[w] = 0]

-----------------------------------------------------------------------------
(* Steps                                                                   *)

\* Between steps only the order of the workspaces matters: they are numbered
\* again, and marks of workspaces that no longer exist are dropped.
Renumbered(t) ==
  [t EXCEPT !.list = [k \in DOMAIN @ |-> k], !.marked = {},
            !.active = Index(t, @),
            !.at = [w \in DOMAIN @ |-> IF @[w] \in {Closed, Sticky} THEN @[w]
                                       ELSE Index(t, @[w])]]
Becomes(t) == ~t.over /\ s' = Renumbered(t)
Placed(w) == s.at[w] \notin {Closed, Sticky}

Open(w, id) ==
  /\ s.at[w] = Closed
  /\ Becomes(PutOn(s, w, id))
  /\ UNCHANGED <<size, untidy>>

\* destroy forgets the window.
Close(w) ==
  /\ s.at[w] # Closed
  /\ Becomes([TakeOff([s EXCEPT !.assoc[w] = 0], w) EXCEPT !.at[w] = Closed])
  /\ size' = [size EXCEPT ![w] = "normal"] /\ UNCHANGED untidy

\* The window is on all workspaces when the others hear of it.
Stick(w) ==
  /\ Placed(w)
  /\ Becomes([TakeOff(s, w) EXCEPT !.at[w] = Sticky])
  /\ UNCHANGED <<size, untidy>>

\* With workspaces only on the primary monitor, a window that comes there is
\* announced twice: by its workspace and by window_entered_monitor.
Unstick(w, entered) ==
  /\ s.at[w] = Sticky
  /\ LET t == PutOn(s, w, s.active)
     IN Becomes(IF entered THEN window_added(t, s.active, w) ELSE t)
  /\ UNCHANGED <<size, untidy>>

SwitchTo(id) ==
  /\ Becomes(activate(s, id)) /\ UNCHANGED <<size, untidy>>

switch_to_next_workspace(step) == SwitchTo(Neighbor(s, s.active, step))

\* move_window, which does not empty a workspace for the last one
move_window(w, step) ==
  LET next == Neighbor(s, s.active, step)
      t    == IF s.at[w] = Sticky THEN s ELSE change_workspace(s, w, next)
  IN /\ s.at[w] # Closed
     /\ ~(s.dynamic /\ get_n_windows(s, s.active) = 1 /\ Index(s, next) = LastIndex(s))
     /\ Becomes(activate(t, next))
     /\ UNCHANGED <<size, untidy>>

\* MOVE_CURRENT_WORKSPACE_LEFT and _RIGHT, and a drop on a workspace
MoveCurrent(w, id) ==
  /\ Placed(w)
  /\ Becomes(change_workspace(s, w, id)) /\ UNCHANGED <<size, untidy>>

\* A window's clone is dropped between two workspaces in the open view.
DropOnInserter(w, k) ==
  /\ s.dynamic /\ is_modal(s) /\ Placed(w) /\ k \in DOMAIN s.list
  /\ Becomes(insert_workspace_with_window(s, k, w)) /\ UNCHANGED <<size, untidy>>

\* size_changed
Enlarge(w, how) ==
  /\ w \in Resizable /\ Placed(w) /\ size[w] = "normal"
  /\ how = "max" => MoveMaximized
  /\ size' = [size EXCEPT ![w] = how]
  /\ Becomes(IF how = "max" \/ s.dynamic THEN MoveToNext(s, w) ELSE s)
  /\ UNCHANGED untidy

Shrink(w) ==
  /\ Placed(w) /\ size[w] # "normal"
  /\ size' = [size EXCEPT ![w] = "normal"]
  /\ Becomes(IF \/ size[w] = "full" /\ s.dynamic
                \/ /\ size[w] = "max" /\ MoveMaximized
                   /\ get_n_windows(s, s.at[w]) <= 1
             THEN MoveBack(s, w) ELSE s)
  /\ UNCHANGED untidy

\* push_modal and pop_modal
SetModal(d) ==
  /\ s.modal + d \in 0..1
  /\ Becomes([s EXCEPT !.modal = @ + d]) /\ UNCHANGED <<size, untidy>>

\* prefs_listener
SetDynamic(b) ==
  LET t == [s EXCEPT !.dynamic = b]
  IN /\ Toggles /\ s.dynamic # b
     /\ Becomes(IF b /\ ~IsEmpty(t, Last(t.list)) THEN append_workspace(t) ELSE t)
     /\ untidy' = TRUE /\ UNCHANGED size

\* construct: there are workspaces and windows from before.
Started(list, active, at) ==
  LET t == [list |-> list, active |-> active, at |-> at, marked |-> {}, frozen |-> 0,
            modal |-> 0, dynamic |-> TRUE, assoc |-> [w \in Windows |-> 0], over |-> FALSE]
  IN cleanup(IF IsEmpty(t, Last(list)) THEN t ELSE append_workspace(t))

Init ==
  /\ \E n \in 1..3 : \E active \in 1..n, at \in [Windows -> 1..n \cup {Closed, Sticky}] :
       s = Renumbered(Started([k \in 1..n |-> k], active, at))
  /\ size = [w \in Windows |-> "normal"] /\ untidy = FALSE

Next ==
  \/ \E w \in Windows :
       \/ Close(w) \/ Stick(w) \/ Shrink(w)
       \/ \E b \in BOOLEAN : Unstick(w, b)
       \/ \E id \in ToSet(s.list) : Open(w, id) \/ MoveCurrent(w, id)
       \/ \E step \in {-1, 1} : move_window(w, step)
       \/ \E k \in DOMAIN s.list : DropOnInserter(w, k)
       \/ \E how \in {"full", "max"} : Enlarge(w, how)
  \/ \E id \in ToSet(s.list) : SwitchTo(id)
  \/ \E step \in {-1, 1} : switch_to_next_workspace(step) \/ SetModal(step)
  \/ \E b \in BOOLEAN : SetDynamic(b)

Spec == Init /\ [][Next]_vars

-----------------------------------------------------------------------------
(* Properties                                                              *)

\* Between two events: distinct workspaces, an active one among them, every
\* window on one that exists (or on all, or closed), and no freeze left.
TypeOK ==
  /\ ToSet(s.list) \subseteq Ids /\ s.list # <<>>
  /\ Cardinality(ToSet(s.list)) = Len(s.list)
  /\ s.active \in ToSet(s.list)
  /\ s.at \in [DOMAIN s.at -> ToSet(s.list) \cup {Closed, Sticky}]
  /\ s.frozen = 0 /\ s.modal \in 0..1 /\ s.dynamic \in BOOLEAN
  /\ s.assoc \in [DOMAIN s.at -> 0..Cardinality(Ids)]
  /\ size \in [DOMAIN s.at -> {"normal", "full", "max"}]

\* "make sure the last workspace has no windows on it" (WorkspaceManager.vala:
\* 61), whatever opens, closes, moves, sticks or is inserted.
LastEmpty == s.dynamic => IsEmpty(s, Last(s.list))

\* Empty workspaces do not pile up: while workspaces are dynamic only the last
\* one and the active one are ever empty.
NoOtherEmpty ==
  s.dynamic /\ ~untidy =>
    \A id \in ToSet(s.list) : IsEmpty(s, id) => id \in {s.active, Last(s.list)}

\* What every operation leaves behind, with the handlers that mutter runs inside
\* of it: no workspace listed twice or removed under its windows, nothing frozen,
\* and of the empty workspaces the one that is wanted and no other.
WorkspacesSound == TypeOK /\ LastEmpty /\ NoOtherEmpty

Together(t, x, y) == t.at[x] = t.at[y]

\* The windows that a step is seen to be about: opened, closed, stuck or resized.
Touched == {w \in DOMAIN s.at :
              \/ size'[w] # size[w]
              \/ (s.at[w] \in {Closed, Sticky}) # (s'.at[w] \in {Closed, Sticky})}

\* A step rearranges at most one window: any two others that shared a
\* workspace still do, and no others are brought together.  Inserting a
\* workspace, which moves them all, only makes room.
OthersStayTogether ==
  [][\E w \in DOMAIN s.at \cup {None} :
       /\ Touched \subseteq {w}
       /\ \A x, y \in (Counted \cap DOMAIN s.at) \ {w} :
            s.at[x] \notin {Closed, Sticky} /\ s.at[y] \notin {Closed, Sticky}
            => (Together(s, x, y) <=> Together(s', x, y))]_vars

\* A window of the active workspace that is made full-screen next to others
\* ends up alone, on the active workspace.  (On another workspace it need not:
\* cleanup may remove the empty active workspace before the new workspace is
\* looked up by its index.)
FullscreenAlone ==
  [][\A w \in Counted \cap DOMAIN s.at :
       /\ size[w] = "normal" /\ size'[w] = "full" /\ s.dynamic /\ ~untidy
       /\ s.at[w] = s.active
       /\ get_n_windows(s, s.at[w]) > 1
       => get_n_windows(s', s'.at[w]) = 1 /\ s'.active = s'.at[w]]_vars
=============================================================================
