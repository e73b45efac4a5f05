--------------------------- MODULE DBusMenuModel ---------------------------
(***************************************************************************)
(* global-appmenu, dbusmenu-importer: the copy of another program's menu   *)
(* that the panel shows (model.c, section.c), the program that owns the    *)
(* menu (external), the GTK+ menu built from the copy (external) and the   *)
(* user in front of it.                                                    *)
(*                                                                         *)
(* The panel asks for layouts asynchronously (`calls`) and gets answers    *)
(* and signals in the order the program sent them (`news`).  A synchronous *)
(* call overtakes what was sent to the panel but not what was asked of the *)
(* program.  `menu` is the copy of one menu, its entries split in sections *)
(* at the separators; of the submenus its entries link to, `menus` keeps   *)
(* the id of the entry whose layout each holds.  `view` is what GTK+ shows *)
(* of `menu`: it learns of changes from the signals only.                  *)
(*                                                                         *)
(* layout_update_in_progress is TRUE only inside layout_parse, which calls *)
(* nothing that could look at it: it is left out.                          *)
(***************************************************************************)
EXTENDS DBusMenuItem, Sequences, SequencesExt, FiniteSetsExt

CONSTANTS Programs,          \* what the program may be and do, see Init
          Menus,             \* submenu models
          Top,               \* stands for `menu` among them
          FreedPositions     \* what the position of a freed iterator may read as

ASSUME MenusAssumption == NoMenu \notin Menus /\ Top \notin Menus
ASSUME BoundsAssumption == FreedPositions \subseteq Nat

\* A layout is a sequence of ids, each of which occurs once, and types.
IsLayout(layout, props) ==
  /\ layout \in Seq(Int \X Types)
  /\ \A j, k \in DOMAIN layout : layout[j][1] = layout[k][1] => j = k
  /\ \A k \in DOMAIN layout : layout[k][1] \in DOMAIN props

ASSUME ProgramsAssumption ==
  \A p \in Programs :
    /\ DOMAIN p = {"toplevel", "layouts", "layout", "props", "updates", "removals",
                   "requests", "revision", "changes", "MaxChanges"}
    /\ p.layout \in p.layouts /\ \A layout \in p.layouts : IsLayout(layout, p.props)
    /\ \A u \in p.updates : u.id \in DOMAIN p.props
    /\ {p.revision, p.changes, p.MaxChanges} \subseteq Nat

VARIABLES program,   \* layouts, updates, removals, requests: what it may do (constant);
                     \* layout, props, revision: what its menu is; changes: how often
                     \* it and the user did anything, up to the bound MaxChanges
          calls,     \* layouts asked for: the model and the id it asked with
          news,      \* answers and signals on their way to the panel
          menu,      \* sections, current_revision
          menus,     \* submenu models
          group,     \* the actions
          view,      \* the sections that are shown
          crossed,   \* history: submenu models that got the layout of another entry
          kept       \* history: ids of entries that have been left in the menu when no
                     \* layout put them there

vars == <<program, calls, news, menu, menus, group, view, crossed, kept>>

-----------------------------------------------------------------------------
(* The program                                                             *)

Ids == {e[1] : e \in ToSet(program.layout)}
TypeOf(id) == (CHOOSE e \in ToSet(program.layout) : e[1] = id)[2]

Children == [k \in DOMAIN program.layout |->
               [id |-> program.layout[k][1], type |-> program.layout[k][2],
                props |-> program.props[program.layout[k][1]]]]

\* It knows nothing of entries it no longer has: the answer is an error.
Answer(c) ==
  IF c.menu = Top THEN <<[kind |-> "layout", menu |-> Top, children |-> Children]>>
  ELSE IF c.parent \in Ids
  THEN <<[kind |-> "layout", menu |-> c.menu, parent |-> c.parent]>>
  ELSE <<>>

\* The program has answered what it was asked before a synchronous call.
Answered(sent) ==
  LET answered[k \in 0..Len(calls)] ==
        IF k = 0 THEN sent ELSE answered[k - 1] \o Answer(calls[k])
  IN answered[Len(calls)]

Serve ==
  /\ calls # <<>>
  /\ news' = news \o Answer(Head(calls))
  /\ calls' = Tail(calls)
  /\ UNCHANGED <<program, menu, menus, group, view, crossed, kept>>

ChangeLayout ==
  \E layout \in program.layouts :
    /\ program.changes < program.MaxChanges
    /\ program' = [program EXCEPT !.layout = layout, !.revision = @ + 1, !.changes = @ + 1]
    /\ news' = Append(news, [kind |-> "updated", parent |-> 0, revision |-> program.revision + 1])
    /\ UNCHANGED <<calls, menu, menus, group, view, crossed, kept>>

\* The layout under an entry: what is in submenus does not change here.
ChangeSubmenu ==
  \E id \in Ids :
    /\ TypeOf(id) = "submenu" /\ program.changes < program.MaxChanges
    /\ program' = [program EXCEPT !.revision = @ + 1, !.changes = @ + 1]
    /\ news' = Append(news, [kind |-> "updated", parent |-> id, revision |-> program.revision + 1])
    /\ UNCHANGED <<calls, menu, menus, group, view, crossed, kept>>

Changed(u) == [program EXCEPT !.props[u.id] = u.props @@ @, !.changes = @ + 1]
PropsNews(u) == [kind |-> "props", id |-> u.id, props |-> u.props]

ChangeProps ==
  \E u \in program.updates :
    /\ program.changes < program.MaxChanges
    /\ program' = Changed(u)
    /\ news' = Append(news, PropsNews(u))
    /\ UNCHANGED <<calls, menu, menus, group, view, crossed, kept>>

ResetProp ==
  \E r \in program.removals :
    /\ program.changes < program.MaxChanges /\ r.prop \in DOMAIN program.props[r.id]
    /\ program' = [program EXCEPT !.props[r.id] = [p \in DOMAIN @ \ {r.prop} |-> @[p]],
                                  !.changes = @ + 1]
    /\ news' = Append(news, [kind |-> "removed", id |-> r.id, prop |-> r.prop])
    /\ UNCHANGED <<calls, menu, menus, group, view, crossed, kept>>

RequestActivation ==
  \E id \in program.requests :
    /\ program.changes < program.MaxChanges
    /\ program' = [program EXCEPT !.changes = @ + 1]
    /\ news' = Append(news, [kind |-> "activate", id |-> id])
    /\ UNCHANGED <<calls, menu, menus, group, view, crossed, kept>>

-----------------------------------------------------------------------------
(* What the view is told.  A signal names a section, or with Root the list *)
(* of sections, and what was replaced in it.                               *)

Root == -1

Spliced(seq, pos, removed, added) ==
  LET at == Min({Max({pos, 0}), Len(seq)})
  IN SubSeq(seq, 1, at) \o added \o SubSeq(seq, at + removed + 1, Len(seq))

Inserted(seq, pos, n) == SubSeq(seq, Max({pos, 0}) + 1, Max({pos, 0}) + n)

Shown(sections) ==
  [k \in DOMAIN sections |->
     [sid |-> sections[k].sid,
      entries |-> [j \in DOMAIN sections[k].items |-> Attributes(sections[k].items[j])]]]

EntriesOf(sections, sid) ==
  IF \E k \in DOMAIN sections : sections[k].sid = sid
  THEN Shown(sections)[CHOOSE k \in DOMAIN sections : sections[k].sid = sid].entries
  ELSE <<>>

\* A menu bar is built anew when its list of sections changes.
View(v, s, sections) ==
  IF s.sid = Root
  THEN IF program.toplevel THEN Shown(sections)
       ELSE Spliced(v, s.pos, s.removed, Inserted(Shown(sections), s.pos, s.added))
  ELSE [k \in DOMAIN v |->
          IF v[k].sid # s.sid THEN v[k]
          ELSE [v[k] EXCEPT !.entries =
                  Spliced(@, s.pos, s.removed,
                          Inserted(EntriesOf(sections, s.sid), s.pos, s.added))]]

queue_emit_all(queue, sections) == FoldLeft(LAMBDA v, s : View(v, s, sections), view, queue)

add_signal_to_queue(queue, sid, pos, removed, added) ==
  LET s == [sid |-> sid, pos |-> pos, removed |-> removed, added |-> added]
  IN IF s \in ToSet(queue) THEN queue ELSE <<s>> \o queue

-----------------------------------------------------------------------------
(* layout_parse.  `p` is what it keeps between two children: the section   *)
(* it is in (`n`, from 0) and the position in it, the entries added to it, *)
(* the position of the first addition (`change`, never reset), whether     *)
(* nothing followed the last separator, the signals and the length of the  *)
(* old list of sections.                                                   *)

\* Where the entries are, by section and position, and which.
Spots(sections) ==
  UNION {{<<s, k>> : k \in DOMAIN sections[s].items} : s \in DOMAIN sections}

ItemsOf(sections) == UNION {ToSet(s.items) : s \in ToSet(sections)}

Linked(sections) ==
  (UNION {{i.submenu, i.disabled_submenu} : i \in ItemsOf(sections)}) \ {NoMenu}

Fresh(p) ==
  CHOOSE m \in Menus : /\ m \notin Linked(p.sections)
                       /\ \A c \in ToSet(calls) : c.menu # m
                       /\ \A a \in ToSet(news) : a.kind = "layout" => a.menu # m

UnusedSid(p) ==
  Min((0..(Len(p.sections) + Len(view))) \ {s.sid : s \in ToSet(p.sections) \cup ToSet(view)})

\* A separator ends a section that has entries; what the section still has of
\* the old layout goes.  How much that was is read from an iterator that went
\* with it.
ParseSeparator(p, child, freed) ==
  LET items == p.sections[p.n + 1].items
      removed == IF Len(items) > p.at THEN p.at - freed ELSE 0
      cut == [p.sections EXCEPT ![p.n + 1].items = SubSeq(items, 1, p.at)]
  IN IF dbus_menu_item_new(child).toggled \/ p.border \/ items = <<>> THEN p
     ELSE [p EXCEPT
             !.sections = IF p.n + 1 < Len(cut) THEN cut
                          ELSE Append(cut, [sid |-> UnusedSid(p), items |-> <<>>]),
             !.queue = IF (removed > 0 \/ p.added > 0) /\ p.n + 1 <= p.old
                       THEN add_signal_to_queue(@, cut[p.n + 1].sid, p.change, removed, p.added)
                       ELSE @,
             !.n = @ + 1, !.at = 0, !.added = 0, !.border = TRUE]

\* Behind the old entries: one more.
ParseAppended(p, new) ==
  LET made == menu_item_copy_and_load(p.menus, p.group, {}, new, Fresh(p))
  IN [p EXCEPT !.sections[p.n + 1].items = Append(@, made.item),
               !.change = IF p.added = 0 /\ @ < 0 THEN p.at ELSE @,
               !.menus = made.menus, !.group = made.group,
               !.at = @ + 1, !.added = @ + 1, !.border = FALSE]

\* In the place of an old entry, which first gets the new one's properties.
ParsePlaced(p, new, props) ==
  LET old == p.sections[p.n + 1].items[p.at + 1]
      updated == update_props(old, props)
      group1 == ActionAfter(p.group, updated, props)
      diff == ~compare_immutable(old, new)
      made == menu_item_copy_and_load(p.menus, group1, {updated}, new, NoMenu)
      told == (diff \/ Attributes(updated) # Attributes(old)) /\ p.n < p.old
  IN [p EXCEPT !.sections[p.n + 1].items[p.at + 1] = IF diff THEN made.item ELSE updated,
               !.menus = IF diff THEN made.menus ELSE @,
               !.group = IF diff THEN made.group ELSE group1,
               !.queue = IF told THEN add_signal_to_queue(@, p.sections[p.n + 1].sid, p.at, 1, 1)
                         ELSE @,
               !.at = @ + 1, !.border = FALSE]

ParseChild(p, child, freed) ==
  LET new == dbus_menu_item_new(child)
  IN IF child.type = "section" THEN ParseSeparator(p, child, freed)
     ELSE IF is_firefox_stub(new) THEN p
     ELSE IF p.at = Len(p.sections[p.n + 1].items) THEN ParseAppended(p, new)
     ELSE ParsePlaced(p, new, child.props)

\* Mutant: the surplus sections of the old layout stay.
ParseEnd_KeepsSections(p) ==
  [p EXCEPT !.sections[p.n + 1].items = SubSeq(@, 1, Min({p.at + 1, Len(@)}))]

\* Mutant: the last section is announced even if it is among those that are new.
ParseEnd_TellsTwice(p) ==
  LET n == p.n + (IF p.border /\ p.n > 0 THEN 0 ELSE 1)
      at == Min({p.at + 1, Len(p.sections[p.n + 1].items)})
      sections == SubSeq([p.sections EXCEPT ![p.n + 1].items = SubSeq(@, 1, at)], 1, n)
      queue == IF p.added = 0 THEN p.queue
               ELSE add_signal_to_queue(p.queue, sections[n].sid, p.change, 0, p.added)
  IN [p EXCEPT !.sections = sections,
               !.queue = IF p.old = n THEN queue
                         ELSE add_signal_to_queue(queue, Root, Min({p.old, n}),
                                                  Max({p.old - n - 1, 0}), Max({n - p.old, 0}))]

\* The last section: the iterator moves on once more before the rest is removed.
ParseEnd(p) ==
  LET items == p.sections[p.n + 1].items
      at == Min({p.at + 1, Len(items)})
      removed == Len(items) - at
      valid == (~p.border \/ p.n = 0) /\ ~(items = <<>> /\ Len(p.sections) > 1)
      n == p.n + (IF valid THEN 1 ELSE 0)
      secdiff == p.old - n
      sections == SubSeq([p.sections EXCEPT ![p.n + 1].items = SubSeq(items, 1, at)], 1, n)
  IN [p EXCEPT
        !.sections = sections,
        !.queue = IF secdiff # 0
                  THEN add_signal_to_queue(@, Root, Min({p.old, n}), Max({secdiff - 1, 0}),
                                           Max({-secdiff, 0}))
                  ELSE IF removed > 0 \/ p.added > 0
                  THEN add_signal_to_queue(@, sections[n].sid, p.change, removed, p.added)
                  ELSE @]

layout_parse(children, freed) ==
  LET start == [sections |-> menu.sections, n |-> 0, at |-> 0, added |-> 0, change |-> -1,
                border |-> TRUE, queue |-> <<>>, old |-> Len(menu.sections),
                menus |-> menus, group |-> group]
      parsed[k \in 0..Len(children)] ==
        IF k = 0 THEN start ELSE ParseChild(parsed[k - 1], children[k], freed)
  IN ParseEnd(parsed[Len(children)])

-----------------------------------------------------------------------------
(* Initially the program's menu is known (a menu bar when its importer has *)
(* a proxy, any other menu when it is opened) and its layout asked for.    *)

Init ==
  /\ program \in Programs
  /\ calls = <<[menu |-> Top, parent |-> 0]>>
  /\ news = <<>>
  /\ menu = [sections |-> <<[sid |-> 0, items |-> <<>>]>>, current_revision |-> 0]
  /\ menus = [m \in Menus |-> NewMenu(0)]
  /\ group = <<>>
  /\ view = Shown(menu.sections)
  /\ crossed = {}
  /\ kept = {}

\* A model no entry links to is freed.
Kept(ms, sections) == [m \in Menus |-> IF m \in Linked(sections) THEN ms[m] ELSE NewMenu(0)]

\* What is left when a message has been received or a call sent.
Replace(sections, queue) ==
  /\ menu' = [menu EXCEPT !.sections = sections]
  /\ view' = queue_emit_all(queue, sections)

Told(kind) == news # <<>> /\ Head(news).kind = kind

\* The entry that is behind those of the layout.
LeftOver(sections, children) ==
  IF Cardinality(Spots(sections)) > Cardinality({c \in ToSet(children) : c.type # "section"})
  THEN {Last(Last(sections).items).id} ELSE {}

get_layout_cb ==
  /\ Told("layout") /\ Head(news).menu = Top
  /\ \E freed \in FreedPositions :
       LET p == layout_parse(Head(news).children, freed)
       IN /\ Replace(p.sections, p.queue)
          /\ menus' = Kept(p.menus, p.sections)
          /\ group' = p.group
          /\ crossed' = crossed \cap Linked(p.sections)
          /\ kept' = (kept \cup LeftOver(p.sections, Head(news).children))
                       \cap {i.id : i \in ItemsOf(p.sections)}
  /\ news' = Tail(news)
  /\ UNCHANGED <<program, calls>>

\* The same, in a submenu; one that is gone has cancelled the call.
get_layout_cb_submenu ==
  /\ Told("layout") /\ Head(news).menu # Top
  /\ LET m == Head(news).menu  parent == Head(news).parent
     IN IF m \notin Linked(menu.sections) THEN UNCHANGED <<menus, crossed>>
        ELSE /\ menus' = [menus EXCEPT ![m].content = {parent},
                                       ![m].layout_update_required = FALSE]
             /\ crossed' = IF menus[m].parent_id = parent THEN crossed \ {m}
                           ELSE crossed \cup {m}
  /\ news' = Tail(news)
  /\ UNCHANGED <<program, calls, menu, group, view, kept>>

\* Found in the order of the sections, up to one that is empty.  (Nothing is
\* ever sent about a separator.)
Places(sections, id) ==
  {at \in Spots(sections) : /\ sections[at[1]].items[at[2]].id = id
                            /\ \A r \in 1..at[1] : sections[r].items # <<>>}

First(places) ==
  CHOOSE x \in places : \A y \in places : x[1] < y[1] \/ (x[1] = y[1] /\ x[2] <= y[2])

\* The entry at this place becomes `i`, and the view may be told of it.
Updated(place, i, tell) ==
  LET s == menu.sections[place[1]]
  IN Replace([menu.sections EXCEPT ![place[1]].items[place[2]] = i],
             IF tell THEN <<[sid |-> s.sid, pos |-> place[2] - 1, removed |-> 1, added |-> 1]>>
             ELSE <<>>)

UpdateItem(id, props) ==
  LET places == Places(menu.sections, id) IN
  IF places = {} THEN UNCHANGED <<menu, view, group>>
  ELSE LET at == First(places)
           old == menu.sections[at[1]].items[at[2]]
           i == update_props(old, props)
       IN /\ Updated(at, i, Attributes(i) # Attributes(old))
          /\ group' = ActionAfter(group, i, props)

\* An async call per model: the menus ask in the order they were made.
Requests(ms) == {[menu |-> m, parent |-> menus[m].parent_id] : m \in ms}

\* Every model hears the signal.  The one whose layout changed asks for it; the
\* others look for an entry of theirs, which is updated synchronously.
layout_updated_cb ==
  /\ Told("updated")
  /\ LET parent == Head(news).parent  revision == Head(news).revision IN
     IF parent = 0
     THEN /\ news' = Tail(news)
          /\ IF menu.current_revision < revision
             THEN /\ calls' = Append(calls, [menu |-> Top, parent |-> 0])
                  /\ menu' = [menu EXCEPT !.current_revision = revision]
             ELSE UNCHANGED <<calls, menu>>
          /\ UNCHANGED <<view, group>>
     ELSE LET asking == {m \in Linked(menu.sections) : menus[m].parent_id = parent}
              known == Places(menu.sections, parent) # {}
          IN /\ IF known
                THEN /\ news' = Answered(Tail(news))
                     /\ calls' = SetToSeq(Requests(asking))
                ELSE /\ news' = Tail(news)
                     /\ calls' = calls \o SetToSeq(Requests(asking))
             /\ IF known /\ parent \in Ids
                THEN UpdateItem(parent, program.props[parent])
                ELSE UNCHANGED <<menu, view, group>>
  /\ UNCHANGED <<program, menus, crossed, kept>>

items_properties_updated_cb ==
  /\ Told("props")
  /\ UpdateItem(Head(news).id, Head(news).props)
  /\ news' = Tail(news)
  /\ UNCHANGED <<program, calls, menus, crossed, kept>>

\* (A submenu that is enabled so is not told of, and of a state nothing is taken.)
items_properties_removed ==
  /\ Told("removed")
  /\ LET places == Places(menu.sections, Head(news).id)
         prop == Head(news).prop
     IN IF places = {} THEN UNCHANGED <<menu, view, group>>
        ELSE LET at == First(places)
                 i == remove_prop(menu.sections[at[1]].items[at[2]], prop)
             IN /\ Updated(at, i, prop \in {"label", "visible"})
                /\ group' = IF prop = "enabled" THEN try_to_update_action(group, i) ELSE group
  /\ news' = Tail(news)
  /\ UNCHANGED <<program, calls, menus, crossed, kept>>

\* The program answers a click by switching a check.
Clicked(id, sent) ==
  LET u == [id |-> id, props |-> "toggle-state" :> ~program.props[id]["toggle-state"]]
  IN IF id \in Ids /\ TypeOf(id) = "checkmark"
     THEN /\ program' = Changed(u)
          /\ news' = Append(Answered(sent), PropsNews(u))
     ELSE /\ program' = [program EXCEPT !.changes = @ + 1]
          /\ news' = Answered(sent)

\* The action of an entry is activated: the event is sent and answered, then
\* the state of a check is switched here too, and a radio that was clicked is
\* selected.
Activate(id, sent) ==
  LET name == <<"item", id>> IN
  IF name \in DOMAIN group /\ group[name].enabled
  THEN /\ Clicked(id, sent)
       /\ calls' = <<>>
       /\ group' = [group EXCEPT ![name].state =
                      group[name].type = "radio" \/ (group[name].type = "checkmark" /\ ~@)]
  ELSE UNCHANGED <<program, calls, group>> /\ news' = sent

\* A radio's action takes a parameter, and is not activated without.
item_activation_requested_cb ==
  /\ Told("activate")
  /\ LET name == <<"item", Head(news).id>> IN
     IF name \in DOMAIN group /\ group[name].type = "radio"
     THEN UNCHANGED <<program, calls, group>> /\ news' = Tail(news)
     ELSE Activate(Head(news).id, Tail(news))
  /\ UNCHANGED <<menu, menus, view, crossed, kept>>

-----------------------------------------------------------------------------
(* The user, who sees `view`                                               *)

ShownEntries == UNION {ToSet(s.entries) : s \in ToSet(view)}

\* What the attributes of an entry are, see Attributes.
Click ==
  \E e \in ShownEntries :
    /\ e[4] = "own" /\ ~e[3] /\ program.changes < program.MaxChanges
    /\ <<"item", e[1]>> \in DOMAIN group /\ group[<<"item", e[1]>>].enabled
    /\ Activate(e[1], news)
    /\ UNCHANGED <<menu, menus, view, crossed, kept>>

\* Mutant: the id is read before the entry has given its own.
update_layout_EarlyId(m) == <<[menu |-> m, parent |-> 0]>>

update_layout(m) == <<[menu |-> m, parent |-> menus[m].parent_id]>>

\* "opened" and AboutToShow are sent and answered; the layout is asked for when
\* the program wants it, there is none, or it is known to be out of date.
state_submenu_cb_open ==
  \E e \in ShownEntries, need \in BOOLEAN :
    LET name == <<"submenu", e[1]>>  m == group[name].target IN
    /\ e[5] # NoMenu /\ name \in DOMAIN group /\ m \in Linked(menu.sections)
    /\ program.changes < program.MaxChanges /\ ~group[name].state
    /\ program' = [program EXCEPT !.changes = @ + 1]
    /\ news' = Answered(news)
    /\ calls' = IF need \/ menus[m].content = {} \/ menus[m].layout_update_required
                THEN update_layout(m) ELSE <<>>
    /\ group' = [group EXCEPT ![name].state = TRUE]
    /\ UNCHANGED <<menu, menus, view, crossed, kept>>

\* GTK+ asks again for a submenu whose action is already on.
state_submenu_cb_reopen ==
  \E e \in ShownEntries :
    LET name == <<"submenu", e[1]>>  m == group[name].target IN
    /\ e[5] # NoMenu /\ name \in DOMAIN group /\ m \in Linked(menu.sections)
    /\ program.changes < program.MaxChanges /\ group[name].state
    /\ program' = [program EXCEPT !.changes = @ + 1]
    /\ calls' = IF menus[m].layout_update_required THEN calls \o update_layout(m) ELSE calls
    /\ UNCHANGED <<news, menu, menus, group, view, crossed, kept>>

state_submenu_cb_close ==
  \E e \in ShownEntries :
    LET name == <<"submenu", e[1]>> IN
    /\ e[5] # NoMenu /\ name \in DOMAIN group /\ group[name].target \in Linked(menu.sections)
    /\ group[name].state
    /\ news' = Answered(news)
    /\ calls' = <<>>
    /\ group' = [group EXCEPT ![name].state = FALSE]
    /\ UNCHANGED <<program, menu, menus, view, crossed, kept>>

\* 100 ms after the entry came: its submenu is fetched before it is opened.
preload_idle ==
  \E s \in DOMAIN menu.sections : \E k \in DOMAIN menu.sections[s].items, need \in BOOLEAN :
    LET i == menu.sections[s].items[k]  m == Submenu(i) IN
    /\ i.preload
    /\ menu' = [menu EXCEPT !.sections[s].items[k].preload = FALSE]
    /\ IF m = NoMenu THEN UNCHANGED <<calls, news>>
       ELSE /\ news' = Answered(news)
            /\ calls' = IF need \/ menus[m].layout_update_required
                        THEN update_layout(m) ELSE <<>>
    /\ UNCHANGED <<program, menus, group, view, crossed, kept>>

-----------------------------------------------------------------------------
Handlers ==
  get_layout_cb \/ get_layout_cb_submenu \/ layout_updated_cb
    \/ items_properties_updated_cb \/ items_properties_removed \/ item_activation_requested_cb

Next ==
  \/ Serve \/ ChangeLayout \/ ChangeSubmenu \/ ChangeProps \/ ResetProp \/ RequestActivation
  \/ Handlers
  \/ Click \/ state_submenu_cb_open \/ state_submenu_cb_reopen \/ state_submenu_cb_close
  \/ preload_idle

\* The program answers, the panel's main loop delivers what has arrived and
\* runs the timers that are due.  Nobody has to click or to change anything.
\* (Delivered is WF_vars(Handlers): a handler is enabled while there is news.)
Delivered == []<>(news = <<>>) \/ []<><<Handlers>>_vars
Fairness == WF_vars(Serve) /\ WF_vars(preload_idle) /\ Delivered

Spec == Init /\ [][Next]_vars /\ Fairness

-----------------------------------------------------------------------------
(* Properties                                                              *)

IsHidden(props) == "visible" \in DOMAIN props /\ ~props["visible"]
LabelOf(props) == IF "label" \in DOMAIN props THEN props["label"] ELSE ""

\* A layout in sections: hidden separators separate nothing and there are no
\* empty sections.
Divide(d, child) ==
  IF child.type = "section"
  THEN [d EXCEPT !.apart = @ \/ ~IsHidden(child.props)]
  ELSE IF d.apart THEN [apart |-> FALSE, parts |-> Append(d.parts, <<child>>)]
  ELSE [d EXCEPT !.parts[Len(d.parts)] = Append(@, child)]

Divided(children) ==
  LET d[k \in 0..Len(children)] ==
        IF k = 0 THEN [apart |-> TRUE, parts |-> <<>>] ELSE Divide(d[k - 1], children[k])
  IN d[Len(children)].parts

Quiet == calls = <<>> /\ news = <<>>

\* An entry shows what the program says of it, and defaults where it says nothing;
\* but one that was left over may show what the program has taken back since.
Shows(i, child) ==
  LET told == DOMAIN child.props IN
  /\ i.id = child.id /\ i.type = child.type
  /\ i.label = LabelOf(child.props) \/ (i.id \in kept /\ "label" \notin told)
  /\ i.hidden = IsHidden(child.props) \/ (i.id \in kept /\ "visible" \notin told)

\* When all that was sent has been received, the copy has the program's entries
\* in the program's sections and order, with the labels and the visibility it has
\* given them, whatever the layout was before and whichever updates crossed a
\* layout that was being fetched; and what it has taken back is back at its
\* default.  Two things it does not say, since the code does not do them, are
\* named by `kept`: an entry of an old layout may stay behind the others of the
\* last section (see LastCleanedUp); and when a later layout has that entry again,
\* it is the one that stayed, which did not hear what was taken back meanwhile if
\* another entry had its id.  layout_parse, layout_updated_cb,
\* items_properties_loop.
MirrorsWhenQuiet ==
  Quiet =>
    LET remote == Divided(Children)  n == Len(menu.sections)
        Items(k) == menu.sections[k].items
        Surplus(k) == IF k = n /\ Items(k) # <<>> /\ Last(Items(k)).id \in kept THEN {0, 1} ELSE {0}
    IN IF remote = <<>> THEN n = 1 /\ Len(Items(1)) \in Surplus(1)
       ELSE /\ n = Len(remote)
            /\ \A k \in 1..n : /\ Len(Items(k)) - Len(remote[k]) \in Surplus(k)
                               /\ \A j \in DOMAIN remote[k] : Shows(Items(k)[j], remote[k][j])

\* No entry of an old layout is left behind those of the last section.  It does not
\* hold: the iterator is moved on once more before the rest is removed, so that one
\* may stay.  layout_parse (model.c:359).
LastCleanedUp == Quiet => kept = {}

\* No section is empty unless it is the only one: dbus_menu_model_find gives up
\* at the first that is, and updates of the entries behind it would be lost.
SectionsSound ==
  /\ menu.sections # <<>>
  /\ Len(menu.sections) > 1 => \A s \in ToSet(menu.sections) : s.items # <<>>

\* The entries that find gets to.
Entries == {menu.sections[at[1]].items[at[2]] :
              at \in {First(Places(menu.sections, i.id)) :
                        i \in ItemsOf(menu.sections)}}

\* The action under an entry's name is the entry's own and has its type, even if
\* the name was that of another kind of entry before, and one with a submenu opens
\* that submenu.  (Not so of an entry that was left over, see MirrorsWhenQuiet.
\* And an entry whose "visible" was taken back names it without the namespace,
\* "bare", which drives nothing.)  A check that is set in the program is shown set
\* when all has been received, however clicks (which switch the state here and
\* there) and updates crossed; one that is not set is shown so if its state has been
\* sent since the entry came: until then the entry has the mark that
\* menu_item_copy_and_load gives it, `toggled`, and any update of "enabled" alone
\* takes it for the state.  dbus_menu_action_reference,
\* dbus_menu_action_replace_signals, activate_checkbox_cb, try_to_update_action.
ActionsServe ==
  \A i \in {e \in Entries : e.type # "section" /\ e.id \notin kept} :
    LET name == Name(i.id, i.type) IN
    IF i.type = "submenu"
    THEN Submenu(i) # NoMenu => name \in DOMAIN group /\ group[name].target = Submenu(i)
    ELSE /\ name \in DOMAIN group /\ group[name].type = i.type /\ group[name].gen = i.gen
         /\ (Quiet /\ i.type = "checkmark" /\ i.id \in Ids)
              => LET set == program.props[i.id]["toggle-state"]
                 IN group[name].state = set \/ (~set /\ i.toggled)

\* The submenu models of an entry.
Links(i) == {i.submenu, i.disabled_submenu} \ {NoMenu}

\* Each submenu model belongs to one entry and asks for the layout under that
\* entry: entries that took over the models of others when the layout shifted
\* have really taken them over.  A model that still holds the layout of another
\* entry knows that it is out of date, and so is fetched again when it is opened.
\* That is not said of a model that got the reply to a request for the old entry
\* after the takeover (`crossed`): it does take that layout for its own.
\* dbus_menu_item_copy_submenu, dbus_menu_model_set_property (PROP_PARENT_ID).
SubmenusOwned ==
  LET Item(at) == menu.sections[at[1]].items[at[2]] IN
  \A at \in Spots(menu.sections) : \A m \in Links(Item(at)) :
    /\ menus[m].parent_id = Item(at).id
    /\ \A other \in Spots(menu.sections) \ {at} : m \notin Links(Item(other))
    /\ m \in crossed \/ menus[m].content \subseteq {Item(at).id} \/ menus[m].layout_update_required

\* The menu only had entries replaced, one section extended or sections added
\* (in a menu bar: not both), none shortened.
PlainChange(old, new) ==
  LET Len_(s, k) == Len(s[k].items)
      grown == {k \in DOMAIN old \cap DOMAIN new : Len_(new, k) > Len_(old, k)}
  IN /\ Len(old) <= Len(new)
     /\ \A k \in DOMAIN old : Len_(old, k) <= Len_(new, k)
     /\ Cardinality(grown) <= 1
     /\ program.toplevel /\ Len(old) < Len(new) => grown = {}

\* After such a change a view that was right is right: the signals, each of
\* which is emitted when all the changes have been made, show nothing twice and
\* leave nothing out.  add_signal_to_queue, queue_emit_all.
ViewTold ==
  [][view = Shown(menu.sections) /\ PlainChange(menu.sections, menu'.sections)
       => view' = Shown(menu'.sections)]_vars

SubmenuIds ==
  {id \in UNION {DOMAIN p.props : p \in Programs} :
     \E p \in Programs : \E layout \in p.layouts : <<id, "submenu">> \in ToSet(layout)}

\* The submenu of an enabled entry gets its layout even if nobody opens it, and
\* whatever happens to the entries meanwhile, if the program never takes the entry
\* away: the layout is there before the menu is shown.  (A request that finds the
\* entry gone is not made again until the submenu is opened, even if the entry is
\* back before the panel has noticed; and the timer finds no submenu of an entry
\* that has been disabled meanwhile.)  menu_item_copy_and_load, preload_idle.
SubmenusLoad ==
  \A m \in Menus, id \in SubmenuIds :
    LET Awaited == /\ menus[m].parent_id = id
                   /\ \E i \in ItemsOf(menu.sections) : Submenu(i) = m
    IN [](id \in Ids) => (Awaited ~> (menus[m].content # {} \/ ~Awaited))
=============================================================================
