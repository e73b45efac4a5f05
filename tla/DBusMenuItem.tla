---------------------------- MODULE DBusMenuItem ----------------------------
(***************************************************************************)
(* global-appmenu, dbusmenu-importer: an entry of a menu that is imported  *)
(* from another program (item.c), and the actions through which GTK+ drives *)
(* it (utils.c).  Operators only; DBusMenuModel has the state.             *)
(*                                                                         *)
(* The actions are in one group, keyed by a name made of a prefix (entries *)
(* that open submenus have their own) and the entry's id.  An action       *)
(* outlives its entry: it stays in the group and is taken over by the next *)
(* entry with its name.  `gen` tells apart the objects that have had one   *)
(* name, since an entry keeps its reference to one that was replaced.      *)
(*                                                                         *)
(* Properties are a function of those that were sent; "label" stands for   *)
(* all that are copied into an attribute and compared (shortcuts too).     *)
(* An attribute `action` is the entry's "own" name with its namespace, the *)
(* name "bare" without it, the "disabled" dummy, or "none".                *)
(***************************************************************************)
EXTENDS Integers, TLC

CONSTANT NoMenu

Types == {"section", "normal", "checkmark", "radio", "submenu"}

Name(id, type) == <<IF type = "submenu" THEN "submenu" ELSE "item", id>>

\* The submenu is found under the link that `enabled` selects.
Submenu(i) == IF i.enabled THEN i.submenu ELSE i.disabled_submenu
WithSubmenu(i, m) == IF i.enabled THEN [i EXCEPT !.submenu = m]
                                  ELSE [i EXCEPT !.disabled_submenu = m]

\* What a menu shows of an entry.
Attributes(i) == <<i.id, i.label, i.hidden, i.action, i.submenu, i.disabled_submenu>>

-----------------------------------------------------------------------------
(* Properties                                                              *)

\* The link moves with the flag, unless the entry has been `toggled`.
update_enabled(i, enabled) ==
  IF i.type # "submenu" \/ i.toggled \/ i.enabled = enabled
  THEN [i EXCEPT !.enabled = enabled]
  ELSE LET emptied == IF Submenu(i) = NoMenu THEN i
                      ELSE [i EXCEPT !.submenu = NoMenu, !.disabled_submenu = NoMenu]
           flipped == [emptied EXCEPT !.enabled = enabled,
                                      !.action = IF enabled THEN "none" ELSE "disabled"]
       IN IF Submenu(i) = NoMenu THEN flipped ELSE WithSubmenu(flipped, Submenu(i))

UpdateVisible(i, vis) ==
  IF i.type = "section" THEN [i EXCEPT !.toggled = ~vis]
  ELSE IF i.hidden = ~vis THEN i
  ELSE [i EXCEPT !.hidden = ~vis, !.action = IF vis THEN "own" ELSE "disabled"]

\* Mutant: a hidden entry is not shown again.
update_props_HidesForGood(i, props) ==
  LET i1 == IF "enabled" \in DOMAIN props THEN update_enabled(i, props["enabled"]) ELSE i
      i2 == IF "label" \in DOMAIN props THEN [i1 EXCEPT !.label = props["label"]] ELSE i1
      i3 == IF "toggle-state" \in DOMAIN props
            THEN [i2 EXCEPT !.toggled = props["toggle-state"]] ELSE i2
  IN IF "visible" \in DOMAIN props /\ ~props["visible"] THEN UpdateVisible(i3, FALSE) ELSE i3

\* Properties that are not mentioned keep their values.
update_props(i, props) ==
  LET i1 == IF "enabled" \in DOMAIN props THEN update_enabled(i, props["enabled"]) ELSE i
      i2 == IF "label" \in DOMAIN props THEN [i1 EXCEPT !.label = props["label"]] ELSE i1
      i3 == IF "toggle-state" \in DOMAIN props
            THEN [i2 EXCEPT !.toggled = props["toggle-state"]] ELSE i2
  IN IF "visible" \in DOMAIN props THEN UpdateVisible(i3, props["visible"]) ELSE i3

\* A property goes back to its default.  The name an entry gets when "visible"
\* goes has no namespace, whether or not it was hidden.
remove_prop(i, prop) ==
  CASE prop = "enabled" -> update_enabled(i, TRUE)
    [] prop = "label"   -> [i EXCEPT !.label = ""]
    [] prop = "visible" -> [i EXCEPT !.hidden = FALSE, !.action = "bare"]
    [] OTHER            -> i

\* The type comes from the properties that never change (children-display,
\* toggle-type, type).
dbus_menu_item_new(child) ==
  update_props([id |-> child.id, type |-> child.type, enabled |-> TRUE, toggled |-> FALSE,
                label |-> "", hidden |-> FALSE,
                action |-> IF child.type \in {"section", "submenu"} THEN "none" ELSE "own",
                submenu |-> NoMenu, disabled_submenu |-> NoMenu,
                gen |-> 0, preload |-> FALSE],
               child.props)

compare_immutable(a, b) == a.id = b.id /\ a.type = b.type

\* The attributes are GVariants, of which g_strcmp0 compares the first bytes
\* with the names: it never finds them equal.
is_firefox_stub(i) == FALSE

-----------------------------------------------------------------------------
(* Actions                                                                 *)

\* The state of a radio or check action follows `toggled`.  Its callbacks are
\* locked out meanwhile.
try_to_update_action(group, i) ==
  LET name == Name(i.id, i.type) IN
  IF i.gen = 0 \/ name \notin DOMAIN group \/ group[name].gen # i.gen THEN group
  ELSE [group EXCEPT ![name] =
          [@ EXCEPT !.enabled = i.enabled,
                    !.state = IF i.type \in {"radio", "checkmark"} THEN i.toggled ELSE @]]

\* What update_props(i, props) does to the action of the entry.
ActionAfter(group, i, props) ==
  IF {"enabled", "toggle-state"} \cap DOMAIN props = {} THEN group
  ELSE try_to_update_action(group, i)

\* Mutant: an action is taken over whatever its type is.
action_reference_AnyType(group, id, type, menu) ==
  LET name == Name(id, type) IN
  IF name \in DOMAIN group
  THEN [group EXCEPT ![name].target = menu]
  ELSE IF type = "submenu" /\ menu = NoMenu THEN group
  ELSE name :> [type |-> type, gen |-> 1, enabled |-> TRUE, state |-> FALSE, target |-> menu]
       @@ group

\* An action of the right type is kept and its handlers are replaced; any other
\* is removed.  A new one for a missing submenu gets a random name.
action_reference(group, id, type, menu) ==
  LET name == Name(id, type)
      known == name \in DOMAIN group
  IN IF known /\ group[name].type = type
     THEN [group EXCEPT ![name].target = menu]
     ELSE IF type = "submenu" /\ menu = NoMenu THEN group
     ELSE name :> [type |-> type, gen |-> IF known THEN group[name].gen + 1 ELSE 1,
                   enabled |-> TRUE, state |-> FALSE, target |-> menu] @@ group

generate_action(group, i) ==
  LET name == Name(i.id, i.type)
      made == action_reference(group, i.id, i.type, Submenu(i))
      bound == [i EXCEPT !.gen = IF name \in DOMAIN made THEN made[name].gen ELSE 0]
  IN [item |-> bound, group |-> try_to_update_action(made, bound)]

-----------------------------------------------------------------------------
(* Submenus: the model object a submenu entry links to                     *)

NewMenu(id) == [parent_id |-> id, layout_update_required |-> TRUE, content |-> {}]

\* Mutant: the inherited model keeps fetching for the old entry.
inherit_KeepsParent(menus, m, id) == menus

\* Mutant: what the inherited model holds is taken for the new entry's.
inherit_KeepsLayout(menus, m, id) ==
  IF m = NoMenu THEN menus ELSE [menus EXCEPT ![m].parent_id = id]

\* "parent-id" of a model that another entry has inherited.
inherit(menus, m, id) ==
  IF m = NoMenu THEN menus
  ELSE [menus EXCEPT ![m].parent_id = id, ![m].layout_update_required = TRUE]

\* The entry that is appended gets a new model, the one that replaces another
\* submenu inherits its model, and one that replaces anything else has none.
copy_submenu(menus, src, dst, fresh) ==
  IF dst.type # "submenu" THEN [item |-> dst, menus |-> menus]
  ELSE IF src = {}
  THEN [item |-> WithSubmenu(IF dst.toggled THEN [dst EXCEPT !.enabled = TRUE] ELSE dst, fresh),
        menus |-> [menus EXCEPT ![fresh] = NewMenu(dst.id)]]
  ELSE LET old == CHOOSE s \in src : TRUE
           shown == IF old.toggled \/ dst.toggled
                    THEN [dst EXCEPT !.enabled = TRUE, !.toggled = TRUE] ELSE dst
       IN IF old.type # "submenu" THEN [item |-> dst, menus |-> menus]
          ELSE [item |-> WithSubmenu(shown, Submenu(old)),
                menus |-> inherit(menus, Submenu(old), dst.id)]

\* Every entry that is new is enabled and marked as toggled, whatever its
\* properties say, and preloaded 100 ms later.
menu_item_copy_and_load(menus, group, src, new, fresh) ==
  LET copied == copy_submenu(menus, src, new, fresh)
      made == generate_action(group, copied.item)
      enabled == update_enabled(made.item, TRUE)
  IN [item |-> [enabled EXCEPT !.toggled = TRUE, !.preload = (new.type = "submenu")],
      group |-> try_to_update_action(made.group, enabled),
      menus |-> copied.menus]
=============================================================================
