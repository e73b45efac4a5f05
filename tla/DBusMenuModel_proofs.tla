------------------------ MODULE DBusMenuModel_proofs ------------------------
(***************************************************************************)
(* Proofs about the copy of a program's menu, for any programs and any     *)
(* layouts and properties they send: the shape that layout_parse leaves    *)
(* behind, child by child, and whose the submenu models are.               *)
(***************************************************************************)
EXTENDS DBusMenuModel, DataLemmas, FiniteSetTheorems, TLAPS

-----------------------------------------------------------------------------
(* The entries of the copy                                                 *)

\* An entry has the fields that item.c gives it.
IsEntry(i) ==
  DOMAIN i = {"id", "type", "enabled", "toggled", "label", "hidden", "action", "submenu",
              "disabled_submenu", "gen", "preload"}

\* j is what became of i: the same entry, which has gained no submenu.
Same(i, j) ==
  /\ IsEntry(j) /\ j.id = i.id /\ j.type = i.type
  /\ Links(j) \subseteq Links(i)

Looks(i, j) == j.label = i.label /\ j.hidden = i.hidden

LEMMA UpdateEnabledFacts ==
  ASSUME NEW i, IsEntry(i), NEW enabled
  PROVE  Same(i, update_enabled(i, enabled)) /\ Looks(i, update_enabled(i, enabled))
<1>1. CASE i.type # "submenu" \/ i.toggled \/ i.enabled = enabled
  <2>1. PICK j : j = [i EXCEPT !.enabled = enabled]
    OBVIOUS
  <2>2. update_enabled(i, enabled) = j
    BY <1>1, <2>1 DEF update_enabled
  <2>3. /\ IsEntry(j) /\ j.id = i.id /\ j.type = i.type /\ j.submenu = i.submenu
        /\ j.disabled_submenu = i.disabled_submenu /\ Looks(i, j)
    BY <2>1 DEF IsEntry, Looks
  <2>4. QED BY <2>2, <2>3 DEF Same, Links
<1>2. CASE ~(i.type # "submenu" \/ i.toggled \/ i.enabled = enabled)
  <2>1. PICK e : e = IF Submenu(i) = NoMenu THEN i
                     ELSE [i EXCEPT !.submenu = NoMenu, !.disabled_submenu = NoMenu]
    OBVIOUS
  <2>2. PICK f : f = [e EXCEPT !.enabled = enabled,
                               !.action = IF enabled THEN "none" ELSE "disabled"]
    OBVIOUS
  <2>3. update_enabled(i, enabled) = IF Submenu(i) = NoMenu THEN f ELSE WithSubmenu(f, Submenu(i))
    BY <1>2, <2>1, <2>2 DEF update_enabled
  <2>4. /\ IsEntry(e) /\ e.id = i.id /\ e.type = i.type /\ Looks(i, e)
        /\ Submenu(i) = NoMenu => e = i
        /\ Submenu(i) # NoMenu => e.submenu = NoMenu /\ e.disabled_submenu = NoMenu
    BY <2>1 DEF IsEntry, Looks
  <2>5. /\ IsEntry(f) /\ f.id = i.id /\ f.type = i.type /\ Looks(i, f)
        /\ f.submenu = e.submenu /\ f.disabled_submenu = e.disabled_submenu
    BY <2>2, <2>4 DEF IsEntry, Looks
  <2>6. CASE Submenu(i) = NoMenu
    BY <2>3, <2>4, <2>5, <2>6 DEF Same, Links
  <2>7. CASE Submenu(i) # NoMenu
    <3>1. PICK m : m = Submenu(i)
      OBVIOUS
    <3>2. m \in Links(i)
      BY <2>7, <3>1 DEF Submenu, Links
    <3>3. PICK g : g = WithSubmenu(f, m)
      OBVIOUS
    <3>4. g = IF f.enabled THEN [f EXCEPT !.submenu = m] ELSE [f EXCEPT !.disabled_submenu = m]
      BY <3>3 DEF WithSubmenu
    <3>5. /\ IsEntry(g) /\ g.id = i.id /\ g.type = i.type /\ Looks(i, g)
          /\ g.submenu \in {m, NoMenu} /\ g.disabled_submenu \in {m, NoMenu}
      BY <2>4, <2>5, <2>7, <3>4 DEF IsEntry, Looks
    <3>6. QED BY <2>3, <2>7, <3>1, <3>2, <3>3, <3>5 DEF Same, Links
  <2>8. QED BY <2>6, <2>7
<1>3. QED BY <1>1, <1>2

LabelAfter(i, props) == IF "label" \in DOMAIN props THEN props["label"] ELSE i.label
HiddenAfter(i, props) == IF "visible" \in DOMAIN props THEN ~props["visible"] ELSE i.hidden
ToggledAfter(i, props) ==
  IF i.type = "section" /\ "visible" \in DOMAIN props THEN ~props["visible"]
  ELSE IF "toggle-state" \in DOMAIN props THEN props["toggle-state"] ELSE i.toggled

LEMMA UpdateVisibleFacts ==
  ASSUME NEW i, IsEntry(i), NEW vis
  PROVE  /\ Same(i, UpdateVisible(i, vis)) /\ UpdateVisible(i, vis).label = i.label
         /\ i.type # "section" => /\ UpdateVisible(i, vis).hidden = ~vis
                                  /\ UpdateVisible(i, vis).toggled = i.toggled
         /\ i.type = "section" => /\ UpdateVisible(i, vis).hidden = i.hidden
                                  /\ UpdateVisible(i, vis).toggled = ~vis
BY DEF UpdateVisible, Same, Links, IsEntry

\* Toggled is as it was, since only sections look at it.
LEMMA UpdateEnabledToggled ==
  ASSUME NEW i, IsEntry(i), NEW enabled, i.type = "section"
  PROVE  update_enabled(i, enabled).toggled = i.toggled
BY DEF update_enabled, IsEntry

LEMMA UpdatePropsFacts ==
  ASSUME NEW i, IsEntry(i), NEW props
  PROVE  LET j == update_props(i, props) IN
         /\ Same(i, j) /\ j.label = LabelAfter(i, props)
         /\ i.type # "section" => j.hidden = HiddenAfter(i, props)
         /\ i.type = "section" => j.hidden = i.hidden /\ j.toggled = ToggledAfter(i, props)
<1>1. PICK a : a = IF "enabled" \in DOMAIN props THEN update_enabled(i, props["enabled"]) ELSE i
  OBVIOUS
<1>2. PICK b : b = IF "label" \in DOMAIN props THEN [a EXCEPT !.label = props["label"]] ELSE a
  OBVIOUS
<1>3. PICK c : c = IF "toggle-state" \in DOMAIN props
                   THEN [b EXCEPT !.toggled = props["toggle-state"]] ELSE b
  OBVIOUS
<1>4. PICK d : d = IF "visible" \in DOMAIN props THEN UpdateVisible(c, props["visible"]) ELSE c
  OBVIOUS
<1>5. update_props(i, props) = d
  BY <1>1, <1>2, <1>3, <1>4 DEF update_props
<1>6. Same(i, i) /\ Looks(i, i)
  BY DEF Same, Looks
<1>7. Same(i, a) /\ Looks(i, a) /\ (i.type = "section" => a.toggled = i.toggled)
  BY <1>1, <1>6, UpdateEnabledFacts, UpdateEnabledToggled
<1>8. /\ IsEntry(b) /\ b.id = a.id /\ b.type = a.type /\ b.submenu = a.submenu
      /\ b.disabled_submenu = a.disabled_submenu /\ b.toggled = a.toggled /\ b.hidden = a.hidden
      /\ b.label = IF "label" \in DOMAIN props THEN props["label"] ELSE a.label
  BY <1>2, <1>7 DEF Same, IsEntry
<1>9. /\ IsEntry(c) /\ c.id = b.id /\ c.type = b.type /\ c.submenu = b.submenu
      /\ c.disabled_submenu = b.disabled_submenu /\ c.label = b.label /\ c.hidden = b.hidden
      /\ c.toggled = IF "toggle-state" \in DOMAIN props THEN props["toggle-state"] ELSE b.toggled
  BY <1>3, <1>8 DEF IsEntry
<1>10. Same(i, c)
  BY <1>7, <1>8, <1>9 DEF Same, Links
<1>11. c.label = LabelAfter(i, props) /\ c.hidden = i.hidden
  BY <1>7, <1>8, <1>9 DEF LabelAfter, Looks
<1>12. CASE "visible" \notin DOMAIN props
  BY <1>4, <1>5, <1>7, <1>8, <1>9, <1>10, <1>11, <1>12 DEF Same, HiddenAfter, ToggledAfter
<1>13. CASE "visible" \in DOMAIN props
  <2>1. PICK v : v = props["visible"]
    OBVIOUS
  <2>2. d = UpdateVisible(c, v)
    BY <1>4, <1>13, <2>1
  <2>3. /\ Same(c, d) /\ d.label = c.label
        /\ c.type # "section" => d.hidden = ~v
        /\ c.type = "section" => d.hidden = c.hidden /\ d.toggled = ~v
    BY <1>9, <2>2, UpdateVisibleFacts
  <2>4. Same(i, d)
    BY <1>10, <2>3 DEF Same
  <2>5. c.type = i.type
    BY <1>10 DEF Same
  <2>6. QED BY <1>5, <1>11, <1>13, <2>1, <2>3, <2>4, <2>5 DEF HiddenAfter, ToggledAfter
<1>14. QED BY <1>12, <1>13

\* An entry that is made of a child of a layout.
LEMMA NewFacts ==
  ASSUME NEW child
  PROVE  LET i == dbus_menu_item_new(child) IN
         /\ IsEntry(i) /\ i.id = child.id /\ i.type = child.type /\ Links(i) = {}
         /\ i.label = LabelOf(child.props)
         /\ i.type # "section" => i.hidden = IsHidden(child.props)
         /\ i.type = "section" /\ "toggle-state" \notin DOMAIN child.props
              => i.toggled = IsHidden(child.props)
<1>1. PICK n : n = [id |-> child.id, type |-> child.type, enabled |-> TRUE, toggled |-> FALSE,
                label |-> "", hidden |-> FALSE,
                action |-> IF child.type \in {"section", "submenu"} THEN "none" ELSE "own",
                submenu |-> NoMenu, disabled_submenu |-> NoMenu,
                gen |-> 0, preload |-> FALSE]
  OBVIOUS
<1>2. dbus_menu_item_new(child) = update_props(n, child.props)
  BY <1>1 DEF dbus_menu_item_new
<1>3. PICK props : props = child.props
  OBVIOUS
<1>4. /\ IsEntry(n) /\ n.id = child.id /\ n.type = child.type /\ n.label = "" /\ n.hidden = FALSE
      /\ n.toggled = FALSE /\ n.submenu = NoMenu /\ n.disabled_submenu = NoMenu
  BY <1>1 DEF IsEntry
<1>5. Links(n) = {}
  BY <1>4 DEF Links
<1>6. PICK i : i = update_props(n, props)
  OBVIOUS
<1>7. /\ Same(n, i) /\ i.label = LabelAfter(n, props)
      /\ n.type # "section" => i.hidden = HiddenAfter(n, props)
      /\ n.type = "section" => i.hidden = n.hidden /\ i.toggled = ToggledAfter(n, props)
  BY <1>4, <1>6, UpdatePropsFacts
<1>8. IsEntry(i) /\ i.id = child.id /\ i.type = child.type /\ Links(i) = {}
  BY <1>4, <1>5, <1>7 DEF Same
<1>9. LabelAfter(n, props) = LabelOf(props) /\ HiddenAfter(n, props) = IsHidden(props)
  BY <1>4 DEF LabelAfter, HiddenAfter, LabelOf, IsHidden
<1>10. n.type = "section" /\ "toggle-state" \notin DOMAIN props
         => ToggledAfter(n, props) = IsHidden(props)
  BY <1>4 DEF ToggledAfter, IsHidden
<1>11. QED BY <1>2, <1>3, <1>4, <1>6, <1>7, <1>8, <1>9, <1>10

\* What is the same of an entry whatever its action, its flags and its links are.
SameLook(i, j) ==
  /\ IsEntry(j) /\ j.id = i.id /\ j.type = i.type /\ Looks(i, j)

LEMMA GenerateFacts ==
  ASSUME NEW group_, NEW i, IsEntry(i)
  PROVE  LET j == generate_action(group_, i).item IN SameLook(i, j) /\ Links(j) = Links(i)
<1>1. PICK x : x = LET name == Name(i.id, i.type)
                       made == action_reference(group_, i.id, i.type, Submenu(i))
                   IN IF name \in DOMAIN made THEN made[name].gen ELSE 0
  OBVIOUS
<1>2. generate_action(group_, i).item = [i EXCEPT !.gen = x]
  BY <1>1 DEF generate_action
<1>3. PICK j : j = [i EXCEPT !.gen = x]
  OBVIOUS
<1>4. /\ IsEntry(j) /\ j.id = i.id /\ j.type = i.type /\ j.label = i.label /\ j.hidden = i.hidden
      /\ j.submenu = i.submenu /\ j.disabled_submenu = i.disabled_submenu
  BY <1>3 DEF IsEntry
<1>5. QED BY <1>2, <1>3, <1>4 DEF SameLook, Looks, Links

LEMMA WithSubmenuFacts ==
  ASSUME NEW i, IsEntry(i), Links(i) = {}, NEW m
  PROVE  SameLook(i, WithSubmenu(i, m)) /\ Links(WithSubmenu(i, m)) \subseteq {m}
<1>1. PICK j : j = IF i.enabled THEN [i EXCEPT !.submenu = m] ELSE [i EXCEPT !.disabled_submenu = m]
  OBVIOUS
<1>2. i.submenu = NoMenu /\ i.disabled_submenu = NoMenu
  BY DEF Links
<1>3. /\ IsEntry(j) /\ j.id = i.id /\ j.type = i.type /\ j.label = i.label /\ j.hidden = i.hidden
      /\ j.submenu \in {m, NoMenu} /\ j.disabled_submenu \in {m, NoMenu}
  BY <1>1, <1>2 DEF IsEntry
<1>4. QED BY <1>1, <1>3 DEF SameLook, Looks, Links, WithSubmenu

\* c is a copy of i, and its models: none, or m, for which the models become `given`.
Copied(i, c, m, ms, given) ==
  /\ SameLook(i, c.item)
  /\ \/ Links(c.item) = {} /\ c.menus = ms
     \/ Links(c.item) \subseteq {m} /\ c.menus = given

WithNew(ms, m, id) == [ms EXCEPT ![m] = NewMenu(id)]

\* An entry behind the others gets a new model, if it opens a submenu.
LEMMA CopyAppendedFacts ==
  ASSUME NEW menus_, NEW i, IsEntry(i), Links(i) = {}, NEW m,
         NEW c, c = copy_submenu(menus_, {}, i, m),
         NEW given, given = WithNew(menus_, m, i.id)
  PROVE  Copied(i, c, m, menus_, given)
<1>1. CASE i.type # "submenu"
  BY <1>1 DEF copy_submenu, SameLook, Looks, Copied
<1>2. CASE i.type = "submenu"
  <2>1. PICK j : j = IF i.toggled THEN [i EXCEPT !.enabled = TRUE] ELSE i
    OBVIOUS
  <2>2. /\ IsEntry(j) /\ j.id = i.id /\ j.type = i.type /\ j.label = i.label /\ j.hidden = i.hidden
        /\ j.submenu = i.submenu /\ j.disabled_submenu = i.disabled_submenu
    BY <2>1 DEF IsEntry
  <2>3. Links(j) = {}
    BY <2>2 DEF Links
  <2>4. SameLook(j, WithSubmenu(j, m)) /\ Links(WithSubmenu(j, m)) \subseteq {m}
    BY <2>2, <2>3, WithSubmenuFacts
  <2>5. copy_submenu(menus_, {}, i, m) =
          [item |-> WithSubmenu(j, m), menus |-> WithNew(menus_, m, i.id)]
    BY <1>2, <2>1, <2>2 DEF copy_submenu, WithNew
  <2>6. SameLook(i, WithSubmenu(j, m))
    BY <2>2, <2>4 DEF SameLook, Looks
  <2>7. PICK w : w = WithSubmenu(j, m)
    OBVIOUS
  <2>8. c = [item |-> w, menus |-> given]
    BY <2>5, <2>7
  <2>9. SameLook(i, w) /\ Links(w) \subseteq {m}
    BY <2>4, <2>6, <2>7
  <2>10. c.item = w /\ c.menus = given
    BY <2>8
  <2>11. QED BY <2>9, <2>10 DEF Copied
<1>3. QED BY <1>1, <1>2

\* One in the place of another inherits its model, if both open submenus.
LEMMA CopyPlacedFacts ==
  ASSUME NEW menus_, NEW old, NEW i, IsEntry(i), Links(i) = {}, NEW m,
         NEW c, c = copy_submenu(menus_, {old}, i, m),
         NEW its, its = Submenu(old), NEW given, given = inherit(menus_, its, i.id)
  PROVE  Copied(i, c, its, menus_, given)
<1>1. CASE i.type # "submenu" \/ old.type # "submenu"
  <2>1. (CHOOSE s \in {old} : TRUE) = old
    OBVIOUS
  <2>2. copy_submenu(menus_, {old}, i, m) = [item |-> i, menus |-> menus_]
    BY <1>1, <2>1 DEF copy_submenu
  <2>3. QED BY <2>2 DEF SameLook, Looks, Copied
<1>2. CASE i.type = "submenu" /\ old.type = "submenu"
  <2>1. PICK j : j = IF old.toggled \/ i.toggled THEN [i EXCEPT !.enabled = TRUE, !.toggled = TRUE]
                     ELSE i
    OBVIOUS
  <2>2. /\ IsEntry(j) /\ j.id = i.id /\ j.type = i.type /\ j.label = i.label /\ j.hidden = i.hidden
        /\ j.submenu = i.submenu /\ j.disabled_submenu = i.disabled_submenu
    BY <2>1 DEF IsEntry
  <2>3. Links(j) = {}
    BY <2>2 DEF Links
  <2>4. PICK n : n = Submenu(old)
    OBVIOUS
  <2>5. SameLook(j, WithSubmenu(j, n)) /\ Links(WithSubmenu(j, n)) \subseteq {n}
    BY <2>2, <2>3, WithSubmenuFacts
  <2>6. (CHOOSE s \in {old} : TRUE) = old /\ {old} # {}
    OBVIOUS
  <2>7. copy_submenu(menus_, {old}, i, m) =
          [item |-> WithSubmenu(j, n), menus |-> inherit(menus_, n, i.id)]
    BY <1>2, <2>1, <2>2, <2>4, <2>6 DEF copy_submenu
  <2>8. SameLook(i, WithSubmenu(j, n))
    BY <2>2, <2>5 DEF SameLook, Looks
  <2>9. c.item = WithSubmenu(j, n) /\ c.menus = given /\ n = its
    BY <2>4, <2>7
  <2>10. QED BY <2>5, <2>8, <2>9 DEF Copied
<1>3. QED BY <1>1, <1>2

Loaded(i, c, made) ==
  /\ SameLook(i, made.item) /\ Links(made.item) \subseteq Links(c.item)
  /\ made.menus = c.menus

\* The entry that menu_item_copy_and_load makes is the copied one, marked.
LEMMA LoadFacts ==
  ASSUME NEW menus_, NEW group_, NEW src, NEW i, NEW m,
         NEW c, c = copy_submenu(menus_, src, i, m), SameLook(i, c.item),
         NEW made, made = menu_item_copy_and_load(menus_, group_, src, i, m)
  PROVE  Loaded(i, c, made)
<1>3. PICK g : g = generate_action(group_, c.item).item
  OBVIOUS
<1>4. SameLook(c.item, g) /\ Links(g) = Links(c.item)
  BY <1>3, GenerateFacts DEF SameLook
<1>5. PICK e : e = update_enabled(g, TRUE)
  OBVIOUS
<1>6. Same(g, e) /\ Looks(g, e)
  BY <1>4, <1>5, UpdateEnabledFacts DEF SameLook
<1>7. PICK f : f = [e EXCEPT !.toggled = TRUE, !.preload = (i.type = "submenu")]
  OBVIOUS
<1>8. /\ IsEntry(f) /\ f.id = e.id /\ f.type = e.type /\ f.label = e.label /\ f.hidden = e.hidden
      /\ f.submenu = e.submenu /\ f.disabled_submenu = e.disabled_submenu
  BY <1>6, <1>7 DEF Same, IsEntry
<1>9. made.item = f /\ made.menus = c.menus
  BY <1>3, <1>5, <1>7 DEF menu_item_copy_and_load
<1>10. SameLook(i, f)
  BY <1>4, <1>6, <1>8 DEF SameLook, Looks, Same
<1>11. Links(f) = Links(e)
  BY <1>8 DEF Links
<1>12. QED BY <1>4, <1>6, <1>9, <1>10, <1>11 DEF Same, Loaded

-----------------------------------------------------------------------------
(* The sections of the copy                                                *)

IsSeq(s) == \E S : s \in Seq(S)

LEMMA SeqFacts ==
  ASSUME NEW s, IsSeq(s)
  PROVE  /\ Len(s) \in Nat /\ DOMAIN s = 1..Len(s)
         /\ (s = <<>>) <=> (Len(s) = 0)
<1>1. PICK S : s \in Seq(S)
  BY DEF IsSeq
<1>2. QED BY <1>1

LEMMA AppendAny ==
  ASSUME NEW s, IsSeq(s), NEW e
  PROVE  /\ IsSeq(Append(s, e)) /\ Len(Append(s, e)) = Len(s) + 1
         /\ Append(s, e)[Len(s) + 1] = e
         /\ \A k \in 1..Len(s) : Append(s, e)[k] = s[k]
<1>1. PICK S : s \in Seq(S)
  BY DEF IsSeq
<1>2. PICK T : T = S \cup {e}
  OBVIOUS
<1>3. s \in Seq(T)
  BY <1>1, <1>2
<1>4. PICK u : u = Append(s, e)
  OBVIOUS
<1>5. u \in Seq(T) /\ Len(u) = Len(s) + 1 /\ u[Len(s) + 1] = e /\ \A k \in 1..Len(s) : u[k] = s[k]
  BY <1>2, <1>3, <1>4
<1>6. QED BY <1>4, <1>5 DEF IsSeq

LEMMA FrontAny ==
  ASSUME NEW s, IsSeq(s), NEW n \in 0..Len(s)
  PROVE  /\ IsSeq(SubSeq(s, 1, n)) /\ Len(SubSeq(s, 1, n)) = n
         /\ \A k \in 1..n : SubSeq(s, 1, n)[k] = s[k]
<1>1. PICK S : s \in Seq(S)
  BY DEF IsSeq
<1>2. PICK u : u = SubSeq(s, 1, n)
  OBVIOUS
<1>3. u \in Seq(S) /\ Len(u) = n /\ \A k \in 1..n : u[k] = s[k]
  BY <1>1, <1>2
<1>4. QED BY <1>2, <1>3 DEF IsSeq

\* t is s with e in the place q.
Replaced(s, q, e, t) ==
  /\ IsSeq(t) /\ Len(t) = Len(s) /\ t[q] = e
  /\ \A k \in 1..Len(s) : k # q => t[k] = s[k]

LEMMA SetAny ==
  ASSUME NEW s, IsSeq(s), NEW q \in 1..Len(s), NEW e, NEW t, t = [s EXCEPT ![q] = e]
  PROVE  Replaced(s, q, e, t)
<1>1. PICK S : s \in Seq(S)
  BY DEF IsSeq
<1>2. PICK T : T = S \cup {e}
  OBVIOUS
<1>3. s \in Seq(T)
  BY <1>1, <1>2
<1>5. t \in Seq(T) /\ Len(t) = Len(s)
  BY <1>2, <1>3
<1>6. t[q] = e /\ \A k \in 1..Len(s) : k # q => t[k] = s[k]
  BY <1>3
<1>7. QED BY <1>5, <1>6 DEF IsSeq, Replaced

IsItems(items) == IsSeq(items) /\ \A k \in 1..Len(items) : IsEntry(items[k])

IsSections(sections) ==
  /\ IsSeq(sections)
  /\ \A k \in 1..Len(sections) : "items" \in DOMAIN sections[k] /\ IsItems(sections[k].items)

\* The sections t are ss, with other items in the section q.
Put(ss, q, items, t) ==
  /\ Len(t) = Len(ss) /\ t[q].items = items
  /\ \A k \in 1..Len(ss) : k # q => t[k] = ss[k]

LEMMA PutFacts ==
  ASSUME NEW ss, IsSections(ss), NEW q \in 1..Len(ss), NEW items, IsItems(items),
         NEW t, t = [ss EXCEPT ![q].items = items]
  PROVE  IsSections(t) /\ Put(ss, q, items, t)
<1>1. PICK s : s = ss[q]
  OBVIOUS
<1>2. "items" \in DOMAIN s
  BY <1>1 DEF IsSections
<1>3. PICK e : e = [s EXCEPT !.items = items]
  OBVIOUS
<1>4. e.items = items /\ DOMAIN e = DOMAIN s
  BY <1>2, <1>3
<1>5. t = [ss EXCEPT ![q] = e]
  BY <1>1, <1>3
<1>6. IsSeq(t) /\ Len(t) = Len(ss) /\ t[q] = e /\ \A k \in 1..Len(ss) : k # q => t[k] = ss[k]
  <2>1. IsSeq(ss)
    BY DEF IsSections
  <2>2. Replaced(ss, q, e, t)
    BY <1>5, <2>1, SetAny
  <2>3. QED BY <2>2 DEF Replaced
<1>7. IsSections(t)
  BY <1>2, <1>4, <1>6 DEF IsSections
<1>8. QED BY <1>4, <1>6, <1>7 DEF Put

-----------------------------------------------------------------------------
(* layout_parse, child by child                                            *)

ParseFields ==
  {"sections", "n", "at", "added", "change", "border", "queue", "old", "menus", "group"}

\* What layout_parse has between two children: it is in a section that is there
\* and not behind its end, nothing was put in the section since a separator just
\* at its beginning, and only a section that is new and the last is empty.
InPlace(p) ==
  /\ DOMAIN p = ParseFields
  /\ IsSections(p.sections)
  /\ p.n \in Nat /\ p.n + 1 \in 1..Len(p.sections)
  /\ p.at \in 0..Len(p.sections[p.n + 1].items)
  /\ p.border \in BOOLEAN /\ (p.border <=> p.at = 0)
  /\ \A k \in 1..Len(p.sections) :
       p.sections[k].items = <<>> => k = p.n + 1 /\ k = Len(p.sections)

\* What the three kinds of children do.
Separated(p, u) ==
  LET q == p.n + 1 IN
  /\ DOMAIN u = ParseFields /\ IsSections(u.sections)
  /\ u.n = q /\ u.at = 0 /\ u.border = TRUE /\ u.menus = p.menus
  /\ q < Len(p.sections) => Len(u.sections) = Len(p.sections)
  /\ q = Len(p.sections) => Len(u.sections) = q + 1 /\ u.sections[q + 1].items = <<>>
  /\ u.sections[q].items = SubSeq(p.sections[q].items, 1, p.at)
  /\ \A k \in 1..Len(p.sections) : k # q => u.sections[k] = p.sections[k]

Moved(p, u) ==
  /\ DOMAIN u = ParseFields /\ IsSections(u.sections)
  /\ u.n = p.n /\ u.at = p.at + 1 /\ u.border = FALSE

Appended(p, u, e) ==
  /\ Moved(p, u)
  /\ Put(p.sections, p.n + 1, Append(p.sections[p.n + 1].items, e), u.sections)

Placed(p, u, e) ==
  /\ Moved(p, u)
  /\ \E items : /\ Replaced(p.sections[p.n + 1].items, p.at + 1, e, items)
                /\ Put(p.sections, p.n + 1, items, u.sections)

\* The models of the entry e, which is made of the child `id`: none, or one that
\* was given to it.
GivenModel(m, ms, id, p, u, e) ==
  \/ Links(e) = {} /\ u.menus = p.menus
  \/ Links(e) \subseteq {m} /\ u.menus = ms

LEMMA CurrentFacts ==
  ASSUME NEW p, InPlace(p)
  PROVE  /\ IsItems(p.sections[p.n + 1].items) /\ IsSeq(p.sections)
         /\ p.n + 1 \in Nat /\ p.n + 1 <= Len(p.sections) /\ Len(p.sections) \in Nat
         /\ Len(p.sections[p.n + 1].items) \in Nat /\ p.at \in Nat
<1>1. IsSeq(p.sections) /\ IsItems(p.sections[p.n + 1].items)
  BY DEF InPlace, IsSections
<1>2. PICK s : s = p.sections
  OBVIOUS
<1>3. PICK q : q = p.n + 1
  OBVIOUS
<1>4. PICK items : items = s[q].items
  OBVIOUS
<1>5. Len(s) \in Nat /\ Len(items) \in Nat
  BY <1>1, <1>2, <1>3, <1>4, SeqFacts DEF IsItems
<1>6. q \in 1..Len(s) /\ p.at \in 0..Len(items)
  BY <1>2, <1>3, <1>4 DEF InPlace
<1>7. QED BY <1>1, <1>2, <1>3, <1>4, <1>5, <1>6

LEMMA FrontItems ==
  ASSUME NEW items, IsItems(items), NEW n \in 0..Len(items)
  PROVE  IsItems(SubSeq(items, 1, n)) /\ Len(SubSeq(items, 1, n)) = n
<1>1. IsSeq(items) /\ Len(items) \in Nat
  BY SeqFacts DEF IsItems
<1>2. PICK u : u = SubSeq(items, 1, n)
  OBVIOUS
<1>3. IsSeq(u) /\ Len(u) = n /\ \A k \in 1..n : u[k] = items[k]
  BY <1>1, <1>2, FrontAny
<1>4. \A k \in 1..n : k \in 1..Len(items)
  BY <1>1
<1>5. QED BY <1>2, <1>3, <1>4 DEF IsItems

LEMMA AppendItems ==
  ASSUME NEW items, IsItems(items), NEW e, IsEntry(e)
  PROVE  IsItems(Append(items, e))
<1>1. IsSeq(items) /\ Len(items) \in Nat
  BY SeqFacts DEF IsItems
<1>2. PICK u : u = Append(items, e)
  OBVIOUS
<1>3. IsSeq(u) /\ Len(u) = Len(items) + 1 /\ u[Len(items) + 1] = e
      /\ \A k \in 1..Len(items) : u[k] = items[k]
  BY <1>1, <1>2, AppendAny
<1>4. \A k \in 1..Len(items) + 1 : k \in 1..Len(items) \/ k = Len(items) + 1
  BY <1>1
<1>5. QED BY <1>2, <1>3, <1>4 DEF IsItems

LEMMA ReplacedItems ==
  ASSUME NEW items, IsItems(items), NEW q \in 1..Len(items), NEW e, IsEntry(e), NEW t,
         Replaced(items, q, e, t)
  PROVE  IsItems(t)
BY DEF IsItems, Replaced

LEMMA SeparatorStep ==
  ASSUME NEW p, InPlace(p), NEW child, NEW freed
  PROVE  LET u == ParseSeparator(p, child, freed) IN
         IF dbus_menu_item_new(child).toggled \/ p.border THEN u = p ELSE Separated(p, u)
<1>1. CASE dbus_menu_item_new(child).toggled \/ p.border
  BY <1>1 DEF ParseSeparator
<1>2. CASE ~(dbus_menu_item_new(child).toggled \/ p.border)
  <2>1. PICK s : s = p.sections
    OBVIOUS
  <2>2. PICK q : q = p.n + 1
    OBVIOUS
  <2>3. PICK items : items = s[q].items
    OBVIOUS
  <2>4. /\ IsItems(items) /\ IsSections(s) /\ q \in 1..Len(s) /\ Len(s) \in Nat
        /\ p.at \in 0..Len(items)
    BY <2>1, <2>2, <2>3, CurrentFacts DEF InPlace
  <2>5. items # <<>>
    <3>1. p.at # 0
      BY <1>2 DEF InPlace
    <3>2. IsSeq(items)
      BY <2>4 DEF IsItems
    <3>3. QED BY <2>4, <3>1, <3>2, SeqFacts
  <2>6. PICK front : front = SubSeq(items, 1, p.at)
    OBVIOUS
  <2>7. IsItems(front)
    BY <2>4, <2>6, FrontItems
  <2>8. PICK cut : cut = [s EXCEPT ![q].items = front]
    OBVIOUS
  <2>9. IsSections(cut) /\ Put(s, q, front, cut)
    BY <2>4, <2>7, <2>8, PutFacts
  <2>10. PICK empty : empty = [sid |-> UnusedSid(p), items |-> <<>>]
    OBVIOUS
  <2>11. PICK longer : longer = Append(cut, empty)
    OBVIOUS
  <2>12. PICK u : u = ParseSeparator(p, child, freed)
    OBVIOUS
  <2>13. /\ u.sections = IF q < Len(cut) THEN cut ELSE longer
         /\ DOMAIN u = ParseFields /\ u.n = q /\ u.at = 0 /\ u.border = TRUE /\ u.menus = p.menus
    <3>1. DOMAIN p = ParseFields
      BY DEF InPlace
    <3>2. QED BY <1>2, <2>1, <2>2, <2>3, <2>5, <2>6, <2>8, <2>10, <2>11, <2>12, <3>1
              DEF ParseSeparator, ParseFields
  <2>14. Len(cut) = Len(s) /\ IsSeq(cut)
    BY <2>9 DEF Put, IsSections
  <2>15. CASE q < Len(cut)
    <3>1. u.sections = cut
      BY <2>13, <2>15
    <3>2. Len(u.sections) = Len(s) /\ q < Len(s) /\ ~(q = Len(s))
      BY <2>4, <2>14, <2>15, <3>1
    <3>3. IsSections(u.sections) /\ u.sections[q].items = SubSeq(s[q].items, 1, p.at)
          /\ \A k \in 1..Len(s) : k # q => u.sections[k] = s[k]
      BY <2>3, <2>4, <2>6, <2>9, <3>1 DEF Put
    <3> HIDE DEF ParseFields
    <3>4. Separated(p, u)
      BY <2>1, <2>2, <2>13, <3>2, <3>3 DEF Separated
    <3>5. QED BY <1>2, <2>12, <3>4
  <2>16. CASE ~(q < Len(cut))
    <3>1. u.sections = longer /\ q = Len(s)
      BY <2>4, <2>13, <2>14, <2>16
    <3>2. /\ IsSeq(longer) /\ Len(longer) = Len(s) + 1 /\ longer[Len(s) + 1] = empty
          /\ \A k \in 1..Len(s) : longer[k] = cut[k]
      BY <2>11, <2>14, AppendAny
    <3>3. "items" \in DOMAIN empty /\ empty.items = <<>> /\ IsItems(<<>>)
      <4>1. <<>> \in Seq({}) /\ Len(<<>>) = 0
        OBVIOUS
      <4>2. QED BY <2>10, <4>1 DEF IsItems, IsSeq
    <3>4. \A k \in 1..Len(s) + 1 : k \in 1..Len(s) \/ k = Len(s) + 1
      BY <2>4
    <3>5. IsSections(longer)
      BY <2>9, <2>14, <3>2, <3>3, <3>4 DEF IsSections
    <3>6. longer[q].items = front /\ \A k \in 1..Len(s) : k # q => longer[k] = s[k]
      BY <2>4, <2>9, <3>2 DEF Put
    <3>7. Len(u.sections) = q + 1 /\ u.sections[q + 1].items = <<>> /\ q = Len(s) /\ ~(q < Len(s))
      BY <2>4, <3>1, <3>2, <3>3
    <3>8. IsSections(u.sections) /\ u.sections[q].items = SubSeq(s[q].items, 1, p.at)
          /\ \A k \in 1..Len(s) : k # q => u.sections[k] = s[k]
      BY <2>3, <2>6, <3>1, <3>5, <3>6
    <3> HIDE DEF ParseFields
    <3>9. Separated(p, u)
      BY <2>1, <2>2, <2>13, <3>7, <3>8 DEF Separated
    <3>10. QED BY <1>2, <2>12, <3>9
  <2>17. QED BY <2>15, <2>16
<1>3. QED BY <1>1, <1>2

LEMMA MovedSections ==
  ASSUME NEW p, InPlace(p), NEW items, IsItems(items), NEW u, DOMAIN u = ParseFields,
         u.sections = [p.sections EXCEPT ![p.n + 1].items = items],
         u.n = p.n, u.at = p.at + 1, u.border = FALSE
  PROVE  Moved(p, u) /\ Put(p.sections, p.n + 1, items, u.sections)
<1>1. PICK s : s = p.sections
  OBVIOUS
<1>2. PICK q : q = p.n + 1
  OBVIOUS
<1>3. IsSections(s) /\ q \in 1..Len(s)
  BY <1>1, <1>2 DEF InPlace
<1>4. PICK t : t = [s EXCEPT ![q].items = items]
  OBVIOUS
<1>5. IsSections(t) /\ Put(s, q, items, t)
  BY <1>3, <1>4, PutFacts
<1>6. u.sections = t
  BY <1>1, <1>2, <1>4
<1>7. QED BY <1>1, <1>2, <1>5, <1>6 DEF Moved

\* The entry that is appended.
AppendedEntry(p, u, e, new) ==
  /\ Appended(p, u, e) /\ SameLook(new, e)
  /\ GivenModel(Fresh(p), WithNew(p.menus, Fresh(p), new.id), new.id, p, u, e)

LEMMA AppendedStep ==
  ASSUME NEW p, InPlace(p), NEW new, IsEntry(new), Links(new) = {},
         p.at = Len(p.sections[p.n + 1].items)
  PROVE  \E e : AppendedEntry(p, ParseAppended(p, new), e, new)
<1>1. PICK m, ms, g : m = Fresh(p) /\ ms = p.menus /\ g = p.group
  OBVIOUS
<1>2. PICK c, given : /\ c = copy_submenu(ms, {}, new, m)
                      /\ given = WithNew(ms, m, new.id)
  OBVIOUS
<1>3. Copied(new, c, m, ms, given)
  BY <1>2, CopyAppendedFacts
<1>4. PICK made : made = menu_item_copy_and_load(ms, g, {}, new, m)
  OBVIOUS
<1>5. Loaded(new, c, made)
  BY <1>2, <1>3, <1>4, LoadFacts DEF Copied
<1>6. PICK e : e = made.item
  OBVIOUS
<1>7. PICK items : items = Append(p.sections[p.n + 1].items, e)
  OBVIOUS
<1>8. IsItems(items)
  BY <1>5, <1>6, <1>7, CurrentFacts, AppendItems DEF SameLook, Loaded
<1>9. PICK u : u = ParseAppended(p, new)
  OBVIOUS
<1>10. /\ u.sections = [p.sections EXCEPT ![p.n + 1].items = items]
       /\ DOMAIN u = ParseFields /\ u.n = p.n /\ u.at = p.at + 1 /\ u.border = FALSE
       /\ u.menus = made.menus
  <2>1. DOMAIN p = ParseFields
    BY DEF InPlace
  <2>2. u = [p EXCEPT !.sections[p.n + 1].items = Append(@, made.item),
               !.change = IF p.added = 0 /\ @ < 0 THEN p.at ELSE @,
               !.menus = made.menus, !.group = made.group,
               !.at = @ + 1, !.added = @ + 1, !.border = FALSE]
    BY <1>1, <1>4, <1>9 DEF ParseAppended
  <2>3. QED BY <1>6, <1>7, <2>1, <2>2 DEF ParseFields
<1>11. Moved(p, u) /\ Put(p.sections, p.n + 1, items, u.sections)
  BY <1>8, <1>10, MovedSections
<1>12. Appended(p, u, e)
  BY <1>7, <1>11 DEF Appended
<1>13. GivenModel(m, WithNew(p.menus, m, new.id), new.id, p, u, e)
  BY <1>1, <1>2, <1>3, <1>5, <1>6, <1>10 DEF GivenModel, Copied, Loaded
<1>14. QED BY <1>1, <1>5, <1>6, <1>9, <1>12, <1>13 DEF AppendedEntry, Loaded

\* The entry that takes the place of another: the old one with the properties
\* of the child, or a new one.
PlacedEntry(p, u, e, new, props) ==
  LET old == p.sections[p.n + 1].items[p.at + 1] IN
  /\ Placed(p, u, e)
  /\ IF compare_immutable(old, new)
     THEN /\ Same(old, e) /\ u.menus = p.menus /\ e.label = LabelAfter(old, props)
          /\ old.type # "section" => e.hidden = HiddenAfter(old, props)
     ELSE /\ SameLook(new, e)
          /\ \E m : /\ m \in Links(old) \cup {NoMenu}
                    /\ GivenModel(m, inherit(p.menus, m, new.id), new.id, p, u, e)

\* ParsePlaced, of the values it computes.
PlacedWith(p, diff, made, up, g, told) ==
  [p EXCEPT !.sections[p.n + 1].items[p.at + 1] = IF diff THEN made.item ELSE up,
            !.menus = IF diff THEN made.menus ELSE @,
            !.group = IF diff THEN made.group ELSE g,
            !.queue = IF told THEN add_signal_to_queue(@, p.sections[p.n + 1].sid, p.at, 1, 1)
                      ELSE @,
            !.at = @ + 1, !.border = FALSE]

LEMMA PlacedIs ==
  ASSUME NEW p, NEW new, NEW props
  PROVE  LET old == p.sections[p.n + 1].items[p.at + 1]
             up == update_props(old, props)
             g == ActionAfter(p.group, up, props)
             diff == ~compare_immutable(old, new)
         IN ParsePlaced(p, new, props) =
              PlacedWith(p, diff, menu_item_copy_and_load(p.menus, g, {up}, new, NoMenu), up, g,
                         (diff \/ Attributes(up) # Attributes(old)) /\ p.n < p.old)
BY DEF ParsePlaced, PlacedWith

LEMMA PlacedStep ==
  ASSUME NEW p, InPlace(p), NEW new, IsEntry(new), Links(new) = {}, NEW props,
         p.at # Len(p.sections[p.n + 1].items)
  PROVE  \E e : PlacedEntry(p, ParsePlaced(p, new, props), e, new, props)
<1>1. PICK old : old = p.sections[p.n + 1].items[p.at + 1]
  OBVIOUS
<1>2. PICK items : items = p.sections[p.n + 1].items
  OBVIOUS
<1>3. p.at + 1 \in 1..Len(items) /\ IsItems(items) /\ IsSeq(items)
  <2>1. PICK l : l = Len(items)
    OBVIOUS
  <2>2. l \in Nat /\ p.at \in 0..l /\ p.at # l
    BY <1>2, <2>1, CurrentFacts DEF InPlace
  <2>3. p.at + 1 \in 1..l
    BY <2>2
  <2>4. QED BY <1>2, <2>1, <2>3, CurrentFacts DEF IsItems
<1>4. IsEntry(old)
  BY <1>1, <1>2, <1>3 DEF IsItems
<1>5. PICK up : up = update_props(old, props)
  OBVIOUS
<1>6. /\ Same(old, up) /\ up.label = LabelAfter(old, props)
      /\ old.type # "section" => up.hidden = HiddenAfter(old, props)
  BY <1>4, <1>5, UpdatePropsFacts
<1>7. PICK g : g = ActionAfter(p.group, up, props)
  OBVIOUS
<1>8. PICK ms, c : ms = p.menus /\ c = copy_submenu(ms, {up}, new, NoMenu)
  OBVIOUS
<1>9. PICK m, given : m = Submenu(up) /\ given = inherit(ms, m, new.id)
  OBVIOUS
<1>10. m \in Links(old) \cup {NoMenu}
  BY <1>6, <1>9 DEF Same, Links, Submenu
<1>11. Copied(new, c, m, ms, given)
  BY <1>8, <1>9, CopyPlacedFacts
<1>12. PICK made : made = menu_item_copy_and_load(ms, g, {up}, new, NoMenu)
  OBVIOUS
<1>13. Loaded(new, c, made)
  BY <1>8, <1>11, <1>12, LoadFacts DEF Copied
<1>14. PICK diff : diff = ~compare_immutable(old, new)
  OBVIOUS
<1>15. PICK e : e = IF diff THEN made.item ELSE up
  OBVIOUS
<1>16. IsEntry(e)
  BY <1>6, <1>13, <1>15 DEF Same, SameLook, Loaded
<1>17. PICK u : u = ParsePlaced(p, new, props)
  OBVIOUS
<1>18. PICK t : t = [items EXCEPT ![p.at + 1] = e]
  OBVIOUS
<1>19. Replaced(items, p.at + 1, e, t)
  BY <1>3, <1>18, SetAny
<1>20. IsItems(t)
  BY <1>3, <1>16, <1>19, ReplacedItems
<1>21. /\ u.sections = [p.sections EXCEPT ![p.n + 1].items = t]
       /\ DOMAIN u = ParseFields /\ u.n = p.n /\ u.at = p.at + 1 /\ u.border = FALSE
       /\ u.menus = IF diff THEN made.menus ELSE p.menus
  <2>1. DOMAIN p = ParseFields
    BY DEF InPlace
  <2>2. PICK told : told = ((diff \/ Attributes(up) # Attributes(old)) /\ p.n < p.old)
    OBVIOUS
  <2>3. u = PlacedWith(p, diff, made, up, g, told)
    BY <1>1, <1>5, <1>7, <1>8, <1>12, <1>14, <1>17, <2>2, PlacedIs
  <2>4. QED BY <1>2, <1>15, <1>18, <2>1, <2>3 DEF ParseFields, PlacedWith
<1>22. Moved(p, u) /\ Put(p.sections, p.n + 1, t, u.sections)
  BY <1>20, <1>21, MovedSections
<1>23. Placed(p, u, e)
  BY <1>2, <1>19, <1>22 DEF Placed
<1>24. CASE compare_immutable(old, new)
  <2>1. e = up /\ u.menus = p.menus
    BY <1>14, <1>15, <1>21, <1>24
  <2>2. QED BY <1>1, <1>6, <1>17, <1>23, <1>24, <2>1 DEF PlacedEntry
<1>25. CASE ~compare_immutable(old, new)
  <2>1. e = made.item /\ u.menus = made.menus
    BY <1>14, <1>15, <1>21, <1>25
  <2>2. GivenModel(m, inherit(p.menus, m, new.id), new.id, p, u, e)
    BY <1>8, <1>9, <1>11, <1>13, <2>1 DEF GivenModel, Copied, Loaded
  <2>3. QED BY <1>1, <1>10, <1>13, <1>17, <1>23, <1>25, <2>1, <2>2 DEF PlacedEntry, Loaded
<1>26. QED BY <1>24, <1>25


\* layout_parse keeps its place.
LEMMA SeparatedInPlace ==
  ASSUME NEW p, InPlace(p), ~p.border, NEW u, Separated(p, u)
  PROVE  InPlace(u)
<1>1. PICK s, t, q, items : s = p.sections /\ t = u.sections /\ q = p.n + 1 /\ items = s[q].items
  OBVIOUS
<1>2. /\ IsItems(items) /\ q \in Nat /\ q >= 1 /\ q <= Len(s) /\ Len(s) \in Nat
      /\ p.at \in 1..Len(items) /\ p.n \in Nat
  <2>1. p.at # 0 /\ p.n \in Nat /\ p.at \in 0..Len(items)
    BY <1>1 DEF InPlace
  <2>2. IsItems(items) /\ q <= Len(s) /\ Len(s) \in Nat /\ Len(items) \in Nat
    BY <1>1, CurrentFacts
  <2>3. QED BY <1>1, <2>1, <2>2
<1>3. PICK front : front = SubSeq(items, 1, p.at)
  OBVIOUS
<1>4. IsItems(front) /\ Len(front) = p.at
  <2>1. p.at \in 0..Len(items)
    BY <1>2
  <2>2. QED BY <1>2, <1>3, <2>1, FrontItems
<1>5. front # <<>>
  <2>1. IsSeq(front)
    BY <1>4 DEF IsItems
  <2>2. QED BY <1>2, <1>4, <2>1, SeqFacts
<1>6. /\ DOMAIN u = ParseFields /\ IsSections(t) /\ u.n = q /\ u.at = 0 /\ u.border = TRUE
      /\ q < Len(s) => Len(t) = Len(s)
      /\ q = Len(s) => Len(t) = q + 1 /\ t[q + 1].items = <<>>
      /\ t[q].items = front
      /\ \A k \in 1..Len(s) : k # q => t[k] = s[k]
  BY <1>1, <1>3 DEF Separated
<1>7. q + 1 \in 1..Len(t) /\ Len(t) \in Nat
  BY <1>2, <1>6
<1>8. IsItems(t[q + 1].items)
  BY <1>6, <1>7 DEF IsSections
<1>9. 0 \in 0..Len(t[q + 1].items)
  <2>1. Len(t[q + 1].items) \in Nat
    BY <1>8, SeqFacts DEF IsItems
  <2>2. QED BY <2>1
<1>10. ASSUME NEW k \in 1..Len(t), t[k].items = <<>> PROVE k = q + 1 /\ k = Len(t)
  <2>1. k # q
    BY <1>5, <1>6, <1>10
  <2>2. CASE k \in 1..Len(s)
    <3>1. s[k].items = <<>>
      BY <1>6, <1>10, <2>1, <2>2
    <3>2. k = q
      BY <1>1, <2>2, <3>1 DEF InPlace
    <3>3. QED BY <2>1, <3>2
  <2>3. CASE k \notin 1..Len(s)
    <3>1. q = Len(s) /\ Len(t) = q + 1
      BY <1>2, <1>6, <1>7, <1>10, <2>3
    <3>2. QED BY <1>2, <1>7, <1>10, <2>3, <3>1
  <2>4. QED BY <2>2, <2>3
<1>11. QED BY <1>1, <1>2, <1>6, <1>7, <1>9, <1>10 DEF InPlace

LEMMA MovedInPlace ==
  ASSUME NEW p, InPlace(p), NEW u, Moved(p, u), NEW items,
         IsItems(items), p.at + 1 \in 1..Len(items),
         Put(p.sections, p.n + 1, items, u.sections)
  PROVE  InPlace(u)
<1>1. PICK s, t, q : s = p.sections /\ t = u.sections /\ q = p.n + 1
  OBVIOUS
<1>2. /\ q \in 1..Len(s) /\ p.n \in Nat /\ p.at \in Nat
      /\ \A k \in 1..Len(s) : s[k].items = <<>> => k = q /\ k = Len(s)
  BY <1>1, CurrentFacts DEF InPlace
<1>3. /\ DOMAIN u = ParseFields /\ IsSections(t) /\ u.n = p.n /\ u.at = p.at + 1
      /\ u.border = FALSE
  BY <1>1 DEF Moved
<1>4. Len(t) = Len(s) /\ t[q].items = items /\ \A k \in 1..Len(s) : k # q => t[k] = s[k]
  BY <1>1 DEF Put
<1>5. items # <<>>
  <2>1. IsSeq(items) /\ Len(items) \in Nat
    BY SeqFacts DEF IsItems
  <2>2. Len(items) # 0
    BY <1>2, <2>1
  <2>3. QED BY <2>1, <2>2, SeqFacts
<1>6. p.at + 1 \in 0..Len(items) /\ p.at + 1 # 0
  BY <1>2
<1>7. QED BY <1>1, <1>2, <1>3, <1>4, <1>5, <1>6 DEF InPlace

LEMMA AppendedInPlace ==
  ASSUME NEW p, InPlace(p), p.at = Len(p.sections[p.n + 1].items), NEW e, IsEntry(e),
         NEW u, Appended(p, u, e)
  PROVE  InPlace(u)
<1>1. PICK items : items = p.sections[p.n + 1].items
  OBVIOUS
<1>2. IsItems(items) /\ Len(items) \in Nat
  BY <1>1, CurrentFacts
<1>3. PICK t : t = Append(items, e)
  OBVIOUS
<1>4. IsItems(t) /\ Len(t) = Len(items) + 1
  BY <1>2, <1>3, AppendItems, AppendAny DEF IsItems
<1>5. p.at + 1 \in 1..Len(t)
  BY <1>1, <1>2, <1>4
<1>6. Moved(p, u) /\ Put(p.sections, p.n + 1, t, u.sections)
  BY <1>1, <1>3 DEF Appended
<1>7. QED BY <1>4, <1>5, <1>6, MovedInPlace

LEMMA PlacedInPlace ==
  ASSUME NEW p, InPlace(p), p.at # Len(p.sections[p.n + 1].items), NEW e, IsEntry(e),
         NEW u, Placed(p, u, e)
  PROVE  InPlace(u)
<1>1. PICK items : items = p.sections[p.n + 1].items
  OBVIOUS
<1>2. IsItems(items) /\ Len(items) \in Nat
  BY <1>1, CurrentFacts
<1>3. PICK t : Replaced(items, p.at + 1, e, t) /\ Put(p.sections, p.n + 1, t, u.sections)
  BY <1>1 DEF Placed
<1>4. p.at + 1 \in 1..Len(items)
  <2>1. p.at \in 0..Len(items) /\ p.at # Len(items)
    BY <1>1 DEF InPlace
  <2>2. QED BY <1>2, <2>1
<1>5. IsItems(t) /\ Len(t) = Len(items)
  BY <1>2, <1>3, <1>4, ReplacedItems DEF Replaced
<1>6. Moved(p, u)
  BY DEF Placed
<1>7. QED BY <1>3, <1>4, <1>5, <1>6, MovedInPlace

-----------------------------------------------------------------------------
(* A child of the layout is a separator that is passed over, one that ends a *)
(* section, an entry behind the old ones or an entry in the place of one.    *)

Behind(p, u, new) ==
  /\ p.at = Len(p.sections[p.n + 1].items)
  /\ \E e : AppendedEntry(p, u, e, new)
InsteadOf(p, u, new, props) ==
  /\ p.at # Len(p.sections[p.n + 1].items)
  /\ \E e : PlacedEntry(p, u, e, new, props)

Passed(p, u, child) ==
  LET new == dbus_menu_item_new(child) IN
  IF child.type = "section"
  THEN IF new.toggled \/ p.border THEN u = p ELSE Separated(p, u)
  ELSE Behind(p, u, new) \/ InsteadOf(p, u, new, child.props)

LEMMA ChildStep ==
  ASSUME NEW p, InPlace(p), NEW child, NEW freed, NEW u, u = ParseChild(p, child, freed)
  PROVE  Passed(p, u, child) /\ InPlace(u)
<1>1. PICK new, props : new = dbus_menu_item_new(child) /\ props = child.props
  OBVIOUS
<1>2. IsEntry(new) /\ Links(new) = {}
  BY <1>1, NewFacts
<1>3. CASE child.type = "section"
  <2>1. u = ParseSeparator(p, child, freed)
    BY <1>3 DEF ParseChild
  <2>2. IF new.toggled \/ p.border THEN u = p ELSE Separated(p, u)
    BY <1>1, <2>1, SeparatorStep
  <2>3. InPlace(u)
    BY <2>2, SeparatedInPlace
  <2>4. QED BY <1>1, <1>3, <2>2, <2>3 DEF Passed
<1>4. CASE child.type # "section" /\ p.at = Len(p.sections[p.n + 1].items)
  <2>1. u = ParseAppended(p, new)
    BY <1>1, <1>4 DEF ParseChild, is_firefox_stub
  <2>2. PICK e : AppendedEntry(p, u, e, new)
    BY <1>2, <1>4, <2>1, AppendedStep
  <2>3. IsEntry(e) /\ Appended(p, u, e)
    BY <2>2 DEF AppendedEntry, SameLook
  <2>4. InPlace(u)
    BY <1>4, <2>3, AppendedInPlace
  <2>5. Behind(p, u, new)
    BY <1>4, <2>2 DEF Behind
  <2>6. QED BY <1>1, <1>4, <2>4, <2>5 DEF Passed
<1>5. CASE child.type # "section" /\ p.at # Len(p.sections[p.n + 1].items)
  <2>1. u = ParsePlaced(p, new, props)
    BY <1>1, <1>5 DEF ParseChild, is_firefox_stub
  <2>2. PICK e : PlacedEntry(p, u, e, new, props)
    BY <1>2, <1>5, <2>1, PlacedStep
  <2>3. IsEntry(e) /\ Placed(p, u, e)
    BY <2>2 DEF PlacedEntry, SameLook, Same
  <2>4. InPlace(u)
    BY <1>5, <2>3, PlacedInPlace
  <2>5. InsteadOf(p, u, new, props)
    BY <1>5, <2>2 DEF InsteadOf
  <2>6. QED BY <1>1, <1>5, <2>4, <2>5 DEF Passed
<1>6. QED BY <1>3, <1>4, <1>5

\* layout_parse takes the children one after the other.
Parses(g, start, children, freed, n) ==
  /\ DOMAIN g = 0..n /\ g[0] = start
  /\ \A k \in 1..n : g[k] = ParseChild(g[k - 1], children[k], freed)

LEMMA SomeParse ==
  ASSUME NEW start, NEW children, NEW freed, NEW n \in Nat
  PROVE  \E g : Parses(g, start, children, freed, n)
<1> DEFINE T == {m \in 0..n : \E g : Parses(g, start, children, freed, m)}
<1>1. 0 \in T
  <2>1. PICK g : g = [k \in 0..0 |-> start]
    OBVIOUS
  <2>2. Parses(g, start, children, freed, 0)
    BY <2>1 DEF Parses
  <2>3. QED BY <2>2
<1>2. ASSUME NEW m \in 1..n, m - 1 \in T PROVE m \in T
  <2>1. PICK g : Parses(g, start, children, freed, m - 1)
    BY <1>2
  <2>2. PICK last : last = ParseChild(g[m - 1], children[m], freed)
    OBVIOUS
  <2>3. PICK h : h = [k \in 0..m |-> IF k = m THEN last ELSE g[k]]
    OBVIOUS
  <2>4. /\ DOMAIN h = 0..m /\ h[m] = last /\ \A k \in 0..m - 1 : h[k] = g[k]
        /\ 0 \in 0..m - 1
    BY <2>3
  <2>5. \A k \in 1..m : k - 1 \in 0..m - 1 /\ (k = m \/ (k \in 1..m - 1 /\ k \in 0..m - 1))
    OBVIOUS
  <2>6. g[0] = start /\ \A k \in 1..m - 1 : g[k] = ParseChild(g[k - 1], children[k], freed)
    BY <2>1 DEF Parses
  <2>7. ASSUME NEW k \in 1..m PROVE h[k] = ParseChild(h[k - 1], children[k], freed)
    BY <2>2, <2>4, <2>5, <2>6
  <2>8. Parses(h, start, children, freed, m)
    BY <2>4, <2>6, <2>7 DEF Parses
  <2>9. QED BY <2>8
<1> HIDE DEF T
<1>3. \A m \in 0..n : m \in T
  BY <1>1, <1>2, RangeInduction
<1>4. QED BY <1>3 DEF T

Start == [sections |-> menu.sections, n |-> 0, at |-> 0, added |-> 0, change |-> -1,
          border |-> TRUE, queue |-> <<>>, old |-> Len(menu.sections),
          menus |-> menus, group |-> group]

LEMMA LayoutParses ==
  ASSUME NEW children, NEW freed, NEW n \in Nat, n = Len(children)
  PROVE  \E g : /\ Parses(g, Start, children, freed, n)
                /\ layout_parse(children, freed) = ParseEnd(g[n])
<1> DEFINE body(o) == [k \in 0..Len(children) |->
                         IF k = 0 THEN Start ELSE ParseChild(o[k - 1], children[k], freed)]
           held == CHOOSE o : o = body(o)
<1>1. PICK g : Parses(g, Start, children, freed, n)
  BY SomeParse
<1>2. layout_parse(children, freed) = ParseEnd(held[Len(children)])
  BY DEF layout_parse, Start
<1>3. \E h : h = body(h)
  <2>1. PICK h : h = [k \in 0..n |-> g[k]]
    OBVIOUS
  <2>2. \A k \in 0..n : k = 0 \/ (k \in 1..n /\ k - 1 \in 0..n)
    OBVIOUS
  <2>3. ASSUME NEW k \in 0..n
        PROVE  h[k] = IF k = 0 THEN Start ELSE ParseChild(h[k - 1], children[k], freed)
    BY <1>1, <2>1, <2>2 DEF Parses
  <2>4. h = body(h)
    BY <2>1, <2>3
  <2>5. QED BY <2>4
<1>4. held = body(held)
  <2> HIDE DEF body
  <2>1. QED BY <1>3
<1> HIDE DEF held
<1>5. Parses(held, Start, children, freed, n)
  <2>1. \A k \in 1..n : k \in 0..n /\ k # 0
    OBVIOUS
  <2>2. QED BY <1>4, <2>1 DEF Parses
<1>6. QED BY <1>2, <1>5

LEMMA StaysInPlace ==
  ASSUME NEW start, InPlace(start), NEW children, NEW freed, NEW n \in Nat,
         NEW g, Parses(g, start, children, freed, n)
  PROVE  /\ \A k \in 0..n : InPlace(g[k])
         /\ \A k \in 1..n : Passed(g[k - 1], g[k], children[k])
<1> DEFINE T == {k \in 0..n : InPlace(g[k])}
<1>1. 0 \in T
  BY DEF Parses
<1>2. ASSUME NEW k \in 1..n, k - 1 \in T PROVE k \in T
  <2>1. PICK p : p = g[k - 1]
    OBVIOUS
  <2>2. InPlace(p) /\ g[k] = ParseChild(p, children[k], freed) /\ k \in 0..n
    BY <1>2, <2>1 DEF Parses
  <2>3. InPlace(g[k])
    BY <2>2, ChildStep
  <2>4. QED BY <2>2, <2>3
<1>3. \A k \in 0..n : k \in T
  <2> HIDE DEF T
  <2>1. QED BY <1>1, <1>2, RangeInduction
<1>4. ASSUME NEW k \in 1..n PROVE Passed(g[k - 1], g[k], children[k])
  <2>1. PICK p : p = g[k - 1]
    OBVIOUS
  <2>2. k - 1 \in 0..n
    OBVIOUS
  <2>3. InPlace(p) /\ g[k] = ParseChild(p, children[k], freed)
    BY <1>3, <2>1, <2>2 DEF Parses
  <2>4. QED BY <2>1, <2>3, ChildStep
<1>5. QED BY <1>3, <1>4


-----------------------------------------------------------------------------
(* The end of the layout: sections behind the last one that is taken go, and *)
(* so does what follows in that one, but for one entry.                      *)

\* Whether the section it is in is one of the layout's.
Taken(p) == ~p.border \/ p.n = 0

\* What stays of that section.
Stays(p, items) ==
  \E at \in 0..Len(p.sections[p.n + 1].items) :
    /\ items = SubSeq(p.sections[p.n + 1].items, 1, at)
    /\ p.at <= at /\ at <= p.at + 1
    /\ p.sections[p.n + 1].items # <<>> => at >= 1

Ended(p, u) ==
  /\ IsSections(u.sections) /\ u.menus = p.menus
  /\ Len(u.sections) = IF Taken(p) THEN p.n + 1 ELSE p.n
  /\ \A k \in 1..Len(u.sections) : k # p.n + 1 => u.sections[k] = p.sections[k]
  /\ Taken(p) => Stays(p, u.sections[p.n + 1].items)

LEMMA MinOfTwo ==
  ASSUME NEW a \in Int, NEW b \in Int
  PROVE  Min({a, b}) = IF a <= b THEN a ELSE b
<1>1. PICK m : m = IF a <= b THEN a ELSE b
  OBVIOUS
<1>2. m \in {a, b} /\ \A y \in {a, b} : m <= y
  BY <1>1
<1>3. \A x \in {a, b} : (\A y \in {a, b} : x <= y) => x = m
  BY <1>1
<1>4. Min({a, b}) = CHOOSE x \in {a, b} : \A y \in {a, b} : x <= y
  BY DEF Min
<1>5. QED BY <1>1, <1>2, <1>3, <1>4

LEMMA EndStep ==
  ASSUME NEW p, InPlace(p), NEW u, u = ParseEnd(p)
  PROVE  Ended(p, u)
<1>1. PICK s, q, items : s = p.sections /\ q = p.n + 1 /\ items = s[q].items
  OBVIOUS
<1>2. /\ IsItems(items) /\ Len(items) \in Nat /\ Len(s) \in Nat /\ q \in Nat /\ q <= Len(s)
      /\ IsSections(s) /\ p.n \in Nat /\ p.at \in Nat /\ p.at <= Len(items) /\ q \in 1..Len(s)
      /\ p.border <=> p.at = 0
  <2>1. /\ IsItems(items) /\ Len(items) \in Nat /\ Len(s) \in Nat /\ q \in Nat /\ q <= Len(s)
        /\ p.at \in Nat
    BY <1>1, CurrentFacts
  <2>2. /\ IsSections(s) /\ p.n \in Nat /\ q \in 1..Len(s) /\ p.at \in 0..Len(items)
        /\ p.border <=> p.at = 0
    BY <1>1 DEF InPlace
  <2>3. p.at <= Len(items)
    BY <2>1, <2>2
  <2>4. QED BY <2>1, <2>2, <2>3
<1>3. PICK l \in Nat : l = Len(items)
  BY <1>2
<1>4. PICK at : at = Min({p.at + 1, Len(items)})
  OBVIOUS
<1>5. at \in 0..l /\ p.at <= at /\ at <= p.at + 1 /\ (l # 0 => at >= 1)
  <2>1. at = IF p.at + 1 <= l THEN p.at + 1 ELSE l
    BY <1>2, <1>3, <1>4, MinOfTwo
  <2>2. p.at \in Nat /\ p.at <= l
    BY <1>2, <1>3
  <2>3. QED BY <2>1, <2>2
<1>6. PICK front : front = SubSeq(items, 1, at)
  OBVIOUS
<1>7. IsItems(front)
  BY <1>2, <1>3, <1>5, <1>6, FrontItems
<1>8. PICK cut : cut = [s EXCEPT ![q].items = front]
  OBVIOUS
<1>9. IsSections(cut) /\ Put(s, q, front, cut)
  BY <1>2, <1>7, <1>8, PutFacts
<1>10. IsSeq(items) /\ ((items = <<>>) <=> (l = 0))
  BY <1>2, <1>3, SeqFacts DEF IsItems
<1>11. PICK valid : valid = ((~p.border \/ p.n = 0) /\ ~(items = <<>> /\ Len(s) > 1))
  OBVIOUS
<1>12. valid <=> Taken(p)
  <2>1. ASSUME items = <<>>, Len(s) > 1 PROVE p.border /\ p.n # 0
    <3>1. q = Len(s)
      BY <1>1, <1>2, <2>1 DEF InPlace
    <3>2. p.at = 0
      BY <1>2, <1>3, <1>10, <2>1
    <3>3. q # 1
      BY <1>2, <2>1, <3>1
    <3>4. QED BY <1>1, <1>2, <3>2, <3>3
  <2>2. QED BY <1>11, <2>1 DEF Taken
<1>13. PICK nn : nn = p.n + (IF valid THEN 1 ELSE 0)
  OBVIOUS
<1>14. nn = (IF Taken(p) THEN q ELSE p.n) /\ nn \in 0..Len(cut) /\ nn <= q
  <2>1. Len(cut) = Len(s)
    BY <1>9 DEF Put
  <2>2. nn = IF Taken(p) THEN p.n + 1 ELSE p.n + 0
    BY <1>12, <1>13
  <2>3. QED BY <1>1, <1>2, <2>1, <2>2
<1>15. PICK t : t = SubSeq(cut, 1, nn)
  OBVIOUS
<1>16. u.sections = t /\ u.menus = p.menus
  <2>1. DOMAIN p = ParseFields
    BY DEF InPlace
  <2>2. QED BY <1>1, <1>4, <1>6, <1>8, <1>11, <1>13, <1>15, <2>1 DEF ParseEnd, ParseFields
<1>17. IsSeq(t) /\ Len(t) = nn /\ \A k \in 1..nn : t[k] = cut[k]
  <2>1. IsSeq(cut)
    BY <1>9 DEF IsSections
  <2>2. QED BY <1>14, <1>15, <2>1, FrontAny
<1>18. \A k \in 1..nn : k \in 1..Len(cut) /\ k \in 1..Len(s)
  BY <1>2, <1>9, <1>14 DEF Put
<1>19. IsSections(t)
  BY <1>9, <1>17, <1>18 DEF IsSections
<1>20. \A k \in 1..nn : k # q => t[k] = s[k]
  BY <1>9, <1>17, <1>18 DEF Put
<1>21. ASSUME Taken(p) PROVE Stays(p, t[q].items)
  <2>1. q \in 1..nn
    BY <1>2, <1>14, <1>21
  <2>2. t[q].items = front
    BY <1>9, <1>17, <2>1 DEF Put
  <2>3. QED BY <1>1, <1>3, <1>5, <1>6, <1>10, <2>2 DEF Stays
<1>22. QED BY <1>1, <1>14, <1>16, <1>17, <1>19, <1>20, <1>21 DEF Ended

-----------------------------------------------------------------------------
(* No section is empty, but a single one                                     *)

Sound(sections) ==
  /\ IsSections(sections) /\ Len(sections) >= 1
  /\ Len(sections) > 1 => \A k \in 1..Len(sections) : sections[k].items # <<>>

LEMMA StartInPlace ==
  ASSUME Sound(menu.sections)
  PROVE  InPlace(Start)
<1>1. PICK s : s = menu.sections
  OBVIOUS
<1>2. IsSections(s) /\ Len(s) \in Nat /\ Len(s) >= 1
  BY <1>1, SeqFacts DEF Sound, IsSections
<1>3. PICK p : p = Start
  OBVIOUS
<1>4. DOMAIN p = ParseFields /\ p.sections = s /\ p.n = 0 /\ p.at = 0 /\ p.border = TRUE
  BY <1>1, <1>3 DEF Start, ParseFields
<1>5. 1 \in 1..Len(s) /\ 0 + 1 = 1
  BY <1>2
<1>6. IsItems(s[1].items)
  BY <1>2, <1>5 DEF IsSections
<1>7. 0 \in 0..Len(s[1].items)
  <2>1. Len(s[1].items) \in Nat
    BY <1>6, SeqFacts DEF IsItems
  <2>2. QED BY <2>1
<1>8. \A k \in 1..Len(s) : s[k].items = <<>> => k = 1 /\ k = Len(s)
  <2>1. SUFFICES ASSUME NEW k \in 1..Len(s), s[k].items = <<>> PROVE k = 1 /\ k = Len(s)
    OBVIOUS
  <2>2. ~(Len(s) > 1)
    BY <1>1, <2>1 DEF Sound
  <2>3. QED BY <1>2, <2>1, <2>2
<1>9. InPlace(p)
  <2>1. p.n \in Nat /\ p.n + 1 = 1 /\ p.n + 1 \in 1..Len(p.sections)
    BY <1>4, <1>5
  <2>2. p.at \in 0..Len(p.sections[p.n + 1].items)
    BY <1>4, <1>7, <2>1
  <2>3. p.border \in BOOLEAN /\ (p.border <=> p.at = 0)
    BY <1>4
  <2>4. \A k \in 1..Len(p.sections) :
          p.sections[k].items = <<>> => k = p.n + 1 /\ k = Len(p.sections)
    BY <1>4, <1>8, <2>1
  <2>5. QED BY <1>2, <1>4, <2>1, <2>2, <2>3, <2>4 DEF InPlace
<1>10. QED BY <1>3, <1>9

LEMMA EndSound ==
  ASSUME NEW p, InPlace(p), NEW u, Ended(p, u)
  PROVE  Sound(u.sections)
<1>1. PICK s, t, q, items : s = p.sections /\ t = u.sections /\ q = p.n + 1 /\ items = s[q].items
  OBVIOUS
<1>2. /\ IsItems(items) /\ Len(items) \in Nat /\ Len(s) \in Nat /\ q \in Nat /\ q <= Len(s)
      /\ p.n \in Nat /\ p.at \in Nat /\ p.at <= Len(items)
      /\ p.border <=> p.at = 0
      /\ \A k \in 1..Len(s) : s[k].items = <<>> => k = q /\ k = Len(s)
  BY <1>1, CurrentFacts DEF InPlace
<1>3. Len(t) \in Nat /\ Len(t) >= 1 /\ Len(t) <= q
  <2>1. Len(t) = IF Taken(p) THEN p.n + 1 ELSE p.n
    BY <1>1 DEF Ended
  <2>2. ~Taken(p) => p.n >= 1
    BY <1>2 DEF Taken
  <2>3. QED BY <1>1, <1>2, <2>1, <2>2
<1>4. ASSUME Len(t) > 1, NEW k \in 1..Len(t) PROVE t[k].items # <<>>
  <2>1. CASE k # q
    <3>1. t[k] = s[k] /\ k \in 1..Len(s)
      BY <1>1, <1>2, <1>3, <1>4, <2>1 DEF Ended
    <3>2. QED BY <1>2, <2>1, <3>1
  <2>2. CASE k = q
    <3>1. Taken(p) /\ p.n # 0
      BY <1>1, <1>2, <1>3, <1>4, <2>2 DEF Ended
    <3>2. PICK at \in 0..Len(items) : /\ t[q].items = SubSeq(items, 1, at)
                                      /\ items # <<>> => at >= 1
      BY <1>1, <3>1 DEF Ended, Stays
    <3>3. p.at # 0
      BY <1>2, <3>1 DEF Taken
    <3>4. Len(items) # 0
      BY <1>2, <3>3
    <3>5. items # <<>>
      BY <1>2, <3>4, SeqFacts DEF IsItems
    <3>6. PICK f : f = t[q].items
      OBVIOUS
    <3>a. f = SubSeq(items, 1, at)
      BY <3>2, <3>6
    <3>7. IsItems(f) /\ Len(f) = at
      BY <1>2, <3>a, FrontItems
    <3>b. at # 0
      BY <3>2, <3>5
    <3>8. Len(f) # 0
      BY <3>7, <3>b
    <3>9. f # <<>>
      BY <3>7, <3>8, SeqFacts DEF IsItems
    <3>10. QED BY <2>2, <3>6, <3>9
  <2>3. QED BY <2>1, <2>2
<1>5. QED BY <1>1, <1>3, <1>4 DEF Sound, Ended

\* After a layout the sections are sound, whatever they were.
LEMMA LayoutSound ==
  ASSUME Sound(menu.sections), NEW children, Len(children) \in Nat, NEW freed
  PROVE  Sound(layout_parse(children, freed).sections)
<1>1. PICK n \in Nat : n = Len(children)
  OBVIOUS
<1>2. PICK g : /\ Parses(g, Start, children, freed, n)
               /\ layout_parse(children, freed) = ParseEnd(g[n])
  BY <1>1, LayoutParses
<1>3. PICK p : p = g[n]
  OBVIOUS
<1>4. InPlace(p)
  <2>1. n \in 0..n
    OBVIOUS
  <2>2. \A k \in 0..n : InPlace(g[k])
    BY <1>2, StartInPlace, StaysInPlace
  <2>3. QED BY <1>3, <2>1, <2>2
<1>5. PICK u : u = ParseEnd(p)
  OBVIOUS
<1>6. Sound(u.sections)
  BY <1>4, <1>5, EndStep, EndSound
<1>7. QED BY <1>2, <1>3, <1>5, <1>6


-----------------------------------------------------------------------------
(* Sequences of anything                                                   *)

LEMMA EmptyAny == IsSeq(<<>>) /\ Len(<<>>) = 0
<1>1. <<>> \in Seq({}) /\ Len(<<>>) = 0
  OBVIOUS
<1>2. QED BY <1>1 DEF IsSeq

LEMMA OneAny == ASSUME NEW e PROVE IsSeq(<<e>>) /\ Len(<<e>>) = 1 /\ <<e>>[1] = e
<1>1. <<e>> \in Seq({e})
  OBVIOUS
<1>2. QED BY <1>1 DEF IsSeq

Joined(s, t, u) ==
  /\ IsSeq(u) /\ Len(u) = Len(s) + Len(t)
  /\ \A k \in 1..Len(s) : u[k] = s[k]
  /\ \A k \in 1..Len(t) : u[Len(s) + k] = t[k]

LEMMA ConcatAny ==
  ASSUME NEW s, IsSeq(s), NEW t, IsSeq(t), NEW u, u = s \o t
  PROVE  Joined(s, t, u)
<1>1. PICK S : s \in Seq(S)
  BY DEF IsSeq
<1>2. PICK T : t \in Seq(T)
  BY DEF IsSeq
<1>3. PICK V : V = S \cup T
  OBVIOUS
<1>4. s \in Seq(V) /\ t \in Seq(V)
  BY <1>1, <1>2, <1>3
<1>5. /\ u \in Seq(V) /\ Len(u) = Len(s) + Len(t)
      /\ \A k \in 1..Len(s) : u[k] = s[k]
      /\ \A k \in 1..Len(t) : u[Len(s) + k] = t[k]
  BY <1>4, ConcatFacts
<1>6. QED BY <1>5 DEF IsSeq, Joined

Rest(s, u) ==
  /\ IsSeq(u) /\ Len(u) = Len(s) - 1 /\ Len(s) >= 1
  /\ \A k \in 1..Len(u) : u[k] = s[k + 1]

LEMMA TailAny ==
  ASSUME NEW s, IsSeq(s), s # <<>>, NEW u, u = Tail(s)
  PROVE  Rest(s, u) /\ Head(s) = s[1]
<1>1. PICK S : s \in Seq(S)
  BY DEF IsSeq
<1>2. Len(s) \in Nat /\ Len(s) # 0
  BY <1>1
<1>3. u \in Seq(S) /\ Len(u) = Len(s) - 1 /\ \A k \in 1..Len(u) : u[k] = s[k + 1]
  BY <1>1
<1>4. QED BY <1>2, <1>3 DEF IsSeq, Rest

LEMMA SetAsSeq ==
  ASSUME NEW S, IsFiniteSet(S)
  PROVE  IsSeq(SetToSeq(S))
<1>1. PICK n : n = Cardinality(S)
  OBVIOUS
<1>2. n \in Nat /\ ExistsBijection(1..n, S)
  BY <1>1, FS_CardinalityType
<1>3. PICK f : f \in Bijection(1..n, S)
  BY <1>2 DEF ExistsBijection
<1>4. f \in [1..n -> S] /\ IsInjective(f)
  <2>1. f \in [1..n -> S] /\ \A a, b \in 1..n : f[a] = f[b] => a = b
    BY <1>3 DEF Bijection, Injection, IsInjective
  <2>2. QED BY <2>1 DEF IsInjective
<1>5. SetToSeq(S) \in [1..n -> S]
  BY <1>1, <1>4 DEF SetToSeq
<1>6. SetToSeq(S) \in Seq(S)
  BY <1>2, <1>5
<1>7. QED BY <1>6 DEF IsSeq

LEMMA ImageFinite ==
  ASSUME NEW S, IsFiniteSet(S), NEW f, DOMAIN f = S
  PROVE  IsFiniteSet({f[x] : x \in S})
<1>1. PICK T : T = {f[x] : x \in S}
  OBVIOUS
<1>2. PICK g : g = [x \in S |-> f[x]]
  OBVIOUS
<1>3. g \in [S -> T] /\ \A t \in T : \E x \in S : g[x] = t
  BY <1>1, <1>2
<1>4. g \in Surjection(S, T)
  BY <1>3 DEF Surjection
<1>5. IsFiniteSet(T)
  BY <1>4, FS_Surjection
<1>6. QED BY <1>1, <1>5

LEMMA SeqSet ==
  ASSUME NEW s, IsSeq(s)
  PROVE  IsFiniteSet(ToSet(s)) /\ \A e : e \in ToSet(s) <=> \E k \in 1..Len(s) : s[k] = e
<1>1. DOMAIN s = 1..Len(s) /\ Len(s) \in Nat
  BY SeqFacts
<1>2. PICK n \in Nat : n = Len(s)
  BY <1>1
<1>3. ToSet(s) = {s[k] : k \in 1..n}
  BY <1>1, <1>2 DEF ToSet
<1>4. IsFiniteSet(1..n)
  BY FS_Interval
<1>5. IsFiniteSet({s[k] : k \in 1..n})
  BY <1>1, <1>2, <1>4, ImageFinite
<1>6. \A e : e \in {s[k] : k \in 1..n} <=> \E k \in 1..n : s[k] = e
  OBVIOUS
<1>7. QED BY <1>2, <1>3, <1>5, <1>6

LEMMA LinkedFinite ==
  ASSUME NEW ss, IsSections(ss)
  PROVE  IsFiniteSet(Linked(ss))
<1>1. IsSeq(ss)
  BY DEF IsSections
<1>2. IsFiniteSet(ToSet(ss))
  BY <1>1, SeqSet
<1>3. ASSUME NEW s \in ToSet(ss) PROVE IsFiniteSet(ToSet(s.items))
  <2>1. PICK k \in 1..Len(ss) : ss[k] = s
    BY <1>1, SeqSet
  <2>2. IsSeq(s.items)
    BY <2>1 DEF IsSections, IsItems
  <2>3. QED BY <2>2, SeqSet
<1>4. IsFiniteSet(ItemsOf(ss))
  <2>1. PICK SS : SS = {ToSet(s.items) : s \in ToSet(ss)}
    OBVIOUS
  <2>2. IsFiniteSet(SS)
    <3>1. PICK f : f = [s \in ToSet(ss) |-> ToSet(s.items)]
      OBVIOUS
    <3>2. IsFiniteSet({f[s] : s \in ToSet(ss)})
      BY <1>2, <3>1, ImageFinite
    <3>3. {f[s] : s \in ToSet(ss)} = SS
      BY <2>1, <3>1
    <3>4. QED BY <3>2, <3>3
  <2>3. \A T \in SS : IsFiniteSet(T)
    BY <1>3, <2>1
  <2>4. IsFiniteSet(UNION SS)
    BY <2>2, <2>3, FS_UNION
  <2>5. QED BY <2>1, <2>4 DEF ItemsOf
<1>5. PICK II : II = ItemsOf(ss)
  OBVIOUS
<1>6. IsFiniteSet({{i.submenu, i.disabled_submenu} : i \in II})
  <2>1. PICK f : f = [i \in II |-> {i.submenu, i.disabled_submenu}]
    OBVIOUS
  <2>a. DOMAIN f = II /\ IsFiniteSet(II)
    BY <1>4, <1>5, <2>1
  <2>2. IsFiniteSet({f[i] : i \in II})
    BY <2>a, ImageFinite
  <2>3. {f[i] : i \in II} = {{i.submenu, i.disabled_submenu} : i \in II}
    BY <2>1
  <2>4. QED BY <2>2, <2>3
<1>7. \A T \in {{i.submenu, i.disabled_submenu} : i \in II} : IsFiniteSet(T)
  <2>1. SUFFICES ASSUME NEW a, NEW b PROVE IsFiniteSet({a, b})
    OBVIOUS
  <2>2. IsFiniteSet({a}) /\ IsFiniteSet({b})
    BY FS_Singleton
  <2>3. IsFiniteSet({a} \cup {b}) /\ {a} \cup {b} = {a, b}
    BY <2>2, FS_Union
  <2>4. QED BY <2>3
<1>8. PICK U : U = UNION {{i.submenu, i.disabled_submenu} : i \in II}
  OBVIOUS
<1>9. IsFiniteSet(U)
  BY <1>6, <1>7, <1>8, FS_UNION
<1>10. Linked(ss) = U \ {NoMenu}
  BY <1>5, <1>8 DEF Linked
<1>11. QED BY <1>9, <1>10, FS_Subset

\* The first of some places.
LEMMA FirstThere ==
  ASSUME NEW places, places # {}, places \subseteq Nat \X Nat
  PROVE  First(places) \in places
<1>1. PICK A : A = {a \in Nat : \E b \in Nat : <<a, b>> \in places}
  OBVIOUS
<1>2. PICK a \in A : \A x \in A : a <= x
  <2>1. A # {} /\ A \subseteq Nat
    BY <1>1
  <2>2. QED BY <2>1, SmallestNumber
<1>3. PICK B : B = {b \in Nat : <<a, b>> \in places}
  OBVIOUS
<1>4. PICK b \in B : \A x \in B : b <= x
  <2>1. B # {} /\ B \subseteq Nat
    BY <1>1, <1>2, <1>3
  <2>2. QED BY <2>1, SmallestNumber
<1>5. PICK x : x = <<a, b>>
  OBVIOUS
<1>6. x \in places /\ x[1] = a /\ x[2] = b /\ a \in Nat /\ b \in Nat
  BY <1>1, <1>2, <1>3, <1>4, <1>5
<1>7. ASSUME NEW y \in places PROVE x[1] < y[1] \/ (x[1] = y[1] /\ x[2] <= y[2])
  <2>1. PICK c \in Nat, d \in Nat : y = <<c, d>>
    BY <1>7
  <2>2. c \in A /\ y[1] = c /\ y[2] = d
    BY <1>1, <2>1
  <2>3. a <= c
    BY <1>2, <2>2
  <2>4. a = c => b <= d
    BY <1>3, <1>4, <2>1
  <2>5. QED BY <1>6, <2>2, <2>3, <2>4
<1>8. QED BY <1>6, <1>7 DEF First


-----------------------------------------------------------------------------
(* Updates: the same entries in the same places                            *)

Kin(ss, t) ==
  /\ IsSections(t) /\ Len(t) = Len(ss)
  /\ \A k \in 1..Len(ss) :
       /\ Len(t[k].items) = Len(ss[k].items)
       /\ \A j \in 1..Len(ss[k].items) : Same(ss[k].items[j], t[k].items[j])

LEMMA KinSelf ==
  ASSUME NEW ss, IsSections(ss)
  PROVE  Kin(ss, ss)
<1>1. ASSUME NEW k \in 1..Len(ss), NEW j \in 1..Len(ss[k].items)
      PROVE  Same(ss[k].items[j], ss[k].items[j])
  BY <1>1 DEF IsSections, IsItems, Same
<1>2. QED BY <1>1 DEF Kin

LEMMA KinOne ==
  ASSUME NEW ss, IsSections(ss), NEW s \in 1..Len(ss), NEW k \in 1..Len(ss[s].items),
         NEW i, Same(ss[s].items[k], i), NEW t, t = [ss EXCEPT ![s].items[k] = i]
  PROVE  Kin(ss, t)
<1>1. PICK items : items = ss[s].items
  OBVIOUS
<1>2. PICK new : new = [items EXCEPT ![k] = i]
  OBVIOUS
<1>3. IsItems(items) /\ IsSeq(items)
  BY <1>1 DEF IsSections, IsItems
<1>4. Replaced(items, k, i, new)
  BY <1>1, <1>2, <1>3, SetAny
<1>5. IsItems(new)
  <2>1. IsEntry(i) /\ k \in 1..Len(items)
    BY <1>1 DEF Same
  <2>2. QED BY <1>3, <1>4, <2>1, ReplacedItems
<1>6. t = [ss EXCEPT ![s].items = new]
  BY <1>1, <1>2
<1>7. IsSections(t) /\ Put(ss, s, new, t)
  BY <1>5, <1>6, PutFacts
<1>8. ASSUME NEW q \in 1..Len(ss)
      PROVE  /\ Len(t[q].items) = Len(ss[q].items)
             /\ \A j \in 1..Len(ss[q].items) : Same(ss[q].items[j], t[q].items[j])
  <2>1. CASE q = s
    <3>1. t[q].items = new /\ Len(new) = Len(items) /\ ss[q].items = items
      BY <1>1, <1>4, <1>7, <2>1 DEF Put, Replaced
    <3>2. ASSUME NEW j \in 1..Len(items) PROVE Same(items[j], new[j])
      <4>1. CASE j = k
        BY <1>1, <1>4, <4>1 DEF Replaced
      <4>2. CASE j # k
        BY <1>3, <1>4, <3>2, <4>2 DEF Replaced, Same, IsItems
      <4>3. QED BY <4>1, <4>2
    <3>3. QED BY <3>1, <3>2
  <2>2. CASE q # s
    <3>1. t[q] = ss[q]
      BY <1>7, <1>8, <2>2 DEF Put
    <3>2. Kin(ss, ss)
      BY KinSelf
    <3>3. QED BY <1>8, <3>1, <3>2 DEF Kin
  <2>3. QED BY <2>1, <2>2
<1>9. QED BY <1>7, <1>8 DEF Kin, Put

LEMMA KinSound ==
  ASSUME NEW ss, Sound(ss), NEW t, Kin(ss, t)
  PROVE  Sound(t)
<1>1. ASSUME Len(ss) > 1, NEW k \in 1..Len(ss) PROVE t[k].items # <<>>
  <2>1. PICK a, b : a = ss[k].items /\ b = t[k].items
    OBVIOUS
  <2>2. IsSeq(a) /\ IsSeq(b) /\ a # <<>>
    BY <1>1, <2>1 DEF Sound, Kin, IsSections, IsItems
  <2>3. Len(b) = Len(a) /\ Len(a) # 0
    BY <1>1, <2>1, <2>2, SeqFacts DEF Kin
  <2>4. QED BY <2>1, <2>2, <2>3, SeqFacts
<1>2. QED BY <1>1 DEF Sound, Kin

LEMMA SpotsFacts ==
  ASSUME NEW ss, IsSections(ss)
  PROVE  /\ Spots(ss) \subseteq Nat \X Nat
         /\ \A at \in Spots(ss) : at[1] \in 1..Len(ss) /\ at[2] \in 1..Len(ss[at[1]].items)
         /\ \A s \in 1..Len(ss) : \A k \in 1..Len(ss[s].items) : <<s, k>> \in Spots(ss)
<1>1. DOMAIN ss = 1..Len(ss)
  BY SeqFacts DEF IsSections
<1>2. ASSUME NEW s \in 1..Len(ss) PROVE DOMAIN ss[s].items = 1..Len(ss[s].items)
  <2>1. IsSeq(ss[s].items)
    BY DEF IsSections, IsItems
  <2>2. QED BY <2>1, SeqFacts
<1>3. ASSUME NEW at \in Spots(ss)
      PROVE  at \in Nat \X Nat /\ at[1] \in 1..Len(ss) /\ at[2] \in 1..Len(ss[at[1]].items)
  <2>1. PICK s \in 1..Len(ss) : \E k \in DOMAIN ss[s].items : at = <<s, k>>
    BY <1>1 DEF Spots
  <2>2. PICK k \in 1..Len(ss[s].items) : at = <<s, k>>
    BY <1>2, <2>1
  <2>3. s \in Nat /\ k \in Nat
    OBVIOUS
  <2>4. QED BY <2>2, <2>3
<1>4. ASSUME NEW s \in 1..Len(ss), NEW k \in 1..Len(ss[s].items) PROVE <<s, k>> \in Spots(ss)
  BY <1>1, <1>2 DEF Spots
<1>5. QED BY <1>3, <1>4

LEMMA RemovePropSame ==
  ASSUME NEW i, IsEntry(i), NEW prop
  PROVE  Same(i, remove_prop(i, prop))
<1>1. CASE prop = "enabled"
  BY <1>1, UpdateEnabledFacts DEF remove_prop
<1>2. CASE prop = "label"
  <2>1. PICK j : j = [i EXCEPT !.label = ""]
    OBVIOUS
  <2>2. remove_prop(i, prop) = j
    BY <1>2, <2>1 DEF remove_prop
  <2>3. IsEntry(j) /\ j.id = i.id /\ j.type = i.type /\ j.submenu = i.submenu
        /\ j.disabled_submenu = i.disabled_submenu
    BY <2>1 DEF IsEntry
  <2>4. QED BY <2>2, <2>3 DEF Same, Links
<1>3. CASE prop = "visible"
  <2>1. PICK j : j = [i EXCEPT !.hidden = FALSE, !.action = "bare"]
    OBVIOUS
  <2>2. remove_prop(i, prop) = j
    BY <1>3, <2>1 DEF remove_prop
  <2>3. IsEntry(j) /\ j.id = i.id /\ j.type = i.type /\ j.submenu = i.submenu
        /\ j.disabled_submenu = i.disabled_submenu
    BY <2>1 DEF IsEntry
  <2>4. QED BY <2>2, <2>3 DEF Same, Links
<1>4. CASE prop \notin {"enabled", "label", "visible"}
  <2>1. remove_prop(i, prop) = i
    BY <1>4 DEF remove_prop
  <2>2. QED BY <2>1 DEF Same
<1>5. QED BY <1>1, <1>2, <1>3, <1>4

MenuFields == {"sections", "current_revision"}

\* The copy has the same entries in the same places, though some may look otherwise.
MenuKin == DOMAIN menu' = MenuFields /\ Kin(menu.sections, menu'.sections)

MenuSound == DOMAIN menu = MenuFields /\ Sound(menu.sections)

LEMMA UpdatedKin ==
  ASSUME MenuSound, NEW place \in Spots(menu.sections), NEW i,
         Same(menu.sections[place[1]].items[place[2]], i), NEW tell, Updated(place, i, tell)
  PROVE  MenuKin
<1>1. PICK ss, s, k : ss = menu.sections /\ s = place[1] /\ k = place[2]
  OBVIOUS
<1>2. IsSections(ss)
  BY <1>1 DEF MenuSound, Sound
<1>3. s \in 1..Len(ss) /\ k \in 1..Len(ss[s].items)
  BY <1>1, <1>2, SpotsFacts
<1>4. PICK t : t = [ss EXCEPT ![s].items[k] = i]
  OBVIOUS
<1>5. menu' = [menu EXCEPT !.sections = t]
  BY <1>1, <1>4 DEF Updated, Replace
<1>6. DOMAIN menu' = MenuFields /\ menu'.sections = t
  BY <1>5 DEF MenuSound, MenuFields
<1>7. Kin(ss, t)
  BY <1>1, <1>2, <1>3, <1>4, KinOne
<1>8. QED BY <1>1, <1>6, <1>7 DEF MenuKin

LEMMA SameMenu ==
  ASSUME MenuSound, DOMAIN menu' = MenuFields, menu'.sections = menu.sections
  PROVE  MenuKin
BY KinSelf DEF MenuSound, MenuKin, Sound

LEMMA FoundPlace ==
  ASSUME MenuSound, NEW id, Places(menu.sections, id) # {}, NEW at,
         at = First(Places(menu.sections, id)), NEW old,
         old = menu.sections[at[1]].items[at[2]]
  PROVE  /\ at \in Spots(menu.sections) /\ IsEntry(old) /\ old.id = id
<1>1. PICK ss, places : ss = menu.sections /\ places = Places(ss, id)
  OBVIOUS
<1>2. IsSections(ss)
  BY <1>1 DEF MenuSound, Sound
<1>3. places \subseteq Spots(ss) /\ \A x \in places : ss[x[1]].items[x[2]].id = id
  BY <1>1 DEF Places
<1>4. places \subseteq Nat \X Nat
  BY <1>2, <1>3, SpotsFacts
<1>5. at \in places
  BY <1>1, <1>4, FirstThere
<1>6. at \in Spots(ss) /\ old.id = id
  BY <1>1, <1>3, <1>5
<1>7. IsEntry(old)
  <2>1. at[1] \in 1..Len(ss) /\ at[2] \in 1..Len(ss[at[1]].items)
    BY <1>2, <1>6, SpotsFacts
  <2>2. QED BY <1>1, <1>2, <2>1 DEF IsSections, IsItems
<1>8. QED BY <1>1, <1>6, <1>7

LEMMA UpdateItemKin ==
  ASSUME MenuSound, NEW id, NEW props, UpdateItem(id, props)
  PROVE  MenuKin
<1>1. CASE Places(menu.sections, id) = {}
  <2>1. menu' = menu
    BY <1>1 DEF UpdateItem
  <2>2. QED BY <2>1, SameMenu DEF MenuSound
<1>2. CASE Places(menu.sections, id) # {}
  <2>1. PICK at : at = First(Places(menu.sections, id))
    OBVIOUS
  <2>2. PICK old : old = menu.sections[at[1]].items[at[2]]
    OBVIOUS
  <2>3. PICK i : i = update_props(old, props)
    OBVIOUS
  <2>4. \E tell : Updated(at, i, tell)
    BY <1>2, <2>1, <2>2, <2>3 DEF UpdateItem
  <2>5. at \in Spots(menu.sections) /\ IsEntry(old)
    BY <1>2, <2>1, <2>2, FoundPlace
  <2>6. Same(old, i)
    BY <2>3, <2>5, UpdatePropsFacts
  <2>7. QED BY <2>2, <2>4, <2>5, <2>6, UpdatedKin
<1>3. QED BY <1>1, <1>2


-----------------------------------------------------------------------------
(* The program and what it sends                                           *)

IsProgram ==
  \E p \in Programs :
    /\ DOMAIN program = DOMAIN p /\ program.layouts = p.layouts /\ program.layout \in p.layouts

\* A layout that arrives for the copy is a sequence of children.
IsNews(sent) ==
  /\ IsSeq(sent)
  /\ \A k \in 1..Len(sent) :
       sent[k].kind = "layout" /\ sent[k].menu = Top => Len(sent[k].children) \in Nat

LEMMA ProgramKeeps ==
  ASSUME IsProgram, DOMAIN program' = DOMAIN program, program'.layouts = program.layouts,
         program'.layout \in program.layouts
  PROVE  IsProgram'
BY DEF IsProgram

ProgramFields ==
  {"toplevel", "layouts", "layout", "props", "updates", "removals", "requests", "revision",
   "changes", "MaxChanges"}

LEMMA ProgramFacts ==
  ASSUME IsProgram
  PROVE  /\ DOMAIN program = ProgramFields /\ program.layout \in program.layouts
         /\ IsSeq(program.layout)
<1>1. PICK p \in Programs : DOMAIN program = DOMAIN p /\ program.layouts = p.layouts
                            /\ program.layout \in p.layouts
  BY DEF IsProgram
<1>2. DOMAIN p = ProgramFields /\ \A layout \in p.layouts : IsLayout(layout, p.props)
  BY ProgramsAssumption DEF ProgramFields
<1>3. program.layout \in Seq(Int \X Types)
  BY <1>1, <1>2 DEF IsLayout
<1>4. QED BY <1>1, <1>2, <1>3 DEF IsSeq

LEMMA ChildrenLength ==
  ASSUME IsProgram
  PROVE  Len(Children) \in Nat
<1>1. PICK l : l = program.layout
  OBVIOUS
<1>2. DOMAIN l = 1..Len(l) /\ Len(l) \in Nat
  BY <1>1, ProgramFacts, SeqFacts
<1>3. PICK n \in Nat : n = Len(l)
  BY <1>2
<1>4. PICK c : c = Children
  OBVIOUS
<1>5. c = [k \in 1..n |-> [id |-> program.layout[k][1], type |-> program.layout[k][2],
                           props |-> program.props[program.layout[k][1]]]]
  BY <1>1, <1>2, <1>3, <1>4 DEF Children
<1>6. PICK S : S = {c[k] : k \in 1..n}
  OBVIOUS
<1>7. c \in [1..n -> S]
  BY <1>5, <1>6
<1>8. c \in Seq(S) /\ Len(c) = n
  BY <1>7
<1>9. QED BY <1>4, <1>8

LEMMA NewsConcat ==
  ASSUME NEW s, IsNews(s), NEW t, IsNews(t), NEW u, u = s \o t
  PROVE  IsNews(u)
<1>1. IsSeq(s) /\ IsSeq(t)
  BY DEF IsNews
<1>2. Joined(s, t, u)
  BY <1>1, ConcatAny
<1>3. PICK a \in Nat, b \in Nat : a = Len(s) /\ b = Len(t)
  BY <1>1, SeqFacts
<1>4. /\ Len(u) = a + b /\ \A k \in 1..a : u[k] = s[k]
      /\ \A k \in 1..b : u[a + k] = t[k]
  BY <1>2, <1>3 DEF Joined
<1>5. ASSUME NEW k \in 1..Len(u) PROVE (\E j \in 1..a : u[k] = s[j]) \/ \E j \in 1..b : u[k] = t[j]
  <2>1. k \in 1..a \/ (k - a \in 1..b /\ a + (k - a) = k)
    BY <1>4
  <2>2. QED BY <1>4, <2>1
<1>6. QED BY <1>2, <1>3, <1>5 DEF IsNews, Joined

LEMMA NewsOne ==
  ASSUME NEW e, e.kind = "layout" /\ e.menu = Top => Len(e.children) \in Nat
  PROVE  IsNews(<<e>>)
BY OneAny DEF IsNews

LEMMA NewsAppend ==
  ASSUME NEW s, IsNews(s), NEW e, e.kind # "layout", NEW u, u = Append(s, e)
  PROVE  IsNews(u)
<1>1. IsSeq(s)
  BY DEF IsNews
<1>2. PICK n \in Nat : n = Len(s)
  BY <1>1, SeqFacts
<1>3. IsSeq(u) /\ Len(u) = n + 1 /\ u[n + 1] = e /\ \A k \in 1..n : u[k] = s[k]
  BY <1>1, <1>2, AppendAny
<1>4. \A k \in 1..n + 1 : k \in 1..n \/ k = n + 1
  OBVIOUS
<1>5. QED BY <1>2, <1>3, <1>4 DEF IsNews

LEMMA NewsTail ==
  ASSUME NEW s, IsNews(s), s # <<>>, NEW u, u = Tail(s)
  PROVE  IsNews(u)
<1>1. IsSeq(s)
  BY DEF IsNews
<1>2. Rest(s, u)
  BY <1>1, TailAny
<1>3. PICK n \in Nat : n = Len(s)
  BY <1>1, SeqFacts
<1>4. IsSeq(u) /\ Len(u) = n - 1 /\ \A k \in 1..Len(u) : u[k] = s[k + 1]
  BY <1>2, <1>3 DEF Rest
<1>5. \A k \in 1..n - 1 : k + 1 \in 1..n
  OBVIOUS
<1>6. QED BY <1>3, <1>4, <1>5 DEF IsNews

LEMMA NewsAnswer ==
  ASSUME IsProgram, NEW c
  PROVE  IsNews(Answer(c))
<1>1. CASE c.menu = Top
  <2>1. PICK e : e = [kind |-> "layout", menu |-> Top, children |-> Children]
    OBVIOUS
  <2>2. Len(e.children) \in Nat
    BY <2>1, ChildrenLength
  <2>3. Answer(c) = <<e>>
    BY <1>1, <2>1 DEF Answer
  <2>4. QED BY <2>2, <2>3, NewsOne
<1>2. CASE c.menu # Top /\ c.parent \in Ids
  <2>1. PICK e : e = [kind |-> "layout", menu |-> c.menu, parent |-> c.parent]
    OBVIOUS
  <2>2. e.menu # Top
    BY <1>2, <2>1
  <2>3. Answer(c) = <<e>>
    BY <1>2, <2>1 DEF Answer
  <2>4. QED BY <2>2, <2>3, NewsOne
<1>3. CASE c.menu # Top /\ c.parent \notin Ids
  <2>1. Answer(c) = <<>>
    BY <1>3 DEF Answer
  <2>2. QED BY <2>1, EmptyAny DEF IsNews
<1>4. QED BY <1>1, <1>2, <1>3

\* The answers that a synchronous call waits for are sent one after the other.
Answers(g, sent, n) ==
  /\ DOMAIN g = 0..n /\ g[0] = sent
  /\ \A k \in 1..n : g[k] = g[k - 1] \o Answer(calls[k])

LEMMA SomeAnswers ==
  ASSUME NEW sent, NEW n \in Nat
  PROVE  \E g : Answers(g, sent, n)
<1> DEFINE T == {m \in 0..n : \E g : Answers(g, sent, m)}
<1>1. 0 \in T
  <2>1. PICK g : g = [k \in 0..0 |-> sent]
    OBVIOUS
  <2>2. Answers(g, sent, 0)
    BY <2>1 DEF Answers
  <2>3. QED BY <2>2
<1>2. ASSUME NEW m \in 1..n, m - 1 \in T PROVE m \in T
  <2>1. PICK g : Answers(g, sent, m - 1)
    BY <1>2
  <2>2. PICK last : last = g[m - 1] \o Answer(calls[m])
    OBVIOUS
  <2>3. PICK h : h = [k \in 0..m |-> IF k = m THEN last ELSE g[k]]
    OBVIOUS
  <2>4. /\ DOMAIN h = 0..m /\ h[m] = last /\ \A k \in 0..m - 1 : h[k] = g[k]
        /\ 0 \in 0..m - 1
    BY <2>3
  <2>5. \A k \in 1..m : k - 1 \in 0..m - 1 /\ (k = m \/ (k \in 1..m - 1 /\ k \in 0..m - 1))
    OBVIOUS
  <2>6. g[0] = sent /\ \A k \in 1..m - 1 : g[k] = g[k - 1] \o Answer(calls[k])
    BY <2>1 DEF Answers
  <2>7. ASSUME NEW k \in 1..m PROVE h[k] = h[k - 1] \o Answer(calls[k])
    <3>1. CASE k = m
      BY <2>2, <2>4, <2>5, <3>1
    <3>2. CASE k # m
      <4>1. k \in 1..m - 1 /\ h[k] = g[k] /\ h[k - 1] = g[k - 1]
        BY <2>4, <2>5, <3>2
      <4>2. QED BY <2>6, <4>1
    <3>3. QED BY <3>1, <3>2
  <2>8. Answers(h, sent, m)
    BY <2>4, <2>6, <2>7 DEF Answers
  <2>9. QED BY <2>8
<1> HIDE DEF T
<1>3. \A m \in 0..n : m \in T
  BY <1>1, <1>2, RangeInduction
<1>4. QED BY <1>3 DEF T

LEMMA AnsweredSteps ==
  ASSUME NEW sent, NEW n \in Nat, n = Len(calls)
  PROVE  \E g : Answers(g, sent, n) /\ Answered(sent) = g[n]
<1> DEFINE body(o) == [k \in 0..Len(calls) |->
                         IF k = 0 THEN sent ELSE o[k - 1] \o Answer(calls[k])]
           held == CHOOSE o : o = body(o)
<1>1. PICK g : Answers(g, sent, n)
  BY SomeAnswers
<1>2. Answered(sent) = held[Len(calls)]
  BY DEF Answered
<1>3. \E h : h = body(h)
  <2>1. PICK h : h = [k \in 0..n |-> g[k]]
    OBVIOUS
  <2>2. \A k \in 0..n : k = 0 \/ (k \in 1..n /\ k - 1 \in 0..n)
    OBVIOUS
  <2>3. ASSUME NEW k \in 0..n
        PROVE  h[k] = IF k = 0 THEN sent ELSE h[k - 1] \o Answer(calls[k])
    <3>1. CASE k = 0
      BY <1>1, <2>1, <3>1 DEF Answers
    <3>2. CASE k # 0
      <4>1. k \in 1..n /\ h[k] = g[k] /\ h[k - 1] = g[k - 1]
        BY <2>1, <2>2, <3>2
      <4>2. g[k] = g[k - 1] \o Answer(calls[k])
        BY <1>1, <4>1 DEF Answers
      <4>3. QED BY <3>2, <4>1, <4>2
    <3>3. QED BY <3>1, <3>2
  <2>4. h = body(h)
    BY <2>1, <2>3
  <2>5. QED BY <2>4
<1>4. held = body(held)
  <2> HIDE DEF body
  <2>1. QED BY <1>3
<1> HIDE DEF held
<1>5. Answers(held, sent, n)
  <2>1. DOMAIN held = 0..n /\ 0 \in 0..n
    BY <1>4
  <2>2. held[0] = sent
    BY <1>4, <2>1
  <2>3. ASSUME NEW k \in 1..n PROVE held[k] = held[k - 1] \o Answer(calls[k])
    <3>1. k \in 0..n /\ k # 0
      OBVIOUS
    <3>2. QED BY <1>4, <3>1
  <2>4. QED BY <2>1, <2>2, <2>3 DEF Answers
<1>6. QED BY <1>2, <1>5

LEMMA NewsAnswered ==
  ASSUME IsProgram, IsSeq(calls), NEW sent, IsNews(sent)
  PROVE  IsNews(Answered(sent))
<1>1. PICK n \in Nat : n = Len(calls)
  BY SeqFacts
<1>2. PICK g : Answers(g, sent, n) /\ Answered(sent) = g[n]
  BY <1>1, AnsweredSteps
<1> DEFINE T == {k \in 0..n : IsNews(g[k])}
<1>3. 0 \in T
  BY <1>2 DEF Answers
<1>4. ASSUME NEW k \in 1..n, k - 1 \in T PROVE k \in T
  <2>1. PICK a, b : a = g[k - 1] /\ b = Answer(calls[k])
    OBVIOUS
  <2>2. IsNews(a) /\ IsNews(b) /\ g[k] = a \o b /\ k \in 0..n
    <3>1. IsNews(b)
      BY <2>1, NewsAnswer
    <3>2. IsNews(a) /\ k \in 0..n
      BY <1>4, <2>1
    <3>3. g[k] = a \o b
      BY <1>2, <2>1 DEF Answers
    <3>4. QED BY <3>1, <3>2, <3>3
  <2>3. IsNews(g[k])
    BY <2>2, NewsConcat
  <2>4. QED BY <2>2, <2>3
<1>5. \A k \in 0..n : k \in T
  <2> HIDE DEF T
  <2>1. QED BY <1>3, <1>4, RangeInduction
<1>6. n \in 0..n
  OBVIOUS
<1>7. IsNews(g[n])
  BY <1>5, <1>6
<1>8. QED BY <1>2, <1>7


-----------------------------------------------------------------------------
(* The invariant                                                           *)

CopyInv == IsProgram /\ IsSeq(calls) /\ IsNews(news) /\ MenuSound

LEMMA CopyInvInit == Init => CopyInv
<1>1. SUFFICES ASSUME Init PROVE CopyInv
  OBVIOUS
<1>2. IsProgram
  BY <1>1, ProgramsAssumption DEF Init, IsProgram
<1>3. IsSeq(calls) /\ IsNews(news)
  BY <1>1, OneAny, EmptyAny DEF Init, IsNews
<1>4. MenuSound
  <2>1. PICK s : s = [sid |-> 0, items |-> <<>>]
    OBVIOUS
  <2>2. IsItems(s.items) /\ "items" \in DOMAIN s
    BY <2>1, EmptyAny DEF IsItems
  <2>3. PICK ss : ss = <<s>>
    OBVIOUS
  <2>4. IsSections(ss) /\ Len(ss) = 1
    BY <2>2, <2>3, OneAny DEF IsSections
  <2>5. menu = [sections |-> ss, current_revision |-> 0]
    BY <1>1, <2>1, <2>3 DEF Init
  <2>6. menu.sections = ss /\ DOMAIN menu = MenuFields
    BY <2>5 DEF MenuFields
  <2>7. IsSections(ss) /\ Len(ss) >= 1 /\ ~(Len(ss) > 1)
    BY <2>4
  <2>8. Sound(ss)
    BY <2>7 DEF Sound
  <2>9. QED BY <2>6, <2>8 DEF MenuSound
<1>5. QED BY <1>2, <1>3, <1>4 DEF CopyInv

\* What a step leaves of the invariant: with Kin the sections stay sound.
MenuStays == MenuKin \/ get_layout_cb

LEMMA KinSoundNext ==
  ASSUME MenuSound, MenuKin
  PROVE  MenuSound'
BY KinSound DEF MenuSound, MenuKin

\* Steps that change neither the program's layouts nor the sections of the copy.
LEMMA QuietStep ==
  ASSUME CopyInv, program' = program, IsSeq(calls'), IsNews(news'), MenuKin
  PROVE  CopyInv' /\ MenuStays
<1>1. IsProgram'
  BY DEF CopyInv, IsProgram
<1>2. IsNews(news)'
  BY DEF IsNews
<1>3. QED BY <1>1, <1>2, KinSoundNext DEF CopyInv, MenuStays, IsSeq

LEMMA MenuUnchanged ==
  ASSUME CopyInv, menu' = menu
  PROVE  MenuKin
BY SameMenu DEF CopyInv, MenuSound

LEMMA ServeStep ==
  ASSUME CopyInv, Serve
  PROVE  CopyInv' /\ MenuStays
<1>1. program' = program /\ menu' = menu /\ calls # <<>> /\ calls' = Tail(calls)
      /\ news' = news \o Answer(Head(calls))
  BY DEF Serve
<1>2. IsSeq(calls')
  BY <1>1, TailAny DEF CopyInv, Rest
<1>3. IsNews(news')
  <2>1. PICK a : a = Answer(Head(calls))
    OBVIOUS
  <2>2. IsNews(a)
    BY <2>1, NewsAnswer DEF CopyInv
  <2>3. QED BY <1>1, <2>1, <2>2, NewsConcat DEF CopyInv
<1>4. QED BY <1>1, <1>2, <1>3, MenuUnchanged, QuietStep

\* The program says what it did.
LEMMA SaidStep ==
  ASSUME CopyInv, DOMAIN program' = DOMAIN program, program'.layouts = program.layouts,
         program'.layout \in program.layouts, UNCHANGED <<calls, menu>>,
         NEW e, e.kind # "layout", news' = Append(news, e)
  PROVE  CopyInv' /\ MenuStays
<1>1. IsProgram'
  BY ProgramKeeps DEF CopyInv
<1>2. IsNews(news')
  BY NewsAppend DEF CopyInv
<1>3. MenuKin
  BY MenuUnchanged
<1>4. MenuSound'
  BY <1>3, KinSoundNext DEF CopyInv
<1>5. IsNews(news)' /\ IsSeq(calls)'
  BY <1>2 DEF IsNews, CopyInv, IsSeq
<1>6. QED BY <1>1, <1>3, <1>4, <1>5 DEF CopyInv, MenuStays

LEMMA ProgramSteps ==
  ASSUME CopyInv,
         ChangeLayout \/ ChangeSubmenu \/ ChangeProps \/ ResetProp \/ RequestActivation
  PROVE  CopyInv' /\ MenuStays
<1>1. DOMAIN program = ProgramFields /\ program.layout \in program.layouts
  BY ProgramFacts DEF CopyInv
<1>2. CASE ChangeLayout
  <2>1. PICK layout \in program.layouts :
          /\ program' = [program EXCEPT !.layout = layout, !.revision = @ + 1, !.changes = @ + 1]
          /\ news' = Append(news, [kind |-> "updated", parent |-> 0,
                                   revision |-> program.revision + 1])
          /\ UNCHANGED <<calls, menu>>
    BY <1>2 DEF ChangeLayout
  <2>2. /\ DOMAIN program' = DOMAIN program /\ program'.layouts = program.layouts
        /\ program'.layout \in program.layouts
    BY <1>1, <2>1 DEF ProgramFields
  <2>3. PICK e : e = [kind |-> "updated", parent |-> 0, revision |-> program.revision + 1]
    OBVIOUS
  <2>4. e.kind # "layout"
    BY <2>3
  <2>5. QED BY <2>1, <2>2, <2>3, <2>4, SaidStep
<1>3. CASE ChangeSubmenu
  <2>1. PICK id \in Ids :
          /\ program' = [program EXCEPT !.revision = @ + 1, !.changes = @ + 1]
          /\ news' = Append(news, [kind |-> "updated", parent |-> id,
                                   revision |-> program.revision + 1])
          /\ UNCHANGED <<calls, menu>>
    BY <1>3 DEF ChangeSubmenu
  <2>2. /\ DOMAIN program' = DOMAIN program /\ program'.layouts = program.layouts
        /\ program'.layout \in program.layouts
    BY <1>1, <2>1 DEF ProgramFields
  <2>3. PICK e : e = [kind |-> "updated", parent |-> id, revision |-> program.revision + 1]
    OBVIOUS
  <2>4. e.kind # "layout"
    BY <2>3
  <2>5. QED BY <2>1, <2>2, <2>3, <2>4, SaidStep
<1>4. CASE ChangeProps
  <2>1. PICK u \in program.updates :
          program' = Changed(u) /\ news' = Append(news, PropsNews(u)) /\ UNCHANGED <<calls, menu>>
    BY <1>4 DEF ChangeProps
  <2>2. /\ DOMAIN program' = DOMAIN program /\ program'.layouts = program.layouts
        /\ program'.layout \in program.layouts
    BY <1>1, <2>1 DEF ProgramFields, Changed
  <2>3. PICK e : e = PropsNews(u)
    OBVIOUS
  <2>4. e.kind # "layout"
    BY <2>3 DEF PropsNews
  <2>5. QED BY <2>1, <2>2, <2>3, <2>4, SaidStep
<1>5. CASE ResetProp
  <2>1. PICK r \in program.removals :
          /\ program' = [program EXCEPT !.props[r.id] = [p \in DOMAIN @ \ {r.prop} |-> @[p]],
                                        !.changes = @ + 1]
          /\ news' = Append(news, [kind |-> "removed", id |-> r.id, prop |-> r.prop])
          /\ UNCHANGED <<calls, menu>>
    BY <1>5 DEF ResetProp
  <2>2. /\ DOMAIN program' = DOMAIN program /\ program'.layouts = program.layouts
        /\ program'.layout \in program.layouts
    BY <1>1, <2>1 DEF ProgramFields
  <2>3. PICK e : e = [kind |-> "removed", id |-> r.id, prop |-> r.prop]
    OBVIOUS
  <2>4. e.kind # "layout"
    BY <2>3
  <2>5. QED BY <2>1, <2>2, <2>3, <2>4, SaidStep
<1>6. CASE RequestActivation
  <2>1. PICK id \in program.requests :
          /\ program' = [program EXCEPT !.changes = @ + 1]
          /\ news' = Append(news, [kind |-> "activate", id |-> id])
          /\ UNCHANGED <<calls, menu>>
    BY <1>6 DEF RequestActivation
  <2>2. /\ DOMAIN program' = DOMAIN program /\ program'.layouts = program.layouts
        /\ program'.layout \in program.layouts
    BY <1>1, <2>1 DEF ProgramFields
  <2>3. PICK e : e = [kind |-> "activate", id |-> id]
    OBVIOUS
  <2>4. e.kind # "layout"
    BY <2>3
  <2>5. QED BY <2>1, <2>2, <2>3, <2>4, SaidStep
<1>7. QED BY <1>2, <1>3, <1>4, <1>5, <1>6

LEMMA TailNews ==
  ASSUME CopyInv, news # <<>>
  PROVE  IsNews(Tail(news))
BY NewsTail DEF CopyInv

LEMMA LayoutStep ==
  ASSUME CopyInv, get_layout_cb
  PROVE  CopyInv' /\ MenuStays
<1>1. PICK freed \in FreedPositions :
        LET p == layout_parse(Head(news).children, freed) IN Replace(p.sections, p.queue)
  BY DEF get_layout_cb
<1>2. PICK children : children = Head(news).children
  OBVIOUS
<1>3. PICK p : p = layout_parse(children, freed)
  OBVIOUS
<1>4. menu' = [menu EXCEPT !.sections = p.sections]
  BY <1>1, <1>2, <1>3 DEF Replace
<1>5. /\ news # <<>> /\ Head(news).kind = "layout" /\ Head(news).menu = Top
      /\ news' = Tail(news) /\ UNCHANGED <<program, calls>>
  BY DEF get_layout_cb, Told
<1>6. Len(children) \in Nat
  <2>1. PICK s : s = news
    OBVIOUS
  <2>2. IsSeq(s) /\ s # <<>> /\ Head(s) = s[1] /\ Len(s) >= 1 /\ Len(s) \in Nat
    BY <1>5, <2>1, TailAny, SeqFacts DEF CopyInv, IsNews, Rest
  <2>3. 1 \in 1..Len(s)
    BY <2>2
  <2>4. QED BY <1>2, <1>5, <2>1, <2>2, <2>3 DEF CopyInv, IsNews
<1>7. Sound(p.sections)
  BY <1>3, <1>6, LayoutSound DEF CopyInv, MenuSound
<1>8. MenuSound'
  BY <1>4, <1>7 DEF CopyInv, MenuSound, MenuFields
<1>9. IsNews(news')
  BY <1>5, TailNews
<1>10. IsNews(news)' /\ IsSeq(calls)' /\ IsProgram'
  BY <1>5, <1>9 DEF IsNews, CopyInv, IsSeq, IsProgram
<1>11. QED BY <1>8, <1>10 DEF CopyInv, MenuStays

LEMMA SubmenuStep ==
  ASSUME CopyInv, get_layout_cb_submenu
  PROVE  CopyInv' /\ MenuStays
<1>1. news # <<>> /\ news' = Tail(news) /\ UNCHANGED <<program, calls, menu>>
  BY DEF get_layout_cb_submenu, Told
<1>2. IsNews(news') /\ IsSeq(calls')
  BY <1>1, TailNews DEF CopyInv
<1>3. QED BY <1>1, <1>2, MenuUnchanged, QuietStep

LEMMA RequestsSeq ==
  ASSUME NEW ms, IsFiniteSet(ms)
  PROVE  IsSeq(SetToSeq(Requests(ms)))
<1>1. PICK f : f = [m \in ms |-> [menu |-> m, parent |-> menus[m].parent_id]]
  OBVIOUS
<1>2. DOMAIN f = ms /\ Requests(ms) = {f[m] : m \in ms}
  BY <1>1 DEF Requests
<1>3. IsFiniteSet({f[m] : m \in ms})
  BY <1>2, ImageFinite
<1>4. QED BY <1>2, <1>3, SetAsSeq

LEMMA UpdatedStep ==
  ASSUME CopyInv, layout_updated_cb
  PROVE  CopyInv' /\ MenuStays
<1>1. news # <<>> /\ program' = program
  BY DEF layout_updated_cb, Told
<1>2. PICK parent, revision : parent = Head(news).parent /\ revision = Head(news).revision
  OBVIOUS
<1>3. IsNews(Tail(news))
  BY <1>1, TailNews
<1>4. CASE parent = 0
  <2>1. /\ news' = Tail(news)
        /\ \/ /\ calls' = Append(calls, [menu |-> Top, parent |-> 0])
              /\ menu' = [menu EXCEPT !.current_revision = revision]
           \/ calls' = calls /\ menu' = menu
    BY <1>2, <1>4 DEF layout_updated_cb
  <2>2. IsSeq(calls')
    <3>1. PICK c : c = [menu |-> Top, parent |-> 0]
      OBVIOUS
    <3>2. IsSeq(calls) /\ (calls' = Append(calls, c) \/ calls' = calls)
      BY <2>1, <3>1 DEF CopyInv
    <3>3. IsSeq(Append(calls, c))
      BY <3>2, AppendAny
    <3>4. QED BY <3>2, <3>3
  <2>3. DOMAIN menu' = MenuFields /\ menu'.sections = menu.sections
    BY <2>1 DEF CopyInv, MenuSound, MenuFields
  <2>4. MenuKin
    BY <2>3, SameMenu DEF CopyInv
  <2>5. QED BY <1>1, <1>3, <2>1, <2>2, <2>4, QuietStep
<1>5. CASE parent # 0
  <2>1. PICK asking : asking = {m \in Linked(menu.sections) : menus[m].parent_id = parent}
    OBVIOUS
  <2>2. PICK known : known = (Places(menu.sections, parent) # {})
    OBVIOUS
  <2>3. /\ IF known
           THEN /\ news' = Answered(Tail(news))
                /\ calls' = SetToSeq(Requests(asking))
           ELSE /\ news' = Tail(news)
                /\ calls' = calls \o SetToSeq(Requests(asking))
        /\ IF known /\ parent \in Ids
           THEN UpdateItem(parent, program.props[parent])
           ELSE UNCHANGED <<menu, view, group>>
    BY <1>2, <1>5, <2>1, <2>2 DEF layout_updated_cb
  <2>4. IsFiniteSet(asking)
    <3>1. IsFiniteSet(Linked(menu.sections))
      BY LinkedFinite DEF CopyInv, MenuSound, Sound
    <3>2. asking \subseteq Linked(menu.sections)
      BY <2>1
    <3>3. QED BY <3>1, <3>2, FS_Subset
  <2>5. PICK r : r = SetToSeq(Requests(asking))
    OBVIOUS
  <2>6. IsSeq(r)
    BY <2>4, <2>5, RequestsSeq
  <2>7. IsSeq(calls')
    BY <2>3, <2>5, <2>6, ConcatAny DEF CopyInv, Joined
  <2>8. IsNews(news')
    BY <1>3, <2>3, NewsAnswered DEF CopyInv
  <2>9. MenuKin
    BY <2>3, MenuUnchanged, UpdateItemKin DEF CopyInv
  <2>10. QED BY <1>1, <2>7, <2>8, <2>9, QuietStep
<1>6. QED BY <1>4, <1>5

LEMMA PropertiesStep ==
  ASSUME CopyInv, items_properties_updated_cb
  PROVE  CopyInv' /\ MenuStays
<1>1. /\ news # <<>> /\ news' = Tail(news) /\ UNCHANGED <<program, calls>>
      /\ UpdateItem(Head(news).id, Head(news).props)
  BY DEF items_properties_updated_cb, Told
<1>2. IsNews(news') /\ IsSeq(calls')
  BY <1>1, TailNews DEF CopyInv
<1>3. MenuKin
  BY <1>1, UpdateItemKin DEF CopyInv
<1>4. QED BY <1>1, <1>2, <1>3, QuietStep

LEMMA RemovedStep ==
  ASSUME CopyInv, items_properties_removed
  PROVE  CopyInv' /\ MenuStays
<1>1. /\ news # <<>> /\ news' = Tail(news) /\ UNCHANGED <<program, calls>>
  BY DEF items_properties_removed, Told
<1>2. IsNews(news') /\ IsSeq(calls')
  BY <1>1, TailNews DEF CopyInv
<1>3. MenuKin
  <2>1. PICK id, prop : id = Head(news).id /\ prop = Head(news).prop
    OBVIOUS
  <2>2. CASE Places(menu.sections, id) = {}
    BY <2>1, <2>2, MenuUnchanged DEF items_properties_removed
  <2>3. CASE Places(menu.sections, id) # {}
    <3>1. PICK at : at = First(Places(menu.sections, id))
      OBVIOUS
    <3>2. PICK old : old = menu.sections[at[1]].items[at[2]]
      OBVIOUS
    <3>3. PICK i : i = remove_prop(old, prop)
      OBVIOUS
    <3>4. \E tell : Updated(at, i, tell)
      BY <2>1, <2>3, <3>1, <3>2, <3>3 DEF items_properties_removed
    <3>5. at \in Spots(menu.sections) /\ IsEntry(old) /\ MenuSound
      BY <2>3, <3>1, <3>2, FoundPlace DEF CopyInv
    <3>6. Same(old, i)
      BY <3>3, <3>5, RemovePropSame
    <3>7. QED BY <3>2, <3>4, <3>5, <3>6, UpdatedKin
  <2>4. QED BY <2>2, <2>3
<1>4. QED BY <1>1, <1>2, <1>3, QuietStep

\* A click: the program may switch a check.
LEMMA ActivateStep ==
  ASSUME CopyInv, NEW id, NEW sent, IsNews(sent), Activate(id, sent), menu' = menu
  PROVE  CopyInv' /\ MenuStays
<1>1. CASE UNCHANGED <<program, calls, group>> /\ news' = sent
  <2>1. program' = program /\ IsSeq(calls') /\ IsNews(news')
    BY <1>1 DEF CopyInv
  <2>2. QED BY <2>1, MenuUnchanged, QuietStep
<1>2. CASE Clicked(id, sent) /\ calls' = <<>>
  <2>1. IsNews(Answered(sent))
    BY NewsAnswered DEF CopyInv
  <2>2. DOMAIN program = ProgramFields /\ program.layout \in program.layouts
    BY ProgramFacts DEF CopyInv
  <2>3. PICK u : u = [id |-> id, props |-> "toggle-state" :> ~program.props[id]["toggle-state"]]
    OBVIOUS
  <2>4. \/ program' = Changed(u) /\ news' = Append(Answered(sent), PropsNews(u))
        \/ program' = [program EXCEPT !.changes = @ + 1] /\ news' = Answered(sent)
    BY <1>2, <2>3 DEF Clicked
  <2>5. /\ DOMAIN program' = DOMAIN program /\ program'.layouts = program.layouts
        /\ program'.layout \in program.layouts
    BY <2>2, <2>4 DEF ProgramFields, Changed
  <2>6. IsNews(news')
    <3>1. PICK e : e = PropsNews(u)
      OBVIOUS
    <3>2. e.kind # "layout"
      BY <3>1 DEF PropsNews
    <3>3. QED BY <2>1, <2>4, <3>1, <3>2, NewsAppend
  <2>7. IsProgram'
    BY <2>5, ProgramKeeps DEF CopyInv
  <2>8. MenuKin
    BY MenuUnchanged
  <2>9. IsNews(news)' /\ IsSeq(calls)'
    BY <1>2, <2>6, EmptyAny DEF IsNews, IsSeq
  <2>10. MenuSound'
    BY <2>8, KinSoundNext DEF CopyInv
  <2>11. QED BY <2>7, <2>8, <2>9, <2>10 DEF CopyInv, MenuStays
<1>3. QED BY <1>1, <1>2 DEF Activate

LEMMA ActivationSteps ==
  ASSUME CopyInv, item_activation_requested_cb \/ Click
  PROVE  CopyInv' /\ MenuStays
<1>1. CASE item_activation_requested_cb
  <2>1. /\ news # <<>> /\ menu' = menu
        /\ \/ Activate(Head(news).id, Tail(news))
           \/ UNCHANGED <<program, calls, group>> /\ news' = Tail(news)
    BY <1>1 DEF item_activation_requested_cb, Told
  <2>2. CASE Activate(Head(news).id, Tail(news))
    BY <2>1, <2>2, TailNews, ActivateStep
  <2>3. CASE UNCHANGED <<program, calls, group>> /\ news' = Tail(news)
    <3>1. program' = program /\ IsSeq(calls') /\ IsNews(news')
      BY <2>1, <2>3, TailNews DEF CopyInv
    <3>2. QED BY <2>1, <3>1, MenuUnchanged, QuietStep
  <2>4. QED BY <2>1, <2>2, <2>3
<1>2. CASE Click
  <2>1. PICK e \in ShownEntries : Activate(e[1], news) /\ menu' = menu
    BY <1>2 DEF Click
  <2>2. IsNews(news)
    BY DEF CopyInv
  <2>3. QED BY <2>1, <2>2, ActivateStep
<1>3. QED BY <1>1, <1>2

\* The user opens or closes a submenu: the program is told, and maybe asked.
LEMMA OpenStep ==
  ASSUME CopyInv, state_submenu_cb_open
  PROVE  CopyInv' /\ MenuStays
<1>1. \E m : /\ program' = [program EXCEPT !.changes = @ + 1] /\ news' = Answered(news)
             /\ calls' \in {update_layout(m), <<>>} /\ menu' = menu
  BY DEF state_submenu_cb_open
<1>2. IsSeq(calls')
  BY <1>1, OneAny, EmptyAny DEF update_layout
<1>3. IsNews(news')
  BY <1>1, NewsAnswered DEF CopyInv
<1>4. IsProgram'
  <2>1. DOMAIN program = ProgramFields /\ program.layout \in program.layouts
    BY ProgramFacts DEF CopyInv
  <2>2. /\ DOMAIN program' = DOMAIN program /\ program'.layouts = program.layouts
        /\ program'.layout \in program.layouts
    BY <1>1, <2>1 DEF ProgramFields
  <2>3. QED BY <2>2, ProgramKeeps DEF CopyInv
<1>5. MenuKin
  BY <1>1, MenuUnchanged
<1>6. MenuSound'
  BY <1>5, KinSoundNext DEF CopyInv
<1>7. IsNews(news)' /\ IsSeq(calls)'
  BY <1>2, <1>3 DEF IsNews, IsSeq
<1>8. QED BY <1>4, <1>5, <1>6, <1>7 DEF CopyInv, MenuStays

LEMMA ReopenStep ==
  ASSUME CopyInv, state_submenu_cb_reopen
  PROVE  CopyInv' /\ MenuStays
<1>1. \E m : /\ program' = [program EXCEPT !.changes = @ + 1] /\ news' = news
             /\ calls' = calls \o update_layout(m) \/ calls' = calls
             /\ menu' = menu
  BY DEF state_submenu_cb_reopen
<1>2. IsSeq(calls')
  <2>1. PICK m : calls' = calls \o update_layout(m) \/ calls' = calls
    BY <1>1
  <2>2. PICK t : t = update_layout(m)
    OBVIOUS
  <2>3. IsSeq(t)
    BY <2>2, OneAny DEF update_layout
  <2>4. QED BY <2>1, <2>2, <2>3, ConcatAny DEF CopyInv, Joined
<1>3. IsProgram'
  <2>1. DOMAIN program = ProgramFields /\ program.layout \in program.layouts
    BY ProgramFacts DEF CopyInv
  <2>2. /\ DOMAIN program' = DOMAIN program /\ program'.layouts = program.layouts
        /\ program'.layout \in program.layouts
    BY <1>1, <2>1 DEF ProgramFields
  <2>3. QED BY <2>2, ProgramKeeps DEF CopyInv
<1>4. MenuKin
  BY <1>1, MenuUnchanged
<1>5. MenuSound'
  BY <1>4, KinSoundNext DEF CopyInv
<1>6. IsNews(news)' /\ IsSeq(calls)'
  BY <1>1, <1>2 DEF IsNews, IsSeq, CopyInv
<1>7. QED BY <1>3, <1>4, <1>5, <1>6 DEF CopyInv, MenuStays

LEMMA CloseStep ==
  ASSUME CopyInv, state_submenu_cb_close
  PROVE  CopyInv' /\ MenuStays
<1>1. news' = Answered(news) /\ calls' = <<>> /\ program' = program /\ menu' = menu
  BY DEF state_submenu_cb_close
<1>2. IsSeq(calls') /\ IsNews(news')
  BY <1>1, EmptyAny, NewsAnswered DEF CopyInv
<1>3. QED BY <1>1, <1>2, MenuUnchanged, QuietStep

LEMMA PreloadStep ==
  ASSUME CopyInv, preload_idle
  PROVE  CopyInv' /\ MenuStays
<1>1. PICK s \in DOMAIN menu.sections : \E k \in DOMAIN menu.sections[s].items, need \in BOOLEAN :
        LET m == Submenu(menu.sections[s].items[k]) IN
        /\ menu' = [menu EXCEPT !.sections[s].items[k].preload = FALSE]
        /\ IF m = NoMenu THEN UNCHANGED <<calls, news>>
           ELSE /\ news' = Answered(news)
                /\ calls' = IF need \/ menus[m].layout_update_required
                            THEN update_layout(m) ELSE <<>>
        /\ program' = program
  BY DEF preload_idle
<1>2. PICK ss : ss = menu.sections
  OBVIOUS
<1>3. PICK k, m :
        /\ k \in DOMAIN ss[s].items
        /\ menu' = [menu EXCEPT !.sections[s].items[k].preload = FALSE]
        /\ UNCHANGED <<calls, news>>
           \/ (news' = Answered(news) /\ calls' \in {update_layout(m), <<>>})
        /\ program' = program
  BY <1>1, <1>2
<1>4. IsSections(ss) /\ DOMAIN menu = MenuFields
  BY <1>2 DEF CopyInv, MenuSound, Sound
<1>5. s \in 1..Len(ss) /\ k \in 1..Len(ss[s].items) /\ IsItems(ss[s].items)
  <2>1. s \in 1..Len(ss)
    BY <1>2, <1>4, SeqFacts DEF IsSections
  <2>2. IsItems(ss[s].items)
    BY <1>4, <2>1 DEF IsSections
  <2>3. QED BY <1>3, <2>1, <2>2, SeqFacts DEF IsItems
<1>6. PICK old : old = ss[s].items[k]
  OBVIOUS
<1>7. PICK i : i = [old EXCEPT !.preload = FALSE]
  OBVIOUS
<1>8. Same(old, i)
  <2>1. IsEntry(old)
    BY <1>5, <1>6 DEF IsItems
  <2>2. IsEntry(i) /\ i.id = old.id /\ i.type = old.type /\ i.submenu = old.submenu
        /\ i.disabled_submenu = old.disabled_submenu
    BY <1>7, <2>1 DEF IsEntry
  <2>3. QED BY <2>2 DEF Same, Links
<1>9. PICK t : t = [ss EXCEPT ![s].items[k] = i]
  OBVIOUS
<1>10. menu' = [menu EXCEPT !.sections = t]
  BY <1>2, <1>3, <1>6, <1>7, <1>9
<1>11. DOMAIN menu' = MenuFields /\ menu'.sections = t
  BY <1>4, <1>10 DEF MenuFields
<1>12. Kin(ss, t)
  BY <1>4, <1>5, <1>6, <1>8, <1>9, KinOne
<1>13. MenuKin
  BY <1>2, <1>11, <1>12 DEF MenuKin
<1>14. IsSeq(calls')
  BY <1>3, OneAny, EmptyAny DEF update_layout, CopyInv
<1>15. IsNews(news')
  BY <1>3, NewsAnswered DEF CopyInv
<1>16. QED BY <1>3, <1>13, <1>14, <1>15, QuietStep

LEMMA CopyInvNext ==
  ASSUME CopyInv, [Next]_vars
  PROVE  CopyInv' /\ MenuStays
<1>1. CASE UNCHANGED vars
  <2>1. program' = program /\ calls' = calls /\ news' = news /\ menu' = menu
    BY <1>1 DEF vars
  <2>2. IsSeq(calls') /\ IsNews(news')
    BY <2>1 DEF CopyInv
  <2>3. QED BY <2>1, <2>2, MenuUnchanged, QuietStep
<1>2. CASE Next
  BY <1>2, ServeStep, ProgramSteps, LayoutStep, SubmenuStep, UpdatedStep, PropertiesStep,
     RemovedStep, ActivationSteps, OpenStep, ReopenStep, CloseStep, PreloadStep
  DEF Next, Handlers
<1>3. QED BY <1>1, <1>2

LEMMA SoundIsSound == CopyInv => SectionsSound
<1>1. SUFFICES ASSUME CopyInv PROVE SectionsSound
  OBVIOUS
<1>2. PICK ss : ss = menu.sections
  OBVIOUS
<1>3. IsSeq(ss) /\ Len(ss) >= 1 /\ (Len(ss) > 1 => \A k \in 1..Len(ss) : ss[k].items # <<>>)
  BY <1>1, <1>2 DEF CopyInv, MenuSound, Sound, IsSections
<1>4. ss # <<>>
  BY <1>3, SeqFacts
<1>5. Len(ss) > 1 => \A s \in ToSet(ss) : s.items # <<>>
  BY <1>3, SeqSet
<1>6. QED BY <1>2, <1>4, <1>5 DEF SectionsSound

\* Whatever layouts arrive, separators that come, go and are hidden, and however
\* updates and replies cross, no section of the copy is empty but a single one:
\* model.c keeps what dbus_menu_model_find relies on.
THEOREM SectionsAlwaysSound == Spec => []SectionsSound
<1>1. CopyInv /\ [Next]_vars => CopyInv'
  BY CopyInvNext
<1>2. QED BY CopyInvInit, <1>1, SoundIsSound, PTL DEF Spec


-----------------------------------------------------------------------------
(* Submenu models and their owners                                         *)

ItemAt(ss, x) == ss[x[1]].items[x[2]]

IsModels(ms) ==
  /\ DOMAIN ms = Menus
  /\ \A m \in Menus : DOMAIN ms[m] = {"parent_id", "layout_update_required", "content"}

\* The model m, which is now a, is the entry's with this id.
Serves(a, m, id, past) ==
  /\ a.parent_id = id
  /\ m \in past \/ a.content \subseteq {id} \/ a.layout_update_required

\* Every model of an entry is its own.  `past` are the models that got the
\* layout of another entry.
Owned(ss, ms, past) ==
  \A x \in Spots(ss) : \A m \in Links(ItemAt(ss, x)) :
    /\ m \in Menus /\ Serves(ms[m], m, ItemAt(ss, x).id, past)
    /\ \A y \in Spots(ss) \ {x} : m \notin Links(ItemAt(ss, y))

\* What is in t was there before, with all its models.
Within(ss, t) ==
  \A x \in Spots(t) : /\ x \in Spots(ss) /\ ItemAt(t, x).id = ItemAt(ss, x).id
                      /\ Links(ItemAt(t, x)) \subseteq Links(ItemAt(ss, x))

LEMMA WithinOwned ==
  ASSUME NEW ss, NEW ms, NEW past, Owned(ss, ms, past), NEW t, Within(ss, t)
  PROVE  Owned(t, ms, past)
<1>1. SUFFICES ASSUME NEW x \in Spots(t), NEW m \in Links(ItemAt(t, x))
               PROVE  /\ m \in Menus /\ Serves(ms[m], m, ItemAt(t, x).id, past)
                      /\ \A y \in Spots(t) \ {x} : m \notin Links(ItemAt(t, y))
  BY DEF Owned
<1>2. x \in Spots(ss) /\ ItemAt(t, x).id = ItemAt(ss, x).id /\ m \in Links(ItemAt(ss, x))
  BY <1>1 DEF Within
<1>3. /\ m \in Menus /\ Serves(ms[m], m, ItemAt(ss, x).id, past)
      /\ \A y \in Spots(ss) \ {x} : m \notin Links(ItemAt(ss, y))
  BY <1>2 DEF Owned
<1>4. ASSUME NEW y \in Spots(t) \ {x} PROVE m \notin Links(ItemAt(t, y))
  <2>1. y \in Spots(ss) \ {x} /\ Links(ItemAt(t, y)) \subseteq Links(ItemAt(ss, y))
    BY <1>4 DEF Within
  <2>2. QED BY <1>3, <2>1
<1>5. QED BY <1>2, <1>3, <1>4

\* What is in t is e, at z, or was there before.
Else(ss, t, z, e) ==
  \A x \in Spots(t) : IF x = z THEN ItemAt(t, x) = e
                      ELSE x \in Spots(ss) /\ ItemAt(t, x) = ItemAt(ss, x)

\* The models `now` are ms, but for m, which serves the entry with this id.
GivenTo(ms, now, m, id, past) ==
  /\ m \in Menus /\ Serves(now[m], m, id, past)
  /\ \A other \in Menus : other # m => now[other] = ms[other]

LEMMA ElseOwned ==
  ASSUME NEW ss, NEW ms, NEW past, Owned(ss, ms, past), NEW t, NEW z, NEW e, Else(ss, t, z, e),
         NEW now, NEW m, GivenTo(ms, now, m, e.id, past), Links(e) \subseteq {m},
         \A x \in Spots(ss) : x # z => m \notin Links(ItemAt(ss, x))
  PROVE  Owned(t, now, past)
<1>1. SUFFICES ASSUME NEW x \in Spots(t), NEW n \in Links(ItemAt(t, x))
               PROVE  /\ n \in Menus /\ Serves(now[n], n, ItemAt(t, x).id, past)
                      /\ \A y \in Spots(t) \ {x} : n \notin Links(ItemAt(t, y))
  BY DEF Owned
<1>2. CASE x = z
  <2>1. ItemAt(t, x) = e /\ n = m
    BY <1>1, <1>2 DEF Else
  <2>2. ASSUME NEW y \in Spots(t) \ {x} PROVE n \notin Links(ItemAt(t, y))
    <3>1. y \in Spots(ss) /\ y # z /\ ItemAt(t, y) = ItemAt(ss, y)
      BY <1>2, <2>2 DEF Else
    <3>2. QED BY <2>1, <3>1
  <2>3. QED BY <2>1, <2>2 DEF GivenTo
<1>3. CASE x # z
  <2>1. x \in Spots(ss) /\ ItemAt(t, x) = ItemAt(ss, x)
    BY <1>1, <1>3 DEF Else
  <2>2. /\ n \in Menus /\ Serves(ms[n], n, ItemAt(t, x).id, past)
        /\ \A y \in Spots(ss) \ {x} : n \notin Links(ItemAt(ss, y))
    BY <1>1, <2>1 DEF Owned
  <2>3. n # m
    BY <1>1, <1>3, <2>1
  <2>4. now[n] = ms[n]
    BY <2>2, <2>3 DEF GivenTo
  <2>5. ASSUME NEW y \in Spots(t) \ {x} PROVE n \notin Links(ItemAt(t, y))
    <3>1. CASE y = z
      <4>1. ItemAt(t, y) = e
        BY <2>5, <3>1 DEF Else
      <4>2. QED BY <2>3, <4>1
    <3>2. CASE y # z
      <4>1. y \in Spots(ss) \ {x} /\ ItemAt(t, y) = ItemAt(ss, y)
        BY <2>5, <3>2 DEF Else
      <4>2. QED BY <2>2, <4>1
    <3>3. QED BY <3>1, <3>2
  <2>6. QED BY <2>2, <2>4, <2>5
<1>4. QED BY <1>2, <1>3

\* The same if the entry at z has no model at all.
LEMMA ElseBare ==
  ASSUME NEW ss, NEW ms, NEW past, Owned(ss, ms, past), NEW t, NEW z, NEW e, Else(ss, t, z, e),
         Links(e) = {}
  PROVE  Owned(t, ms, past)
<1>1. SUFFICES ASSUME NEW x \in Spots(t), NEW n \in Links(ItemAt(t, x))
               PROVE  /\ n \in Menus /\ Serves(ms[n], n, ItemAt(t, x).id, past)
                      /\ \A y \in Spots(t) \ {x} : n \notin Links(ItemAt(t, y))
  BY DEF Owned
<1>2. x # z
  BY <1>1 DEF Else
<1>3. x \in Spots(ss) /\ ItemAt(t, x) = ItemAt(ss, x)
  BY <1>1, <1>2 DEF Else
<1>4. /\ n \in Menus /\ Serves(ms[n], n, ItemAt(t, x).id, past)
      /\ \A y \in Spots(ss) \ {x} : n \notin Links(ItemAt(ss, y))
  BY <1>1, <1>3 DEF Owned
<1>5. ASSUME NEW y \in Spots(t) \ {x} PROVE n \notin Links(ItemAt(t, y))
  <2>1. CASE y = z
    BY <1>5, <2>1 DEF Else
  <2>2. CASE y # z
    <3>1. y \in Spots(ss) \ {x} /\ ItemAt(t, y) = ItemAt(ss, y)
      BY <1>5, <2>2 DEF Else
    <3>2. QED BY <1>4, <3>1
  <2>3. QED BY <2>1, <2>2
<1>6. QED BY <1>4, <1>5

LEMMA LinkedThere ==
  ASSUME NEW ss, IsSections(ss), NEW x \in Spots(ss), NEW m \in Links(ItemAt(ss, x))
  PROVE  m \in Linked(ss)
<1>1. x[1] \in 1..Len(ss) /\ x[2] \in 1..Len(ss[x[1]].items)
  BY SpotsFacts
<1>2. PICK s, i : s = ss[x[1]] /\ i = s.items[x[2]]
  OBVIOUS
<1>3. s \in ToSet(ss)
  BY <1>1, <1>2, SeqSet DEF IsSections
<1>4. i \in ToSet(s.items)
  <2>1. IsSeq(s.items)
    BY <1>1, <1>2 DEF IsSections, IsItems
  <2>2. QED BY <1>1, <1>2, <2>1, SeqSet
<1>5. i \in ItemsOf(ss)
  BY <1>3, <1>4 DEF ItemsOf
<1>6. m \in {i.submenu, i.disabled_submenu} /\ m # NoMenu
  BY <1>2 DEF Links, ItemAt
<1>7. QED BY <1>5, <1>6 DEF Linked

\* There is a model that nothing links to, nobody asks for and nothing is sent to.
LEMMA FreshNew ==
  ASSUME ~IsFiniteSet(Menus), IsSeq(calls), IsSeq(news), NEW p, IsSections(p.sections)
  PROVE  Fresh(p) \in Menus /\ Fresh(p) \notin Linked(p.sections)
<1>1. IsFiniteSet(Linked(p.sections))
  BY LinkedFinite
<1>2. PICK C : C = {c.menu : c \in ToSet(calls)}
  OBVIOUS
<1>3. IsFiniteSet(C)
  <2>1. PICK f : f = [c \in ToSet(calls) |-> c.menu]
    OBVIOUS
  <2>2. DOMAIN f = ToSet(calls) /\ C = {f[c] : c \in ToSet(calls)}
    BY <1>2, <2>1
  <2>3. IsFiniteSet(ToSet(calls))
    BY SeqSet
  <2>4. QED BY <2>2, <2>3, ImageFinite
<1>4. PICK N : N = {a.menu : a \in ToSet(news)}
  OBVIOUS
<1>5. IsFiniteSet(N)
  <2>1. PICK f : f = [a \in ToSet(news) |-> a.menu]
    OBVIOUS
  <2>2. DOMAIN f = ToSet(news) /\ N = {f[a] : a \in ToSet(news)}
    BY <1>4, <2>1
  <2>3. IsFiniteSet(ToSet(news))
    BY SeqSet
  <2>4. QED BY <2>2, <2>3, ImageFinite
<1>6. PICK U : U = (Linked(p.sections) \cup C) \cup N
  OBVIOUS
<1>7. IsFiniteSet(U)
  BY <1>1, <1>3, <1>5, <1>6, FS_Union
<1>8. \E m \in Menus : m \notin U
  <2>1. SUFFICES ASSUME Menus \subseteq U PROVE FALSE
    OBVIOUS
  <2>2. QED BY <1>7, <2>1, FS_Subset
<1>9. PICK m \in Menus : m \notin U
  BY <1>8
<1>10. /\ m \notin Linked(p.sections)
       /\ \A c \in ToSet(calls) : c.menu # m
       /\ \A a \in ToSet(news) : a.kind = "layout" => a.menu # m
  BY <1>2, <1>4, <1>6, <1>9
<1>11. QED BY <1>9, <1>10 DEF Fresh

-----------------------------------------------------------------------------
(* layout_parse keeps the models apart                                     *)

LEMMA SeparatedWithin ==
  ASSUME NEW p, InPlace(p), NEW u, Separated(p, u)
  PROVE  Within(p.sections, u.sections)
<1>1. PICK s, t, q, items : s = p.sections /\ t = u.sections /\ q = p.n + 1 /\ items = s[q].items
  OBVIOUS
<1>2. /\ IsSections(s) /\ IsSections(t) /\ IsItems(items) /\ q \in 1..Len(s) /\ Len(s) \in Nat
      /\ p.at \in 0..Len(items) /\ Len(items) \in Nat
  BY <1>1, CurrentFacts DEF InPlace, Separated
<1>3. /\ q < Len(s) => Len(t) = Len(s)
      /\ q = Len(s) => Len(t) = q + 1 /\ t[q + 1].items = <<>>
      /\ t[q].items = SubSeq(items, 1, p.at)
      /\ \A k \in 1..Len(s) : k # q => t[k] = s[k]
  BY <1>1 DEF Separated
<1>4. PICK front : front = SubSeq(items, 1, p.at)
  OBVIOUS
<1>5. IsItems(front) /\ Len(front) = p.at /\ \A k \in 1..p.at : front[k] = items[k]
  <2>1. IsSeq(items)
    BY <1>2 DEF IsItems
  <2>2. QED BY <1>2, <1>4, <2>1, FrontItems, FrontAny
<1>6. ASSUME NEW x \in Spots(t) PROVE x \in Spots(s) /\ ItemAt(t, x) = ItemAt(s, x)
  <2>1. PICK a, b : a = x[1] /\ b = x[2]
    OBVIOUS
  <2>2. x = <<a, b>> /\ a \in 1..Len(t) /\ b \in 1..Len(t[a].items)
    BY <1>2, <2>1, SpotsFacts
  <2>3. a \in 1..Len(s)
    <3>1. SUFFICES ASSUME a \notin 1..Len(s) PROVE FALSE
      OBVIOUS
    <3>2. q = Len(s) /\ a = q + 1
      BY <1>2, <1>3, <2>2, <3>1
    <3>3. t[a].items = <<>>
      BY <1>3, <3>2
    <3>4. QED BY <2>2, <3>3, EmptyAny
  <2>4. CASE a = q
    <3>1. b \in 1..p.at /\ t[a].items = front /\ s[a].items = items
      BY <1>1, <1>3, <1>4, <1>5, <2>2, <2>4
    <3>2. b \in 1..Len(items) /\ front[b] = items[b]
      BY <1>2, <1>5, <3>1
    <3>3. QED BY <1>2, <2>1, <2>2, <2>3, <3>1, <3>2, SpotsFacts DEF ItemAt
  <2>5. CASE a # q
    <3>1. t[a] = s[a]
      BY <1>3, <2>3, <2>5
    <3>2. QED BY <1>2, <2>1, <2>2, <2>3, <3>1, SpotsFacts DEF ItemAt
  <2>6. QED BY <2>4, <2>5
<1>7. QED BY <1>1, <1>6 DEF Within

LEMMA EndedWithin ==
  ASSUME NEW p, InPlace(p), NEW u, Ended(p, u)
  PROVE  Within(p.sections, u.sections)
<1>1. PICK s, t, q, items : s = p.sections /\ t = u.sections /\ q = p.n + 1 /\ items = s[q].items
  OBVIOUS
<1>2. /\ IsSections(s) /\ IsSections(t) /\ IsItems(items) /\ q \in 1..Len(s) /\ Len(s) \in Nat
      /\ Len(items) \in Nat /\ p.n \in Nat
  BY <1>1, CurrentFacts DEF InPlace, Ended
<1>3. /\ Len(t) = IF Taken(p) THEN q ELSE p.n
      /\ \A k \in 1..Len(t) : k # q => t[k] = s[k]
      /\ Taken(p) => Stays(p, t[q].items)
  BY <1>1 DEF Ended
<1>4. ASSUME NEW x \in Spots(t) PROVE x \in Spots(s) /\ ItemAt(t, x) = ItemAt(s, x)
  <2>1. PICK a, b : a = x[1] /\ b = x[2]
    OBVIOUS
  <2>2. x = <<a, b>> /\ a \in 1..Len(t) /\ b \in 1..Len(t[a].items)
    BY <1>2, <2>1, SpotsFacts
  <2>3. a \in 1..Len(s) /\ (a = q => Taken(p))
    BY <1>1, <1>2, <1>3, <2>2
  <2>4. CASE a = q
    <3>1. PICK at \in 0..Len(items) : t[q].items = SubSeq(items, 1, at)
      BY <1>1, <1>3, <2>3, <2>4 DEF Stays
    <3>2. PICK front : front = SubSeq(items, 1, at)
      OBVIOUS
    <3>3. Len(front) = at /\ \A k \in 1..at : front[k] = items[k]
      <4>1. IsSeq(items)
        BY <1>2 DEF IsItems
      <4>2. QED BY <3>2, <4>1, FrontAny
    <3>4. b \in 1..at /\ t[a].items = front /\ s[a].items = items
      BY <1>1, <2>2, <2>4, <3>1, <3>2, <3>3
    <3>5. b \in 1..Len(items) /\ front[b] = items[b]
      BY <1>2, <3>3, <3>4
    <3>6. QED BY <1>2, <2>1, <2>2, <2>3, <3>4, <3>5, SpotsFacts DEF ItemAt
  <2>5. CASE a # q
    <3>1. t[a] = s[a]
      BY <1>3, <2>2, <2>5
    <3>2. QED BY <1>2, <2>1, <2>2, <2>3, <3>1, SpotsFacts DEF ItemAt
  <2>6. QED BY <2>4, <2>5
<1>5. QED BY <1>1, <1>4 DEF Within

LEMMA KinWithin ==
  ASSUME NEW ss, IsSections(ss), NEW t, Kin(ss, t)
  PROVE  Within(ss, t)
<1>1. SUFFICES ASSUME NEW x \in Spots(t)
               PROVE  /\ x \in Spots(ss) /\ ItemAt(t, x).id = ItemAt(ss, x).id
                      /\ Links(ItemAt(t, x)) \subseteq Links(ItemAt(ss, x))
  BY DEF Within
<1>2. PICK a, b : a = x[1] /\ b = x[2]
  OBVIOUS
<1>3. x = <<a, b>> /\ a \in 1..Len(t) /\ b \in 1..Len(t[a].items)
  BY <1>2, SpotsFacts DEF Kin
<1>4. a \in 1..Len(ss) /\ b \in 1..Len(ss[a].items) /\ Same(ss[a].items[b], t[a].items[b])
  BY <1>3 DEF Kin
<1>5. QED BY <1>2, <1>3, <1>4, SpotsFacts DEF ItemAt, Same

\* With other items in the section q, which are the old ones but for e at k.
LEMMA PutElse ==
  ASSUME NEW ss, IsSections(ss), NEW q \in 1..Len(ss), NEW items, NEW t, IsSections(t),
         Put(ss, q, items, t), NEW k, NEW e, items[k] = e,
         \A j \in 1..Len(items) : j # k => j \in 1..Len(ss[q].items) /\ items[j] = ss[q].items[j]
  PROVE  Else(ss, t, <<q, k>>, e)
<1>1. SUFFICES ASSUME NEW x \in Spots(t)
               PROVE  IF x = <<q, k>> THEN ItemAt(t, x) = e
                      ELSE x \in Spots(ss) /\ ItemAt(t, x) = ItemAt(ss, x)
  BY DEF Else
<1>2. PICK a, b : a = x[1] /\ b = x[2]
  OBVIOUS
<1>3. x = <<a, b>> /\ a \in 1..Len(t) /\ b \in 1..Len(t[a].items)
  BY <1>2, SpotsFacts
<1>4. a \in 1..Len(ss) /\ t[q].items = items /\ (a # q => t[a] = ss[a])
  BY <1>3 DEF Put
<1>5. CASE a # q
  <2>1. b \in 1..Len(ss[a].items) /\ t[a] = ss[a] /\ x # <<q, k>>
    BY <1>3, <1>4, <1>5
  <2>2. QED BY <1>2, <1>3, <1>4, <2>1, SpotsFacts DEF ItemAt
<1>6. CASE a = q /\ b = k
  BY <1>2, <1>3, <1>4, <1>6 DEF ItemAt
<1>7. CASE a = q /\ b # k
  <2>1. b \in 1..Len(ss[q].items) /\ items[b] = ss[q].items[b] /\ x # <<q, k>>
    BY <1>3, <1>4, <1>7
  <2>2. QED BY <1>2, <1>3, <1>4, <1>7, <2>1, SpotsFacts DEF ItemAt
<1>8. QED BY <1>5, <1>6, <1>7


LEMMA WithNewFacts ==
  ASSUME NEW ms, IsModels(ms), NEW m \in Menus, NEW id, NEW now, now = WithNew(ms, m, id),
         NEW past
  PROVE  IsModels(now) /\ GivenTo(ms, now, m, id, past)
<1>1. PICK a : a = NewMenu(id)
  OBVIOUS
<1>2. /\ a.parent_id = id /\ a.content = {}
      /\ DOMAIN a = {"parent_id", "layout_update_required", "content"}
  BY <1>1 DEF NewMenu
<1>3. now = [ms EXCEPT ![m] = a]
  BY <1>1 DEF WithNew
<1>4. /\ DOMAIN now = Menus /\ now[m] = a
      /\ \A other \in Menus : other # m => now[other] = ms[other]
  BY <1>3 DEF IsModels
<1>5. IsModels(now)
  BY <1>2, <1>4 DEF IsModels
<1>6. Serves(a, m, id, past)
  BY <1>2 DEF Serves
<1>7. QED BY <1>4, <1>5, <1>6 DEF GivenTo

LEMMA InheritFacts ==
  ASSUME NEW ms, IsModels(ms), NEW m \in Menus, NEW id, NEW now, now = inherit(ms, m, id),
         NEW past
  PROVE  IsModels(now) /\ GivenTo(ms, now, m, id, past)
<1>1. PICK a : a = [ms[m] EXCEPT !.parent_id = id, !.layout_update_required = TRUE]
  OBVIOUS
<1>2. DOMAIN ms[m] = {"parent_id", "layout_update_required", "content"}
  BY DEF IsModels
<1>3. /\ a.parent_id = id /\ a.layout_update_required = TRUE
      /\ DOMAIN a = {"parent_id", "layout_update_required", "content"}
  BY <1>1, <1>2
<1>4. now = [ms EXCEPT ![m] = a]
  BY <1>1, MenusAssumption DEF inherit, IsModels
<1>5. /\ DOMAIN now = Menus /\ now[m] = a
      /\ \A other \in Menus : other # m => now[other] = ms[other]
  BY <1>4 DEF IsModels
<1>6. IsModels(now)
  BY <1>3, <1>5 DEF IsModels
<1>7. Serves(a, m, id, past)
  BY <1>3 DEF Serves
<1>8. QED BY <1>5, <1>6, <1>7 DEF GivenTo

ModelsOwned(p, past) == IsModels(p.menus) /\ Owned(p.sections, p.menus, past)

LEMMA AppendedOwned ==
  ASSUME NEW p, InPlace(p), NEW past, ModelsOwned(p, past), Fresh(p) \in Menus,
         Fresh(p) \notin Linked(p.sections), NEW u, NEW new, Behind(p, u, new)
  PROVE  ModelsOwned(u, past)
<1>1. PICK e : AppendedEntry(p, u, e, new)
  BY DEF Behind
<1>2. PICK s, t, q, items : s = p.sections /\ t = u.sections /\ q = p.n + 1 /\ items = s[q].items
  OBVIOUS
<1>3. IsSections(s) /\ q \in 1..Len(s) /\ IsItems(items)
  BY <1>2, CurrentFacts DEF InPlace
<1>4. IsSections(t) /\ Put(s, q, Append(items, e), t)
  BY <1>1, <1>2 DEF AppendedEntry, Appended, Moved
<1>5. PICK more : more = Append(items, e)
  OBVIOUS
<1>6. PICK l \in Nat : l = Len(items)
  BY <1>3, SeqFacts DEF IsItems
<1>7. Len(more) = l + 1 /\ more[l + 1] = e /\ \A k \in 1..l : more[k] = items[k]
  BY <1>3, <1>5, <1>6, AppendAny DEF IsItems
<1>8. \A j \in 1..Len(more) : j # l + 1 => j \in 1..Len(items) /\ more[j] = items[j]
  <2>1. \A j \in 1..l + 1 : j # l + 1 => j \in 1..l
    OBVIOUS
  <2>2. QED BY <1>6, <1>7, <2>1
<1>9. Else(s, t, <<q, l + 1>>, e)
  <2>1. Put(s, q, more, t)
    BY <1>4, <1>5
  <2>2. PICK k : k = l + 1
    OBVIOUS
  <2>3. /\ more[k] = e
        /\ \A j \in 1..Len(more) : j # k => j \in 1..Len(s[q].items) /\ more[j] = s[q].items[j]
    BY <1>2, <1>7, <1>8, <2>2
  <2>4. Else(s, t, <<q, k>>, e)
    BY <1>3, <1>4, <2>1, <2>3, PutElse
  <2>5. QED BY <2>2, <2>4
<1>10. PICK m, ms, given : m = Fresh(p) /\ ms = p.menus /\ given = WithNew(ms, m, new.id)
  OBVIOUS
<1>11. e.id = new.id /\ GivenModel(m, given, new.id, p, u, e)
  BY <1>1, <1>10 DEF AppendedEntry, SameLook
<1>12. IsModels(ms) /\ Owned(s, ms, past)
  BY <1>2, <1>10 DEF ModelsOwned
<1>13. CASE Links(e) = {} /\ u.menus = ms
  <2>1. Owned(t, ms, past)
    BY <1>9, <1>12, <1>13, ElseBare
  <2>2. QED BY <1>2, <1>12, <1>13, <2>1 DEF ModelsOwned
<1>14. CASE Links(e) \subseteq {m} /\ u.menus = given
  <2>1. m \in Menus
    BY <1>10
  <2>2. IsModels(given) /\ GivenTo(ms, given, m, e.id, past)
    BY <1>10, <1>11, <1>12, <2>1, WithNewFacts
  <2>3. \A x \in Spots(s) : m \notin Links(ItemAt(s, x))
    BY <1>2, <1>3, <1>10, LinkedThere
  <2>4. Owned(t, given, past)
    BY <1>9, <1>12, <1>14, <2>2, <2>3, ElseOwned
  <2>5. QED BY <1>2, <1>14, <2>2, <2>4 DEF ModelsOwned
<1>15. QED BY <1>10, <1>11, <1>13, <1>14 DEF GivenModel

LEMMA PlacedOwned ==
  ASSUME NEW p, InPlace(p), NEW past, ModelsOwned(p, past), NEW u, NEW new, NEW props,
         InsteadOf(p, u, new, props)
  PROVE  ModelsOwned(u, past)
<1>1. PICK e : PlacedEntry(p, u, e, new, props)
  BY DEF InsteadOf
<1>2. PICK s, t, q, items : s = p.sections /\ t = u.sections /\ q = p.n + 1 /\ items = s[q].items
  OBVIOUS
<1>3. PICK k : k = p.at + 1
  OBVIOUS
<1>4. PICK old : old = items[k]
  OBVIOUS
<1>5. IsSections(s) /\ q \in 1..Len(s) /\ IsItems(items) /\ k \in 1..Len(items)
  <2>1. /\ IsSections(s) /\ q \in 1..Len(s) /\ IsItems(items) /\ p.at \in 0..Len(items)
        /\ p.at # Len(items) /\ Len(items) \in Nat
    BY <1>2, CurrentFacts DEF InPlace, InsteadOf
  <2>2. QED BY <1>3, <2>1
<1>6. Placed(p, u, e)
  BY <1>1 DEF PlacedEntry
<1>7. PICK now : Replaced(items, k, e, now) /\ Put(s, q, now, t)
  BY <1>2, <1>3, <1>6 DEF Placed
<1>8. IsSections(t)
  BY <1>2, <1>6 DEF Placed, Moved
<1>9. PICK z : z = <<q, k>>
  OBVIOUS
<1>10. Else(s, t, z, e)
  BY <1>2, <1>5, <1>7, <1>8, <1>9, PutElse DEF Replaced
<1>11. z \in Spots(s) /\ ItemAt(s, z) = old
  BY <1>2, <1>4, <1>5, <1>9, SpotsFacts DEF ItemAt
<1>12. PICK ms : ms = p.menus
  OBVIOUS
<1>13. IsModels(ms) /\ Owned(s, ms, past)
  BY <1>2, <1>12 DEF ModelsOwned
<1>14. CASE Same(old, e) /\ u.menus = ms
  <2>1. Within(s, t)
    <3>1. SUFFICES ASSUME NEW x \in Spots(t)
                   PROVE  /\ x \in Spots(s) /\ ItemAt(t, x).id = ItemAt(s, x).id
                          /\ Links(ItemAt(t, x)) \subseteq Links(ItemAt(s, x))
      BY DEF Within
    <3>2. CASE x = z
      BY <1>10, <1>11, <1>14, <3>1, <3>2 DEF Else, Same
    <3>3. CASE x # z
      BY <1>10, <3>1, <3>3 DEF Else
    <3>4. QED BY <3>2, <3>3
  <2>2. Owned(t, ms, past)
    BY <1>13, <2>1, WithinOwned
  <2>3. QED BY <1>2, <1>13, <1>14, <2>2 DEF ModelsOwned
<1>15. ASSUME NEW m, m \in Links(old) \cup {NoMenu}, e.id = new.id,
              GivenModel(m, inherit(ms, m, new.id), new.id, p, u, e)
       PROVE  ModelsOwned(u, past)
  <2>1. PICK given : given = inherit(ms, m, new.id)
    OBVIOUS
  <2>2. \/ Links(e) = {} /\ u.menus = ms
        \/ Links(e) \subseteq {m} /\ u.menus = given
    BY <1>12, <1>15, <2>1 DEF GivenModel
  <2>3. CASE Links(e) = {} /\ u.menus = ms
    <3>1. Owned(t, ms, past)
      BY <1>10, <1>13, <2>3, ElseBare
    <3>2. QED BY <1>2, <1>13, <2>3, <3>1 DEF ModelsOwned
  <2>4. CASE Links(e) \subseteq {m} /\ u.menus = given /\ m = NoMenu
    <3>1. Links(e) = {}
      BY <2>4 DEF Links
    <3>2. given = ms
      BY <2>1, <2>4 DEF inherit
    <3>3. QED BY <2>3, <2>4, <3>1, <3>2
  <2>5. CASE Links(e) \subseteq {m} /\ u.menus = given /\ m # NoMenu
    <3>1. m \in Links(old)
      BY <1>15, <2>5
    <3>2. m \in Menus /\ \A x \in Spots(s) : x # z => m \notin Links(ItemAt(s, x))
      BY <1>11, <1>13, <3>1 DEF Owned
    <3>3. IsModels(given) /\ GivenTo(ms, given, m, e.id, past)
      BY <1>13, <1>15, <2>1, <3>2, InheritFacts
    <3>4. Owned(t, given, past)
      BY <1>10, <1>13, <2>5, <3>2, <3>3, ElseOwned
    <3>5. QED BY <1>2, <2>5, <3>3, <3>4 DEF ModelsOwned
  <2>6. QED BY <2>2, <2>3, <2>4, <2>5
<1>16. CASE compare_immutable(old, new)
  <2>1. Same(old, e) /\ u.menus = ms
    BY <1>1, <1>2, <1>3, <1>4, <1>12, <1>16 DEF PlacedEntry
  <2>2. QED BY <1>14, <2>1
<1>17. CASE ~compare_immutable(old, new)
  <2>1. e.id = new.id /\ \E m : /\ m \in Links(old) \cup {NoMenu}
                                 /\ GivenModel(m, inherit(ms, m, new.id), new.id, p, u, e)
    BY <1>1, <1>2, <1>3, <1>4, <1>12, <1>17 DEF PlacedEntry, SameLook
  <2>2. QED BY <1>15, <2>1
<1>18. QED BY <1>16, <1>17

LEMMA SeparatedOwned ==
  ASSUME NEW p, InPlace(p), NEW past, ModelsOwned(p, past), NEW u, Separated(p, u)
  PROVE  ModelsOwned(u, past)
<1>1. PICK s, t, ms : s = p.sections /\ t = u.sections /\ ms = p.menus
  OBVIOUS
<1>2. Within(s, t)
  BY <1>1, SeparatedWithin
<1>3. Owned(t, ms, past)
  BY <1>1, <1>2, WithinOwned DEF ModelsOwned
<1>4. QED BY <1>1, <1>3 DEF ModelsOwned, Separated

LEMMA EndedOwned ==
  ASSUME NEW p, InPlace(p), NEW past, ModelsOwned(p, past), NEW u, Ended(p, u)
  PROVE  ModelsOwned(u, past)
<1>1. PICK s, t, ms : s = p.sections /\ t = u.sections /\ ms = p.menus
  OBVIOUS
<1>2. Within(s, t)
  BY <1>1, EndedWithin
<1>3. Owned(t, ms, past)
  BY <1>1, <1>2, WithinOwned DEF ModelsOwned
<1>4. QED BY <1>1, <1>3 DEF ModelsOwned, Ended

LEMMA PassedOwned ==
  ASSUME ~IsFiniteSet(Menus), IsSeq(calls), IsSeq(news),
         NEW p, InPlace(p), NEW past, ModelsOwned(p, past), NEW u, NEW child, Passed(p, u, child)
  PROVE  ModelsOwned(u, past)
<1>1. PICK new, props : new = dbus_menu_item_new(child) /\ props = child.props
  OBVIOUS
<1>2. CASE child.type = "section"
  <2>1. u = p \/ Separated(p, u)
    BY <1>2 DEF Passed
  <2>2. QED BY <2>1, SeparatedOwned
<1>3. CASE child.type # "section"
  <2>1. Behind(p, u, new) \/ InsteadOf(p, u, new, props)
    BY <1>1, <1>3 DEF Passed
  <2>2. Fresh(p) \in Menus /\ Fresh(p) \notin Linked(p.sections)
    BY FreshNew DEF InPlace
  <2>3. QED BY <2>1, <2>2, AppendedOwned, PlacedOwned
<1>4. QED BY <1>2, <1>3

LEMMA LayoutOwned ==
  ASSUME ~IsFiniteSet(Menus), IsSeq(calls), IsSeq(news), Sound(menu.sections), NEW past,
         IsModels(menus), Owned(menu.sections, menus, past),
         NEW children, Len(children) \in Nat, NEW freed
  PROVE  ModelsOwned(layout_parse(children, freed), past)
<1>1. PICK n \in Nat : n = Len(children)
  OBVIOUS
<1>2. PICK g : /\ Parses(g, Start, children, freed, n)
               /\ layout_parse(children, freed) = ParseEnd(g[n])
  BY <1>1, LayoutParses
<1>3. /\ \A k \in 0..n : InPlace(g[k])
      /\ \A k \in 1..n : Passed(g[k - 1], g[k], children[k])
  BY <1>2, StartInPlace, StaysInPlace
<1> DEFINE T == {k \in 0..n : ModelsOwned(g[k], past)}
<1>4. 0 \in T
  <2>1. g[0] = Start
    BY <1>2 DEF Parses
  <2>2. ModelsOwned(Start, past)
    BY DEF Start, ModelsOwned
  <2>3. QED BY <2>1, <2>2
<1>5. ASSUME NEW k \in 1..n, k - 1 \in T PROVE k \in T
  <2>1. PICK p, u, child : p = g[k - 1] /\ u = g[k] /\ child = children[k]
    OBVIOUS
  <2>2. k - 1 \in 0..n /\ k \in 0..n
    OBVIOUS
  <2>3. InPlace(p) /\ Passed(p, u, child) /\ ModelsOwned(p, past)
    BY <1>3, <1>5, <2>1, <2>2
  <2>4. ModelsOwned(u, past)
    BY <2>3, PassedOwned
  <2>5. QED BY <2>1, <2>2, <2>4
<1>6. \A k \in 0..n : k \in T
  <2> HIDE DEF T
  <2>1. QED BY <1>4, <1>5, RangeInduction
<1>7. PICK p : p = g[n]
  OBVIOUS
<1>8. InPlace(p) /\ ModelsOwned(p, past)
  BY <1>3, <1>6, <1>7
<1>9. PICK u : u = ParseEnd(p)
  OBVIOUS
<1>10. Ended(p, u)
  BY <1>8, <1>9, EndStep
<1>11. ModelsOwned(u, past)
  BY <1>8, <1>10, EndedOwned
<1>12. QED BY <1>2, <1>7, <1>9, <1>11

-----------------------------------------------------------------------------
(* The invariant about the submenus                                        *)

SubmenusInv == IsModels(menus) /\ Owned(menu.sections, menus, crossed)

LEMMA SubmenusInvInit == Init => SubmenusInv
<1>1. SUFFICES ASSUME Init PROVE SubmenusInv
  OBVIOUS
<1>2. IsModels(menus)
  BY <1>1 DEF Init, IsModels, NewMenu
<1>3. PICK ss : ss = menu.sections
  OBVIOUS
<1>4. IsSections(ss)
  BY <1>1, <1>3, CopyInvInit DEF CopyInv, MenuSound, Sound
<1>5. ss = <<[sid |-> 0, items |-> <<>>]>>
  BY <1>1, <1>3 DEF Init
<1>6. Len(ss) = 1 /\ ss[1].items = <<>>
  BY <1>5
<1>7. ASSUME NEW x \in Spots(ss) PROVE FALSE
  <2>1. x[1] \in 1..Len(ss) /\ x[2] \in 1..Len(ss[x[1]].items)
    BY <1>4, <1>7, SpotsFacts
  <2>2. x[1] = 1
    BY <1>6, <2>1
  <2>3. QED BY <1>6, <2>1, <2>2, EmptyAny
<1>8. QED BY <1>2, <1>3, <1>7 DEF SubmenusInv, Owned

LEMMA KinOwned ==
  ASSUME CopyInv, SubmenusInv, MenuKin, menus' = menus, crossed' = crossed
  PROVE  SubmenusInv'
<1>1. PICK ss, t : ss = menu.sections /\ t = menu'.sections
  OBVIOUS
<1>2. Within(ss, t)
  <2>1. IsSections(ss) /\ Kin(ss, t)
    BY <1>1 DEF CopyInv, MenuSound, Sound, MenuKin
  <2>2. QED BY <2>1, KinWithin
<1>3. Owned(t, menus, crossed)
  BY <1>1, <1>2, WithinOwned DEF SubmenusInv
<1>4. QED BY <1>1, <1>3 DEF SubmenusInv, Owned, IsModels, Serves

LEMMA LayoutSubmenus ==
  ASSUME ~IsFiniteSet(Menus), CopyInv, SubmenusInv, CopyInv', get_layout_cb
  PROVE  SubmenusInv'
<1>1. PICK freed \in FreedPositions :
        LET p == layout_parse(Head(news).children, freed)
        IN /\ Replace(p.sections, p.queue) /\ menus' = Kept(p.menus, p.sections)
           /\ crossed' = crossed \cap Linked(p.sections)
  BY DEF get_layout_cb
<1>2. PICK children : children = Head(news).children
  OBVIOUS
<1>3. PICK p, ss, ms : /\ p = layout_parse(children, freed) /\ ss = p.sections /\ ms = p.menus
  OBVIOUS
<1>4. menu' = [menu EXCEPT !.sections = ss]
  BY <1>1, <1>2, <1>3 DEF Replace
<1>5. menu'.sections = ss
  BY <1>4 DEF CopyInv, MenuSound, MenuFields
<1>6. menus' = Kept(ms, ss) /\ crossed' = crossed \cap Linked(ss)
  BY <1>1, <1>2, <1>3
<1>7. Len(children) \in Nat
  <2>1. PICK s : s = news
    OBVIOUS
  <2>2. s # <<>> /\ Head(s).kind = "layout" /\ Head(s).menu = Top
    BY <2>1 DEF get_layout_cb, Told
  <2>3. IsSeq(s) /\ Head(s) = s[1] /\ Len(s) >= 1 /\ Len(s) \in Nat
    BY <2>1, <2>2, TailAny, SeqFacts DEF CopyInv, IsNews, Rest
  <2>4. 1 \in 1..Len(s)
    BY <2>3
  <2>5. QED BY <1>2, <2>1, <2>2, <2>3, <2>4 DEF CopyInv, IsNews
<1>8. ModelsOwned(p, crossed)
  BY <1>3, <1>7, LayoutOwned DEF CopyInv, IsNews, MenuSound, SubmenusInv
<1>9. IsModels(ms) /\ Owned(ss, ms, crossed)
  BY <1>3, <1>8 DEF ModelsOwned
<1>10. IsSections(ss)
  BY <1>5 DEF CopyInv, MenuSound, Sound
<1>11. PICK now : now = Kept(ms, ss)
  OBVIOUS
<1>12. IsModels(now) /\ \A m \in Menus : m \in Linked(ss) => now[m] = ms[m]
  <2>1. PICK z : z = NewMenu(0)
    OBVIOUS
  <2>2. DOMAIN z = {"parent_id", "layout_update_required", "content"}
    BY <2>1 DEF NewMenu
  <2>3. now = [m \in Menus |-> IF m \in Linked(ss) THEN ms[m] ELSE z]
    BY <1>11, <2>1 DEF Kept
  <2>4. QED BY <1>9, <2>2, <2>3 DEF IsModels
<1>13. PICK past : past = crossed \cap Linked(ss)
  OBVIOUS
<1>14. Owned(ss, now, past)
  <2>1. SUFFICES ASSUME NEW x \in Spots(ss), NEW m \in Links(ItemAt(ss, x))
                 PROVE  /\ m \in Menus /\ Serves(now[m], m, ItemAt(ss, x).id, past)
                        /\ \A y \in Spots(ss) \ {x} : m \notin Links(ItemAt(ss, y))
    BY DEF Owned
  <2>2. /\ m \in Menus /\ Serves(ms[m], m, ItemAt(ss, x).id, crossed)
        /\ \A y \in Spots(ss) \ {x} : m \notin Links(ItemAt(ss, y))
    BY <1>9, <2>1 DEF Owned
  <2>3. m \in Linked(ss)
    BY <1>10, <2>1, LinkedThere
  <2>4. now[m] = ms[m] /\ (m \in crossed => m \in past)
    BY <1>12, <1>13, <2>2, <2>3
  <2>5. QED BY <2>2, <2>4 DEF Serves
<1>15. menus' = now /\ crossed' = past
  BY <1>6, <1>11, <1>13
<1>16. IsModels(menus') /\ Owned(menu'.sections, menus', crossed')
  BY <1>5, <1>12, <1>14, <1>15
<1>17. QED BY <1>16 DEF SubmenusInv, IsModels, Owned, Serves

LEMMA SubmenuSubmenus ==
  ASSUME SubmenusInv, get_layout_cb_submenu
  PROVE  SubmenusInv'
<1>1. PICK m, parent : m = Head(news).menu /\ parent = Head(news).parent
  OBVIOUS
<1>2. menu' = menu /\ \/ menus' = menus /\ crossed' = crossed
                      \/ /\ menus' = [menus EXCEPT ![m].content = {parent},
                                                   ![m].layout_update_required = FALSE]
                         /\ crossed' = IF menus[m].parent_id = parent THEN crossed \ {m}
                                       ELSE crossed \cup {m}
  BY <1>1 DEF get_layout_cb_submenu
<1>3. PICK ss : ss = menu.sections
  OBVIOUS
<1>4. IsModels(menus) /\ Owned(ss, menus, crossed)
  BY <1>3 DEF SubmenusInv
<1>5. CASE menus' = menus /\ crossed' = crossed
  BY <1>2, <1>3, <1>4, <1>5 DEF SubmenusInv, IsModels, Owned, Serves
<1>6. CASE /\ menus' = [menus EXCEPT ![m].content = {parent}, ![m].layout_update_required = FALSE]
           /\ crossed' = IF menus[m].parent_id = parent THEN crossed \ {m} ELSE crossed \cup {m}
  <2>1. PICK now : now = menus'
    OBVIOUS
  <2>2. PICK past : past = crossed'
    OBVIOUS
  <2>3. PICK a : a = [menus[m] EXCEPT !.content = {parent}, !.layout_update_required = FALSE]
    OBVIOUS
  <2>4. now = [menus EXCEPT ![m] = a]
    BY <1>6, <2>1, <2>3
  <2>5. /\ DOMAIN now = Menus /\ (m \in Menus => now[m] = a)
        /\ \A n \in Menus : n # m => now[n] = menus[n]
    BY <1>4, <2>4 DEF IsModels
  <2>6. m \in Menus => /\ a.parent_id = menus[m].parent_id /\ a.content = {parent}
                       /\ DOMAIN a = {"parent_id", "layout_update_required", "content"}
    BY <1>4, <2>3 DEF IsModels
  <2>7. IsModels(now)
    BY <1>4, <2>5, <2>6 DEF IsModels
  <2>8. \A n \in Menus : n # m => (n \in past <=> n \in crossed)
    BY <1>6, <2>2
  <2>9. menus[m].parent_id # parent => m \in past
    BY <1>6, <2>2
  <2>10. ASSUME NEW n \in Menus, NEW id, Serves(menus[n], n, id, crossed)
         PROVE  Serves(now[n], n, id, past)
    <3>1. CASE n # m
      BY <2>5, <2>8, <2>10, <3>1 DEF Serves
    <3>2. CASE n = m
      BY <2>5, <2>6, <2>9, <2>10, <3>2 DEF Serves
    <3>3. QED BY <3>1, <3>2
  <2>11. Owned(ss, now, past)
    BY <1>4, <2>10 DEF Owned
  <2>12. IsModels(menus') /\ Owned(menu'.sections, menus', crossed')
    BY <1>2, <1>3, <2>1, <2>2, <2>7, <2>11
  <2>13. QED BY <2>12 DEF SubmenusInv, IsModels, Owned, Serves
<1>7. QED BY <1>2, <1>5, <1>6

LEMMA SubmenusInvNext ==
  ASSUME ~IsFiniteSet(Menus), CopyInv, SubmenusInv, [Next]_vars
  PROVE  SubmenusInv'
<1>1. CopyInv' /\ MenuStays
  BY CopyInvNext
<1>2. CASE get_layout_cb
  BY <1>1, <1>2, LayoutSubmenus
<1>3. CASE get_layout_cb_submenu
  BY <1>3, SubmenuSubmenus
<1>4. CASE ~get_layout_cb /\ ~get_layout_cb_submenu
  <2>1. menus' = menus /\ crossed' = crossed
    BY <1>4 DEF Next, Handlers, vars, Serve, ChangeLayout, ChangeSubmenu, ChangeProps, ResetProp,
       RequestActivation, layout_updated_cb, items_properties_updated_cb,
       items_properties_removed, item_activation_requested_cb, Click, state_submenu_cb_open,
       state_submenu_cb_reopen, state_submenu_cb_close, preload_idle
  <2>2. MenuKin
    BY <1>1, <1>4 DEF MenuStays
  <2>3. QED BY <2>1, <2>2, KinOwned
<1>5. QED BY <1>2, <1>3, <1>4

LEMMA OwnedIsOwned == SubmenusInv => SubmenusOwned
BY DEF SubmenusInv, SubmenusOwned, Owned, ItemAt, Serves

\* A submenu model belongs to one entry, with whose id it asks for layouts, however
\* often the layout shifts and entries take over each other's models; and what it
\* still holds of another entry it knows to be out of date, but for one case: when
\* the reply to a request from before it was taken over arrives after that, the
\* model takes the other entry's layout for its own (it is in `crossed`, and of
\* what it holds nothing is said).  This is so as long as there is a new model for
\* an entry that gets none, as g_object_new makes one.
THEOREM SubmenusAlwaysOwned == ~IsFiniteSet(Menus) /\ Spec => []SubmenusOwned
<1>1. SUFFICES ASSUME ~IsFiniteSet(Menus) PROVE Spec => []SubmenusOwned
  OBVIOUS
<1>2. CopyInv /\ SubmenusInv /\ [Next]_vars => CopyInv' /\ SubmenusInv'
  BY <1>1, CopyInvNext, SubmenusInvNext
<1>3. QED BY CopyInvInit, SubmenusInvInit, <1>2, OwnedIsOwned, PTL DEF Spec
=============================================================================
