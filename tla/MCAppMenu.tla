----------------------------- MODULE MCAppMenu -----------------------------
(***************************************************************************)
(* TLC instance of DBusMenuModel: five programs.                           *)
(*                                                                         *)
(* `plain` and `bar` change their layout: entries come, go and move, with  *)
(* separators between, at the edges, doubled and hidden.  `checks` changes *)
(* properties, a check among them that is also clicked, and the kind of an *)
(* entry, in a layout that also gets shorter.  In `kinds` an entry is left *)
(* over and comes back, as a radio too.  `subs` has submenus that move     *)
(* while they are fetched.                                                 *)
(***************************************************************************)
EXTENDS DBusMenuModel

CONSTANTS m1, m2, m3, m4

N(id) == <<id, "normal">>
Sep(id) == <<id, "section">>

Plain == {<<>>, <<N(1)>>, <<N(2)>>, <<N(1), N(2)>>, <<N(1), Sep(8), N(2)>>,
          <<Sep(8), N(1), N(2), N(3)>>, <<N(2), Sep(8), Sep(7), N(1), N(3)>>,
          <<N(1), Sep(8), N(2), Sep(7), N(3)>>, <<N(1), N(2), Sep(9), N(3), Sep(8)>>}

NoProps == [p \in {} |-> TRUE]

plain(bar) ==
  [toplevel |-> bar, layouts |-> Plain, layout |-> <<N(1), N(2)>>,
   props |-> [id \in {1, 2, 3, 7, 8, 9} |-> IF id = 9 THEN "visible" :> FALSE ELSE NoProps],
   updates |-> {}, removals |-> {}, requests |-> {}, revision |-> 0, changes |-> 0,
   MaxChanges |-> 3]

Check == "toggle-state" :> FALSE

checks ==
  [toplevel |-> FALSE, layout |-> <<<<1, "checkmark">>, N(2)>>,
   layouts |-> {<<<<1, "checkmark">>, N(2)>>, <<N(1), N(2)>>, <<N(2)>>},
   props |-> [id \in {1, 2} |-> IF id = 1 THEN Check ELSE "label" :> "A"],
   updates |-> {[id |-> 1, props |-> "toggle-state" :> TRUE],
                [id |-> 1, props |-> "enabled" :> FALSE],
                [id |-> 2, props |-> "label" :> "B"],
                [id |-> 2, props |-> "visible" :> FALSE],
                [id |-> 2, props |-> "visible" :> TRUE],
                [id |-> 2, props |-> "enabled" :> FALSE]},
   removals |-> {[id |-> 2, prop |-> "label"], [id |-> 2, prop |-> "enabled"],
                 [id |-> 2, prop |-> "visible"]},
   requests |-> {1}, revision |-> 0, changes |-> 0, MaxChanges |-> 3]

kinds ==
  [checks EXCEPT !.layout = <<N(1), N(2)>>,
                 !.layouts = {<<N(1), N(2)>>, <<<<2, "radio">>>>, <<N(3)>>, <<N(3), N(2)>>},
                 !.props = [id \in {1, 2, 3} |-> NoProps],
                 !.updates = {}, !.removals = {}, !.requests = {2}]

Sub(id) == <<id, "submenu">>

subs ==
  [toplevel |-> FALSE, layout |-> <<Sub(1), Sub(2)>>,
   layouts |-> {<<Sub(1), Sub(2)>>, <<Sub(2), Sub(1)>>, <<Sub(1), Sub(2), Sub(3)>>,
               <<Sub(2)>>},
   props |-> [id \in {1, 2, 3} |-> NoProps],
   updates |-> {[id |-> 1, props |-> "enabled" :> FALSE]}, removals |-> {}, requests |-> {},
   revision |-> 0, changes |-> 0, MaxChanges |-> 2]

AllPrograms == {plain(FALSE), plain(TRUE), checks, kinds, subs}
=============================================================================
