------------------------------ MODULE AppMenu ------------------------------
(***************************************************************************)
(* global-appmenu: which menu the panel shows (appmenu-bamf.vala,          *)
(* menu-widget.vala, registrar.vala, the helpers, importer.c).             *)
(*                                                                         *)
(* BAMF tells the backend which window is active; the windows' menus are   *)
(* GTK+ menu bars or are registered with the registrar, another process.   *)
(* What the backend learns sets `type` and `active_window`; each time, a   *)
(* timeout is started that makes a helper for them, 50 ms later and as     *)
(* they are then.  The helper of a registered menu has an importer, which  *)
(* watches the program's bus name, makes a proxy for it asynchronously and *)
(* gives the menu to the widget when there is news of either.              *)
(*                                                                         *)
(* desktop_menus, which nothing reads, and the application, which only     *)
(* gives menus their titles, are left out; see DBusMenuModel for what is   *)
(* imported.                                                               *)
(***************************************************************************)
EXTENDS Naturals, Sequences, SequencesExt

CONSTANTS Windows, NoWindow,
          Parent,        \* Parent[w]: the window it is transient for
          Gtk,           \* windows with a _GTK_UNIQUE_BUS_NAME
          Desktops,      \* those of them that are desktops
          WithApp,       \* windows BAMF knows the application of
          Version2,      \* windows whose programs speak the protocol's version 2
          MaxEvents      \* bound: what happens outside the panel

ASSUME WindowsAssumption ==
  /\ NoWindow \notin Windows /\ "appeared" \notin Windows /\ "vanished" \notin Windows
  /\ Parent \in [Windows -> Windows \cup {NoWindow}]
  /\ Gtk \subseteq Windows /\ Desktops \subseteq Gtk
  /\ WithApp \subseteq Windows /\ Version2 \subseteq Windows
  /\ MaxEvents \in Nat

VARIABLES windows,       \* open
          closed,        \* (an XID is not used again)
          active,        \* BAMF's active window
          registrar,     \* up; windows: those with a registered menu
          events,        \* how many happened
          told,          \* signals on their way: of BAMF, of the registrar
          have_registrar,
          backend,       \* type, active_window
          timeouts,      \* started by active_model_changed
          helper,        \* type, window; names: news of the watched bus name;
                         \* proxies: being made; xml: the model has one
          menubar,       \* what the widget shows: a type and a window
          withdrawn      \* history: windows that took their menus back, or
                         \* whose menus could not be imported

vars == <<windows, closed, active, registrar, events, told, have_registrar, backend, timeouts, helper,
          menubar, withdrawn>>

outside == <<windows, closed, active, registrar, events, withdrawn>>

Types == {"none", "stub", "desktop", "menumodel", "dbusmenu"}
NoHelper == [type |-> "none", window |-> NoWindow, names |-> <<>>, proxies |-> 0, xml |-> FALSE]

-----------------------------------------------------------------------------
(* The backend                                                             *)

\* A synchronous question; a registrar that is gone does not answer.
HasMenu(w, have) == have /\ registrar.up /\ w \in registrar.windows

\* The last of the windows a window is transient for.
Last_[w \in Windows] == IF Parent[w] = NoWindow THEN w ELSE Last_[Parent[w]]

\* A registered menu comes before a GTK+ one.  Climbing to the window it is
\* transient for the code goes on looking at the first one's properties: only
\* the application of the last one counts.
lookup_menu(window, have) ==
  IF HasMenu(window, have)
  THEN [type |-> "dbusmenu", active_window |-> window]
  ELSE IF window \in Gtk \cap windows
  THEN [type |-> IF window \in Desktops THEN "desktop" ELSE "menumodel", active_window |-> window]
  ELSE [type |-> IF window \in windows /\ Last_[window] \in WithApp THEN "stub" ELSE "desktop",
        active_window |-> NoWindow]

\* Every change starts a timeout of its own.
active_model_changed(b) == backend' = b /\ timeouts' = timeouts + 1

\* Mutant: a window that became active while there was none is not looked for.
on_active_window_changed_Null(next, have) == active_model_changed(lookup_menu(next, have))

on_active_window_changed(next, have) ==
  active_model_changed(lookup_menu(IF next # NoWindow THEN next ELSE active, have))

\* The backend's first signal is emitted before the widget connects to it.
Init ==
  /\ windows = {} /\ closed = {} /\ active = NoWindow
  /\ registrar \in [up : BOOLEAN, windows : {{}}]
  /\ events = 0
  /\ told = [bamf |-> <<>>, registrar |-> IF registrar.up THEN <<"appeared">> ELSE <<"vanished">>]
  /\ have_registrar = FALSE
  /\ backend = lookup_menu(NoWindow, FALSE) /\ timeouts = 0
  /\ helper = NoHelper
  /\ menubar = [type |-> "none", window |-> NoWindow]
  /\ withdrawn = {}

-----------------------------------------------------------------------------
(* Outside the panel                                                       *)

Happens == events < MaxEvents /\ events' = events + 1

Panel == <<have_registrar, backend, timeouts, menubar>>

BamfTells(w) == told' = [told EXCEPT !.bamf = Append(@, w)]
RegistrarTells(what) == told' = [told EXCEPT !.registrar = Append(@, what)]

\* A window opens and is active, or another is activated.
Activate ==
  \E w \in Windows \ (closed \cup {active}) :
    /\ Happens /\ active' = w /\ windows' = windows \cup {w}
    /\ BamfTells(w)
    /\ UNCHANGED <<closed, registrar, withdrawn, helper, Panel>>

\* A window is closed; if it was active another is, or none.  Its program, which
\* has no other window, leaves the bus and is forgotten by the registrar.
Close ==
  \E w \in windows : \E next \in (windows \ {w}) \cup {NoWindow} :
    /\ Happens /\ windows' = windows \ {w} /\ closed' = closed \cup {w}
    /\ withdrawn' = withdrawn \ {w}
    /\ IF w = active THEN active' = next /\ BamfTells(next) ELSE UNCHANGED <<active, told>>
    /\ registrar' = [registrar EXCEPT !.windows = @ \ {w}]
    /\ helper' = IF helper.window = w /\ helper.names # <<"unwatched">>
                 THEN [helper EXCEPT !.names = Append(@, "vanished")] ELSE helper
    /\ UNCHANGED Panel

Register ==
  \E w \in windows \ registrar.windows :
    /\ Happens /\ registrar.up
    /\ registrar' = [registrar EXCEPT !.windows = @ \cup {w}]
    /\ RegistrarTells(w)
    /\ UNCHANGED <<windows, closed, active, withdrawn, helper, Panel>>

\* (The backend hears of it and does nothing about the menu.)
Withdraw ==
  \E w \in registrar.windows :
    /\ Happens /\ registrar' = [registrar EXCEPT !.windows = @ \ {w}]
    /\ withdrawn' = withdrawn \cup {w}
    /\ UNCHANGED <<windows, closed, active, told, helper, Panel>>

\* Registrations do not outlive the registrar.
RegistrarStops ==
  /\ Happens /\ registrar.up
  /\ registrar' = [up |-> FALSE, windows |-> {}]
  /\ RegistrarTells("vanished")
  /\ UNCHANGED <<windows, closed, active, withdrawn, helper, Panel>>

RegistrarStarts ==
  /\ Happens /\ ~registrar.up
  /\ registrar' = [up |-> TRUE, windows |-> {}]
  /\ RegistrarTells("appeared")
  /\ UNCHANGED <<windows, closed, active, withdrawn, helper, Panel>>

-----------------------------------------------------------------------------
(* Signals                                                                 *)

active_window_changed ==
  /\ told.bamf # <<>>
  /\ on_active_window_changed(Head(told.bamf), have_registrar)
  /\ told' = [told EXCEPT !.bamf = Tail(@)]
  /\ UNCHANGED <<outside, have_registrar, helper, menubar>>

RegistrarTold(what) ==
  /\ told.registrar # <<>> /\ Head(told.registrar) \in what
  /\ told' = [told EXCEPT !.registrar = Tail(@)]
  /\ UNCHANGED <<outside, helper, menubar>>

\* The registrar's window_registered is connected to when it has appeared.
window_registered ==
  /\ RegistrarTold(Windows)
  /\ IF have_registrar /\ Head(told.registrar) = active
     THEN active_model_changed([type |-> "dbusmenu", active_window |-> active])
     ELSE UNCHANGED <<backend, timeouts>>
  /\ UNCHANGED have_registrar

\* have_registrar is set before the menu is looked up again.
registrar_changed ==
  /\ RegistrarTold({"appeared", "vanished"})
  /\ have_registrar' = (Head(told.registrar) = "appeared")
  /\ on_active_window_changed(backend.active_window, have_registrar')

-----------------------------------------------------------------------------
(* The widget, 50 ms later, and the importer                               *)

\* A name is watched from when the importer is made.  The name an unregistered
\* window has is none, and not watched.
NewHelper ==
  LET w == backend.active_window
      watched == backend.type = "dbusmenu" /\ HasMenu(w, have_registrar)
  IN [type |-> backend.type, window |-> w, proxies |-> 0, xml |-> FALSE,
      names |-> IF watched THEN <<"appeared">> ELSE <<"unwatched">>]

\* Mutant: a helper that serves the window already is kept.
set_active_window_menu_Keeps ==
  IF helper.window = backend.active_window THEN UNCHANGED <<helper, menubar>>
  ELSE helper' = NewHelper /\ menubar' = [type |-> backend.type, window |-> backend.active_window]

\* The old helper goes, with its importer and what that was waiting for.  A menu
\* that is imported is shown when the importer has news.
set_active_window_menu ==
  /\ helper' = NewHelper
  /\ menubar' = IF backend.type = "dbusmenu" THEN menubar
                ELSE [type |-> backend.type, window |-> backend.active_window]

Timeout ==
  /\ timeouts > 0 /\ timeouts' = timeouts - 1
  /\ set_active_window_menu
  /\ UNCHANGED <<outside, told, have_registrar, backend>>

\* The importer notifies of its model, which the widget then shows.
notify == menubar' = [type |-> "dbusmenu", window |-> helper.window]

NameTold(what) == helper.names # <<>> /\ Head(helper.names) = what

name_appeared_cb ==
  /\ NameTold("appeared")
  /\ helper' = [helper EXCEPT !.names = Tail(@), !.proxies = @ + 1]
  /\ UNCHANGED <<outside, told, have_registrar, backend, timeouts, menubar>>

name_vanished_cb ==
  /\ NameTold("vanished")
  /\ helper' = [helper EXCEPT !.names = Tail(@), !.xml = FALSE]
  /\ notify
  /\ UNCHANGED <<outside, told, have_registrar, backend, timeouts>>

\* A proxy has no version while its name has no owner.
dbus_menu_importer_check == helper.window \in windows \cap Version2

proxy_ready_cb ==
  /\ helper.proxies > 0
  /\ helper' = [helper EXCEPT !.proxies = @ - 1, !.xml = @ \/ dbus_menu_importer_check]
  /\ notify
  /\ UNCHANGED <<outside, told, have_registrar, backend, timeouts>>

\* The widget is not told, and goes on showing what it did.
proxy_failed ==
  /\ helper.proxies > 0
  /\ helper' = [helper EXCEPT !.proxies = @ - 1]
  /\ withdrawn' = withdrawn \cup {helper.window}
  /\ UNCHANGED <<windows, closed, active, registrar, events, told, have_registrar, backend,
                 timeouts, menubar>>

Next ==
  \/ Activate \/ Close \/ Register \/ Withdraw \/ RegistrarStops \/ RegistrarStarts
  \/ active_window_changed \/ window_registered \/ registrar_changed
  \/ Timeout \/ name_appeared_cb \/ name_vanished_cb \/ proxy_ready_cb \/ proxy_failed

\* The main loop runs what is due; what happens outside need not.
Fairness ==
  /\ WF_vars(active_window_changed) /\ WF_vars(window_registered \/ registrar_changed)
  /\ WF_vars(Timeout)
  /\ WF_vars(name_appeared_cb \/ name_vanished_cb) /\ WF_vars(proxy_ready_cb \/ proxy_failed)

Spec == Init /\ [][Next]_vars /\ Fairness

-----------------------------------------------------------------------------
(* Properties                                                              *)

\* The backend knows whether there is a registrar, and the menu shown is what it
\* should be; one that is imported has a model, if the program speaks the protocol.
Right ==
  /\ have_registrar = registrar.up
  /\ LET b == lookup_menu(active, have_registrar)
     IN \/ active \in withdrawn
        \/ /\ menubar = [type |-> b.type, window |-> b.active_window]
           /\ b.type = "dbusmenu" => helper.window = active /\ helper.xml = (active \in Version2)

Quiet ==
  /\ told.bamf = <<>> /\ told.registrar = <<>> /\ timeouts = 0
  /\ helper.names \in {<<>>, <<"unwatched">>} /\ helper.proxies = 0

\* When all that was due has run, the menu that is shown is that of the active
\* window, however the activations, registrations, restarts of the registrar,
\* timeouts and importers of several windows were interleaved: none of a window
\* that was active before is put back, and what is imported is its model.  (Not
\* if the active window took its menu back, which nothing reacts to, or its program
\* could not be reached.)
MenuOfActive == Quiet => Right

\* And it comes to that, once nothing happens outside.
MenuSettles == <>[]Right
=============================================================================
