--------------------------- MODULE MenuBar_proofs ---------------------------
(***************************************************************************)
(* That the menu which is shown, when all that was due has run, is that of *)
(* the active window, for any windows (AppMenu); and that what the matcher *)
(* answers has been installed since the last change that was heard, for    *)
(* any applications, windows and processes (AppMatcher).                   *)
(*                                                                         *)
(* The invariant says of everything that may be out of date what is on its *)
(* way that will correct it: signals in the queues, timeouts, the name and *)
(* the proxies an importer waits for.                                      *)
(***************************************************************************)
EXTENDS MCMenuBar, SequenceTheorems, TLAPS

Changes == {"appeared", "vanished"}
Known == Windows \cup {NoWindow}

ToldType == [bamf : Seq(Known), registrar : Seq(Windows \cup Changes)]
HelperType == [type : Types, window : Known, names : Seq(Changes \cup {"unwatched"}),
               proxies : Nat, xml : BOOLEAN]

\* All the state is of its type; windows that are closed stay closed.
TypeOK ==
  /\ windows \subseteq Windows /\ closed \subseteq Windows /\ windows \cap closed = {}
  /\ active \in windows \cup {NoWindow}
  /\ registrar \in [up : BOOLEAN, windows : SUBSET Windows] /\ registrar.windows \subseteq windows
  /\ told \in ToldType
  /\ have_registrar \in BOOLEAN
  /\ backend \in [type : Types, active_window : Known]
  /\ timeouts \in Nat
  /\ helper \in HelperType
  /\ menubar \in [type : Types, window : Known]

-----------------------------------------------------------------------------
(* The signals on their way                                                *)

Pending(q, w) == \E i \in 1..Len(q) : q[i] = w
ChangePending(q) == \E i \in 1..Len(q) : q[i] \in Changes

\* BAMF's last signal is of the window that is active now.
LastIsActive == told.bamf # <<>> => told.bamf[Len(told.bamf)] = active

\* Nothing is on its way that would make the registrar known or forgotten unless
\* that is not known yet; and the last that is says what it is.
RegistrarKnown ==
  /\ ~ChangePending(told.registrar) => have_registrar = registrar.up
  /\ \A i \in 1..Len(told.registrar) :
       (/\ told.registrar[i] \in Changes
        /\ \A j \in (i+1)..Len(told.registrar) : told.registrar[j] \notin Changes)
         => (told.registrar[i] = "appeared") = registrar.up

\* A registration that is announced still stands, or what undid it was noted or is
\* announced behind it.
Stands(w) == (registrar.up /\ w \in registrar.windows) \/ w \in withdrawn \/ w \in closed
Registrations ==
  \A i \in 1..Len(told.registrar) :
    told.registrar[i] \in Windows
      => \/ \E j \in (i+1)..Len(told.registrar) : told.registrar[j] \in Changes
         \/ Stands(told.registrar[i])

-----------------------------------------------------------------------------
(* The backend                                                             *)

NewsOfActive ==
  \/ told.bamf # <<>> \/ ChangePending(told.registrar) \/ active \in withdrawn
  \/ have_registrar /\ Pending(told.registrar, active)

BackendServes == told.bamf = <<>> => backend.active_window \in {NoWindow, active}
BackendCurrent == NewsOfActive \/ backend = lookup_menu(active, have_registrar)

-----------------------------------------------------------------------------
(* The widget and the importer                                             *)

\* (Before the registrar is known, the widget has been told of nothing.)
HelperCurrent ==
  timeouts = 0 /\ ~ChangePending(told.registrar)
    => helper.type = backend.type /\ helper.window = backend.active_window

Watched == helper.type = "dbusmenu" /\ helper.names # <<"unwatched">>

\* Only a helper with an importer waits for anything.
OthersIdle ==
  helper.type # "dbusmenu"
    => /\ helper.names = <<"unwatched">> \/ (helper.names = <<>> /\ helper.window = NoWindow)
       /\ helper.proxies = 0
       /\ menubar = [type |-> helper.type, window |-> helper.window]

UnwatchedIdle == helper.names = <<"unwatched">> => helper.proxies = 0

\* The importer's menu is shown or will be.
ImporterShown ==
  Watched => \/ menubar = [type |-> "dbusmenu", window |-> helper.window]
             \/ helper.names # <<>> \/ helper.proxies > 0 \/ helper.window \in withdrawn

\* A helper without an importer for the active window is put right.
UnwatchedJustified ==
  (helper.type = "dbusmenu" /\ helper.names = <<"unwatched">> /\ helper.window = active)
    => ~HasMenu(active, have_registrar) \/ timeouts > 0 \/ NewsOfActive

\* The model has the proxy of an open window that can be imported, or gets it.
ModelServed ==
  Watched =>
    /\ helper.window \in windows \cup closed
    /\ helper.xml => helper.window \in Version2
    /\ ~Pending(helper.names, "unwatched")
    /\ helper.window \in windows =>
         /\ ~Pending(helper.names, "vanished")
         /\ helper.window \in Version2 =>
              helper.xml \/ helper.names # <<>> \/ helper.proxies > 0 \/ helper.window \in withdrawn

Helper == OthersIdle /\ UnwatchedIdle /\ ImporterShown /\ ModelServed

IInv ==
  /\ TypeOK
  /\ LastIsActive /\ RegistrarKnown /\ Registrations
  /\ BackendServes /\ BackendCurrent
  /\ HelperCurrent /\ UnwatchedJustified /\ Helper

-----------------------------------------------------------------------------
\* What lookup_menu returns, whatever it looked at.
LEMMA LookupIs ==
  ASSUME NEW w \in Known, NEW have
  PROVE  /\ lookup_menu(w, have) \in [type : Types, active_window : Known]
         /\ lookup_menu(w, have).active_window \in {w, NoWindow}
         /\ lookup_menu(w, have).type = "dbusmenu" <=> HasMenu(w, have)
         /\ HasMenu(w, have) => lookup_menu(w, have).active_window = w
  BY DEF lookup_menu, Types, Known

LEMMA KnownIs == NoWindow \in Known /\ Windows \subseteq Known /\ Windows \cap Changes = {}
  BY WindowsAssumption DEF WindowsAssumption, Known, Changes

-----------------------------------------------------------------------------
(* What a signal that is sent, or received, makes of the queues            *)

LEMMA AppendIs ==
  ASSUME NEW S, NEW q \in Seq(S), NEW x \in S
  PROVE  /\ Append(q, x) \in Seq(S) /\ Len(Append(q, x)) = Len(q) + 1 /\ Append(q, x) # <<>>
         /\ \A i \in 1..Len(q) : Append(q, x)[i] = q[i]
         /\ Append(q, x)[Len(q) + 1] = x
  OBVIOUS

LEMMA TailIs ==
  ASSUME NEW S, NEW q \in Seq(S), q # <<>>
  PROVE  /\ Tail(q) \in Seq(S) /\ Len(q) \in Nat \ {0} /\ Len(Tail(q)) = Len(q) - 1
         /\ \A i \in 1..Len(Tail(q)) : Tail(q)[i] = q[i + 1]
         /\ Head(q) = q[1] /\ Head(q) \in S
         /\ Tail(q) = <<>> <=> Len(q) = 1
<1>1. Len(q) \in Nat \ {0} /\ Head(q) = q[1] /\ Head(q) \in S
  OBVIOUS
<1>2. Tail(q) \in Seq(S) /\ Len(Tail(q)) = Len(q) - 1
  OBVIOUS
<1>3. \A i \in 1..Len(Tail(q)) : Tail(q)[i] = q[i + 1]
  OBVIOUS
<1>4. Tail(q) = <<>> <=> Len(Tail(q)) = 0
  BY <1>2, EmptySeq
<1>. QED BY <1>1, <1>2, <1>3, <1>4

LEMMA BamfQueue ==
  ASSUME told \in ToldType, NEW q \in Seq(Known), told' = [told EXCEPT !.bamf = q]
  PROVE  told' \in ToldType /\ told'.bamf = q /\ told'.registrar = told.registrar
  BY DEF ToldType

LEMMA RegistrarQueue ==
  ASSUME told \in ToldType, NEW q \in Seq(Windows \cup Changes), told' = [told EXCEPT !.registrar = q]
  PROVE  told' \in ToldType /\ told'.registrar = q /\ told'.bamf = told.bamf
  BY DEF ToldType

LEMMA BamfTellsIs ==
  ASSUME told \in ToldType, NEW w \in Known, BamfTells(w)
  PROVE  told' \in ToldType /\ told'.bamf = Append(told.bamf, w) /\ told'.registrar = told.registrar
<1>1. told.bamf \in Seq(Known)
  BY DEF ToldType
<1>2. Append(told.bamf, w) \in Seq(Known)
  BY <1>1
<1>. QED BY <1>2, BamfQueue DEF BamfTells

LEMMA RegistrarTellsIs ==
  ASSUME told \in ToldType, NEW x \in Windows \cup Changes, RegistrarTells(x)
  PROVE  told' \in ToldType /\ told'.registrar = Append(told.registrar, x) /\ told'.bamf = told.bamf
<1>1. told.registrar \in Seq(Windows \cup Changes)
  BY DEF ToldType
<1>2. Append(told.registrar, x) \in Seq(Windows \cup Changes)
  BY <1>1
<1>. QED BY <1>2, RegistrarQueue DEF RegistrarTells

LEMMA BamfToldIs ==
  ASSUME told \in ToldType, told.bamf # <<>>, told' = [told EXCEPT !.bamf = Tail(@)]
  PROVE  told' \in ToldType /\ told'.bamf = Tail(told.bamf) /\ told'.registrar = told.registrar
<1>1. told.bamf \in Seq(Known)
  BY DEF ToldType
<1>2. Tail(told.bamf) \in Seq(Known)
  BY <1>1, TailIs
<1>. QED BY <1>2, BamfQueue

LEMMA RegistrarToldIs ==
  ASSUME told \in ToldType, NEW what, RegistrarTold(what)
  PROVE  /\ told' \in ToldType
         /\ told.registrar \in Seq(Windows \cup Changes) /\ told.registrar # <<>>
         /\ Head(told.registrar) \in what
         /\ told'.registrar = Tail(told.registrar) /\ told'.bamf = told.bamf
<1>1. told.registrar \in Seq(Windows \cup Changes)
  BY DEF ToldType
<1>2. Tail(told.registrar) \in Seq(Windows \cup Changes)
  BY <1>1, TailIs DEF RegistrarTold
<1>. QED BY <1>1, <1>2, RegistrarQueue DEF RegistrarTold

LEMMA HelperIs ==
  ASSUME TypeOK
  PROVE  /\ helper \in HelperType
         /\ helper.type \in Types /\ helper.window \in Known /\ helper.names \in Seq(Changes \cup {"unwatched"})
         /\ helper.proxies \in Nat /\ helper.xml \in BOOLEAN
  BY DEF TypeOK, HelperType

LEMMA NamesAre ==
  ASSUME helper \in HelperType, NEW n \in Seq(Changes \cup {"unwatched"}),
         helper' = [helper EXCEPT !.names = n]
  PROVE  /\ helper' \in HelperType /\ helper'.names = n
         /\ helper'.type = helper.type /\ helper'.window = helper.window
         /\ helper'.proxies = helper.proxies /\ helper'.xml = helper.xml
  BY DEF HelperType

LEMMA NameAppearedIs ==
  ASSUME TypeOK, name_appeared_cb
  PROVE  /\ helper' \in HelperType /\ helper'.type = helper.type /\ helper'.window = helper.window
         /\ helper.names # <<>> /\ Head(helper.names) = "appeared"
         /\ helper'.names = Tail(helper.names)
         /\ helper'.proxies = helper.proxies + 1 /\ helper'.xml = helper.xml
<1>1. helper.names # <<>> /\ Head(helper.names) = "appeared"
      /\ helper' = [helper EXCEPT !.names = Tail(helper.names), !.proxies = helper.proxies + 1]
  BY DEF name_appeared_cb, NameTold
<1>2. Tail(helper.names) \in Seq(Changes \cup {"unwatched"}) /\ helper.proxies + 1 \in Nat
  BY <1>1, HelperIs, TailIs
<1>. QED BY <1>1, <1>2, HelperIs DEF HelperType

LEMMA NameVanishedIs ==
  ASSUME TypeOK, name_vanished_cb
  PROVE  /\ helper' \in HelperType /\ helper'.type = helper.type /\ helper'.window = helper.window
         /\ helper.names # <<>> /\ Head(helper.names) = "vanished"
         /\ helper'.names = Tail(helper.names)
         /\ helper'.proxies = helper.proxies /\ helper'.xml = FALSE
<1>1. helper.names # <<>> /\ Head(helper.names) = "vanished"
      /\ helper' = [helper EXCEPT !.names = Tail(helper.names), !.xml = FALSE]
  BY DEF name_vanished_cb, NameTold
<1>2. Tail(helper.names) \in Seq(Changes \cup {"unwatched"})
  BY <1>1, HelperIs, TailIs
<1>. QED BY <1>1, <1>2, HelperIs DEF HelperType

LEMMA ProxyReadyIs ==
  ASSUME TypeOK, proxy_ready_cb
  PROVE  /\ helper' \in HelperType /\ helper'.type = helper.type /\ helper'.window = helper.window
         /\ helper.proxies > 0 /\ helper'.proxies = helper.proxies - 1
         /\ helper'.names = helper.names
         /\ helper'.xml <=> (helper.xml \/ helper.window \in windows \cap Version2)
<1>1. PICK x \in BOOLEAN : /\ x <=> (helper.xml \/ helper.window \in windows \cap Version2)
                           /\ helper.proxies > 0
                           /\ helper' = [helper EXCEPT !.proxies = helper.proxies - 1, !.xml = x]
  BY HelperIs DEF proxy_ready_cb, dbus_menu_importer_check
<1>2. helper.proxies - 1 \in Nat
  BY <1>1, HelperIs
<1>. QED BY <1>1, <1>2, HelperIs DEF HelperType

LEMMA ProxyFailedIs ==
  ASSUME TypeOK, proxy_failed
  PROVE  /\ helper' \in HelperType /\ helper'.type = helper.type /\ helper'.window = helper.window
         /\ helper.proxies > 0 /\ helper'.proxies = helper.proxies - 1
         /\ helper'.names = helper.names /\ helper'.xml = helper.xml
<1>1. helper.proxies > 0 /\ helper' = [helper EXCEPT !.proxies = helper.proxies - 1]
  BY DEF proxy_failed
<1>2. helper.proxies - 1 \in Nat
  BY <1>1, HelperIs
<1>. QED BY <1>1, <1>2, HelperIs DEF HelperType

LEMMA NewHelperIs ==
  ASSUME TypeOK
  PROVE  /\ NewHelper \in HelperType
         /\ NewHelper.type = backend.type /\ NewHelper.window = backend.active_window
         /\ NewHelper.proxies = 0 /\ NewHelper.xml = FALSE
         /\ NewHelper.names = IF backend.type = "dbusmenu" /\ HasMenu(backend.active_window, have_registrar)
                              THEN <<"appeared">> ELSE <<"unwatched">>
<1>1. <<"appeared">> \in Seq(Changes \cup {"unwatched"}) /\ <<"unwatched">> \in Seq(Changes \cup {"unwatched"})
  BY DEF Changes
<1>2. backend.type \in Types /\ backend.active_window \in Known
  BY DEF TypeOK
<1>. QED BY <1>1, <1>2 DEF NewHelper, HelperType

-----------------------------------------------------------------------------
(* The state is of its type                                                *)

LEMMA TypeInit == Init => TypeOK
<1> SUFFICES ASSUME Init PROVE TypeOK
  OBVIOUS
<1>1. backend \in [type : Types, active_window : Known]
  BY LookupIs, KnownIs DEF Init
<1>2. told \in ToldType
  <2>1. <<"appeared">> \in Seq(Windows \cup Changes) /\ <<"vanished">> \in Seq(Windows \cup Changes)
    BY DEF Changes
  <2>2. told.bamf = <<>> /\ told.registrar \in {<<"appeared">>, <<"vanished">>}
        /\ told = [bamf |-> told.bamf, registrar |-> told.registrar]
    BY DEF Init
  <2>3. <<>> \in Seq(Known)
    OBVIOUS
  <2>4. told.registrar \in Seq(Windows \cup Changes)
    BY <2>1, <2>2
  <2>. QED BY <2>2, <2>3, <2>4 DEF ToldType
<1>3. helper \in HelperType
  BY KnownIs DEF Init, NoHelper, Types, HelperType
<1>4. menubar \in [type : Types, window : Known]
  BY KnownIs DEF Init, Types
<1>5. registrar \in [up : BOOLEAN, windows : SUBSET Windows] /\ registrar.windows \subseteq windows
  BY DEF Init
<1>. QED BY <1>1, <1>2, <1>3, <1>4, <1>5 DEF Init, TypeOK

LEMMA TypeStep == TypeOK /\ [Next]_vars => TypeOK'
<1> SUFFICES ASSUME TypeOK, [Next]_vars PROVE TypeOK'
  OBVIOUS
<1>1. CASE Activate
  <2>1. PICK w \in Windows \ (closed \cup {active}) :
          active' = w /\ windows' = windows \cup {w} /\ BamfTells(w)
    BY <1>1 DEF Activate
  <2>2. told' \in ToldType
    BY <2>1, BamfTellsIs, KnownIs DEF TypeOK
  <2>3. UNCHANGED <<closed, registrar, helper, have_registrar, backend, timeouts, menubar>>
    BY <1>1 DEF Activate, Panel
  <2>. QED BY <2>1, <2>2, <2>3 DEF TypeOK
<1>2. CASE Close
  <2>1. PICK w \in windows : \E next \in (windows \ {w}) \cup {NoWindow} :
          /\ windows' = windows \ {w} /\ closed' = closed \cup {w}
          /\ IF w = active THEN active' = next /\ BamfTells(next) ELSE UNCHANGED <<active, told>>
          /\ registrar' = [registrar EXCEPT !.windows = @ \ {w}]
          /\ helper' = IF helper.window = w /\ helper.names # <<"unwatched">>
                       THEN [helper EXCEPT !.names = Append(@, "vanished")] ELSE helper
          /\ UNCHANGED Panel
    BY <1>2 DEF Close
  <2>9. (have_registrar \in BOOLEAN)' /\ (backend \in [type : Types, active_window : Known])'
        /\ timeouts' \in Nat /\ (menubar \in [type : Types, window : Known])'
    BY <2>1 DEF TypeOK, Panel
  <2>2. told' \in ToldType
    BY <2>1, BamfTellsIs, KnownIs DEF TypeOK
  <2>3. helper.names \in Seq(Changes \cup {"unwatched"}) /\ "vanished" \in Changes
    BY DEF TypeOK, HelperType, Changes
  <2>4. Append(helper.names, "vanished") \in Seq(Changes \cup {"unwatched"})
    BY <2>3, AppendIs
  <2>5. helper.proxies \in Nat /\ helper.xml \in BOOLEAN
    BY DEF TypeOK, HelperType
  <2>6. helper' \in HelperType
    BY <2>1, <2>4, <2>5, NamesAre DEF TypeOK
  <2>7. (registrar \in [up : BOOLEAN, windows : SUBSET Windows] /\ registrar.windows \subseteq windows)'
    BY <2>1 DEF TypeOK
  <2>8. (active \in windows \cup {NoWindow})'
    BY <2>1 DEF TypeOK
  <2>. QED BY <2>1, <2>2, <2>6, <2>7, <2>8, <2>9 DEF TypeOK
<1>3. CASE Register
  <2>1. PICK w \in windows \ registrar.windows :
          registrar' = [registrar EXCEPT !.windows = @ \cup {w}] /\ RegistrarTells(w)
    BY <1>3 DEF Register
  <2>2. told' \in ToldType
    BY <2>1, RegistrarTellsIs DEF TypeOK
  <2>3. UNCHANGED <<windows, closed, active, helper, have_registrar, backend, timeouts, menubar>>
    BY <1>3 DEF Register, Panel
  <2>4. (registrar \in [up : BOOLEAN, windows : SUBSET Windows] /\ registrar.windows \subseteq windows)'
    BY <2>1, <2>3 DEF TypeOK
  <2>. QED BY <2>2, <2>3, <2>4 DEF TypeOK
<1>4. CASE Withdraw
  <2>1. PICK w \in registrar.windows : registrar' = [registrar EXCEPT !.windows = @ \ {w}]
    BY <1>4 DEF Withdraw
  <2>2. UNCHANGED <<windows, closed, active, told, helper, have_registrar, backend, timeouts, menubar>>
    BY <1>4 DEF Withdraw, Panel
  <2>3. (registrar \in [up : BOOLEAN, windows : SUBSET Windows] /\ registrar.windows \subseteq windows)'
    BY <2>1, <2>2 DEF TypeOK
  <2>. QED BY <2>2, <2>3 DEF TypeOK
<1>5. CASE RegistrarStops \/ RegistrarStarts
  <2>1. registrar' \in [up : BOOLEAN, windows : {{}}]
    <3>1. CASE RegistrarStops
      BY <3>1 DEF RegistrarStops
    <3>2. CASE RegistrarStarts
      BY <3>2 DEF RegistrarStarts
    <3>. QED BY <1>5, <3>1, <3>2
  <2>2. told' \in ToldType
    BY <1>5, RegistrarTellsIs DEF TypeOK, RegistrarStops, RegistrarStarts, Changes
  <2>3. UNCHANGED <<windows, closed, active, helper, have_registrar, backend, timeouts, menubar>>
    BY <1>5 DEF RegistrarStops, RegistrarStarts, Panel
  <2>4. (registrar \in [up : BOOLEAN, windows : SUBSET Windows] /\ registrar.windows \subseteq windows)'
    BY <2>1
  <2>. QED BY <2>2, <2>3, <2>4 DEF TypeOK
<1>6. CASE active_window_changed
  <2>1. told' \in ToldType
    BY <1>6, BamfToldIs DEF TypeOK, active_window_changed
  <2>2. Head(told.bamf) \in Known
    BY <1>6, TailIs DEF TypeOK, ToldType, active_window_changed
  <2>3. (backend \in [type : Types, active_window : Known])' /\ timeouts' \in Nat
    <3>1. PICK w \in Known : active_model_changed(lookup_menu(w, have_registrar))
      BY <1>6, <2>2 DEF TypeOK, active_window_changed, on_active_window_changed, Known
    <3>. QED BY <3>1, LookupIs DEF TypeOK, active_model_changed
  <2>4. UNCHANGED <<windows, closed, active, registrar, have_registrar, helper, menubar>>
    BY <1>6 DEF active_window_changed, outside
  <2>. QED BY <2>1, <2>3, <2>4 DEF TypeOK
<1>7. CASE window_registered
  <2>1. told' \in ToldType
    BY <1>7, RegistrarToldIs DEF TypeOK, window_registered
  <2>2. (backend \in [type : Types, active_window : Known])' /\ timeouts' \in Nat
    BY <1>7 DEF TypeOK, window_registered, active_model_changed, Known, Types
  <2>3. UNCHANGED <<windows, closed, active, registrar, have_registrar, helper, menubar>>
    BY <1>7 DEF window_registered, RegistrarTold, outside
  <2>. QED BY <2>1, <2>2, <2>3 DEF TypeOK
<1>8. CASE registrar_changed
  <2>1. told' \in ToldType
    BY <1>8, RegistrarToldIs DEF TypeOK, registrar_changed
  <2>2. (backend \in [type : Types, active_window : Known])' /\ timeouts' \in Nat
    BY <1>8, LookupIs, KnownIs DEF TypeOK, registrar_changed, on_active_window_changed,
                                   active_model_changed, Known
  <2>3. UNCHANGED <<windows, closed, active, registrar, helper, menubar>> /\ have_registrar' \in BOOLEAN
    BY <1>8 DEF registrar_changed, RegistrarTold, outside
  <2>. QED BY <2>1, <2>2, <2>3 DEF TypeOK
<1>9. CASE Timeout
  <2>1. helper' \in HelperType
    BY <1>9, NewHelperIs DEF Timeout, set_active_window_menu
  <2>2. timeouts' \in Nat /\ (menubar \in [type : Types, window : Known])'
    BY <1>9 DEF TypeOK, Timeout, set_active_window_menu
  <2>3. UNCHANGED <<windows, closed, active, registrar, told, have_registrar, backend>>
    BY <1>9 DEF Timeout, outside
  <2>. QED BY <2>1, <2>2, <2>3 DEF TypeOK
<1>10. CASE name_appeared_cb \/ name_vanished_cb \/ proxy_ready_cb \/ proxy_failed
  <2>1. helper' \in HelperType
    BY <1>10, NameAppearedIs, NameVanishedIs, ProxyReadyIs, ProxyFailedIs
  <2>4. (menubar \in [type : Types, window : Known])'
    BY <1>10, HelperIs DEF TypeOK, name_appeared_cb, name_vanished_cb, proxy_ready_cb, proxy_failed,
                               notify, Types
  <2>5. UNCHANGED <<windows, closed, active, registrar, told, have_registrar, backend, timeouts>>
    BY <1>10 DEF name_appeared_cb, name_vanished_cb, proxy_ready_cb, proxy_failed, outside
  <2>. QED BY <2>1, <2>4, <2>5 DEF TypeOK
<1>11. CASE UNCHANGED vars
  BY <1>11 DEF TypeOK, vars
<1>. QED BY <1>1, <1>2, <1>3, <1>4, <1>5, <1>6, <1>7, <1>8, <1>9, <1>10, <1>11 DEF Next

\* The state is of its type, whatever the windows.
THEOREM TypeCorrect == Spec => []TypeOK
  BY TypeInit, TypeStep, PTL DEF Spec

-----------------------------------------------------------------------------
(* The queues are kept                                                     *)

\* What a step makes of BAMF's signals, whatever it is.
LEMMA BamfStep ==
  ASSUME TypeOK, [Next]_vars
  PROVE  \/ active' = active /\ told'.bamf = told.bamf
         \/ active' \in Known /\ told'.bamf = Append(told.bamf, active')
         \/ active_window_changed /\ active' = active /\ told.bamf # <<>> /\ told'.bamf = Tail(told.bamf)
<1>1. CASE Activate
  <2>1. PICK w \in Windows : active' = w /\ BamfTells(w)
    BY <1>1 DEF Activate
  <2>. QED BY <2>1, BamfTellsIs, KnownIs DEF TypeOK
<1>2. CASE Close
  <2>1. PICK w \in windows : \E next \in (windows \ {w}) \cup {NoWindow} :
          IF w = active THEN active' = next /\ BamfTells(next) ELSE UNCHANGED <<active, told>>
    BY <1>2 DEF Close
  <2>2. PICK next \in (windows \ {w}) \cup {NoWindow} :
          IF w = active THEN active' = next /\ BamfTells(next) ELSE UNCHANGED <<active, told>>
    BY <2>1
  <2>3. next \in Known
    BY KnownIs DEF TypeOK
  <2>. QED BY <2>2, <2>3, BamfTellsIs DEF TypeOK
<1>3. CASE Register
  <2>1. PICK w \in windows : RegistrarTells(w)
    BY <1>3 DEF Register
  <2>2. w \in Windows \cup Changes
    BY DEF TypeOK
  <2>. QED BY <1>3, <2>1, <2>2, RegistrarTellsIs DEF TypeOK, Register
<1>4. CASE RegistrarStops \/ RegistrarStarts
  <2>1. PICK c \in Changes : RegistrarTells(c)
    BY <1>4 DEF RegistrarStops, RegistrarStarts, Changes
  <2>. QED BY <1>4, <2>1, RegistrarTellsIs DEF TypeOK, RegistrarStops, RegistrarStarts
<1>5. CASE active_window_changed
  BY <1>5, BamfToldIs DEF TypeOK, active_window_changed, outside
<1>6. CASE window_registered \/ registrar_changed
  <2>1. PICK what : RegistrarTold(what)
    BY <1>6 DEF window_registered, registrar_changed
  <2>. QED BY <2>1, RegistrarToldIs DEF TypeOK, RegistrarTold, outside
<1>7. CASE Withdraw \/ Timeout \/ name_appeared_cb \/ name_vanished_cb \/ proxy_ready_cb \/ proxy_failed
           \/ UNCHANGED vars
  BY <1>7 DEF Withdraw, Timeout, name_appeared_cb, name_vanished_cb, proxy_ready_cb, proxy_failed,
              outside, vars
<1>. QED BY <1>1, <1>2, <1>3, <1>4, <1>5, <1>6, <1>7 DEF Next

\* And of the registrar's.
Stays == \A w \in Windows : Stands(w) => Stands(w)'

LEMMA RegistrarStep ==
  ASSUME TypeOK, [Next]_vars
  PROVE  \/ /\ UNCHANGED have_registrar /\ registrar'.up = registrar.up /\ Stays
            /\ told'.registrar = told.registrar
         \/ /\ UNCHANGED have_registrar /\ registrar'.up = registrar.up /\ Stays
            /\ \E w \in Windows : Stands(w)' /\ told'.registrar = Append(told.registrar, w)
         \/ /\ UNCHANGED have_registrar
            /\ \E c \in Changes : /\ told'.registrar = Append(told.registrar, c)
                                  /\ registrar'.up = (c = "appeared")
         \/ /\ registrar'.up = registrar.up /\ Stays
            /\ told.registrar # <<>> /\ told'.registrar = Tail(told.registrar)
            /\ \/ Head(told.registrar) \in Windows /\ UNCHANGED have_registrar
               \/ Head(told.registrar) \in Changes /\ timeouts' = timeouts + 1
                  /\ have_registrar' = (Head(told.registrar) = "appeared")
<1>1. CASE Activate
  <2>1. PICK w \in Windows : BamfTells(w)
    BY <1>1 DEF Activate
  <2>2. told'.registrar = told.registrar
    BY <2>1, BamfTellsIs, KnownIs DEF TypeOK
  <2>. QED BY <1>1, <2>2 DEF Activate, Stays, Stands, Panel
<1>2. CASE Close
  <2>1. PICK w \in windows : \E next \in (windows \ {w}) \cup {NoWindow} :
          /\ closed' = closed \cup {w} /\ withdrawn' = withdrawn \ {w}
          /\ IF w = active THEN active' = next /\ BamfTells(next) ELSE UNCHANGED <<active, told>>
          /\ registrar' = [registrar EXCEPT !.windows = @ \ {w}]
    BY <1>2 DEF Close
  <2>2. PICK next \in (windows \ {w}) \cup {NoWindow} :
          IF w = active THEN active' = next /\ BamfTells(next) ELSE UNCHANGED <<active, told>>
    BY <2>1
  <2>3. next \in Known
    BY KnownIs DEF TypeOK
  <2>4. told'.registrar = told.registrar
    BY <2>2, <2>3, BamfTellsIs DEF TypeOK
  <2>5. registrar'.up = registrar.up /\ registrar'.windows = registrar.windows \ {w}
    BY <2>1 DEF TypeOK
  <2>6. Stays
    BY <2>1, <2>5 DEF Stays, Stands
  <2>7. UNCHANGED have_registrar
    BY <1>2 DEF Close, Panel
  <2>. QED BY <2>4, <2>5, <2>6, <2>7
<1>3. CASE Register
  <2>1. PICK w \in windows : registrar' = [registrar EXCEPT !.windows = @ \cup {w}] /\ RegistrarTells(w)
    BY <1>3 DEF Register
  <2>2. w \in Windows /\ told'.registrar = Append(told.registrar, w)
    BY <2>1, RegistrarTellsIs DEF TypeOK
  <2>3. registrar'.up = registrar.up /\ registrar'.windows = registrar.windows \cup {w}
    BY <2>1 DEF TypeOK
  <2>4. UNCHANGED <<have_registrar, closed, withdrawn>> /\ registrar.up
    BY <1>3 DEF Register, Panel
  <2>. QED BY <2>2, <2>3, <2>4 DEF Stays, Stands
<1>4. CASE Withdraw
  <2>1. PICK w \in registrar.windows : /\ registrar' = [registrar EXCEPT !.windows = @ \ {w}]
                                       /\ withdrawn' = withdrawn \cup {w}
    BY <1>4 DEF Withdraw
  <2>2. registrar'.up = registrar.up /\ registrar'.windows = registrar.windows \ {w}
    BY <2>1 DEF TypeOK
  <2>3. UNCHANGED <<have_registrar, closed, told>>
    BY <1>4 DEF Withdraw, Panel
  <2>. QED BY <2>1, <2>2, <2>3 DEF Stays, Stands
<1>5. CASE RegistrarStops
  <2>1. told'.registrar = Append(told.registrar, "vanished") /\ "vanished" \in Changes
    BY <1>5, RegistrarTellsIs DEF TypeOK, RegistrarStops, Changes
  <2>2. registrar'.up = FALSE /\ UNCHANGED have_registrar
    BY <1>5 DEF RegistrarStops, Panel
  <2>. QED BY <2>1, <2>2
<1>6. CASE RegistrarStarts
  <2>1. told'.registrar = Append(told.registrar, "appeared") /\ "appeared" \in Changes
    BY <1>6, RegistrarTellsIs DEF TypeOK, RegistrarStarts, Changes
  <2>2. registrar'.up = TRUE /\ UNCHANGED have_registrar
    BY <1>6 DEF RegistrarStarts, Panel
  <2>. QED BY <2>1, <2>2
<1>7. CASE active_window_changed
  BY <1>7, BamfToldIs DEF TypeOK, active_window_changed, outside, Stays, Stands
<1>8. CASE window_registered
  <2>1. RegistrarTold(Windows) /\ UNCHANGED have_registrar
    BY <1>8 DEF window_registered
  <2>. QED BY <2>1, RegistrarToldIs DEF TypeOK, RegistrarTold, outside, Stays, Stands
<1>9. CASE registrar_changed
  <2>1. RegistrarTold(Changes) /\ have_registrar' = (Head(told.registrar) = "appeared")
    BY <1>9 DEF registrar_changed, Changes
  <2>2. timeouts' = timeouts + 1
    BY <1>9 DEF registrar_changed, on_active_window_changed, active_model_changed
  <2>. QED BY <2>1, <2>2, RegistrarToldIs DEF TypeOK, RegistrarTold, outside, Stays, Stands
<1>10. CASE Timeout \/ name_appeared_cb \/ name_vanished_cb \/ proxy_ready_cb \/ UNCHANGED vars
  BY <1>10 DEF Timeout, name_appeared_cb, name_vanished_cb, proxy_ready_cb, outside, vars, Stays, Stands
<1>11. CASE proxy_failed
  BY <1>11 DEF proxy_failed, Stays, Stands
<1>. QED BY <1>1, <1>2, <1>3, <1>4, <1>5, <1>6, <1>7, <1>8, <1>9, <1>10, <1>11 DEF Next

LEMMA PendingAppend ==
  ASSUME NEW S, NEW q \in Seq(S), NEW x \in S
  PROVE  /\ \A w : Pending(Append(q, x), w) <=> Pending(q, w) \/ x = w
         /\ ChangePending(Append(q, x)) <=> ChangePending(q) \/ x \in Changes
<1> DEFINE r == Append(q, x)
<1>1. Len(q) \in Nat /\ Len(r) = Len(q) + 1 /\ r[Len(q) + 1] = x /\ \A i \in 1..Len(q) : r[i] = q[i]
  BY AppendIs
<1>2. \A i : i \in 1..Len(r) <=> i \in 1..Len(q) \/ i = Len(q) + 1
  BY <1>1
<1> HIDE DEF r
<1>3. \A w : Pending(r, w) <=> Pending(q, w) \/ x = w
  BY <1>1, <1>2 DEF Pending
<1>4. ChangePending(r) <=> ChangePending(q) \/ x \in Changes
  BY <1>1, <1>2 DEF ChangePending
<1>. QED BY <1>3, <1>4 DEF r

LEMMA PendingTail ==
  ASSUME NEW S, NEW q \in Seq(S), q # <<>>
  PROVE  /\ \A w : Pending(q, w) <=> Pending(Tail(q), w) \/ Head(q) = w
         /\ ChangePending(q) <=> ChangePending(Tail(q)) \/ Head(q) \in Changes
<1> DEFINE r == Tail(q)
<1>1. /\ Len(q) \in Nat \ {0} /\ Len(r) = Len(q) - 1 /\ q[1] = Head(q)
      /\ \A i \in 1..Len(r) : r[i] = q[i + 1]
  BY TailIs
<1>2. \A i : i \in 1..Len(q) => i = 1 \/ (i - 1 \in 1..Len(r) /\ r[i - 1] = q[i])
  BY <1>1
<1>3. 1 \in 1..Len(q) /\ \A i \in 1..Len(r) : i + 1 \in 1..Len(q)
  BY <1>1
<1> HIDE DEF r
<1>4. \A w : Pending(q, w) <=> Pending(r, w) \/ Head(q) = w
  BY <1>1, <1>2, <1>3 DEF Pending
<1>5. ChangePending(q) <=> ChangePending(r) \/ Head(q) \in Changes
  BY <1>1, <1>2, <1>3 DEF ChangePending
<1>. QED BY <1>4, <1>5 DEF r

\* BAMF's last signal is of the active window.
LEMMA LastIsActiveStep ==
  ASSUME TypeOK, LastIsActive, [Next]_vars
  PROVE  LastIsActive'
<1>1. told.bamf \in Seq(Known)
  BY DEF TypeOK, ToldType
<1>2. CASE active' \in Known /\ told'.bamf = Append(told.bamf, active')
  BY <1>1, <1>2, AppendIs DEF LastIsActive
<1>3. CASE active' = active /\ told.bamf # <<>> /\ told'.bamf = Tail(told.bamf)
  <2>1. /\ Len(told.bamf) \in Nat \ {0} /\ Len(told'.bamf) = Len(told.bamf) - 1
        /\ \A i \in 1..Len(told'.bamf) : told'.bamf[i] = told.bamf[i + 1]
        /\ told'.bamf = <<>> <=> Len(told.bamf) = 1
    BY <1>1, <1>3, TailIs
  <2>. QED BY <1>3, <2>1 DEF LastIsActive
<1>. QED BY <1>2, <1>3, BamfStep DEF LastIsActive

\* Once all of the registrar's changes are known, have_registrar is right.
LEMMA RegistrarKnownStep ==
  ASSUME TypeOK, RegistrarKnown, [Next]_vars
  PROVE  RegistrarKnown'
<1> DEFINE q == told.registrar
           r == told'.registrar
           LastChange(s, i) == s[i] \in Changes /\ \A j \in (i + 1)..Len(s) : s[j] \notin Changes
<1>1. q \in Seq(Windows \cup Changes) /\ Len(q) \in Nat
  BY DEF TypeOK, ToldType
<1>2. \A i \in 1..Len(q) : LastChange(q, i) => (q[i] = "appeared") = registrar.up
  BY DEF RegistrarKnown
<1>3. ~ChangePending(q) => have_registrar = registrar.up
  BY DEF RegistrarKnown
<1>4. SUFFICES /\ ~ChangePending(r) => have_registrar' = registrar'.up
               /\ \A i \in 1..Len(r) : LastChange(r, i) => (r[i] = "appeared") = registrar'.up
  BY DEF RegistrarKnown, ChangePending
<1>5. CASE r = q /\ UNCHANGED have_registrar /\ registrar'.up = registrar.up
  BY <1>2, <1>3, <1>5
<1>6. CASE UNCHANGED have_registrar /\ registrar'.up = registrar.up /\ \E w \in Windows : r = Append(q, w)
  <2>1. PICK w \in Windows : r = Append(q, w)
    BY <1>6
  <2>2. Len(r) = Len(q) + 1 /\ r[Len(q) + 1] = w /\ \A i \in 1..Len(q) : r[i] = q[i]
    BY <1>1, <2>1, AppendIs
  <2>3. ChangePending(q) => ChangePending(r)
    BY <1>1, <2>1, PendingAppend
  <2>4. ASSUME NEW i \in 1..Len(r), LastChange(r, i)
        PROVE  (r[i] = "appeared") = registrar'.up
    <3>1. w \notin Changes
      BY KnownIs
    <3>2. i \in 1..Len(q) /\ r[i] = q[i]
      BY <1>1, <2>2, <2>4, <3>1
    <3>3. \A j \in (i + 1)..Len(q) : j \in (i + 1)..Len(r) /\ r[j] = q[j]
      BY <1>1, <2>2, <3>2
    <3>4. LastChange(q, i)
      BY <2>4, <3>2, <3>3
    <3>. QED BY <1>2, <1>6, <3>2, <3>4
  <2>. QED BY <1>3, <1>6, <2>3, <2>4
<1>7. CASE \E c \in Changes : r = Append(q, c) /\ registrar'.up = (c = "appeared")
  <2>1. PICK c \in Changes : r = Append(q, c) /\ registrar'.up = (c = "appeared")
    BY <1>7
  <2>2. Len(r) = Len(q) + 1 /\ r[Len(q) + 1] = c
    BY <1>1, <2>1, AppendIs
  <2>3. ChangePending(r)
    BY <1>1, <2>1, PendingAppend
  <2>4. \A i \in 1..Len(r) : LastChange(r, i) => i = Len(q) + 1
    BY <1>1, <2>1, <2>2
  <2>. QED BY <2>1, <2>2, <2>3, <2>4
<1>8. CASE /\ registrar'.up = registrar.up /\ q # <<>> /\ r = Tail(q)
           /\ \/ Head(q) \in Windows /\ UNCHANGED have_registrar
              \/ Head(q) \in Changes /\ have_registrar' = (Head(q) = "appeared")
  <2>1. /\ Len(q) \in Nat \ {0} /\ Len(r) = Len(q) - 1 /\ q[1] = Head(q)
        /\ \A i \in 1..Len(r) : r[i] = q[i + 1]
    BY <1>1, <1>8, TailIs
  <2>2. ChangePending(q) <=> ChangePending(r) \/ Head(q) \in Changes
    BY <1>1, <1>8, PendingTail
  <2>3. ASSUME NEW i \in 1..Len(r), LastChange(r, i)
        PROVE  (r[i] = "appeared") = registrar'.up
    <3>1. i + 1 \in 1..Len(q) /\ q[i + 1] = r[i]
      BY <2>1
    <3>2. \A j \in (i + 2)..Len(q) : j - 1 \in (i + 1)..Len(r) /\ r[j - 1] = q[j]
      BY <2>1
    <3>3. LastChange(q, i + 1)
      <4>1. q[i + 1] \in Changes /\ i + 1 + 1 = i + 2
        BY <2>3, <3>1
      <4>2. ASSUME NEW j \in (i + 2)..Len(q) PROVE q[j] \notin Changes
        BY <2>3, <3>2
      <4>3. QED BY <4>1, <4>2
    <3>. QED BY <1>2, <1>8, <3>1, <3>3
  <2>4. ASSUME ~ChangePending(r)
        PROVE  have_registrar' = registrar'.up
    <3>1. CASE Head(q) \in Windows
      BY <1>3, <1>8, <2>2, <2>4, <3>1, KnownIs
    <3>2. CASE Head(q) \in Changes
      <4>1. \A j \in 2..Len(q) : j - 1 \in 1..Len(r) /\ r[j - 1] = q[j]
        BY <2>1
      <4>2. LastChange(q, 1) /\ 1 \in 1..Len(q)
        <5>1. \A k \in 1..Len(r) : r[k] \notin Changes
          BY <2>4 DEF ChangePending
        <5>2. \A j \in 2..Len(q) : q[j] \notin Changes
          BY <4>1, <5>1
        <5>3. 1 + 1 = 2 /\ q[1] \in Changes /\ 1 \in 1..Len(q)
          BY <2>1, <3>2
        <5>4. QED BY <5>2, <5>3
      <4>. QED BY <1>2, <1>8, <2>1, <3>2, <4>2, KnownIs
    <3>. QED BY <1>8, <3>1, <3>2
  <2>. QED BY <2>3, <2>4
<1>. QED BY <1>5, <1>6, <1>7, <1>8, RegistrarStep

\* Nothing undoes a registration unannounced, but the closing of its window.
LEMMA RegistrationsStep ==
  ASSUME TypeOK, Registrations, [Next]_vars
  PROVE  Registrations'
<1> DEFINE q == told.registrar
           r == told'.registrar
           Announced(s, i) == \E j \in (i + 1)..Len(s) : s[j] \in Changes
<1>1. q \in Seq(Windows \cup Changes) /\ Len(q) \in Nat
  BY DEF TypeOK, ToldType
<1>2. \A i \in 1..Len(q) : q[i] \in Windows => Announced(q, i) \/ Stands(q[i])
  BY DEF Registrations
<1>3. SUFFICES \A w \in Windows : \A i \in 1..Len(r) : r[i] = w => Announced(r, i) \/ Stands(w)'
  BY DEF Registrations, Stands
<1>4. CASE r = q /\ Stays
  BY <1>2, <1>4 DEF Stays
<1>5. CASE Stays /\ \E w \in Windows : Stands(w)' /\ r = Append(q, w)
  <2>1. PICK w \in Windows : Stands(w)' /\ r = Append(q, w)
    BY <1>5
  <2>2. Len(r) = Len(q) + 1 /\ r[Len(q) + 1] = w /\ \A i \in 1..Len(q) : r[i] = q[i]
    BY <1>1, <2>1, AppendIs
  <2>3. ASSUME NEW i \in 1..Len(q), Announced(q, i) PROVE Announced(r, i)
    <3>1. PICK j \in (i + 1)..Len(q) : q[j] \in Changes
      BY <2>3
    <3>2. j \in (i + 1)..Len(r) /\ r[j] \in Changes
      BY <1>1, <2>2, <3>1
    <3>3. QED BY <3>2
  <2>4. ASSUME NEW x \in Windows, NEW i \in 1..Len(r), r[i] = x
        PROVE  Announced(r, i) \/ Stands(x)'
    <3>1. CASE i \in 1..Len(q)
      <4>1. q[i] = x
        BY <2>2, <2>4, <3>1
      <4>2. Announced(q, i) \/ Stands(x)
        BY <1>2, <3>1, <4>1
      <4>3. QED BY <1>5, <2>3, <3>1, <4>2 DEF Stays
    <3>2. CASE i = Len(q) + 1
      BY <2>1, <2>2, <2>4, <3>2
    <3>3. QED BY <1>1, <2>2, <3>1, <3>2
  <2>. QED BY <2>4
<1>6. CASE \E c \in Changes : r = Append(q, c)
  <2>1. PICK c \in Changes : r = Append(q, c)
    BY <1>6
  <2>2. Len(r) = Len(q) + 1 /\ r[Len(q) + 1] = c
    BY <1>1, <2>1, AppendIs
  <2>3. \A i \in 1..Len(r) : i = Len(q) + 1 \/ Announced(r, i)
    BY <1>1, <2>1, <2>2
  <2>. QED BY <2>1, <2>2, <2>3, KnownIs
<1>7. CASE Stays /\ q # <<>> /\ r = Tail(q)
  <2>1. /\ Len(q) \in Nat \ {0} /\ Len(r) = Len(q) - 1 /\ \A i \in 1..Len(r) : r[i] = q[i + 1]
    BY <1>1, <1>7, TailIs
  <2>2. ASSUME NEW i \in 1..Len(r), Announced(q, i + 1)
        PROVE  Announced(r, i)
    <3>1. PICK j \in (i + 2)..Len(q) : q[j] \in Changes
      BY <2>2, <2>1
    <3>2. j - 1 \in (i + 1)..Len(r) /\ r[j - 1] = q[j]
      BY <2>1
    <3>. QED BY <3>1, <3>2
  <2>3. \A i \in 1..Len(r) : i + 1 \in 1..Len(q)
    BY <2>1
  <2>. QED BY <1>2, <1>7, <2>1, <2>2, <2>3 DEF Stays
<1>. QED BY <1>4, <1>5, <1>6, <1>7, RegistrarStep

-----------------------------------------------------------------------------
(* The backend is right, or there is news                                  *)

LEMMA LookupSame ==
  ASSUME UNCHANGED <<active, have_registrar>>,
         HasMenu(active, have_registrar)' <=> HasMenu(active, have_registrar),
         active \in windows' <=> active \in windows
  PROVE  lookup_menu(active, have_registrar)' = lookup_menu(active, have_registrar)
  BY DEF lookup_menu

\* What the backend serves is none's or the active window's, unless that changed.
LEMMA BackendServesStep ==
  ASSUME TypeOK, LastIsActive, BackendServes, [Next]_vars
  PROVE  BackendServes'
<1>1. told.bamf \in Seq(Known) /\ active \in Known /\ backend.active_window \in Known
  BY KnownIs DEF TypeOK, ToldType
<1>2. CASE active' = active /\ told'.bamf = told.bamf
  <2>1. CASE window_registered
    BY <1>2, <2>1 DEF BackendServes, window_registered, active_model_changed
  <2>2. CASE registrar_changed
    <3>1. backend' = lookup_menu(IF backend.active_window # NoWindow THEN backend.active_window ELSE active,
                                 have_registrar')
      BY <2>2 DEF registrar_changed, on_active_window_changed, active_model_changed
    <3>2. CASE told.bamf = <<>>
      <4>1. backend' = lookup_menu(active, have_registrar')
        BY <3>1, <3>2 DEF BackendServes
      <4>. QED BY <1>1, <1>2, <4>1, LookupIs DEF BackendServes
    <3>. QED BY <1>2, <3>2 DEF BackendServes
  <2>3. CASE active_window_changed
    <3>1. told.bamf # <<>>
      BY <2>3 DEF active_window_changed
    <3>. QED BY <1>2, <3>1 DEF BackendServes
  <2>4. CASE backend' = backend
    BY <1>2, <2>4 DEF BackendServes
  <2>5. backend' = backend \/ window_registered \/ registrar_changed \/ active_window_changed
    BY DEF Next, Activate, Close, Register, Withdraw, RegistrarStops, RegistrarStarts, Timeout, Panel,
           name_appeared_cb, name_vanished_cb, proxy_ready_cb, proxy_failed, vars
  <2>. QED BY <2>1, <2>2, <2>3, <2>4, <2>5
<1>3. CASE active' \in Known /\ told'.bamf = Append(told.bamf, active')
  <2>1. Append(told.bamf, active') # <<>>
    BY <1>1, <1>3, AppendIs
  <2>. QED BY <1>3, <2>1 DEF BackendServes
<1>4. CASE active_window_changed /\ active' = active /\ told.bamf # <<>> /\ told'.bamf = Tail(told.bamf)
  <2>1. /\ Len(told.bamf) \in Nat \ {0} /\ Head(told.bamf) = told.bamf[1]
        /\ Tail(told.bamf) = <<>> <=> Len(told.bamf) = 1
    BY <1>1, <1>4, TailIs
  <2>2. CASE told'.bamf = <<>>
    <3>1. Head(told.bamf) = active
      BY <1>4, <2>1, <2>2 DEF LastIsActive
    <3>2. backend' = lookup_menu(active, have_registrar)
      BY <1>4, <3>1 DEF active_window_changed, on_active_window_changed, active_model_changed
    <3>. QED BY <1>1, <1>4, <3>2, LookupIs DEF BackendServes
  <2>. QED BY <2>2 DEF BackendServes
<1>. QED BY <1>2, <1>3, <1>4, BamfStep

\* What the backend serves is the menu of the active window, or there is news.
LEMMA BackendCurrentStep ==
  ASSUME TypeOK, LastIsActive, Registrations, BackendServes, BackendCurrent, [Next]_vars
  PROVE  BackendCurrent'
<1> DEFINE q == told.registrar
           r == told'.registrar
<1>0. q \in Seq(Windows \cup Changes) /\ told.bamf \in Seq(Known) /\ active \in Known
  BY KnownIs DEF TypeOK, ToldType
<1> SUFFICES ASSUME told'.bamf = <<>>, ~ChangePending(r), active' \notin withdrawn'
             PROVE  \/ have_registrar' /\ Pending(r, active')
                    \/ backend' = lookup_menu(active, have_registrar)'
  BY DEF BackendCurrent, NewsOfActive
<1>1. CASE Activate
  <2>1. PICK w \in Windows : BamfTells(w)
    BY <1>1 DEF Activate
  <2>. QED BY <1>0, <2>1, BamfTellsIs, AppendIs, KnownIs DEF TypeOK
<1>2. CASE Close
  <2>1. PICK w \in windows : \E next \in (windows \ {w}) \cup {NoWindow} :
          /\ windows' = windows \ {w} /\ withdrawn' = withdrawn \ {w}
          /\ IF w = active THEN active' = next /\ BamfTells(next) ELSE UNCHANGED <<active, told>>
          /\ registrar' = [registrar EXCEPT !.windows = @ \ {w}]
          /\ UNCHANGED Panel
    BY <1>2 DEF Close
  <2>2. PICK next \in (windows \ {w}) \cup {NoWindow} :
          IF w = active THEN active' = next /\ BamfTells(next) ELSE UNCHANGED <<active, told>>
    BY <2>1
  <2>3. w # active
    <3>1. next \in Known
      BY KnownIs DEF TypeOK
    <3>. QED BY <1>0, <2>2, <3>1, BamfTellsIs, AppendIs DEF TypeOK
  <2>4. UNCHANGED <<active, told, have_registrar, backend>>
    BY <2>1, <2>2, <2>3 DEF Panel
  <2>5. registrar'.up = registrar.up /\ registrar'.windows = registrar.windows \ {w}
    BY <2>1 DEF TypeOK
  <2>6. active \in windows' <=> active \in windows
    BY <2>1, <2>3
  <2>7. HasMenu(active, have_registrar)' <=> HasMenu(active, have_registrar)
    BY <2>3, <2>4, <2>5 DEF HasMenu
  <2>8. lookup_menu(active, have_registrar)' = lookup_menu(active, have_registrar)
    BY <2>4, <2>6, <2>7, LookupSame
  <2>9. active \notin withdrawn
    BY <2>1, <2>3, <2>4
  <2>. QED BY <2>4, <2>8, <2>9 DEF BackendCurrent, NewsOfActive
<1>3. CASE Register
  <2>1. PICK w \in windows : registrar' = [registrar EXCEPT !.windows = @ \cup {w}] /\ RegistrarTells(w)
    BY <1>3 DEF Register
  <2>2. w \in Windows /\ r = Append(q, w) /\ told'.bamf = told.bamf
    BY <2>1, RegistrarTellsIs DEF TypeOK
  <2>3. registrar'.up = registrar.up /\ registrar'.windows = registrar.windows \cup {w}
    BY <2>1 DEF TypeOK
  <2>4. UNCHANGED <<windows, active, have_registrar, backend, withdrawn>>
    BY <1>3 DEF Register, Panel
  <2>5. /\ ChangePending(q) => ChangePending(r)
        /\ Pending(r, active) <=> Pending(q, active) \/ w = active
    BY <1>0, <2>2, PendingAppend
  <2>6. CASE have_registrar /\ w = active
    BY <2>4, <2>5, <2>6
  <2>7. CASE ~(have_registrar /\ w = active)
    <3>1. HasMenu(active, have_registrar)' <=> HasMenu(active, have_registrar)
      BY <2>3, <2>4, <2>7 DEF HasMenu
    <3>2. lookup_menu(active, have_registrar)' = lookup_menu(active, have_registrar)
      BY <2>4, <3>1, LookupSame
    <3>. QED BY <2>2, <2>4, <2>5, <3>2 DEF BackendCurrent, NewsOfActive
  <2>. QED BY <2>6, <2>7
<1>4. CASE Withdraw
  <2>1. PICK w \in registrar.windows : /\ registrar' = [registrar EXCEPT !.windows = @ \ {w}]
                                       /\ withdrawn' = withdrawn \cup {w}
    BY <1>4 DEF Withdraw
  <2>2. registrar'.up = registrar.up /\ registrar'.windows = registrar.windows \ {w}
    BY <2>1 DEF TypeOK
  <2>3. UNCHANGED <<windows, active, told, have_registrar, backend>>
    BY <1>4 DEF Withdraw, Panel
  <2>4. w # active /\ active \notin withdrawn
    BY <2>1, <2>3
  <2>5. HasMenu(active, have_registrar)' <=> HasMenu(active, have_registrar)
    BY <2>2, <2>3, <2>4 DEF HasMenu
  <2>6. lookup_menu(active, have_registrar)' = lookup_menu(active, have_registrar)
    BY <2>3, <2>5, LookupSame
  <2>. QED BY <2>3, <2>4, <2>6 DEF BackendCurrent, NewsOfActive
<1>5. CASE RegistrarStops \/ RegistrarStarts
  <2>1. PICK c \in Changes : RegistrarTells(c)
    BY <1>5 DEF RegistrarStops, RegistrarStarts, Changes
  <2>2. r = Append(q, c)
    BY <2>1, RegistrarTellsIs DEF TypeOK
  <2>. QED BY <1>0, <2>1, <2>2, PendingAppend
<1>6. CASE active_window_changed
  <2>1. told.bamf # <<>> /\ told'.bamf = Tail(told.bamf)
    BY <1>6, BamfToldIs DEF TypeOK, active_window_changed
  <2>2. Len(told.bamf) = 1 /\ Head(told.bamf) = told.bamf[1]
    BY <1>0, <2>1, TailIs
  <2>3. Head(told.bamf) = active
    BY <2>1, <2>2 DEF LastIsActive
  <2>4. backend' = lookup_menu(active, have_registrar)
    BY <1>6, <2>3 DEF active_window_changed, on_active_window_changed, active_model_changed
  <2>5. UNCHANGED <<windows, active, have_registrar, registrar>>
    BY <1>6 DEF active_window_changed, outside
  <2>6. HasMenu(active, have_registrar)' <=> HasMenu(active, have_registrar)
    BY <2>5 DEF HasMenu
  <2>. QED BY <2>4, <2>5, <2>6, LookupSame
<1>7. CASE window_registered
  <2>1. RegistrarTold(Windows) /\ UNCHANGED <<windows, closed, active, registrar, have_registrar, withdrawn>>
    BY <1>7 DEF window_registered, RegistrarTold, outside
  <2>2. q # <<>> /\ Head(q) \in Windows /\ r = Tail(q) /\ told'.bamf = told.bamf
    BY <2>1, RegistrarToldIs DEF TypeOK
  <2>3. HasMenu(active, have_registrar)' <=> HasMenu(active, have_registrar)
    BY <2>1 DEF HasMenu
  <2>4. lookup_menu(active, have_registrar)' = lookup_menu(active, have_registrar)
    BY <2>1, <2>3, LookupSame
  <2>5. /\ ~ChangePending(q)
        /\ Pending(q, active) <=> Pending(r, active) \/ Head(q) = active
    BY <1>0, <2>2, PendingTail, KnownIs
  <2>6. CASE have_registrar /\ Head(q) = active
    <3>1. backend' = [type |-> "dbusmenu", active_window |-> active]
      BY <1>7, <2>6 DEF window_registered, active_model_changed
    <3>2. 1 \in 1..Len(q) /\ q[1] = active /\ Len(q) \in Nat
      BY <1>0, <2>2, <2>6, TailIs
    <3>3. ~\E j \in 2..Len(q) : q[j] \in Changes
      BY <2>5, <3>2 DEF ChangePending
    <3>4. Stands(active)
      BY <2>2, <2>6, <3>2, <3>3 DEF Registrations
    <3>5. active \notin closed
      BY <2>2, <2>6, WindowsAssumption DEF TypeOK, WindowsAssumption
    <3>6. HasMenu(active, have_registrar)
      BY <2>1, <2>6, <3>4, <3>5 DEF Stands, HasMenu
    <3>. QED BY <2>4, <3>1, <3>6 DEF lookup_menu
  <2>7. CASE ~(have_registrar /\ Head(q) = active)
    <3>1. backend' = backend
      BY <1>7, <2>7 DEF window_registered
    <3>. QED BY <2>1, <2>2, <2>4, <2>5, <2>7, <3>1 DEF BackendCurrent, NewsOfActive
  <2>. QED BY <2>6, <2>7
<1>8. CASE registrar_changed
  <2>1. RegistrarTold(Changes) /\ UNCHANGED <<windows, active, registrar>>
    BY <1>8 DEF registrar_changed, RegistrarTold, outside, Changes
  <2>2. told.bamf = <<>>
    BY <2>1, RegistrarToldIs DEF TypeOK
  <2>3. backend' = lookup_menu(active, have_registrar')
    BY <1>8, <2>2 DEF registrar_changed, on_active_window_changed, active_model_changed, BackendServes
  <2>4. lookup_menu(active, have_registrar)' = lookup_menu(active, have_registrar')
    BY <2>1 DEF lookup_menu, HasMenu
  <2>. QED BY <2>3, <2>4
<1>9. CASE Timeout \/ name_appeared_cb \/ name_vanished_cb \/ proxy_ready_cb \/ proxy_failed \/ UNCHANGED vars
  <2>1. /\ UNCHANGED <<windows, active, registrar, told, have_registrar, backend>>
        /\ withdrawn \subseteq withdrawn'
    BY <1>9 DEF Timeout, name_appeared_cb, name_vanished_cb, proxy_ready_cb, proxy_failed, outside, vars
  <2>2. HasMenu(active, have_registrar)' <=> HasMenu(active, have_registrar)
    BY <2>1 DEF HasMenu
  <2>3. lookup_menu(active, have_registrar)' = lookup_menu(active, have_registrar)
    BY <2>1, <2>2, LookupSame
  <2>. QED BY <2>1, <2>3 DEF BackendCurrent, NewsOfActive
<1>. QED BY <1>1, <1>2, <1>3, <1>4, <1>5, <1>6, <1>7, <1>8, <1>9 DEF Next

-----------------------------------------------------------------------------
\* What is on its way about the active window stays so, is acted on, or there was
\* nothing and whether it has a menu does not change.
LEMMA NewsStep ==
  ASSUME TypeOK, [Next]_vars
  PROVE  \/ NewsOfActive'
         \/ timeouts' = timeouts + 1
         \/ /\ ~NewsOfActive /\ UNCHANGED <<active, timeouts>>
            /\ HasMenu(active, have_registrar)' <=> HasMenu(active, have_registrar)
         \/ Timeout
<1> DEFINE q == told.registrar
           r == told'.registrar
<1>0. q \in Seq(Windows \cup Changes) /\ told.bamf \in Seq(Known) /\ active \in Known
  BY KnownIs DEF TypeOK, ToldType
<1>1. CASE Activate
  <2>1. PICK w \in Windows : BamfTells(w)
    BY <1>1 DEF Activate
  <2>2. told'.bamf # <<>>
    BY <1>0, <2>1, BamfTellsIs, AppendIs, KnownIs DEF TypeOK
  <2>. QED BY <2>2 DEF NewsOfActive
<1>2. CASE Close
  <2>1. PICK w \in windows : \E next \in (windows \ {w}) \cup {NoWindow} :
          /\ windows' = windows \ {w} /\ withdrawn' = withdrawn \ {w}
          /\ IF w = active THEN active' = next /\ BamfTells(next) ELSE UNCHANGED <<active, told>>
          /\ registrar' = [registrar EXCEPT !.windows = @ \ {w}]
          /\ UNCHANGED Panel
    BY <1>2 DEF Close
  <2>2. PICK next \in (windows \ {w}) \cup {NoWindow} :
          IF w = active THEN active' = next /\ BamfTells(next) ELSE UNCHANGED <<active, told>>
    BY <2>1
  <2>3. CASE w = active
    <3>1. next \in Known
      BY KnownIs DEF TypeOK
    <3>2. told'.bamf # <<>>
      BY <1>0, <2>2, <2>3, <3>1, BamfTellsIs, AppendIs DEF TypeOK
    <3>. QED BY <3>2 DEF NewsOfActive
  <2>4. CASE w # active
    <3>1. UNCHANGED <<active, told, have_registrar, timeouts>> /\ (active \in withdrawn => active \in withdrawn')
      BY <2>1, <2>2, <2>4 DEF Panel
    <3>2. registrar'.up = registrar.up /\ registrar'.windows = registrar.windows \ {w}
      BY <2>1 DEF TypeOK
    <3>3. HasMenu(active, have_registrar)' <=> HasMenu(active, have_registrar)
      BY <2>4, <3>1, <3>2 DEF HasMenu
    <3>. QED BY <3>1, <3>3 DEF NewsOfActive
  <2>. QED BY <2>3, <2>4
<1>3. CASE Register
  <2>1. PICK w \in windows : registrar' = [registrar EXCEPT !.windows = @ \cup {w}] /\ RegistrarTells(w)
    BY <1>3 DEF Register
  <2>2. w \in Windows /\ r = Append(q, w) /\ told'.bamf = told.bamf
    BY <2>1, RegistrarTellsIs DEF TypeOK
  <2>3. registrar'.up = registrar.up /\ registrar'.windows = registrar.windows \cup {w}
    BY <2>1 DEF TypeOK
  <2>4. UNCHANGED <<active, have_registrar, withdrawn, timeouts>>
    BY <1>3 DEF Register, Panel
  <2>5. /\ ChangePending(q) => ChangePending(r)
        /\ Pending(r, active) <=> Pending(q, active) \/ w = active
    BY <1>0, <2>2, PendingAppend
  <2>6. CASE have_registrar /\ w = active
    BY <2>4, <2>5, <2>6 DEF NewsOfActive
  <2>7. CASE ~(have_registrar /\ w = active)
    <3>1. HasMenu(active, have_registrar)' <=> HasMenu(active, have_registrar)
      BY <2>3, <2>4, <2>7 DEF HasMenu
    <3>. QED BY <2>2, <2>4, <2>5, <3>1 DEF NewsOfActive
  <2>. QED BY <2>6, <2>7
<1>4. CASE Withdraw
  <2>1. PICK w \in registrar.windows : /\ registrar' = [registrar EXCEPT !.windows = @ \ {w}]
                                       /\ withdrawn' = withdrawn \cup {w}
    BY <1>4 DEF Withdraw
  <2>2. registrar'.up = registrar.up /\ registrar'.windows = registrar.windows \ {w}
    BY <2>1 DEF TypeOK
  <2>3. UNCHANGED <<active, told, have_registrar, timeouts>>
    BY <1>4 DEF Withdraw, Panel
  <2>4. CASE w = active
    BY <2>1, <2>3, <2>4 DEF NewsOfActive
  <2>5. CASE w # active
    <3>1. HasMenu(active, have_registrar)' <=> HasMenu(active, have_registrar)
      BY <2>2, <2>3, <2>5 DEF HasMenu
    <3>. QED BY <2>1, <2>3, <3>1 DEF NewsOfActive
  <2>. QED BY <2>4, <2>5
<1>5. CASE RegistrarStops \/ RegistrarStarts
  <2>1. PICK c \in Changes : RegistrarTells(c)
    BY <1>5 DEF RegistrarStops, RegistrarStarts, Changes
  <2>2. r = Append(q, c)
    BY <2>1, RegistrarTellsIs DEF TypeOK
  <2>. QED BY <1>0, <2>1, <2>2, PendingAppend DEF NewsOfActive
<1>6. CASE active_window_changed \/ registrar_changed
  BY <1>6 DEF active_window_changed, registrar_changed, on_active_window_changed, active_model_changed
<1>7. CASE window_registered
  <2>1. RegistrarTold(Windows) /\ UNCHANGED <<active, registrar, have_registrar, withdrawn>>
    BY <1>7 DEF window_registered, RegistrarTold, outside
  <2>2. q # <<>> /\ Head(q) \in Windows /\ r = Tail(q) /\ told'.bamf = told.bamf
    BY <2>1, RegistrarToldIs DEF TypeOK
  <2>3. HasMenu(active, have_registrar)' <=> HasMenu(active, have_registrar)
    BY <2>1 DEF HasMenu
  <2>4. /\ ChangePending(q) <=> ChangePending(r)
        /\ Pending(q, active) <=> Pending(r, active) \/ Head(q) = active
    BY <1>0, <2>2, PendingTail, KnownIs
  <2>5. CASE have_registrar /\ Head(q) = active
    BY <1>7, <2>5 DEF window_registered, active_model_changed
  <2>6. CASE ~(have_registrar /\ Head(q) = active)
    <3>1. UNCHANGED timeouts
      BY <1>7, <2>6 DEF window_registered
    <3>. QED BY <2>1, <2>2, <2>3, <2>4, <2>6, <3>1 DEF NewsOfActive
  <2>. QED BY <2>5, <2>6
<1>8. CASE name_appeared_cb \/ name_vanished_cb \/ proxy_ready_cb \/ proxy_failed \/ UNCHANGED vars
  <2>1. /\ UNCHANGED <<active, registrar, told, have_registrar, timeouts>>
        /\ withdrawn \subseteq withdrawn'
    BY <1>8 DEF name_appeared_cb, name_vanished_cb, proxy_ready_cb, proxy_failed, outside, vars
  <2>2. HasMenu(active, have_registrar)' <=> HasMenu(active, have_registrar)
    BY <2>1 DEF HasMenu
  <2>. QED BY <2>1, <2>2 DEF NewsOfActive
<1>. QED BY <1>1, <1>2, <1>3, <1>4, <1>5, <1>6, <1>7, <1>8 DEF Next

\* What the other steps than those of the helper leave of it.
LEMMA OtherStep ==
  ASSUME TypeOK, [Next]_vars
  PROVE  \/ /\ UNCHANGED <<helper, menubar, closed>> /\ withdrawn \subseteq withdrawn'
            /\ timeouts' = timeouts + 1 \/ UNCHANGED <<timeouts, backend>>
            /\ windows \subseteq windows' /\ windows' \cap closed = {}
         \/ Close \/ Timeout \/ name_appeared_cb \/ name_vanished_cb \/ proxy_ready_cb \/ proxy_failed
<1>1. CASE Activate
  <2>1. PICK w \in Windows \ closed : windows' = windows \cup {w}
    BY <1>1 DEF Activate
  <2>2. windows' \cap closed = {}
    BY <2>1 DEF TypeOK
  <2>. QED BY <1>1, <2>1, <2>2 DEF Activate, Panel
<1>2. CASE Register \/ Withdraw \/ RegistrarStops \/ RegistrarStarts
  BY <1>2 DEF TypeOK, Register, Withdraw, RegistrarStops, RegistrarStarts, Panel
<1>3. CASE active_window_changed \/ registrar_changed
  BY <1>3 DEF TypeOK, active_window_changed, registrar_changed, RegistrarTold, on_active_window_changed,
              active_model_changed, outside
<1>4. CASE window_registered
  BY <1>4 DEF TypeOK, window_registered, RegistrarTold, active_model_changed, outside
<1>5. CASE UNCHANGED vars
  BY <1>5 DEF TypeOK, vars
<1>. QED BY <1>1, <1>2, <1>3, <1>4, <1>5 DEF Next

LEMMA CloseIs ==
  ASSUME TypeOK, Close
  PROVE  \E w \in windows :
           /\ windows' = windows \ {w} /\ closed' = closed \cup {w} /\ withdrawn' = withdrawn \ {w}
           /\ UNCHANGED <<menubar, backend, timeouts>>
           /\ helper'.type = helper.type /\ helper'.window = helper.window
           /\ helper'.proxies = helper.proxies /\ helper'.xml = helper.xml
           /\ IF helper.window = w /\ helper.names # <<"unwatched">>
              THEN helper'.names = Append(helper.names, "vanished") ELSE UNCHANGED helper
<1>1. PICK w \in windows : \E next \in (windows \ {w}) \cup {NoWindow} :
        /\ windows' = windows \ {w} /\ closed' = closed \cup {w} /\ withdrawn' = withdrawn \ {w}
        /\ helper' = IF helper.window = w /\ helper.names # <<"unwatched">>
                     THEN [helper EXCEPT !.names = Append(@, "vanished")] ELSE helper
        /\ UNCHANGED Panel
  BY DEF Close
<1>2. CASE helper.window = w /\ helper.names # <<"unwatched">>
  <2>1. helper' = [helper EXCEPT !.names = Append(helper.names, "vanished")]
    BY <1>1, <1>2
  <2>2. Append(helper.names, "vanished") \in Seq(Changes \cup {"unwatched"})
    BY HelperIs, AppendIs DEF Changes
  <2>. QED BY <1>1, <1>2, <2>1, <2>2, NamesAre, HelperIs DEF Panel
<1>3. CASE ~(helper.window = w /\ helper.names # <<"unwatched">>)
  BY <1>1, <1>3 DEF Panel
<1>. QED BY <1>2, <1>3

LEMMA VanishedAppended ==
  ASSUME TypeOK
  PROVE  /\ Append(helper.names, "vanished") \notin {<<>>, <<"unwatched">>}
         /\ ~Pending(helper.names, "unwatched") => ~Pending(Append(helper.names, "vanished"), "unwatched")
<1> DEFINE n == Append(helper.names, "vanished")
<1>1. helper.names \in Seq(Changes \cup {"unwatched"}) /\ "vanished" \in Changes \cup {"unwatched"}
  BY HelperIs DEF Changes
<1>2. Len(n) = Len(helper.names) + 1 /\ n[Len(n)] = "vanished" /\ n # <<>> /\ Len(helper.names) \in Nat
  BY <1>1, AppendIs
<1>3. n # <<"unwatched">>
  <2>1. ASSUME NEW s, s = <<"unwatched">>
        PROVE  s[Len(s)] = "unwatched"
    BY <2>1
  <2> HIDE DEF n
  <2>. QED BY <1>2, <2>1
<1>4. ~Pending(helper.names, "unwatched") => ~Pending(n, "unwatched")
  BY <1>1, PendingAppend
<1>. QED BY <1>2, <1>3, <1>4

\* Only a helper with an importer has anything to be called back for.
LEMMA CallbackWatched ==
  ASSUME TypeOK, OthersIdle, UnwatchedIdle, ModelServed,
         name_appeared_cb \/ name_vanished_cb \/ proxy_ready_cb \/ proxy_failed
  PROVE  Watched /\ helper'.type = "dbusmenu" /\ helper'.window = helper.window
         /\ helper'.names # <<"unwatched">> /\ ~Pending(helper'.names, "unwatched")
<1>1. CASE name_appeared_cb \/ name_vanished_cb
  <2>1. /\ helper.names # <<>> /\ Head(helper.names) \in Changes /\ helper'.names = Tail(helper.names)
        /\ helper'.type = helper.type /\ helper'.window = helper.window
    BY <1>1, NameAppearedIs, NameVanishedIs DEF Changes
  <2>2. helper.names # <<"unwatched">>
    BY <2>1 DEF Changes
  <2>3. Watched
    BY <2>1, <2>2 DEF OthersIdle, Watched
  <2>4. ~Pending(Tail(helper.names), "unwatched")
    BY <2>1, <2>3, HelperIs, PendingTail DEF ModelServed
  <2>5. Pending(<<"unwatched">>, "unwatched")
    BY DEF Pending
  <2>. QED BY <2>1, <2>3, <2>4, <2>5 DEF Watched
<1>2. CASE proxy_ready_cb \/ proxy_failed
  <2>1. /\ helper.proxies > 0 /\ helper'.names = helper.names
        /\ helper'.type = helper.type /\ helper'.window = helper.window
    BY <1>2, ProxyReadyIs, ProxyFailedIs
  <2>2. Watched
    BY <2>1 DEF OthersIdle, UnwatchedIdle, Watched
  <2>. QED BY <2>1, <2>2 DEF Watched, ModelServed
<1>. QED BY <1>1, <1>2

\* The helper is for what the backend serves, or a timeout will replace it.
\* What makes the registrar known, or forgotten, starts a timeout.
LEMMA ChangeHeard ==
  ASSUME TypeOK, [Next]_vars, ChangePending(told.registrar), ~ChangePending(told'.registrar)
  PROVE  timeouts' = timeouts + 1
<1> DEFINE q == told.registrar
<1>1. q \in Seq(Windows \cup Changes)
  BY DEF TypeOK, ToldType
<1>2. told'.registrar # q
  OBVIOUS
<1>3. ASSUME NEW x \in Windows \cup Changes, told'.registrar = Append(q, x)
      PROVE  FALSE
  BY <1>1, <1>3, PendingAppend
<1>4. CASE q # <<>> /\ told'.registrar = Tail(q) /\ Head(q) \in Windows
  <2>1. ChangePending(q) <=> ChangePending(Tail(q)) \/ Head(q) \in Changes
    BY <1>1, <1>4, PendingTail
  <2>2. QED BY <1>4, <2>1, KnownIs
<1>5. QED BY <1>2, <1>3, <1>4, RegistrarStep

LEMMA HelperCurrentStep ==
  ASSUME TypeOK, TypeOK', HelperCurrent, [Next]_vars
  PROVE  HelperCurrent'
<1>1. timeouts \in Nat
  BY DEF TypeOK
<1>2. SUFFICES ASSUME timeouts' = 0 /\ ~ChangePending(told'.registrar)
               PROVE  helper'.type = backend'.type /\ helper'.window = backend'.active_window
  BY DEF HelperCurrent
<1>3. ~ChangePending(told.registrar)
  BY <1>1, <1>2, ChangeHeard
<1>4. timeouts = 0 => helper.type = backend.type /\ helper.window = backend.active_window
  BY <1>3 DEF HelperCurrent
<1>5. CASE Close
  BY <1>2, <1>4, <1>5, CloseIs
<1>6. CASE Timeout
  <2>1. helper' = NewHelper /\ UNCHANGED backend
    BY <1>6 DEF Timeout, set_active_window_menu
  <2>. QED BY <2>1, NewHelperIs
<1>7. CASE name_appeared_cb \/ name_vanished_cb \/ proxy_ready_cb \/ proxy_failed
  <2>1. UNCHANGED <<backend, timeouts>>
    BY <1>7 DEF name_appeared_cb, name_vanished_cb, proxy_ready_cb, proxy_failed
  <2>2. helper'.type = helper.type /\ helper'.window = helper.window
    BY <1>7, NameAppearedIs, NameVanishedIs, ProxyReadyIs, ProxyFailedIs
  <2>. QED BY <1>2, <1>4, <2>1, <2>2
<1>. QED BY <1>1, <1>2, <1>4, <1>5, <1>6, <1>7, OtherStep

\* The helper shows what it imports, or will.
LEMMA HelperStep ==
  ASSUME TypeOK, TypeOK', Helper, [Next]_vars
  PROVE  Helper'
<1> USE DEF Helper
<1>0. NoWindow \notin Windows
  BY WindowsAssumption DEF WindowsAssumption
<1>1. CASE /\ UNCHANGED <<helper, menubar, closed>> /\ withdrawn \subseteq withdrawn'
           /\ windows \subseteq windows' /\ windows' \cap closed = {}
  <2>1. OthersIdle' /\ UnwatchedIdle'
    BY <1>1 DEF OthersIdle, UnwatchedIdle
  <2>2. ImporterShown'
    BY <1>1 DEF ImporterShown, Watched
  <2>3. ModelServed'
    BY <1>1 DEF ModelServed, Watched
  <2>. QED BY <2>1, <2>2, <2>3
<1>2. CASE Close
  <2>1. PICK w \in windows :
           /\ windows' = windows \ {w} /\ closed' = closed \cup {w} /\ withdrawn' = withdrawn \ {w}
           /\ UNCHANGED <<menubar, backend, timeouts>>
           /\ helper'.type = helper.type /\ helper'.window = helper.window
           /\ helper'.proxies = helper.proxies /\ helper'.xml = helper.xml
           /\ IF helper.window = w /\ helper.names # <<"unwatched">>
              THEN helper'.names = Append(helper.names, "vanished") ELSE UNCHANGED helper
    BY <1>2, CloseIs
  <2>2. CASE helper.window = w /\ helper.names # <<"unwatched">>
    <3>1. helper.window # NoWindow
      BY <1>0, <2>2 DEF TypeOK
    <3>2. Watched /\ helper'.type = "dbusmenu"
      BY <2>1, <2>2, <3>1 DEF OthersIdle, Watched
    <3>3. /\ helper'.names \notin {<<>>, <<"unwatched">>}
          /\ ~Pending(helper'.names, "unwatched")
      BY <2>1, <2>2, <3>2, VanishedAppended DEF ModelServed
    <3>4. OthersIdle' /\ UnwatchedIdle' /\ ImporterShown'
      BY <3>2, <3>3 DEF OthersIdle, UnwatchedIdle, ImporterShown
    <3>5. ModelServed'
      BY <2>1, <2>2, <3>2, <3>3 DEF ModelServed
    <3>. QED BY <3>4, <3>5
  <2>3. CASE ~(helper.window = w /\ helper.names # <<"unwatched">>)
    <3>1. UNCHANGED <<helper, menubar>>
      BY <2>1, <2>3
    <3>2. OthersIdle' /\ UnwatchedIdle'
      BY <3>1 DEF OthersIdle, UnwatchedIdle
    <3>3. ImporterShown'
      BY <2>1, <2>3, <3>1 DEF ImporterShown, Watched
    <3>4. ModelServed'
      BY <2>1, <2>3, <3>1 DEF ModelServed, Watched
    <3>. QED BY <3>2, <3>3, <3>4
  <2>. QED BY <2>2, <2>3
<1>3. CASE Timeout
  <2>1. /\ helper' = NewHelper
        /\ menubar' = IF backend.type = "dbusmenu" THEN menubar
                      ELSE [type |-> backend.type, window |-> backend.active_window]
        /\ UNCHANGED <<windows, closed>>
    BY <1>3 DEF Timeout, set_active_window_menu, outside
  <2>2. OthersIdle'
    BY <2>1, NewHelperIs DEF OthersIdle
  <2>3. UnwatchedIdle' /\ ImporterShown'
    BY <2>1, NewHelperIs DEF UnwatchedIdle, ImporterShown, Watched
  <2>4. HasMenu(backend.active_window, have_registrar) => backend.active_window \in windows
    BY DEF HasMenu, TypeOK
  <2>5. ModelServed'
    <3>1. ASSUME Watched'
          PROVE  /\ helper'.names = <<"appeared">> /\ helper'.xml = FALSE
                 /\ helper'.window \in windows
      BY <2>1, <2>4, <3>1, NewHelperIs DEF Watched
    <3>2. ASSUME NEW n, n = <<"appeared">>
          PROVE  ~Pending(n, "unwatched") /\ ~Pending(n, "vanished") /\ n # <<>>
      BY <3>2 DEF Pending
    <3>3. UNCHANGED <<windows, closed>>
      BY <2>1
    <3>. QED BY <3>1, <3>2, <3>3 DEF ModelServed
  <2>. QED BY <2>2, <2>3, <2>5
<1>4. CASE name_appeared_cb \/ name_vanished_cb \/ proxy_ready_cb \/ proxy_failed
  <2>1. /\ Watched /\ helper'.type = "dbusmenu" /\ helper'.window = helper.window
        /\ helper'.names # <<"unwatched">> /\ ~Pending(helper'.names, "unwatched")
    BY <1>4, CallbackWatched
  <2>2. OthersIdle' /\ UnwatchedIdle'
    BY <2>1 DEF OthersIdle, UnwatchedIdle
  <2>3. UNCHANGED <<windows, closed>> /\ withdrawn \subseteq withdrawn'
    BY <1>4 DEF name_appeared_cb, name_vanished_cb, proxy_ready_cb, proxy_failed, outside
  <2>4. helper.proxies \in Nat
    BY HelperIs
  <2>5. CASE name_appeared_cb
    <3>1. /\ helper'.proxies > 0 /\ helper'.xml = helper.xml
          /\ helper.names # <<>> /\ helper'.names = Tail(helper.names)
      BY <2>4, <2>5, NameAppearedIs
    <3>2. Pending(helper'.names, "vanished") => Pending(helper.names, "vanished")
      BY <3>1, HelperIs, PendingTail
    <3>3. ImporterShown'
      BY <3>1 DEF ImporterShown
    <3>4. ModelServed'
      BY <2>1, <2>3, <3>1, <3>2 DEF ModelServed
    <3>. QED BY <2>2, <3>3, <3>4
  <2>6. CASE name_vanished_cb
    <3>1. /\ helper.names # <<>> /\ Head(helper.names) = "vanished" /\ helper'.xml = FALSE
      BY <2>6, NameVanishedIs
    <3>2. helper.window \notin windows
      BY <2>1, <3>1, HelperIs, PendingTail DEF ModelServed
    <3>3. ImporterShown'
      BY <2>1, <2>6 DEF ImporterShown, name_vanished_cb, notify
    <3>4. ModelServed'
      BY <2>1, <2>3, <3>1, <3>2 DEF ModelServed
    <3>. QED BY <2>2, <3>3, <3>4
  <2>7. CASE proxy_ready_cb
    <3>1. ImporterShown'
      BY <2>1, <2>7 DEF ImporterShown, proxy_ready_cb, notify
    <3>2. ModelServed'
      BY <2>1, <2>3, <2>7, ProxyReadyIs DEF ModelServed
    <3>. QED BY <2>2, <3>1, <3>2
  <2>8. CASE proxy_failed
    <3>1. helper.window \in withdrawn' /\ helper'.names = helper.names /\ helper'.xml = helper.xml
      BY <2>8, ProxyFailedIs DEF proxy_failed
    <3>2. ImporterShown'
      BY <2>1, <3>1 DEF ImporterShown
    <3>3. ModelServed'
      BY <2>1, <2>3, <3>1 DEF ModelServed
    <3>. QED BY <2>2, <3>2, <3>3
  <2>. QED BY <1>4, <2>5, <2>6, <2>7, <2>8
<1>. QED BY <1>1, <1>2, <1>3, <1>4, OtherStep

\* A helper without an importer for a window that has a menu is put right.
LEMMA UnwatchedJustifiedStep ==
  ASSUME TypeOK, TypeOK', Helper, UnwatchedJustified, [Next]_vars
  PROVE  UnwatchedJustified'
<1>0. timeouts \in Nat
  BY DEF TypeOK
<1>1. CASE Timeout
  <2>1. helper' = NewHelper /\ UNCHANGED <<active, registrar, have_registrar, backend>>
    BY <1>1 DEF Timeout, set_active_window_menu, outside
  <2>2. ASSUME helper'.type = "dbusmenu", helper'.names = <<"unwatched">>, helper'.window = active'
        PROVE  ~HasMenu(active, have_registrar)'
    <3>1. ~HasMenu(backend.active_window, have_registrar) /\ active = backend.active_window
      BY <2>1, <2>2, NewHelperIs
    <3>. QED BY <2>1, <3>1 DEF HasMenu
  <2>. QED BY <2>2 DEF UnwatchedJustified
<1>2. CASE name_appeared_cb \/ name_vanished_cb \/ proxy_ready_cb \/ proxy_failed
  BY <1>2, CallbackWatched DEF Helper, UnwatchedJustified
<1>3. CASE helper'.type = helper.type /\ helper'.window = helper.window
           /\ (helper'.names = <<"unwatched">> => helper.names = <<"unwatched">>)
  BY <1>0, <1>1, <1>3, NewsStep DEF UnwatchedJustified
<1>4. CASE Close
  BY <1>3, <1>4, CloseIs, VanishedAppended
<1>. QED BY <1>1, <1>2, <1>3, <1>4, OtherStep

-----------------------------------------------------------------------------
(* The invariant, and what it says when nothing is due                     *)

LEMMA InitIInv == Init => IInv
<1> SUFFICES ASSUME Init PROVE IInv
  OBVIOUS
<1>1. /\ told.bamf = <<>> /\ active = NoWindow /\ withdrawn = {} /\ have_registrar = FALSE
      /\ timeouts = 0 /\ backend = lookup_menu(active, have_registrar)
      /\ told.registrar \in {<<"appeared">>, <<"vanished">>}
      /\ (told.registrar = <<"appeared">>) = registrar.up
      /\ helper = NoHelper /\ menubar = [type |-> "none", window |-> NoWindow]
  BY DEF Init
<1>2. TypeOK
  BY TypeInit
<1>3. /\ told.registrar[1] \in Changes /\ Len(told.registrar) = 1
      /\ (told.registrar[1] = "appeared") = registrar.up
  BY <1>1 DEF Changes
<1>4. LastIsActive /\ RegistrarKnown /\ Registrations
  <2>1. ChangePending(told.registrar)
    BY <1>3 DEF ChangePending
  <2>. QED BY <1>1, <1>3, <2>1, KnownIs DEF LastIsActive, RegistrarKnown, Registrations
<1>5. BackendServes /\ BackendCurrent
  BY <1>1, LookupIs, KnownIs DEF BackendServes, BackendCurrent
<1>6. HelperCurrent /\ UnwatchedJustified /\ Helper
  BY <1>1, <1>3 DEF HelperCurrent, ChangePending, UnwatchedJustified, Helper, OthersIdle, UnwatchedIdle, ImporterShown,
              ModelServed, Watched, NoHelper
<1>. QED BY <1>2, <1>4, <1>5, <1>6 DEF IInv, Helper

LEMMA StepIInv == IInv /\ [Next]_vars => IInv'
<1> SUFFICES ASSUME IInv, [Next]_vars PROVE IInv'
  OBVIOUS
<1>1. TypeOK'
  BY TypeStep DEF IInv
<1>2. LastIsActive' /\ RegistrarKnown' /\ Registrations'
  BY LastIsActiveStep, RegistrarKnownStep, RegistrationsStep DEF IInv
<1>3. BackendServes' /\ BackendCurrent'
  BY BackendServesStep, BackendCurrentStep DEF IInv
<1>4. HelperCurrent' /\ UnwatchedJustified' /\ Helper'
  BY <1>1, HelperCurrentStep, UnwatchedJustifiedStep, HelperStep DEF IInv, Helper
<1>. QED BY <1>1, <1>2, <1>3, <1>4 DEF IInv, Helper

LEMMA IInvMenu == IInv => MenuOfActive
<1> SUFFICES ASSUME IInv, Quiet PROVE Right
  BY DEF MenuOfActive
<1> DEFINE b == lookup_menu(active, have_registrar)
<1>1. ~ChangePending(told.registrar) /\ ~Pending(told.registrar, active) /\ told.bamf = <<>>
  BY DEF Quiet, ChangePending, Pending
<1>2. have_registrar = registrar.up
  BY <1>1 DEF IInv, RegistrarKnown
<1>3. CASE active \in withdrawn
  BY <1>2, <1>3 DEF Right
<1>4. CASE active \notin withdrawn
  <2>1. backend = b
    BY <1>1, <1>4 DEF IInv, BackendCurrent, NewsOfActive
  <2>2. helper.type = b.type /\ helper.window = b.active_window
    BY <1>1, <2>1 DEF IInv, HelperCurrent, Quiet
  <2>3. CASE b.type # "dbusmenu"
    <3>1. menubar = [type |-> b.type, window |-> b.active_window]
      BY <2>2, <2>3 DEF IInv, Helper, OthersIdle
    <3>. QED BY <1>2, <2>3, <3>1 DEF Right
  <2>4. CASE b.type = "dbusmenu"
    <3>0. active \in Known
      BY KnownIs DEF IInv, TypeOK
    <3>1. HasMenu(active, have_registrar) /\ b.active_window = active
      BY <2>4, <3>0, LookupIs
    <3>2. active \in windows
      BY <3>1 DEF HasMenu, IInv, TypeOK
    <3>3. helper.names = <<>> /\ helper.proxies = 0
      BY <1>1, <1>4, <2>2, <2>4, <3>1 DEF IInv, UnwatchedJustified, NewsOfActive, Quiet
    <3>4. Watched
      BY <2>2, <2>4, <3>3 DEF Watched
    <3>5. menubar = [type |-> b.type, window |-> b.active_window]
      BY <1>4, <2>2, <2>4, <3>1, <3>3, <3>4 DEF IInv, Helper, ImporterShown
    <3>6. helper.xml <=> active \in Version2
      BY <1>4, <2>2, <3>1, <3>2, <3>3, <3>4 DEF IInv, Helper, ModelServed
    <3>7. helper.xml = (active \in Version2)
      BY <3>6, HelperIs DEF IInv
    <3>. QED BY <1>2, <2>2, <3>1, <3>5, <3>7 DEF Right
  <2>. QED BY <2>3, <2>4
<1>. QED BY <1>3, <1>4

\* When all that was due has run the menu that is shown is the active window's,
\* in whatever order the callbacks of BAMF, the registrar, the timeouts and the
\* importers of however many windows ran.
THEOREM MenuCorrect == Spec => []MenuOfActive
  BY InitIInv, StepIInv, IInvMenu, PTL DEF Spec

-----------------------------------------------------------------------------
(* AppMatcher                                                              *)

\* A change that the tables do not have is on its way, through the monitor, the
\* idle callback and the mark.  on_monitor_changed, invalidate_ids.
TablesOrNews == noticed \/ idles \/ invalidated \/ tables = installed

\* Initially the tables are made; every change is announced, and the mark is taken
\* off only by making them anew.
THEOREM TablesCorrect == Matcher!Spec => []TablesOrNews
<1>1. Matcher!Init => TablesOrNews
  BY DEF Matcher!Init, TablesOrNews
<1>2. TablesOrNews /\ [Matcher!Next]_Matcher!vars => TablesOrNews'
  <2> SUFFICES ASSUME TablesOrNews, [Matcher!Next]_Matcher!vars PROVE TablesOrNews'
    OBVIOUS
  <2>1. CASE Matcher!Change
    BY <2>1 DEF Matcher!Change, TablesOrNews
  <2>2. CASE Matcher!on_monitor_changed
    BY <2>2 DEF Matcher!on_monitor_changed, TablesOrNews
  <2>3. CASE Matcher!invalidate_ids
    BY <2>3 DEF Matcher!invalidate_ids, TablesOrNews
  <2>4. CASE Matcher!matcher_bus_signal_subscribe
    BY <2>4 DEF Matcher!matcher_bus_signal_subscribe, TablesOrNews
  <2>5. CASE Matcher!Match
    BY <2>5 DEF Matcher!Match, Matcher!match_wnck_window,
                             Matcher!matcher_check_invalidated, TablesOrNews
  <2>6. CASE UNCHANGED Matcher!vars
    BY <2>6 DEF Matcher!vars, TablesOrNews
  <2>. QED BY <2>1, <2>2, <2>3, <2>4, <2>5, <2>6 DEF Matcher!Next
<1>. QED BY <1>1, <1>2, PTL DEF Matcher!Spec

-----------------------------------------------------------------------------
\* The alternatives that go by a window's class or group come before all others.
LEMMA ClassFirst ==
  ASSUME NEW apps, NEW cache, NEW w, NEW a \in Matcher!Matched(apps, cache, w)
  PROVE  LET found == Matcher!Alternatives(apps, cache, w)
             named == found[1] \cup found[2] \cup found[3] \cup found[4]
         IN named # {} => a \in named
<1> DEFINE found == Matcher!Alternatives(apps, cache, w)
           sure == {k \in 1..6 : found[k] # {}}
              \cup (IF found[7] # {} /\ found[7] = Matcher!WithExec(apps, w.cls) THEN {7} ELSE {})
              \cup (IF found[8] # {} /\ found[8] = Matcher!WithExec(apps, w.grp) THEN {8} ELSE {})
           named == found[1] \cup found[2] \cup found[3] \cup found[4]
<1>1. a \in (UNION {found[k] : k \in {j \in 1..8 : \A s \in sure : j <= s}})
             \cup (IF sure = {} THEN {NoApp} ELSE {})
  BY DEF Matcher!Matched
<1> HIDE DEF found
<1>2. SUFFICES ASSUME named # {} PROVE a \in named
  BY DEF found
<1>3. PICK k \in 1..4 : found[k] # {}
  <2>1. \E k \in {1, 2, 3, 4} : found[k] # {}
    BY <1>2
  <2>. QED BY <2>1
<1>4. k \in sure
  BY <1>3
<1>5. PICK j \in 1..8 : (\A s \in sure : j <= s) /\ a \in found[j]
  BY <1>1, <1>4
<1>6. j \in 1..4
  BY <1>3, <1>4, <1>5
<1>. QED BY <1>5, <1>6

\* Every alternative gives applications of the tables, or one that is remembered of
\* a process and still there, or none.
LEMMA MatchedKnown ==
  ASSUME NEW apps, NEW cache, NEW w, NEW a \in Matcher!Matched(apps, cache, w)
  PROVE  a \in apps \cup installed \cup {NoApp}
<1> DEFINE found == Matcher!Alternatives(apps, cache, w)
           sure == {k \in 1..6 : found[k] # {}}
              \cup (IF found[7] # {} /\ found[7] = Matcher!WithExec(apps, w.cls) THEN {7} ELSE {})
              \cup (IF found[8] # {} /\ found[8] = Matcher!WithExec(apps, w.grp) THEN {8} ELSE {})
<1>1. a \in (UNION {found[k] : k \in {j \in 1..8 : \A s \in sure : j <= s}})
             \cup (IF sure = {} THEN {NoApp} ELSE {})
  BY DEF Matcher!Matched
<1>2. \A k \in {1, 2, 3, 4, 5, 6, 7, 8} : found[k] \subseteq apps \cup installed \cup {NoApp}
  BY DEF Matcher!Alternatives, Matcher!ByStartupId, Matcher!ByKey, Matcher!ByPid,
         Matcher!ByExec, Matcher!WithExec
<1> HIDE DEF found
<1>3. \A k \in 1..8 : found[k] \subseteq apps \cup installed \cup {NoApp}
  BY <1>2
<1>4. SUFFICES ASSUME a # NoApp PROVE a \in apps \cup installed \cup {NoApp}
  OBVIOUS
<1>5. PICK j \in 1..8 : a \in found[j]
  BY <1>1, <1>4
<1>. QED BY <1>3, <1>5

\* Once a change has been heard no answer is from before it.
\* match_wnck_window, matcher_check_invalidated.
THEOREM MatchesCorrect == Matcher!Spec => MatchesInstalled
<1> DEFINE Fresh(w, a) ==
      (answer' = {[window |-> w, app |-> a]} /\ answer' # answer /\ ~noticed /\ ~idles)
         => /\ a \in installed \cup {NoApp}
            /\ Matcher!Named(w) # {} => a \in Matcher!Named(w)
<1>1. ASSUME TablesOrNews, [Matcher!Next]_Matcher!vars, NEW w \in AppWindows, NEW a \in Apps \cup {NoApp}
      PROVE  Fresh(w, a)
  <2>1. SUFFICES ASSUME answer' = {[window |-> w, app |-> a]}, answer' # answer,
                        ~noticed, ~idles
                 PROVE  /\ a \in installed \cup {NoApp}
                        /\ Matcher!Named(w) # {} => a \in Matcher!Named(w)
    OBVIOUS
  <2>2. Matcher!Match
    BY <1>1, <2>1 DEF Matcher!Next, Matcher!vars, Matcher!Change, Matcher!on_monitor_changed,
                      Matcher!invalidate_ids, Matcher!matcher_bus_signal_subscribe
  <2>3. tables' = installed
    BY <1>1, <2>1, <2>2 DEF Matcher!Match, Matcher!match_wnck_window,
                             Matcher!matcher_check_invalidated, TablesOrNews
  <2>4. PICK v \in AppWindows : \E b \in Matcher!Matched(tables', pid_cache, v) :
          answer' = {[window |-> v, app |-> b]}
    BY <2>2 DEF Matcher!Match, Matcher!match_wnck_window
  <2>5. PICK b \in Matcher!Matched(tables', pid_cache, v) :
          [window |-> v, app |-> b] = [window |-> w, app |-> a]
    BY <2>1, <2>4
  <2>6. v = w /\ b = a
    BY <2>5
  <2>7. a \in Matcher!Matched(installed, pid_cache, w)
    BY <2>3, <2>5, <2>6
  <2>8. a \in installed \cup {NoApp}
    BY <2>7, MatchedKnown
  <2>9. Matcher!Named(w) = LET found == Matcher!Alternatives(installed, pid_cache, w)
                   IN found[1] \cup found[2] \cup found[3] \cup found[4]
    BY DEF Matcher!Named, Matcher!Alternatives
  <2>. QED BY <2>7, <2>8, <2>9, ClassFirst
<1>2. TablesOrNews /\ [Matcher!Next]_Matcher!vars
        => [\A w \in AppWindows, a \in Apps \cup {NoApp} : Fresh(w, a)]_Matcher!vars
  BY <1>1
<1>3. TablesOrNews /\ [Matcher!Next]_Matcher!vars
        => [\A w \in AppWindows, a \in Apps \cup {NoApp} :
       (answer' = {[window |-> w, app |-> a]} /\ answer' # answer /\ ~noticed /\ ~idles)
          => /\ a \in installed \cup {NoApp}
             /\ Matcher!Named(w) # {} => a \in Matcher!Named(w)]_Matcher!vars
  BY <1>2
<1>. QED BY <1>3, TablesCorrect, PTL DEF Matcher!Spec, MatchesInstalled, Matcher!MatchesInstalled
=============================================================================
