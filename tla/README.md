# A TLA+ verification project for Enso OS

Enso OS is a desktop built from about fifteen programs, nearly all of them in
Vala on GTK+, with some C. This directory holds TLA+ models of the parts of it
that carry state and a protocol, TLC configurations that check them on small
instances, and proofs that TLAPS checks for every value of the constants.

Contents: [the system](#the-system), [the models](#the-models),
[the runs](#the-runs), [bounds](#bounds), [fairness](#fairness),
[proofs](#proofs), [what the code does not do](#what-the-code-does-not-do),
[not modelled](#not-modelled), [the plan](#the-plan).

To check a module: `tlc -config MCSession.cfg MCSession`; to check a proof:
`tlapm Session_proofs.tla`.

## The system

| Part | What it is | State | Driven by | Hard about it |
|---|---|---|---|---|
| `plank` | the dock | items, their files and order, hovering, hiding, drags, badges | GTK+ events, libwnck and BAMF signals, file monitors, D-Bus, GLib timeouts and idles | timeouts against events, late answers, files that other programs change |
| `galal` | window manager and compositor (fork of Gala) | workspaces, the windows on them, actors and their animations, overlays, notifications, backgrounds | mutter's signals (emitted inside the manager's own calls), key bindings, animation ends | re-entrance, animations cut short, an effect mutter waits for |
| `greeter` | the login screen | list of users, the box of the selected one, the login under way | the user, LightDM's answers, selection timeouts | a question shown for one login and answered in another |
| `useraccounts-settings` | accounts panel, with `lib/run-passwd.c` | a state machine that drives `passwd` through pipes | the user, the program's output and its exit | output arrives in pieces or after the exit, the state is guessed |
| `panther_launcher` | application menu with the Synapse search core | queries under way, results, desktop files | typing, asynchronous plugins, file monitors | results of a query that was replaced |
| `global-appmenu` | menu bar of the active window | the active window's menu and how it is reached; a tree of menu items mirrored from D-Bus; tables of installed applications | BAMF's and the registrar's signals, layout updates with revisions, property updates, clicks, timeouts | updates that overtake each other, timeouts that fire for a window that is no longer active, signals emitted in the middle of a change |
| `keyboard-settings` | layouts and shortcuts | the list of layouts and the active one | the user, GSettings | indices into a list that changes |
| `datetime-applet` | clock and calendar | months, event sources | timers, the Evolution data server | a month that changes while its events load |
| `desktop-settings` | wallpaper and dock settings | thumbnails under way | the user, asynchronous directory reading | a folder that changes while it is read |
| `mouse-touchpad-settings`, `welcome` | settings and a slide show | none of their own | | |
| `theme`, `wallpapers` | data | | | |

All the Vala programs are single-threaded apart from workers that only
compute: a handler runs to its end on the main loop. So the steps of every
model are handlers, and what interleaves are events, timeouts, idle callbacks,
answers to asynchronous requests and other processes (the user's file manager,
`passwd`, LightDM, programs on the bus).

How the parts of the dock interact: `DockWindow` follows the pointer and the
menu and tells the `HideManager`; `DragManager` disables hiding during drags,
asks `DockWindow` for the hovered item, and moves, pins or removes the items of
the `ApplicationDockItemProvider`; `Matcher` (BAMF) and `Unity` (badges) create
and remove its transient items; each pinned item is backed by a file that
`Preferences` saves and watches; `DockController` saves the order of the items a
while after a change. `PositionManager` tells `HideManager` when the dock's
region changes. In the window manager, `WorkspaceManager` reacts to mutter's
signals and is called by the operations of `WindowManager.vala`, whose
animations hold actors in sets (`mapping`, `minimizing`, ...) that a workspace
switch has to respect. In the greeter the login masks (`LoginBox` with its
`CredentialsArea`) and the gateway call each other, and LightDM calls the
gateway. In the menu bar, `BackendBAMF` decides from BAMF's and the registrar's
signals which window's menu is wanted; `MenuWidget` makes a helper for it 50 ms
later; the helper of a registered menu makes an importer (`importer.c`), which
watches the program on the bus and makes a `DBusMenuModel` (`model.c`) of
`DBusMenuItem`s (`item.c`), whose sections (`section.c`) and actions (`utils.c`) GTK+
shows; `matcher.c` finds the application a window belongs to. The screen shield
hangs between the session's presence, the bus, logind's
signals and the user's input.

What makes each part correct:

* **Hiding.** Unless hiding is disabled, the dock is where its mode wants it or
  a timeout is pending that takes it there; no pending timeout contradicts the
  mode; the flags describe the screen; the barrier exists only where it may;
  pressure that was collected is discarded.
* **Drags.** What is known of a drag is forgotten with it; only what is dropped off the dock is
  removed; data is used in the drag it belongs to; hiding is enabled again.
* **Items.** One item per launcher and application; each visible running
  application has one; a transient item has a reason; the saved order is that
  of the items, and comes back when the dock starts again.
* **Badges and preferences.** What a program's updates told is shown; objects on one
  file agree; a deleted file stays deleted.
* **Workspaces and effects.** The last workspace is empty and no other is for
  long; a step rearranges only its own window; mutter is paid for every effect
  and a window regains its shape.
* **Locking the screen.** A locked screen is covered and holds the input; the
  machine falls asleep locked.
* **The menu bar.** What is shown in the end is the menu of the active window;
  the copy of a program's menu agrees with the program's when all is received;
  an entry's action and submenu are its own; views are told exactly what changed.
* **Matching.** A window is given an application that is installed, by its class
  before anything weaker.
* **Logging in.** A prompt belongs to the login under way; nobody is logged in
  unasked; after success the login is not replaced.
* **Changing a password.** `passwd` never takes a line for something else, and
  what is reported is what happened.

## The models

Each module starts with a comment on what it stands for; its names are the
code's. A variable `..._timer` is TRUE while the GLib source id is non-zero.

| Module | Code | State and actions |
|---|---|---|
| `HideManager` | `plank/lib/HideManager.vala`, with what calls it in `DockWindow`, `DragManager`, `PositionManager` | Every timeout id and flag of the class, the preferences, and the windows libwnck reports, as the sets that overlap the dock or are maximized. One action per event handler and per timeout. `untracked` and `cut` are history: an overlap changed without a signal the manager listens to; the barrier was renewed under a push. |
| `DragManager` | `DragManager.vala`, the hovered item of `DockWindow.vala`, the drag part of `HideManager.vala` | Internal drags and drags of other applications (contexts). Motion, leave and drop as GTK+ sends them, data requests whose answers arrive later, idle callbacks of `drag_leave`. |
| `DockItems` | `ApplicationDockItemProvider`, `DefaultApplicationDockItemProvider`, `DockContainer`, `ItemFactory`, the item files of `Preferences`, `Matcher`, the order in `DockController` | The items, the launchers directory, the events of its monitor and of the items' own, applications' lives, the saved order and its timer. The user's file manager adds and removes files at any time. The dock's controller is destroyed (`Quit`) or its process just ends (`Crash`), files and applications come and go while it is away, and it starts again; `last_seen` is history: the order it was left in. |
| `Unity` | `Services/Unity.vala` and the requests in `ApplicationDockItemProvider.vala` | Messages on the bus, each a dictionary of properties that `Apply` merges key by key, entries with throttling and expiry, idle retries, transient items for badges. `meant`, `waits` and `lost` are history: what a sender's updates leave on, and what the throttle holds back or has lost. |
| `Preferences` | `Services/Preferences.vala` | Objects that share a backing file: properties, delayed changes, monitor events, other programs' edits and deletion. |
| `WorkspaceManager` | `galal/src/WorkspaceManager.vala`, `InternalUtils.insert_workspace_with_window`, the operations of `WindowManager.vala` | The workspaces, their windows, freeze count and marks as one record; an operation is a function of it, with mutter's signals nested where mutter emits them. |
| `WindowEffects` | the effects of `WindowManager.vala`, what `NotificationStack` keeps out of them | Per actor: the sets it is in, connected handlers, running animations, what of its look is off, what mutter is owed. |
| `ScreenShield` | `galal/src/Widgets/ScreenShield.vala`, `ScreenSaverManager.vala` | The fields of the class as one record, of which each handler is a function; the settings; logind (external): which session is in front, sleep announced and delayed by inhibitors, its signals under way. `promised` is history: sleep was announced while the inhibitor was held. |
| `Greeter` | `greeter/src`: `UserList(Actor)`, `LoginBox`, `CredentialsArea`, `LightDMGateway`, the fade-out of `PantheonGreeter` | The selection and its 300 ms timeouts, the credentials each box shows, the manual login's entry, the gateway's flags. LightDM's conversation is external and answers what PAM may answer. |
| `RunPasswd` | `useraccounts-settings/lib/run-passwd.c`, `PasswordEditor`, `PasswordPopover`, `Utils.get_passwd_handler` | The handler's state, queue and buffer, the pipes as sequences of lines and messages, the program (external), the popover. |
| `DBusMenuItem` | `global-appmenu/lib/dbusmenu-importer/item.c`, the actions of `utils.c` | Pure: an item as a record, made from an entry, updated, compared, copied over another; the actions of the group as a function of their names. |
| `DBusMenuModel` | `model.c`, `section.c`, what `utils.c` and `item.c` call back | The copy (`items`, `sections`, `menus`, the queue of signals), what a view was told, requests and answers on the bus, signals of the program; the program (external) with its true menu. `layout_parse` is one step, a function of the copy folded over the entries. |
| `AppMenu` | `appmenu-bamf.vala`, `menu-widget.vala`, `registrar.vala`, `helper-dbusmenu.vala`, `importer.c` | Windows, BAMF's and the registrar's signals on their way, what the backend serves, timeouts, the helper and what it waits for, what is shown. `withdrawn` is history: windows whose menu was taken back or could not be reached. |
| `AppMatcher` | `matcher.c` | The installed applications, the monitor's signals, the idle callback, the tables, processes that were launched, the last answer. |

`MCHideManager`, `MCDragManager`, `MCDockItems`, `MCPlank`, `MCGalal`, `MCSession`,
`MCAppMenu` and `MCMenuBar` give the constants values. They compose several instances of a
module, or of modules that do not share state: a variable (`scenario`, `focus`)
chosen in the initial state says which of them runs, so one run answers a
question for several sets of constants. The proofs are in `Dock_proofs` (`HideManager`,
`DragManager`), `DockItems_proofs`, `Plank_proofs` (`Unity`, `Preferences`), `Galal_proofs`
(`WorkspaceManager`, `WindowEffects`, `ScreenShield`), `Session_proofs` (`Greeter`,
`RunPasswd`), `DBusMenuModel_proofs` and `MenuBar_proofs` (`AppMenu`, `AppMatcher`), with
`DataLemmas` for what they share. A proof
module extends the module it is about, or the MC module that instantiates it; it does
not use the MC module's values.

Some correspondences worth knowing:

* *Signals and re-entrance.* mutter emits `workspace_removed`,
  `workspace_switched`, `window_added` and `window_removed` from inside the
  calls that cause them, so in `WorkspaceManager` they are operators applied to
  the state inside the operator of the call. The same holds for GTK+'s
  `drag-leave` before `drag-drop`, which is a step of its own because other
  callbacks may run between the two.
* *Timeouts* fire in any order relative to each other, except where one source
  list fixes it (the selection timeouts of the greeter all last 300 ms and fire
  in the order of the selections; so do the idle retries of `Unity`).
* *Files.* A monitor delivers events in order and its handler reads the file
  as it is by then, not as it was at the event.
* *D-Bus.* Signals and answers of one program arrive in the order they were sent;
  a synchronous call is answered from the program's present state and overtakes
  what is on its way. The registrar and BAMF are two senders, so nothing orders
  their signals relative to each other.
* *History variables* (`untracked`, `cut`, `settled`, `foreign`, `last_seen`, `meant`, `waits`, `lost`, `untidy`, `promised`, `withdrawn`, `crossed`, `kept`,
  the `told` of `RunPasswd`) record what a
  property needs and no action reads them.
* *Mutants.* Definitions whose comment begins with "Mutant:" are not part of
  the specification. Each is a form of the definition next to it with a
  plausible bug, kept to show that a property notices it.

## The runs

Passing runs:

| Run | Configuration | What it shows |
|---|---|---|
| hide | `HideManager.cfg` | `Settled` (`Settling`, `NoStaleTimeout`): whatever order menus, drags, hovering, mode and delay changes, windows and timeouts come in, the dock is or is about to be where its mode wants it, and no pending timeout contradicts the mode. `FlagsCurrent`: after the re-evaluations the intersection flags are those of the screen. `PressureDiscarded`: the barrier stands only where it may, and pressure that is left when nobody pushes has its timeout pending, unless the barrier was renewed under the push. `EventuallySettles`: when the mode's wish stays, it is fulfilled. |
| drag_drags | `DragManager_drags.cfg` | `DragForgotten`: after the last idle callback no drag is active or known, and no item, data or request is kept of one, whatever answers are still to come. (A connection of `hovered_item_changed` and a hover timeout may be left.) `EventuallyEnabled`: hiding is enabled again. `ThrownOutside`: an item is removed only when dropped off the dock. `OwnData`: a drag that begins when all answers to the ones before have come accepts only its own data. |
| items_items | `DockItems_items.cfg` | `UniqueItems`, `LiveRunningShown`, `Backed`: items, applications and files fit together through pinning, unpinning, dropping, badges, starting, stopping, files that come and go. `SavedCurrent`: when its timer is not set, the saved order is the items'. `RestartKeepsOrder`: a dock that starts again shows what is left of its pinned items in the order of the dock before, as it was when the controller was destroyed or the timer last ran. |
| plank_services | `MCPlank.cfg` | `UnityUpdatesShown`, `UnityEventuallyShown`: partial updates add up to what is shown, however they are throttled, but for the properties of an update that was replaced while it was held back. `PrefsAgree`, `PrefsNoResurrection`: objects on one file agree, learn of its deletion and do not undo it. |
| galal | `MCGalal.cfg` | `WorkspacesSound`, `OthersStayTogether`, `FullscreenAlone` of workspaces; `EffectsTracked`, `ShapeRestored`, `EffectsComplete` of effects. `ShieldUp`, `LockedBeforeSleep`: a locked or active screen is covered, and a machine whose sleep was delayed falls asleep locked. |
| session | `MCSession.cfg` | `PromptBelongs`, `SelectedIsServed`, `NoSilentLogin`, `NothingAfterSuccess` of logging in; `ChangesAsTold` of changing a password. |
| menu | `MCAppMenu.cfg` | `MirrorsWhenQuiet`: when everything was received, the copy has the program's entries in their order with their properties, whatever crossed on the bus, but for an entry that was left over (`kept`). `SectionsSound`: no section is empty but a single one. `ActionsServe`: an entry's action is there, of its kind, and its own; a check that is set is shown set, and one that is not and was told so is not. `SubmenusOwned`: a submenu model is linked to one entry, and what it has is that entry's layout or known to be out of date, unless a late reply filled it (`crossed`). `ViewTold`: a view that knows only the signals shows what the model has. `SubmenusLoad`: a submenu of an entry that stays is loaded in the end. |
| menubar | `MCMenuBar.cfg` | `MenuOfActive`, `MenuSettles`: when (and once) all that was due has run, the menu that is shown is the active window's, whatever the order of activations, registrations, restarts of the registrar, timeouts, names and proxies. `MatchesInstalled`: a match never gives an application from before a change that was heard. |

Runs that show a disagreement between the code and what it says of itself; TLC's
trace is the shortest way there:

| Run | Property | Disagreement |
|---|---|---|
| hide_disabled | `DisabledMeansNoHiding` | `update_hidden` returns early while hiding is disabled (`HideManager.vala:280`) but does not remove a pending hide timeout, so the dock hides in the middle of an external drag, which is what disabling is for (line 235). |
| drag_active | `ActiveWhileOver` | The idle callback of `drag_leave` deactivates the drag also when it has come back (`DragManager.vala:384`), against the comment at 380. |
| items_duplicates | `UniqueItems` | `load_elements` looks for duplicates in a list that is still empty (`ItemFactory.vala:208`): two files for one launcher are both shown. |
| passwd_stopped | `NotStopped` | "Don't stop if we've already started chaging password" (`run-passwd.c:682`): the guard looks at a handler that is always new, and the one that is changing the password is destroyed with its `passwd`. |

## Bounds

Every bound is a constant or is named in the module that uses it.

* **hide**: two windows of two applications (the smallest screen in which one
  window hides what another does), delays 0 and 1 (a delay of 0 acts at once, any
  other through a timeout; the value does not matter as timeouts fire in any
  order), a threshold of two barrier hits. Scenarios split what is
  independent: menus and drags with delays; the dodging modes; the barrier.
* **drags**: two items, two external contexts of which one drags a launcher,
  `MaxReplies` 2 answers and `MaxIdles` 2 idle callbacks under way, `MaxHandlers` 2
  connections of one signal. A third drag finds the manager as the second did.
* **items**: two applications (with and without a desktop file) and two files.
  Duplicates, replacements and the order need two of each and no more. `Hasty` is
  FALSE: no file goes before the provider has looked at it. What the code does then is
  told [below](#what-the-code-does-not-do) and not caught by a property.
* **plank_services**: two programs, two items, two messages or events under way,
  a throttle of one fast update; one program turns two properties on one at a time
  and off together, which is what it takes to lose one of them. Preferences: two objects and one key (what
  interleaves is the whole file; save_prefs writes all keys together).
* **galal**: three windows in a column and two in a row; the identities of
  workspaces suffice for every window on its own plus an empty one; a step that
  would need more than there are is not taken (`over`), which happens only while
  several are empty at once. One window per kind for effects: the
  sets, handlers and debts are per actor, and a switch treats actors alike.
  Two signals of logind on the way (`MaxSignals`): one announcement and the resume
  before it.
* **session**: a list of two (the second option has no box) and one of four
  with a guest and a manual login; at most three selections within 300 ms; two
  names; two passwords and an account that may have none.
* **menu**: five programs, each with the entries one question needs (`plain` and `bar`:
  sections, in a menu and in a menu bar; `checks`: properties and clicks, in a menu that gets shorter;
  `kinds`: an entry that is left over and comes back as a radio; `subs`: submenus that move and go), which change three times (`subs` twice;
  `MaxChanges`). Three changes are what it takes for an entry to come, move and go
  while the layout of the first is being fetched. The position read from an iterator
  that was freed is 0 or 2 (`FreedPositions`: before or behind what is there), and
  there are four submenu models (`Menus`: one more than entries that have one).
* **menubar**: three windows (registered menu, dialog of it, GTK+), four events
  outside the panel (`MaxEvents`): a registration, a restart of the registrar and a
  switch there and back overlap. The proof has no such bound. The matcher: four
  applications that compete for three windows by id, class, executable and process,
  three changes (remove, install, launch).

## Fairness

Liveness is stated only under what the main loop guarantees: a GLib timeout or
idle source that stays attached is dispatched, and an animation that is not
stopped ends.

* `HideManager`: weak fairness of each timeout. Nothing is assumed of the
  pointer, windows or preferences.
* `DragManager`: weak fairness of the idle callback and of the second half of a
  drop event; none of applications that should answer.
* `Unity`: weak fairness of the bus's delivery, the retry idle and the throttle
  timeout; none of programs.
* `WindowEffects`: weak fairness of the end of a running animation and of
  the end of a switch; none of the user.
* `ScreenShield`: none; its properties are of safety, and logind is trusted to wait
  for the inhibitor no longer than it takes to handle its announcement.
* `DBusMenuModel`: weak fairness of the handlers of signals and answers, the idle
  callbacks and the preload timer (`Delivered`); the program answers GetLayout, and
  changes its menu or not as it likes.
* `AppMenu`: weak fairness of each queue's handler, of the timeouts, and of the
  importer's callbacks (the bus answers one way or the other); none of what
  happens outside the panel.
* `Greeter`, `RunPasswd`: none. PAM and `passwd` may take for ever, so no
  liveness is claimed.

## Proofs

TLAPS proves the following for every value of the constants that satisfies the
assumptions of the module; a run checks the same property on a small instance.
Every invariant below that is stronger than its property was first checked by
TLC on that run's instance.

`Dock_proofs`, hiding (`HideAssumption`: any windows, modes, delays, threshold; the instance
`Hide` of `MCHideManager`):

* `HidingTypeCorrect`: the pressure stays below the threshold because a hit that
  reaches it resets it; that part is a lemma of its own (`PressureCorrect`).
* `SettledCorrect`: `[](Settling /\ NoStaleTimeout)`. The conjunction is inductive
  together with the types and neither half is alone: a step that starts a timeout has
  to know that the opposite one is not stale. `UpdateHiddenSettles` says
  that `update_hidden` establishes both from any state; each action either calls
  it or changes nothing the two conjuncts look at (`SameSettled`).
* `FlagsCorrect`: `FlagsCurrent`, which is inductive: a change of the screen schedules
  the re-evaluation that raises the flags.
* `PressureDiscardedCorrect`: from `BarrierWanted` (the barrier stands only where
  pressure is to reveal the dock, or the change of preferences is pending) and
  `PressureDrains` (what a push has left is on its way to be forgotten, or the push was
  cut short).

`Dock_proofs`, drags (`DragAssumption`: any items, contexts and bounds):

* `TypeCorrect`: no item is ever doubled, however many handlers one signal has.
* `ForgottenCorrect`: `DragForgotten` says what is left when the last idle callback has run, so it
  is far from inductive. `CleansUp` says for what is left of a drag which step is
  to come that resets it: the drag is over the dock, or an idle callback waits.
* `OwnDataCorrect`: from `DataBelongs`, about a drag that begins when the ones
  before are settled: all answers under way are its own. It needs `CleansUp`.
* `ThrownCorrect`: an action property; moving is a permutation (`DataLemmas`).

`DockItems_proofs` (`DockAssumption`: any applications, launchers and finitely many files;
`OwnItems`: `~Hasty`, that is, no file goes before the provider has looked at it, and a dock that is
restarted has no two files for one launcher. Without the first an item is made of a file
that is gone, without the second `load_elements` shows both files, see
[below](#what-the-code-does-not-do) and the run items_duplicates):

* `ItemsUnique`, `ItemsBacked`, `OrderSaved`, `TypeCorrect`: from `Inv`.
  `UniqueItems` is not inductive: a file that is queued, or whose item follows its
  content, may bring a launcher that has an item already. So the invariant says that an item has
  the launcher its file is named after and that of its application (`GoodItems`), that a
  file holds that launcher or is gone (`Disks`), that what is announced or queued is there
  (`FilesInv`, `QueueInv`), and that nothing is queued twice. With these a reload changes nothing and
  an item that replaces another keeps its launcher.
* `RunningAreShown`: `LiveRunningShown`, with `LiveInv` (a hidden view is pending, which a
  restart would forget).
* `OrderRestored`: `RestartKeepsOrder`, an action property about a start, any time after the end
  of the dock before. What connects the two: while no dock runs, the saved
  order is the one that was left (`Saved`). Its files are distinct, so those that are still
  there come back one for one and first.

Items are made and lost in folds over sequences: the queue of files, the running
applications, the filters. `TakesOne` and `FoldedExists` say that the recursive functions
of the model are what their rounds make of them, and each fold then has one lemma
about one round (`ProcessFile`, `AddTransient`) and one that sums up the rounds (`Settled`,
`Grown`).

`Plank_proofs`:

* `PrefsCorrect`, `DeletedCorrect` (any objects, keys, edits by others): `PrefsInv`.
  An object that disagrees with the file has noted a change of its own or has news
  of the file to come; a change that waits to be saved is dropped with the file.
  That is why a late event finds nothing to write.
* `ShownCorrect` (`UnityAssumption`, `OwnItems`: every program badges one pinned item,
  which no other does; that is the instance of the run): `UnityInv`. Pinned items stay
  in front and only their program's badge is on them, however many transient items
  come and go behind them (`ItemsType`, `Slot`); of each property,
  the last update that mentions it is on the bus and leaves it as it is meant, or it waits
  for the throttle, or is lost in it, or is shown as it is meant (`Followed`).
  Without `OwnItems` the property is false: see `UpdatesShown` and `GoneIsReset`
  [below](#what-the-code-does-not-do).

`Galal_proofs`:

* `WorkspacesCorrect` (`WorkspaceAssumption`: any windows, counted or not, any number of
  workspaces, either layout and settings): `WorkspacesInv`. The operations are functions of
  the compositor's record, nested as mutter nests its signals, so the proof is about records:
  between mutter's calls workspaces are distinct and under their windows and marked ones
  are gone (`Whole`), and what a call makes of a record is one of two things, `Thinner`
  (empty workspaces go, never the last) or `Kept` (an empty workspace stays at the
  end and, unless removals are frozen, no other empty one stays). Both are transitive, so an
  operation has what its calls have. `cleanup` and the loop of
  `insert_workspace_with_window` are recursive functions; `Folding` says they exist and
  `RangeInduction` that their turns add up. `untidy` excuses workspaces left empty while
  dynamic workspaces were off. A step that would need more workspaces than there are
  identities is not taken (`over`), so the bound decides which steps there are, not what
  they do.
* `OthersUndisturbed`, `FullscreenCorrect` (the same assumption): action properties, from
  `WorkspacesInv`. `Undisturbed` compares two records: the windows other than one are
  together in the second exactly where they were in the first; it is transitive, so it is shown
  of each call. Removing an empty workspace, or moving the one window, is easy. The
  insertion shifts every window behind the new workspace by its index, and an index
  means a workspace only as long as the list does not change in front of it. While
  removals are frozen it only grows at its end (`Extends`), so the turns of the loop
  amount to one function of the index a window had (`Spot`, `Further`), which is
  one-to-one: windows meet behind the loop where they met before it.
  `FullscreenAlone` follows the same function for the window itself; `cleanup` before its
  move finds nothing to remove (`CleanupIdle`), because only the last workspace is empty, so
  the index that was computed before is not stale.
* `ShieldCorrect`, `LockedCorrect` (any bound of signals): `ShieldInv`. A handler is a
  composition of few functions of the shield's record (`sync_inhibitor`, `Covered`,
  `activate`, `lock`, `deactivate`); a lemma for each says that it makes a
  consistent record of a consistent one and leaves it `Ready` where it was: locked, or
  holding the inhibitor of a session in front. `LockedBeforeSleep` is a promise that is
  given at the announcement and due at the sleep; `Ready` is what has to hold
  between the two.
* `EffectsCorrect`, `ShapeCorrect` (any windows of any kinds): `EffectsInv`, per actor.
  `EffectsTracked` is not inductive: a kill reports what is owed through the
  handlers that are connected, so `Agrees` orders what is owed, the sets and the handlers;
  `Shaped` says of a running animation where it ends. A switch of the workspace
  holds what it stopped (`Held`).

`Session_proofs`, logging in (`GreeterAssumption`: any list sizes, names, positions of the guest and
the manual login):

* `ListCorrect`, `TypeCorrect`: types.
* `PromptCorrect`, `SilentCorrect`: `PromptBelongs` and
  `NoSilentLogin`. They need each other and the invariant `InStep`, which says how
  the gateway's flags follow the conversation (a prompt it remembers was this
  conversation's, a confirmation it awaits belongs to an accepted one): `LoginInv ==
  LoginType /\ InStep /\ PromptBelongs /\ NoSilentLogin`. Lemmas treat the steps of
  the user, LightDM's answers and the rest; `LoginKeepsInv` is about
  `login_with_mask`, which three actions call, `FewerKeepsInv` about the removal of
  credentials.
* `SuccessFinal`: `NothingAfterSuccess`, an action property, from
  the same invariant.
* `ServedCorrect`: `SelectedIsServed`, with `LastIsSelected` (the last timeout to come
  is that of the selected option): with one timeout left it is the one that serves.

`Session_proofs`, changing a password (any passwords, buffers and timeouts):

* `PasswordTypeCorrect`, `ChangesCorrect`: `ChangesAsTold`, an action property, needs to know
  which line of the queue reaches which prompt, although the handler misreads
  prompts. `PasswordInv` has a conjunct per phase: while it authenticates nothing but the
  current password is on its way (`Authenticating`, `Authed`), while it changes the
  password the lines left in the queue and the pipe are those that `passwd` has still to
  ask for, in that order (`NoneAsked`, `Changing`), and a verdict of success is of a change
  that was made (`Reported`).

`MenuBar_proofs` (`WindowsAssumption`; `MatcherAssumption`):

* `MenuCorrect`: `Spec => []MenuOfActive`, for
  any windows, any number of events and any number of overlapping timeouts and
  proxies. "When nothing is due" is far from inductive: the invariant `IInv` says for
  everything that may be out of date what is on its way that will correct it. Three
  groups of conjuncts, each resting on the one before: the queues (`LastIsActive`:
  BAMF's last signal is of the window that is active now; `RegistrarKnown`: its last
  news of itself is true; `Registrations`: an announced registration stands, or its
  end is known or announced), the backend (`BackendServes`, `BackendCurrent`: it serves
  the active window's menu, or there is news of it), and the helper (`HelperCurrent`,
  `UnwatchedJustified`, `ImporterShown`, `ModelServed`, ...). `BamfStep` and
  `RegistrarStep` sum up what any step does to the queues, `NewsStep` what it does to
  the news. With the queues and the timeouts empty the three groups give the
  property (`IInvMenu`). `TypeCorrect` is its first conjunct.
* `TablesCorrect`: the matcher's tables are those of what is installed, or a
  change was noticed or is announced. `MatchesCorrect`:
  `Matcher!Spec => MatchesInstalled`, from it: the lookup by class comes before the lookup
  by process, and every lookup looks in the tables or in what they point to.

`DBusMenuModel_proofs` (`ProgramsAssumption`: any programs, with layouts in which an id occurs
once, that change menu, layout and properties as often as they are allowed to; any positions that
an iterator that was freed may hold):

* `SectionsAlwaysSound`: `SectionsSound`, from `CopyInv`. In the middle of a layout it is not
  true: `layout_parse` makes a section when it meets a separator and fills it with the next
  entry. So the walk over the children has an invariant of its own, `InPlace`: no section is
  empty but the one it stands in, and that only if it is the last one, with nothing taken yet.
  A child is a separator that is passed over, one that ends the section, an entry behind the old
  ones or one in the place of an old one (`Passed`, `ChildStep`); what the end removes leaves
  no section empty but a single one (`Ended`). Updates leave the places alone (`Kin`).
* `SubmenusAlwaysOwned`: `SubmenusOwned`, for an infinite supply of `Menus` (g_object_new never
  gives a model that is in use; with finitely many `Fresh` could have none to give). The
  invariant `SubmenusInv` is carried through the same walk (`ModelsOwned`): an entry that is
  placed on another takes its model over, so in between a model is linked twice, by the new
  entry and by the old one, which is out of the sections by then. The entries are finitely many
  (`SpotsFinite`), so there is a model that none of them has.

`DataLemmas` holds what several of these need about numbers and sequences: smallest
elements, iteration, removal, permutations, `Tail` and `Append`. Where a fact needs induction it is
stated about a set of numbers ("a set that holds 0 and with each number the next
holds all": `RangeInduction`), because a rule over predicates cannot be
instantiated by the provers.

Only model-checked: all liveness (the prover has no rules for fairness of this
kind); how `Unity` treats items
that are not pinned; and of the menu's copy all but `SectionsSound` and
`SubmenusOwned`. The programs of the run `menu` were
made longer (more entries, layouts and changes: 567,694 and 855,972 states) to see that
`MirrorsWhenQuiet` and `ActionsServe` do not depend on them. Both excuse entries that were left
over, in the set `kept`: a program that sends [1, 2], then [2], changes the label of 2,
takes it back and sends [3, 2] may be shown the old label, and one that makes a radio of
what was a normal entry finds the one that was left with an action of the wrong kind.

## What the code does not do

What a reader might expect of the code and should not. Where a name is given, the
property is defined in the module but in no run, because the code violates it in
a way no comment or document settles:

* Pressure (`HideManager`): `update_barrier` destroys the barrier and makes a new one
  (`HideManager.vala:723`). If the pointer was pushing, the LEAVE of the old one is not
  recognized (646-649) and its pressure stays, with no timeout, for a push at any later
  time. And a push that begins within the second before the timeout of the one before is
  helped by it.
* `DodgesAnyWindow` (`HideManager`): in the window-dodge mode only windows with
  connected signals are looked at; an inactive window that moves over the dock is
  not noticed.
* `ScrollsDuringDrag`, `LockedInPlace` (`DragManager`): data that arrives between
  a leave and its idle callback starts a hover timer for a drag that is gone; a
  leave that finds the drag inactive (`ActiveWhileOver`) leaves `hovered_item_changed`
  connected;
  locking the items does not stop a drag under way. In the same module: an item
  that disappears during its own drag is still handled at the end of it
  (`DragManager.vala:328`).
* `RunningMatched`, `NoEmptyItem` (`DockItems`): with PinnedOnly set a pinned item
  is not connected to its running application; a CREATED event whose file is gone
  (`Hasty`) writes an item without a launcher
  (`ApplicationDockItemProvider.vala:234`). `pin_item` returns for an application
  without a desktop file before it resumes the monitor
  (`DefaultApplicationDockItemProvider.vala:285`), so the handling of new files stays
  delayed until the next pin; a view that reappears is opened again
  (`pending_views`, `Matcher.vala:89`).
* The order of the items: `quit` of the application ends the process without destroying the
  `DockController`, to which the factory's main and the managers hold references, so it is
  like `Crash`: an order that changed within the last three seconds
  (`ITEM_SERIALIZATION_DELAY`) is lost. `~DockController` saves it only when
  something else destroys the controller (`Quit`).
* The throttle (`Unity`): it keeps one update of those it holds back (`Unity.vala:244`), but an
  update is a dictionary of what changed: a program that sends its count and then its
  progress too fast is never shown the count (`lost`).
* `UpdatesShown` for unpinned items and `GoneIsReset` (`Unity`): a retry may
  overwrite a newer update; only the first item of a program that exits is reset.
* `Preferences`: another program's edit between the writing of the file and the
  new monitor (`Preferences.vala:543`) is not seen; the model closes that window.
  `load_prefs` never resets properties to their defaults although its
  documentation says so.
* Workspaces: switching dynamic workspaces off and on leaves empty ones
  (`untidy`); in the one-row layout of `WorkspaceManager.vala:48` the neighbours
  up and down lead nowhere; `which_change` is one variable for all windows.
* Effects: `end_animation` "resets" an actor but not its translation
  (`WindowManager.vala:1846`, 1856): a window minimized while being unmaximized stays
  displaced (`ShapeRestored` is about size and opacity). For a window on all
  workspaces that is being mapped when the workspace is switched (line 2004), the end
  of its fading out runs the handler of the animation that the switch cut short.
* `InhibitorHeld` (`ScreenShield`): the constructor calls `sync_inhibitor` before it
  sets `connected_to_buses` (line 158), so nothing delays the first sleep unless
  the shield was up before; a change of the settings is not noticed either.
  `LockedIsActive`: input during the fading in of a lock leaves a locked screen
  that is not `active`. `GreeterInReach`: `in_greeter` stays set when the call of the
  greeter fails or the session is deactivated by the bus, and input then does
  nothing while the screen is locked.
* `NameFixed`, `EntryUsable` (`Greeter`): the manual login's entry is enabled by
  a prompt and disabled by a reply, the opposite of the comment at
  `CredentialsArea.vala:191`; after a reply and the selection of another option no
  name can be typed any more. A PAM question that is not secret is not displayed.
  With at most two options only the first has a box.
* `Answered` (`RunPasswd`): when `passwd` gives up in the state NEW, or its exit
  is noticed before its last message is read, nobody is told; and for a login
  name that contains "new", or an account without a password, the editor never
  learns that it is authenticated.
* The copy of a menu (`DBusMenuModel`):
  - An entry that is left twice stays: `layout_parse` has moved its iterator on before
    it removes what is no longer there (`model.c:359`), so [1, 2] followed by [2]
    leaves a second 2 (`LastCleanedUp`). `MirrorsWhenQuiet` allows the last section
    this entry more. What it does to later layouts is told [above](#proofs).
  - A new item is enabled and toggled until its first update (`model.c:169`-173), so an update
    of "enabled" alone shows a check as set that is not; a
    property update for a separator is ignored; removing "visible" leaves an entry
    with an action that does not exist (`bare`, for want of a namespace); a check whose program ignores the click stays
    switched.
  - A submenu that takes the place of an entry that is none gets no model; one that
    is disabled when its preload timer fires is never preloaded, though it be enabled
    again, and a request that is answered while the entry is away is not repeated.
  - A layout for the old id that arrives after a model was taken over fills it with
    the wrong entries (`crossed`); `current_revision` is kept from program to program.
  - Removing several sections tells views of one too few; `removed` is read from an
    iterator that was freed (the model chooses from `FreedPositions`).
* Which menu is shown (`AppMenu`): climbing to the window a dialog is for,
  `lookup_menu` goes on asking about the dialog (`appmenu-bamf.vala:177`-209), which
  shows the stub instead of its parent's menu; nothing reacts when the active
  window's menu is unregistered (a panel that is started when windows are there already is
  not modelled); when the proxy cannot be made the menu bar of the
  window before stays (`withdrawn` excuses both; what `MenuOfActive` compares with is the code's own
  `lookup_menu`).
* `AppMatcher`: processes are never forgotten, so an id that is used again is matched
  to the program that had it before, if nothing stronger matches; the cache by
  executable keeps an application's id as it is spelt while the table is by lower
  case.

## Not modelled

`PROJECT.json` lists every component with its reason. In short: drawing, themes,
layout in pixels and easing curves (nothing in them decides what the programs
do); wrappers of settings and services without a protocol of their own
(docklets, the mouse panel, welcome, most of the accounts panel); and the parts
the plan below has left.

Within the modelled parts: window geometry is the set of windows that overlap;
items are filtered by workspace in a mode of the dock that is left out; several
providers and docks are one; windows on secondary monitors, and Wayland sessions
in which two windows resize at once, are left out; the greeter's test mode
(`DummyGateway`) and the choice of a session are left out; the change of another
user's password by an administrator does not use `passwd`.

## The plan

Done, in the order of importance: hiding, drags, items, badges and preferences of
the dock; workspaces, effects and the screen lock of the window manager; logging in; changing a
password; the menu bar, its importer and the matcher. Next:

1. **More of the window manager**: `NotificationStack`, `BackgroundManager` (a
   source that changes during a cross-fade), `DragDropAction` (grab, hover,
   cancellation), the window switchers and the multitasking view (toggled during
   its own animation). Abstract specification: a modal component is open, closed
   or between, and pushes and pops the modal mode in pairs; each overlay
   implements it.
2. **Search** (`DataSink`, `Query`, `SynapseSearch`, `SearchView`, the desktop file
   service's reloading): what is shown belongs to the last query. Abstract
   specification: a search answers the newest query or is cancelled.
3. **More of the dock**: `DockWindow` (hovering, menus), `DockItem` (removal timer and
   launcher monitor), `WindowControl` as functions on small stacks, `PositionManager`
   as functions on small integers, the D-Bus client.
4. **Settings and applets**: keyboard layouts (list and active index), shortcuts and
   their conflicts, the calendar model, the wallpaper view.

Composition: the dock's `HideManager` with `DragManager` (who share Hovered and
Disabled) through an abstract inhibitor that both refine; `AppMenu` with
`DBusMenuModel`, whose life is that of the importer.

Runs stay few: new modules join the existing ones as further scenarios (`MCPlank`,
`MCGalal`, `MCSession`, `MCMenuBar`) and replace shallower properties.

Theorems worth proving next: `MirrorsWhenQuiet` for programs whose separators do not change.
