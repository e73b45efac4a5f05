------------------------------ MODULE DockItems ------------------------------
(***************************************************************************)
(* The items of the dock: ApplicationDockItemProvider, its default subclass *)
(* and DockContainer (plank/lib/Items), the loading and creation of items  *)
(* (Factories/ItemFactory.vala), the backing files of their preferences    *)
(* (Services/Preferences.vala), the tracking of applications               *)
(* (Services/Matcher.vala) and the delayed saving of the item order        *)
(* (DockController.vala).                                                  *)
(*                                                                         *)
(* All handlers run on the main loop.  Asynchronous are the file monitor's *)
(* events, BAMF's signals and the serialization timer; the user's file     *)
(* manager works on the launchers directory at any time.  A user's file    *)
(* appears complete (it is moved in).  Launchers other than Empty exist.   *)
(***************************************************************************)
EXTENDS Integers, Sequences, FiniteSets, SequencesExt

CONSTANTS
  Apps,           \* BAMF applications
  Launchers,      \* launcher uris of .desktop files
  Files,          \* names of .dockitem files (a bound on their number)
  Content,        \* the launcher that gives a file its name
  LauncherOf,     \* the desktop file of an application, or Empty
  Empty,          \* the launcher ""
  Absent,         \* "no such file on disk"
  NoFile, NoApp,
  Badges,            \* launchers whose application shows badges
  StartPinnedOnly,   \* initial values of the PinnedOnly preference
  Hasty,             \* a file may go before the provider has looked at it
  Restarts           \* whether the dock is restarted

ASSUME DockAssumption ==
  /\ LauncherOf \in [Apps -> Launchers \cup {Empty}]
  /\ \A a, b \in Apps : LauncherOf[a] = LauncherOf[b] => a = b \/ LauncherOf[a] = Empty
  /\ Content \in [Files -> Launchers]
  /\ Badges \subseteq Launchers \cup {Empty} /\ Hasty \in BOOLEAN
  /\ Empty \notin Launchers /\ Absent \notin Launchers \cup {Empty}
  /\ NoFile \notin Files /\ NoApp \notin Apps
  /\ StartPinnedOnly \subseteq BOOLEAN /\ Restarts \in BOOLEAN
  /\ IsFiniteSet(Apps) /\ IsFiniteSet(Files)

VARIABLES
  items,         \* internal_elements of the default provider
  disk,          \* what each .dockitem file holds
  created,       \* CREATED events of the directory monitor to be handled
  deleted,       \* DELETED events of the items' own monitors
  changed,       \* their CHANGES_DONE_HINT events
  queued,        \* queued_files
  delayed,       \* delay_items_monitor_handle
  PinnedOnly,
  state,         \* of each application: off, hidden, running or closing
  pending,       \* Matcher.pending_views
  timer,         \* serialize_item_positions_timer_id
  DockItemsPref, \* the saved order: DockPreferences.DockItems
  runs,          \* the dock's process is there
  last_seen      \* history: the order of the pinned items in which the dock
                 \* that runs no more has left them

provider == <<items, queued, delayed>>
storage  == <<disk, created, deleted, changed>>
apps     == <<state, pending>>
order    == <<timer, DockItemsPref>>
life     == <<runs, last_seen>>
vars == <<provider, storage, apps, order, PinnedOnly, life>>

-----------------------------------------------------------------------------
(* Items                                                                   *)

\* A .dockitem without a .desktop launcher becomes a FileDockItem.
Made(f, l) == [kind |-> IF l = Empty THEN "file" ELSE "pinned", file |-> f, launcher |-> l,
                 app |-> NoApp, unity |-> FALSE]
Transient(a) == [kind |-> "transient", file |-> NoFile,
                 launcher |-> LauncherOf[a], app |-> a, unity |-> FALSE]

IsApplicationItem(i) == i.kind \in {"pinned", "transient"}

\* item_for_application and item_for_uri: the first match, or 0
item_for_application(s, a) ==
  SelectInSeq(s, LAMBDA i : /\ IsApplicationItem(i)
                            /\ \/ i.app = a
                               \/ i.launcher # Empty /\ i.launcher = LauncherOf[a])

exists_for_uri(s, l) == \E k \in DOMAIN s : s[k].launcher = l

WithFile(f) == {k \in DOMAIN items : items[k].file = f}

\* found.App = app, or what the caller does when nothing is found
Match(s, a, otherwise) ==
  LET k == item_for_application(s, a)
  IN IF k = 0 THEN otherwise ELSE [s EXCEPT ![k].app = a]

\* One round of add_transient_items
AddTransient(s, a, visible) ==
  Match(s, a, IF a \in visible THEN Append(s, Transient(a)) ELSE s)

\* add_transient_items
AddTransients(s, up, visible) ==
  LET running == SetToSeq(up)
      added[k \in 0..Len(running)] ==
        IF k = 0 THEN s ELSE AddTransient(added[k - 1], running[k], visible)
  IN added[Len(running)]

Active  == {a \in DOMAIN state : state[a] \in {"hidden", "running"}}   \* active_launchers
Visible == {a \in DOMAIN state : state[a] = "running"}

\* DockContainer.move_to
move_to(s, from, to) == InsertAt(RemoveAt(s, from), to, s[from])

\* The elements of s at the positions in K, in their order.
Those(s, K) ==
  LET kept[k \in 0..Len(s)] ==
        IF k = 0 THEN <<>>
        ELSE IF k \in K THEN Append(kept[k - 1], s[k]) ELSE kept[k - 1]
  IN kept[Len(s)]

\* The positions of the items that have a file
Pinned(s) == {k \in DOMAIN s : s[k].kind # "transient"}

\* get_dockitem_filenames
FilesOf(s) == Those([k \in DOMAIN s |-> s[k].file], Pinned(s))

\* Mutant: items replaced in place do not schedule a serialization.
UpdateItems_CountOnly(s, signal) ==
  /\ items' = s
  /\ timer' = (timer \/ Len(s) # Len(items))

\* update_visible_elements and the controller's handlers: the positions are
\* serialized later if elements were added, removed or moved.
UpdateItems(s, signal) ==
  /\ items' = s
  /\ timer' = (timer \/ signal)

-----------------------------------------------------------------------------
(* The launchers directory                                                 *)

\* Mutant: no look for an item that already has the launcher.
ProcessFile_KeepsDuplicates(st, f) ==
  LET l == IF st.disk[f] = Absent THEN Empty ELSE st.disk[f] IN
     IF \E k \in DOMAIN st.items : st.items[k].file = f THEN st
     ELSE [st EXCEPT !.items = Append(@, Made(f, l)), !.disk[f] = l]

\* One round of process_queued_files.  Making the element writes the file if
\* it is gone (Preferences.init_from_file), and a duplicate's is deleted.
ProcessFile(st, f) ==
  LET gone == st.disk[f] = Absent
      l    == IF gone THEN Empty ELSE st.disk[f]
      made == IF gone THEN st.created \cup {f} ELSE st.created
  IN IF \E k \in DOMAIN st.items : st.items[k].file = f THEN st
     ELSE IF exists_for_uri(st.items, l)
          THEN [st EXCEPT !.disk[f] = Absent, !.created = made]
          ELSE [st EXCEPT !.items = Append(@, Made(f, l)), !.disk[f] = l,
                          !.created = made]

\* process_queued_files over the given items, files and CREATED events
Process(s, d, c, files) ==
  LET st[k \in 0..Len(files)] ==
        IF k = 0 THEN [items |-> s, disk |-> d, created |-> c]
        ELSE ProcessFile(st[k - 1], files[k])
  IN st[Len(files)]

\* resume_items_monitor
ResumeItemsMonitor(s, d, c, signal) ==
  LET st == Process(s, d, c, queued)
  IN /\ UpdateItems(st.items, signal \/ Len(st.items) # Len(s))
     /\ disk' = st.disk /\ created' = st.created
     /\ delayed' = FALSE /\ queued' = <<>>

\* Writing a file that an item watches makes the item reload it.
Rewritten(f) == IF WithFile(f) # {} THEN changed \cup {f} ELSE changed

UserCreatesFile(f) ==
  /\ disk[f] = Absent
  /\ disk' = [disk EXCEPT ![f] = Content[f]]
  /\ created' = created \cup {f} /\ changed' = Rewritten(f)
  /\ UNCHANGED <<provider, deleted, apps, order, PinnedOnly>>

UserDeletesFile(f) ==
  /\ disk[f] # Absent
  /\ Hasty \/ f \notin created \cup ToSet(queued)
  /\ disk' = [disk EXCEPT ![f] = Absent]
  /\ deleted' = IF WithFile(f) # {} THEN deleted \cup {f} ELSE deleted
  /\ UNCHANGED <<provider, created, changed, apps, order, PinnedOnly>>

\* handle_items_dir_changed
FileCreated(f) ==
  /\ f \in created
  /\ IF WithFile(f) # {}
     THEN /\ created' = created \ {f}
          /\ UNCHANGED <<provider, disk, timer>>
     ELSE IF delayed
     THEN /\ created' = created \ {f}
          /\ queued' = Append(queued, f)
          /\ UNCHANGED <<items, delayed, disk, timer>>
     ELSE LET st == Process(items, disk, created \ {f}, Append(queued, f))
          IN /\ UpdateItems(st.items, Len(st.items) # Len(items))
             /\ disk' = st.disk /\ created' = st.created
             /\ queued' = <<>> /\ UNCHANGED delayed
  /\ UNCHANGED <<deleted, changed, apps, DockItemsPref, PinnedOnly>>

\* Mutant: the item goes away even though its application runs.
HandleItemDeleted_AlwaysRemoves(f) ==
  UpdateItems(Those(items, DOMAIN items \ WithFile(f)), TRUE)

\* handle_item_deleted of the items with file f: a running application keeps
\* an item, which is no longer pinned.
HandleItemDeleted(f) ==
  LET s == Those(items, {k \in DOMAIN items :
                            items[k].file # f \/ (items[k].app \in Active /\ ~PinnedOnly)})
  IN UpdateItems([k \in DOMAIN s |->
                    IF s[k].file # f THEN s[k]
                    ELSE [Transient(s[k].app) EXCEPT !.unity = s[k].unity]],
                 WithFile(f) # {})

\* Mutant: the check whether the file exists is inverted.
FileDeleted_Inverted(f) ==
  /\ f \in deleted
  /\ deleted' = deleted \ {f}
  /\ IF disk[f] = Absent THEN UNCHANGED <<items, timer>> ELSE HandleItemDeleted(f)
  /\ UNCHANGED <<queued, delayed, disk, created, changed, apps, DockItemsPref,
                 PinnedOnly>>

\* Preferences.backing_file_changed
FileDeleted(f) ==
  /\ f \in deleted
  /\ deleted' = deleted \ {f}
  /\ IF disk[f] # Absent THEN UNCHANGED <<items, timer>> ELSE HandleItemDeleted(f)
  /\ UNCHANGED <<queued, delayed, disk, created, changed, apps, DockItemsPref,
                 PinnedOnly>>

\* load_prefs: the launcher changes, its application does not; a file that
\* cannot be loaded counts as deleted.
FileChanged(f) ==
  /\ f \in changed
  /\ changed' = changed \ {f}
  /\ IF disk[f] = Absent
     THEN HandleItemDeleted(f)
     ELSE UpdateItems([k \in DOMAIN items |->
                         IF items[k].file = f THEN [items[k] EXCEPT !.launcher = disk[f]]
                         ELSE items[k]], FALSE)
  /\ UNCHANGED <<queued, delayed, disk, created, deleted, apps, DockItemsPref,
                 PinnedOnly>>

-----------------------------------------------------------------------------
(* Pinning, dropping, moving                                               *)

\* pin_item of a transient item; make_dock_item fails for the launcher "",
\* and the handler then returns with the monitor still delayed.
Pin(k) ==
  /\ items[k].kind = "transient"
  /\ \/ /\ items[k].launcher = Empty
        /\ delayed' = TRUE
        /\ UNCHANGED <<items, queued, disk, created, changed, timer>>
     \/ \E f \in Files :
          /\ Content[f] = items[k].launcher /\ disk[f] = Absent
          /\ changed' = Rewritten(f)
          /\ ResumeItemsMonitor(
               [items EXCEPT ![k].kind = "pinned", ![k].file = f],
               [disk EXCEPT ![f] = Content[f]], created \cup {f}, TRUE)
  /\ UNCHANGED <<deleted, apps, DockItemsPref, PinnedOnly>>

\* pin_item of a pinned item, and drag_end of one thrown off the dock: the
\* file is deleted, the item itself goes at once unless it is running.
Unpin(k) ==
  LET i    == items[k]
      gone == ~(i.app \in Active \/ i.unity)
      rest == IF gone THEN RemoveAt(items, k) ELSE items
  IN /\ i.kind = "pinned"
     /\ Hasty \/ i.file \notin created \cup ToSet(queued)
     /\ deleted' = IF gone \/ disk[i.file] = Absent THEN deleted ELSE deleted \cup {i.file}
     /\ ResumeItemsMonitor(rest, [disk EXCEPT ![i.file] = Absent], created, gone)
     /\ UNCHANGED <<changed, apps, DockItemsPref, PinnedOnly>>

\* add_item_with_uri of the launcher of f; to is the target's position, or
\* the end
Drop(f, to) ==
  /\ ~exists_for_uri(items, Content[f])
  /\ disk[f] = Absent
  /\ changed' = Rewritten(f)
  /\ ResumeItemsMonitor(InsertAt(items, to, Made(f, Content[f])),
                        [disk EXCEPT ![f] = Content[f]], created \cup {f}, TRUE)
  /\ UNCHANGED <<deleted, apps, DockItemsPref, PinnedOnly>>

Move(from, to) ==
  /\ from # to
  /\ UpdateItems(move_to(items, from, to), TRUE)
  /\ UNCHANGED <<queued, delayed, storage, apps, DockItemsPref, PinnedOnly>>

\* handle_pinned_only_changed
SetPinnedOnly(b) ==
  LET s == IF b THEN Those(items, Pinned(items))
                ELSE AddTransients(items, Active, Visible)
  IN /\ PinnedOnly # b /\ PinnedOnly' = b
     /\ UpdateItems(s, Len(s) # Len(items))
     /\ UNCHANGED <<queued, delayed, storage, apps, DockItemsPref>>

-----------------------------------------------------------------------------
(* Applications                                                            *)

\* app_opened, called for visible applications
AppOpened(a) ==
  LET s == Match(items, a, IF PinnedOnly THEN items ELSE Append(items, Transient(a)))
  IN UpdateItems(s, Len(s) # Len(items))

\* Matcher.handle_view_opened
Starts(a, visible) ==
  /\ state[a] = "off"
  /\ state' = [state EXCEPT ![a] = IF visible THEN "running" ELSE "hidden"]
  /\ IF visible
     THEN AppOpened(a) /\ UNCHANGED pending
     ELSE pending' = pending \cup {a} /\ UNCHANGED <<items, timer>>
  /\ UNCHANGED <<queued, delayed, storage, DockItemsPref, PinnedOnly>>

\* Matcher.handle_view_user_visible_changed, which leaves the view pending
BecomesVisible(a) ==
  /\ state[a] = "hidden"
  /\ state' = [state EXCEPT ![a] = "running"]
  /\ IF a \in pending THEN AppOpened(a) ELSE UNCHANGED <<items, timer>>
  /\ UNCHANGED <<queued, delayed, storage, pending, DockItemsPref, PinnedOnly>>

Stops(a) ==
  /\ a \in Active
  /\ state' = [state EXCEPT ![a] = "closing"]
  /\ UNCHANGED <<provider, storage, pending, order, PinnedOnly>>

\* handle_closed and app_closed
Closed(a) ==
  LET s == [k \in DOMAIN items |->
              IF items[k].app = a THEN [items[k] EXCEPT !.app = NoApp] ELSE items[k]]
      t == Those(s, {k \in DOMAIN s :
                       s[k].kind = "transient" => s[k].app # NoApp \/ s[k].unity})
  IN /\ state[a] = "closing"
     /\ state' = [state EXCEPT ![a] = "off"]
     /\ pending' = pending \ {a}
     /\ UpdateItems(t, Len(t) # Len(s))
     /\ UNCHANGED <<queued, delayed, storage, DockItemsPref, PinnedOnly>>

\* A LauncherEntry shows or hides its progress bar or badge; a transient item
\* that only existed for it goes away (update_launcher_entry).
UnityInfo(k) ==
  LET i == items[k]
      s == [items EXCEPT ![k].unity = ~i.unity]
  IN /\ IsApplicationItem(i)
     /\ i.launcher \in Badges
     /\ IF i.unity /\ i.kind = "transient" /\ i.app = NoApp
        THEN UpdateItems(RemoveAt(items, k), TRUE)
        ELSE UpdateItems(s, FALSE)
     /\ UNCHANGED <<queued, delayed, storage, apps, DockItemsPref, PinnedOnly>>

-----------------------------------------------------------------------------
(* Saving and loading                                                      *)

SerializeItemPositions ==
  /\ timer /\ timer' = FALSE
  /\ DockItemsPref' = FilesOf(items)
  /\ UNCHANGED <<provider, storage, apps, PinnedOnly>>

\* The files named by an order that are still there.
Present(ordering) == Those(ordering, {k \in DOMAIN ordering : disk[ordering[k]] # Absent})

\* Mutant: the saved order is ignored.
Loaded_Unordered(ordering) ==
  {[k \in DOMAIN s |-> Made(s[k], disk[s[k]])] :
     s \in SetToSeqs({f \in Files : disk[f] # Absent})}

\* load_elements: the files named by the saved order, then the others in the
\* order of a hash map.  Its look for duplicates searches the still empty
\* result, so that every file gets its item.
Loaded(ordering) ==
  LET known == Present(ordering)
      rest  == {f \in Files : disk[f] # Absent} \ ToSet(known)
  IN {[k \in DOMAIN s |-> Made(s[k], disk[s[k]])] :
        s \in {known \o t : t \in SetToSeqs(rest)}}

\* DefaultApplicationDockItemProvider.prepare
Prepared(s, po, up, visible) == IF po THEN s ELSE AddTransients(s, up, visible)

\* add_default_provider
Start ==
  /\ ~runs /\ runs' = TRUE /\ last_seen' = <<>>
  /\ \E s \in Loaded(DockItemsPref) : items' = Prepared(s, PinnedOnly, Active, Visible)
  /\ timer' = TRUE
  /\ UNCHANGED <<storage, apps, queued, delayed, DockItemsPref, PinnedOnly>>

\* What the process knew is gone with it.
Ends ==
  /\ Restarts /\ runs /\ runs' = FALSE
  /\ items' = <<>> /\ queued' = <<>> /\ delayed' = FALSE
  /\ created' = {} /\ deleted' = {} /\ changed' = {}
  /\ pending' = {} /\ timer' = FALSE
  /\ UNCHANGED <<disk, state, PinnedOnly>>

\* Mutant: the pending timer is removed, but nothing is saved in its place.
Quit_Unsaved ==
  Ends /\ last_seen' = FilesOf(items) /\ UNCHANGED DockItemsPref

\* The controller is destroyed, which saves the order in place of the timer.
Quit ==
  Ends /\ last_seen' = FilesOf(items) /\ DockItemsPref' = FilesOf(items)

\* The process ends and the controller is not destroyed: only an order whose
\* timer has run is one to come back to.
Crash ==
  /\ Ends /\ UNCHANGED DockItemsPref
  /\ last_seen' = IF timer THEN DockItemsPref ELSE FilesOf(items)

\* While no dock runs, files and applications come and go.
FilesMove(f) ==
  /\ disk' = [disk EXCEPT ![f] = IF @ = Absent THEN Content[f] ELSE Absent]
  /\ UNCHANGED <<provider, created, deleted, changed, apps, order, PinnedOnly, life>>

AppsMove(a, st) ==
  /\ st \in {"off", "hidden", "running"} \ {state[a]}
  /\ state' = [state EXCEPT ![a] = st]
  /\ UNCHANGED <<provider, storage, pending, order, PinnedOnly, life>>

\* A first start: some files, some applications, nothing saved.
Init ==
  /\ disk \in [Files -> Launchers \cup {Absent}]
  /\ \A f \in Files : disk[f] \in {Content[f], Absent}
  /\ Restarts \/ \A f, g \in Files : disk[f] = disk[g] => f = g \/ disk[f] = Absent
  /\ PinnedOnly \in StartPinnedOnly
  /\ state \in [Apps -> {"off", "running"}]
  /\ \E s \in Loaded(<<>>) :
       items = Prepared(s, PinnedOnly, Active, Visible)
  /\ created = {} /\ deleted = {} /\ changed = {} /\ queued = <<>> /\ delayed = FALSE
  /\ pending = {}
  /\ timer = TRUE /\ DockItemsPref = <<>>
  /\ runs = TRUE /\ last_seen = <<>>

System ==
  \/ \E f \in Files : FileCreated(f) \/ FileDeleted(f) \/ FileChanged(f)
  \/ \E a \in Apps : Closed(a)
  \/ SerializeItemPositions

Live ==
  \/ System
  \/ \E f \in Files : UserCreatesFile(f) \/ UserDeletesFile(f)
  \/ \E k \in DOMAIN items : Pin(k) \/ Unpin(k) \/ UnityInfo(k)
  \/ \E f \in Files, to \in 1..(Len(items) + 1) : Drop(f, to)
  \/ \E i, j \in DOMAIN items : Move(i, j)
  \/ \E b \in BOOLEAN : SetPinnedOnly(b)
  \/ \E a \in Apps : (\E v \in BOOLEAN : Starts(a, v)) \/ BecomesVisible(a) \/ Stops(a)

\* The actions of Live are those of a dock that runs.
Next ==
  \/ runs /\ Live /\ UNCHANGED life
  \/ Quit \/ Crash
  \/ Start
  \/ ~runs /\ \E f \in Files : FilesMove(f)
  \/ ~runs /\ \E a \in Apps, st \in {"off", "hidden", "running"} : AppsMove(a, st)

Spec == Init /\ [][Next]_vars

-----------------------------------------------------------------------------
(* Properties                                                              *)

\* Type invariant.
TypeOK ==
  /\ \A k \in DOMAIN items :
       /\ items[k].kind \in {"pinned", "file", "transient"}
       /\ items[k].kind = "transient" <=> items[k].file = NoFile
       /\ items[k].launcher \in Launchers \cup {Empty}
       /\ items[k].app \in Apps \cup {NoApp}
  /\ disk \in [Files -> Launchers \cup {Empty, Absent}]
  /\ created \subseteq Files /\ deleted \subseteq Files /\ changed \subseteq Files
  /\ queued \in Seq(Files) /\ delayed \in BOOLEAN
  /\ state \in [Apps -> {"off", "hidden", "running", "closing"}]
  /\ pending \subseteq Apps
  /\ timer \in BOOLEAN /\ DockItemsPref \in Seq(Files)
  /\ runs \in BOOLEAN /\ last_seen \in Seq(Files)

\* "The launcher ... is already managed by dock item ... Removing ..."
\* (ItemFactory.vala:209, ApplicationDockItemProvider.vala:241): no launcher
\* and no application has two items, whatever is pinned, dropped, unpinned,
\* started and stopped in the meantime.
UniqueItems ==
  \A i, j \in DOMAIN items :
    i # j => /\ items[i].launcher = items[j].launcher => items[i].launcher = Empty
             /\ items[i].app = items[j].app => items[i].app = NoApp

\* A dock that shows unpinned applications has an item for each visible
\* running application, matched to it, however its pinned item comes and goes.
RunningShown ==
  ~PinnedOnly =>
    \A a \in DOMAIN state : state[a] = "running" => \E k \in DOMAIN items : items[k].app = a

\* A pinned item is backed by a file with its launcher, or is about to learn
\* that the file is gone.
Backed ==
  \A k \in DOMAIN items :
    items[k].kind # "transient" =>
      disk[items[k].file] = items[k].launcher \/ items[k].file \in deleted \cup changed

\* When the timer has run, the saved order is that of the items.
SavedCurrent == runs /\ ~timer => DockItemsPref = FilesOf(items)

\* What an earlier dock has left comes back: the pinned items whose files are
\* still there are shown first and in the order in which the user had them when
\* the controller was destroyed, or, if it was not, when the timer last ran,
\* whatever files and applications have come and gone while no dock ran.
RestartKeepsOrder ==
  [][~runs /\ runs' => LET kept == Present(last_seen)
                       IN SubSeq(FilesOf(items'), 1, Len(kept)) = kept]_vars

\* "Match running applications to their available dock-items"
\* (ApplicationDockItemProvider.vala:167): an item whose application runs
\* and is visible is connected to it.
RunningMatched ==
  \A k \in DOMAIN items, a \in Apps :
    state[a] = "running" /\ items[k].launcher = LauncherOf[a] /\ items[k].launcher # Empty
    => items[k].app = a

\* "Creates a new DockElement from a .dockitem" (ItemFactory.vala:94): every
\* pinned item comes from a file that had a launcher.
NoEmptyItem == \A k \in DOMAIN items : items[k].kind # "file"
=============================================================================
