-------------------------------- MODULE Unity --------------------------------
(***************************************************************************)
(* The LauncherEntry interface (plank/lib/Services/Unity.vala): programs on *)
(* the session bus broadcast updates for a badge or progress bar, Unity    *)
(* throttles them and ApplicationDockItemProvider applies them to an item, *)
(* creating a transient one if need be.                                    *)
(*                                                                         *)
(* D-Bus delivers a sender's signals and the loss of its name in order.    *)
(* The idle retry of an update for an unknown item runs in the order of    *)
(* the requests, but after whatever else the main loop has to do.          *)
(*                                                                         *)
(* An update names a uri and is a dictionary of some of the properties:    *)
(* those it does not mention stay as they are.  Of the properties we keep  *)
(* the ones that make something visible, which an update turns on or off.  *)
(***************************************************************************)
EXTENDS Integers, Sequences, SequencesExt, FiniteSetsExt

CONSTANTS
  Senders,       \* unique names on the bus
  Uris,          \* application uris
  Marks,          \* count-visible and progress-visible
  Says,          \* the updates that a sender broadcasts
  Installed,     \* the uris with a desktop file
  PinnedUris,    \* the uris of pinned items, in their order
  FastCount,     \* UNITY_UPDATE_THRESHOLD_FAST_COUNT
  NoSender, NoEntry,
  AppsMove,      \* whether applications start and stop
  MaxInFlight    \* bound on messages and retries under way

ASSUME UnityAssumption ==
  /\ Says \in [Senders -> SUBSET [uri : Uris, on : SUBSET Marks, off : SUBSET Marks]]
  /\ Installed \subseteq Uris /\ PinnedUris \in Seq(Uris)
  /\ FastCount \in Nat /\ MaxInFlight \in Nat /\ AppsMove \in BOOLEAN
  /\ NoSender \notin Senders /\ "lost" \notin Uris

Ages == {"recent", "old", "expired"}   \* of last_update
Requests == [sender : Senders, uri : Uris, on : SUBSET Marks, off : SUBSET Marks]
Entries == [fast : 1..(FastCount + 1), age : Ages, params : Requests, timer : BOOLEAN]

ASSUME NoEntryAssumption == NoEntry \notin Entries

VARIABLES
  items,      \* [uri, kind, app, sender, shown]
  channel,    \* messages on the bus
  entry,      \* launcher_entries: [fast, age, params, timer]
  retries,    \* the idle callbacks of update_launcher_entry
  cleanup,    \* launcher_entries_timer_id
  alive,      \* the senders that own their name
  \* History of each sender: the properties that its updates leave on; those
  \* its latest update mentions, while the throttle holds it back; those of an
  \* update that was replaced while it was held back.
  meant, waits, lost

said == <<meant, waits, lost>>
vars == <<items, channel, entry, retries, cleanup, alive, said>>

Update(s, p) == [sender |-> s, uri |-> p.uri, on |-> p.on, off |-> p.off]
Mentions(u) == u.on \cup u.off
\* unity_update: the properties that an update mentions, one by one.
Merge(shown, u) == (shown \cup u.on) \ u.off

-----------------------------------------------------------------------------
(* ApplicationDockItemProvider                                             *)

\* The item an update is for: by its uri, else by its sender (the last one).
Target(s, uri) ==
  LET same  == {k \in DOMAIN items : items[k].uri = uri}
      other == {k \in DOMAIN items : items[k].sender = s}
  IN IF same # {} THEN Min(same)
     ELSE IF other # {} THEN Max(other)
     ELSE 0

\* Mutant: an update that hides the badge leaves the transient item.
Apply_KeepsTransient(k, u) ==
  items' = [items EXCEPT ![k].sender = u.sender, ![k].shown = Merge(@, u)]

\* Mutant: what an update does not mention is off.
Apply_Whole(k, u) ==
  LET i == [items[k] EXCEPT !.sender = u.sender, !.shown = Merge({}, u)]
  IN items' = IF i.kind = "transient" /\ ~i.app /\ i.shown = {} THEN RemoveAt(items, k)
              ELSE [items EXCEPT ![k] = i]

Apply(k, u) ==
  LET i == [items[k] EXCEPT !.sender = u.sender, !.shown = Merge(@, u)]
  IN items' = IF i.kind = "transient" /\ ~i.app /\ i.shown = {} THEN RemoveAt(items, k)
              ELSE [items EXCEPT ![k] = i]

\* update_launcher_entry
update_launcher_entry(u, is_retry, waiting) ==
  LET k == Target(u.sender, u.uri)
  IN \/ /\ k # 0
        /\ Apply(k, u) /\ retries' = waiting
     \/ /\ k = 0 /\ ~is_retry
        /\ retries' = Append(waiting, u) /\ UNCHANGED items
     \/ /\ k = 0 /\ is_retry
        /\ retries' = waiting
        /\ items' = IF u.uri \in Installed /\ Merge({}, u) # {}
                    THEN Append(items, [uri |-> u.uri, kind |-> "transient", app |-> FALSE,
                                        sender |-> u.sender, shown |-> Merge({}, u)])
                    ELSE items

\* remove_launcher_entry: the first item of the sender only
remove_launcher_entry(s) ==
  LET mine == {k \in DOMAIN items : items[k].sender = s}
      k    == Min(mine)
  IN items' = IF mine = {} THEN items
              ELSE IF items[k].kind = "transient" /\ ~items[k].app THEN RemoveAt(items, k)
              ELSE [items EXCEPT ![k].sender = NoSender, ![k].shown = {}]

AppOpens(uri) ==
  LET known == {k \in DOMAIN items : items[k].uri = uri}
  IN /\ AppsMove
     /\ \A k \in known : ~items[k].app
     /\ items' = IF known # {} THEN [items EXCEPT ![Min(known)].app = TRUE]
                 ELSE Append(items, [uri |-> uri, kind |-> "transient", app |-> TRUE,
                                     sender |-> NoSender, shown |-> {}])
     /\ UNCHANGED <<channel, entry, retries, cleanup, alive, said>>

AppCloses(k) ==
  /\ AppsMove /\ items[k].app
  /\ items' = IF items[k].kind = "transient" /\ items[k].shown = {} THEN RemoveAt(items, k)
              ELSE [items EXCEPT ![k].app = FALSE]
  /\ UNCHANGED <<channel, entry, retries, cleanup, alive, said>>

-----------------------------------------------------------------------------
(* Unity                                                                   *)

\* Its sender sent its last request a moment ago and has sent many: the request
\* is put off.
TooFast(s) ==
  entry[s] # NoEntry /\ entry[s].age = "recent" /\ entry[s].fast > FastCount

\* Mutant: a request that is skipped is forgotten.
handle_update_request_Drops(u) ==
  LET e    == entry[u.sender]
      n    == IF e = NoEntry THEN 0 ELSE e.fast
  IN /\ cleanup' = TRUE
     /\ IF ~TooFast(u.sender)
        THEN /\ entry' = [entry EXCEPT ![u.sender] =
                            [fast |-> IF n > FastCount THEN n ELSE n + 1, age |-> "recent",
                             params |-> u, timer |-> e # NoEntry /\ e.timer]]
             /\ update_launcher_entry(u, FALSE, retries)
        ELSE /\ entry' = [entry EXCEPT ![u.sender].timer = TRUE]
             /\ UNCHANGED <<items, retries>>

\* fast counts every request that went through; it is capped at the first
\* value above the threshold.
handle_update_request(u) ==
  LET e    == entry[u.sender]
      n    == IF e = NoEntry THEN 0 ELSE e.fast
  IN /\ cleanup' = TRUE
     /\ IF ~TooFast(u.sender)
        THEN /\ entry' = [entry EXCEPT ![u.sender] =
                            [fast |-> IF n > FastCount THEN n ELSE n + 1, age |-> "recent",
                             params |-> u, timer |-> e # NoEntry /\ e.timer]]
             /\ update_launcher_entry(u, FALSE, retries)
        ELSE /\ entry' = [entry EXCEPT ![u.sender].params = u, ![u.sender].timer = TRUE]
             /\ UNCHANGED <<items, retries>>

\* entry.parameters holds one update: the one that it held back is gone.
Noted(u) ==
  /\ lost' = [lost EXCEPT ![u.sender] = (@ \cup waits[u.sender]) \ Mentions(u)]
  /\ waits' = [waits EXCEPT ![u.sender] = IF TooFast(u.sender) THEN Mentions(u) ELSE {}]
  /\ UNCHANGED meant

\* handle_entry_signal and handle_name_owner_changed
Dispatch ==
  /\ channel # <<>>
  /\ channel' = Tail(channel)
  /\ LET m == Head(channel)
     IN IF m.uri = "lost"
        THEN remove_launcher_entry(m.sender) /\ UNCHANGED <<entry, retries, cleanup, said>>
        ELSE handle_update_request(m) /\ Noted(m)
  /\ UNCHANGED alive

\* Mutant: the timeout performs nothing.
ThrottleTimeout_Nothing(s) ==
  /\ entry[s] # NoEntry /\ entry[s].timer
  /\ entry' = [entry EXCEPT ![s].timer = FALSE, ![s].age = "recent"]
  /\ waits' = [waits EXCEPT ![s] = {}]
  /\ UNCHANGED <<items, retries, channel, cleanup, alive, meant, lost>>

ThrottleTimeout(s) ==
  /\ entry[s] # NoEntry /\ entry[s].timer
  /\ entry' = [entry EXCEPT ![s].timer = FALSE, ![s].age = "recent"]
  /\ update_launcher_entry(entry[s].params, FALSE, retries)
  /\ waits' = [waits EXCEPT ![s] = {}]
  /\ UNCHANGED <<channel, cleanup, alive, meant, lost>>

Retry ==
  /\ retries # <<>>
  /\ update_launcher_entry(Head(retries), TRUE, Tail(retries))
  /\ UNCHANGED <<channel, entry, cleanup, alive, said>>

\* The throttle timeout is due long before the entry expires.
TimePasses(s) ==
  /\ entry[s] # NoEntry /\ entry[s].age # "expired"
  /\ entry[s].age = "recent" \/ ~entry[s].timer
  /\ entry' = [entry EXCEPT ![s].age = IF @ = "recent" THEN "old" ELSE "expired"]
  /\ UNCHANGED <<items, channel, retries, cleanup, alive, said>>

\* clean_up_launcher_entries
CleanUp ==
  /\ cleanup
  /\ entry' = [s \in Senders |-> IF entry[s] # NoEntry /\ entry[s].age = "expired"
                                 THEN NoEntry ELSE entry[s]]
  /\ cleanup' = (\E s \in Senders : entry'[s] # NoEntry)
  /\ UNCHANGED <<items, channel, retries, alive, said>>

-----------------------------------------------------------------------------
(* The programs                                                            *)

Send(s, p) ==
  /\ alive[s]
  /\ Len(channel) + Len(retries) < MaxInFlight
  /\ channel' = Append(channel, Update(s, p))
  /\ meant' = [meant EXCEPT ![s] = Merge(@, p)]
  /\ UNCHANGED <<items, entry, retries, cleanup, alive, waits, lost>>

Exit(s) ==
  /\ alive[s]
  /\ alive' = [alive EXCEPT ![s] = FALSE]
  /\ channel' = Append(channel, [sender |-> s, uri |-> "lost", on |-> {}, off |-> {}])
  /\ UNCHANGED <<items, entry, retries, cleanup, said>>

Init ==
  /\ items = [k \in DOMAIN PinnedUris |->
                [uri |-> PinnedUris[k], kind |-> "pinned", app |-> FALSE,
                 sender |-> NoSender, shown |-> {}]]
  /\ channel = <<>> /\ retries = <<>>
  /\ entry = [s \in Senders |-> NoEntry] /\ cleanup = FALSE
  /\ alive = [s \in Senders |-> TRUE]
  /\ meant = [s \in Senders |-> {}] /\ waits = meant /\ lost = meant

Next ==
  \/ \E s \in Senders : (\E p \in Says[s] : Send(s, p)) \/ Exit(s)
  \/ \E s \in Senders : ThrottleTimeout(s) \/ TimePasses(s)
  \/ Dispatch \/ Retry \/ CleanUp
  \/ \E u \in Uris : AppOpens(u)
  \/ \E k \in DOMAIN items : AppCloses(k)

Spec == Init /\ [][Next]_vars

\* The main loop handles messages, idle callbacks and timeouts.
FairSpec ==
  /\ Spec /\ WF_vars(Dispatch) /\ WF_vars(Retry)
  /\ \A s \in Senders : WF_vars(ThrottleTimeout(s))

-----------------------------------------------------------------------------
(* Properties                                                              *)

\* Type invariant; a transient item has an application or a badge.
TypeOK ==
  /\ \A k \in DOMAIN items :
       /\ items[k] \in [uri : Uris, kind : {"pinned", "transient"}, app : BOOLEAN,
                        sender : Senders \cup {NoSender}, shown : SUBSET Marks]
       /\ items[k].kind = "transient" => items[k].app \/ items[k].shown # {}
  /\ \A s \in Senders :
       entry[s] # NoEntry => /\ entry[s].fast \in 1..(FastCount + 1)
                             /\ entry[s].age \in Ages
  /\ \A k \in DOMAIN retries : retries[k].sender \in Senders

\* Nothing of the sender's is under way any more.
Quiet(s) ==
  /\ \A k \in DOMAIN channel : channel[k].sender # s
  /\ \A k \in DOMAIN retries : retries[k].sender # s
  /\ entry[s] = NoEntry \/ ~entry[s].timer

Shown(s) == UNION {items[k].shown : k \in {j \in DOMAIN items : items[j].sender = s}}

\* However its requests are throttled, put off and merged, the dock shows for a
\* program what its updates have told it, all but what is lost in the throttle:
\* the properties mentioned last by an update that the next one replaced while
\* it was put off (Unity.vala:244).
UpdatesShown ==
  \A s \in Senders :
    alive[s] /\ Quiet(s) => \A mark \in Marks \ lost[s] : mark \in Shown(s) <=> mark \in meant[s]

\* What a program turns on and leaves on, and what is not lost in the throttle,
\* is shown in the end.
EventuallyShown ==
  \A s \in Senders, mark \in Marks :
    <>[](alive[s] /\ mark \in meant[s] \ lost[s]) => <>[](mark \in Shown(s))

\* "Reset item since there is no new NameOwner"
\* (ApplicationDockItemProvider.vala:307): what a program that has exited
\* left behind is gone when the loss of its name has been handled.
GoneIsReset ==
  \A s \in Senders :
    ~alive[s] /\ (\A k \in DOMAIN channel : channel[k].sender # s) => Shown(s) = {}
=============================================================================
