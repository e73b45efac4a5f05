----------------------------- MODULE AppMatcher -----------------------------
(***************************************************************************)
(* global-appmenu, ValaPanelMatcher (matcher.c): which application a       *)
(* window is of, from tables of the installed applications.                *)
(*                                                                         *)
(* The tables are made anew when they are used, if GIO's monitor has told  *)
(* of a change since; an application that GIO launches is also remembered  *)
(* by its process.  Names are compared in lower case, except those of the  *)
(* files in `exec_cache`: an application's `id` is the name of its file,   *)
(* `key` that name in lower case and without its suffix.                   *)
(***************************************************************************)
EXTENDS Naturals, Sequences

CONSTANTS Apps,        \* records: id, key, startup_wm_class, exec
          AppWindows,  \* records: cls, grp, gtk_id, pid; names may be NoName
          Pids, NoName, NoApp,
          MaxChanges   \* bound: installations, removals and launches

VARIABLES installed,    \* files on disk (external)
          changes,      \* how many times that or a launch happened
          noticed,      \* the monitor has yet to tell of a change
          idles,        \* invalidate_ids is due
          invalidated,
          tables,       \* the applications the tables were made from
          pid_cache,    \* process -> application
          answer        \* of the last match: window, application

vars == <<installed, changes, noticed, idles, invalidated, tables, pid_cache, answer>>

-----------------------------------------------------------------------------
(* Of several applications with one name any may be the last in its table. *)

ByStartupId(apps, check) == {a \in apps : check # NoName /\ a.startup_wm_class = check}
ByKey(apps, check) == {a \in apps : a.key = check}

\* The table has file names, which are looked up as they are among names in lower
\* case: nothing is found if the last application with the program has another.
WithExec(apps, check) == {a \in apps : check # NoName /\ a.exec = check}
ByExec(apps, check) == {a \in WithExec(apps, check) : a.id = a.key}

\* What is remembered of a process is a file, which has to be there still.
ByPid(cache, pid) ==
  IF pid \notin DOMAIN cache THEN {}
  ELSE {IF cache[pid] \in installed THEN cache[pid] ELSE NoApp}

\* The alternatives in the order they are tried.  (The names in `simpletons` are
\* looked up as they are, not as what they stand for: that is ByKey again.)
Alternatives(apps, cache, w) ==
  <<ByStartupId(apps, w.cls), ByKey(apps, w.cls), ByStartupId(apps, w.grp), ByKey(apps, w.grp),
    ByPid(cache, w.pid), ByKey(apps, w.gtk_id), ByExec(apps, w.cls), ByExec(apps, w.grp)>>

\* The first that finds something; the last two may find nothing, see ByExec.
Matched(apps, cache, w) ==
  LET found == Alternatives(apps, cache, w)
      sure == {k \in 1..6 : found[k] # {}}
              \cup (IF found[7] # {} /\ found[7] = WithExec(apps, w.cls) THEN {7} ELSE {})
              \cup (IF found[8] # {} /\ found[8] = WithExec(apps, w.grp) THEN {8} ELSE {})
  IN (UNION {found[k] : k \in {j \in 1..8 : \A s \in sure : j <= s}})
     \cup (IF sure = {} THEN {NoApp} ELSE {})

-----------------------------------------------------------------------------
Init ==
  /\ installed \in SUBSET Apps
  /\ changes = 0
  /\ noticed = FALSE /\ idles = FALSE /\ invalidated = FALSE
  /\ tables = installed
  /\ pid_cache = <<>>
  /\ answer = {}

\* A file comes, goes or is replaced.
Change ==
  \E a \in Apps :
    /\ changes < MaxChanges /\ changes' = changes + 1
    /\ installed' = IF a \in installed THEN installed \ {a} ELSE installed \cup {a}
    /\ noticed' = TRUE
    /\ UNCHANGED <<idles, invalidated, tables, pid_cache, answer>>

\* The tables are not marked before the main loop is idle.
on_monitor_changed ==
  /\ noticed /\ noticed' = FALSE /\ idles' = TRUE
  /\ UNCHANGED <<installed, changes, invalidated, tables, pid_cache, answer>>

invalidate_ids ==
  /\ idles /\ idles' = FALSE /\ invalidated' = TRUE
  /\ UNCHANGED <<installed, changes, noticed, tables, pid_cache, answer>>

\* "Launched".  Nothing is ever removed; another process may get the same number.
matcher_bus_signal_subscribe ==
  \E pid \in Pids, a \in installed :
    /\ changes < MaxChanges /\ changes' = changes + 1
    /\ pid_cache' = [p \in DOMAIN pid_cache \cup {pid} |-> IF p = pid THEN a ELSE pid_cache[p]]
    /\ UNCHANGED <<installed, noticed, idles, invalidated, tables, answer>>

\* Mutant: the mark is taken off only if the tables have changed.
matcher_check_invalidated_Late == tables' = tables /\ invalidated' = FALSE

\* (The lock keeps invalidate_ids out meanwhile.)
matcher_check_invalidated ==
  tables' = (IF invalidated THEN installed ELSE tables) /\ invalidated' = FALSE

match_wnck_window(w) ==
  /\ matcher_check_invalidated
  /\ \E a \in Matched(tables', pid_cache, w) : answer' = {[window |-> w, app |-> a]}
  /\ UNCHANGED <<installed, changes, noticed, idles, pid_cache>>

Match == \E w \in AppWindows : match_wnck_window(w)

Next == Change \/ on_monitor_changed \/ invalidate_ids \/ matcher_bus_signal_subscribe \/ Match

Spec == Init /\ [][Next]_vars

-----------------------------------------------------------------------------
(* Properties                                                              *)

\* The installed applications that go by a name of the window.
Named(w) == UNION {ByStartupId(installed, w.cls) \cup ByKey(installed, w.cls),
                   ByStartupId(installed, w.grp) \cup ByKey(installed, w.grp)}

\* Once a change of the installed applications has been heard, no answer is from
\* before it: a window whose class names installed applications is given one of
\* them, and none is given to one that has been removed.  A process never
\* overrides a class.  matcher_check_invalidated, match_wnck_window.
MatchesInstalled ==
  [][\A w \in AppWindows, a \in Apps \cup {NoApp} :
       (answer' = {[window |-> w, app |-> a]} /\ answer' # answer /\ ~noticed /\ ~idles)
          => /\ a \in installed \cup {NoApp}
             /\ Named(w) # {} => a \in Named(w)]_vars
=============================================================================
