----------------------------- MODULE Preferences -----------------------------
(***************************************************************************)
(* plank/lib/Services/Preferences.vala: properties that are saved to a     *)
(* backing file on every change and loaded again when the file changes.    *)
(* Several objects may share one file, in one process or in two (the tests *)
(* do), and other programs edit it.                                        *)
(*                                                                         *)
(* A file monitor delivers its events in order and a handler reads the     *)
(* file as it is by then.  A value is sanitized by the subclass's verify.  *)
(* save_prefs has no monitor between the moment it writes the file and the *)
(* moment it starts a new one; that window is closed here, as no other     *)
(* process is modelled to hit it.                                          *)
(***************************************************************************)
EXTENDS Integers, Sequences

CONSTANTS
  Objects,       \* the preferences objects of one backing file
  Keys,          \* their properties
  Writable,      \* the objects that may write the file (ACCESS_CAN_WRITE)
  Foreign,       \* whether other programs edit the file
  MaxEvents      \* bound on the events that wait

Valid == {"default", "other"}
Values == Valid \cup {"raw"}            \* "raw" is what verify replaces
verify(v) == IF v = "raw" THEN "other" ELSE v

Contents == [Keys -> Values \cup {"missing"}]
NoContent == {"absent", "garbage"}      \* no file; no key file

VARIABLES
  prop,         \* the properties of each object
  file,         \* the backing file: [text] or [keys]
  events,       \* of each object's backing_monitor
  is_delayed, is_changed,
  told          \* history: deleted() was emitted since the file was there

vars == <<prop, file, events, is_delayed, is_changed, told>>

Text(t) == [text |-> t, keys |-> [k \in Keys |-> "missing"]]
Saved(p) == [text |-> "keys", keys |-> p]
Absent == Text("absent")

-----------------------------------------------------------------------------
\* save_prefs, with the events that are pending by then: o's monitor is
\* stopped and started again, so what it has not delivered is lost.
save_prefs(o, p, delayed, pending) ==
  \/ /\ o \notin Writable
     /\ events' = pending /\ UNCHANGED <<file, is_changed, told>>
  \/ /\ o \in Writable /\ delayed
     /\ is_changed' = [is_changed EXCEPT ![o] = TRUE]
     /\ events' = pending /\ UNCHANGED <<file, told>>
  \/ /\ o \in Writable /\ ~delayed
     /\ is_changed' = [is_changed EXCEPT ![o] = FALSE]
     /\ file' = Saved(p) /\ told' = [q \in Objects |-> FALSE]
     /\ events' = [q \in Objects |-> IF q = o THEN <<>> ELSE Append(pending[q], "changed")]

\* handle_notify: the change is verified and saved, or noted for apply.  A
\* read-only object does neither.
Set(o, k, v) ==
  /\ prop[o][k] # v
  /\ prop' = [prop EXCEPT ![o][k] = IF o \in Writable THEN verify(v) ELSE v]
  /\ save_prefs(o, prop'[o], is_delayed[o], events)
  /\ UNCHANGED is_delayed

delay(o) ==
  /\ o \in Writable /\ ~is_delayed[o]
  /\ is_delayed' = [is_delayed EXCEPT ![o] = TRUE]
  /\ UNCHANGED <<prop, file, events, is_changed, told>>

\* Mutant: apply forgets what was changed meanwhile.
apply_Forgets(o) ==
  /\ o \in Writable /\ is_delayed[o]
  /\ is_delayed' = [is_delayed EXCEPT ![o] = FALSE]
  /\ is_changed' = [is_changed EXCEPT ![o] = FALSE]
  /\ UNCHANGED <<prop, file, events, told>>

apply(o) ==
  /\ o \in Writable /\ is_delayed[o]
  /\ is_delayed' = [is_delayed EXCEPT ![o] = FALSE]
  /\ IF is_changed[o] THEN save_prefs(o, prop[o], FALSE, events)
                      ELSE UNCHANGED <<file, events, is_changed, told>>
  /\ UNCHANGED prop

Removed == /\ file' = Absent
           /\ events' = [q \in Objects |-> Append(events[q], "deleted")]

\* Mutant: a change that was delayed stays noted.
delete_KeepsChange(o) ==
  /\ o \in Writable /\ file # Absent /\ Removed
  /\ is_delayed' = [is_delayed EXCEPT ![o] = FALSE]
  /\ UNCHANGED <<prop, is_changed, told>>

\* delete; on a file that is gone it only resets the two flags.
delete(o) ==
  /\ o \in Writable
  /\ is_delayed' = [is_delayed EXCEPT ![o] = FALSE]
  /\ is_changed' = [is_changed EXCEPT ![o] = FALSE]
  /\ IF file = Absent THEN UNCHANGED <<file, events>> ELSE Removed
  /\ UNCHANGED <<prop, told>>

\* load_prefs.  A property the file misses keeps its value, and then all are
\* saved; a value that verify replaced is not saved.
load_prefs(o) ==
  LET rest    == [events EXCEPT ![o] = Tail(@)]
      missing == \E k \in Keys : file.keys[k] = "missing"
      unsaved == is_changed[o] /\ ~is_delayed[o]
      readable == file.text = "keys"
  IN /\ prop' = IF ~readable THEN prop
                ELSE [prop EXCEPT ![o] =
                        [k \in Keys |-> IF file.keys[k] = "missing" THEN prop[o][k]
                                        ELSE verify(file.keys[k])]]
     /\ IF unsaved \/ (readable /\ missing)
        THEN save_prefs(o, prop'[o], is_delayed[o], rest)
        ELSE /\ told' = IF readable THEN told ELSE [told EXCEPT ![o] = TRUE]
             /\ events' = rest /\ UNCHANGED <<file, is_changed>>

\* Mutant: deleted() without another look at the file.
backing_file_changed_Credulous(o) ==
  /\ events[o] # <<>>
  /\ IF Head(events[o]) = "changed" THEN load_prefs(o)
     ELSE /\ told' = [told EXCEPT ![o] = TRUE]
          /\ events' = [events EXCEPT ![o] = Tail(@)]
          /\ UNCHANGED <<prop, file, is_changed>>
  /\ UNCHANGED is_delayed

backing_file_changed(o) ==
  /\ events[o] # <<>>
  /\ IF Head(events[o]) = "changed" THEN load_prefs(o)
     ELSE /\ told' = [told EXCEPT ![o] = @ \/ file = Absent]
          /\ events' = [events EXCEPT ![o] = Tail(@)]
          /\ UNCHANGED <<prop, file, is_changed>>
  /\ UNCHANGED is_delayed

\* Another program writes the file or removes it.
Edit(c) ==
  /\ Foreign /\ file # c /\ file' = c
  /\ events' = [q \in Objects |-> Append(events[q], "changed")]
  /\ told' = IF c.text = "keys" THEN [q \in Objects |-> FALSE] ELSE told
  /\ UNCHANGED <<prop, is_delayed, is_changed>>

Remove ==
  /\ Foreign /\ file # Absent /\ Removed
  /\ UNCHANGED <<prop, is_delayed, is_changed, told>>

\* All objects have just loaded the file.
Init ==
  /\ prop = [o \in Objects |-> [k \in Keys |-> "default"]]
  /\ file = Saved([k \in Keys |-> "default"])
  /\ events = [o \in Objects |-> <<>>]
  /\ is_delayed = [o \in Objects |-> FALSE]
  /\ is_changed = [o \in Objects |-> FALSE]
  /\ told = [o \in Objects |-> FALSE]

Room == \A o \in Objects : Len(events[o]) < MaxEvents

Next ==
  \/ \E o \in Objects : backing_file_changed(o) \/ delay(o)
  \/ Room /\ \E o \in Objects : apply(o) \/ delete(o)
  \/ Room /\ \E o \in Objects, k \in Keys, v \in Values : Set(o, k, v)
  \/ Room /\ (Remove \/ Edit(Text("garbage")) \/ \E c \in Contents : Edit(Saved(c)))

Spec == Init /\ [][Next]_vars

-----------------------------------------------------------------------------
(* Properties                                                              *)

\* Objects on one file agree: when nothing is on the way, each object that is
\* neither delayed nor read-only has the file's values, sanitized, however
\* their changes, delays and loads were interleaved.
Converged ==
  \A o \in Writable :
    ~is_delayed[o] /\ events[o] = <<>> /\ file.text = "keys" =>
      \A k \in Keys : prop[o][k] = verify(file.keys[k])

\* A deleted file stays deleted until somebody changes a property, applies
\* changes, or writes the file: what a monitor still has to say about the time
\* before the deletion does not bring it back.
NoResurrection ==
  [][file = Absent /\ (\E o \in Objects : backing_file_changed(o)) => file' = Absent]_vars

\* deleted() is how an item learns that its file is gone: it is emitted when
\* the file is gone, and never while there is a file that can be read.
OwnerTold ==
  \A o \in Objects : /\ file = Absent /\ events[o] = <<>> => told[o]
                     /\ told[o] => file.text # "keys"
=============================================================================
