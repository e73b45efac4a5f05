---------------------------- MODULE Plank_proofs ----------------------------
(***************************************************************************)
(* Proofs about plank's smaller services: preferences objects on one file  *)
(* agree, for any objects, keys, edits and delays (Preferences, MCPlank's  *)
(* instance Prefs).                                                        *)
(***************************************************************************)
EXTENDS MCPlank, DataLemmas, TLAPS

-----------------------------------------------------------------------------
(* Preferences                                                             *)

Notices == Seq({"changed", "deleted"})

PrefsType ==
  /\ prop \in [Objects -> [Keys -> Prefs!Values]]
  /\ \A o \in Writable, k \in Keys : prop[o][k] \in Prefs!Valid
  /\ file \in [text : {"keys", "absent", "garbage"}, keys : Prefs!Contents]
  /\ events \in [Objects -> Notices]
  /\ {is_delayed, is_changed, told} \subseteq [Objects -> BOOLEAN]

Agrees(o) == \A k \in Keys : prop[o][k] = Prefs!verify(file.keys[k])
Notified(q) == \E i \in DOMAIN q : q[i] = "changed"

\* An object that disagrees with the file will hear of a change or has noted one of
\* its own; one that has not said that the file is gone will hear that, too.
PrefsInv ==
  /\ PrefsType
  /\ \A o \in Objects : is_changed[o] => is_delayed[o] /\ o \in Writable
  /\ \A o \in Writable :
       file.text = "keys" /\ ~is_changed[o] => Agrees(o) \/ Notified(events[o])
  /\ \A o \in Objects : file = Prefs!Absent => told[o] \/ events[o] # <<>>
  /\ \A o \in Objects : told[o] => file.text # "keys"

LEMMA AppendNotified ==
  ASSUME NEW q \in Notices
  PROVE  /\ Append(q, "changed") \in Notices /\ Append(q, "deleted") \in Notices
         /\ Notified(Append(q, "changed")) /\ (Notified(q) => Notified(Append(q, "deleted")))
         /\ Append(q, "changed") # <<>> /\ Append(q, "deleted") # <<>>
<1>1. /\ Append(q, "changed") \in Notices /\ Append(q, "deleted") \in Notices
      /\ Append(q, "changed") # <<>> /\ Append(q, "deleted") # <<>>
  BY DEF Notices
<1>2. Notified(Append(q, "changed"))
  <2>1. /\ Len(q) + 1 \in DOMAIN Append(q, "changed")
        /\ Append(q, "changed")[Len(q) + 1] = "changed"
    BY DEF Notices
  <2>2. QED BY <2>1 DEF Notified
<1>3. Notified(q) => Notified(Append(q, "deleted"))
  BY DEF Notices, Notified
<1>4. QED BY <1>1, <1>2, <1>3

LEMMA TailNotified ==
  ASSUME NEW q \in Notices, q # <<>>
  PROVE  /\ Tail(q) \in Notices /\ Head(q) \in {"changed", "deleted"}
         /\ Head(q) # "changed" /\ Notified(q) => Notified(Tail(q))
<1>1. Tail(q) \in Notices /\ Head(q) \in {"changed", "deleted"}
  BY DEF Notices
<1>2. ASSUME Head(q) # "changed", Notified(q) PROVE Notified(Tail(q))
  <2>1. PICK i \in DOMAIN q : q[i] = "changed"
    BY <1>2 DEF Notified
  <2>2. i - 1 \in DOMAIN Tail(q) /\ Tail(q)[i - 1] = q[i]
    BY <1>2, <2>1 DEF Notices
  <2>3. QED BY <2>1, <2>2 DEF Notified
<1>3. QED BY <1>1, <1>2

\* save_prefs with the values the object has after the step.
LEMMA SaveKeepsInv ==
  ASSUME PrefsInv, NEW o \in Objects, NEW p \in [Keys -> Prefs!Values],
         o \in Writable => p \in [Keys -> Prefs!Valid],
         prop' = [prop EXCEPT ![o] = p],
         is_delayed' \in [Objects -> BOOLEAN], \A q \in Objects \ {o} : is_delayed'[q] = is_delayed[q],
         NEW pending \in [Objects -> Notices], \A q \in Objects \ {o} : pending[q] = events[q],
         pending[o] = events[o] \/ file.text = "keys",
         Prefs!save_prefs(o, p, is_delayed'[o], pending)
  PROVE  PrefsInv'
<1>1. /\ prop' \in [Objects -> [Keys -> Prefs!Values]]
      /\ \A q \in Writable, k \in Keys : prop'[q][k] \in Prefs!Valid
      /\ prop'[o] = p /\ \A q \in Objects \ {o} : prop'[q] = prop[q]
      /\ Writable \subseteq Objects
  BY PreferencesAssumption DEF PrefsInv, PrefsType, Prefs!Values
<1>2. CASE o \notin Writable
  <2>1. events' = pending /\ UNCHANGED <<file, is_changed, told>>
    BY <1>2 DEF Prefs!save_prefs
  <2>2. PrefsType'
    BY <1>1, <2>1 DEF PrefsInv, PrefsType
  <2>3. \A q \in Writable : (file.text = "keys" /\ ~is_changed[q] => Agrees(q) \/ Notified(events[q]))'
    <3>1. SUFFICES ASSUME NEW q \in Writable
                   PROVE  (file.text = "keys" /\ ~is_changed[q] => Agrees(q) \/ Notified(events[q]))'
      OBVIOUS
    <3>2. q \in Objects \ {o} /\ prop'[q] = prop[q] /\ events'[q] = events[q]
      BY <1>1, <1>2, <2>1
    <3>3. file.text = "keys" /\ ~is_changed[q] => Agrees(q) \/ Notified(events[q])
      BY DEF PrefsInv
    <3>4. QED BY <2>1, <3>2, <3>3 DEF Agrees
  <2>4. \A q \in Objects : (is_changed[q] => is_delayed[q] /\ q \in Writable)'
    BY <1>2, <2>1 DEF PrefsInv
  <2>5. \A q \in Objects : /\ (file = Prefs!Absent => told[q] \/ events[q] # <<>>)'
                           /\ (told[q] => file.text # "keys")'
    BY <2>1 DEF PrefsInv, Prefs!Absent, Prefs!Text
  <2>6. QED BY <2>2, <2>3, <2>4, <2>5 DEF PrefsInv
<1>3. CASE o \in Writable /\ is_delayed'[o]
  <2>1. /\ is_changed' = [is_changed EXCEPT ![o] = TRUE]
        /\ events' = pending /\ UNCHANGED <<file, told>>
    BY <1>3 DEF Prefs!save_prefs
  <2>2. PrefsType'
    BY <1>1, <2>1 DEF PrefsInv, PrefsType
  <2>3. \A q \in Objects : is_changed'[q] = IF q = o THEN TRUE ELSE is_changed[q]
    BY <2>1 DEF PrefsInv, PrefsType
  <2>4. \A q \in Writable : (file.text = "keys" /\ ~is_changed[q] => Agrees(q) \/ Notified(events[q]))'
    <3>1. SUFFICES ASSUME NEW q \in Writable, ~is_changed'[q]
                   PROVE  (file.text = "keys" => Agrees(q) \/ Notified(events[q]))'
      OBVIOUS
    <3>2. q # o /\ ~is_changed[q]
      BY <1>1, <2>3, <3>1
    <3>3. prop'[q] = prop[q] /\ events'[q] = events[q]
      BY <1>1, <2>1, <3>2
    <3>4. file.text = "keys" => Agrees(q) \/ Notified(events[q])
      BY <3>2 DEF PrefsInv
    <3>5. QED BY <2>1, <3>3, <3>4 DEF Agrees
  <2>5. \A q \in Objects : (is_changed[q] => is_delayed[q] /\ q \in Writable)'
    BY <1>3, <2>3 DEF PrefsInv
  <2>6. \A q \in Objects : /\ (file = Prefs!Absent => told[q] \/ events[q] # <<>>)'
                           /\ (told[q] => file.text # "keys")'
    BY <2>1 DEF PrefsInv, Prefs!Absent, Prefs!Text
  <2>7. QED BY <2>2, <2>4, <2>5, <2>6 DEF PrefsInv
<1>4. CASE o \in Writable /\ ~is_delayed'[o]
  <2>1. /\ is_changed' = [is_changed EXCEPT ![o] = FALSE]
        /\ file' = Prefs!Saved(p) /\ told' = [q \in Objects |-> FALSE]
        /\ events' = [q \in Objects |-> IF q = o THEN <<>> ELSE Append(pending[q], "changed")]
    BY <1>4 DEF Prefs!save_prefs
  <2>2. file' \in [text : {"keys", "absent", "garbage"}, keys : Prefs!Contents] /\ file'.keys = p
    BY <1>4, <2>1 DEF Prefs!Saved, Prefs!Contents, Prefs!Values
  <2>3. events' \in [Objects -> Notices]
    <3>1. <<>> \in Notices
      BY DEF Notices
    <3>2. QED BY <2>1, <3>1, AppendNotified
  <2>4. PrefsType'
    BY <1>1, <2>1, <2>2, <2>3 DEF PrefsInv, PrefsType
  <2>5. \A q \in Objects : is_changed'[q] = IF q = o THEN FALSE ELSE is_changed[q]
    BY <2>1 DEF PrefsInv, PrefsType
  <2>6. Agrees(o)'
    BY <1>1, <1>4, <2>2 DEF Agrees, Prefs!verify, Prefs!Valid
  <2>7. \A q \in Objects \ {o} : Notified(events'[q])
    BY <2>1, AppendNotified
  <2>8. \A q \in Writable : (file.text = "keys" /\ ~is_changed[q] => Agrees(q) \/ Notified(events[q]))'
    BY <1>1, <2>6, <2>7 DEF Agrees
  <2>9. \A q \in Objects : (is_changed[q] => is_delayed[q] /\ q \in Writable)'
    BY <2>5 DEF PrefsInv
  <2>10. \A q \in Objects : /\ (file = Prefs!Absent => told[q] \/ events[q] # <<>>)'
                            /\ (told[q] => file.text # "keys")'
    BY <2>1 DEF Prefs!Absent, Prefs!Text, Prefs!Saved
  <2>11. QED BY <2>4, <2>8, <2>9, <2>10 DEF PrefsInv
<1>5. QED BY <1>2, <1>3, <1>4

\* The file is removed; what one object had noted may be forgotten then.
LEMMA RemovedKeepsInv ==
  ASSUME PrefsInv, Prefs!Removed, UNCHANGED <<prop, told>>,
         {is_delayed', is_changed'} \subseteq [Objects -> BOOLEAN],
         \A q \in Objects : is_changed'[q] => is_delayed'[q] /\ is_changed[q]
  PROVE  PrefsInv'
<1>1. file' = Prefs!Absent /\ events' = [q \in Objects |-> Append(events[q], "deleted")]
  BY DEF Prefs!Removed
<1>2. /\ events' \in [Objects -> Notices] /\ \A q \in Objects : events'[q] # <<>>
  BY <1>1, AppendNotified DEF PrefsInv, PrefsType
<1>3. /\ file' \in [text : {"keys", "absent", "garbage"}, keys : Prefs!Contents]
      /\ file'.text # "keys"
  BY <1>1 DEF Prefs!Absent, Prefs!Text, Prefs!Contents
<1>4. PrefsType'
  BY <1>2, <1>3 DEF PrefsInv, PrefsType
<1>5. QED BY <1>2, <1>3, <1>4 DEF PrefsInv

LEMMA EditKeepsInv ==
  ASSUME PrefsInv, NEW c \in [text : {"keys", "absent", "garbage"}, keys : Prefs!Contents],
         c # Prefs!Absent, Prefs!Edit(c)
  PROVE  PrefsInv'
<1>1. /\ file' = c /\ events' = [q \in Objects |-> Append(events[q], "changed")]
      /\ UNCHANGED <<prop, is_delayed, is_changed>>
  BY DEF Prefs!Edit
<1>2. told' \in [Objects -> BOOLEAN] /\ \A q \in Objects : told'[q] => c.text # "keys"
  BY DEF Prefs!Edit, PrefsInv, PrefsType
<1>3. /\ events' \in [Objects -> Notices]
      /\ \A q \in Objects : Notified(events'[q])
  BY <1>1, AppendNotified DEF PrefsInv, PrefsType
<1>4. PrefsType'
  BY <1>1, <1>2, <1>3 DEF PrefsInv, PrefsType
<1>5. QED BY <1>1, <1>2, <1>3, <1>4, PreferencesAssumption DEF PrefsInv

\* A notice is handled: the file is loaded, or its loss is told.
LEMMA NoticeKeepsInv ==
  ASSUME PrefsInv, NEW o \in Objects, Prefs!backing_file_changed(o)
  PROVE  PrefsInv'
<1> DEFINE rest == [events EXCEPT ![o] = Tail(@)]
<1>1. events[o] # <<>> /\ events[o] \in Notices /\ is_delayed' = is_delayed
  BY DEF PrefsInv, PrefsType, Prefs!backing_file_changed
<1>2. /\ rest \in [Objects -> Notices] /\ rest[o] = Tail(events[o])
      /\ \A q \in Objects \ {o} : rest[q] = events[q]
  BY <1>1, TailNotified DEF PrefsInv, PrefsType
<1> HIDE DEF rest
<1>3. CASE Head(events[o]) # "changed"
  <2>1. /\ told' = [told EXCEPT ![o] = @ \/ file = Prefs!Absent]
        /\ events' = rest /\ UNCHANGED <<prop, file, is_changed>>
    BY <1>3 DEF Prefs!backing_file_changed, rest
  <2>2. /\ told' \in [Objects -> BOOLEAN]
        /\ \A q \in Objects : told'[q] = (told[q] \/ (q = o /\ file = Prefs!Absent))
    BY <2>1 DEF PrefsInv, PrefsType
  <2>3. PrefsType'
    BY <1>1, <1>2, <2>1, <2>2 DEF PrefsInv, PrefsType
  <2>4. Notified(events[o]) => Notified(events'[o])
    BY <1>1, <1>2, <1>3, <2>1, TailNotified
  <2>5. \A q \in Writable : (file.text = "keys" /\ ~is_changed[q] => Agrees(q) \/ Notified(events[q]))'
    BY <1>2, <2>1, <2>4, PreferencesAssumption DEF PrefsInv, Agrees
  <2>6. \A q \in Objects : /\ (file = Prefs!Absent => told[q] \/ events[q] # <<>>)'
                           /\ (told[q] => file.text # "keys")'
    <3>1. file = Prefs!Absent => file.text # "keys"
      BY DEF Prefs!Absent, Prefs!Text
    <3>2. QED BY <1>2, <2>1, <2>2, <3>1 DEF PrefsInv
  <2>7. \A q \in Objects : (is_changed[q] => is_delayed[q] /\ q \in Writable)'
    BY <1>1, <2>1 DEF PrefsInv
  <2>8. QED BY <2>3, <2>5, <2>6, <2>7 DEF PrefsInv
<1>4. CASE Head(events[o]) = "changed"
  <2> DEFINE readable == file.text = "keys"
             missing == \E k \in Keys : file.keys[k] = "missing"
             p == IF ~readable THEN prop[o]
                  ELSE [k \in Keys |-> IF file.keys[k] = "missing" THEN prop[o][k]
                                       ELSE Prefs!verify(file.keys[k])]
  <2>1. Prefs!load_prefs(o)
    BY <1>4 DEF Prefs!backing_file_changed
  <2>2. ~(is_changed[o] /\ ~is_delayed[o])
    BY DEF PrefsInv
  <2>3. /\ p \in [Keys -> Prefs!Values] /\ (o \in Writable => p \in [Keys -> Prefs!Valid])
        /\ readable /\ ~missing => \A k \in Keys : p[k] = Prefs!verify(file.keys[k])
    <3>1. /\ prop[o] \in [Keys -> Prefs!Values]
          /\ o \in Writable => \A k \in Keys : prop[o][k] \in Prefs!Valid
          /\ \A k \in Keys : file.keys[k] # "missing" => Prefs!verify(file.keys[k]) \in Prefs!Valid
      BY DEF PrefsInv, PrefsType, Prefs!Contents, Prefs!Values, Prefs!Valid, Prefs!verify
    <3>2. QED BY <3>1 DEF Prefs!Values
  <2>4. prop' = [prop EXCEPT ![o] = p] /\ prop'[o] = p
    <3>1. CASE readable
      BY <2>1, <3>1 DEF Prefs!load_prefs, PrefsInv, PrefsType
    <3>2. CASE ~readable
      BY <2>1, <3>2 DEF Prefs!load_prefs, PrefsInv, PrefsType
    <3>3. QED BY <3>1, <3>2
  <2>5. CASE readable /\ missing
    <3>1. Prefs!save_prefs(o, p, is_delayed'[o], rest)
      BY <1>1, <2>1, <2>4, <2>5 DEF Prefs!load_prefs, rest
    <3> HIDE DEF p
    <3>2. is_delayed' \in [Objects -> BOOLEAN] /\ \A q \in Objects : is_delayed'[q] = is_delayed[q]
      BY <1>1 DEF PrefsInv, PrefsType
    <3>3. QED BY <1>2, <2>3, <2>4, <2>5, <3>1, <3>2, SaveKeepsInv
  <2>6. CASE ~(readable /\ missing)
    <3>1. /\ told' = IF readable THEN told ELSE [told EXCEPT ![o] = TRUE]
          /\ events' = rest /\ UNCHANGED <<file, is_changed>>
      BY <2>1, <2>2, <2>6 DEF Prefs!load_prefs, rest
    <3> HIDE DEF p
    <3>2. /\ told' \in [Objects -> BOOLEAN]
          /\ \A q \in Objects : told'[q] = (told[q] \/ (q = o /\ ~readable))
      BY <3>1 DEF PrefsInv, PrefsType
    <3>3. /\ prop' \in [Objects -> [Keys -> Prefs!Values]]
          /\ \A q \in Objects \ {o} : prop'[q] = prop[q]
          /\ \A q \in Writable, k \in Keys : prop'[q][k] \in Prefs!Valid
      BY <2>3, <2>4, PreferencesAssumption DEF PrefsInv, PrefsType
    <3>4. PrefsType'
      BY <1>1, <1>2, <3>1, <3>2, <3>3 DEF PrefsInv, PrefsType
    <3>5. \A q \in Writable :
            (file.text = "keys" /\ ~is_changed[q] => Agrees(q) \/ Notified(events[q]))'
      BY <1>2, <2>3, <2>4, <2>6, <3>1, <3>3, PreferencesAssumption DEF PrefsInv, Agrees
    <3>6. \A q \in Objects : /\ (file = Prefs!Absent => told[q] \/ events[q] # <<>>)'
                             /\ (told[q] => file.text # "keys")'
      BY <1>2, <3>1, <3>2 DEF PrefsInv, Prefs!Absent, Prefs!Text
    <3>7. QED BY <1>1, <3>1, <3>4, <3>5, <3>6 DEF PrefsInv
  <2>7. QED BY <2>5, <2>6
<1>5. QED BY <1>3, <1>4

LEMMA PrefsStep == PrefsInv /\ [Prefs!Next]_Prefs!vars => PrefsInv'
<1> SUFFICES ASSUME PrefsInv, [Prefs!Next]_Prefs!vars PROVE PrefsInv'
  OBVIOUS
<1>0. /\ prop \in [Objects -> [Keys -> Prefs!Values]] /\ events \in [Objects -> Notices]
      /\ \A o \in Writable, k \in Keys : prop[o][k] \in Prefs!Valid
      /\ is_delayed \in [Objects -> BOOLEAN]
  BY DEF PrefsInv, PrefsType
<1>1. ASSUME NEW o \in Objects, Prefs!delay(o) PROVE PrefsInv'
  BY <1>0, <1>1 DEF Prefs!delay, PrefsInv, PrefsType, Agrees
<1>2. ASSUME NEW o \in Objects, Prefs!apply(o) PROVE PrefsInv'
  <2>1. /\ is_delayed' = [is_delayed EXCEPT ![o] = FALSE] /\ is_delayed'[o] = FALSE
        /\ prop' = prop /\ prop' = [prop EXCEPT ![o] = prop[o]]
    BY <1>0, <1>2 DEF Prefs!apply
  <2>2. CASE is_changed[o]
    <3>1. Prefs!save_prefs(o, prop[o], is_delayed'[o], events)
      BY <1>2, <2>1, <2>2 DEF Prefs!apply
    <3>2. /\ prop[o] \in [Keys -> Prefs!Values] /\ (o \in Writable => prop[o] \in [Keys -> Prefs!Valid])
          /\ is_delayed' \in [Objects -> BOOLEAN]
          /\ \A q \in Objects \ {o} : is_delayed'[q] = is_delayed[q]
      BY <1>0, <2>1
    <3>3. QED BY <1>0, <2>1, <3>1, <3>2, SaveKeepsInv
  <2>3. CASE ~is_changed[o]
    <3>1. UNCHANGED <<file, events, is_changed, told>>
      BY <1>2, <2>3 DEF Prefs!apply
    <3>2. QED BY <1>0, <2>1, <2>3, <3>1 DEF PrefsInv, PrefsType, Agrees
  <2>4. QED BY <2>2, <2>3
<1>3. ASSUME NEW o \in Objects, Prefs!delete(o) PROVE PrefsInv'
  <2>1. /\ {is_delayed', is_changed'} \subseteq [Objects -> BOOLEAN]
        /\ \A q \in Objects : is_changed'[q] => is_delayed'[q] /\ is_changed[q]
        /\ UNCHANGED <<prop, told>>
    BY <1>3 DEF Prefs!delete, PrefsInv, PrefsType
  <2>2. CASE file = Prefs!Absent
    <3>1. UNCHANGED <<file, events>> /\ file.text # "keys"
      BY <1>3, <2>2 DEF Prefs!delete, Prefs!Absent, Prefs!Text
    <3>2. QED BY <2>1, <3>1 DEF PrefsInv, PrefsType
  <2>3. CASE file # Prefs!Absent
    <3>1. Prefs!Removed
      BY <1>3, <2>3 DEF Prefs!delete
    <3>2. QED BY <2>1, <3>1, RemovedKeepsInv
  <2>4. QED BY <2>2, <2>3
<1>4. ASSUME NEW o \in Objects, NEW k \in Keys, NEW v \in Prefs!Values, Prefs!Set(o, k, v)
      PROVE  PrefsInv'
  <2> DEFINE p == [prop[o] EXCEPT ![k] = IF o \in Writable THEN Prefs!verify(v) ELSE v]
  <2>1. /\ p \in [Keys -> Prefs!Values] /\ (o \in Writable => p \in [Keys -> Prefs!Valid])
    <3>1. (IF o \in Writable THEN Prefs!verify(v) ELSE v) \in Prefs!Values
          /\ Prefs!verify(v) \in Prefs!Valid
      BY DEF Prefs!Values, Prefs!Valid, Prefs!verify
    <3>2. QED BY <1>0, <3>1
  <2>2. prop' = [prop EXCEPT ![o] = p] /\ prop'[o] = p
    BY <1>0, <1>4 DEF Prefs!Set
  <2>3. is_delayed' = is_delayed /\ Prefs!save_prefs(o, p, is_delayed'[o], events)
    BY <1>4, <2>2 DEF Prefs!Set
  <2> HIDE DEF p
  <2>4. QED BY <1>0, <2>1, <2>2, <2>3, SaveKeepsInv
<1>5. CASE Prefs!Remove
  <2>1. Prefs!Removed /\ UNCHANGED <<prop, told, is_delayed, is_changed>>
    BY <1>5 DEF Prefs!Remove
  <2>2. QED BY <2>1, RemovedKeepsInv DEF PrefsInv, PrefsType
<1>6. CASE Prefs!Edit(Prefs!Text("garbage"))
  <2>1. /\ Prefs!Text("garbage") \in [text : {"keys", "absent", "garbage"}, keys : Prefs!Contents]
        /\ Prefs!Text("garbage") # Prefs!Absent
    BY DEF Prefs!Text, Prefs!Contents, Prefs!Absent
  <2>2. QED BY <1>6, <2>1, EditKeepsInv
<1>7. ASSUME NEW c \in Prefs!Contents, Prefs!Edit(Prefs!Saved(c)) PROVE PrefsInv'
  <2>1. /\ Prefs!Saved(c) \in [text : {"keys", "absent", "garbage"}, keys : Prefs!Contents]
        /\ Prefs!Saved(c) # Prefs!Absent
    BY DEF Prefs!Text, Prefs!Saved, Prefs!Absent
  <2>2. QED BY <1>7, <2>1, EditKeepsInv
<1>8. CASE UNCHANGED Prefs!vars
  BY <1>8 DEF Prefs!vars, PrefsInv, PrefsType, Agrees
<1>9. QED
  BY <1>1, <1>2, <1>3, <1>4, <1>5, <1>6, <1>7, <1>8, NoticeKeepsInv DEF Prefs!Next

LEMMA PrefsInvCorrect == Prefs!Spec => []PrefsInv
<1>1. Prefs!Init => PrefsInv
  <2> SUFFICES ASSUME Prefs!Init PROVE PrefsInv
    OBVIOUS
  <2>1. /\ file \in [text : {"keys", "absent", "garbage"}, keys : Prefs!Contents]
        /\ file.text = "keys" /\ \A k \in Keys : file.keys[k] = "default"
    BY DEF Prefs!Init, Prefs!Saved, Prefs!Contents, Prefs!Values, Prefs!Valid
  <2>2. events \in [Objects -> Notices]
    BY DEF Prefs!Init, Notices
  <2>3. PrefsType
    BY <2>1, <2>2, PreferencesAssumption DEF Prefs!Init, PrefsType, Prefs!Values, Prefs!Valid
  <2>4. \A o \in Objects : Agrees(o)
    BY <2>1 DEF Prefs!Init, Agrees, Prefs!verify
  <2>5. QED
    BY <2>1, <2>3, <2>4, PreferencesAssumption
       DEF Prefs!Init, PrefsInv, Prefs!Absent, Prefs!Text, Prefs!Saved
<1>2. QED BY <1>1, PrefsStep, PTL DEF Prefs!Spec

\* Objects on one file agree once nothing is on the way, and about whether there
\* is a file.
THEOREM PrefsCorrect == Prefs!Spec => []PrefsAgree
<1>1. PrefsInv => PrefsAgree
  <2> SUFFICES ASSUME PrefsInv PROVE Prefs!Converged /\ Prefs!OwnerTold
    BY DEF PrefsAgree
  <2>1. ASSUME NEW o \in Writable, ~is_delayed[o], events[o] = <<>>, file.text = "keys"
        PROVE  Agrees(o)
    <3>1. o \in Objects /\ ~is_changed[o] /\ ~Notified(events[o])
      BY <2>1, PreferencesAssumption DEF PrefsInv, Notified
    <3>2. QED BY <2>1, <3>1 DEF PrefsInv
  <2>2. QED BY <2>1 DEF PrefsInv, Agrees, Prefs!Converged, Prefs!OwnerTold
<1>2. QED BY <1>1, PrefsInvCorrect, PTL

\* A notice about the time before the deletion does not bring the file back.
THEOREM DeletedCorrect == Prefs!Spec => PrefsNoResurrection
<1>1. ASSUME PrefsInv, NEW o \in Objects, Prefs!backing_file_changed(o), file = Prefs!Absent
      PROVE  file' = Prefs!Absent
  <2>1. file.text # "keys" /\ ~(is_changed[o] /\ ~is_delayed[o])
    BY <1>1 DEF PrefsInv, Prefs!Absent, Prefs!Text
  <2>2. QED BY <1>1, <2>1 DEF Prefs!backing_file_changed, Prefs!load_prefs
<1>2. PrefsInv => [file = Prefs!Absent /\ (\E o \in Objects : Prefs!backing_file_changed(o))
                     => file' = Prefs!Absent]_Prefs!vars
  BY <1>1
<1>3. QED BY <1>2, PrefsInvCorrect, PTL DEF PrefsNoResurrection, Prefs!NoResurrection
-----------------------------------------------------------------------------
(* Unity: badges and progress bars of pinned items                         *)

Pinned == 1..Len(PinnedUris)
UrisOf(s) == {p.uri : p \in Says[s]}

\* Every program updates one pinned item, which no other program does.
OwnItems ==
  /\ \A s \in Senders : \A u \in UrisOf(s) :
       /\ \A v \in UrisOf(s) : v = u
       /\ \E k \in Pinned : PinnedUris[k] = u
  /\ \A s, t \in Senders : s # t => UrisOf(s) \cap UrisOf(t) = {}

\* The item that s updates: the first one with its uri.
Slot(s, k) ==
  /\ k \in Pinned /\ PinnedUris[k] \in UrisOf(s)
  /\ \A j \in Pinned : j < k => PinnedUris[j] # PinnedUris[k]

Items == [uri : Uris, kind : {"pinned", "transient"}, app : BOOLEAN,
          sender : Senders \cup {NoSender}, shown : SUBSET Marks]
Messages == Requests \cup [sender : Senders, uri : {"lost"}, on : {{}}, off : {{}}]

\* The pinned items stay in front; those behind them are of applications.
ItemsType(q) ==
  /\ q \in Seq(Items) /\ Len(PinnedUris) <= Len(q)
  /\ \A k \in Pinned : q[k].uri = PinnedUris[k] /\ q[k].kind = "pinned"
  /\ \A k \in DOMAIN q :
       k \notin Pinned => q[k].kind = "transient" /\ q[k].app /\ q[k].sender = NoSender
  /\ \A k \in DOMAIN q : q[k].sender = NoSender => q[k].shown = {}
  /\ \A k \in DOMAIN q, s \in Senders : q[k].sender = s => Slot(s, k)

Own(m) == m.uri \in UrisOf(m.sender)

Throttled(s) == entry[s] # NoEntry /\ entry[s].timer

UnityType ==
  /\ ItemsType(items)
  /\ channel \in Seq(Messages) /\ retries = <<>>
  /\ entry \in [Senders -> Entries \cup {NoEntry}]
  /\ alive \in [Senders -> BOOLEAN]
  /\ meant \in [Senders -> SUBSET Marks] /\ lost \in [Senders -> SUBSET Marks]
  /\ waits \in [Senders -> SUBSET Marks]
  /\ \A k \in DOMAIN channel :
       IF channel[k].uri = "lost" THEN ~alive[channel[k].sender] ELSE Own(channel[k])
  /\ \A s \in Senders :
       entry[s] # NoEntry => /\ entry[s].params.sender = s /\ Own(entry[s].params)
                             /\ entry[s].timer => entry[s].age # "expired"
  /\ \A s \in Senders :
       waits[s] # {} => Throttled(s) /\ waits[s] \subseteq Mentions(entry[s].params)

\* The update m of s leaves the property as the set says.
Tells(m, s, mark) == m.sender = s /\ mark \in Mentions(m)
Leaves(m, mark, set) == mark \in Merge({}, m) <=> mark \in set

NoneTells(q, s, mark) == \A k \in DOMAIN q : ~Tells(q[k], s, mark)
LastTells(q, s, mark, set) ==
  \E k \in DOMAIN q : /\ Tells(q[k], s, mark) /\ Leaves(q[k], mark, set)
                      /\ \A j \in DOMAIN q : j > k => ~Tells(q[j], s, mark)
Lit(q, s, mark) == \E k \in DOMAIN q : q[k].sender = s /\ mark \in q[k].shown

\* The last update of s that mentions the property is on the bus; or what the
\* throttle keeps does not contradict it, and it waits there, or was lost there,
\* or is shown.
Followed(s, mark) ==
  \/ LastTells(channel, s, mark, meant[s])
  \/ /\ NoneTells(channel, s, mark)
     /\ Throttled(s) /\ mark \in Mentions(entry[s].params)
        => Leaves(entry[s].params, mark, meant[s])
     /\ \/ mark \in lost[s]
        \/ mark \in waits[s]
        \/ Lit(items, s, mark) <=> mark \in meant[s]

UnityInv ==
  UnityType /\ \A s \in Senders, mark \in Marks : alive[s] => Followed(s, mark)

LEMMA LostIsNot == \A r \in Requests : r.uri # "lost"
BY UnityAssumption DEF Requests

\* What a merge does to one property.
LEMMA MergeFacts ==
  ASSUME NEW m, NEW shown, NEW mark
  PROVE  /\ mark \in Mentions(m) => (mark \in Merge(shown, m) <=> mark \in Merge({}, m))
         /\ mark \notin Mentions(m) => (mark \in Merge(shown, m) <=> mark \in shown)
BY DEF Mentions, Merge

LEMMA SlotsDiffer ==
  ASSUME OwnItems, NEW s \in Senders, NEW t \in Senders, NEW k \in Pinned, Slot(s, k), Slot(t, k)
  PROVE  s = t
BY DEF OwnItems, Slot

LEMMA OneSlot ==
  ASSUME OwnItems, NEW s \in Senders, NEW k \in Pinned, NEW j \in Pinned, Slot(s, k), Slot(s, j)
  PROVE  k = j
<1>1. PinnedUris[k] = PinnedUris[j]
  BY DEF OwnItems, Slot
<1>2. ~(j < k) /\ ~(k < j)
  BY <1>1 DEF Slot
<1>3. QED BY <1>2 DEF Pinned

\* An update finds the program's item.
LEMMA TargetIsSlot ==
  ASSUME OwnItems, ItemsType(items), NEW s \in Senders, NEW u \in UrisOf(s)
  PROVE  \E k \in Pinned : Slot(s, k) /\ Target(s, u) = k
<1> DEFINE same == {k \in DOMAIN items : items[k].uri = u}
           T == {k \in Pinned : PinnedUris[k] = u}
<1>1. PICK k \in T : \A j \in T : k <= j
  <2>1. T \subseteq Nat /\ T # {}
    BY DEF OwnItems, Pinned
  <2> HIDE DEF T
  <2>2. QED BY <2>1, SmallestNumber
<1>2. Len(PinnedUris) \in Nat /\ Len(items) \in Nat /\ DOMAIN items = 1..Len(items)
  BY UnityAssumption DEF ItemsType
<1>3. k \in Pinned /\ Slot(s, k)
  <2>1. \A j \in Pinned : j < k => PinnedUris[j] # PinnedUris[k]
    BY <1>1 DEF Pinned
  <2>2. QED BY <1>1, <2>1 DEF Slot
<1>4. k \in same
  BY <1>1, <1>2 DEF ItemsType, Pinned
<1>5. \A j \in same : k <= j
  <2> SUFFICES ASSUME NEW j \in same, j < k PROVE FALSE
    BY <1>2, <1>3 DEF Pinned
  <2>1. j \in Pinned /\ PinnedUris[j] = u
    BY <1>2, <1>3 DEF ItemsType, Pinned
  <2>2. QED BY <1>1, <2>1 DEF Pinned
<1>6. Min(same) = k
  <2>1. \A j \in same : (\A i \in same : j <= i) => j = k
    BY <1>2, <1>4, <1>5
  <2> HIDE DEF same
  <2>2. QED BY <1>4, <1>5, <2>1 DEF Min
<1>7. Target(s, u) = k
  BY <1>4, <1>6 DEF Target
<1>8. QED BY <1>3, <1>7

\* A step that changes what one item shows, or that it has an application.
LEMMA ChangedItem ==
  ASSUME ItemsType(items), NEW k \in DOMAIN items, NEW i \in Items,
         i.uri = items[k].uri, i.kind = items[k].kind,
         k \notin Pinned => i.app /\ i.sender = NoSender, i.sender = NoSender => i.shown = {},
         \A s \in Senders : i.sender = s => Slot(s, k)
  PROVE  LET q == [items EXCEPT ![k] = i] IN
         /\ ItemsType(q) /\ Len(q) = Len(items) /\ q[k] = i
         /\ \A j \in DOMAIN items : j # k => q[j] = items[j]
<1> DEFINE q == [items EXCEPT ![k] = i]
<1>1. q \in Seq(Items) /\ Len(q) = Len(items) /\ DOMAIN q = DOMAIN items
  BY DEF ItemsType
<1>2. q[k] = i /\ \A j \in DOMAIN items : j # k => q[j] = items[j]
  BY DEF ItemsType
<1> HIDE DEF q
<1>3. \A j \in Pinned : j \in DOMAIN items
  BY UnityAssumption DEF ItemsType, Pinned
<1>4. \A j \in Pinned : q[j].uri = PinnedUris[j] /\ q[j].kind = "pinned"
  BY <1>2, <1>3 DEF ItemsType
<1>5. \A j \in DOMAIN q : j \notin Pinned => /\ q[j].kind = "transient" /\ q[j].app
                                             /\ q[j].sender = NoSender
  BY <1>1, <1>2 DEF ItemsType
<1>6. \A j \in DOMAIN q, s \in Senders : q[j].sender = s => Slot(s, j)
  BY <1>1, <1>2 DEF ItemsType
<1>7. \A j \in DOMAIN q : q[j].sender = NoSender => q[j].shown = {}
  BY <1>1, <1>2 DEF ItemsType
<1>8. QED BY <1>1, <1>2, <1>4, <1>5, <1>6, <1>7 DEF ItemsType, q

\* What t shows is not touched by a change of an item that is not its own, nor by
\* one that leaves the item's sender and what it shows.
LEMMA OthersLit ==
  ASSUME NEW k \in DOMAIN items, NEW q, DOMAIN q = DOMAIN items,
         \A j \in DOMAIN items : j # k => q[j] = items[j], NEW t, NEW mark,
         \/ items[k].sender # t /\ q[k].sender # t
         \/ q[k].sender = items[k].sender /\ q[k].shown = items[k].shown
  PROVE  Lit(q, t, mark) <=> Lit(items, t, mark)
BY DEF Lit

SameLit(t) == \A mark : Lit(items', t, mark) <=> Lit(items, t, mark)

\* update_launcher_entry of an update for the program's own item.
LEMMA UpdateFacts ==
  ASSUME OwnItems, ItemsType(items), retries = <<>>,
         NEW u \in Requests, Own(u), update_launcher_entry(u, FALSE, retries)
  PROVE  /\ ItemsType(items') /\ retries' = <<>>
         /\ \A mark \in Mentions(u) : Lit(items', u.sender, mark) <=> mark \in Merge({}, u)
         /\ \A mark : mark \notin Mentions(u)
                      => (Lit(items', u.sender, mark) <=> Lit(items, u.sender, mark))
         /\ \A t \in Senders \ {u.sender} : SameLit(t)
<1> DEFINE s == u.sender
<1>1. s \in Senders /\ u.uri \in UrisOf(s) /\ u.on \subseteq Marks /\ u.off \subseteq Marks
  BY DEF Requests, Own
<1>2. PICK k \in Pinned : Slot(s, k) /\ Target(s, u.uri) = k
  BY <1>1, TargetIsSlot
<1>3. k \in DOMAIN items /\ k # 0 /\ items[k].kind = "pinned" /\ items[k] \in Items
  BY UnityAssumption DEF ItemsType, Pinned
<1> DEFINE i == [items[k] EXCEPT !.sender = s, !.shown = Merge(@, u)]
<1>4. items' = [items EXCEPT ![k] = i] /\ retries' = retries
  BY <1>2, <1>3 DEF update_launcher_entry, Apply
<1>5. /\ i \in Items /\ i.uri = items[k].uri /\ i.kind = items[k].kind
      /\ i.sender = s /\ i.shown = Merge(items[k].shown, u)
  <2>1. Merge(items[k].shown, u) \subseteq Marks
    BY <1>1, <1>3 DEF Items, Merge
  <2>2. QED BY <1>1, <1>3, <2>1 DEF Items
<1> HIDE DEF i
<1>6. (\A t \in Senders : i.sender = t => Slot(t, k)) /\ i.sender # NoSender
  BY <1>1, <1>2, <1>5, UnityAssumption
<1>7. /\ ItemsType(items') /\ Len(items') = Len(items) /\ items'[k] = i
      /\ \A j \in DOMAIN items : j # k => items'[j] = items[j]
  BY <1>3, <1>4, <1>5, <1>6, ChangedItem
<1>8. DOMAIN items' = DOMAIN items
  BY <1>4
<1>9. \A j \in DOMAIN items : items[j].sender = s => j = k
  <2>1. \A j \in DOMAIN items : items[j].sender = s => Slot(s, j) /\ j \in Pinned
    BY <1>1 DEF ItemsType, Slot
  <2>2. QED BY <1>1, <1>2, <2>1, OneSlot
<1>10. \A mark : Lit(items', s, mark) <=> mark \in Merge(items[k].shown, u)
  <2>1. \A j \in DOMAIN items' : items'[j].sender = s <=> j = k
    BY <1>3, <1>5, <1>7, <1>8, <1>9
  <2>2. QED BY <1>3, <1>5, <1>7, <1>8, <2>1 DEF Lit
<1>11. \A mark : Lit(items, s, mark) <=> mark \in items[k].shown
  <2>1. items[k].sender = s \/ items[k].sender = NoSender
    <3>1. items[k].sender \in Senders \cup {NoSender}
      BY <1>3 DEF Items
    <3>2. ASSUME items[k].sender \in Senders PROVE items[k].sender = s
      <4>1. Slot(items[k].sender, k)
        BY <1>3, <3>2 DEF ItemsType
      <4>2. QED BY <1>1, <1>2, <3>2, <4>1, SlotsDiffer
    <3>3. QED BY <3>1, <3>2
  <2>2. items[k].sender = NoSender => items[k].shown = {}
    BY <1>3 DEF ItemsType
  <2>3. QED BY <1>3, <1>9, <2>1, <2>2 DEF Lit
<1>12. ASSUME NEW t \in Senders \ {s} PROVE SameLit(t)
  <2>1. items[k].sender # t /\ items'[k].sender # t
    BY <1>1, <1>2, <1>3, <1>5, <1>7, <1>12, SlotsDiffer DEF ItemsType
  <2>2. ASSUME NEW mark PROVE Lit(items', t, mark) <=> Lit(items, t, mark)
    BY <1>3, <1>7, <1>8, <2>1, OthersLit
  <2>3. QED BY <2>2 DEF SameLit
<1>13. ASSUME NEW mark \in Mentions(u) PROVE Lit(items', s, mark) <=> mark \in Merge({}, u)
  BY <1>10, <1>13, MergeFacts
<1>14. ASSUME NEW mark, mark \notin Mentions(u)
       PROVE  Lit(items', s, mark) <=> Lit(items, s, mark)
  BY <1>10, <1>11, <1>14, MergeFacts
<1>15. QED BY <1>4, <1>7, <1>12, <1>13, <1>14

\* remove_launcher_entry
LEMMA RemoveFacts ==
  ASSUME OwnItems, ItemsType(items), NEW s \in Senders, remove_launcher_entry(s)
  PROVE  ItemsType(items') /\ \A t \in Senders \ {s} : SameLit(t)
<1> DEFINE mine == {k \in DOMAIN items : items[k].sender = s}
<1>1. CASE mine = {}
  BY <1>1 DEF remove_launcher_entry, SameLit
<1>2. CASE mine # {}
  <2>1. PICK k \in mine : TRUE
    BY <1>2
  <2>2. k \in Pinned /\ Slot(s, k) /\ k \in DOMAIN items /\ items[k].sender = s
    BY <2>1 DEF ItemsType, Slot
  <2>3. mine = {k}
    BY <2>2, OneSlot DEF ItemsType, Slot
  <2>4. Min(mine) = k
    <3>1. k \in Nat
      BY <2>2 DEF Pinned
    <3> HIDE DEF mine
    <3>2. QED BY <2>3, <3>1 DEF Min
  <2> DEFINE i == [items[k] EXCEPT !.sender = NoSender, !.shown = {}]
  <2>5. items[k] \in Items /\ items[k].kind = "pinned"
    BY <2>2 DEF ItemsType
  <2>6. items' = [items EXCEPT ![k] = i]
    <3>1. items' = [items EXCEPT ![k].sender = NoSender, ![k].shown = {}]
      BY <1>2, <2>4, <2>5 DEF remove_launcher_entry
    <3>2. QED BY <3>1
  <2>7. /\ i \in Items /\ i.uri = items[k].uri /\ i.kind = items[k].kind
        /\ i.sender = NoSender /\ i.shown = {}
    BY <2>5 DEF Items
  <2> HIDE DEF i, mine
  <2>8. /\ ItemsType(items') /\ Len(items') = Len(items) /\ items'[k] = i
        /\ \A j \in DOMAIN items : j # k => items'[j] = items[j]
    <3>1. \A t \in Senders : i.sender = t => Slot(t, k)
      BY <2>7, UnityAssumption
    <3>2. QED BY <2>2, <2>6, <2>7, <3>1, ChangedItem
  <2>9. DOMAIN items' = DOMAIN items
    BY <2>6
  <2>10. ASSUME NEW t \in Senders \ {s} PROVE SameLit(t)
    <3>1. items[k].sender # t /\ items'[k].sender # t
      BY <2>2, <2>7, <2>8, UnityAssumption
    <3>2. ASSUME NEW mark PROVE Lit(items', t, mark) <=> Lit(items, t, mark)
      BY <2>2, <2>8, <2>9, <3>1, OthersLit
    <3>3. QED BY <3>2 DEF SameLit
  <2>11. QED BY <2>8, <2>10
<1>3. QED BY <1>1, <1>2

\* Applications that start and stop change no badge.
LEMMA OpensFacts ==
  ASSUME ItemsType(items), NEW uri \in Uris, AppOpens(uri)
  PROVE  ItemsType(items') /\ \A t \in Senders : SameLit(t)
<1> DEFINE known == {k \in DOMAIN items : items[k].uri = uri}
<1>1. CASE known # {}
  <2> DEFINE k == Min(known)
  <2>1. k \in known
    <3>1. known \subseteq Nat
      BY DEF ItemsType
    <3> HIDE DEF known
    <3>2. PICK n \in known : \A m \in known : n <= m
      BY <1>1, <3>1, SmallestNumber
    <3>3. QED BY <3>2 DEF Min
  <2> DEFINE i == [items[k] EXCEPT !.app = TRUE]
  <2>2. k \in DOMAIN items /\ items[k] \in Items
    BY <2>1 DEF ItemsType
  <2>3. items' = [items EXCEPT ![k] = i]
    BY <1>1 DEF AppOpens
  <2> HIDE DEF known, k
  <2>4. /\ i \in Items /\ i.uri = items[k].uri /\ i.kind = items[k].kind /\ i.app
        /\ i.sender = items[k].sender /\ i.shown = items[k].shown
    BY <2>2 DEF Items
  <2> HIDE DEF i
  <2>5. /\ k \notin Pinned => i.app /\ i.sender = NoSender
        /\ i.sender = NoSender => i.shown = {}
        /\ \A s \in Senders : i.sender = s => Slot(s, k)
    BY <2>2, <2>4 DEF ItemsType
  <2>6. /\ ItemsType(items') /\ Len(items') = Len(items) /\ items'[k] = i
        /\ \A j \in DOMAIN items : j # k => items'[j] = items[j]
    BY <2>2, <2>3, <2>4, <2>5, ChangedItem
  <2>7. DOMAIN items' = DOMAIN items
    BY <2>3
  <2>8. ASSUME NEW t \in Senders, NEW mark PROVE Lit(items', t, mark) <=> Lit(items, t, mark)
    BY <2>2, <2>4, <2>6, <2>7, OthersLit
  <2>9. QED BY <2>6, <2>8 DEF SameLit
<1>2. CASE known = {}
  <2> DEFINE i == [uri |-> uri, kind |-> "transient", app |-> TRUE,
                   sender |-> NoSender, shown |-> {}]
  <2>1. i \in Items /\ items' = Append(items, i)
    BY <1>2 DEF AppOpens, Items
  <2>2. i.kind = "transient" /\ i.app /\ i.sender = NoSender /\ i.shown = {}
    OBVIOUS
  <2> HIDE DEF i, known
  <2>3. /\ items' \in Seq(Items) /\ Len(items') = Len(items) + 1 /\ items'[Len(items) + 1] = i
        /\ \A k \in 1..Len(items) : items'[k] = items[k]
    BY <2>1 DEF ItemsType
  <2>4. /\ Len(PinnedUris) \in Nat /\ Len(items) \in Nat /\ Len(PinnedUris) <= Len(items)
        /\ DOMAIN items = 1..Len(items) /\ DOMAIN items' = 1..Len(items) + 1
    BY <2>3, UnityAssumption DEF ItemsType
  <2>5. \A k \in Pinned : k \in 1..Len(items)
    BY <2>4 DEF Pinned
  <2>6. \A k \in DOMAIN items' : k \in DOMAIN items \/ k = Len(items) + 1
    BY <2>4
  <2>7. \A k \in Pinned : items'[k].uri = PinnedUris[k] /\ items'[k].kind = "pinned"
    BY <2>3, <2>5 DEF ItemsType
  <2>8. \A k \in DOMAIN items' :
          k \notin Pinned => /\ items'[k].kind = "transient" /\ items'[k].app
                             /\ items'[k].sender = NoSender
    BY <2>2, <2>3, <2>4, <2>6 DEF ItemsType
  <2>9. \A k \in DOMAIN items', s \in Senders : items'[k].sender = s => Slot(s, k)
    BY <2>2, <2>3, <2>4, <2>6, UnityAssumption DEF ItemsType
  <2>10. \A k \in DOMAIN items' : items'[k].sender = NoSender => items'[k].shown = {}
    BY <2>2, <2>3, <2>4, <2>6 DEF ItemsType
  <2>11. ItemsType(items')
    BY <2>3, <2>4, <2>7, <2>8, <2>9, <2>10 DEF ItemsType
  <2>12. ASSUME NEW t \in Senders, NEW mark PROVE Lit(items', t, mark) <=> Lit(items, t, mark)
    <3>1. \A k \in DOMAIN items : k \in DOMAIN items' /\ items'[k] = items[k]
      BY <2>3, <2>4
    <3>2. mark \notin items'[Len(items) + 1].shown
      BY <2>2, <2>3
    <3>3. QED BY <2>6, <3>1, <3>2 DEF Lit
  <2>13. QED BY <2>11, <2>12 DEF SameLit
<1>3. QED BY <1>1, <1>2

LEMMA ClosesFacts ==
  ASSUME ItemsType(items), NEW k \in DOMAIN items, AppCloses(k)
  PROVE  ItemsType(items') /\ \A t \in Senders : SameLit(t)
<1>0. /\ items \in Seq(Items) /\ DOMAIN items = 1..Len(items) /\ Len(items) \in Nat
      /\ Len(PinnedUris) \in Nat /\ Len(PinnedUris) <= Len(items) /\ items[k] \in Items
      /\ k \in 1..Len(items)
  BY UnityAssumption DEF ItemsType
<1>1. CASE items[k].kind = "transient" /\ items[k].shown = {}
  <2> DEFINE q == RemoveAt(items, k)
  <2>1. items' = q
    BY <1>1 DEF AppCloses
  <2>2. /\ q \in Seq(Items) /\ Len(q) = Len(items) - 1
        /\ \A j \in 1..k - 1 : q[j] = items[j]
        /\ \A j \in k..Len(items) - 1 : q[j] = items[j + 1]
    BY <1>0, RemoveAtFacts
  <2> HIDE DEF q
  <2>3. k \notin Pinned /\ k > Len(PinnedUris) /\ items[k].sender = NoSender
    BY <1>0, <1>1 DEF ItemsType, Pinned
  <2>4. DOMAIN q = 1..Len(items) - 1
    BY <2>2
  <2>5. \A j \in Pinned : q[j].uri = PinnedUris[j] /\ q[j].kind = "pinned"
    BY <1>0, <2>2, <2>3 DEF ItemsType, Pinned
  <2>6. \A j \in DOMAIN q : \/ j < k /\ q[j] = items[j] /\ j \in DOMAIN items
                            \/ j >= k /\ q[j] = items[j + 1] /\ j + 1 \in DOMAIN items
    BY <1>0, <2>2, <2>4
  <2>7. \A j \in DOMAIN q : j >= k => j \notin Pinned /\ j + 1 \notin Pinned
    BY <1>0, <2>3, <2>4 DEF Pinned
  <2>8. \A j \in DOMAIN q :
          j \notin Pinned => q[j].kind = "transient" /\ q[j].app /\ q[j].sender = NoSender
    BY <2>6, <2>7 DEF ItemsType
  <2>9. ASSUME NEW j \in DOMAIN q, NEW s \in Senders, q[j].sender = s PROVE Slot(s, j)
    <3>1. j \in Pinned
      BY <2>8, <2>9, UnityAssumption
    <3>2. j < k /\ q[j] = items[j] /\ j \in DOMAIN items
      BY <2>6, <2>7, <3>1
    <3>3. QED BY <2>9, <3>2 DEF ItemsType
  <2>10. \A j \in DOMAIN q : q[j].sender = NoSender => q[j].shown = {}
    BY <2>6 DEF ItemsType
  <2>11. ItemsType(q)
    BY <1>0, <2>2, <2>3, <2>5, <2>8, <2>9, <2>10 DEF ItemsType
  <2>12. ASSUME NEW t \in Senders, NEW mark PROVE Lit(q, t, mark) <=> Lit(items, t, mark)
    <3>1. ASSUME Lit(items, t, mark) PROVE Lit(q, t, mark)
      <4>1. PICK j \in DOMAIN items : items[j].sender = t /\ mark \in items[j].shown
        BY <3>1 DEF Lit
      <4>2. j \in Pinned
        BY <4>1, UnityAssumption DEF ItemsType, Slot
      <4>3. j \in DOMAIN q /\ q[j] = items[j]
        BY <1>0, <2>2, <2>3, <2>4, <4>2 DEF Pinned
      <4>4. QED BY <4>1, <4>3 DEF Lit
    <3>2. ASSUME Lit(q, t, mark) PROVE Lit(items, t, mark)
      BY <2>6, <3>2 DEF Lit
    <3>3. QED BY <3>1, <3>2
  <2>13. QED BY <2>1, <2>11, <2>12 DEF SameLit
<1>2. CASE ~(items[k].kind = "transient" /\ items[k].shown = {})
  <2> DEFINE i == [items[k] EXCEPT !.app = FALSE]
  <2>1. items' = [items EXCEPT ![k] = i]
    BY <1>2 DEF AppCloses
  <2>2. /\ i \in Items /\ i.uri = items[k].uri /\ i.kind = items[k].kind
        /\ i.sender = items[k].sender /\ i.shown = items[k].shown
    BY <1>0 DEF Items
  <2> HIDE DEF i
  <2>3. k \in Pinned /\ (\A s \in Senders : i.sender = s => Slot(s, k))
        /\ (i.sender = NoSender => i.shown = {})
    BY <1>0, <1>2, <2>2 DEF ItemsType
  <2>4. /\ ItemsType(items') /\ Len(items') = Len(items) /\ items'[k] = i
        /\ \A j \in DOMAIN items : j # k => items'[j] = items[j]
    BY <2>1, <2>2, <2>3, ChangedItem
  <2>5. DOMAIN items' = DOMAIN items
    BY <2>1
  <2>6. ASSUME NEW t \in Senders, NEW mark PROVE Lit(items', t, mark) <=> Lit(items, t, mark)
    BY <2>2, <2>4, <2>5, OthersLit
  <2>7. QED BY <2>4, <2>6 DEF SameLit
<1>3. QED BY <1>1, <1>2

-----------------------------------------------------------------------------
(* Unity: what is on the bus                                               *)

LEMMA TailLast ==
  ASSUME NEW q \in Seq(Messages), q # <<>>, NEW s, NEW mark, NEW set, LastTells(q, s, mark, set)
  PROVE  \/ Tells(Head(q), s, mark) /\ Leaves(Head(q), mark, set) /\ NoneTells(Tail(q), s, mark)
         \/ LastTells(Tail(q), s, mark, set)
<1>1. PICK k \in DOMAIN q : /\ Tells(q[k], s, mark) /\ Leaves(q[k], mark, set)
                            /\ \A j \in DOMAIN q : j > k => ~Tells(q[j], s, mark)
  BY DEF LastTells
<1>2. /\ Tail(q) \in Seq(Messages) /\ DOMAIN Tail(q) = 1..Len(q) - 1 /\ Head(q) = q[1]
      /\ \A j \in DOMAIN Tail(q) : Tail(q)[j] = q[j + 1] /\ j + 1 \in DOMAIN q
      /\ DOMAIN q = 1..Len(q) /\ Len(q) \in Nat
  OBVIOUS
<1>3. CASE k = 1
  BY <1>1, <1>2, <1>3 DEF NoneTells
<1>4. CASE k # 1
  <2>1. k - 1 \in DOMAIN Tail(q) /\ Tail(q)[k - 1] = q[k]
    BY <1>1, <1>2, <1>4
  <2>2. \A j \in DOMAIN Tail(q) : j > k - 1 => ~Tells(Tail(q)[j], s, mark)
    BY <1>1, <1>2
  <2>3. QED BY <1>1, <2>1, <2>2 DEF LastTells
<1>5. QED BY <1>3, <1>4

LEMMA TailNone ==
  ASSUME NEW q \in Seq(Messages), q # <<>>, NEW s, NEW mark, NoneTells(q, s, mark)
  PROVE  NoneTells(Tail(q), s, mark)
BY DEF NoneTells

LEMMA AppendLast ==
  ASSUME NEW q \in Seq(Messages), NEW m \in Messages
  PROVE  /\ \A mark, set : Tells(m, m.sender, mark) /\ Leaves(m, mark, set)
                           => LastTells(Append(q, m), m.sender, mark, set)
         /\ \A s, mark, set : ~Tells(m, s, mark) =>
              /\ LastTells(q, s, mark, set) => LastTells(Append(q, m), s, mark, set)
              /\ NoneTells(q, s, mark) => NoneTells(Append(q, m), s, mark)
<1> DEFINE r == Append(q, m)
<1>1. /\ r \in Seq(Messages) /\ DOMAIN r = 1..Len(q) + 1 /\ r[Len(q) + 1] = m
      /\ \A k \in 1..Len(q) : r[k] = q[k]
      /\ DOMAIN q = 1..Len(q) /\ Len(q) \in Nat
  OBVIOUS
<1> HIDE DEF r
<1>2. \A k \in DOMAIN r : k \in DOMAIN q \/ k = Len(q) + 1
  BY <1>1
<1>3. ASSUME NEW mark, NEW set, Tells(m, m.sender, mark), Leaves(m, mark, set)
      PROVE  LastTells(r, m.sender, mark, set)
  BY <1>1, <1>3 DEF LastTells
<1>4. ASSUME NEW s, NEW mark, NEW set, ~Tells(m, s, mark), LastTells(q, s, mark, set)
      PROVE  LastTells(r, s, mark, set)
  <2>1. PICK k \in DOMAIN q : /\ Tells(q[k], s, mark) /\ Leaves(q[k], mark, set)
                              /\ \A j \in DOMAIN q : j > k => ~Tells(q[j], s, mark)
    BY <1>4 DEF LastTells
  <2>2. k \in DOMAIN r /\ r[k] = q[k]
    BY <1>1, <2>1
  <2>3. \A j \in DOMAIN r : j > k => ~Tells(r[j], s, mark)
    BY <1>1, <1>2, <1>4, <2>1
  <2>4. QED BY <2>1, <2>2, <2>3 DEF LastTells
<1>5. ASSUME NEW s, NEW mark, ~Tells(m, s, mark), NoneTells(q, s, mark) PROVE NoneTells(r, s, mark)
  BY <1>1, <1>2, <1>5 DEF NoneTells
<1>6. QED BY <1>3, <1>4, <1>5 DEF r

\* Only whether the set holds the property matters.
LEMMA SameSet ==
  ASSUME NEW q, NEW s, NEW mark, NEW set, NEW new, mark \in set <=> mark \in new,
         LastTells(q, s, mark, set)
  PROVE  LastTells(q, s, mark, new)
BY DEF LastTells, Leaves

-----------------------------------------------------------------------------
(* Unity: the steps                                                        *)

\* A step that the updates of s do not feel: it may put another message on the bus.
LEMMA NotFelt ==
  ASSUME NEW s \in Senders, NEW mark \in Marks, Followed(s, mark),
         \A set : LastTells(channel, s, mark, set) => LastTells(channel', s, mark, set),
         NoneTells(channel, s, mark) => NoneTells(channel', s, mark),
         Throttled(s)' = Throttled(s), Throttled(s) => entry'[s].params = entry[s].params,
         Lit(items', s, mark) <=> Lit(items, s, mark),
         mark \in meant'[s] <=> mark \in meant[s], mark \in lost'[s] <=> mark \in lost[s],
         mark \in waits'[s] <=> mark \in waits[s]
  PROVE  Followed(s, mark)'
<1>1. CASE LastTells(channel, s, mark, meant[s])
  <2>1. LastTells(channel', s, mark, meant'[s])
    BY <1>1, SameSet
  <2>2. QED BY <2>1 DEF Followed
<1>2. CASE NoneTells(channel, s, mark) /\ ~LastTells(channel, s, mark, meant[s])
  <2>1. Throttled(s)' /\ mark \in Mentions(entry'[s].params)
        => Leaves(entry'[s].params, mark, meant'[s])
    BY <1>2 DEF Followed, Leaves
  <2>2. \/ mark \in lost'[s] \/ mark \in waits'[s]
        \/ Lit(items', s, mark) <=> mark \in meant'[s]
    BY <1>2 DEF Followed
  <2>3. QED BY <1>2, <2>1, <2>2 DEF Followed
<1>3. QED BY <1>1, <1>2 DEF Followed

LEMMA SendKeepsInv ==
  ASSUME OwnItems, UnityInv, NEW s \in Senders, NEW p \in Says[s], Send(s, p)
  PROVE  UnityInv'
<1> DEFINE m == Update(s, p)
<1>1. /\ alive[s] /\ channel' = Append(channel, m)
      /\ meant' = [meant EXCEPT ![s] = Merge(@, p)]
      /\ UNCHANGED <<items, entry, retries, cleanup, alive, waits, lost>>
  BY DEF Send
<1>2. p \in [uri : Uris, on : SUBSET Marks, off : SUBSET Marks] /\ p.uri \in UrisOf(s)
  BY UnityAssumption DEF UrisOf
<1>3. /\ m \in Requests /\ m \in Messages /\ m.sender = s /\ m.uri = p.uri
      /\ m.on = p.on /\ m.off = p.off
  BY <1>2 DEF Update, Requests, Messages
<1>4. Own(m) /\ m.uri # "lost"
  BY <1>2, <1>3, LostIsNot DEF Own
<1>5. /\ channel \in Seq(Messages) /\ meant \in [Senders -> SUBSET Marks]
  BY DEF UnityInv, UnityType
<1>6. /\ meant' \in [Senders -> SUBSET Marks] /\ meant'[s] = Merge(meant[s], m)
      /\ \A t \in Senders \ {s} : meant'[t] = meant[t]
  <2>1. Merge(meant[s], p) \subseteq Marks /\ Merge(meant[s], p) = Merge(meant[s], m)
    BY <1>2, <1>3, <1>5 DEF Merge
  <2>2. QED BY <1>1, <1>5, <2>1
<1> HIDE DEF m
<1>7. /\ channel' \in Seq(Messages)
      /\ \A k \in DOMAIN channel' : IF channel'[k].uri = "lost" THEN ~alive'[channel'[k].sender]
                                    ELSE Own(channel'[k])
  <2>1. channel' \in Seq(Messages) /\ DOMAIN channel' = 1..Len(channel) + 1
        /\ channel'[Len(channel) + 1] = m /\ DOMAIN channel = 1..Len(channel)
        /\ \A k \in 1..Len(channel) : channel'[k] = channel[k]
    BY <1>1, <1>3, <1>5
  <2>2. \A k \in DOMAIN channel' : k \in DOMAIN channel \/ k = Len(channel) + 1
    BY <1>5, <2>1
  <2>3. QED BY <1>1, <1>4, <2>1, <2>2 DEF UnityInv, UnityType
<1>8. UnityType'
  BY <1>1, <1>6, <1>7 DEF UnityInv, UnityType, ItemsType, Own, Slot, UrisOf, Throttled
<1>9. ASSUME NEW mark \in Marks, mark \in Mentions(m) PROVE Followed(s, mark)'
  <2>1. Tells(m, m.sender, mark) /\ Leaves(m, mark, meant'[s])
    BY <1>6, <1>9, MergeFacts DEF Tells, Leaves
  <2>2. LastTells(channel', s, mark, meant'[s])
    BY <1>1, <1>3, <1>5, <2>1, AppendLast
  <2>3. QED BY <2>2 DEF Followed
<1>10. ASSUME NEW t \in Senders, NEW mark \in Marks, alive[t], ~Tells(m, t, mark)
       PROVE  Followed(t, mark)'
  <2>1. Followed(t, mark)
    BY <1>10 DEF UnityInv
  <2>2. mark \in meant'[t] <=> mark \in meant[t]
    BY <1>3, <1>6, <1>10, MergeFacts DEF Tells
  <2>3. \A set : LastTells(channel, t, mark, set) => LastTells(channel', t, mark, set)
    BY <1>1, <1>3, <1>5, <1>10, AppendLast
  <2>4. NoneTells(channel, t, mark) => NoneTells(channel', t, mark)
    BY <1>1, <1>3, <1>5, <1>10, AppendLast
  <2>5. Throttled(t)' = Throttled(t) /\ (Lit(items', t, mark) <=> Lit(items, t, mark))
    BY <1>1 DEF Throttled
  <2>6. QED BY <1>1, <2>1, <2>2, <2>3, <2>4, <2>5, NotFelt
<1>11. \A t \in Senders, mark \in Marks : (alive[t] => Followed(t, mark))'
  BY <1>1, <1>3, <1>9, <1>10 DEF Tells
<1>12. QED BY <1>8, <1>11 DEF UnityInv

LEMMA ExitKeepsInv ==
  ASSUME OwnItems, UnityInv, NEW s \in Senders, Exit(s)
  PROVE  UnityInv'
<1> DEFINE m == [sender |-> s, uri |-> "lost", on |-> {}, off |-> {}]
<1>1. /\ alive' = [alive EXCEPT ![s] = FALSE] /\ channel' = Append(channel, m)
      /\ UNCHANGED <<items, entry, retries, cleanup, meant, waits, lost>>
  BY DEF Exit, said
<1>2. m \in Messages /\ m.sender = s /\ m.uri = "lost" /\ Mentions(m) = {}
  BY DEF Messages, Mentions
<1> HIDE DEF m
<1>3. channel \in Seq(Messages) /\ alive \in [Senders -> BOOLEAN]
  BY DEF UnityInv, UnityType
<1>4. alive' \in [Senders -> BOOLEAN] /\ \A t \in Senders : alive'[t] = (alive[t] /\ t # s)
  BY <1>1, <1>3
<1>5. /\ channel' \in Seq(Messages)
      /\ \A k \in DOMAIN channel' : IF channel'[k].uri = "lost" THEN ~alive'[channel'[k].sender]
                                    ELSE Own(channel'[k])
  <2>1. channel' \in Seq(Messages) /\ DOMAIN channel' = 1..Len(channel) + 1
        /\ channel'[Len(channel) + 1] = m /\ DOMAIN channel = 1..Len(channel)
        /\ \A k \in 1..Len(channel) : channel'[k] = channel[k] /\ channel[k] \in Messages
    BY <1>1, <1>2, <1>3
  <2>2. \A k \in DOMAIN channel' : k \in DOMAIN channel \/ k = Len(channel) + 1
    BY <1>3, <2>1
  <2>3. \A k \in DOMAIN channel : channel[k].sender \in Senders
    BY <2>1 DEF Messages, Requests
  <2>4. QED BY <1>2, <1>4, <2>1, <2>2, <2>3 DEF UnityInv, UnityType
<1>6. UnityType'
  BY <1>1, <1>4, <1>5 DEF UnityInv, UnityType, ItemsType, Own, Slot, UrisOf, Throttled
<1>7. ASSUME NEW t \in Senders, NEW mark \in Marks, alive[t] PROVE Followed(t, mark)'
  <2>1. Followed(t, mark) /\ ~Tells(m, t, mark)
    BY <1>2, <1>7 DEF UnityInv, Tells
  <2>2. \A set : LastTells(channel, t, mark, set) => LastTells(channel', t, mark, set)
    BY <1>1, <1>2, <1>3, <2>1, AppendLast
  <2>3. NoneTells(channel, t, mark) => NoneTells(channel', t, mark)
    BY <1>1, <1>2, <1>3, <2>1, AppendLast
  <2>4. Throttled(t)' = Throttled(t) /\ (Lit(items', t, mark) <=> Lit(items, t, mark))
    BY <1>1 DEF Throttled
  <2>5. QED BY <1>1, <2>1, <2>2, <2>3, <2>4, NotFelt
<1>8. QED BY <1>4, <1>6, <1>7 DEF UnityInv

\* The first message is taken: what holds of the others.
LEMMA RestOfBus ==
  ASSUME UnityType, channel # <<>>, channel' = Tail(channel), alive' = alive
  PROVE  /\ channel' \in Seq(Messages) /\ Head(channel) \in Messages
         /\ IF Head(channel).uri = "lost" THEN ~alive[Head(channel).sender] ELSE Own(Head(channel))
         /\ \A k \in DOMAIN channel' :
              IF channel'[k].uri = "lost" THEN ~alive'[channel'[k].sender] ELSE Own(channel'[k])
<1>1. channel \in Seq(Messages)
  BY DEF UnityType
<1>2. /\ channel' \in Seq(Messages) /\ Head(channel) = channel[1] /\ 1 \in DOMAIN channel
      /\ \A k \in DOMAIN channel' : k + 1 \in DOMAIN channel /\ channel'[k] = channel[k + 1]
      /\ channel[1] \in Messages
  BY <1>1
<1>3. QED BY <1>2 DEF UnityType

\* The other programs' updates are followed when the first message is not theirs.
LEMMA OthersFollowed ==
  ASSUME UnityInv, channel # <<>>, channel' = Tail(channel),
         NEW t \in Senders, NEW mark \in Marks, Head(channel).sender # t, alive[t],
         entry'[t] = entry[t], SameLit(t),
         meant'[t] = meant[t], lost'[t] = lost[t], waits'[t] = waits[t]
  PROVE  Followed(t, mark)'
<1>1. /\ Throttled(t)' = Throttled(t) /\ channel \in Seq(Messages) /\ Followed(t, mark)
      /\ Lit(items', t, mark) <=> Lit(items, t, mark)
  BY DEF Throttled, UnityInv, UnityType, SameLit
<1>2. ~Tells(Head(channel), t, mark)
  BY DEF Tells
<1>3. \A set : LastTells(channel, t, mark, set) => LastTells(channel', t, mark, set)
  BY <1>1, <1>2, TailLast
<1>4. NoneTells(channel, t, mark) => NoneTells(channel', t, mark)
  BY <1>1, TailNone
<1>5. QED BY <1>1, <1>3, <1>4, NotFelt

\* A request that is put off, and one that is performed.
LEMMA RequestFacts ==
  ASSUME OwnItems, UnityType, NEW s \in Senders, NEW m \in Requests, m.sender = s, Own(m),
         handle_update_request(m)
  PROVE  /\ entry' \in [Senders -> Entries \cup {NoEntry}] /\ entry'[s] # NoEntry
         /\ \A t \in Senders \ {s} : entry'[t] = entry[t]
         /\ entry'[s].params = m /\ entry'[s].age = "recent"
         /\ IF TooFast(s) THEN entry'[s].timer /\ UNCHANGED <<items, retries>>
                          ELSE update_launcher_entry(m, FALSE, retries)
<1> DEFINE e    == entry[s]
           n    == IF e = NoEntry THEN 0 ELSE e.fast
           new  == [fast |-> IF n > FastCount THEN n ELSE n + 1, age |-> "recent",
                    params |-> m, timer |-> e # NoEntry /\ e.timer]
           late == [entry[s] EXCEPT !.params = m, !.timer = TRUE]
<1>1. e \in Entries \cup {NoEntry} /\ FastCount \in Nat /\ entry \in [Senders -> Entries \cup {NoEntry}]
  BY UnityAssumption DEF UnityType
<1>2. CASE TooFast(s)
  <2>1. late \in Entries /\ late.params = m /\ late.timer = TRUE /\ late.age = "recent"
    BY <1>1, <1>2 DEF Entries, TooFast
  <2>2. entry' = [entry EXCEPT ![s] = late] /\ UNCHANGED <<items, retries>>
    <3>1. entry' = [entry EXCEPT ![s].params = m, ![s].timer = TRUE]
          /\ UNCHANGED <<items, retries>>
      BY <1>2 DEF handle_update_request
    <3>2. QED BY <3>1
  <2> HIDE DEF late
  <2>3. QED BY <1>1, <1>2, <2>1, <2>2, NoEntryAssumption
<1>3. CASE ~TooFast(s)
  <2>1. n \in 0..FastCount + 1
    BY <1>1 DEF Entries
  <2>2. new.timer \in BOOLEAN
    OBVIOUS
  <2>3. new \in Entries /\ new.params = m /\ new.age = "recent"
    BY <1>1, <2>1, <2>2 DEF Entries, Ages
  <2>4. entry' = [entry EXCEPT ![s] = new] /\ update_launcher_entry(m, FALSE, retries)
    BY <1>3 DEF handle_update_request
  <2> HIDE DEF new
  <2>5. QED BY <1>1, <1>3, <2>3, <2>4, NoEntryAssumption
<1>4. QED BY <1>2, <1>3

LEMMA DispatchKeepsInv ==
  ASSUME OwnItems, UnityInv, Dispatch
  PROVE  UnityInv'
<1>0. PICK m \in Messages, s \in Senders : m = Head(channel) /\ s = m.sender
  BY RestOfBus DEF UnityInv, Dispatch, Messages, Requests
<1>1. channel # <<>> /\ channel' = Tail(channel) /\ UNCHANGED alive
  BY DEF Dispatch
<1>2. /\ channel' \in Seq(Messages)
      /\ IF m.uri = "lost" THEN ~alive[s] ELSE Own(m)
      /\ \A k \in DOMAIN channel' :
           IF channel'[k].uri = "lost" THEN ~alive'[channel'[k].sender] ELSE Own(channel'[k])
  BY <1>0, <1>1, RestOfBus DEF UnityInv
<1>3. /\ UnityType /\ ItemsType(items) /\ retries = <<>> /\ channel \in Seq(Messages)
      /\ entry \in [Senders -> Entries \cup {NoEntry}]
      /\ {meant, lost, waits} \subseteq [Senders -> SUBSET Marks]
  BY DEF UnityInv, UnityType
<1>4. CASE m.uri = "lost"
  <2>1. remove_launcher_entry(s) /\ UNCHANGED <<entry, retries, meant, lost, waits>>
    BY <1>0, <1>4 DEF Dispatch, said
  <2>2. ItemsType(items') /\ \A t \in Senders \ {s} : SameLit(t)
    BY <1>3, <2>1, RemoveFacts
  <2>3. UnityType'
    BY <1>1, <1>2, <2>1, <2>2 DEF UnityInv, UnityType, ItemsType, Own, Slot, UrisOf, Throttled
  <2>4. ASSUME NEW t \in Senders, NEW mark \in Marks, alive[t] PROVE Followed(t, mark)'
    <3>1. t # s
      BY <1>2, <1>4, <2>4
    <3>2. QED BY <1>0, <1>1, <2>1, <2>2, <2>4, <3>1, OthersFollowed
  <2>5. QED BY <1>1, <2>3, <2>4 DEF UnityInv
<1>5. CASE m.uri # "lost"
  <2>1. handle_update_request(m) /\ Noted(m)
    BY <1>0, <1>5 DEF Dispatch
  <2>2. m \in Requests /\ Own(m) /\ Mentions(m) \subseteq Marks
    BY <1>0, <1>2, <1>5 DEF Messages, Requests, Mentions
  <2>3. /\ entry' \in [Senders -> Entries \cup {NoEntry}] /\ entry'[s] # NoEntry
        /\ \A t \in Senders \ {s} : entry'[t] = entry[t]
        /\ entry'[s].params = m /\ entry'[s].age = "recent"
        /\ IF TooFast(s) THEN entry'[s].timer /\ UNCHANGED <<items, retries>>
                         ELSE update_launcher_entry(m, FALSE, retries)
    BY <1>0, <1>3, <2>1, <2>2, RequestFacts
  <2>4. /\ ItemsType(items') /\ retries' = <<>> /\ \A t \in Senders \ {s} : SameLit(t)
        /\ \A mark : mark \notin Mentions(m) => (Lit(items', s, mark) <=> Lit(items, s, mark))
        /\ ~TooFast(s) => \A mark \in Mentions(m) :
                            Lit(items', s, mark) <=> mark \in Merge({}, m)
    <3>1. CASE TooFast(s)
      BY <1>3, <2>3, <3>1 DEF SameLit
    <3>2. CASE ~TooFast(s)
      BY <1>0, <1>3, <2>2, <2>3, <3>2, UpdateFacts
    <3>3. QED BY <3>1, <3>2
  <2>5. /\ lost' = [lost EXCEPT ![s] = (lost[s] \cup waits[s]) \ Mentions(m)]
        /\ waits' = [waits EXCEPT ![s] = IF TooFast(s) THEN Mentions(m) ELSE {}]
        /\ meant' = meant
    BY <1>0, <2>1 DEF Noted
  <2>6. /\ meant' = meant /\ {lost', waits'} \subseteq [Senders -> SUBSET Marks]
        /\ lost'[s] = (lost[s] \cup waits[s]) \ Mentions(m)
        /\ waits'[s] = IF TooFast(s) THEN Mentions(m) ELSE {}
        /\ \A t \in Senders \ {s} : lost'[t] = lost[t] /\ waits'[t] = waits[t]
    BY <1>3, <2>2, <2>5
  <2>7. \A t \in Senders \ {s} : Throttled(t)' = Throttled(t)
    BY <2>3 DEF Throttled
  <2>8. UnityType'
    <3>1. \A t \in Senders :
            (entry[t] # NoEntry => /\ entry[t].params.sender = t /\ Own(entry[t].params)
                                   /\ entry[t].timer => entry[t].age # "expired")'
      BY <1>0, <1>3, <2>2, <2>3 DEF UnityType, Own, UrisOf
    <3>2. \A t \in Senders :
            (waits[t] # {} => Throttled(t) /\ waits[t] \subseteq Mentions(entry[t].params))'
      <4>1. waits'[s] # {} => Throttled(s)' /\ waits'[s] \subseteq Mentions(entry'[s].params)
        BY <2>3, <2>6 DEF Throttled
      <4>2. ASSUME NEW t \in Senders \ {s}
            PROVE  waits'[t] # {} => Throttled(t)' /\ waits'[t] \subseteq Mentions(entry'[t].params)
        BY <1>3, <2>3, <2>6, <2>7, <4>2 DEF UnityType
      <4>3. QED BY <4>1, <4>2 DEF Mentions
    <3>3. QED BY <1>1, <1>2, <1>3, <2>3, <2>4, <2>6, <3>1, <3>2
            DEF UnityType, ItemsType, Slot, Own, UrisOf
  <2>9. ASSUME NEW mark \in Marks, mark \in Mentions(m), alive[s] PROVE Followed(s, mark)'
    <3>1. ~NoneTells(channel, s, mark)
      <4>1. 1 \in DOMAIN channel /\ channel[1] = m
        BY <1>0, <1>1, <1>3
      <4>2. QED BY <1>0, <2>9, <4>1 DEF NoneTells, Tells
    <3>2. LastTells(channel, s, mark, meant[s])
      BY <2>9, <3>1 DEF Followed, UnityInv
    <3>3. CASE LastTells(channel', s, mark, meant[s])
      BY <2>6, <3>3 DEF Followed
    <3>4. CASE Leaves(m, mark, meant[s]) /\ NoneTells(channel', s, mark)
      <4>1. Leaves(entry'[s].params, mark, meant'[s])
        BY <2>3, <2>6, <3>4
      <4>2. mark \in waits'[s] \/ (Lit(items', s, mark) <=> mark \in meant'[s])
        BY <2>4, <2>6, <2>9, <3>4 DEF Leaves
      <4>3. QED BY <3>4, <4>1, <4>2 DEF Followed
    <3>5. QED BY <1>0, <1>1, <1>3, <3>2, <3>3, <3>4, TailLast
  <2>10. ASSUME NEW mark \in Marks, mark \notin Mentions(m), alive[s] PROVE Followed(s, mark)'
    <3>1. ~Tells(m, s, mark) /\ Followed(s, mark)
      BY <2>10 DEF Tells, UnityInv
    <3>2. CASE LastTells(channel, s, mark, meant[s])
      <4>1. LastTells(channel', s, mark, meant[s])
        BY <1>0, <1>1, <1>3, <3>1, <3>2, TailLast
      <4>2. QED BY <2>6, <4>1 DEF Followed
    <3>3. CASE NoneTells(channel, s, mark) /\ ~LastTells(channel, s, mark, meant[s])
      <4>1. NoneTells(channel', s, mark)
        BY <1>1, <1>3, <3>3, TailNone
      <4>2. mark \notin Mentions(entry'[s].params)
        BY <2>3, <2>10
      <4>3. mark \in lost'[s] \/ (Lit(items', s, mark) <=> mark \in meant'[s])
        BY <2>4, <2>6, <2>10, <3>1, <3>3 DEF Followed
      <4>4. QED BY <4>1, <4>2, <4>3 DEF Followed
    <3>4. QED BY <3>1, <3>2, <3>3 DEF Followed
  <2>11. ASSUME NEW t \in Senders \ {s}, NEW mark \in Marks, alive[t] PROVE Followed(t, mark)'
    BY <1>0, <1>1, <2>3, <2>4, <2>6, <2>11, OthersFollowed
  <2>12. QED BY <1>1, <2>8, <2>9, <2>10, <2>11 DEF UnityInv
<1>6. QED BY <1>4, <1>5

LEMMA ThrottleKeepsInv ==
  ASSUME OwnItems, UnityInv, NEW s \in Senders, ThrottleTimeout(s)
  PROVE  UnityInv'
<1> DEFINE f == [entry[s] EXCEPT !.timer = FALSE, !.age = "recent"]
           u == entry[s].params
<1>1. /\ entry[s] # NoEntry /\ entry[s].timer
      /\ update_launcher_entry(u, FALSE, retries)
      /\ waits' = [waits EXCEPT ![s] = {}]
      /\ UNCHANGED <<channel, cleanup, alive, meant, lost>>
  BY DEF ThrottleTimeout
<1>2. /\ UnityType /\ ItemsType(items) /\ retries = <<>>
      /\ entry \in [Senders -> Entries \cup {NoEntry}] /\ entry[s] \in Entries
      /\ {meant, lost, waits} \subseteq [Senders -> SUBSET Marks]
  BY <1>1 DEF UnityInv, UnityType
<1>3. u \in Requests /\ u.sender = s /\ Own(u)
  BY <1>1, <1>2 DEF UnityType, Entries
<1>4. entry' = [entry EXCEPT ![s] = f]
  <2>1. entry' = [entry EXCEPT ![s].timer = FALSE, ![s].age = "recent"]
    BY DEF ThrottleTimeout
  <2>2. QED BY <2>1
<1>5. f \in Entries /\ f.params = entry[s].params /\ f.timer = FALSE
  BY <1>2 DEF Entries, Ages
<1> HIDE DEF f
<1>6. /\ entry' \in [Senders -> Entries \cup {NoEntry}] /\ entry'[s] = f
      /\ \A t \in Senders \ {s} : entry'[t] = entry[t]
  BY <1>2, <1>4, <1>5
<1>7. /\ ItemsType(items') /\ retries' = <<>> /\ \A t \in Senders \ {s} : SameLit(t)
      /\ \A mark \in Mentions(u) : Lit(items', s, mark) <=> mark \in Merge({}, u)
      /\ \A mark : mark \notin Mentions(u) => (Lit(items', s, mark) <=> Lit(items, s, mark))
  BY <1>1, <1>2, <1>3, UpdateFacts
<1>8. /\ waits' \in [Senders -> SUBSET Marks] /\ waits'[s] = {}
      /\ \A t \in Senders \ {s} : waits'[t] = waits[t]
  BY <1>1, <1>2
<1>9. ~Throttled(s)' /\ \A t \in Senders \ {s} : Throttled(t)' = Throttled(t)
  BY <1>5, <1>6 DEF Throttled
<1>10. UnityType'
  <2>1. \A t \in Senders :
          (entry[t] # NoEntry => /\ entry[t].params.sender = t /\ Own(entry[t].params)
                                 /\ entry[t].timer => entry[t].age # "expired")'
    BY <1>2, <1>3, <1>5, <1>6 DEF UnityType, Own, UrisOf
  <2>2. \A t \in Senders :
          (waits[t] # {} => Throttled(t) /\ waits[t] \subseteq Mentions(entry[t].params))'
    <3>1. ASSUME NEW t \in Senders \ {s}
          PROVE  waits'[t] # {} => Throttled(t)' /\ waits'[t] \subseteq Mentions(entry'[t].params)
      BY <1>2, <1>6, <1>8, <1>9, <3>1 DEF UnityType
    <3>2. QED BY <1>8, <3>1 DEF Mentions
  <2>3. QED BY <1>1, <1>2, <1>6, <1>7, <1>8, <2>1, <2>2
          DEF UnityType, ItemsType, Slot, Own, UrisOf
<1>11. ASSUME NEW mark \in Marks, alive[s] PROVE Followed(s, mark)'
  <2>1. Followed(s, mark) /\ Throttled(s)
    BY <1>1, <1>11 DEF UnityInv, Throttled
  <2>2. CASE LastTells(channel, s, mark, meant[s])
    BY <1>1, <2>2 DEF Followed
  <2>3. CASE NoneTells(channel, s, mark) /\ ~LastTells(channel, s, mark, meant[s])
    <3>1. mark \in Mentions(u) => Leaves(u, mark, meant[s])
      BY <2>1, <2>3 DEF Followed
    <3>2. mark \in waits[s] => mark \in Mentions(u)
      BY <1>2 DEF UnityType
    <3>3. mark \in lost'[s] \/ (Lit(items', s, mark) <=> mark \in meant'[s])
      <4>1. CASE mark \in Mentions(u)
        BY <1>1, <1>7, <3>1, <4>1 DEF Leaves
      <4>2. CASE mark \notin Mentions(u)
        BY <1>1, <1>7, <2>1, <2>3, <3>2, <4>2 DEF Followed
      <4>3. QED BY <4>1, <4>2
    <3>4. QED BY <1>1, <1>9, <2>3, <3>3 DEF Followed
  <2>4. QED BY <2>1, <2>2, <2>3 DEF Followed
<1>12. ASSUME NEW t \in Senders \ {s}, NEW mark \in Marks, alive[t] PROVE Followed(t, mark)'
  <2>1. Followed(t, mark) /\ (Throttled(t)' = Throttled(t)) /\ entry'[t] = entry[t]
    BY <1>6, <1>9, <1>12 DEF UnityInv
  <2>2. (Lit(items', t, mark) <=> Lit(items, t, mark)) /\ waits'[t] = waits[t]
    BY <1>7, <1>8, <1>12 DEF SameLit
  <2>3. QED BY <1>1, <2>1, <2>2, NotFelt
<1>13. QED BY <1>1, <1>10, <1>11, <1>12 DEF UnityInv

\* A step of the clock, or of applications.
LEMMA QuietKeepsInv ==
  ASSUME UnityInv, UNCHANGED <<channel, retries, alive, meant, waits, lost>>, ItemsType(items'),
         \A t \in Senders : SameLit(t),
         entry' \in [Senders -> Entries \cup {NoEntry}],
         \A s \in Senders : /\ Throttled(s)' = Throttled(s)
                            /\ entry'[s] # NoEntry => /\ entry[s] # NoEntry
                                                      /\ entry'[s].params = entry[s].params
                                                      /\ entry'[s].timer => entry'[s].age # "expired"
  PROVE  UnityInv'
<1>1. \A s \in Senders :
        (entry[s] # NoEntry => /\ entry[s].params.sender = s /\ Own(entry[s].params)
                               /\ entry[s].timer => entry[s].age # "expired")'
  BY DEF UnityInv, UnityType, Own, UrisOf
<1>2. \A t \in Senders : Throttled(t) => entry'[t].params = entry[t].params
  BY DEF Throttled
<1>3. \A t \in Senders :
        (waits[t] # {} => Throttled(t) /\ waits[t] \subseteq Mentions(entry[t].params))'
  BY <1>2 DEF UnityInv, UnityType, Mentions
<1>4. UnityType'
  BY <1>1, <1>3 DEF UnityInv, UnityType, ItemsType, Own, Slot, UrisOf
<1>5. ASSUME NEW t \in Senders, NEW mark \in Marks, alive[t] PROVE Followed(t, mark)'
  <2>1. Followed(t, mark) /\ (Lit(items', t, mark) <=> Lit(items, t, mark))
    BY <1>5 DEF UnityInv, SameLit
  <2>2. QED BY <1>2, <2>1, NotFelt
<1>6. QED BY <1>4, <1>5 DEF UnityInv

LEMMA UnityStep == OwnItems /\ UnityInv /\ [Next]_vars => UnityInv'
<1> SUFFICES ASSUME OwnItems, UnityInv, [Next]_vars PROVE UnityInv'
  OBVIOUS
<1>0. /\ ItemsType(items) /\ retries = <<>> /\ entry \in [Senders -> Entries \cup {NoEntry}]
      /\ \A s \in Senders : Throttled(s) => entry[s].age # "expired"
  BY DEF UnityInv, UnityType, Throttled
<1>1. ASSUME NEW s \in Senders, TimePasses(s) PROVE UnityInv'
  <2> DEFINE f == [entry[s] EXCEPT !.age = IF @ = "recent" THEN "old" ELSE "expired"]
  <2>1. /\ entry[s] \in Entries /\ entry[s] # NoEntry /\ (entry[s].age = "recent" \/ ~entry[s].timer)
        /\ UNCHANGED <<items, channel, retries, cleanup, alive, meant, waits, lost>>
    BY <1>0, <1>1 DEF TimePasses, said
  <2>2. entry' = [entry EXCEPT ![s] = f]
    BY <1>1 DEF TimePasses
  <2>3. /\ f \in Entries /\ f.params = entry[s].params /\ f.timer = entry[s].timer
        /\ f.timer => f.age # "expired"
    BY <2>1 DEF Entries, Ages
  <2> HIDE DEF f
  <2>4. /\ entry' \in [Senders -> Entries \cup {NoEntry}] /\ entry'[s] = f /\ f # NoEntry
        /\ \A t \in Senders \ {s} : entry'[t] = entry[t]
    BY <1>0, <2>2, <2>3, NoEntryAssumption
  <2>5. \A t \in Senders : /\ Throttled(t)' = Throttled(t)
                           /\ entry'[t] # NoEntry => /\ entry[t] # NoEntry
                                                     /\ entry'[t].params = entry[t].params
                                                     /\ entry'[t].timer => entry'[t].age # "expired"
    BY <1>0, <2>1, <2>3, <2>4 DEF Throttled
  <2>6. ItemsType(items') /\ \A t \in Senders : SameLit(t)
    BY <1>0, <2>1 DEF SameLit
  <2>7. QED BY <2>1, <2>4, <2>5, <2>6, QuietKeepsInv
<1>2. CASE CleanUp
  <2>1. /\ entry' = [s \in Senders |-> IF entry[s] # NoEntry /\ entry[s].age = "expired"
                                       THEN NoEntry ELSE entry[s]]
        /\ UNCHANGED <<items, channel, retries, alive, meant, waits, lost>>
    BY <1>2 DEF CleanUp, said
  <2>2. \A t \in Senders : /\ Throttled(t)' = Throttled(t)
                           /\ entry'[t] # NoEntry => /\ entry[t] # NoEntry
                                                     /\ entry'[t].params = entry[t].params
                                                     /\ entry'[t].timer => entry'[t].age # "expired"
    BY <1>0, <2>1 DEF Throttled
  <2>3. /\ entry' \in [Senders -> Entries \cup {NoEntry}] /\ ItemsType(items')
        /\ \A t \in Senders : SameLit(t)
    BY <1>0, <2>1 DEF SameLit
  <2>4. QED BY <2>1, <2>2, <2>3, QuietKeepsInv
<1>3. ASSUME ItemsType(items'), \A t \in Senders : SameLit(t),
             UNCHANGED <<channel, entry, retries, cleanup, alive, meant, waits, lost>>
      PROVE  UnityInv'
  <2>1. \A t \in Senders : /\ Throttled(t)' = Throttled(t)
                           /\ entry'[t] # NoEntry => /\ entry[t] # NoEntry
                                                     /\ entry'[t].params = entry[t].params
                                                     /\ entry'[t].timer => entry'[t].age # "expired"
    BY <1>0, <1>3 DEF Throttled
  <2>2. QED BY <1>0, <1>3, <2>1, QuietKeepsInv
<1>4. ASSUME NEW u \in Uris, AppOpens(u) PROVE UnityInv'
  <2>1. UNCHANGED <<channel, entry, retries, cleanup, alive, meant, waits, lost>>
    BY <1>4 DEF AppOpens, said
  <2>2. QED BY <1>0, <1>3, <1>4, <2>1, OpensFacts
<1>5. ASSUME NEW k \in DOMAIN items, AppCloses(k) PROVE UnityInv'
  <2>1. UNCHANGED <<channel, entry, retries, cleanup, alive, meant, waits, lost>>
    BY <1>5 DEF AppCloses, said
  <2>2. QED BY <1>0, <1>3, <1>5, <2>1, ClosesFacts
<1>6. ~Retry
  BY <1>0 DEF Retry
<1>7. CASE UNCHANGED vars
  BY <1>0, <1>3, <1>7 DEF vars, said, SameLit
<1>8. QED
  BY <1>1, <1>2, <1>4, <1>5, <1>6, <1>7, SendKeepsInv, ExitKeepsInv, DispatchKeepsInv,
     ThrottleKeepsInv DEF Next

LEMMA UnityInvCorrect ==
  ASSUME OwnItems PROVE Spec => []UnityInv
<1>1. Init => UnityInv
  <2> SUFFICES ASSUME Init PROVE UnityInv
    OBVIOUS
  <2>1. DOMAIN PinnedUris = 1..Len(PinnedUris) /\ Len(PinnedUris) \in Nat
    BY UnityAssumption
  <2>2. /\ items \in Seq(Items) /\ Len(items) = Len(PinnedUris)
        /\ DOMAIN items = 1..Len(PinnedUris)
    BY <2>1, UnityAssumption DEF Init, Items
  <2>3. \A k \in 1..Len(PinnedUris) : /\ items[k].uri = PinnedUris[k] /\ items[k].kind = "pinned"
                                      /\ items[k].sender = NoSender /\ items[k].shown = {}
    BY <2>1 DEF Init
  <2>4. ItemsType(items)
    BY <2>1, <2>2, <2>3, UnityAssumption DEF ItemsType, Pinned
  <2>5. /\ channel \in Seq(Messages) /\ retries = <<>> /\ DOMAIN channel = {}
        /\ meant = [s \in Senders |-> {}] /\ waits = meant /\ lost = meant
    BY DEF Init
  <2>6. UnityType
    BY <2>4, <2>5 DEF Init, UnityType
  <2>7. \A s \in Senders, mark \in Marks : ~Lit(items, s, mark)
    BY <2>2, <2>3 DEF Lit
  <2>8. \A s \in Senders, mark \in Marks : Followed(s, mark)
    BY <2>5, <2>7 DEF Init, Followed, NoneTells, Throttled
  <2>9. QED BY <2>6, <2>8 DEF UnityInv
<1>2. QED BY <1>1, UnityStep, PTL DEF Spec

\* Types; a transient item has an application or a badge.
LEMMA UnityInvType == UnityInv => TypeOK
<1> SUFFICES ASSUME UnityInv PROVE TypeOK
  OBVIOUS
<1>1. ASSUME NEW k \in DOMAIN items
      PROVE  items[k] \in Items /\ (items[k].kind = "transient" => items[k].app \/ items[k].shown # {})
  <2>1. items[k] \in Items
    BY DEF UnityInv, UnityType, ItemsType
  <2>2. k \in Pinned => items[k].kind # "transient"
    BY DEF UnityInv, UnityType, ItemsType
  <2>3. QED BY <2>1, <2>2 DEF UnityInv, UnityType, ItemsType
<1>2. ASSUME NEW s \in Senders, entry[s] # NoEntry
      PROVE  entry[s].fast \in 1..(FastCount + 1) /\ entry[s].age \in Ages
  BY <1>2 DEF UnityInv, UnityType, Entries
<1>3. DOMAIN retries = {}
  BY DEF UnityInv, UnityType
<1>4. QED BY <1>1, <1>2, <1>3 DEF TypeOK, Items

\* However the updates of a program are throttled, put off and merged, and whatever
\* programs exit and applications start and stop meanwhile, its item shows what it
\* was told, all but the properties that were lost in the throttle.
THEOREM ShownCorrect ==
  ASSUME OwnItems PROVE Spec => []UnityUpdatesShown
<1>1. ASSUME UnityInv, NEW s \in Senders, alive[s], Quiet(s), NEW mark \in Marks \ lost[s]
      PROVE  mark \in Shown(s) <=> mark \in meant[s]
  <2>1. ~Throttled(s) /\ \A m : ~LastTells(channel, s, mark, m)
    BY <1>1 DEF Quiet, LastTells, Tells, Throttled
  <2>2. mark \notin waits[s]
    BY <1>1, <2>1 DEF UnityInv, UnityType
  <2>3. Lit(items, s, mark) <=> mark \in meant[s]
    BY <1>1, <2>1, <2>2 DEF UnityInv, Followed
  <2>4. mark \in Shown(s) <=> Lit(items, s, mark)
    BY DEF Shown, Lit
  <2>5. QED BY <2>3, <2>4
<1>2. UnityInv => UnityUpdatesShown
  BY <1>1, UnityInvType DEF UnityUpdatesShown, UpdatesShown
<1>3. QED BY <1>2, UnityInvCorrect, PTL
=============================================================================
