------------------------ MODULE SettingsStore_proofs ------------------------
(***************************************************************************)
(* Proofs about SettingsStore, for any settings, values, faults and        *)
(* numbers of commands, tokens and messages.                               *)
(***************************************************************************)
EXTENDS SettingsStore, FiniteSetTheorems, SequenceTheorems, TLAPS

Types ==
    /\ ram \in Settings /\ marker \in BOOLEAN /\ record \in BOOLEAN /\ flash \in Settings
    /\ mode \in {"boot", "run"}
    /\ board \in [Shared -> Held] /\ toBoard \in Seq([Shared -> Held])
    /\ reports \in Seq({"state", "settings"} \X [Echoed -> Held])
    /\ boots \in 0..2 /\ ops \in 0..MaxOps
    /\ faults \in Nat /\ seen \subseteq FaultKinds /\ told \in BOOLEAN

\* The marker and the record are written by the boots, or something failed.
Marked ==
    /\ faults = 0 /\ boots \in {1, 2} => marker
    /\ faults = 0 /\ boots = 2 => record
    /\ mode = "run" /\ ~ marker => "remark" \in seen

\* r's sport is whole, or one of the faults s accounts for the cut; r's
\* schedulers likewise.
Uncut(r, s)  == r["sport"] = Cut => s \cap {"mark", "read", "remark", "save"} # {}
Untorn(r, s) == r["schedulers"] = Torn => "settings" \in s

Clean ==
    /\ Uncut(ram, seen) /\ Uncut(flash, seen) /\ Uncut(board, seen)
    /\ \A i \in 1..Len(toBoard) : Uncut(toBoard[i], seen)
    /\ Untorn(ram, seen) /\ Untorn(flash, seen)
    /\ \A i \in 1..Len(reports) : reports[i][1] = "settings" => "settings" \in seen

Inv == Types /\ Marked /\ Clean /\ LastWord

\* Faults only add up.
Worse ==
    /\ seen \subseteq seen' /\ seen' \subseteq FaultKinds
    /\ faults' \in Nat /\ (faults' = 0 => faults = 0)

(***************************************************************************)
(* Constants and data                                                      *)
(***************************************************************************)
LEMMA FaultKindsFinite == IsFiniteSet(FaultKinds)
<1>1. \A S, x : IsFiniteSet(S) => IsFiniteSet(S \cup {x})
  BY FS_AddElement
<1>2. FaultKinds = ((((((((({} \cup {"save"}) \cup {"sched"}) \cup {"restore"}) \cup {"remark"})
          \cup {"mark"}) \cup {"read"}) \cup {"power"}) \cup {"lost"}) \cup {"settings"})
  BY DEF FaultKinds
<1> QED
  BY <1>1, <1>2, FS_EmptySet, Zenon

LEMMA FailsAdds ==
    ASSUME Types, NEW kinds, Fails(kinds)
    PROVE  Worse /\ kinds \subseteq seen' /\ (faults' = 0 => kinds = {})
<1>1. kinds \in SUBSET FaultKinds
  BY SettingsAssumption DEF Fails
<1>2. IsFiniteSet(kinds) /\ Cardinality(kinds) \in Nat /\ (Cardinality(kinds) = 0 => kinds = {})
  BY <1>1, FaultKindsFinite, FS_Subset, FS_CardinalityType, FS_EmptySet
<1>3. faults' = faults + Cardinality(kinds) /\ seen' = seen \cup kinds
  BY DEF Fails
<1> QED
  BY <1>1, <1>2, <1>3 DEF Types, Worse

LEMMA TroubleStays == Types /\ UNCHANGED trouble => Worse
BY DEF Types, Worse, trouble

\* sport is for the board alone, schedulers for the modem alone.
LEMMA Names ==
    /\ "sport" \in Setting /\ "sport" \in Shared /\ "sport" \notin Echoed
    /\ "schedulers" \in Setting /\ "schedulers" \notin Shared /\ "schedulers" \notin Echoed
    /\ "schedulers" # "sport" /\ "use_sched" \in Setting
    /\ Cut \notin Value /\ Torn \notin Value /\ Cut # Torn /\ Default \in Value /\ Off \in Value
BY SettingsAssumption DEF Setting, Shared

LEMMA StrtokCuts ==
    ASSUME NEW r \in Settings, NEW s
    PROVE  /\ Strtok(r) \in Settings
           /\ Untorn(r, s) => Untorn(Strtok(r), s)
           /\ ForBoard(r) \in [Shared -> Held]
           /\ Uncut(r, s) => Uncut(ForBoard(r), s)
<1>1. Strtok(r) \in Settings
  BY Names DEF Strtok, Settings, Held
<1>2. Strtok(r)["schedulers"] = r["schedulers"]
  BY Names DEF Strtok, Settings
<1>3. ForBoard(r) \in [Shared -> Held] /\ ForBoard(r)["sport"] = r["sport"]
  BY Names DEF ForBoard, Settings, Setting, Shared
<1> QED
  BY <1>1, <1>2, <1>3 DEF Uncut, Untorn

\* A form sets some settings to values that are neither cut nor torn.
LEMMA WithKeeps ==
    ASSUME NEW r \in Settings, NEW T \in SUBSET Setting, NEW form \in [T -> Value], NEW s
    PROVE  /\ With(r, form) \in Settings
           /\ Uncut(r, s) => Uncut(With(r, form), s)
           /\ Untorn(r, s) => Untorn(With(r, form), s)
<1>1. With(r, form) \in Settings
  BY DEF With, Settings, Held
<1>2. \A f \in Setting : With(r, form)[f] = r[f] \/ With(r, form)[f] \in Value
  BY DEF With
<1>3. /\ With(r, form)["sport"] = r["sport"] \/ With(r, form)["sport"] \in Value
      /\ With(r, form)["schedulers"] = r["schedulers"] \/ With(r, form)["schedulers"] \in Value
  BY <1>2, Names
<1> QED
  BY <1>1, <1>3, Names DEF Uncut, Untorn

LEMMA SetKeeps ==
    ASSUME NEW r \in Settings, NEW f \in Setting, NEW v \in Value, NEW s
    PROVE  /\ [r EXCEPT ![f] = v] \in Settings
           /\ Uncut(r, s) => Uncut([r EXCEPT ![f] = v], s)
           /\ Untorn(r, s) => Untorn([r EXCEPT ![f] = v], s)
<1> DEFINE q == [r EXCEPT ![f] = v]
<1>1. q \in Settings
  BY DEF Settings, Held
<1>2. \A g \in Setting : q[g] = r[g] \/ q[g] \in Value
  BY DEF Settings
<1> HIDE DEF q
<1>3. /\ q["sport"] = r["sport"] \/ q["sport"] \in Value
      /\ q["schedulers"] = r["schedulers"] \/ q["schedulers"] \in Value
  BY <1>2, Names
<1>4. (Uncut(r, s) => Uncut(q, s)) /\ (Untorn(r, s) => Untorn(q, s))
  BY <1>3, Names DEF Uncut, Untorn
<1> QED
  BY <1>1, <1>4 DEF q

LEMMA CleanLasts ==
    ASSUME NEW r, NEW s, NEW t, s \subseteq t
    PROVE  (Uncut(r, s) => Uncut(r, t)) /\ (Untorn(r, s) => Untorn(r, t))
BY DEF Uncut, Untorn

LEMMA FormsAre ==
    ASSUME NEW S \in SUBSET Setting, NEW form \in Forms(S)
    PROVE  \E T \in SUBSET Setting : form \in [T -> Value] /\ T = DOMAIN form
BY DEF Forms

(***************************************************************************)
(* Writing and reading back                                                *)
(***************************************************************************)
\* After a read, RAM and flash hold what they held or each other's; RAM keeps
\* its own only if there was no marker or no record, or a read failed.
LEMMA ReadsBackGives ==
    ASSUME Types, NEW has \in BOOLEAN, NEW d \in Settings, NEW r \in Settings, NEW fail,
           ReadsBack(has, d, r, fail), record => has
    PROVE  /\ marker' \in BOOLEAN /\ record' \in BOOLEAN
           /\ flash' \in Settings /\ ram' \in Settings
           /\ (marker \/ "remark" \notin fail) => marker'
           /\ ~ marker' => "remark" \in fail
           /\ has => record'
           /\ marker /\ fail = {} => record'
           /\ ram' = d \/ (ram' = r /\ (~ marker \/ ~ has \/ fail \cap {"mark", "read"} # {}))
           /\ flash' = d \/ (flash' = r /\ Restores(has, fail) /\ (~ has \/ "read" \in fail))
<1>1. marker' \in BOOLEAN /\ record' \in BOOLEAN
  BY Zenon DEF ReadsBack, Types, Restores
<1>2. flash' = (IF Restores(has, fail) THEN r ELSE d)
  BY DEF ReadsBack
<1>3. ram' = (IF MarkRead(fail) /\ RecordRead(has, fail) THEN d ELSE r)
  BY DEF ReadsBack
<1>4. marker' = (marker \/ "remark" \notin fail) /\ record' = (has \/ Restores(has, fail))
  BY DEF ReadsBack
<1> QED
  BY <1>1, <1>2, <1>3, <1>4 DEF MarkRead, RecordRead, Restores, Types

\* The same for all that Inv says of RAM and flash, when nothing is written
\* before: at a boot, and for CONFIG?.
LEMMA ReadsBackKeeps ==
    ASSUME Inv, NEW fail \in SUBSET ReadFaults, Fails(fail),
           ReadsBack(record, flash, ram, fail), told' = (told /\ ~ Restores(record, fail)),
           UNCHANGED link, mode' = "run", ops' \in 0..MaxOps,
           \/ mode = "run" /\ boots' = boots
           \/ boots' = IF boots < 2 THEN boots + 1 ELSE boots
    PROVE  Inv'
<1>1. Types /\ Marked /\ Clean
  BY DEF Inv
<1>2. Worse /\ fail \subseteq seen' /\ (faults' = 0 => fail = {})
  BY <1>1, FailsAdds
<1>3. /\ marker' \in BOOLEAN /\ record' \in BOOLEAN
      /\ flash' \in Settings /\ ram' \in Settings
      /\ (marker \/ "remark" \notin fail) => marker'
      /\ ~ marker' => "remark" \in fail
      /\ record => record'
      /\ marker /\ fail = {} => record'
      /\ ram' \in {ram, flash}
      /\ flash' = flash \/ (flash' = ram /\ Restores(record, fail))
  BY <1>1, ReadsBackGives DEF Types
<1>4. UNCHANGED <<board, toBoard, reports>>
  BY DEF link
<1>5. Types'
  <2>1. told' \in BOOLEAN
    BY <1>1, Zenon DEF Types
  <2>2. boots' \in 0..2
    BY <1>1 DEF Types
  <2> QED
    BY <1>1, <1>2, <1>3, <1>4, <2>1, <2>2 DEF Types, Worse
<1>6. Marked'
  <2>1. /\ faults' = 0 /\ boots' \in {1, 2} => marker'
        /\ ~ marker' => "remark" \in seen'
    BY <1>2, <1>3
  <2>2. ASSUME faults' = 0, boots' = 2 PROVE record'
    <3>1. boots = 1 \/ boots = 2
      BY <1>1, <2>2 DEF Types
    <3>2. marker
      BY <1>1, <1>2, <2>2, <3>1 DEF Marked, Worse
    <3> QED
      BY <1>2, <1>3, <2>2, <3>2
  <2> QED
    BY <2>1, <2>2 DEF Marked
<1>7. Clean'
  <2>1. seen \subseteq seen'
    BY <1>2 DEF Worse
  <2>2. Uncut(ram', seen') /\ Uncut(flash', seen') /\ Untorn(ram', seen') /\ Untorn(flash', seen')
    <3>1. /\ Uncut(ram, seen') /\ Uncut(flash, seen')
          /\ Untorn(ram, seen') /\ Untorn(flash, seen')
      BY <1>1, <2>1, CleanLasts DEF Clean
    <3>2. (ram' = ram \/ ram' = flash) /\ (flash' = ram \/ flash' = flash)
      BY <1>3
    <3> QED
      BY <3>1, <3>2
  <2> QED
    BY <1>1, <1>4, <2>1, <2>2, CleanLasts DEF Clean
<1>8. LastWord'
  BY <1>2, <1>3, <1>4 DEF Inv, LastWord, Worse, BoardGets, Types, ReadsBack
<1> QED
  BY <1>5, <1>6, <1>7, <1>8 DEF Inv

\* save_all_settings, whatever the handler did to RAM before: it was clean, and
\* what SCHED may have put into flash was.
LEMMA SavesAfterKeeps ==
    ASSUME Inv, mode = "run", ops' \in 0..MaxOps,
           NEW fail \in SUBSET FaultKinds, Fails(fail),
           NEW r \in Settings, Uncut(r, seen), Untorn(r, seen),
           NEW d \in Settings, Uncut(d, seen), Untorn(d, seen),
           NEW has \in BOOLEAN, record => has,
           SavesAfter(has, d, r, fail)
    PROVE  Inv'
<1> DEFINE saved == "save" \notin fail
           has1 == has \/ saved
           d1 == IF saved THEN r ELSE d
<1>1. Types /\ Marked /\ Clean
  BY DEF Inv
<1>2. Worse /\ fail \subseteq seen' /\ (faults' = 0 => fail = {})
  BY <1>1, FailsAdds
<1>3. /\ ReadsBack(has1, d1, Strtok(r), fail) /\ toBoard' = Append(toBoard, ForBoard(r))
      /\ told' = (saved /\ ~ Restores(has1, fail))
      /\ UNCHANGED <<mode, board, reports, boots>>
  BY DEF SavesAfter
<1>4. has1 \in BOOLEAN /\ (has => has1) /\ (~ has1 => "save" \in fail)
  OBVIOUS
<1>5. d1 \in Settings /\ Uncut(d1, seen) /\ Untorn(d1, seen)
  OBVIOUS
<1>6. saved => d1 = r
  OBVIOUS
<1>7. saved \in BOOLEAN
  OBVIOUS
<1> HIDE DEF saved, has1, d1
<1>8. /\ Strtok(r) \in Settings /\ Untorn(Strtok(r), seen)
      /\ ForBoard(r) \in [Shared -> Held] /\ Uncut(ForBoard(r), seen)
  BY StrtokCuts
<1>9. /\ marker' \in BOOLEAN /\ record' \in BOOLEAN
      /\ flash' \in Settings /\ ram' \in Settings
      /\ (marker \/ "remark" \notin fail) => marker'
      /\ ~ marker' => "remark" \in fail
      /\ has1 => record'
      /\ marker /\ fail = {} => record'
      /\ ram' = d1 \/ (ram' = Strtok(r) /\ (~ marker \/ ~ has1 \/ fail \cap {"mark", "read"} # {}))
      /\ flash' = d1 \/ (flash' = Strtok(r) /\ Restores(has1, fail) /\ (~ has1 \/ "read" \in fail))
  BY <1>1, <1>3, <1>4, <1>5, <1>8, ReadsBackGives
<1>10. /\ toBoard' \in Seq([Shared -> Held]) /\ Len(toBoard') = Len(toBoard) + 1
       /\ toBoard'[Len(toBoard) + 1] = ForBoard(r)
       /\ \A i \in 1..Len(toBoard) : toBoard'[i] = toBoard[i]
       /\ Len(toBoard) \in Nat
  BY <1>1, <1>3, <1>8, AppendProperties, LenProperties DEF Types
<1>11. Types'
  <2>1. told' \in BOOLEAN
    BY <1>3, <1>7, Zenon DEF Restores
  <2> QED
    BY <1>1, <1>2, <1>3, <1>9, <1>10, <2>1 DEF Types, Worse
<1>12. Marked'
  <2>1. faults' = 0 => (boots' \in {1, 2} => marker') /\ (boots' = 2 => record')
    BY <1>1, <1>2, <1>3, <1>4, <1>9 DEF Marked, Worse
  <2>2. ~ marker' => "remark" \in seen'
    BY <1>2, <1>9
  <2> QED
    BY <2>1, <2>2 DEF Marked
<1>13. Clean'
  <2>0. seen \subseteq seen'
    BY <1>2 DEF Worse
  <2>1. Uncut(ram', seen')
    <3>1. CASE ram' = d1
      BY <1>5, <2>0, <3>1, CleanLasts
    <3>2. CASE ~ marker \/ ~ has1 \/ fail \cap {"mark", "read"} # {}
      <4>1. ~ marker => "remark" \in seen
        BY <1>1 DEF Marked
      <4> QED
        BY <1>2, <1>4, <2>0, <3>2, <4>1 DEF Uncut
    <3> QED
      BY <1>9, <3>1, <3>2
  <2>2. Uncut(flash', seen')
    <3>1. CASE flash' = d1
      BY <1>5, <2>0, <3>1, CleanLasts
    <3>2. CASE ~ has1 \/ "read" \in fail
      BY <1>2, <1>4, <3>2 DEF Uncut
    <3> QED
      BY <1>9, <3>1, <3>2
  <2>3. Untorn(ram', seen') /\ Untorn(flash', seen')
    BY <1>5, <1>8, <1>9, <2>0, CleanLasts
  <2>4. \A i \in 1..Len(toBoard') : Uncut(toBoard'[i], seen')
    <3> SUFFICES ASSUME NEW i \in 1..Len(toBoard') PROVE Uncut(toBoard'[i], seen')
      OBVIOUS
    <3>1. i \in 1..Len(toBoard) \/ i = Len(toBoard) + 1
      BY <1>10
    <3>2. Uncut(toBoard'[i], seen)
      BY <1>1, <1>8, <1>10, <3>1 DEF Clean
    <3> QED
      BY <2>0, <3>2, CleanLasts
  <2>5. Uncut(board', seen')
    BY <1>1, <1>3, <2>0, CleanLasts DEF Clean
  <2>6. \A i \in 1..Len(reports') : reports'[i][1] = "settings" => "settings" \in seen'
    BY <1>1, <1>3, <2>0 DEF Clean
  <2> QED
    BY <2>1, <2>2, <2>3, <2>4, <2>5, <2>6 DEF Clean
<1>14. LastWord'
  <2>1. BoardGets' = ForBoard(r)
    <3>1. toBoard' # <<>>
      BY <1>10, EmptySeq
    <3> QED
      BY <1>10, <3>1 DEF BoardGets
  <2>2. told' => flash' = r
    BY <1>3, <1>6, <1>9
  <2>3. ForBoard(r) = [f \in Shared |-> r[f]]
    BY DEF ForBoard
  <2> QED
    BY <2>1, <2>2, <2>3 DEF LastWord, ForBoard
<1> QED
  BY <1>11, <1>12, <1>13, <1>14 DEF Inv

\* save_all_settings after one of rams
LEMMA SavesOneKeeps ==
    ASSUME Inv, Command, NEW rams,
           \A r \in rams : r \in Settings /\ Uncut(r, seen) /\ Untorn(r, seen),
           SavesOne(rams)
    PROVE  Inv'
<1>1. mode = "run" /\ ops' \in 0..MaxOps
  BY SettingsAssumption DEF Command, Inv, Types
<1>2. PICK fail \in SUBSET (ReadFaults \cup {"save"}) :
         Fails(fail) /\ \E r \in rams : SavesAfter(record, flash, r, fail)
  BY DEF SavesOne
<1>3. PICK r \in rams : SavesAfter(record, flash, r, fail)
  BY <1>2
<1>4. fail \in SUBSET FaultKinds
  BY DEF ReadFaults, FaultKinds
<1>5. /\ record \in BOOLEAN /\ flash \in Settings
      /\ Uncut(flash, seen) /\ Untorn(flash, seen)
  BY DEF Inv, Types, Clean
<1> QED
  BY <1>1, <1>2, <1>3, <1>4, <1>5, SavesAfterKeeps

\* RAM and the reports are lost; flash may have got what SCHED wrote, or, when
\* power fails, what was to be saved.
LEMMA BootsKeeps ==
    ASSUME Inv, Command, Boots, Worse,
           record' \in BOOLEAN, record => record',
           flash' \in Settings, Uncut(flash', seen'), Untorn(flash', seen'),
           told' \in BOOLEAN, told' => told /\ flash' = flash,
           "lost" \in seen => "lost" \in seen'
    PROVE  Inv'
<1>1. Types /\ Marked /\ Clean
  BY DEF Inv
<1>2. /\ mode' = "boot" /\ ram' = Defaults /\ reports' = <<>>
      /\ UNCHANGED <<marker, board, toBoard, boots>>
  BY DEF Boots
<1>3. Defaults \in Settings /\ Uncut(Defaults, seen') /\ Untorn(Defaults, seen')
  <2>1. Defaults \in Settings
    BY Names DEF Defaults, Settings, Held
  <2>2. Defaults["sport"] = Default /\ Defaults["schedulers"] = Default
    BY Names DEF Defaults
  <2> QED
    BY <2>1, <2>2, Names DEF Uncut, Untorn
<1>4. reports' \in Seq({"state", "settings"} \X [Echoed -> Held]) /\ Len(reports') = 0
  BY <1>2, EmptySeq
<1>5. ops' \in 0..MaxOps
  BY <1>1, SettingsAssumption DEF Command, Types
<1>6. Types'
  BY <1>1, <1>2, <1>3, <1>4, <1>5 DEF Types, Worse
<1>7. Marked'
  BY <1>1, <1>2 DEF Marked, Worse
<1>8. Clean'
  <2>1. seen \subseteq seen'
    BY DEF Worse
  <2> QED
    BY <1>1, <1>2, <1>3, <1>4, <2>1, CleanLasts DEF Clean
<1>9. LastWord'
  BY <1>2 DEF Inv, LastWord, BoardGets, Worse
<1> QED
  BY <1>6, <1>7, <1>8, <1>9 DEF Inv

(***************************************************************************)
(* Steps                                                                   *)
(***************************************************************************)
LEMMA CommandKeeps ==
    ASSUME Inv, MenuSets \/ MenuSetsAndSaves \/ MenuSaves \/ Lights \/ WriteOnly \/ WebSettings
    PROVE  Inv'
<1>1. Types /\ Marked /\ Clean
  BY DEF Inv
<1>2. ram \in Settings /\ Uncut(ram, seen) /\ Untorn(ram, seen)
  BY <1>1 DEF Types, Clean
<1>3. ASSUME NEW f \in Setting, NEW v \in Value
      PROVE  /\ [ram EXCEPT ![f] = v] \in Settings
             /\ Uncut([ram EXCEPT ![f] = v], seen) /\ Untorn([ram EXCEPT ![f] = v], seen)
  BY <1>2, SetKeeps
<1>4. Command => mode = "run" /\ ops' \in 0..MaxOps
  BY <1>1, SettingsAssumption DEF Command, Types
<1>5. CASE MenuSets
  <2>1. PICK f \in Setting, v \in Value : ram' = [ram EXCEPT ![f] = v]
    BY <1>5 DEF MenuSets
  <2>2. ram' \in Settings /\ Uncut(ram', seen) /\ Untorn(ram', seen)
    BY <1>3, <2>1
  <2>3. ops' \in 0..MaxOps /\ UNCHANGED <<store, mode, link, boots, trouble, told>>
    BY <1>4, <1>5 DEF MenuSets
  <2>4. Types'
    BY <1>1, <2>2, <2>3 DEF Types, store, link, trouble
  <2>5. Marked' /\ Clean' /\ LastWord'
    BY <1>1, <2>2, <2>3
    DEF Inv, Marked, Clean, LastWord, BoardGets, store, link, trouble
  <2> QED
    BY <2>4, <2>5 DEF Inv
<1>6. CASE MenuSetsAndSaves
  <2>1. \A r \in {[ram EXCEPT ![f] = v] : f \in Echoed, v \in Value} :
           r \in Settings /\ Uncut(r, seen) /\ Untorn(r, seen)
    <3>1. Echoed \subseteq Setting
      BY DEF Setting
    <3> QED
      BY <1>3, <3>1
  <2> QED
    BY <1>6, <2>1, SavesOneKeeps DEF MenuSetsAndSaves
<1>7. CASE MenuSaves
  <2>1. \A r \in {ram} : r \in Settings /\ Uncut(r, seen) /\ Untorn(r, seen)
    BY <1>2
  <2> QED
    BY <1>7, <2>1, SavesOneKeeps DEF MenuSaves
<1>8. CASE Lights
  <2>1. \A r \in {[ram EXCEPT !["use_sched"] = Off]} :
           r \in Settings /\ Uncut(r, seen) /\ Untorn(r, seen)
    BY <1>3, Names
  <2> QED
    BY <1>8, <2>1, SavesOneKeeps DEF Lights
<1>9. CASE WriteOnly
  <2>1. PICK f \in Plain, v \in Value : Writes([ram EXCEPT ![f] = v])
    BY <1>9 DEF WriteOnly
  <2> DEFINE r == [ram EXCEPT ![f] = v]
  <2>2. r \in Settings /\ Uncut(r, seen) /\ Untorn(r, seen)
    BY <1>3 DEF Setting
  <2> HIDE DEF r
  <2>3. PICK fail \in SUBSET {"save"} :
           /\ Fails(fail)
           /\ record' = (record \/ fail = {})
           /\ flash' = (IF fail = {} THEN r ELSE flash)
           /\ ram' = r
           /\ told' = (told /\ fail # {})
           /\ UNCHANGED <<marker, mode, link, boots>>
    BY <2>1 DEF Writes, r
  <2>4. Worse
    BY <1>1, <2>3, FailsAdds
  <2>5. record' \in BOOLEAN /\ told' \in BOOLEAN
    BY <1>1, <2>3, Zenon DEF Types
  <2>6. ops' \in 0..MaxOps
    BY <1>4, <1>9 DEF WriteOnly
  <2>7. flash' \in Settings /\ Uncut(flash', seen) /\ Untorn(flash', seen)
    BY <1>1, <2>2, <2>3 DEF Types, Clean
  <2>8. Types'
    BY <1>1, <2>2, <2>3, <2>4, <2>5, <2>6, <2>7 DEF Types, Worse, link
  <2>9. Marked'
    BY <1>1, <2>3, <2>4 DEF Marked, Worse, link
  <2>10. Clean'
    <3>1. seen \subseteq seen'
      BY <2>4 DEF Worse
    <3> QED
      BY <1>1, <2>2, <2>3, <2>7, <3>1, CleanLasts DEF Clean, link
  <2>11. LastWord'
    BY <2>3, <2>4 DEF Inv, LastWord, BoardGets, Worse, link
  <2> QED
    BY <2>8, <2>9, <2>10, <2>11 DEF Inv
<1>10. CASE WebSettings
  <2> DEFINE S == Setting \ {"schedulers", "sport"}
  <2>1. \A r \in {With(ram, form) : form \in Forms(S)} :
           r \in Settings /\ Uncut(r, seen) /\ Untorn(r, seen)
    <3>1. ASSUME NEW form \in Forms(S)
          PROVE  /\ With(ram, form) \in Settings
                 /\ Uncut(With(ram, form), seen) /\ Untorn(With(ram, form), seen)
      <4>1. PICK T \in SUBSET Setting : form \in [T -> Value]
        BY FormsAre
      <4> QED
        BY <1>2, <4>1, WithKeeps
    <3> QED
      BY <3>1
  <2> QED
    BY <1>10, <2>1, SavesOneKeeps DEF WebSettings
<1> QED
  BY <1>5, <1>6, <1>7, <1>8, <1>9, <1>10

\* Where SCHED writes RAM, it holds some of the form.
LEMMA AtSchedKeeps ==
    ASSUME Inv, NEW form \in Forms(Setting), "schedulers" \in DOMAIN form,
           NEW T \in SUBSET DOMAIN form
    PROVE  /\ AtSched(form, T) \in Settings
           /\ Uncut(AtSched(form, T), seen) /\ Untorn(AtSched(form, T), seen)
<1>1. PICK D \in SUBSET Setting : form \in [D -> Value] /\ D = DOMAIN form
  BY FormsAre
<1>2. /\ T \cup {"schedulers"} \in SUBSET Setting
      /\ [f \in T \cup {"schedulers"} |-> form[f]] \in [T \cup {"schedulers"} -> Value]
  BY <1>1
<1>3. ram \in Settings /\ Uncut(ram, seen) /\ Untorn(ram, seen)
  BY DEF Inv, Types, Clean
<1> QED
  BY <1>2, <1>3, WithKeeps, Zenon DEF AtSched

LEMMA FormKeeps ==
    ASSUME Inv, NEW form \in Forms(Setting)
    PROVE  /\ With(ram, form) \in Settings
           /\ Uncut(With(ram, form), seen) /\ Untorn(With(ram, form), seen)
<1>1. PICK D \in SUBSET Setting : form \in [D -> Value]
  BY FormsAre
<1>2. ram \in Settings /\ Uncut(ram, seen) /\ Untorn(ram, seen)
  BY DEF Inv, Types, Clean
<1> QED
  BY <1>1, <1>2, WithKeeps

LEMMA ConfigKeeps ==
    ASSUME Inv, ConfigForm \/ ConfigReboot \/ ConfigQuery \/ Reset \/ PowerFails
    PROVE  Inv'
<1>1. Types /\ Marked /\ Clean
  BY DEF Inv
<1>2. Command /\ mode = "run" /\ ops' \in 0..MaxOps
  <2>1. Command
    BY Zenon DEF ConfigForm, ConfigReboot, ConfigQuery, Reset, PowerFails
  <2> QED
    BY <1>1, <2>1, SettingsAssumption DEF Command, Types
<1>3. /\ record \in BOOLEAN /\ told \in BOOLEAN /\ flash \in Settings /\ ram \in Settings
      /\ Uncut(flash, seen) /\ Untorn(flash, seen) /\ Uncut(ram, seen) /\ Untorn(ram, seen)
  BY <1>1 DEF Types, Clean
<1>4. CASE ConfigForm
  <2>1. PICK fail \in SUBSET (ReadFaults \cup {"save", "sched"}) :
           /\ Fails(fail)
           /\ \E form \in Forms(Setting) :
                IF "schedulers" \in DOMAIN form /\ "sched" \notin fail
                THEN \E T \in SUBSET DOMAIN form :
                         SavesAfter(TRUE, AtSched(form, T), With(ram, form), fail)
                ELSE SavesAfter(record, flash, With(ram, form), fail)
    BY <1>4 DEF ConfigForm
  <2>2. PICK form \in Forms(Setting) :
                IF "schedulers" \in DOMAIN form /\ "sched" \notin fail
                THEN \E T \in SUBSET DOMAIN form :
                         SavesAfter(TRUE, AtSched(form, T), With(ram, form), fail)
                ELSE SavesAfter(record, flash, With(ram, form), fail)
    BY <2>1
  <2>3. fail \in SUBSET FaultKinds
    BY DEF ReadFaults, FaultKinds
  <2>4. /\ With(ram, form) \in Settings
        /\ Uncut(With(ram, form), seen) /\ Untorn(With(ram, form), seen)
    BY FormKeeps
  <2>5. ASSUME "schedulers" \in DOMAIN form, NEW T \in SUBSET DOMAIN form,
               SavesAfter(TRUE, AtSched(form, T), With(ram, form), fail)
        PROVE  Inv'
    <3>1. /\ AtSched(form, T) \in Settings
          /\ Uncut(AtSched(form, T), seen) /\ Untorn(AtSched(form, T), seen)
      BY <2>5, AtSchedKeeps
    <3> QED
      BY <1>2, <2>1, <2>3, <2>4, <2>5, <3>1, SavesAfterKeeps
  <2>6. CASE SavesAfter(record, flash, With(ram, form), fail)
    BY <1>2, <1>3, <2>1, <2>3, <2>4, <2>6, SavesAfterKeeps
  <2> QED
    BY <2>2, <2>5, <2>6
<1>5. CASE ConfigReboot
  <2>1. Boots /\ UNCHANGED trouble
    BY <1>5 DEF ConfigReboot
  <2>2. seen' = seen /\ Worse
    BY <1>1, <2>1, TroubleStays DEF trouble
  <2>3. PICK form \in Forms(Setting) :
            IF "schedulers" \in DOMAIN form
            THEN /\ \E T \in SUBSET DOMAIN form : flash' = AtSched(form, T)
                 /\ record' = TRUE /\ told' = FALSE
            ELSE UNCHANGED <<flash, record, told>>
    BY <1>5 DEF ConfigReboot
  <2>4. CASE "schedulers" \in DOMAIN form
    <3>1. flash' \in Settings /\ Uncut(flash', seen) /\ Untorn(flash', seen)
      BY <2>3, <2>4, AtSchedKeeps
    <3>2. record' = TRUE /\ told' = FALSE
      BY <2>3, <2>4
    <3> QED
      BY <1>2, <2>1, <2>2, <3>1, <3>2, BootsKeeps
  <2>5. CASE UNCHANGED <<flash, record, told>>
    BY <1>2, <1>3, <2>1, <2>2, <2>5, BootsKeeps
  <2> QED
    BY <2>3, <2>4, <2>5
<1>6. CASE ConfigQuery
  <2>1. PICK fail \in SUBSET ReadFaults :
           /\ Fails(fail) /\ ReadsBack(record, flash, ram, fail)
           /\ told' = (told /\ ~ Restores(record, fail))
    BY <1>6 DEF ConfigQuery
  <2>2. UNCHANGED link /\ mode' = "run" /\ boots' = boots
    BY <1>2, <1>6 DEF ConfigQuery
  <2> QED
    BY <1>2, <2>1, <2>2, ReadsBackKeeps
<1>7. CASE Reset
  <2>1. Boots /\ UNCHANGED <<record, flash, told>> /\ seen' = seen
    BY <1>7 DEF Reset, trouble
  <2>2. Worse
    BY <1>1, <1>7, TroubleStays DEF Reset, trouble
  <2> QED
    BY <1>2, <1>3, <2>1, <2>2, BootsKeeps
<1>8. CASE PowerFails
  <2>1. Boots /\ record' = TRUE /\ flash' = ram /\ told' = FALSE
    BY <1>8 DEF PowerFails
  <2>2. Worse
    BY <1>1, <1>8, FailsAdds DEF PowerFails
  <2>3. seen \subseteq seen'
    BY <2>2 DEF Worse
  <2>4. Uncut(ram, seen') /\ Untorn(ram, seen')
    BY <1>3, <2>3, CleanLasts
  <2> QED
    BY <1>2, <1>3, <2>1, <2>2, <2>3, <2>4, BootsKeeps
<1> QED
  BY <1>4, <1>5, <1>6, <1>7, <1>8

\* A step that leaves RAM, flash and the account of the boots alone
LEMMA BoardKeeps ==
    ASSUME Inv, UNCHANGED <<ram, marker, record, flash, mode, boots, told>>, ops' \in 0..MaxOps,
           Worse,
           board' \in [Shared -> Held], toBoard' \in Seq([Shared -> Held]),
           Uncut(board', seen'), \A i \in 1..Len(toBoard') : Uncut(toBoard'[i], seen'),
           reports' \in Seq({"state", "settings"} \X [Echoed -> Held]),
           \A i \in 1..Len(reports') : reports'[i][1] = "settings" => "settings" \in seen',
           BoardGets' = BoardGets \/ "lost" \in seen'
    PROVE  Inv'
<1>1. Types /\ Marked /\ Clean
  BY DEF Inv
<1>2. Types'
  BY <1>1 DEF Types, Worse
<1>3. Marked'
  BY <1>1 DEF Marked, Worse
<1>4. Clean'
  BY <1>1, CleanLasts DEF Clean, Worse
<1>5. LastWord'
  <2>1. seen \subseteq seen'
    BY DEF Worse
  <2> QED
    BY <2>1 DEF Inv, LastWord
<1> QED
  BY <1>2, <1>3, <1>4, <1>5 DEF Inv

\* What is left of a queue is clean, and its last message is the last still.
LEMMA QueueTail ==
    ASSUME Inv, toBoard # <<>>
    PROVE  /\ Head(toBoard) \in [Shared -> Held] /\ Uncut(Head(toBoard), seen)
           /\ Tail(toBoard) \in Seq([Shared -> Held])
           /\ \A i \in 1..Len(Tail(toBoard)) : Uncut(Tail(toBoard)[i], seen)
           /\ toBoard[Len(toBoard)] =
                 IF Tail(toBoard) = <<>> THEN Head(toBoard) ELSE Tail(toBoard)[Len(Tail(toBoard))]
<1>1. toBoard \in Seq([Shared -> Held]) /\ \A i \in 1..Len(toBoard) : Uncut(toBoard[i], seen)
  BY DEF Inv, Types, Clean
<1>2. Len(toBoard) \in Nat /\ Len(toBoard) > 0
  BY <1>1, EmptySeq, LenProperties
<1>3. /\ Head(toBoard) \in [Shared -> Held] /\ Head(toBoard) = toBoard[1]
      /\ Tail(toBoard) \in Seq([Shared -> Held]) /\ Len(Tail(toBoard)) = Len(toBoard) - 1
      /\ \A i \in 1..(Len(toBoard) - 1) : Tail(toBoard)[i] = toBoard[i + 1]
  BY <1>1, <1>2, HeadTailProperties
<1> DEFINE rest == Tail(toBoard)
<1> HIDE DEF rest
<1>4. /\ rest \in Seq([Shared -> Held]) /\ Len(rest) = Len(toBoard) - 1
      /\ \A i \in 1..(Len(toBoard) - 1) : rest[i] = toBoard[i + 1]
  BY <1>3 DEF rest
<1>5. rest = <<>> <=> Len(toBoard) = 1
  BY <1>2, <1>4, EmptySeq
<1>6. toBoard[Len(toBoard)] = IF rest = <<>> THEN Head(toBoard) ELSE rest[Len(rest)]
  <2>1. CASE rest = <<>>
    BY <1>3, <1>5, <2>1
  <2>2. CASE rest # <<>>
    <3>0. Len(toBoard) # 1
      BY <1>5, <2>2, Zenon
    <3>1. Len(toBoard) - 1 \in 1..(Len(toBoard) - 1)
      <4>1. \A n \in Nat : n > 0 /\ n # 1 => n - 1 \in 1..(n - 1)
        OBVIOUS
      <4> QED
        BY <1>2, <3>0, <4>1, Zenon
    <3>2. rest[Len(toBoard) - 1] = toBoard[(Len(toBoard) - 1) + 1]
      BY <1>4, <3>1
    <3> QED
      BY <1>2, <1>4, <2>2, <3>2
  <2> QED
    BY <2>1, <2>2
<1>7. \A i \in 1..Len(rest) : Uncut(rest[i], seen)
  BY <1>1, <1>2, <1>4
<1>8. Uncut(Head(toBoard), seen)
  BY <1>1, <1>2, <1>3
<1> QED
  BY <1>3, <1>6, <1>7, <1>8 DEF rest

LEMMA ReportsTail ==
    ASSUME Inv, reports # <<>>
    PROVE  /\ Head(reports) \in {"state", "settings"} \X [Echoed -> Held]
           /\ Head(reports)[1] = "settings" => "settings" \in seen
           /\ Tail(reports) \in Seq({"state", "settings"} \X [Echoed -> Held])
           /\ \A i \in 1..Len(Tail(reports)) :
                 Tail(reports)[i][1] = "settings" => "settings" \in seen
<1>1. /\ reports \in Seq({"state", "settings"} \X [Echoed -> Held])
      /\ \A i \in 1..Len(reports) : reports[i][1] = "settings" => "settings" \in seen
  BY DEF Inv, Types, Clean
<1>2. Len(reports) \in Nat /\ Len(reports) > 0
  BY <1>1, EmptySeq, LenProperties
<1>3. /\ Head(reports) \in {"state", "settings"} \X [Echoed -> Held] /\ Head(reports) = reports[1]
      /\ Tail(reports) \in Seq({"state", "settings"} \X [Echoed -> Held])
      /\ Len(Tail(reports)) = Len(reports) - 1
      /\ \A i \in 1..(Len(reports) - 1) : Tail(reports)[i] = reports[i + 1]
  BY <1>1, <1>2, HeadTailProperties
<1>4. \A i \in 1..Len(Tail(reports)) : Tail(reports)[i][1] = "settings" => "settings" \in seen
  BY <1>1, <1>2, <1>3
<1> QED
  BY <1>1, <1>2, <1>3, <1>4

LEMMA LinkKeeps ==
    ASSUME Inv, ReadReport \/ BoardReports \/ BoardTakes \/ Lose
    PROVE  Inv'
<1>1. Types /\ Marked /\ Clean
  BY DEF Inv
<1>2. ops \in 0..MaxOps /\ board \in [Shared -> Held] /\ Uncut(board, seen)
  BY <1>1 DEF Types, Clean
<1>3. /\ toBoard \in Seq([Shared -> Held])
      /\ \A i \in 1..Len(toBoard) : Uncut(toBoard[i], seen)
      /\ reports \in Seq({"state", "settings"} \X [Echoed -> Held])
      /\ \A i \in 1..Len(reports) : reports[i][1] = "settings" => "settings" \in seen
  BY <1>1 DEF Types, Clean
<1>4. CASE ReadReport
  <2> DEFINE kind == Head(reports)[1]
             values == Head(reports)[2]
  <2>1. /\ reports # <<>> /\ reports' = Tail(reports)
        /\ ram' = (IF kind = "state" THEN TakesState(ram, values) ELSE TakesSettings(ram, values))
        /\ UNCHANGED <<store, mode, board, toBoard, boots, ops, trouble, told>>
    BY <1>4 DEF ReadReport
  <2>2. /\ kind \in {"state", "settings"} /\ values \in [Echoed -> Held]
        /\ kind = "settings" => "settings" \in seen
    BY <2>1, ReportsTail
  <2> HIDE DEF kind, values
  <2>3. TakesState(ram, values) \in Settings /\ TakesSettings(ram, values) \in Settings
    BY <1>1, <2>2 DEF TakesState, TakesSettings, Types, Settings, Held
  <2>4. /\ TakesState(ram, values)["sport"] = ram["sport"]
        /\ TakesState(ram, values)["schedulers"] = ram["schedulers"]
        /\ TakesSettings(ram, values)["sport"] = ram["sport"]
    BY <2>2, Names DEF TakesState, TakesSettings
  <2>5. ram' \in Settings /\ Uncut(ram', seen) /\ Untorn(ram', seen)
    BY <1>1, <2>1, <2>2, <2>3, <2>4 DEF Clean, Uncut, Untorn
  <2>6. /\ reports' \in Seq({"state", "settings"} \X [Echoed -> Held])
        /\ \A i \in 1..Len(reports') : reports'[i][1] = "settings" => "settings" \in seen
    BY <2>1, ReportsTail
  <2>7. Types'
    BY <1>1, <2>1, <2>5, <2>6 DEF Types, store, trouble
  <2>8. Marked' /\ LastWord'
    BY <1>1, <2>1 DEF Inv, Marked, LastWord, BoardGets, store, trouble
  <2>9. Clean'
    BY <1>1, <2>1, <2>5, <2>6 DEF Clean, store, trouble
  <2> QED
    BY <2>7, <2>8, <2>9 DEF Inv
<1>5. CASE BoardReports
  <2>1. PICK kind \in {"state", "settings"} :
           /\ IF kind = "state" THEN UNCHANGED trouble ELSE Fails({"settings"})
           /\ reports' = Append(reports, <<kind, [f \in Echoed |-> board[f]]>>)
    BY <1>5 DEF BoardReports
  <2>2. UNCHANGED <<ram, marker, record, flash, mode, boots, told, ops, board, toBoard>>
    BY <1>5 DEF BoardReports, store
  <2>3. Worse /\ (kind = "settings" => "settings" \in seen')
    BY <1>1, <2>1, FailsAdds, TroubleStays
  <2>4. seen \subseteq seen'
    BY <2>3 DEF Worse
  <2> DEFINE frame == <<kind, [f \in Echoed |-> board[f]]>>
  <2>5. frame \in {"state", "settings"} \X [Echoed -> Held] /\ frame[1] = kind
    BY <1>2 DEF Shared
  <2> HIDE DEF frame
  <2>6. /\ reports' \in Seq({"state", "settings"} \X [Echoed -> Held])
        /\ Len(reports') = Len(reports) + 1 /\ reports'[Len(reports) + 1] = frame
        /\ \A i \in 1..Len(reports) : reports'[i] = reports[i]
        /\ Len(reports) \in Nat
    BY <1>3, <2>1, <2>5, AppendProperties, LenProperties DEF frame
  <2>7. \A i \in 1..Len(reports') : reports'[i][1] = "settings" => "settings" \in seen'
    <3> SUFFICES ASSUME NEW i \in 1..Len(reports'), reports'[i][1] = "settings"
                 PROVE  "settings" \in seen'
      OBVIOUS
    <3>1. i \in 1..Len(reports) \/ i = Len(reports) + 1
      BY <2>6
    <3> QED
      BY <1>3, <2>3, <2>4, <2>5, <2>6, <3>1
  <2>8. BoardGets' = BoardGets
    BY <2>2 DEF BoardGets
  <2>9. Uncut(board', seen') /\ \A i \in 1..Len(toBoard') : Uncut(toBoard'[i], seen')
    BY <1>2, <1>3, <2>2, <2>4, CleanLasts
  <2> QED
    BY <1>2, <1>3, <2>2, <2>3, <2>6, <2>7, <2>8, <2>9, BoardKeeps
<1>6. CASE BoardTakes
  <2>1. /\ toBoard # <<>> /\ board' = Head(toBoard) /\ toBoard' = Tail(toBoard)
        /\ UNCHANGED <<ram, store, mode, reports, boots, ops, trouble, told>>
    BY <1>6 DEF BoardTakes
  <2>2. Worse /\ seen' = seen
    BY <1>1, <2>1, TroubleStays DEF trouble
  <2>3. BoardGets' = BoardGets
    BY <2>1, QueueTail DEF BoardGets
  <2>4. /\ board' \in [Shared -> Held] /\ Uncut(board', seen')
        /\ toBoard' \in Seq([Shared -> Held])
        /\ \A i \in 1..Len(toBoard') : Uncut(toBoard'[i], seen')
    BY <2>1, <2>2, QueueTail
  <2>5. UNCHANGED <<ram, marker, record, flash, mode, boots, told, ops, reports>>
    BY <2>1 DEF store
  <2> QED
    BY <1>2, <1>3, <2>2, <2>3, <2>4, <2>5, BoardKeeps
<1>7. CASE Lose
  <2>1. /\ Fails({"lost"})
        /\ \/ toBoard # <<>> /\ toBoard' = Tail(toBoard) /\ UNCHANGED reports
           \/ reports # <<>> /\ reports' = Tail(reports) /\ UNCHANGED toBoard
        /\ UNCHANGED <<ram, marker, record, flash, mode, board, boots, ops, told>>
    BY <1>7 DEF Lose, store
  <2>2. Worse /\ "lost" \in seen'
    BY <1>1, <2>1, FailsAdds
  <2>3. seen \subseteq seen'
    BY <2>2 DEF Worse
  <2>4. /\ toBoard' \in Seq([Shared -> Held])
        /\ \A i \in 1..Len(toBoard') : Uncut(toBoard'[i], seen)
    <3>1. CASE toBoard # <<>> /\ toBoard' = Tail(toBoard)
      BY <3>1, QueueTail
    <3>2. CASE UNCHANGED toBoard
      BY <1>3, <3>2
    <3> QED
      BY <2>1, <3>1, <3>2
  <2>5. /\ reports' \in Seq({"state", "settings"} \X [Echoed -> Held])
        /\ \A i \in 1..Len(reports') : reports'[i][1] = "settings" => "settings" \in seen
    <3>1. CASE reports # <<>> /\ reports' = Tail(reports)
      BY <3>1, ReportsTail
    <3>2. CASE UNCHANGED reports
      BY <1>3, <3>2
    <3> QED
      BY <2>1, <3>1, <3>2
  <2>6. Uncut(board', seen') /\ \A i \in 1..Len(toBoard') : Uncut(toBoard'[i], seen')
    BY <1>2, <2>1, <2>3, <2>4, CleanLasts
  <2>7. \A i \in 1..Len(reports') : reports'[i][1] = "settings" => "settings" \in seen'
    BY <2>3, <2>5
  <2> QED
    BY <1>2, <2>1, <2>2, <2>4, <2>5, <2>6, <2>7, BoardKeeps
<1> QED
  BY <1>4, <1>5, <1>6, <1>7

LEMMA StepKeeps == Inv /\ [Next]_vars => Inv'
<1> SUFFICES ASSUME Inv, [Next]_vars PROVE Inv'
  OBVIOUS
<1>1. CASE RilReady
  <2>1. PICK fail \in SUBSET ReadFaults :
           /\ Fails(fail) /\ ReadsBack(record, flash, ram, fail)
           /\ told' = (told /\ ~ Restores(record, fail))
    BY <1>1 DEF RilReady
  <2>2. /\ mode' = "run" /\ boots' = IF boots < 2 THEN boots + 1 ELSE boots
        /\ UNCHANGED link /\ ops' = ops
    BY <1>1 DEF RilReady
  <2>3. ops' \in 0..MaxOps
    BY <2>2 DEF Inv, Types
  <2> QED
    BY <2>1, <2>2, <2>3, ReadsBackKeeps
<1>2. CASE Operator
  BY <1>2, CommandKeeps, ConfigKeeps DEF Operator
<1>3. CASE ReadReport \/ BoardReports \/ BoardTakes \/ Lose
  BY <1>3, LinkKeeps
<1>4. CASE UNCHANGED vars
  BY <1>4
  DEF vars, Inv, Types, Marked, Clean, LastWord, BoardGets, store, link, trouble
<1> QED
  BY <1>1, <1>2, <1>3, <1>4 DEF Next

LEMMA InitKeeps == Init => Inv
<1> SUFFICES ASSUME Init PROVE Inv
  OBVIOUS
<1>1. Defaults \in Settings /\ Defaults["sport"] = Default /\ Defaults["schedulers"] = Default
  BY Names DEF Defaults, Settings, Held
<1>2. /\ toBoard \in Seq([Shared -> Held]) /\ Len(toBoard) = 0
      /\ reports \in Seq({"state", "settings"} \X [Echoed -> Held]) /\ Len(reports) = 0
  BY EmptySeq DEF Init
<1>3. marker \in BOOLEAN /\ record \in BOOLEAN /\ told \in BOOLEAN /\ ~ told
  BY DEF Init
<1>4. /\ board \in [Shared -> Value] /\ ram = Defaults /\ flash = Defaults /\ mode = "boot"
      /\ boots = 0 /\ ops = 0 /\ faults = 0 /\ seen = {}
  BY DEF Init
<1>5. Types
  BY <1>1, <1>2, <1>3, <1>4, SettingsAssumption DEF Types, Held
<1>6. Marked /\ LastWord
  BY <1>3, <1>4 DEF Marked, LastWord
<1>7. Clean
  BY <1>1, <1>2, <1>4, Names DEF Clean, Uncut, Untorn
<1> QED
  BY <1>5, <1>6, <1>7 DEF Inv

(***************************************************************************)
(* What Inv gives                                                          *)
(***************************************************************************)
\* From the second boot on the settings are stored, if nothing failed.
THEOREM SettingsTypeCorrect == Spec => []TypeOK
<1>1. Inv => TypeOK
  BY DEF Inv, Types, Marked, TypeOK
<1> QED
  BY InitKeeps, StepKeeps, <1>1, PTL DEF Spec

\* The cut sport and the torn schedulers stay in RAM, unless a read or a store
\* failed, or the board sent the frame that tears.
THEOREM CutStaysInRam == Spec => []CutStays
<1>1. Inv => CutStays
  BY DEF Inv, Clean, CutStays, Uncut, Untorn
<1> QED
  BY InitKeeps, StepKeeps, <1>1, PTL DEF Spec

\* The board gets what was saved, whatever is queried, reported or reset.
THEOREM SaverHasLastWord == Spec => []LastWord
<1>1. Inv => LastWord
  BY DEF Inv
<1> QED
  BY InitKeeps, StepKeeps, <1>1, PTL DEF Spec

\* Booting keeps the stored settings, if they can be read.
THEOREM BootKeepsStored == Spec => BootKeepsSettings
<1>1. Inv /\ [Next]_vars => [mode = "boot" /\ record /\ flash' # flash => "read" \in seen']_vars
  <2> SUFFICES ASSUME Inv, Next, mode = "boot", record, flash' # flash PROVE "read" \in seen'
    OBVIOUS
  <2>1. CASE RilReady
    <3>1. PICK fail \in SUBSET ReadFaults : Fails(fail) /\ ReadsBack(record, flash, ram, fail)
      BY <2>1 DEF RilReady
    <3>2. "read" \in fail
      BY <3>1 DEF ReadsBack, Restores, RecordRead
    <3> QED
      BY <3>1, <3>2 DEF Fails
  <2>2. ~ Operator
    <3>1. ~ Command
      BY DEF Command
    <3>2. /\ ~ MenuSets /\ ~ MenuSetsAndSaves /\ ~ MenuSaves
          /\ ~ Lights /\ ~ WriteOnly /\ ~ WebSettings
      BY <3>1 DEF MenuSets, MenuSetsAndSaves, MenuSaves, Lights, WriteOnly, WebSettings
    <3>3. ~ ConfigForm /\ ~ ConfigReboot /\ ~ ConfigQuery /\ ~ Reset /\ ~ PowerFails
      BY <3>1, Zenon DEF ConfigForm, ConfigReboot, ConfigQuery, Reset, PowerFails
    <3> QED
      BY <3>2, <3>3 DEF Operator
  <2>3. CASE ReadReport \/ BoardReports \/ BoardTakes \/ Lose
    BY <2>3 DEF ReadReport, BoardReports, BoardTakes, Lose, store
  <2> QED
    BY <2>1, <2>2, <2>3 DEF Next
<1> QED
  BY InitKeeps, StepKeeps, <1>1, PTL DEF Spec, BootKeepsSettings
=============================================================================
