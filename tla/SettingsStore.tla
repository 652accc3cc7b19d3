--------------------------- MODULE SettingsStore ----------------------------
(***************************************************************************)
(* The settings and their copies.                                          *)
(*                                                                         *)
(* The settings live in RAM (__mdm_settings), in the modem's secure data   *)
(* (block 13, with a marker in block 1) and, some of them, in the SAM      *)
(* board.  The menu edits RAM; commands write RAM to flash, with or without *)
(* telling the board; the board's reports overwrite RAM.  Every result of  *)
(* a read or store is at most logged.                                      *)
(*                                                                         *)
(* Settings are grouped by what the code does with them: those only the    *)
(* modem knows, those the board gets and reports back, and those it gets   *)
(* and does not report.                                                    *)
(***************************************************************************)
EXTENDS Naturals, Sequences, FiniteSets

CONSTANTS
    Plain,      \* settings of the modem only; "schedulers" is one
    Echoed,     \* sent to the board and reported by it
    Given,      \* sent to the board only; "sport" and "use_sched" are two
    Value,      \* what a setting may be
    Default, Off, \* two of them: the initial one, and FALSE
    Cut,        \* sport after strtok has cut it up
    Torn,       \* schedulers with a foreign byte in front
    Faults,     \* subset of FaultKinds
    MaxFaults,  \* bound
    MaxTokens,  \* bound: settings in one form
    MaxOps,     \* bound: commands, and resets
    MaxFlight   \* bound: messages on the way, in each direction

Setting == Plain \cup Echoed \cup Given
Shared  == Echoed \cup Given
Held    == Value \cup {Cut, Torn}

\* A store of block 13 fails ("save", "sched", "restore"), of block 1 ("remark"),
\* a read of block 1 ("mark") or 13 ("read"); power fails between two of these;
\* a message is lost; the board sends a getsettings frame.
FaultKinds == {"save", "sched", "restore", "remark", "mark", "read",
               "power", "lost", "settings"}

ASSUME SettingsAssumption ==
    /\ "schedulers" \in Plain /\ {"sport", "use_sched"} \subseteq Given
    /\ Plain \cap Shared = {} /\ Echoed \cap Given = {}
    /\ {Default, Off} \subseteq Value /\ Cut # Torn /\ {Cut, Torn} \cap Value = {}
    /\ Faults \subseteq FaultKinds
    /\ MaxFaults \in Nat /\ MaxTokens \in Nat /\ MaxOps \in Nat /\ MaxFlight \in Nat

VARIABLES
    ram,       \* __mdm_settings
    marker,    \* block 1 holds CONFIG
    record,    \* block 13 has been stored
    flash,     \* what it holds then
    mode,      \* "boot" or "run"
    board,     \* the board's copy
    toBoard,   \* setsettings messages on their way
    reports,   \* frames of the board on their way, <<kind, values>>
    boots, ops, \* counts
    faults, seen,  \* number and kinds of the faults that happened
    told       \* history: the last write of flash was followed by its message

store   == <<marker, record, flash>>
link    == <<board, toBoard, reports>>
trouble == <<faults, seen>>
vars    == <<ram, store, mode, link, boots, ops, trouble, told>>

Fails(kinds) ==
    /\ kinds \subseteq Faults /\ faults + Cardinality(kinds) <= MaxFaults
    /\ faults' = faults + Cardinality(kinds) /\ seen' = seen \cup kinds

Defaults == [f \in Setting |-> Default]
\* Mutant: all of the settings go to the board.
ForBoardAll(r) == r

ForBoard(r) == [f \in Shared |-> r[f]]
Strtok(r) == [r EXCEPT !["sport"] = Cut]
With(r, set) == [f \in Setting |-> IF f \in DOMAIN set THEN set[f] ELSE r[f]]
-----------------------------------------------------------------------------
(* own_settings.c                                                          *)

\* read_mdm_settings with r in RAM and, if has holds, d in block 13.  Marking
\* block 1 returns 0, and only a result above 0 would go on to write.
MarkRead(fail)        == marker /\ "mark" \notin fail
RecordRead(has, fail) == has /\ "read" \notin fail

\* Mutant: a mark that cannot be read is taken for a first boot.
RestoresUnmarked(has, fail) ==
    (~MarkRead(fail) \/ ~RecordRead(has, fail)) /\ "restore" \notin fail

Restores(has, fail) ==
    MarkRead(fail) /\ ~RecordRead(has, fail) /\ "restore" \notin fail

ReadsBack(has, d, r, fail) ==
    /\ marker' = (marker \/ "remark" \notin fail)
    /\ record' = (has \/ Restores(has, fail))
    /\ flash' = IF Restores(has, fail) THEN r ELSE d
    /\ ram' = IF MarkRead(fail) /\ RecordRead(has, fail) THEN d ELSE r

ReadFaults == {"restore", "remark", "mark", "read"}

\* write_mdm_settings alone
Writes(r) ==
    \E fail \in SUBSET {"save"} :
        /\ Fails(fail)
        /\ record' = (record \/ fail = {})
        /\ flash' = IF fail = {} THEN r ELSE flash
        /\ ram' = r
        /\ told' = (told /\ fail # {})
        /\ UNCHANGED <<marker, mode, link, boots>>

\* Mutant: what telling the board spoilt is not read back.
SavesAfterKeepsRam(has, d, r, fail) ==
    LET saved == "save" \notin fail
    IN /\ record' = (has \/ saved) /\ flash' = IF saved THEN r ELSE d
       /\ ram' = Strtok(r)
       /\ Len(toBoard) < MaxFlight /\ toBoard' = Append(toBoard, ForBoard(r))
       /\ told' = saved
       /\ UNCHANGED <<marker, mode, board, reports, boots>>

\* save_all_settings with r in RAM and d in block 13: write, tell the board,
\* read back.
SavesAfter(has, d, r, fail) ==
    LET saved == "save" \notin fail
        has1  == has \/ saved
    IN /\ ReadsBack(has1, IF saved THEN r ELSE d, Strtok(r), fail)
       /\ Len(toBoard) < MaxFlight /\ toBoard' = Append(toBoard, ForBoard(r))
       /\ told' = (saved /\ ~Restores(has1, fail))
       /\ UNCHANGED <<mode, board, reports, boots>>

\* The same, in a handler that left one of these in RAM.
SavesOne(rams) ==
    \E fail \in SUBSET (ReadFaults \cup {"save"}) :
        /\ Fails(fail)
        /\ \E r \in rams : SavesAfter(record, flash, r, fail)
-----------------------------------------------------------------------------
Init ==
    /\ ram = Defaults /\ marker = FALSE /\ record = FALSE /\ flash = Defaults
    /\ mode = "boot" /\ board \in [Shared -> Value] /\ toBoard = <<>> /\ reports = <<>>
    /\ boots = 0 /\ ops = 0 /\ faults = 0 /\ seen = {} /\ told = FALSE

\* Ql_Reset: RAM holds the defaults of the program, what came over the UART is
\* lost; the board keeps its settings.
Boots ==
    /\ mode' = "boot" /\ ram' = Defaults /\ reports' = <<>>
    /\ UNCHANGED <<marker, board, toBoard, boots>>

\* MSG_ID_RIL_READY
RilReady ==
    /\ mode = "boot"
    /\ \E fail \in SUBSET ReadFaults :
         /\ Fails(fail)
         /\ ReadsBack(record, flash, ram, fail)
         /\ told' = (told /\ ~Restores(record, fail))
    /\ mode' = "run" /\ boots' = IF boots < 2 THEN boots + 1 ELSE boots
    /\ UNCHANGED <<link, ops>>
-----------------------------------------------------------------------------
(* Commands of the menu, the console, the web page and the server.         *)

Command == mode = "run" /\ ops < MaxOps /\ ops' = ops + 1

\* menu: 1 to 5, 7, 10, 11, 13, 14 and 21 change RAM.
MenuSets ==
    /\ Command
    /\ \E f \in Setting \ {"schedulers", "sport"}, v \in Value :
         ram' = [ram EXCEPT ![f] = v]
    /\ UNCHANGED <<store, mode, link, boots, trouble, told>>

\* menu: act_door, act_in, act_anin, deadband (17 to 20)
MenuSetsAndSaves ==
    /\ Command
    /\ SavesOne({[ram EXCEPT ![f] = v] : f \in Echoed, v \in Value})

\* menu: 15 - SAVE SETTINGS
MenuSaves == Command /\ SavesOne({ram})

\* lights of the menu, LIGHTS: of the console, lion and lioff of the web page,
\* OUT of the server: the schedule goes off.
Lights == Command /\ SavesOne({[ram EXCEPT !["use_sched"] = Off]})

\* EST on and off (menu, web page), SPASS of the console, the update flag:
\* flash gets all of RAM and the board is not told.
WriteOnly ==
    /\ Command
    /\ \E f \in Plain \ {"schedulers"}, v \in Value : Writes([ram EXCEPT ![f] = v])

Forms(S) == UNION {[T -> Value] : T \in {T \in SUBSET S : Cardinality(T) \in 1..MaxTokens}}

\* settings? of the web page: set_command for each pair, then save_all_settings
WebSettings ==
    /\ Command
    /\ SavesOne({With(ram, form) : form \in Forms(Setting \ {"schedulers", "sport"})})

\* RAM when SCHED, which writes it to flash at once, is one of the tokens, and
\* those in T come before it.
AtSched(form, T) == With(ram, [f \in T \cup {"schedulers"} |-> form[f]])

\* CONFIG: of the console (set_config_form)
ConfigForm ==
    /\ Command
    /\ \E fail \in SUBSET (ReadFaults \cup {"save", "sched"}) :
         /\ Fails(fail)
         /\ \E form \in Forms(Setting) :
              IF "schedulers" \in DOMAIN form /\ "sched" \notin fail
              THEN \E T \in SUBSET DOMAIN form :
                       SavesAfter(TRUE, AtSched(form, T), With(ram, form), fail)
              ELSE SavesAfter(record, flash, With(ram, form), fail)

\* The same with a REBOOT token: nothing is saved but what SCHED wrote.
ConfigReboot ==
    /\ Command /\ Boots
    /\ \E form \in Forms(Setting) :
         IF "schedulers" \in DOMAIN form
         THEN /\ \E T \in SUBSET DOMAIN form : flash' = AtSched(form, T)
              /\ record' = TRUE /\ told' = FALSE
         ELSE UNCHANGED <<flash, record, told>>
    /\ UNCHANGED trouble

\* CONFIG? of the console (get_config_form) reads flash first.
ConfigQuery ==
    /\ Command
    /\ \E fail \in SUBSET ReadFaults :
         /\ Fails(fail)
         /\ ReadsBack(record, flash, ram, fail)
         /\ told' = (told /\ ~Restores(record, fail))
    /\ UNCHANGED <<mode, link, boots>>

\* Ql_Reset from anywhere, and power failures between two handlers
Reset ==
    /\ Command /\ Boots
    /\ UNCHANGED <<record, flash, trouble, told>>

\* Power fails in save_all_settings before the board is told.
PowerFails ==
    /\ Command /\ Fails({"power"}) /\ Boots
    /\ record' = TRUE /\ flash' = ram /\ told' = FALSE
-----------------------------------------------------------------------------
(* The board.                                                              *)

\* Mutant: the board's values are only shown.
ReadReportIgnores ==
    /\ mode = "run" /\ reports # <<>>
    /\ reports' = Tail(reports)
    /\ UNCHANGED <<ram, store, mode, board, toBoard, boots, ops, trouble, told>>

\* extract, for state: the values it reports overwrite those in RAM.
TakesState(r, values) == [f \in Setting |-> IF f \in Echoed THEN values[f] ELSE r[f]]

\* extract, for getsettings: two bytes are copied into the one of deadband, and
\* the second falls on schedulers.
TakesSettings(r, values) == [TakesState(r, values) EXCEPT !["schedulers"] = Torn]

ReadReport ==
    /\ mode = "run" /\ reports # <<>>
    /\ LET kind == Head(reports)[1]
           values == Head(reports)[2]
       IN ram' = IF kind = "state" THEN TakesState(ram, values) ELSE TakesSettings(ram, values)
    /\ reports' = Tail(reports)
    /\ UNCHANGED <<store, mode, board, toBoard, boots, ops, trouble, told>>

\* The board answers the question tmr_sam_cync sends in each quiet period, and
\* those before it; it may send its settings too.
BoardReports ==
    /\ mode = "run" /\ Len(reports) < MaxFlight
    /\ \E kind \in {"state", "settings"} :
         /\ IF kind = "state" THEN UNCHANGED trouble ELSE Fails({"settings"})
         /\ reports' = Append(reports, <<kind, [f \in Echoed |-> board[f]]>>)
    /\ UNCHANGED <<ram, store, mode, board, toBoard, boots, ops, told>>

\* Mutant: the board takes the messages of a burst in the wrong order.
BoardTakesLast ==
    /\ toBoard # <<>>
    /\ board' = toBoard[Len(toBoard)] /\ toBoard' = SubSeq(toBoard, 1, Len(toBoard) - 1)
    /\ UNCHANGED <<ram, store, mode, reports, boots, ops, trouble, told>>

BoardTakes ==
    /\ toBoard # <<>>
    /\ board' = Head(toBoard) /\ toBoard' = Tail(toBoard)
    /\ UNCHANGED <<ram, store, mode, reports, boots, ops, trouble, told>>

Lose ==
    /\ Fails({"lost"})
    /\ \/ toBoard # <<>> /\ toBoard' = Tail(toBoard) /\ UNCHANGED reports
       \/ reports # <<>> /\ reports' = Tail(reports) /\ UNCHANGED toBoard
    /\ UNCHANGED <<ram, store, mode, board, boots, ops, told>>
-----------------------------------------------------------------------------
Operator ==
    \/ MenuSets \/ MenuSetsAndSaves \/ MenuSaves \/ Lights \/ WriteOnly
    \/ WebSettings \/ ConfigForm \/ ConfigReboot \/ ConfigQuery
    \/ Reset \/ PowerFails

Next == RilReady \/ Operator \/ ReadReport \/ BoardReports \/ BoardTakes \/ Lose

Spec == Init /\ [][Next]_vars

\* The device boots, the UART is served on both sides, and tmr_sam_cync keeps
\* asking the board for its state.
FairSpec ==
    /\ Spec
    /\ WF_vars(RilReady) /\ WF_vars(ReadReport) /\ WF_vars(BoardReports) /\ WF_vars(BoardTakes)
-----------------------------------------------------------------------------
Settings == [Setting -> Held]

\* Types, and: the first boot stores no settings (only the marker); from the
\* second on they are there if nothing failed.
TypeOK ==
    /\ ram \in Settings /\ marker \in BOOLEAN /\ record \in BOOLEAN /\ flash \in Settings
    /\ mode \in {"boot", "run"}
    /\ board \in [Shared -> Held] /\ toBoard \in Seq([Shared -> Held])
    /\ reports \in Seq({"state", "settings"} \X [Echoed -> Held])
    /\ boots \in 0..2 /\ ops \in 0..MaxOps
    /\ faults \in Nat /\ seen \subseteq FaultKinds /\ told \in BOOLEAN
    /\ mode = "run" /\ boots = 2 /\ faults = 0 => record

\* write_sam_settings cuts up sport in RAM while it reads it, and a getsettings
\* frame tears schedulers.  Neither gets into flash, or to the board, but
\* through a read of the settings that fails, a store that fails before any has
\* succeeded (the settings are stored for want of a record), or that frame.
CutStays ==
    /\ \A r \in {ram, flash} \cup {board} \cup {toBoard[i] : i \in 1..Len(toBoard)} :
         r["sport"] = Cut => seen \cap {"mark", "read", "remark", "save"} # {}
    /\ flash["schedulers"] = Torn => "settings" \in seen

\* What the board holds, or will when it has taken the messages on their way.
BoardGets == IF toBoard = <<>> THEN board ELSE toBoard[Len(toBoard)]

\* After a save the board gets what flash holds, whatever is queried, reported
\* or reset meanwhile, until flash is written without a message.
LastWord == told /\ "lost" \notin seen => BoardGets = ForBoard(flash)

\* A boot changes stored settings only if it cannot read them.
BootKeepsSettings ==
    [][mode = "boot" /\ record /\ flash' # flash => "read" \in seen']_vars

\* When the operator is done, RAM comes to hold what the board reports, for good.
BoardWins == <>[](\A f \in Echoed : ram[f] = board[f])
=============================================================================
