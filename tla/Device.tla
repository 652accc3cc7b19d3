------------------------------ MODULE Device --------------------------------
(***************************************************************************)
(* The device from its boot to the work cycle, and the mirror of the       *)
(* board's pins it keeps meanwhile.                                        *)
(*                                                                         *)
(* After a reset the device waits for the network, or resets again.  Once  *)
(* registered it looks at the modem's time setting, which it sets with one *)
(* more reset, starts the work cycle (EstLink), and asks the SAM board for *)
(* its state; it asks again when the board is silent for a period, and     *)
(* resets after four questions without a sign of life.  Between two states *)
(* the mirror follows the board's events.  How frames are cut out of the   *)
(* UART is in SamLink, the boot into an update in FirmwareUpdate.          *)
(***************************************************************************)
EXTENDS Naturals, Sequences, FiniteSets

CONSTANTS
    Input, Output, Analog,  \* the board's pins
    Level,      \* analog values
    Faults,     \* subset of FaultKinds
    MaxFaults,  \* bound
    MaxChanges, \* bound: changes of pins and of the network
    MaxFlight   \* bound: frames on the way from the board

\* A frame of the board is lost; the board hangs for a time; a period ends
\* while the board's answer is on its way; registration takes longer than
\* the timer; AT+CTZU=3 is not taken; AT+CTZU? ends in an error, or its
\* answer is missed.
FaultKinds == {"lost", "deaf", "late", "slow", "ctzu", "cme", "missed"}

ASSUME DeviceAssumption ==
    /\ Faults \subseteq FaultKinds
    /\ MaxFaults \in Nat /\ MaxChanges \in Nat /\ MaxFlight \in Nat \ {0}
    /\ 0 \in Level

VARIABLES
    phase,     \* "boot", "waiting" for the network, or in the work "cycle"
    network,   \* what the modem sees: 1 is registered at home
    reported,  \* URC_GPRS_NW_STATE_IND last reported, or None
    ctzu,      \* the modem's time setting: 0 or 3
    run, need, \* __run, __need_reboot
    armed,     \* SYNC_SAM_MSG runs
    count,     \* __sync_msg_count
    mirror,    \* __pins_input_value, __pins_output_value, __pins_anl_value, __power_state
    pins,      \* what they are on the board
    deaf,      \* the board hangs
    asked,     \* questions on the way to the board
    frames,    \* frames on the way from the board
    faults, changes,
    sure,      \* history: no event was lost since the board last sent its state
    unheard,   \* history: questions lost since the last read, with their answers
    resets,    \* history: resets for AT+CTZU=3
    excused    \* history: times such a reset was to be expected again

modem   == <<network, reported, ctzu>>
boot    == <<phase, run, need>>
syncing == <<armed, count>>
board   == <<pins, deaf>>
line    == <<asked, frames>>
bounds  == <<faults, changes>>
time    == <<resets, excused>>
vars    == <<modem, boot, syncing, mirror, board, line, bounds, sure, unheard, time>>

None == 9   \* no report yet
Home == 1   \* the state parse_network_state answers TRUE to
Network == {0, Home, 5}   \* not registered, registered, roaming

Pins == [input : [Input -> {0, 1}], output : [Output -> {0, 1}],
         analog : [Analog -> Level], power : {0, 1}]
Dark == [input |-> [i \in Input |-> 0], output |-> [o \in Output |-> 0],
         analog |-> [a \in Analog |-> 0], power |-> 0]

State(p)         == [kind |-> "state", pins |-> p]
InputEvent(i, v)  == [kind |-> "evti", pin |-> i, val |-> v]
PowerEvent(v)     == [kind |-> "power", val |-> v]   \* evti of input 16
AnalogEvent(a, v) == [kind |-> "evta", pin |-> a, val |-> v]
OutputEvent(o, v) == [kind |-> "evto", pin |-> o, val |-> v]

Frame == [kind : {"state"}, pins : Pins] \cup [kind : {"power"}, val : {0, 1}]
         \cup [kind : {"evti"}, pin : Input, val : {0, 1}]
         \cup [kind : {"evta"}, pin : Analog, val : Level]
         \cup [kind : {"evto"}, pin : Output, val : {0, 1}]

Fault(kind) == kind \in Faults /\ faults < MaxFaults /\ faults' = faults + 1
-----------------------------------------------------------------------------
\* Broken on purpose, for the mutants: a state is copied without the outputs.
AppliedWithoutOutputs(m, f) ==
    CASE f.kind = "state" -> [f.pins EXCEPT !.output = m.output]
      [] f.kind = "power" -> [m EXCEPT !.power = f.val]
      [] f.kind = "evti" ->
             [m EXCEPT !.input[f.pin] = IF f.val = 1 THEN 1 - @ ELSE 0]
      [] f.kind = "evta" -> [m EXCEPT !.analog[f.pin] = f.val]
      [] f.kind = "evto" -> [m EXCEPT !.output[f.pin] = 1 - @]

\* extract: what a frame does to the mirror.  An input event with 1 and every
\* output event toggle a bit ("*data = 1" is an assignment); an input event
\* with another value clears it.
Applied(m, f) ==
    CASE f.kind = "state" -> f.pins
      [] f.kind = "power" -> [m EXCEPT !.power = f.val]
      [] f.kind = "evti" ->
             [m EXCEPT !.input[f.pin] = IF f.val = 1 THEN 1 - @ ELSE 0]
      [] f.kind = "evta" -> [m EXCEPT !.analog[f.pin] = f.val]
      [] f.kind = "evto" -> [m EXCEPT !.output[f.pin] = 1 - @]

\* What the mirror will be when everything on the way has come.
Followed(m, fs) ==
    LET after[n \in 0..Len(fs)] == IF n = 0 THEN m ELSE Applied(after[n - 1], fs[n])
    IN after[Len(fs)]
-----------------------------------------------------------------------------
\* Ql_Reset: RAM is lost, and so is what comes while the UART is closed.
Reset ==
    /\ phase' = "boot" /\ run' = FALSE /\ need' = TRUE
    /\ armed' = FALSE /\ count' = 0
    /\ mirror' = Dark /\ reported' = None
    /\ frames' = <<>> /\ sure' = FALSE /\ unheard' = 0

\* MSG_ID_RIL_READY: init_mdm arms GPRS_REGISTER_TIMER.
RilReady ==
    /\ phase = "boot"
    /\ phase' = "waiting"
    /\ UNCHANGED <<modem, run, need, syncing, mirror, board, line, bounds, sure, unheard, time>>

\* mdm_msg_send of message 1
Asks == asked' = asked + 1

\* Broken on purpose: the setting is looked at and not noted.
TimeSettingForgotten(answer) == run' = (run \/ answer # "missed") /\ UNCHANGED need

\* get_time_synx_cmd
TimeSetting(answer) ==
    /\ run' = (run \/ answer # "missed")
    /\ need' = (need /\ answer # "set")

\* URC_GPRS_NW_STATE_IND with the one state that counts.
Registered ==
    /\ phase # "boot" /\ network = Home /\ reported # network
    /\ reported' = network /\ phase' = "cycle" /\ armed' = TRUE
    /\ Asks
    /\ \/ TimeSetting(IF ctzu = 0 THEN "zero" ELSE "set") /\ UNCHANGED <<faults, excused>>
       \/ Fault("cme") /\ TimeSetting("error") /\ excused' = excused + 1
       \/ Fault("missed") /\ TimeSetting("missed") /\ UNCHANGED excused
    /\ UNCHANGED <<network, ctzu, count, mirror, board, frames, changes, sure, unheard, resets>>

\* The same with any other, roaming included.
NotRegistered ==
    /\ phase # "boot" /\ network # Home /\ reported # network
    /\ reported' = network
    /\ UNCHANGED <<network, ctzu, boot, syncing, mirror, board, line, bounds, sure, unheard, time>>

\* Broken on purpose: the report of the network does not stop the timer.
RegisterExpiresAnyway ==
    /\ phase # "boot"
    /\ IF phase = "waiting" /\ network = Home THEN Fault("slow") ELSE UNCHANGED faults
    /\ Reset
    /\ UNCHANGED <<network, ctzu, board, asked, changes, time>>

\* tmr_register_gprs
RegisterExpires ==
    /\ phase = "waiting"
    /\ IF network = Home THEN Fault("slow") ELSE UNCHANGED faults
    /\ Reset
    /\ UNCHANGED <<network, ctzu, board, asked, changes, time>>

\* tmr_work_cycle, up to tcp_main_function
WorkCycle ==
    /\ phase = "cycle" /\ run /\ need
    /\ \/ ctzu' = 3 /\ UNCHANGED <<faults, excused>>
       \/ Fault("ctzu") /\ UNCHANGED ctzu /\ excused' = excused + 1
    /\ Reset
    /\ resets' = resets + 1
    /\ UNCHANGED <<network, board, asked, changes>>

\* Broken on purpose: a timer that fires once.
SyncExpiresOnce ==
    /\ armed
    /\ IF asked > 0 \/ frames # <<>> THEN Fault("late") ELSE UNCHANGED faults
    /\ \/ count > 3 /\ Reset /\ UNCHANGED asked
       \/ /\ count <= 3
          /\ Asks /\ count' = count + 1 /\ armed' = FALSE
          /\ UNCHANGED <<boot, mirror, reported, frames, sure, unheard>>
    /\ UNCHANGED <<network, ctzu, board, changes, time>>

\* tmr_sam_cync.  A period is long enough for an answer, but for a fault.
SyncExpires ==
    /\ armed
    /\ IF asked > 0 \/ frames # <<>> THEN Fault("late") ELSE UNCHANGED faults
    /\ \/ count > 3 /\ Reset /\ UNCHANGED asked
       \/ /\ count <= 3
          /\ Asks /\ count' = count + 1
          /\ UNCHANGED <<boot, armed, mirror, reported, frames, sure, unheard>>
    /\ UNCHANGED <<network, ctzu, board, changes, time>>

\* Broken on purpose: a read restarts the period and not the count.
ReadFrameKeepsCount ==
    /\ phase # "boot" /\ frames # <<>>
    /\ mirror' = Applied(mirror, Head(frames)) /\ frames' = Tail(frames)
    /\ armed' = TRUE /\ unheard' = 0
    /\ UNCHANGED <<modem, boot, count, board, asked, bounds, sure, time>>

\* callback_samd20_port: any bytes restart the period.
ReadFrame ==
    /\ phase # "boot" /\ frames # <<>>
    /\ mirror' = Applied(mirror, Head(frames)) /\ frames' = Tail(frames)
    /\ armed' = TRUE /\ count' = 0 /\ unheard' = 0
    /\ UNCHANGED <<modem, boot, board, asked, bounds, sure, time>>
-----------------------------------------------------------------------------
\* A frame of the board: while the device boots nobody hears it.
Heard(f) ==
    /\ phase # "boot" /\ Len(frames) < MaxFlight
    /\ frames' = Append(frames, f)
Unheard == phase = "boot" /\ UNCHANGED frames

\* The board answers a question with its state.
BoardAnswers ==
    /\ asked > 0 /\ ~ deaf /\ asked' = asked - 1
    /\ \/ Heard(State(pins)) /\ sure' = TRUE /\ UNCHANGED <<faults, unheard>>
       \/ Unheard /\ UNCHANGED <<faults, unheard, sure>>
       \/ /\ phase # "boot" /\ Fault("lost") /\ unheard' = unheard + 1
          /\ UNCHANGED <<frames, sure>>
    /\ UNCHANGED <<modem, boot, syncing, mirror, board, changes, time>>

BoardIgnores ==
    /\ asked > 0 /\ deaf
    /\ asked' = asked - 1 /\ unheard' = unheard + 1
    /\ UNCHANGED <<modem, boot, syncing, mirror, board, frames, bounds, sure, time>>

\* Pins change, and the board says so.
Changes(p, f) ==
    /\ changes < MaxChanges /\ changes' = changes + 1
    /\ p # pins /\ pins' = p
    /\ \/ ~ deaf /\ Heard(f) /\ UNCHANGED <<faults, sure>>
       \/ ~ deaf /\ phase # "boot" /\ Fault("lost") /\ sure' = FALSE /\ UNCHANGED frames
       \/ (deaf \/ phase = "boot") /\ sure' = FALSE /\ UNCHANGED <<faults, frames>>
    /\ UNCHANGED <<modem, boot, syncing, mirror, deaf, asked, unheard, time>>

PinChanges ==
    \/ \E i \in Input, v \in {0, 1} : Changes([pins EXCEPT !.input[i] = v], InputEvent(i, v))
    \/ \E o \in Output, v \in {0, 1} : Changes([pins EXCEPT !.output[o] = v], OutputEvent(o, v))
    \/ \E a \in Analog, v \in Level : Changes([pins EXCEPT !.analog[a] = v], AnalogEvent(a, v))
    \/ \E v \in {0, 1} : Changes([pins EXCEPT !.power = v], PowerEvent(v))

BoardHangs ==
    /\ ~ deaf /\ Fault("deaf") /\ deaf' = TRUE
    /\ UNCHANGED <<modem, boot, syncing, mirror, pins, line, changes, sure, unheard, time>>

BoardRecovers ==
    /\ deaf /\ deaf' = FALSE
    /\ UNCHANGED <<modem, boot, syncing, mirror, pins, line, bounds, sure, unheard, time>>

NetworkChanges ==
    /\ changes < MaxChanges /\ changes' = changes + 1
    /\ network' \in Network \ {network}
    /\ UNCHANGED <<reported, ctzu, boot, syncing, mirror, board, line, faults, sure, unheard, time>>
-----------------------------------------------------------------------------
Init ==
    /\ phase = "boot" /\ network \in {0, Home} /\ reported = None /\ ctzu \in {0, 3}
    /\ run = FALSE /\ need = TRUE /\ armed = FALSE /\ count = 0
    /\ mirror = Dark /\ pins \in {Dark, [Dark EXCEPT !.power = 1]} /\ deaf = FALSE
    /\ asked = 0 /\ frames = <<>> /\ faults = 0 /\ changes = 0
    /\ sure = FALSE /\ unheard = 0 /\ resets = 0 /\ excused = 0

Next ==
    \/ RilReady \/ Registered \/ NotRegistered \/ RegisterExpires
    \/ WorkCycle \/ SyncExpires \/ ReadFrame
    \/ BoardAnswers \/ BoardIgnores \/ PinChanges
    \/ BoardHangs \/ BoardRecovers \/ NetworkChanges

\* Callbacks and timers come, the board answers and does not hang for ever.
Fairness ==
    /\ WF_vars(RilReady) /\ WF_vars(Registered) /\ WF_vars(NotRegistered)
    /\ WF_vars(RegisterExpires) /\ WF_vars(WorkCycle) /\ WF_vars(SyncExpires)
    /\ WF_vars(ReadFrame) /\ WF_vars(BoardAnswers) /\ WF_vars(BoardIgnores)
    /\ WF_vars(BoardRecovers)

Spec == Init /\ [][Next]_vars /\ Fairness
-----------------------------------------------------------------------------
(* What boot, sync and mirror promise. *)

\* Types, and: the questions are counted while the period runs, which it does
\* in the work cycle; every question that counts towards the reset is on its
\* way, or its answer is, or one of them was lost: a read takes all of them off
\* the account (main.c:213-245, 332-346, 417-424).
TypeOK ==
    /\ phase \in {"boot", "waiting", "cycle"}
    /\ network \in Network /\ reported \in Network \cup {None} /\ ctzu \in {0, 3}
    /\ run \in BOOLEAN /\ need \in BOOLEAN /\ armed \in BOOLEAN
    /\ count \in 0..4
    /\ mirror \in Pins /\ pins \in Pins /\ deaf \in BOOLEAN
    /\ asked \in Nat /\ frames \in Seq(Frame) /\ Len(frames) <= MaxFlight
    /\ faults \in 0..MaxFaults /\ changes \in 0..MaxChanges
    /\ sure \in BOOLEAN /\ unheard \in Nat /\ resets \in Nat /\ excused \in Nat
    /\ phase = "cycle" => armed
    /\ phase = "boot" => ~ armed /\ frames = <<>>
    /\ count <= asked + Len(frames) + unheard

\* If no event was lost since the board last sent its state, the mirror and
\* the frames on the way make up the board's pins: the toggles and the
\* clearing in extract follow every change (incury.c:23-147).
MirrorFollows == sure => Followed(mirror, frames) = pins

\* The device resets for its time setting once, and again only if the modem
\* did not take the setting or answered with an error (main.c:306-329,
\* 355-362).
ResetsForTimeOnce == resets <= 1 + excused

\* With a network that stays, the device gets to its work cycle and stays
\* there (main.c:176-260, 355-375).
StaysUp == <>[](network = Home) => <>[](phase = "cycle" /\ ~ (run /\ need))

\* When the pins rest, the mirror gets right and stays so, whatever was lost
\* before (main.c:332-346, incury.c:29-60).
MirrorRepaired == <>[](network = Home) => <>[](mirror = pins)
=============================================================================
