------------------------------ MODULE EstLink ------------------------------
(***************************************************************************)
(* The link to the EST monitoring server and the event journal behind it.  *)
(*                                                                         *)
(* Everything runs in one task: the 50 ms work cycle (tcp_main_function),  *)
(* three timers, the socket and GPRS callbacks, the events that arrive     *)
(* from the SAM board and the commands of the operator.  Each runs to      *)
(* completion, so each is one action; what interleaves is their order.     *)
(*                                                                         *)
(* The device sends one numbered packet at a time and waits for its        *)
(* confirmation; a confirmed packet retires the first confirmRecive records*)
(* of the journal.  Nothing is sent twice on one connection: an            *)
(* unconfirmed packet ends in a reboot or in a new connection.             *)
(*                                                                         *)
(* Ql_Reset does not return.  Packets carry the set of their events, the   *)
(* pin-state packet (which is never confirmed) is left out.                *)
(***************************************************************************)
EXTENDS Naturals, Sequences

CONSTANTS
    Socket,       \* handles Ql_SOC_Create can give to the EST connection
    NoSocket,     \* a negative handle
    Capacity,     \* __COUNT_EVENTS__
    NumPackets,   \* __count_num_packets: the last packet number
    RepeatLimit,  \* __countRepeat above this reboots (2 in the code)
    BackoffLimit, \* __tmr_index above this reboots (3 in the code)
    Operator,     \* the operator uses console, menu and web page
    Prompt,       \* the server answers within t_send on a live connection
    Faults,       \* kinds of faults the environment may produce
    MaxEvents,    \* bound: events logged
    MaxFaults     \* bound: faults

FaultKinds == {"gprs", "bearer", "create", "connect", "loss", "send", "read", "power"}

ASSUME EstAssumption ==
    /\ NoSocket \notin Socket
    /\ Capacity \in Nat \ {0} /\ NumPackets \in Nat \ {0}
    /\ RepeatLimit \in Nat /\ BackoffLimit \in Nat
    /\ Operator \in BOOLEAN /\ Prompt \in BOOLEAN /\ Faults \subseteq FaultKinds
    /\ MaxEvents \in Nat /\ MaxFaults \in Nat

\* A missing file has size QL_RET_ERR_FILENOTFOUND (-41): as u32, over the
\* record size 10, cut to the u16 of __confirmRecive.
NotFoundCount == 39317

VARIABLES
    \* flash
    journal,       \* mdm_events.dat, oldest record first
    present,       \* that file exists
    useEst,        \* __mdm_settings.use_esttools, stored whenever it changes
    \* RAM
    nState,        \* _n_state
    confirmRecive, \* __confirmRecive: records the next confirmation retires
    numPacket,     \* __numPacket
    countRepeat,   \* __countRepeat
    tmrIndex,      \* __tmr_index
    estId,         \* __socket_est_id
    estConnect,    \* __EST_CONNECT__
    timer,         \* the three EST timers
    \* the modem's core
    bearer,        \* the PDP context
    registered,    \* regiser_socket_th has run
    sock,          \* state of each socket handle
    up, down,      \* bytes in flight, by socket: packets, confirmed numbers
    \* the server and history
    made,          \* events produced so far
    received,      \* events the server has
    batch,         \* the last packet of events, until a confirmation
    carrier,       \* the socket that took that packet
    offered,       \* events ever put into a packet
    overrun,       \* confirm_events computed filesize - poss below zero
    faults         \* faults so far

flash   == <<journal, present>>
counts  == <<confirmRecive, numPacket, countRepeat, tmrIndex>>
conn    == <<estId, estConnect, sock, up, down>>
gprs    == <<bearer, registered>>
history == <<made, received, batch, carrier, offered, overrun>>
vars    == <<flash, nState, useEst, counts, conn, timer, gprs, history, faults>>

Event  == 1..MaxEvents
Timer  == {"CONNECTOR", "CONFIRM", "EMPTY"}
State  == {"NONE", "REGISTER", "CONFIG", "ACTIVATE", "ACTIVATING", "LOCALIP",
           "EST_CONNECT", "WAITING", "CHECK_EVENTS"}
Packet == [num : 0..NumPackets, evs : SUBSET Event]

Records(q) == {q[i] : i \in 1..Len(q)}

Fault(kind) == kind \in Faults /\ faults < MaxFaults /\ faults' = faults + 1
-----------------------------------------------------------------------------
(* Boot and reboot: RAM and the modem's sockets start over. *)

RamInit ==
    /\ nState = "REGISTER"
    /\ confirmRecive = 0 /\ numPacket = 0 /\ countRepeat = 0 /\ tmrIndex = 0
    /\ estId = NoSocket /\ estConnect = FALSE
    /\ timer = [t \in Timer |-> "off"]
    /\ bearer = "down" /\ registered = FALSE
    /\ sock = [s \in Socket |-> "free"]
    /\ up = [s \in Socket |-> <<>>] /\ down = [s \in Socket |-> <<>>]
    /\ batch = {} /\ carrier = NoSocket

Init ==
    /\ journal = <<>> /\ present \in BOOLEAN /\ useEst \in BOOLEAN
    /\ made = 0 /\ received = {} /\ offered = {} /\ overrun = FALSE /\ faults = 0
    /\ RamInit

Reboot ==
    /\ nState' = "REGISTER"
    /\ confirmRecive' = 0 /\ numPacket' = 0 /\ countRepeat' = 0 /\ tmrIndex' = 0
    /\ estId' = NoSocket /\ estConnect' = FALSE
    /\ timer' = [t \in Timer |-> "off"]
    /\ bearer' = "down" /\ registered' = FALSE
    /\ sock' = [s \in Socket |-> "free"]
    /\ up' = [s \in Socket |-> <<>>] /\ down' = [s \in Socket |-> <<>>]
    /\ batch' = {} /\ carrier' = NoSocket
    /\ UNCHANGED <<useEst, made, received, offered, overrun>>

Reset == Reboot /\ UNCHANGED <<journal, present>>
-----------------------------------------------------------------------------
(* Sockets, sending, timers. *)

EstIs(state) == estId # NoSocket /\ sock[estId] = state

\* Ql_SOC_Close or the core's own close: the handle is free again.
Released(s, becomes) ==
    /\ sock' = [sock EXCEPT ![s] = becomes]
    /\ up' = [up EXCEPT ![s] = <<>>] /\ down' = [down EXCEPT ![s] = <<>>]
    /\ carrier' = IF carrier = s THEN NoSocket ELSE carrier

CloseEst ==
    IF estId = NoSocket THEN UNCHANGED <<sock, up, down, carrier>> ELSE Released(estId, "free")

\* Ql_SOC_Send on the EST socket; its result is ignored.  "taken" tells
\* whether the stack took the whole packet.
Send(open, taken, evs) ==
    /\ taken => open
    /\ IF open /\ ~taken THEN Fault("send") ELSE UNCHANGED faults
    /\ up' = IF taken THEN [up EXCEPT ![estId] = Append(@, [num |-> numPacket, evs |-> evs])]
             ELSE up

Started(f, T) == [t \in Timer |-> IF t \in T THEN "started" ELSE f[t]]
Stopped(f, T) == [t \in Timer |-> IF t \in T THEN "off" ELSE f[t]]

\* All three intervals are seconds, so a work cycle passes before any expires.
Aged == [t \in Timer |-> IF timer[t] = "started" THEN "running" ELSE timer[t]]

\* est_empty_msg: "No events", whatever the journal holds.
EstEmptyMsg(open, taken, tmr) ==
    /\ Send(open, taken, {})
    /\ timer' = Started(tmr, {"CONFIRM"})
    /\ nState' = "WAITING"

\* est_socket_connect: a new handle replaces the old one, which nobody closes.
\* A create or a connect that fails at once leaves nothing to wait for.
EstSocketConnect ==
    /\ \/ \E s \in Socket :
            /\ registered /\ sock[s] = "free"
            /\ estId' = s
            /\ \/ sock' = [sock EXCEPT ![s] = "connecting"] /\ UNCHANGED faults
               \/ sock' = [sock EXCEPT ![s] = "idle"] /\ Fault("create")
       \/ /\ IF registered /\ \E s \in Socket : sock[s] = "free"
             THEN Fault("create") ELSE UNCHANGED faults
          /\ estId' = NoSocket
          /\ UNCHANGED sock
    /\ UNCHANGED <<up, down, carrier>>
-----------------------------------------------------------------------------
(* The work cycle: tcp_main_function, one case of _n_state per action. *)

TickRegister ==
    /\ nState = "REGISTER"
    /\ \/ nState' = "CONFIG" /\ UNCHANGED faults
       \/ nState' = "REGISTER" /\ Fault("gprs")
    /\ timer' = Aged
    /\ UNCHANGED <<flash, useEst, counts, conn, gprs, history>>

TickConfig ==
    /\ nState = "CONFIG"
    /\ nState' = "ACTIVATE" /\ timer' = Aged
    /\ UNCHANGED <<flash, useEst, counts, conn, gprs, history, faults>>

TickActivate ==
    /\ nState = "ACTIVATE"
    /\ \/ nState' = "LOCALIP" /\ bearer' = "up" /\ UNCHANGED faults
       \/ nState' = "ACTIVATING" /\ bearer' = "pending" /\ UNCHANGED faults
       \/ nState' = "ACTIVATE" /\ UNCHANGED bearer /\ Fault("gprs")
    /\ timer' = Aged
    /\ UNCHANGED <<flash, useEst, counts, conn, registered, history>>

TickLocalIp ==
    /\ nState = "LOCALIP" /\ bearer = "up"
    /\ nState' = IF useEst THEN "EST_CONNECT" ELSE "NONE"
    /\ registered' = TRUE /\ timer' = Aged
    /\ UNCHANGED <<flash, useEst, counts, conn, bearer, history, faults>>

\* regiser_socket_th fails
TickRegisterSocketFails ==
    /\ nState = "LOCALIP" /\ bearer = "up" /\ Fault("gprs") /\ Reset

TickEstConnect ==
    /\ nState = "EST_CONNECT"
    /\ IF useEst THEN EstSocketConnect
       ELSE UNCHANGED <<estId, sock, up, down, carrier, faults>>
    /\ nState' = "WAITING" /\ timer' = Aged
    /\ UNCHANGED <<flash, useEst, counts, estConnect, gprs, made, received, batch,
                   offered, overrun>>

\* Mutant: one record too many is counted.
TickSendEventsOneMore ==
    /\ nState = "CHECK_EVENTS" /\ useEst /\ present /\ journal # <<>>
    /\ confirmRecive' = Len(journal) + 1
    /\ batch' = Records(journal)
    /\ offered' = offered \union Records(journal)
    /\ \E taken \in BOOLEAN :
        /\ Send(EstIs("open"), taken, Records(journal))
        /\ carrier' = IF taken THEN estId ELSE NoSocket
    /\ timer' = Started(Stopped(Aged, {"EMPTY"}), {"CONFIRM"})
    /\ nState' = "WAITING"
    /\ UNCHANGED <<flash, useEst, numPacket, countRepeat, tmrIndex, estId, estConnect,
                   sock, down, gprs, made, received, overrun>>

\* read_events finds records: all of them go into one packet.
TickSendEvents ==
    /\ nState = "CHECK_EVENTS" /\ useEst /\ present /\ journal # <<>>
    /\ confirmRecive' = Len(journal)
    /\ batch' = Records(journal)
    /\ offered' = offered \union Records(journal)
    /\ \E taken \in BOOLEAN :
        /\ Send(EstIs("open"), taken, Records(journal))
        /\ carrier' = IF taken THEN estId ELSE NoSocket
    /\ timer' = Started(Stopped(Aged, {"EMPTY"}), {"CONFIRM"})
    /\ nState' = "WAITING"
    /\ UNCHANGED <<flash, useEst, numPacket, countRepeat, tmrIndex, estId, estConnect,
                   sock, down, gprs, made, received, overrun>>

\* read_events finds nothing to send.
TickNoEvents ==
    /\ nState = "CHECK_EVENTS" /\ useEst /\ (present => journal = <<>>)
    /\ confirmRecive' = IF present THEN 0 ELSE NotFoundCount
    /\ timer' = Aged
    /\ UNCHANGED <<flash, nState, useEst, numPacket, countRepeat, tmrIndex, conn, gprs,
                   history, faults>>

TickIdle ==
    /\ \/ nState \in {"NONE", "ACTIVATING", "WAITING"}
       \/ nState = "CHECK_EVENTS" /\ ~useEst
       \/ nState = "LOCALIP" /\ bearer # "up"
    /\ timer' = Aged
    /\ UNCHANGED <<flash, nState, useEst, counts, conn, gprs, history, faults>>

WorkCycle ==
    \/ TickRegister \/ TickConfig \/ TickActivate \/ TickLocalIp
    \/ TickRegisterSocketFails \/ TickEstConnect \/ TickSendEvents \/ TickNoEvents
    \/ TickIdle
-----------------------------------------------------------------------------
(* GPRS callbacks. *)

\* callback_tcp_actived does not look at errCode.
GprsActived ==
    /\ bearer = "pending"
    /\ \/ bearer' = "up" /\ UNCHANGED faults
       \/ bearer' = "down" /\ Fault("gprs")
    /\ nState' = "LOCALIP"
    /\ UNCHANGED <<flash, useEst, counts, conn, timer, registered, history>>

GprsDeactived == bearer = "up" /\ Fault("bearer") /\ Reset
-----------------------------------------------------------------------------
(* Socket callbacks. *)

\* socket_th_connect without error: whichever socket it was, the EST socket
\* is greeted.
SocketConnected(s) ==
    /\ sock[s] = "connecting"
    /\ sock' = [sock EXCEPT ![s] = "open"]
    /\ estConnect' = TRUE
    /\ \E taken \in BOOLEAN :
        EstEmptyMsg(estId = s \/ EstIs("open"), taken, Stopped(timer, {"CONNECTOR"}))
    /\ UNCHANGED <<flash, useEst, counts, estId, down, gprs, history>>

\* socket_th_connect with an error closes the EST socket, whichever failed.
SocketRefused(s) ==
    /\ sock[s] = "connecting" /\ Fault("connect")
    /\ IF tmrIndex > BackoffLimit THEN Reset
       ELSE /\ tmrIndex' = tmrIndex + 1
            /\ timer' = Started(timer, {"CONNECTOR"})
            /\ estId' = NoSocket /\ estConnect' = FALSE
            /\ sock' = [c \in Socket |-> IF c = estId THEN "free" ELSE
                                         IF c = s THEN "idle" ELSE sock[c]]
            /\ up' = [c \in Socket |-> IF c = estId THEN <<>> ELSE up[c]]
            /\ down' = [c \in Socket |-> IF c = estId THEN <<>> ELSE down[c]]
            /\ carrier' = IF carrier = estId THEN NoSocket ELSE carrier
            /\ UNCHANGED <<flash, nState, useEst, confirmRecive, numPacket, countRepeat,
                           gprs, made, received, batch, offered, overrun>>

\* Mutant: the close callback forgets to arm the connector.
SocketClosedNoRetry(s) ==
    /\ sock[s] = "lost"
    /\ Released(s, "free")
    /\ timer' = IF s # estId THEN timer ELSE Stopped(timer, {"CONFIRM", "EMPTY"})
    /\ UNCHANGED <<flash, nState, useEst, counts, estId, estConnect, gprs, made, received,
                   batch, offered, overrun, faults>>

\* socket_th_close: __socket_est_id and __EST_CONNECT__ stay as they are.
SocketClosed(s) ==
    /\ sock[s] = "lost"
    /\ Released(s, "free")
    /\ timer' = IF s # estId THEN timer
                ELSE Stopped(IF useEst THEN Started(timer, {"CONNECTOR"}) ELSE timer,
                             {"CONFIRM", "EMPTY"})
    /\ UNCHANGED <<flash, nState, useEst, counts, estId, estConnect, gprs, made, received,
                   batch, offered, overrun, faults>>

\* confirm_events: the file is rewritten without its first confirmRecive
\* records.  More than it holds makes the size to copy wrap around.
ConfirmEvents ==
    IF ~present \/ journal = <<>> THEN UNCHANGED <<journal, overrun>>
    ELSE /\ journal' = SubSeq(journal, confirmRecive + 1, Len(journal))
         /\ overrun' = (overrun \/ confirmRecive > Len(journal))

Confirmed == EstIs("open") /\ down[estId] # <<>> /\ Head(down[estId]) = numPacket

Take(s) == down' = [down EXCEPT ![s] = Tail(@)]

\* Mutant: the packet number is not wrapped.
NextPacketNoWrap == numPacket + 1

NextPacket == (IF numPacket >= NumPackets THEN 0 ELSE numPacket) + 1

\* CheckTypePacket: the confirmation the device waits for.
ReadConfirm ==
    /\ Confirmed
    /\ Take(estId)
    /\ ConfirmEvents
    /\ numPacket' = NextPacket
    /\ countRepeat' = 0 /\ tmrIndex' = 0
    /\ timer' = Started(Stopped(timer, {"CONFIRM"}), {"EMPTY"})
    /\ nState' = "CHECK_EVENTS"
    /\ batch' = {} /\ carrier' = NoSocket
    /\ UNCHANGED <<present, useEst, confirmRecive, estId, estConnect, sock, up,
                   gprs, made, received, offered, faults>>

\* CheckTypePacket: the confirmation of another packet.
ReadOther ==
    /\ EstIs("open") /\ down[estId] # <<>> /\ ~Confirmed
    /\ IF countRepeat + 1 > RepeatLimit THEN Reset
       ELSE /\ Take(estId)
            /\ countRepeat' = countRepeat + 1 /\ tmrIndex' = 0
            /\ UNCHANGED <<flash, nState, useEst, confirmRecive, numPacket, estId, estConnect,
                           sock, up, timer, gprs, history>>
    /\ UNCHANGED faults

\* A confirmation cut by the 100-byte read, or refused by ExtractPakets.
ReadGarbled ==
    /\ EstIs("open") /\ down[estId] # <<>> /\ Fault("read")
    /\ Take(estId) /\ tmrIndex' = 0
    /\ UNCHANGED <<flash, nState, useEst, confirmRecive, numPacket, countRepeat, estId,
                   estConnect, sock, up, timer, gprs, history>>
-----------------------------------------------------------------------------
(* Timers. *)

\* Mutant: the connector is a repeating timer, as EST_CONFIRM_TIMER is.
ConnectorExpiresAutoRepeat ==
    /\ timer["CONNECTOR"] = "running"
    /\ timer' = Started(timer, {"CONNECTOR"})
    /\ EstSocketConnect
    /\ UNCHANGED <<flash, nState, useEst, counts, estConnect, gprs, made, received, batch,
                   offered, overrun>>

\* est_socket_connect as the handler of EST_CONNECTOR_TIMER: use_esttools is
\* not looked at.
ConnectorExpires ==
    /\ timer["CONNECTOR"] = "running"
    /\ timer' = Stopped(timer, {"CONNECTOR"})
    /\ EstSocketConnect
    /\ UNCHANGED <<flash, nState, useEst, counts, estConnect, gprs, made, received, batch,
                   offered, overrun>>

\* Mutant: the count of timeouts is lost, so no timeout ever reboots.
ConfirmExpiresNoCount ==
    /\ timer["CONFIRM"] = "running"
    /\ ~(Prompt /\ EstIs("open") /\ (up[estId] # <<>> \/ down[estId] # <<>>))
    /\ timer' = Started(timer, {"CONFIRM"})
    /\ UNCHANGED <<flash, nState, useEst, counts, conn, gprs, history, faults>>

\* est_wait_confirm: counts, does not send again.
ConfirmExpires ==
    /\ timer["CONFIRM"] = "running"
    /\ ~(Prompt /\ EstIs("open") /\ (up[estId] # <<>> \/ down[estId] # <<>>))
    /\ IF countRepeat > RepeatLimit THEN Reset
       ELSE /\ countRepeat' = countRepeat + 1
            /\ timer' = Started(timer, {"CONFIRM"})
            /\ UNCHANGED <<flash, nState, useEst, confirmRecive, numPacket, tmrIndex, conn,
                           gprs, history>>
    /\ UNCHANGED faults

EmptyExpires ==
    /\ timer["EMPTY"] = "running"
    /\ \E taken \in BOOLEAN : EstEmptyMsg(EstIs("open"), taken, Stopped(timer, {"EMPTY"}))
    /\ UNCHANGED <<flash, useEst, counts, estId, estConnect, sock, down, gprs, history>>
-----------------------------------------------------------------------------
(* Events from the SAM board: write_events. *)

\* Mutant: __confirmRecive is not counted down when a record is added.
WriteEventNoCountDown ==
    /\ made < MaxEvents
    /\ made' = made + 1
    /\ IF ~present THEN UNCHANGED journal
       ELSE journal' = Append(IF Len(journal) >= Capacity THEN Tail(journal) ELSE journal,
                              made + 1)
    /\ UNCHANGED <<present, nState, useEst, counts, conn, timer, gprs, received,
                   batch, carrier, offered, overrun, faults>>

WriteEvent ==
    /\ made < MaxEvents
    /\ made' = made + 1
    /\ IF ~present THEN UNCHANGED <<journal, confirmRecive>>
       ELSE /\ journal' = Append(IF Len(journal) >= Capacity THEN Tail(journal) ELSE journal,
                                 made + 1)
            /\ confirmRecive' = IF confirmRecive > 0 THEN confirmRecive - 1 ELSE 0
    /\ UNCHANGED <<present, nState, useEst, numPacket, countRepeat, tmrIndex,
                   conn, timer, gprs, received, batch, carrier, offered, overrun, faults>>
-----------------------------------------------------------------------------
(* Power failures: between two handlers, and inside the two that rewrite   *)
(* the file.                                                               *)

PowerLoss == Fault("power") /\ Reset

PowerLossInConfirm ==
    /\ Confirmed /\ present /\ journal # <<>> /\ confirmRecive <= Len(journal)
    /\ Fault("power") /\ Reboot
    /\ \/ journal' = <<>> /\ present' = FALSE
       \/ /\ \E m \in confirmRecive..Len(journal) :
                journal' = SubSeq(journal, confirmRecive + 1, m)
          /\ UNCHANGED present

PowerLossInWrite ==
    /\ present /\ Len(journal) >= Capacity /\ made < MaxEvents
    /\ Fault("power") /\ Reboot
    /\ \E i \in 1..(Len(journal) - 1) :
        journal' = [j \in 1..Len(journal) |-> IF j <= i THEN journal[j + 1] ELSE journal[j]]
    /\ UNCHANGED present
-----------------------------------------------------------------------------
(* The operator. *)

\* the web page's "run" and the menu's "Est ON"
StartEst ==
    /\ useEst' = TRUE /\ nState' = "EST_CONNECT"
    /\ UNCHANGED <<journal, present, counts, conn, timer, gprs, history, faults>>

\* the web page's "stop"
WebStop ==
    /\ CloseEst
    /\ timer' = Stopped(timer, Timer)
    /\ estConnect' = FALSE /\ useEst' = FALSE
    /\ UNCHANGED <<journal, present, nState, counts, estId, gprs, made, received, batch,
                   offered, overrun, faults>>

\* the menu's "Est OFF": the socket stays open
MenuOff ==
    /\ timer' = Stopped(timer, Timer)
    /\ estConnect' = FALSE /\ useEst' = FALSE
    /\ UNCHANGED <<journal, present, nState, counts, estId, sock, up, down, gprs, history,
                   faults>>

\* EST:<v> in a CONFIG command, which stores all settings when it is done
ConsoleEst(v) ==
    /\ useEst' = v
    /\ nState' = IF v /\ ~estConnect THEN "EST_CONNECT" ELSE nState
    /\ UNCHANGED <<flash, counts, conn, timer, gprs, history, faults>>

\* the menu's "save": set_state_est, whose stop leaves EST_CONNECTOR_TIMER on
MenuSave ==
    /\ IF useEst
       THEN /\ nState' = IF estConnect THEN nState ELSE "EST_CONNECT"
            /\ UNCHANGED <<timer, sock, up, down, carrier, estConnect>>
       ELSE /\ CloseEst
            /\ timer' = Stopped(timer, {"CONFIRM", "EMPTY"})
            /\ estConnect' = FALSE /\ nState' = "NONE"
    /\ UNCHANGED <<journal, present, useEst, counts, estId, gprs, made, received, batch,
                   offered, overrun, faults>>

OperatorActs ==
    /\ Operator
    /\ \/ StartEst \/ WebStop \/ MenuOff \/ MenuSave
       \/ \E v \in BOOLEAN : ConsoleEst(v)
-----------------------------------------------------------------------------
(* The network and the server. *)

\* A connection dies, or the server closes it: what was in flight is gone.
Lose(s) ==
    /\ sock[s] = "open" /\ Fault("loss")
    /\ Released(s, "lost")
    /\ UNCHANGED <<flash, nState, useEst, counts, estId, estConnect, timer, gprs, made,
                   received, batch, offered, overrun>>

\* The server takes a packet and confirms its number.
Deliver(s) ==
    /\ up[s] # <<>>
    /\ up' = [up EXCEPT ![s] = Tail(@)]
    /\ down' = [down EXCEPT ![s] = Append(@, Head(up[s]).num)]
    /\ received' = received \union Head(up[s]).evs
    /\ UNCHANGED <<flash, nState, useEst, counts, estId, estConnect, sock, timer, gprs, made,
                   batch, carrier, offered, overrun, faults>>
-----------------------------------------------------------------------------
Next ==
    \/ WorkCycle
    \/ GprsActived \/ GprsDeactived
    \/ \E s \in Socket : \/ SocketConnected(s) \/ SocketRefused(s) \/ SocketClosed(s)
                         \/ Lose(s) \/ Deliver(s)
    \/ ReadConfirm \/ ReadOther \/ ReadGarbled
    \/ ConnectorExpires \/ ConfirmExpires \/ EmptyExpires
    \/ WriteEvent
    \/ PowerLoss \/ PowerLossInConfirm \/ PowerLossInWrite
    \/ OperatorActs

Spec == Init /\ [][Next]_vars

\* The task never stops taking messages from its queue: work cycles, armed
\* timers and pending callbacks are all handled, and the server answers.
Fairness ==
    /\ WF_vars(WorkCycle)
    /\ WF_vars(GprsActived)
    /\ \A s \in Socket : /\ WF_vars(SocketConnected(s)) /\ WF_vars(SocketClosed(s))
                         /\ WF_vars(Deliver(s))
    /\ WF_vars(ReadConfirm) /\ WF_vars(ReadOther)
    /\ WF_vars(ConnectorExpires) /\ WF_vars(ConfirmExpires) /\ WF_vars(EmptyExpires)

FairSpec == Spec /\ Fairness
-----------------------------------------------------------------------------
(* Properties. *)

TypeOK ==
    /\ journal \in Seq(Event) /\ Len(journal) <= Capacity
    /\ present \in BOOLEAN /\ (~present => journal = <<>>)
    /\ useEst \in BOOLEAN /\ estConnect \in BOOLEAN
    /\ nState \in State
    /\ confirmRecive \in Nat /\ numPacket \in 0..NumPackets
    /\ countRepeat \in 0..(RepeatLimit + 1) /\ tmrIndex \in 0..(BackoffLimit + 1)
    /\ estId \in Socket \union {NoSocket} /\ carrier \in Socket \union {NoSocket}
    /\ timer \in [Timer -> {"off", "started", "running"}]
    /\ bearer \in {"down", "pending", "up"} /\ registered \in BOOLEAN
    /\ sock \in [Socket -> {"free", "idle", "connecting", "open", "lost"}]
    /\ up \in [Socket -> Seq(Packet)] /\ down \in [Socket -> Seq(0..NumPackets)]
    /\ made \in 0..MaxEvents /\ faults \in 0..MaxFaults
    /\ received \subseteq Event /\ batch \subseteq Event /\ offered \subseteq Event
    /\ overrun \in BOOLEAN

\* Every record the next confirmation would retire was in the packet that is
\* being confirmed, although records are appended, shifted out and counted
\* down (write_events) while that packet is on its way.
CountedWereSent ==
    batch # {} => /\ confirmRecive <= Len(journal)
                  /\ \A i \in 1..confirmRecive : journal[i] \in batch

\* A confirmation of an event packet on the connection that carried it
\* retires only records the server has.
ConfirmedWereReceived ==
    Confirmed /\ carrier = estId
        => \A i \in 1..confirmRecive : i <= Len(journal) => journal[i] \in received

\* The size confirm_events copies (filesize - poss, unsigned) never wraps.
NoOverrun == ~overrun

\* The device never holds two sockets to the server.
OneUplink == \A s, t \in Socket : sock[s] # "free" /\ sock[t] # "free" => s = t

\* What the server has is all a confirmation retires, on whatever connection
\* and after whatever packet it comes: est_empty_msg says of its packet that
\* there are no events, so confirming it should retire none.
RetiredWereReceived ==
    Confirmed => \A i \in 1..confirmRecive : i <= Len(journal) => journal[i] \in received

\* The journal and its link do what EventJournal promises.
J == INSTANCE EventJournal WITH queue <- journal
JournalSpec == J!JSpec

\* With EST in use, every record leaves the journal, through faults, lost
\* confirmations, reconnections and reboots.
EveryEventLeaves ==
    useEst => \A e \in Event : e \in Records(journal) ~> e \notin Records(journal)

\* With EST in use, the connection comes back after every loss and reboot.
AlwaysReconnects == useEst => []<>EstIs("open")
=============================================================================
