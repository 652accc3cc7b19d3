--------------------------- MODULE EstLink_proofs ---------------------------
(***************************************************************************)
(* Proofs about EstLink, for every value of its constants, with and        *)
(* without an operator and whatever the faults.                            *)
(***************************************************************************)
EXTENDS EstLink, SequenceTheorems, TLAPS

USE EstAssumption DEF FaultKinds

(***************************************************************************)
(* Helpers keep the types of what they change.                             *)
(***************************************************************************)
TimerState == {"off", "started", "running"}

LEMMA TimerTypes ==
    ASSUME NEW f \in [Timer -> TimerState], NEW T \in SUBSET Timer
    PROVE  /\ Started(f, T) \in [Timer -> TimerState]
           /\ Stopped(f, T) \in [Timer -> TimerState]
BY DEF Started, Stopped, TimerState

LEMMA AgedType ==
    ASSUME timer \in [Timer -> TimerState]
    PROVE  Aged \in [Timer -> TimerState]
BY DEF Aged, TimerState

LEMMA FaultType ==
    ASSUME TypeOK, NEW kind, Fault(kind)
    PROVE  faults' \in 0..MaxFaults
BY DEF TypeOK, Fault

LEMMA SendTypes ==
    ASSUME TypeOK, NEW open \in BOOLEAN, NEW taken \in BOOLEAN, NEW evs \in SUBSET Event,
           open => estId \in Socket, Send(open, taken, evs)
    PROVE  up' \in [Socket -> Seq(Packet)] /\ faults' \in 0..MaxFaults
<1>1. faults' \in 0..MaxFaults
  BY FaultType DEF Send, TypeOK
<1>2. CASE ~taken
  BY <1>1, <1>2 DEF Send, TypeOK
<1>3. CASE taken
  <2>1. estId \in Socket
    BY <1>3 DEF Send
  <2>2. [num |-> numPacket, evs |-> evs] \in Packet
    BY DEF TypeOK, Packet
  <2>3. up[estId] \in Seq(Packet)
    BY <2>1 DEF TypeOK
  <2>4. Append(up[estId], [num |-> numPacket, evs |-> evs]) \in Seq(Packet)
    BY <2>2, <2>3, AppendProperties
  <2> QED
    BY <1>1, <1>3, <2>1, <2>4 DEF Send, TypeOK
<1> QED
  BY <1>2, <1>3

LEMMA ReleasedTypes ==
    ASSUME TypeOK, NEW s \in Socket, NEW becomes \in {"free", "lost"}, Released(s, becomes)
    PROVE  /\ sock' \in [Socket -> {"free", "idle", "connecting", "open", "lost"}]
           /\ up' \in [Socket -> Seq(Packet)] /\ down' \in [Socket -> Seq(0..NumPackets)]
           /\ carrier' \in Socket \union {NoSocket}
<1>1. <<>> \in Seq(Packet) /\ <<>> \in Seq(0..NumPackets)
  BY EmptySeq
<1> QED
  BY <1>1 DEF Released, TypeOK

LEMMA CloseEstTypes ==
    ASSUME TypeOK, CloseEst
    PROVE  /\ sock' \in [Socket -> {"free", "idle", "connecting", "open", "lost"}]
           /\ up' \in [Socket -> Seq(Packet)] /\ down' \in [Socket -> Seq(0..NumPackets)]
           /\ carrier' \in Socket \union {NoSocket}
BY ReleasedTypes DEF CloseEst, TypeOK

LEMMA EstSocketConnectTypes ==
    ASSUME TypeOK, EstSocketConnect
    PROVE  /\ estId' \in Socket \union {NoSocket}
           /\ sock' \in [Socket -> {"free", "idle", "connecting", "open", "lost"}]
           /\ up' \in [Socket -> Seq(Packet)] /\ down' \in [Socket -> Seq(0..NumPackets)]
           /\ carrier' \in Socket \union {NoSocket}
           /\ faults' \in 0..MaxFaults
BY FaultType DEF EstSocketConnect, TypeOK

LEMMA RecordsType ==
    ASSUME NEW q \in Seq(Event)
    PROVE  Records(q) \in SUBSET Event
BY ElementOfSeq DEF Records

\* What a reboot leaves is typed, if the journal it leaves is.
LEMMA RebootTypes ==
    ASSUME TypeOK, Reboot, faults' \in 0..MaxFaults,
           journal' \in Seq(Event), Len(journal') <= Capacity,
           present' \in BOOLEAN, ~present' => journal' = <<>>
    PROVE  TypeOK'
<1>1. <<>> \in Seq(Packet) /\ <<>> \in Seq(0..NumPackets)
  BY EmptySeq
<1>2. /\ up' \in [Socket -> Seq(Packet)] /\ down' \in [Socket -> Seq(0..NumPackets)]
      /\ sock' \in [Socket -> {"free", "idle", "connecting", "open", "lost"}]
      /\ timer' \in [Timer -> {"off", "started", "running"}]
  BY <1>1 DEF Reboot
<1>3. /\ useEst' \in BOOLEAN /\ estConnect' \in BOOLEAN
      /\ nState' \in State
      /\ bearer' \in {"down", "pending", "up"} /\ registered' \in BOOLEAN
      /\ estId' \in Socket \union {NoSocket} /\ carrier' \in Socket \union {NoSocket}
      /\ overrun' \in BOOLEAN
  BY DEF TypeOK, Reboot, State
<1>4. /\ confirmRecive' \in Nat /\ numPacket' \in 0..NumPackets
      /\ countRepeat' \in 0..(RepeatLimit + 1) /\ tmrIndex' \in 0..(BackoffLimit + 1)
      /\ made' \in 0..MaxEvents
      /\ received' \subseteq Event /\ batch' \subseteq Event /\ offered' \subseteq Event
  BY DEF TypeOK, Reboot
<1> QED
  BY <1>2, <1>3, <1>4 DEF TypeOK

LEMMA ResetTypes ==
    ASSUME TypeOK, Reset, faults' \in 0..MaxFaults
    PROVE  TypeOK'
BY RebootTypes DEF TypeOK, Reset
-----------------------------------------------------------------------------
(***************************************************************************)
(* Every step keeps the types: work cycle, callbacks, timers, and the rest.*)
(***************************************************************************)
LEMMA WorkCycleTypes ==
    ASSUME TypeOK, WorkCycle
    PROVE  TypeOK'
<1> USE DEF flash, counts, conn, gprs, history
<1>0. timer \in [Timer -> TimerState] /\ Aged \in [Timer -> TimerState]
  BY AgedType DEF TypeOK, TimerState
<1>1. CASE TickRegister
  BY <1>0, <1>1, FaultType DEF TickRegister, TypeOK, State, TimerState
<1>2. CASE TickConfig
  BY <1>0, <1>2 DEF TickConfig, TypeOK, State, TimerState
<1>3. CASE TickActivate
  BY <1>0, <1>3, FaultType DEF TickActivate, TypeOK, State, TimerState
<1>4. CASE TickLocalIp
  BY <1>0, <1>4 DEF TickLocalIp, TypeOK, State, TimerState
<1>5. CASE TickRegisterSocketFails
  BY <1>5, FaultType, ResetTypes DEF TickRegisterSocketFails
<1>6. CASE TickEstConnect
  <2>1. /\ estId' \in Socket \union {NoSocket} /\ carrier' \in Socket \union {NoSocket}
        /\ sock' \in [Socket -> {"free", "idle", "connecting", "open", "lost"}]
        /\ up' \in [Socket -> Seq(Packet)] /\ down' \in [Socket -> Seq(0..NumPackets)]
        /\ faults' \in 0..MaxFaults
    BY <1>6, EstSocketConnectTypes DEF TickEstConnect, TypeOK
  <2> QED
    BY <1>0, <1>6, <2>1 DEF TickEstConnect, TypeOK, State, TimerState
<1>7. CASE TickSendEvents
  <2>1. Records(journal) \in SUBSET Event
    BY RecordsType DEF TypeOK
  <2>2. up' \in [Socket -> Seq(Packet)] /\ faults' \in 0..MaxFaults
    <3>1. PICK taken \in BOOLEAN : Send(EstIs("open"), taken, Records(journal))
      BY <1>7 DEF TickSendEvents
    <3>2. EstIs("open") \in BOOLEAN /\ (EstIs("open") => estId \in Socket)
      BY DEF EstIs, TypeOK
    <3> QED
      BY <2>1, <3>1, <3>2, SendTypes
  <2>3. carrier' \in Socket \union {NoSocket}
    BY <1>7 DEF TickSendEvents, TypeOK
  <2>4. timer' \in [Timer -> TimerState]
    <3>1. Stopped(Aged, {"EMPTY"}) \in [Timer -> TimerState]
      BY <1>0, TimerTypes DEF Timer
    <3> QED
      BY <1>7, <3>1, TimerTypes DEF TickSendEvents, Timer
  <2>5. confirmRecive' \in Nat
    BY <1>7, LenProperties DEF TickSendEvents, TypeOK
  <2> QED
    BY <1>7, <2>1, <2>2, <2>3, <2>4, <2>5 DEF TickSendEvents, TypeOK, State, TimerState
<1>8. CASE TickNoEvents
  BY <1>0, <1>8 DEF TickNoEvents, TypeOK, NotFoundCount, TimerState
<1>9. CASE TickIdle
  BY <1>0, <1>9 DEF TickIdle, TypeOK, TimerState
<1> QED
  BY <1>1, <1>2, <1>3, <1>4, <1>5, <1>6, <1>7, <1>8, <1>9 DEF WorkCycle

LEMMA ConnectedTypes ==
    ASSUME TypeOK, NEW s \in Socket, SocketConnected(s)
    PROVE  TypeOK'
<1>1. sock' \in [Socket -> {"free", "idle", "connecting", "open", "lost"}]
  BY DEF SocketConnected, TypeOK
<1>2. PICK taken \in BOOLEAN :
        EstEmptyMsg(estId = s \/ EstIs("open"), taken, Stopped(timer, {"CONNECTOR"}))
  BY DEF SocketConnected
<1>3. up' \in [Socket -> Seq(Packet)] /\ faults' \in 0..MaxFaults
  <2>1. (estId = s \/ EstIs("open")) \in BOOLEAN /\ (estId = s \/ EstIs("open") => estId \in Socket)
    BY DEF EstIs, TypeOK
  <2> QED
    BY <1>2, <2>1, SendTypes DEF EstEmptyMsg
<1>4. timer' \in [Timer -> TimerState]
  <2>1. Stopped(timer, {"CONNECTOR"}) \in [Timer -> TimerState]
    BY TimerTypes DEF TypeOK, Timer, TimerState
  <2> QED
    BY <1>2, <2>1, TimerTypes DEF EstEmptyMsg, Timer
<1>5. nState' \in State
  BY <1>2 DEF EstEmptyMsg, State
<1> QED
  BY <1>1, <1>3, <1>4, <1>5
  DEF SocketConnected, TypeOK, TimerState, flash, counts, gprs, history

LEMMA RefusedTypes ==
    ASSUME TypeOK, NEW s \in Socket, SocketRefused(s)
    PROVE  TypeOK'
<1>1. faults' \in 0..MaxFaults
  BY FaultType DEF SocketRefused
<1>2. CASE tmrIndex > BackoffLimit
  BY <1>1, <1>2, ResetTypes DEF SocketRefused
<1>3. CASE ~(tmrIndex > BackoffLimit)
  <2>1. <<>> \in Seq(Packet) /\ <<>> \in Seq(0..NumPackets)
    BY EmptySeq
  <2>2. /\ sock' \in [Socket -> {"free", "idle", "connecting", "open", "lost"}]
        /\ up' \in [Socket -> Seq(Packet)] /\ down' \in [Socket -> Seq(0..NumPackets)]
    BY <1>3, <2>1 DEF SocketRefused, TypeOK
  <2>3. timer' \in [Timer -> TimerState]
    BY <1>3, TimerTypes DEF SocketRefused, TypeOK, Timer, TimerState
  <2>4. tmrIndex' \in 0..(BackoffLimit + 1)
    BY <1>3 DEF SocketRefused, TypeOK
  <2>5. /\ estId' \in Socket \union {NoSocket} /\ carrier' \in Socket \union {NoSocket}
        /\ estConnect' \in BOOLEAN
    BY <1>3 DEF SocketRefused, TypeOK
  <2>6. UNCHANGED <<flash, nState, useEst, confirmRecive, numPacket, countRepeat, gprs, made,
                    received, batch, offered, overrun>>
    BY <1>3 DEF SocketRefused
  <2> QED
    BY <1>1, <2>2, <2>3, <2>4, <2>5, <2>6 DEF TypeOK, TimerState, flash, gprs
<1> QED
  BY <1>2, <1>3

LEMMA ClosedTypes ==
    ASSUME TypeOK, NEW s \in Socket, SocketClosed(s)
    PROVE  TypeOK'
<1>1. timer' \in [Timer -> TimerState]
  <2>1. Started(timer, {"CONNECTOR"}) \in [Timer -> TimerState]
    BY TimerTypes DEF TypeOK, Timer, TimerState
  <2> QED
    BY <2>1, TimerTypes DEF SocketClosed, TypeOK, Timer, TimerState
<1>2. /\ sock' \in [Socket -> {"free", "idle", "connecting", "open", "lost"}]
      /\ up' \in [Socket -> Seq(Packet)] /\ down' \in [Socket -> Seq(0..NumPackets)]
      /\ carrier' \in Socket \union {NoSocket}
  BY ReleasedTypes DEF SocketClosed
<1> QED
  BY <1>1, <1>2 DEF SocketClosed, TypeOK, TimerState, flash, counts, gprs
\* Dropping the first k records, or keeping the records up to m.
LEMMA CutType ==
    ASSUME TypeOK, NEW k \in Nat, NEW m \in 0..Len(journal)
    PROVE  /\ SubSeq(journal, k + 1, m) \in Seq(Event)
           /\ Len(SubSeq(journal, k + 1, m)) <= Capacity
<1>1. journal \in Seq(Event) /\ Len(journal) \in Nat /\ Len(journal) <= Capacity
  BY LenProperties DEF TypeOK
<1>2. CASE k + 1 <= m
  <2>1. \A i \in (k + 1)..m : journal[i] \in Event
    BY <1>1, <1>2, ElementOfSeq
  <2>2. /\ SubSeq(journal, k + 1, m) \in Seq(Event)
        /\ Len(SubSeq(journal, k + 1, m)) = m - k
    BY <1>1, <1>2, <2>1, SubSeqProperties
  <2> QED
    BY <1>1, <2>2
<1>3. CASE k + 1 > m
  <2>1. SubSeq(journal, k + 1, m) = <<>>
    BY <1>1, <1>3, SubSeqProperties
  <2> QED
    BY <2>1, EmptySeq
<1> QED
  BY <1>2, <1>3

\* A record more, and at capacity the oldest less.
LEMMA PutType ==
    ASSUME TypeOK, made < MaxEvents, NEW q,
           q = Append(IF Len(journal) >= Capacity THEN Tail(journal) ELSE journal, made + 1)
    PROVE  q \in Seq(Event) /\ Len(q) <= Capacity
<1>1. /\ journal \in Seq(Event) /\ Len(journal) \in Nat /\ Len(journal) <= Capacity
      /\ made + 1 \in Event
  BY LenProperties DEF TypeOK, Event
<1>2. CASE Len(journal) >= Capacity
  <2>1. journal # <<>>
    BY <1>1, <1>2, EmptySeq
  <2>2. Tail(journal) \in Seq(Event) /\ Len(Tail(journal)) = Len(journal) - 1
    BY <1>1, <2>1, HeadTailProperties
  <2> QED
    BY <1>1, <1>2, <2>2, AppendProperties
<1>3. CASE ~(Len(journal) >= Capacity)
  BY <1>1, <1>3, AppendProperties
<1> QED
  BY <1>2, <1>3

LEMMA TakeType ==
    ASSUME TypeOK, NEW s \in Socket, down[s] # <<>>, Take(s)
    PROVE  down' \in [Socket -> Seq(0..NumPackets)]
<1>1. down[s] \in Seq(0..NumPackets)
  BY DEF TypeOK
<1>2. Tail(down[s]) \in Seq(0..NumPackets)
  BY <1>1, HeadTailProperties
<1> QED
  BY <1>2 DEF Take, TypeOK

LEMMA ReadTypes ==
    ASSUME TypeOK, ReadConfirm \/ ReadOther \/ ReadGarbled
    PROVE  TypeOK'
<1> USE DEF flash, counts, conn, gprs, history
<1>1. CASE ReadConfirm
  <2>1. down' \in [Socket -> Seq(0..NumPackets)]
    BY <1>1, TakeType DEF ReadConfirm, Confirmed, EstIs, TypeOK
  <2>2. /\ journal' \in Seq(Event) /\ Len(journal') <= Capacity
        /\ ~present => journal' = <<>>
        /\ overrun' \in BOOLEAN
    <3>1. Len(journal) \in 0..Len(journal)
      BY LenProperties DEF TypeOK
    <3>2. CASE ~present \/ journal = <<>>
      BY <1>1, <3>2 DEF ReadConfirm, ConfirmEvents, TypeOK
    <3>3. CASE ~(~present \/ journal = <<>>)
      <4>1. /\ journal' = SubSeq(journal, confirmRecive + 1, Len(journal))
            /\ overrun' = (overrun \/ confirmRecive > Len(journal))
        BY <1>1, <3>3 DEF ReadConfirm, ConfirmEvents
      <4>2. overrun' \in BOOLEAN
        BY <4>1, Zenon
      <4>3. journal' \in Seq(Event) /\ Len(journal') <= Capacity
        BY <3>1, <4>1, CutType DEF TypeOK
      <4> QED
        BY <3>3, <4>2, <4>3
    <3> QED
      BY <3>2, <3>3
  <2>3. numPacket' \in 0..NumPackets
    BY <1>1 DEF ReadConfirm, NextPacket, TypeOK
  <2>4. timer' \in [Timer -> TimerState]
    BY <1>1, TimerTypes DEF ReadConfirm, TypeOK, Timer, TimerState
  <2>5. countRepeat' \in 0..(RepeatLimit + 1) /\ tmrIndex' \in 0..(BackoffLimit + 1)
    BY <1>1 DEF ReadConfirm
  <2>6. batch' \subseteq Event /\ carrier' \in Socket \union {NoSocket} /\ nState' \in State
    BY <1>1 DEF ReadConfirm, State
  <2>7. UNCHANGED <<present, useEst, confirmRecive, estId, estConnect, sock, up,
                    gprs, made, received, offered, faults>>
    BY <1>1 DEF ReadConfirm
  <2> QED
    BY <2>1, <2>2, <2>3, <2>4, <2>5, <2>6, <2>7 DEF TypeOK, TimerState
<1>2. CASE ReadOther
  <2>1. CASE countRepeat + 1 > RepeatLimit
    BY <1>2, <2>1, ResetTypes DEF ReadOther, TypeOK
  <2>2. CASE ~(countRepeat + 1 > RepeatLimit)
    <3>1. down' \in [Socket -> Seq(0..NumPackets)]
      BY <1>2, <2>2, TakeType DEF ReadOther, EstIs, TypeOK
    <3>2. countRepeat' \in 0..(RepeatLimit + 1) /\ tmrIndex' \in 0..(BackoffLimit + 1)
      BY <1>2, <2>2 DEF ReadOther, TypeOK
    <3>3. UNCHANGED <<flash, nState, useEst, confirmRecive, numPacket, estId, estConnect,
                      sock, up, timer, gprs, history, faults>>
      BY <1>2, <2>2 DEF ReadOther
    <3> QED
      BY <3>1, <3>2, <3>3 DEF TypeOK
  <2> QED
    BY <2>1, <2>2
<1>3. CASE ReadGarbled
  <2>1. down' \in [Socket -> Seq(0..NumPackets)]
    BY <1>3, TakeType DEF ReadGarbled, EstIs, TypeOK
  <2>2. faults' \in 0..MaxFaults /\ tmrIndex' \in 0..(BackoffLimit + 1)
    BY <1>3, FaultType DEF ReadGarbled
  <2> QED
    BY <1>3, <2>1, <2>2 DEF ReadGarbled, TypeOK
<1> QED
  BY <1>1, <1>2, <1>3

LEMMA ExpiryTypes ==
    ASSUME TypeOK, ConnectorExpires \/ ConfirmExpires \/ EmptyExpires
    PROVE  TypeOK'
<1> USE DEF flash, counts, conn, gprs, history
<1>1. CASE ConnectorExpires
  <2>1. timer' \in [Timer -> TimerState]
    BY <1>1, TimerTypes DEF ConnectorExpires, TypeOK, Timer, TimerState
  <2> QED
    BY <1>1, <2>1, EstSocketConnectTypes DEF ConnectorExpires, TypeOK, TimerState
<1>2. CASE ConfirmExpires
  <2>1. CASE countRepeat > RepeatLimit
    BY <1>2, <2>1, ResetTypes DEF ConfirmExpires, TypeOK
  <2>2. CASE ~(countRepeat > RepeatLimit)
    <3>1. timer' \in [Timer -> TimerState]
      BY <1>2, <2>2, TimerTypes DEF ConfirmExpires, TypeOK, Timer, TimerState
    <3>2. countRepeat' \in 0..(RepeatLimit + 1)
      BY <1>2, <2>2 DEF ConfirmExpires, TypeOK
    <3>3. UNCHANGED <<flash, nState, useEst, confirmRecive, numPacket, tmrIndex, conn,
                      gprs, history, faults>>
      BY <1>2, <2>2 DEF ConfirmExpires
    <3> QED
      BY <3>1, <3>2, <3>3 DEF TypeOK, TimerState
  <2> QED
    BY <2>1, <2>2
<1>3. CASE EmptyExpires
  <2>1. PICK taken \in BOOLEAN :
          EstEmptyMsg(EstIs("open"), taken, Stopped(timer, {"EMPTY"}))
    BY <1>3 DEF EmptyExpires
  <2>2. up' \in [Socket -> Seq(Packet)] /\ faults' \in 0..MaxFaults
    BY <2>1, SendTypes DEF EstEmptyMsg, EstIs, TypeOK
  <2>3. timer' \in [Timer -> TimerState]
    <3>1. Stopped(timer, {"EMPTY"}) \in [Timer -> TimerState]
      BY TimerTypes DEF TypeOK, Timer, TimerState
    <3> QED
      BY <2>1, <3>1, TimerTypes DEF EstEmptyMsg, Timer
  <2>4. nState' \in State
    BY <2>1 DEF EstEmptyMsg, State
  <2> QED
    BY <1>3, <2>2, <2>3, <2>4 DEF EmptyExpires, TypeOK, TimerState
<1> QED
  BY <1>1, <1>2, <1>3
LEMMA WriteTypes ==
    ASSUME TypeOK, WriteEvent
    PROVE  TypeOK'
<1>1. made' \in 0..MaxEvents
  BY DEF WriteEvent, TypeOK
<1>2. journal' \in Seq(Event) /\ Len(journal') <= Capacity /\ (~present => journal' = <<>>)
  BY PutType DEF WriteEvent, TypeOK
<1>3. confirmRecive' \in Nat
  BY DEF WriteEvent, TypeOK
<1> QED
  BY <1>1, <1>2, <1>3 DEF WriteEvent, TypeOK, conn, gprs

LEMMA PowerTypes ==
    ASSUME TypeOK, PowerLoss \/ PowerLossInConfirm \/ PowerLossInWrite
    PROVE  TypeOK'
<1>1. CASE PowerLoss
  BY <1>1, FaultType, ResetTypes DEF PowerLoss
<1>2. CASE PowerLossInConfirm
  <2>1. journal' = <<>> => journal' \in Seq(Event) /\ Len(journal') <= Capacity
    BY EmptySeq
  <2>2. \A m \in confirmRecive..Len(journal) :
          /\ SubSeq(journal, confirmRecive + 1, m) \in Seq(Event)
          /\ Len(SubSeq(journal, confirmRecive + 1, m)) <= Capacity
    BY CutType, LenProperties DEF TypeOK
  <2>3. journal' \in Seq(Event) /\ Len(journal') <= Capacity
    BY <1>2, <2>1, <2>2 DEF PowerLossInConfirm
  <2>4. faults' \in 0..MaxFaults
    BY <1>2, FaultType DEF PowerLossInConfirm
  <2>5. present' \in BOOLEAN /\ (~present' => journal' = <<>>)
    BY <1>2 DEF PowerLossInConfirm, TypeOK
  <2> QED
    BY <1>2, <2>3, <2>4, <2>5, RebootTypes DEF PowerLossInConfirm
<1>3. CASE PowerLossInWrite
  <2>1. PICK i \in 1..(Len(journal) - 1) :
          journal' = [j \in 1..Len(journal) |-> IF j <= i THEN journal[j + 1] ELSE journal[j]]
    BY <1>3 DEF PowerLossInWrite
  <2>2. /\ journal \in Seq(Event) /\ Len(journal) \in Nat /\ Len(journal) <= Capacity
        /\ \A j \in 1..Len(journal) : journal[j] \in Event
    BY LenProperties, ElementOfSeq DEF TypeOK
  <2>3. journal' \in [1..Len(journal) -> Event]
    BY <2>1, <2>2
  <2>4. journal' \in Seq(Event) /\ Len(journal') = Len(journal)
    <3>1. journal' \in Seq(Event)
      <4>1. journal' \in UNION {[1..n -> Event] : n \in Nat}
        BY <2>2, <2>3
      <4>2. Seq(Event) = UNION {[1..n -> Event] : n \in Nat}
        BY SeqDef, Zenon
      <4> QED
        BY <4>1, <4>2, Zenon
    <3>2. DOMAIN journal' = 1..Len(journal)
      BY <2>1
    <3> QED
      BY <2>2, <3>1, <3>2, LenProperties
  <2>5. faults' \in 0..MaxFaults /\ present' \in BOOLEAN /\ present'
    BY <1>3, FaultType DEF PowerLossInWrite, TypeOK
  <2> QED
    BY <1>3, <2>2, <2>4, <2>5, RebootTypes DEF PowerLossInWrite
<1> QED
  BY <1>1, <1>2, <1>3

LEMMA OperatorTypes ==
    ASSUME TypeOK, OperatorActs
    PROVE  TypeOK'
<1> USE DEF flash, counts, conn, gprs, history
<1>1. CASE StartEst
  BY <1>1 DEF StartEst, TypeOK, State
<1>2. CASE WebStop
  <2>1. timer' \in [Timer -> TimerState]
    BY <1>2, TimerTypes DEF WebStop, TypeOK, TimerState
  <2> QED
    BY <1>2, <2>1, CloseEstTypes DEF WebStop, TypeOK, TimerState
<1>3. CASE MenuOff
  <2>1. timer' \in [Timer -> TimerState]
    BY <1>3, TimerTypes DEF MenuOff, TypeOK, TimerState
  <2> QED
    BY <1>3, <2>1 DEF MenuOff, TypeOK, TimerState
<1>4. CASE MenuSave
  <2>1. timer' \in [Timer -> TimerState]
    <3>1. CASE useEst
      BY <1>4, <3>1 DEF MenuSave, TypeOK, TimerState
    <3>2. CASE ~useEst
      BY <1>4, <3>2, TimerTypes DEF MenuSave, TypeOK, Timer, TimerState
    <3> QED
      BY <3>1, <3>2
  <2>2. /\ sock' \in [Socket -> {"free", "idle", "connecting", "open", "lost"}]
        /\ up' \in [Socket -> Seq(Packet)] /\ down' \in [Socket -> Seq(0..NumPackets)]
        /\ carrier' \in Socket \union {NoSocket}
    BY <1>4, CloseEstTypes DEF MenuSave, TypeOK
  <2>3. nState' \in State /\ estConnect' \in BOOLEAN
    BY <1>4 DEF MenuSave, TypeOK, State
  <2> QED
    BY <1>4, <2>1, <2>2, <2>3 DEF MenuSave, TypeOK, TimerState
<1>5. ASSUME NEW v \in BOOLEAN, ConsoleEst(v)
      PROVE  TypeOK'
  BY <1>5 DEF ConsoleEst, TypeOK, State
<1> QED
  BY <1>1, <1>2, <1>3, <1>4, <1>5 DEF OperatorActs

LEMMA NetworkTypes ==
    ASSUME TypeOK, NEW s \in Socket, Lose(s) \/ Deliver(s)
    PROVE  TypeOK'
<1> USE DEF flash, counts, gprs
<1>1. CASE Lose(s)
  <2>1. faults' \in 0..MaxFaults
    BY <1>1, FaultType DEF Lose
  <2> QED
    BY <1>1, <2>1, ReleasedTypes DEF Lose, TypeOK
<1>2. CASE Deliver(s)
  <2>1. up[s] \in Seq(Packet) /\ up[s] # <<>> /\ down[s] \in Seq(0..NumPackets)
    BY <1>2 DEF Deliver, TypeOK
  <2>2. /\ Head(up[s]) \in Packet /\ Tail(up[s]) \in Seq(Packet)
        /\ Append(down[s], Head(up[s]).num) \in Seq(0..NumPackets)
    <3>1. Head(up[s]) \in Packet /\ Tail(up[s]) \in Seq(Packet)
      BY <2>1, HeadTailProperties
    <3>2. Head(up[s]).num \in 0..NumPackets
      BY <3>1 DEF Packet
    <3> QED
      BY <2>1, <3>1, <3>2, AppendProperties
  <2>3. up' \in [Socket -> Seq(Packet)] /\ down' \in [Socket -> Seq(0..NumPackets)]
    BY <1>2, <2>2 DEF Deliver, TypeOK
  <2>4. received' \subseteq Event
    BY <1>2, <2>2 DEF Deliver, TypeOK, Packet
  <2> QED
    BY <1>2, <2>3, <2>4 DEF Deliver, TypeOK
<1> QED
  BY <1>1, <1>2

LEMMA GprsTypes ==
    ASSUME TypeOK, GprsActived \/ GprsDeactived
    PROVE  TypeOK'
<1>1. CASE GprsActived
  BY <1>1, FaultType DEF GprsActived, TypeOK, State, flash, counts, conn, history
<1>2. CASE GprsDeactived
  BY <1>2, FaultType, ResetTypes DEF GprsDeactived
<1> QED
  BY <1>1, <1>2

LEMMA InitTypes == Init => TypeOK
<1> SUFFICES ASSUME Init PROVE TypeOK
  OBVIOUS
<1>1. /\ <<>> \in Seq(Packet) /\ <<>> \in Seq(0..NumPackets)
      /\ <<>> \in Seq(Event) /\ Len(<<>>) = 0
  BY EmptySeq
<1>2. /\ up \in [Socket -> Seq(Packet)] /\ down \in [Socket -> Seq(0..NumPackets)]
      /\ sock \in [Socket -> {"free", "idle", "connecting", "open", "lost"}]
      /\ timer \in [Timer -> {"off", "started", "running"}]
  BY <1>1 DEF Init, RamInit
<1>3. journal \in Seq(Event) /\ Len(journal) <= Capacity /\ (~present => journal = <<>>)
  BY <1>1 DEF Init
<1>4. /\ useEst \in BOOLEAN /\ estConnect \in BOOLEAN
      /\ present \in BOOLEAN /\ overrun \in BOOLEAN /\ registered \in BOOLEAN
      /\ nState \in State /\ bearer \in {"down", "pending", "up"}
      /\ estId \in Socket \union {NoSocket} /\ carrier \in Socket \union {NoSocket}
  BY DEF Init, RamInit, State
<1>5. /\ confirmRecive \in Nat /\ numPacket \in 0..NumPackets
      /\ countRepeat \in 0..(RepeatLimit + 1) /\ tmrIndex \in 0..(BackoffLimit + 1)
      /\ made \in 0..MaxEvents /\ faults \in 0..MaxFaults
      /\ received \subseteq Event /\ batch \subseteq Event /\ offered \subseteq Event
  BY DEF Init, RamInit
<1> QED
  BY <1>2, <1>3, <1>4, <1>5 DEF TypeOK

LEMMA StepTypes == TypeOK /\ [Next]_vars => TypeOK'
<1> SUFFICES ASSUME TypeOK, [Next]_vars PROVE TypeOK'
  OBVIOUS
<1>1. CASE UNCHANGED vars
  BY <1>1 DEF vars, flash, counts, conn, gprs, history, TypeOK
<1>2. CASE \E s \in Socket : \/ SocketConnected(s) \/ SocketRefused(s) \/ SocketClosed(s)
                            \/ Lose(s) \/ Deliver(s)
  BY <1>2, ConnectedTypes, RefusedTypes, ClosedTypes, NetworkTypes
<1>3. CASE ReadConfirm \/ ReadOther \/ ReadGarbled
  BY <1>3, ReadTypes
<1>4. CASE ConnectorExpires \/ ConfirmExpires \/ EmptyExpires
  BY <1>4, ExpiryTypes
<1>5. CASE PowerLoss \/ PowerLossInConfirm \/ PowerLossInWrite
  BY <1>5, PowerTypes
<1>6. CASE WorkCycle \/ GprsActived \/ GprsDeactived \/ WriteEvent \/ OperatorActs
  BY <1>6, WorkCycleTypes, GprsTypes, WriteTypes, OperatorTypes
<1> QED
  BY <1>1, <1>2, <1>3, <1>4, <1>5, <1>6 DEF Next

(***************************************************************************)
(* Every variable keeps its type: no counter, packet number or journal     *)
(* outgrows its bound, whatever the faults and the operator.               *)
(***************************************************************************)
THEOREM TypeCorrect == Spec => []TypeOK
<1>1. Init => TypeOK
  BY InitTypes
<1>2. TypeOK /\ [Next]_vars => TypeOK'
  BY StepTypes
<1> QED
  BY <1>1, <1>2, PTL DEF Spec
-----------------------------------------------------------------------------
(***************************************************************************)
(* CountedWereSent.  It needs one fact more to be inductive: read_events   *)
(* counts the records again (and when there is no file to the count of     *)
(* NotFoundCount) only while no packet of events waits for a confirmation. *)
(***************************************************************************)
CountInv ==
    /\ TypeOK
    /\ CountedWereSent
    /\ nState = "CHECK_EVENTS" => batch = {}

\* Steps that leave the journal, the count and the batch alone, and do not
\* go to CHECK_EVENTS.
LEMMA CountStutters ==
    ASSUME CountInv, TypeOK', UNCHANGED <<journal, confirmRecive, batch>>,
           nState' # nState => nState' # "CHECK_EVENTS"
    PROVE  CountInv'
BY DEF CountInv, CountedWereSent

\* Nothing waits for a confirmation after a reboot.
LEMMA CountReboots ==
    ASSUME TypeOK', Reboot
    PROVE  CountInv'
BY DEF CountInv, CountedWereSent, Reboot

\* write_events: the records move down with the count.
LEMMA CountWrites ==
    ASSUME CountInv, TypeOK', WriteEvent
    PROVE  CountInv'
<1>1. UNCHANGED <<batch, nState>>
  BY DEF WriteEvent
<1>2. CASE ~present
  BY <1>1, <1>2 DEF WriteEvent, CountInv, CountedWereSent
<1>3. CASE present
  <2> DEFINE kept == IF Len(journal) >= Capacity THEN Tail(journal) ELSE journal
  <2>1. /\ journal \in Seq(Event) /\ Len(journal) \in Nat /\ Len(journal) <= Capacity
        /\ confirmRecive \in Nat /\ made + 1 \in Event
        /\ Len(journal) >= Capacity => journal # <<>>
    BY LenProperties, EmptySeq DEF CountInv, TypeOK, WriteEvent, Event
  <2>2. /\ journal' = Append(kept, made + 1)
        /\ confirmRecive' = IF confirmRecive > 0 THEN confirmRecive - 1 ELSE 0
    BY <1>3 DEF WriteEvent
  <2>3. SUFFICES ASSUME batch # {}
                 PROVE  /\ confirmRecive' <= Len(journal')
                        /\ \A i \in 1..confirmRecive' : journal'[i] \in batch
    BY <1>1 DEF CountInv, CountedWereSent
  <2>4. confirmRecive <= Len(journal) /\ \A i \in 1..confirmRecive : journal[i] \in batch
    BY <2>3 DEF CountInv, CountedWereSent
  <2>5. CASE Len(journal) >= Capacity
    <3>1. /\ Tail(journal) \in Seq(Event) /\ Len(Tail(journal)) = Len(journal) - 1
          /\ \A i \in 1..(Len(journal) - 1) : Tail(journal)[i] = journal[i + 1]
      BY <2>1, <2>5, HeadTailProperties
    <3>2. /\ Len(journal') = Len(journal)
          /\ \A i \in 1..(Len(journal) - 1) : journal'[i] = journal[i + 1]
      BY <2>1, <2>2, <2>5, <3>1, AppendProperties
    <3> QED
      BY <2>1, <2>2, <2>4, <3>2
  <2>6. CASE ~(Len(journal) >= Capacity)
    <3>1. /\ Len(journal') = Len(journal) + 1
          /\ \A i \in 1..Len(journal) : journal'[i] = journal[i]
      BY <2>1, <2>2, <2>6, AppendProperties
    <3> QED
      BY <2>1, <2>2, <2>4, <3>1
  <2> QED
    BY <2>5, <2>6
<1> QED
  BY <1>2, <1>3 DEF CountInv, TypeOK

\* The work cycle counts again only when a new packet replaces the batch, or
\* when there is none.
LEMMA CountCycles ==
    ASSUME CountInv, TypeOK', WorkCycle
    PROVE  CountInv'
<1>1. CASE TickSendEvents
  <2>1. journal' = journal /\ confirmRecive' = Len(journal) /\ batch' = Records(journal)
        /\ nState' = "WAITING"
    BY <1>1 DEF TickSendEvents, flash
  <2>2. Len(journal) \in Nat
    BY LenProperties DEF CountInv, TypeOK
  <2> QED
    BY <2>1, <2>2 DEF CountInv, CountedWereSent, Records
<1>2. CASE TickNoEvents
  <2>1. batch' = {}
    BY <1>2 DEF TickNoEvents, CountInv, history
  <2> QED
    BY <2>1 DEF CountInv, CountedWereSent
<1>3. CASE TickRegisterSocketFails
  BY <1>3, CountReboots DEF TickRegisterSocketFails, Reset
<1>4. CASE \/ TickRegister \/ TickConfig \/ TickActivate \/ TickLocalIp \/ TickEstConnect
           \/ TickIdle
  BY <1>4, CountStutters
  DEF TickRegister, TickConfig, TickActivate, TickLocalIp, TickEstConnect, TickIdle,
      flash, counts, history
<1> QED
  BY <1>1, <1>2, <1>3, <1>4 DEF WorkCycle

LEMMA StepCounts == CountInv /\ [Next]_vars => CountInv'
<1> SUFFICES ASSUME CountInv, [Next]_vars PROVE CountInv'
  OBVIOUS
<1> USE DEF flash, counts, conn, history
<1>0. TypeOK'
  BY StepTypes DEF CountInv
<1>1. CASE UNCHANGED vars
  BY <1>0, <1>1, CountStutters DEF vars
<1>2. CASE WorkCycle
  BY <1>0, <1>2, CountCycles
<1>3. CASE WriteEvent
  BY <1>0, <1>3, CountWrites
<1>4. CASE ReadConfirm
  <2>1. batch' = {}
    BY <1>4 DEF ReadConfirm
  <2> QED
    BY <1>0, <2>1 DEF CountInv, CountedWereSent
<1>5. CASE GprsActived
  BY <1>0, <1>5, CountStutters DEF GprsActived
<1>6. CASE PowerLoss \/ PowerLossInConfirm \/ PowerLossInWrite \/ GprsDeactived
  BY <1>0, <1>6, CountReboots
  DEF PowerLoss, PowerLossInConfirm, PowerLossInWrite, GprsDeactived, Reset
<1>7. ASSUME NEW s \in Socket, SocketRefused(s)
      PROVE  CountInv'
  <2>1. CASE Reset
    BY <1>0, <2>1, CountReboots DEF Reset
  <2>2. CASE ~Reset
    BY <1>0, <1>7, <2>2, CountStutters DEF SocketRefused
  <2> QED
    BY <2>1, <2>2
<1>8. ASSUME NEW s \in Socket, SocketConnected(s) \/ SocketClosed(s) \/ Lose(s) \/ Deliver(s)
      PROVE  CountInv'
  BY <1>0, <1>8, CountStutters
  DEF SocketConnected, EstEmptyMsg, SocketClosed, Lose, Deliver
<1>9. CASE ReadOther \/ ConfirmExpires
  <2>1. CASE Reset
    BY <1>0, <2>1, CountReboots DEF Reset
  <2>2. CASE ~Reset
    BY <1>0, <1>9, <2>2, CountStutters DEF ReadOther, ConfirmExpires
  <2> QED
    BY <2>1, <2>2
<1>10. CASE ReadGarbled \/ ConnectorExpires \/ EmptyExpires
  BY <1>0, <1>10, CountStutters DEF ReadGarbled, ConnectorExpires, EmptyExpires, EstEmptyMsg
<1>11. CASE OperatorActs
  <2>1. ASSUME NEW v \in BOOLEAN, ConsoleEst(v)
        PROVE  CountInv'
    BY <1>0, <2>1, CountStutters DEF ConsoleEst
  <2>2. CASE StartEst \/ WebStop \/ MenuOff \/ MenuSave
    BY <1>0, <2>2, CountStutters DEF StartEst, WebStop, MenuOff, MenuSave
  <2> QED
    BY <1>11, <2>1, <2>2 DEF OperatorActs
<1> QED
  BY <1>1, <1>2, <1>3, <1>4, <1>5, <1>6, <1>7, <1>8, <1>9, <1>10, <1>11 DEF Next

(***************************************************************************)
(* A confirmation never retires a record that was not in the packet that   *)
(* waits for it: records appended, shifted out by an overflow and counted  *)
(* down while it is on its way do not slip under the count.                *)
(***************************************************************************)
THEOREM CountCorrect == Spec => []CountedWereSent
<1>1. Init => CountInv
  BY InitTypes DEF Init, RamInit, CountInv, CountedWereSent
<1>2. CountInv /\ [Next]_vars => CountInv'
  BY StepCounts
<1>3. CountInv => CountedWereSent
  BY DEF CountInv
<1> QED
  BY <1>1, <1>2, <1>3, PTL DEF Spec
-----------------------------------------------------------------------------
(***************************************************************************)
(* One connection, and what is on it.  Without an operator the device is   *)
(* in its boot, then holds one socket, and has at most one packet or       *)
(* confirmation under way on it.                                           *)
(***************************************************************************)
Boot  == {"NONE", "REGISTER", "CONFIG", "ACTIVATE", "ACTIVATING", "LOCALIP", "EST_CONNECT"}
Quiet == \A s \in Socket : sock[s] = "free"

\* What runs when: nothing in the boot, the connector only without a socket,
\* the empty timer only between two packets.
Phases ==
    /\ nState \in Boot => Quiet /\ \A t \in Timer : timer[t] = "off"
    /\ bearer = "pending" => nState = "ACTIVATING"
    /\ nState \in {"EST_CONNECT", "WAITING", "CHECK_EVENTS"} => useEst
    /\ timer["CONNECTOR"] # "off" => Quiet /\ timer["EMPTY"] = "off"
    /\ timer["EMPTY"] # "off" =>
          nState = "CHECK_EVENTS" /\ \A s \in Socket : sock[s] # "connecting"

\* One socket, and on it one packet or its confirmation; none while the device
\* looks for events.
OneUnderWay ==
    /\ \A s \in Socket : sock[s] # "free" => s = estId
    /\ \A s \in Socket :
          sock[s] # "open" \/ nState = "CHECK_EVENTS" => up[s] = <<>> /\ down[s] = <<>>
    /\ \A s \in Socket : Len(up[s]) + Len(down[s]) <= 1

\* The carrier holds the batch until it is confirmed, and the server has it then.
Carried ==
    carrier # NoSocket =>
        /\ carrier = estId /\ batch # {} /\ sock[estId] = "open"
        /\ up[estId] # <<>> => Head(up[estId]).evs = batch
        /\ down[estId] # <<>> => batch \subseteq received

\* A count without a batch is left over from the packet confirmed last, and
\* read_events comes before anything is sent.
Leftover ==
    /\ nState = "CHECK_EVENTS"
    /\ timer["EMPTY"] # "running" /\ timer["CONNECTOR"] # "running"
    /\ \A s \in Socket : sock[s] # "connecting"

CountsBatch ==
    /\ batch \subseteq offered
    /\ batch = {} /\ present /\ confirmRecive > 0 => Leftover

LinkInv == CountInv /\ Phases /\ OneUnderWay /\ Carried /\ CountsBatch /\ NoOverrun

\* Whoever has a socket to the server has left the boot, and runs no connector.
LEMMA Linked ==
    ASSUME LinkInv, NEW s \in Socket, sock[s] # "free"
    PROVE  /\ s = estId /\ useEst /\ nState \in {"WAITING", "CHECK_EVENTS"}
           /\ timer["CONNECTOR"] = "off"
           /\ sock[s] # "open" => carrier = NoSocket
BY DEF LinkInv, Phases, OneUnderWay, Carried, Quiet, CountInv, TypeOK, State, Boot

LEMMA Unlinked ==
    ASSUME LinkInv, Quiet
    PROVE  /\ carrier = NoSocket
           /\ \A s \in Socket : up[s] = <<>> /\ down[s] = <<>>
BY DEF LinkInv, Quiet, OneUnderWay, Carried, CountInv, TypeOK

LEMMA LinkReboots ==
    ASSUME LinkInv, CountInv', Reboot
    PROVE  LinkInv'
<1>1. Phases' /\ Carried' /\ CountsBatch' /\ NoOverrun'
  BY DEF LinkInv, Reboot, Phases, Carried, CountsBatch, NoOverrun, Boot, Quiet, Timer
<1>2. OneUnderWay'
  BY EmptySeq DEF Reboot, OneUnderWay
<1> QED
  BY <1>1, <1>2 DEF LinkInv

\* Nothing but the new socket is in use.
LEMMA ConnectPicks ==
    ASSUME LinkInv, Quiet, EstSocketConnect
    PROVE  \A s \in Socket : sock'[s] # "free" => s = estId'
<1>1. sock \in [Socket -> {"free", "idle", "connecting", "open", "lost"}]
  BY DEF LinkInv, CountInv, TypeOK
<1>2. CASE UNCHANGED sock
  BY <1>2 DEF Quiet
<1>3. CASE \E s \in Socket : /\ estId' = s
                            /\ \/ sock' = [sock EXCEPT ![s] = "connecting"]
                               \/ sock' = [sock EXCEPT ![s] = "idle"]
  BY <1>1, <1>3 DEF Quiet
<1> QED
  BY <1>2, <1>3 DEF EstSocketConnect

\* The only packet on a socket that had none
LEMMA OnlyPacket ==
    ASSUME NEW p
    PROVE  Append(<<>>, p) = <<p>> /\ Len(<<p>>) = 1 /\ Head(<<p>>) = p /\ <<p>> # <<>>
OBVIOUS

LEMMA OneAtMost ==
    ASSUME NEW p, NEW u, NEW d, u = <<>> \/ u = <<p>>, d = <<>>
    PROVE  Len(u) + Len(d) <= 1
<1>1. Len(d) = 0
  BY EmptySeq
<1>2. Len(u) = 0 \/ Len(u) = 1
  <2>1. CASE u = <<>>
    BY <2>1, EmptySeq
  <2>2. CASE u = <<p>>
    BY <2>2, OnlyPacket
  <2> QED
    BY <2>1, <2>2
<1> QED
  BY <1>1, <1>2

\* est_socket_connect without a socket: the new one is the only one, and bare.
LEMMA ConnectsAlone ==
    ASSUME LinkInv, Quiet, EstSocketConnect
    PROVE  OneUnderWay' /\ Carried'
<1>1. UNCHANGED <<up, down, carrier>>
  BY DEF EstSocketConnect
<1>2. \A s \in Socket : up'[s] = <<>> /\ down'[s] = <<>>
  BY <1>1, Unlinked
<1>3. \A s \in Socket : Len(up'[s]) + Len(down'[s]) <= 1
  <2> SUFFICES ASSUME NEW s \in Socket PROVE Len(up'[s]) + Len(down'[s]) <= 1
    OBVIOUS
  <2> QED
    BY <1>2, OneAtMost
<1>4. \A s \in Socket : sock'[s] # "free" => s = estId'
  BY ConnectPicks
<1>5. Carried'
  BY <1>1, Unlinked DEF Carried
<1> QED
  BY <1>2, <1>3, <1>4, <1>5 DEF OneUnderWay

\* Aging starts and stops no timer.
LEMMA AgedOff ==
    ASSUME timer \in [Timer -> TimerState], NEW t \in Timer
    PROVE  Aged[t] = "off" <=> timer[t] = "off"
BY DEF Aged, TimerState

LEMMA LinkCycles ==
    ASSUME LinkInv, CountInv', WorkCycle
    PROVE  LinkInv'
<1> USE DEF flash, counts, conn, gprs, history
<1>0. /\ timer \in [Timer -> TimerState] /\ nState \in State
      /\ {"CONNECTOR", "CONFIRM", "EMPTY"} = Timer
  BY DEF LinkInv, CountInv, TypeOK, TimerState, Timer
<1>1. CASE \/ TickRegister \/ TickConfig \/ TickActivate \/ TickLocalIp
  <2>1. /\ nState \in Boot /\ nState' \in Boot /\ timer' = Aged /\ UNCHANGED <<conn, history, confirmRecive, present>>
        /\ bearer' = "pending" => nState' = "ACTIVATING"
        /\ nState' = "EST_CONNECT" => useEst'
    BY <1>0, <1>1 DEF TickRegister, TickConfig, TickActivate, TickLocalIp, Boot, LinkInv, Phases
  <2>2. Quiet' /\ \A t \in Timer : timer'[t] = "off"
    BY <1>0, <2>1, AgedOff DEF LinkInv, Phases, Quiet
  <2>3. Phases'
    BY <1>0, <2>1, <2>2 DEF Phases, Boot
  <2>4. OneUnderWay' /\ Carried' /\ NoOverrun'
    BY <2>1 DEF LinkInv, OneUnderWay, Carried, NoOverrun, Boot
  <2>5. CountsBatch'
    BY <2>1 DEF LinkInv, CountsBatch, Leftover, Boot
  <2> QED
    BY <2>3, <2>4, <2>5 DEF LinkInv
<1>2. CASE TickRegisterSocketFails
  BY <1>2, LinkReboots DEF TickRegisterSocketFails, Reset
<1>3. CASE TickEstConnect
  <2>1. /\ Quiet /\ nState' = "WAITING" /\ useEst /\ timer' = Aged
        /\ UNCHANGED <<useEst, present, confirmRecive, bearer, batch, offered, overrun, up, down, carrier>>
        /\ EstSocketConnect
        /\ \A t \in Timer : timer[t] = "off"
    BY <1>0, <1>3 DEF TickEstConnect, EstSocketConnect, LinkInv, Phases, Boot
  <2>2. \A t \in Timer : timer'[t] = "off"
    BY <1>0, <2>1, AgedOff
  <2>3. Phases'
    BY <1>0, <1>3, <2>1, <2>2 DEF LinkInv, Phases, Boot, TickEstConnect
  <2>4. OneUnderWay' /\ Carried'
    BY <2>1, ConnectsAlone
  <2>5. NoOverrun'
    BY <2>1 DEF LinkInv, NoOverrun
  <2>6. CountsBatch'
    BY <1>3, <2>1 DEF LinkInv, CountsBatch, Leftover, TickEstConnect
  <2> QED
    BY <2>3, <2>4, <2>5, <2>6 DEF LinkInv
<1>4. CASE TickSendEvents
  <2> DEFINE evs == Records(journal)
             packet == [num |-> numPacket, evs |-> evs]
  <2>1. PICK taken \in BOOLEAN :
          /\ Send(EstIs("open"), taken, evs)
          /\ carrier' = IF taken THEN estId ELSE NoSocket
    BY <1>4 DEF TickSendEvents
  <2>2. /\ nState = "CHECK_EVENTS" /\ nState' = "WAITING" /\ useEst /\ batch' = evs
        /\ offered' = offered \union evs
        /\ UNCHANGED <<useEst, bearer, estId, sock, down, received, overrun>>
    BY <1>4 DEF TickSendEvents
  <2>3. \A s \in Socket : up[s] = <<>> /\ down[s] = <<>>
    BY <2>2 DEF LinkInv, OneUnderWay
  <2>4. evs # {}
    <3>1. journal \in Seq(Event) /\ journal # <<>>
      BY <1>4 DEF TickSendEvents, LinkInv, CountInv, TypeOK
    <3>2. 1 \in 1..Len(journal)
      BY <3>1, LenProperties, EmptySeq
    <3> QED
      BY <3>2 DEF Records
  <2>5. taken => estId \in Socket /\ sock[estId] = "open" /\ estId # NoSocket
    BY <2>1 DEF Send, EstIs, LinkInv, CountInv, TypeOK
  <2>6. /\ timer'["EMPTY"] = "off"
        /\ timer'["CONNECTOR"] # "off" => timer["CONNECTOR"] # "off"
    BY <1>0, <1>4, AgedOff DEF TickSendEvents, Started, Stopped, Timer
  <2>7. Phases'
    BY <2>2, <2>6 DEF LinkInv, Phases, Quiet, Boot
  <2>8. \A s \in Socket : up'[s] = IF taken /\ s = estId THEN <<packet>> ELSE <<>>
    <3>1. up \in [Socket -> Seq(Packet)]
      BY DEF LinkInv, CountInv, TypeOK
    <3>2. Append(<<>>, packet) = <<packet>>
      BY OnlyPacket
    <3>3. CASE ~ taken
      BY <2>1, <2>3, <3>3 DEF Send
    <3>4. CASE taken
      <4>1. up' = [up EXCEPT ![estId] = Append(up[estId], packet)]
        BY <2>1, <3>4 DEF Send
      <4> QED
        BY <2>3, <2>5, <3>1, <3>2, <3>4, <4>1
    <3> QED
      BY <3>3, <3>4
  <2>9. OneUnderWay'
    <3>1. \A s \in Socket : sock'[s] # "open" => up'[s] = <<>> /\ down'[s] = <<>>
      BY <2>2, <2>3, <2>5, <2>8
    <3>2. \A s \in Socket : Len(up'[s]) + Len(down'[s]) <= 1
      <4> SUFFICES ASSUME NEW s \in Socket PROVE Len(up'[s]) + Len(down'[s]) <= 1
        OBVIOUS
      <4>1. (up'[s] = <<>> \/ up'[s] = <<packet>>) /\ down'[s] = <<>>
        BY <2>2, <2>3, <2>8
      <4> QED
        BY <4>1, OneAtMost
    <3> QED
      BY <2>2, <3>1, <3>2 DEF LinkInv, OneUnderWay
  <2>10. Carried'
    BY <2>1, <2>2, <2>3, <2>4, <2>5, <2>8 DEF Carried
  <2>11. CountsBatch' /\ NoOverrun'
    BY <2>2, <2>4 DEF LinkInv, CountsBatch, NoOverrun
  <2> QED
    BY <2>7, <2>9, <2>10, <2>11 DEF LinkInv
<1>5. CASE TickNoEvents
  <2>1. /\ timer' = Aged /\ nState = "CHECK_EVENTS" /\ UNCHANGED <<nState, useEst, conn, gprs, history, present>>
        /\ present => confirmRecive' = 0
    BY <1>5 DEF TickNoEvents
  <2>2. Phases'
    BY <1>0, <2>1, AgedOff DEF LinkInv, Phases, Quiet, Boot
  <2>3. OneUnderWay' /\ Carried' /\ NoOverrun'
    BY <2>1 DEF LinkInv, OneUnderWay, Carried, NoOverrun
  <2>4. CountsBatch'
    BY <2>1 DEF LinkInv, CountsBatch
  <2> QED
    BY <2>2, <2>3, <2>4 DEF LinkInv
<1>6. CASE TickIdle
  <2>1. /\ timer' = Aged /\ nState # "CHECK_EVENTS"
        /\ UNCHANGED <<nState, useEst, conn, gprs, history, present, confirmRecive>>
    BY <1>6 DEF TickIdle, LinkInv, Phases
  <2>2. Phases'
    BY <1>0, <2>1, AgedOff DEF LinkInv, Phases, Quiet
  <2>3. OneUnderWay' /\ Carried' /\ CountsBatch' /\ NoOverrun'
    BY <2>1 DEF LinkInv, OneUnderWay, Carried, CountsBatch, Leftover, NoOverrun
  <2> QED
    BY <2>2, <2>3 DEF LinkInv
<1> QED
  BY <1>1, <1>2, <1>3, <1>4, <1>5, <1>6 DEF WorkCycle

\* What est_empty_msg finds, whoever calls it: nothing is under way, and no
\* count without a batch.
Between ==
    /\ useEst /\ bearer # "pending" /\ carrier = NoSocket
    /\ batch = {} /\ present => ~ (confirmRecive > 0)
    /\ \A s \in Socket : up[s] = <<>> /\ down[s] = <<>>

Untimed(tmr) ==
    tmr \in [Timer -> TimerState] /\ tmr["CONNECTOR"] = "off" /\ tmr["EMPTY"] = "off"

OnlyEst == \A s \in Socket : sock[s] # "free" => s = estId

EmptyKeeps == <<useEst, bearer, estId, down, carrier, batch, present, confirmRecive,
                received, offered, overrun>>

LEMMA LinkSendsEmpty ==
    ASSUME LinkInv, CountInv', Between, OnlyEst', UNCHANGED EmptyKeeps,
           NEW open, NEW taken \in BOOLEAN, NEW tmr, Untimed(tmr),
           EstEmptyMsg(open, taken, tmr), taken => EstIs("open")'
    PROVE  LinkInv'
<1> DEFINE packet == [num |-> numPacket, evs |-> {}]
<1>0. /\ useEst' = useEst /\ bearer' = bearer /\ estId' = estId /\ down' = down
      /\ carrier' = carrier /\ batch' = batch /\ present' = present
      /\ confirmRecive' = confirmRecive /\ received' = received /\ offered' = offered
      /\ overrun' = overrun
  BY DEF EmptyKeeps
<1>1. nState' = "WAITING" /\ timer' = Started(tmr, {"CONFIRM"})
  BY DEF EstEmptyMsg
<1>2. timer'["CONNECTOR"] = "off" /\ timer'["EMPTY"] = "off"
  BY <1>1 DEF Started, Timer, Untimed
<1>3. Phases'
  BY <1>0, <1>1, <1>2 DEF Phases, Boot, Between
<1>4. Carried' /\ CountsBatch' /\ NoOverrun'
  BY <1>0 DEF LinkInv, Carried, CountsBatch, NoOverrun, Between
<1>5. taken => estId \in Socket /\ sock'[estId] = "open"
  BY <1>0 DEF EstIs, LinkInv, CountInv, TypeOK
<1>6. \A s \in Socket : up'[s] = IF taken /\ s = estId THEN <<packet>> ELSE <<>>
  <2>1. up \in [Socket -> Seq(Packet)] /\ \A s \in Socket : up[s] = <<>>
    BY DEF LinkInv, CountInv, TypeOK, Between
  <2>2. Append(<<>>, packet) = <<packet>>
    BY OnlyPacket
  <2>3. CASE ~ taken
    BY <2>1, <2>3 DEF EstEmptyMsg, Send
  <2>4. CASE taken
    <3>1. up' = [up EXCEPT ![estId] = Append(up[estId], packet)]
      BY <2>4 DEF EstEmptyMsg, Send
    <3> QED
      BY <1>5, <2>1, <2>2, <2>4, <3>1
  <2> QED
    BY <2>3, <2>4
<1>7. OneUnderWay'
  <2>1. \A s \in Socket : down'[s] = <<>>
    BY <1>0 DEF Between
  <2>2. \A s \in Socket : Len(up'[s]) + Len(down'[s]) <= 1
    <3> SUFFICES ASSUME NEW s \in Socket PROVE Len(up'[s]) + Len(down'[s]) <= 1
      OBVIOUS
    <3>1. (up'[s] = <<>> \/ up'[s] = <<packet>>) /\ down'[s] = <<>>
      BY <1>6, <2>1
    <3> QED
      BY <3>1, OneAtMost
  <2> QED
    BY <1>1, <1>5, <1>6, <2>1, <2>2 DEF OneUnderWay, OnlyEst
<1> QED
  BY <1>3, <1>4, <1>7 DEF LinkInv

LEMMA LinkConnected ==
    ASSUME LinkInv, CountInv', NEW s \in Socket, SocketConnected(s)
    PROVE  LinkInv'
<1>1. PICK taken \in BOOLEAN :
        EstEmptyMsg(estId = s \/ EstIs("open"), taken, Stopped(timer, {"CONNECTOR"}))
  BY DEF SocketConnected
<1>2. /\ sock[s] = "connecting" /\ sock' = [sock EXCEPT ![s] = "open"]
      /\ UNCHANGED EmptyKeeps
  BY DEF SocketConnected, flash, counts, gprs, history, EmptyKeeps, EstEmptyMsg
<1>3. /\ s = estId /\ useEst /\ nState \in {"WAITING", "CHECK_EVENTS"} /\ carrier = NoSocket
      /\ timer["CONNECTOR"] = "off"
  BY <1>2, Linked
<1>4. /\ timer \in [Timer -> TimerState] /\ {"CONNECTOR", "CONFIRM", "EMPTY"} = Timer
      /\ sock \in [Socket -> {"free", "idle", "connecting", "open", "lost"}]
  BY DEF LinkInv, CountInv, TypeOK, TimerState, Timer
<1>5. Between /\ timer["EMPTY"] = "off"
  BY <1>2, <1>3 DEF LinkInv, OneUnderWay, Phases, CountsBatch, Leftover, Between
<1>6. OnlyEst' /\ EstIs("open")'
  BY <1>2, <1>3, <1>4, EstAssumption DEF LinkInv, OneUnderWay, OnlyEst, EstIs, EmptyKeeps
<1>7. Untimed(Stopped(timer, {"CONNECTOR"}))
  BY <1>4, <1>5 DEF Stopped, Untimed, TimerState
<1> QED
  BY <1>1, <1>2, <1>5, <1>6, <1>7, LinkSendsEmpty

LEMMA LinkEmptyExpires ==
    ASSUME LinkInv, CountInv', EmptyExpires
    PROVE  LinkInv'
<1>1. PICK taken \in BOOLEAN : EstEmptyMsg(EstIs("open"), taken, Stopped(timer, {"EMPTY"}))
  BY DEF EmptyExpires
<1>2. /\ timer["EMPTY"] = "running" /\ sock' = sock
      /\ UNCHANGED EmptyKeeps
  BY DEF EmptyExpires, flash, counts, gprs, history, EmptyKeeps
<1>3. /\ nState = "CHECK_EVENTS" /\ useEst /\ bearer # "pending" /\ timer["CONNECTOR"] = "off"
  BY <1>2 DEF LinkInv, Phases
<1>4. /\ timer \in [Timer -> TimerState] /\ {"CONNECTOR", "CONFIRM", "EMPTY"} = Timer
  BY DEF LinkInv, CountInv, TypeOK, TimerState, Timer
<1>5. Between
  BY <1>2, <1>3 DEF LinkInv, OneUnderWay, CountsBatch, Leftover, Between, CountInv, Carried
<1>6. OnlyEst' /\ (taken => EstIs("open")')
  BY <1>1, <1>2 DEF LinkInv, OneUnderWay, OnlyEst, EstIs, EmptyKeeps, EstEmptyMsg, Send
<1>7. Untimed(Stopped(timer, {"EMPTY"}))
  BY <1>3, <1>4 DEF Stopped, Untimed, TimerState
<1> QED
  BY <1>1, <1>2, <1>5, <1>6, <1>7, LinkSendsEmpty

\* A socket that ends takes with it what was under way.
LEMMA LinkReleases ==
    ASSUME LinkInv, NEW s \in Socket, NEW becomes \in {"free", "lost"},
           sock[s] # "free", Released(s, becomes), UNCHANGED <<nState, estId, batch, received>>
    PROVE  /\ OneUnderWay' /\ Carried'
           /\ sock' = [sock EXCEPT ![s] = becomes]
           /\ becomes = "free" => Quiet'
<1>1. s = estId
  BY Linked
<1>2. /\ sock \in [Socket -> {"free", "idle", "connecting", "open", "lost"}]
      /\ up \in [Socket -> Seq(Packet)] /\ down \in [Socket -> Seq(0..NumPackets)]
  BY DEF LinkInv, CountInv, TypeOK
<1>3. /\ sock' = [sock EXCEPT ![s] = becomes]
      /\ up' = [up EXCEPT ![s] = <<>>] /\ down' = [down EXCEPT ![s] = <<>>]
      /\ carrier' = IF carrier = s THEN NoSocket ELSE carrier
  BY DEF Released
<1>4. \A c \in Socket : c # s => sock[c] = "free"
  BY <1>1 DEF LinkInv, OneUnderWay
<1>5. \A c \in Socket : up'[c] = <<>> /\ down'[c] = <<>>
  BY <1>2, <1>3, <1>4 DEF LinkInv, OneUnderWay
<1>6. \A c \in Socket : Len(up'[c]) + Len(down'[c]) <= 1
  <2> SUFFICES ASSUME NEW c \in Socket PROVE Len(up'[c]) + Len(down'[c]) <= 1
    OBVIOUS
  <2> QED
    BY <1>5, OneAtMost
<1>7. carrier' = NoSocket
  BY <1>1, <1>3 DEF LinkInv, Carried
<1> QED
  BY <1>1, <1>2, <1>3, <1>4, <1>5, <1>6, <1>7 DEF OneUnderWay, Carried, Quiet

LEMMA LinkRefused ==
    ASSUME LinkInv, CountInv', NEW s \in Socket, SocketRefused(s)
    PROVE  LinkInv'
<1>1. CASE tmrIndex > BackoffLimit
  BY <1>1, LinkReboots DEF SocketRefused, Reset
<1>2. CASE ~ (tmrIndex > BackoffLimit)
  <2>1. /\ sock[s] = "connecting" /\ timer' = Started(timer, {"CONNECTOR"})
        /\ sock' = [c \in Socket |-> IF c = estId THEN "free" ELSE
                                     IF c = s THEN "idle" ELSE sock[c]]
        /\ up' = [c \in Socket |-> IF c = estId THEN <<>> ELSE up[c]]
        /\ down' = [c \in Socket |-> IF c = estId THEN <<>> ELSE down[c]]
        /\ carrier' = IF carrier = estId THEN NoSocket ELSE carrier
        /\ UNCHANGED <<nState, useEst, bearer, batch, present, confirmRecive, offered, overrun>>
    BY <1>2 DEF SocketRefused, flash, gprs
  <2>2. /\ s = estId /\ useEst /\ nState \in {"WAITING", "CHECK_EVENTS"} /\ carrier = NoSocket
    BY <2>1, Linked
  <2>3. \A c \in Socket : c # s => sock[c] = "free"
    BY <2>2 DEF LinkInv, OneUnderWay
  <2>4. Quiet' /\ \A c \in Socket : up'[c] = <<>> /\ down'[c] = <<>>
    BY <2>1, <2>2, <2>3 DEF LinkInv, OneUnderWay, Quiet
  <2>5. timer["EMPTY"] = "off" /\ timer'["EMPTY"] = "off"
    BY <2>1 DEF LinkInv, Phases, Started, Timer
  <2>6. Phases'
    BY <2>1, <2>2, <2>4, <2>5 DEF LinkInv, Phases, Boot
  <2>7. OneUnderWay'
    <3>1. \A c \in Socket : Len(up'[c]) + Len(down'[c]) <= 1
      <4> SUFFICES ASSUME NEW c \in Socket PROVE Len(up'[c]) + Len(down'[c]) <= 1
        OBVIOUS
      <4> QED
        BY <2>4, OneAtMost
    <3> QED
      BY <2>4, <3>1 DEF OneUnderWay, Quiet
  <2>8. Carried' /\ CountsBatch' /\ NoOverrun'
    BY <2>1, <2>2 DEF LinkInv, Carried, CountsBatch, Leftover, NoOverrun
  <2> QED
    BY <2>6, <2>7, <2>8 DEF LinkInv
<1> QED
  BY <1>1, <1>2

LEMMA LinkClosed ==
    ASSUME LinkInv, CountInv', NEW s \in Socket, SocketClosed(s)
    PROVE  LinkInv'
<1>1. /\ sock[s] = "lost" /\ Released(s, "free")
      /\ UNCHANGED <<nState, useEst, bearer, estId, batch, received, present, confirmRecive,
                     offered, overrun>>
  BY DEF SocketClosed, flash, counts, gprs
<1>2. s = estId /\ useEst /\ nState \in {"WAITING", "CHECK_EVENTS"}
  BY <1>1, Linked
<1>3. OneUnderWay' /\ Carried' /\ Quiet'
  BY <1>1, LinkReleases
<1>4. timer' = Stopped(Started(timer, {"CONNECTOR"}), {"CONFIRM", "EMPTY"})
  BY <1>2 DEF SocketClosed
<1>5. timer'["EMPTY"] = "off" /\ timer'["CONNECTOR"] = "started"
  BY <1>4 DEF Stopped, Started, Timer
<1>6. Phases'
  BY <1>1, <1>2, <1>3, <1>5 DEF LinkInv, Phases, Boot
<1>7. CountsBatch' /\ NoOverrun'
  BY <1>1, <1>3, <1>5 DEF LinkInv, CountsBatch, Leftover, NoOverrun, Quiet
<1> QED
  BY <1>3, <1>6, <1>7 DEF LinkInv

LEMMA LinkLost ==
    ASSUME LinkInv, CountInv', NEW s \in Socket, Lose(s)
    PROVE  LinkInv'
<1>1. /\ sock[s] = "open" /\ Released(s, "lost")
      /\ UNCHANGED <<nState, useEst, bearer, timer, estId, batch, received, present,
                     confirmRecive, offered, overrun>>
  BY DEF Lose, flash, counts, gprs
<1>2. /\ s = estId /\ useEst /\ nState \in {"WAITING", "CHECK_EVENTS"}
      /\ timer["CONNECTOR"] = "off"
  BY <1>1, Linked
<1>3. OneUnderWay' /\ Carried' /\ sock' = [sock EXCEPT ![s] = "lost"]
  BY <1>1, LinkReleases
<1>4. \A c \in Socket : sock'[c] = "connecting" => sock[c] = "connecting"
  BY <1>3 DEF LinkInv, CountInv, TypeOK
<1>5. Phases'
  BY <1>1, <1>2, <1>4 DEF LinkInv, Phases, Boot
<1>6. CountsBatch' /\ NoOverrun'
  BY <1>1, <1>4 DEF LinkInv, CountsBatch, Leftover, NoOverrun
<1> QED
  BY <1>3, <1>5, <1>6 DEF LinkInv

LEMMA AtMostOne ==
    ASSUME NEW a \in Nat, NEW b \in Nat, a + b <= 1
    PROVE  (a # 0 => a = 1) /\ a <= 1 /\ b <= 1 /\ ~ (a = 1 /\ b = 1)
OBVIOUS

\* A sequence of one
LEMMA Single ==
    ASSUME NEW S, NEW q \in Seq(S), q # <<>>, Len(q) <= 1
    PROVE  Len(q) = 1 /\ Tail(q) = <<>>
<1>1. Len(q) \in Nat /\ Len(q) # 0
  BY LenProperties, EmptySeq
<1>2. Len(q) = 1
  <2>1. Len(q) + 0 <= 1
    BY <1>1
  <2> QED
    BY <1>1, <2>1, AtMostOne
<1>3. Tail(q) \in Seq(S) /\ Len(Tail(q)) = Len(q) - 1
  BY HeadTailProperties
<1>4. Len(Tail(q)) = 0
  BY <1>2, <1>3
<1> QED
  BY <1>2, <1>3, <1>4, EmptySeq

\* What is under way is all there is.
LEMMA Alone ==
    ASSUME LinkInv, NEW s \in Socket
    PROVE  /\ up[s] # <<>> => /\ Tail(up[s]) = <<>> /\ down[s] = <<>>
           /\ down[s] # <<>> => /\ Tail(down[s]) = <<>> /\ up[s] = <<>>
           /\ up[s] # <<>> \/ down[s] # <<>> =>
                s = estId /\ sock[s] = "open" /\ nState # "CHECK_EVENTS"
<1>1. up[s] \in Seq(Packet) /\ down[s] \in Seq(0..NumPackets)
  BY DEF LinkInv, CountInv, TypeOK
<1>2. Len(up[s]) \in Nat /\ Len(down[s]) \in Nat /\ Len(up[s]) + Len(down[s]) <= 1
  BY <1>1, LenProperties DEF LinkInv, OneUnderWay
<1>3. Len(up[s]) <= 1 /\ Len(down[s]) <= 1 /\ ~ (Len(up[s]) = 1 /\ Len(down[s]) = 1)
  BY <1>2, AtMostOne
<1>4. up[s] # <<>> => Len(up[s]) = 1 /\ Tail(up[s]) = <<>>
  BY <1>1, <1>3, Single
<1>5. down[s] # <<>> => Len(down[s]) = 1 /\ Tail(down[s]) = <<>>
  BY <1>1, <1>3, Single
<1>6. up[s] = <<>> \/ down[s] = <<>>
  BY <1>3, <1>4, <1>5, Zenon
<1>7. up[s] # <<>> \/ down[s] # <<>> => s = estId /\ sock[s] = "open" /\ nState # "CHECK_EVENTS"
  BY DEF LinkInv, OneUnderWay
<1> QED
  BY <1>4, <1>5, <1>6, <1>7

LEMMA LinkDelivers ==
    ASSUME LinkInv, CountInv', NEW s \in Socket, Deliver(s)
    PROVE  LinkInv'
<1> DEFINE n == Head(up[s]).num
<1>1. /\ up[s] # <<>> /\ up' = [up EXCEPT ![s] = Tail(up[s])]
      /\ down' = [down EXCEPT ![s] = Append(down[s], n)]
      /\ received' = received \union Head(up[s]).evs
      /\ UNCHANGED <<nState, useEst, bearer, timer, estId, sock, batch, carrier, present,
                     confirmRecive, offered, overrun>>
  BY DEF Deliver, flash, counts, gprs
<1>2. /\ Tail(up[s]) = <<>> /\ down[s] = <<>> /\ s = estId /\ sock[s] = "open"
      /\ nState # "CHECK_EVENTS"
  BY <1>1, Alone
<1>3. /\ up \in [Socket -> Seq(Packet)] /\ down \in [Socket -> Seq(0..NumPackets)]
  BY DEF LinkInv, CountInv, TypeOK
<1>4. /\ \A c \in Socket : up'[c] = IF c = s THEN <<>> ELSE up[c]
      /\ \A c \in Socket : down'[c] = IF c = s THEN <<n>> ELSE down[c]
  BY <1>1, <1>2, <1>3, OnlyPacket
<1>5. OneUnderWay'
  <2>1. \A c \in Socket : Len(up'[c]) + Len(down'[c]) <= 1
    <3> SUFFICES ASSUME NEW c \in Socket PROVE Len(up'[c]) + Len(down'[c]) <= 1
      OBVIOUS
    <3>1. CASE c = s
      <4>1. Len(up'[c]) = 0 /\ Len(down'[c]) = 1
        BY <1>4, <3>1, EmptySeq, OnlyPacket
      <4> QED
        BY <4>1
    <3>2. CASE c # s
      BY <1>4, <3>2 DEF LinkInv, OneUnderWay
    <3> QED
      BY <3>1, <3>2
  <2>2. \A c \in Socket : sock'[c] # "free" => c = estId'
    BY <1>1 DEF LinkInv, OneUnderWay
  <2>3. \A c \in Socket : sock'[c] # "open" \/ nState' = "CHECK_EVENTS"
                            => up'[c] = <<>> /\ down'[c] = <<>>
    BY <1>1, <1>2, <1>4 DEF LinkInv, OneUnderWay
  <2> QED
    BY <2>1, <2>2, <2>3 DEF OneUnderWay
<1>6. Carried'
  <2>1. carrier # NoSocket => Head(up[s]).evs = batch
    BY <1>1, <1>2 DEF LinkInv, Carried
  <2> QED
    BY <1>1, <1>2, <1>4, <2>1 DEF LinkInv, Carried
<1>7. Phases' /\ CountsBatch' /\ NoOverrun'
  BY <1>1 DEF LinkInv, Phases, Quiet, CountsBatch, Leftover, NoOverrun
<1> QED
  BY <1>5, <1>6, <1>7 DEF LinkInv

\* A confirmation that is read was all that was under way.
LEMMA LinkTakes ==
    ASSUME LinkInv, EstIs("open"), down[estId] # <<>>, Take(estId)
    PROVE  /\ estId \in Socket /\ nState = "WAITING" /\ useEst
           /\ timer["CONNECTOR"] = "off" /\ timer["EMPTY"] = "off"
           /\ \A c \in Socket : sock[c] # "free" => c = estId
           /\ \A c \in Socket : up[c] = <<>> /\ down'[c] = <<>>
           /\ batch = {} /\ present => ~ (confirmRecive > 0)
<1>1. estId \in Socket /\ sock[estId] = "open" /\ sock[estId] # "free"
  BY DEF EstIs, LinkInv, CountInv, TypeOK
<1>2. /\ useEst /\ nState \in {"WAITING", "CHECK_EVENTS"} /\ timer["CONNECTOR"] = "off"
  BY <1>1, Linked
<1>3. /\ Tail(down[estId]) = <<>> /\ up[estId] = <<>> /\ nState # "CHECK_EVENTS"
  BY <1>1, Alone
<1>4. timer["EMPTY"] = "off" /\ (batch = {} /\ present => ~ (confirmRecive > 0))
  BY <1>3 DEF LinkInv, Phases, CountsBatch, Leftover
<1>5. \A c \in Socket : c # estId => up[c] = <<>> /\ down[c] = <<>>
  BY DEF LinkInv, OneUnderWay
<1>6. \A c \in Socket : down'[c] = <<>>
  BY <1>3, <1>5 DEF Take, LinkInv, CountInv, TypeOK
<1> QED
  BY <1>1, <1>2, <1>3, <1>4, <1>5, <1>6 DEF LinkInv, OneUnderWay

\* One socket with nothing under way
LEMMA Idle ==
    ASSUME \A c \in Socket : sock'[c] # "free" => c = estId',
           \A c \in Socket : up'[c] = <<>> /\ down'[c] = <<>>
    PROVE  OneUnderWay'
<1>1. \A c \in Socket : Len(up'[c]) + Len(down'[c]) <= 1
  <2> SUFFICES ASSUME NEW c \in Socket PROVE Len(up'[c]) + Len(down'[c]) <= 1
    OBVIOUS
  <2> QED
    BY OneAtMost
<1> QED
  BY <1>1 DEF OneUnderWay

LEMMA LinkConfirms ==
    ASSUME LinkInv, CountInv', ReadConfirm
    PROVE  LinkInv'
<1>1. /\ EstIs("open") /\ down[estId] # <<>> /\ Take(estId) /\ ConfirmEvents
      /\ timer' = Started(Stopped(timer, {"CONFIRM"}), {"EMPTY"})
      /\ nState' = "CHECK_EVENTS" /\ batch' = {} /\ carrier' = NoSocket
      /\ UNCHANGED <<useEst, bearer, estId, sock, up, offered, present, confirmRecive>>
  BY DEF ReadConfirm, Confirmed, gprs
<1>2. /\ estId \in Socket /\ nState = "WAITING" /\ useEst
      /\ timer["CONNECTOR"] = "off" /\ timer["EMPTY"] = "off"
      /\ \A c \in Socket : sock[c] # "free" => c = estId
      /\ \A c \in Socket : up[c] = <<>> /\ down'[c] = <<>>
      /\ batch = {} /\ present => ~ (confirmRecive > 0)
  BY <1>1, LinkTakes
<1>3. timer'["EMPTY"] = "started" /\ timer'["CONNECTOR"] = "off"
  BY <1>1, <1>2 DEF Started, Stopped, Timer
<1>4. \A c \in Socket : sock'[c] # "connecting"
  BY <1>1, <1>2 DEF EstIs
<1>5. Phases'
  BY <1>1, <1>2, <1>3, <1>4 DEF LinkInv, Phases, Boot
<1>6. OneUnderWay'
  BY <1>1, <1>2, Idle
<1>7. Carried' /\ CountsBatch'
  BY <1>1, <1>3, <1>4 DEF Carried, CountsBatch, Leftover
<1>8. NoOverrun'
  <2>1. confirmRecive \in Nat /\ Len(journal) \in Nat
    BY LenProperties DEF LinkInv, CountInv, TypeOK
  <2>2. present => confirmRecive <= Len(journal)
    BY <1>2, <2>1 DEF LinkInv, CountInv, CountedWereSent
  <2>3. CASE ~ present \/ journal = <<>>
    BY <1>1, <2>3 DEF ConfirmEvents, LinkInv, NoOverrun
  <2>4. CASE present /\ journal # <<>>
    <3>1. overrun' = (overrun \/ confirmRecive > Len(journal))
      BY <1>1, <2>4 DEF ConfirmEvents
    <3>2. ~ (confirmRecive > Len(journal))
      BY <2>1, <2>2, <2>4
    <3> QED
      BY <3>1, <3>2, Zenon DEF LinkInv, NoOverrun
  <2> QED
    BY <2>3, <2>4
<1> QED
  BY <1>5, <1>6, <1>7, <1>8 DEF LinkInv

LEMMA LinkReads ==
    ASSUME LinkInv, CountInv', ReadOther \/ ReadGarbled
    PROVE  LinkInv'
<1>1. CASE Reset
  BY <1>1, LinkReboots DEF Reset
<1>2. CASE ~ Reset
  <2>1. /\ EstIs("open") /\ down[estId] # <<>> /\ Take(estId)
        /\ UNCHANGED <<nState, useEst, bearer, timer, estId, sock, up, batch, carrier,
                       received, offered, present, confirmRecive, overrun>>
    BY <1>2 DEF ReadOther, ReadGarbled, gprs, flash, history
  <2>2. /\ \A c \in Socket : sock[c] # "free" => c = estId
        /\ \A c \in Socket : up[c] = <<>> /\ down'[c] = <<>>
        /\ estId \in Socket
    BY <2>1, LinkTakes
  <2>3. OneUnderWay'
    BY <2>1, <2>2, Idle
  <2>4. Phases' /\ Carried' /\ CountsBatch' /\ NoOverrun'
    BY <2>1, <2>2
    DEF LinkInv, Phases, Quiet, Carried, CountsBatch, Leftover, NoOverrun
  <2> QED
    BY <2>3, <2>4 DEF LinkInv
<1> QED
  BY <1>1, <1>2

LEMMA LinkExpires ==
    ASSUME LinkInv, CountInv', ConnectorExpires \/ ConfirmExpires
    PROVE  LinkInv'
<1>0. /\ timer \in [Timer -> TimerState] /\ {"CONNECTOR", "CONFIRM", "EMPTY"} = Timer
  BY DEF LinkInv, CountInv, TypeOK, TimerState, Timer
<1>1. CASE ConnectorExpires
  <2>1. /\ timer["CONNECTOR"] = "running" /\ timer' = Stopped(timer, {"CONNECTOR"})
        /\ EstSocketConnect
        /\ UNCHANGED <<nState, useEst, bearer, batch, offered, present, confirmRecive, overrun>>
    BY <1>1 DEF ConnectorExpires, gprs, flash, counts
  <2>2. Quiet /\ timer["EMPTY"] = "off" /\ nState \notin Boot
    BY <1>0, <2>1 DEF LinkInv, Phases
  <2>3. timer'["CONNECTOR"] = "off" /\ timer'["EMPTY"] = "off"
    BY <1>0, <2>1, <2>2 DEF Stopped
  <2>4. Phases'
    BY <2>1, <2>2, <2>3 DEF LinkInv, Phases, Boot
  <2>5. OneUnderWay' /\ Carried'
    BY <2>1, <2>2, ConnectsAlone
  <2>6. CountsBatch' /\ NoOverrun'
    BY <2>1 DEF LinkInv, CountsBatch, Leftover, NoOverrun
  <2> QED
    BY <2>4, <2>5, <2>6 DEF LinkInv
<1>2. CASE ConfirmExpires /\ ~ Reset
  <2>1. /\ timer["CONFIRM"] = "running" /\ timer' = Started(timer, {"CONFIRM"})
        /\ UNCHANGED <<nState, useEst, bearer, estId, sock, up, down, batch, carrier,
                       received, offered, present, confirmRecive, overrun>>
    BY <1>2 DEF ConfirmExpires, gprs, flash, conn, history
  <2>2. nState \notin Boot
    BY <1>0, <2>1 DEF LinkInv, Phases
  <2>3. timer'["CONNECTOR"] = timer["CONNECTOR"] /\ timer'["EMPTY"] = timer["EMPTY"]
    BY <1>0, <2>1 DEF Started
  <2>4. Phases'
    BY <2>1, <2>2, <2>3 DEF LinkInv, Phases, Quiet
  <2>5. OneUnderWay' /\ Carried' /\ CountsBatch' /\ NoOverrun'
    BY <2>1, <2>3 DEF LinkInv, OneUnderWay, Carried, CountsBatch, Leftover, NoOverrun
  <2> QED
    BY <2>4, <2>5 DEF LinkInv
<1>3. CASE Reset
  BY <1>3, LinkReboots DEF Reset
<1> QED
  BY <1>1, <1>2, <1>3

LEMMA LinkOthers ==
    ASSUME LinkInv, CountInv', GprsActived \/ WriteEvent \/ UNCHANGED vars
    PROVE  LinkInv'
<1> USE DEF flash, counts, conn, gprs, history
<1>1. CASE GprsActived
  <2>1. /\ bearer = "pending" /\ bearer' # "pending" /\ nState' = "LOCALIP"
        /\ UNCHANGED <<useEst, timer, estId, sock, up, down, batch, carrier,
                       received, offered, present, confirmRecive, overrun>>
    BY <1>1 DEF GprsActived
  <2>2. nState = "ACTIVATING"
    BY <2>1 DEF LinkInv, Phases
  <2>3. Phases'
    BY <2>1, <2>2 DEF LinkInv, Phases, Quiet, Boot
  <2>4. OneUnderWay' /\ Carried' /\ CountsBatch' /\ NoOverrun'
    BY <2>1, <2>2 DEF LinkInv, OneUnderWay, Carried, CountsBatch, Leftover, NoOverrun
  <2> QED
    BY <2>3, <2>4 DEF LinkInv
<1>2. CASE WriteEvent
  <2>1. /\ UNCHANGED <<nState, useEst, bearer, timer, estId, sock, up, down, batch, carrier,
                       received, offered, present, overrun>>
        /\ \/ UNCHANGED confirmRecive
           \/ confirmRecive' = IF confirmRecive > 0 THEN confirmRecive - 1 ELSE 0
    BY <1>2 DEF WriteEvent
  <2>2. confirmRecive \in Nat
    BY DEF LinkInv, CountInv, TypeOK
  <2>3. confirmRecive' > 0 => confirmRecive > 0
    BY <2>1, <2>2
  <2>4. CountsBatch'
    BY <2>1, <2>3 DEF LinkInv, CountsBatch, Leftover
  <2>5. Phases' /\ OneUnderWay' /\ Carried' /\ NoOverrun'
    BY <2>1 DEF LinkInv, Phases, Quiet, OneUnderWay, Carried, NoOverrun
  <2> QED
    BY <2>4, <2>5 DEF LinkInv
<1>3. CASE UNCHANGED vars
  BY <1>3
  DEF vars, LinkInv, Phases, Quiet, OneUnderWay, Carried, CountsBatch, Leftover, NoOverrun
<1> QED
  BY <1>1, <1>2, <1>3

LEMMA StepLinks ==
    ASSUME ~ Operator, LinkInv, [Next]_vars
    PROVE  LinkInv'
<1>0. CountInv'
  BY StepCounts DEF LinkInv
<1>1. CASE WorkCycle
  BY <1>0, <1>1, LinkCycles
<1>2. CASE GprsActived \/ WriteEvent \/ UNCHANGED vars
  BY <1>0, <1>2, LinkOthers
<1>3. CASE GprsDeactived \/ PowerLoss \/ PowerLossInConfirm \/ PowerLossInWrite
  BY <1>0, <1>3, LinkReboots
  DEF GprsDeactived, PowerLoss, PowerLossInConfirm, PowerLossInWrite, Reset
<1>4. ASSUME NEW s \in Socket, SocketConnected(s) \/ SocketRefused(s)
      PROVE  LinkInv'
  BY <1>0, <1>4, LinkConnected, LinkRefused
<1>5. ASSUME NEW s \in Socket, SocketClosed(s) \/ Lose(s) \/ Deliver(s)
      PROVE  LinkInv'
  BY <1>0, <1>5, LinkClosed, LinkLost, LinkDelivers
<1>6. CASE ReadConfirm \/ ReadOther \/ ReadGarbled
  BY <1>0, <1>6, LinkConfirms, LinkReads
<1>7. CASE ConnectorExpires \/ ConfirmExpires \/ EmptyExpires
  BY <1>0, <1>7, LinkExpires, LinkEmptyExpires
<1>8. ~ OperatorActs
  BY DEF OperatorActs
<1> QED
  BY <1>1, <1>2, <1>3, <1>4, <1>5, <1>6, <1>7, <1>8 DEF Next

LEMMA InitLinks == Init => LinkInv
<1> SUFFICES ASSUME Init PROVE LinkInv
  OBVIOUS
<1>1. CountInv
  BY InitTypes DEF Init, RamInit, CountInv, CountedWereSent
<1>2. Phases /\ Carried /\ CountsBatch /\ NoOverrun
  BY DEF Init, RamInit, Phases, Quiet, Carried, CountsBatch, NoOverrun, Boot, Timer
<1>3. OneUnderWay
  BY EmptySeq DEF Init, RamInit, OneUnderWay
<1> QED
  BY <1>1, <1>2, <1>3 DEF LinkInv

LEMMA AlwaysLinked == ASSUME ~ Operator PROVE Spec => []LinkInv
<1>1. Init => LinkInv
  BY InitLinks
<1>2. LinkInv /\ [Next]_vars => LinkInv'
  BY StepLinks
<1> QED
  BY <1>1, <1>2, PTL DEF Spec

(***************************************************************************)
(* est_socket_connect replaces __socket_est_id without closing it, and yet *)
(* the device never holds two sockets: no path leads to a connect while    *)
(* one is in use, unless the operator makes one.                           *)
(***************************************************************************)
THEOREM OneUplinkHolds == ASSUME ~ Operator PROVE Spec => []OneUplink
<1>1. LinkInv => OneUplink
  BY DEF LinkInv, OneUnderWay, OneUplink
<1> QED
  BY <1>1, AlwaysLinked, PTL

(***************************************************************************)
(* confirm_events never subtracts more records than the file holds: the    *)
(* count that a missing file leaves (NotFoundCount) is replaced before a   *)
(* confirmation can use it.                                                *)
(***************************************************************************)
THEOREM NoOverrunHolds == ASSUME ~ Operator PROVE Spec => []NoOverrun
<1>1. LinkInv => NoOverrun
  BY DEF LinkInv
<1> QED
  BY <1>1, AlwaysLinked, PTL

(***************************************************************************)
(* What a confirmation on the connection that carried the events retires,  *)
(* the server has: the confirmation of an empty packet sent before cannot  *)
(* be taken for theirs on that connection, although it has their number.   *)
(***************************************************************************)
THEOREM ConfirmedAreReceived == ASSUME ~ Operator PROVE Spec => []ConfirmedWereReceived
<1>1. LinkInv => ConfirmedWereReceived
  <2> SUFFICES ASSUME LinkInv, Confirmed, carrier = estId,
                      NEW i \in 1..confirmRecive
               PROVE  journal[i] \in received
    BY DEF ConfirmedWereReceived
  <2>1. estId # NoSocket /\ down[estId] # <<>>
    BY DEF Confirmed, EstIs
  <2>2. batch # {} /\ batch \subseteq received
    BY <2>1 DEF LinkInv, Carried
  <2>3. journal[i] \in batch
    BY <2>2 DEF LinkInv, CountInv, CountedWereSent
  <2> QED
    BY <2>2, <2>3
<1> QED
  BY <1>1, AlwaysLinked, PTL
-----------------------------------------------------------------------------
(***************************************************************************)
(* The journal implements EventJournal.                                    *)
(***************************************************************************)

\* All that the next confirmation retires was offered, and is there.
LEMMA CountedWereOffered ==
    ASSUME LinkInv, Confirmed, present
    PROVE  /\ confirmRecive \in 0..Len(journal)
           /\ \A i \in 1..confirmRecive : journal[i] \in offered
<1>1. confirmRecive \in Nat /\ Len(journal) \in Nat
  BY LenProperties DEF LinkInv, CountInv, TypeOK
<1>2. estId \in Socket /\ down[estId] # <<>>
  BY DEF Confirmed, EstIs, LinkInv, CountInv, TypeOK
<1>3. nState # "CHECK_EVENTS"
  BY <1>2, Alone
<1>4. CASE batch = {}
  <2>1. confirmRecive = 0
    BY <1>1, <1>3, <1>4 DEF LinkInv, CountsBatch, Leftover
  <2> QED
    BY <1>1, <2>1
<1>5. CASE batch # {}
  BY <1>1, <1>5 DEF LinkInv, CountInv, CountedWereSent, CountsBatch
<1> QED
  BY <1>4, <1>5

\* The steps in which neither the file nor what was offered changes
LEMMA JournalRests ==
    ASSUME \/ TickRegister \/ TickConfig \/ TickActivate \/ TickLocalIp
           \/ TickRegisterSocketFails \/ TickEstConnect \/ TickNoEvents \/ TickIdle
           \/ GprsActived \/ GprsDeactived
           \/ \E s \in Socket : \/ SocketConnected(s) \/ SocketRefused(s) \/ SocketClosed(s)
                                \/ Lose(s) \/ Deliver(s)
           \/ ReadOther \/ ReadGarbled
           \/ ConnectorExpires \/ ConfirmExpires \/ EmptyExpires \/ PowerLoss
           \/ UNCHANGED vars
    PROVE  UNCHANGED <<journal, present, offered>>
<1> USE DEF flash, history, Reset, Reboot
<1>1. CASE \/ TickRegister \/ TickConfig \/ TickActivate \/ TickLocalIp
           \/ TickRegisterSocketFails \/ TickEstConnect \/ TickNoEvents \/ TickIdle
  BY <1>1 DEF TickRegister, TickConfig, TickActivate, TickLocalIp, TickRegisterSocketFails,
              TickEstConnect, TickNoEvents, TickIdle
<1>2. CASE GprsActived \/ GprsDeactived \/ PowerLoss
  BY <1>2 DEF GprsActived, GprsDeactived, PowerLoss
<1>3. ASSUME NEW s \in Socket,
             SocketConnected(s) \/ SocketRefused(s) \/ SocketClosed(s) \/ Lose(s) \/ Deliver(s)
      PROVE  UNCHANGED <<journal, present, offered>>
  BY <1>3 DEF SocketConnected, SocketRefused, SocketClosed, Lose, Deliver
<1>4. CASE ReadOther \/ ReadGarbled \/ ConnectorExpires \/ ConfirmExpires \/ EmptyExpires
  BY <1>4 DEF ReadOther, ReadGarbled, ConnectorExpires, ConfirmExpires, EmptyExpires
<1>5. CASE UNCHANGED vars
  BY <1>5 DEF vars
<1> QED
  BY <1>1, <1>2, <1>3, <1>4, <1>5

LEMMA JournalSteps ==
    ASSUME ~ Operator, LinkInv, [Next]_vars
    PROVE  [J!JNext]_(J!jvars)
<1> USE DEF J!jvars
<1>1. CASE TickSendEvents
  <2>1. J!Offer
    BY <1>1 DEF TickSendEvents, flash, J!Offer, Records, J!Records
  <2> QED
    BY <2>1 DEF J!JNext
<1>2. CASE WriteEvent
  <2>1. CASE ~ present
    BY <1>2, <2>1 DEF WriteEvent
  <2>2. CASE present
    <3>1. made + 1 \in Event
      BY <1>2 DEF WriteEvent, Event, LinkInv, CountInv, TypeOK
    <3>2. J!Put(made + 1)
      BY <1>2, <2>2 DEF WriteEvent, J!Put
    <3> QED
      BY <3>1, <3>2 DEF J!JNext
  <2> QED
    BY <2>1, <2>2
<1>3. CASE ReadConfirm
  <2>1. Confirmed /\ ConfirmEvents /\ UNCHANGED <<present, offered>>
    BY <1>3 DEF ReadConfirm
  <2>2. CASE ~ present \/ journal = <<>>
    BY <2>1, <2>2 DEF ConfirmEvents
  <2>3. CASE present /\ journal # <<>>
    <3>1. J!Retire(confirmRecive)
      BY <2>1, <2>3, CountedWereOffered DEF ConfirmEvents, J!Retire
    <3> QED
      BY <2>1, <2>3, <3>1, CountedWereOffered DEF J!JNext
  <2> QED
    BY <2>2, <2>3
<1>4. CASE PowerLossInConfirm
  <2>1. Confirmed /\ present /\ offered' = offered
    BY <1>4 DEF PowerLossInConfirm, Reboot
  <2>2. \/ journal' = <<>> /\ present' = FALSE
        \/ /\ \E m \in confirmRecive..Len(journal) :
                journal' = SubSeq(journal, confirmRecive + 1, m)
           /\ UNCHANGED present
    BY <1>4 DEF PowerLossInConfirm
  <2>3. J!TornRetire(confirmRecive)
    BY <2>1, <2>2, CountedWereOffered DEF J!TornRetire
  <2> QED
    BY <2>1, <2>3, CountedWereOffered DEF J!JNext
<1>5. CASE PowerLossInWrite
  <2>1. PICK i \in 1..(Len(journal) - 1) :
          journal' = [j \in 1..Len(journal) |-> IF j <= i THEN journal[j + 1] ELSE journal[j]]
    BY <1>5 DEF PowerLossInWrite
  <2>2. UNCHANGED <<present, offered>>
    BY <1>5 DEF PowerLossInWrite, Reboot
  <2>3. J!TornShift(i)
    BY <2>1, <2>2 DEF J!TornShift
  <2> QED
    BY <2>3 DEF J!JNext
<1>6. CASE ~ (TickSendEvents \/ WriteEvent \/ ReadConfirm \/ PowerLossInConfirm \/ PowerLossInWrite)
  <2>1. ~ OperatorActs
    BY DEF OperatorActs
  <2>2. UNCHANGED <<journal, present, offered>>
    BY <1>6, <2>1, JournalRests DEF Next, WorkCycle
  <2> QED
    BY <2>2
<1> QED
  BY <1>1, <1>2, <1>3, <1>4, <1>5, <1>6

(***************************************************************************)
(* The link implements the journal's specification: through every          *)
(* interleaving of the work cycle, the callbacks and the timers, and every *)
(* reboot, a record leaves the file only after it was offered to the       *)
(* server, by an overflow, or by a power failure while the file is written.*)
(***************************************************************************)
THEOREM JournalImplemented == ASSUME ~ Operator PROVE Spec => JournalSpec
<1>1. Init => J!JInit
  BY DEF Init, J!JInit
<1>2. LinkInv /\ [Next]_vars => [J!JNext]_(J!jvars)
  BY JournalSteps
<1> QED
  BY <1>1, <1>2, AlwaysLinked, PTL DEF Spec, JournalSpec, J!JSpec
=============================================================================
