---------------------------- MODULE Device_proofs ----------------------------
(***************************************************************************)
(* Proofs about Device, for any number of pins, frames on the way, changes *)
(* and faults.                                                             *)
(***************************************************************************)
EXTENDS Device, LeastNatural, SequenceTheorems, TLAPS

\* TypeOK, and while the device boots no question has been counted: what a board
\* answers then is not heard, and must not be missed in the account.
TypeInv == TypeOK /\ (phase = "boot" => count = 0)

LEMMA PinsTypes ==
    /\ Dark \in Pins /\ [Dark EXCEPT !.power = 1] \in Pins
    /\ \A p \in Pins : State(p) \in Frame
    /\ \A p \in Pins, i \in Input, v \in {0, 1} :
          [p EXCEPT !.input[i] = v] \in Pins /\ InputEvent(i, v) \in Frame
    /\ \A p \in Pins, o \in Output, v \in {0, 1} :
          [p EXCEPT !.output[o] = v] \in Pins /\ OutputEvent(o, v) \in Frame
    /\ \A p \in Pins, a \in Analog, v \in Level :
          [p EXCEPT !.analog[a] = v] \in Pins /\ AnalogEvent(a, v) \in Frame
    /\ \A p \in Pins, v \in {0, 1} :
          [p EXCEPT !.power = v] \in Pins /\ PowerEvent(v) \in Frame
BY DeviceAssumption
DEF Dark, Pins, Frame, State, InputEvent, OutputEvent, AnalogEvent, PowerEvent

\* Whatever a frame holds, the mirror stays a mirror.
LEMMA AppliedType ==
    ASSUME NEW m \in Pins, NEW f \in Frame
    PROVE  Applied(m, f) \in Pins
<1>1. CASE f \in [kind : {"state"}, pins : Pins]
  BY <1>1 DEF Applied
<1>2. CASE f \in [kind : {"power"}, val : {0, 1}]
  BY <1>2 DEF Applied, Pins
<1>3. CASE f \in [kind : {"evti"}, pin : Input, val : {0, 1}]
  BY <1>3 DEF Applied, Pins
<1>4. CASE f \in [kind : {"evta"}, pin : Analog, val : Level]
  BY <1>4 DEF Applied, Pins
<1>5. CASE f \in [kind : {"evto"}, pin : Output, val : {0, 1}]
  BY <1>5 DEF Applied, Pins
<1> QED
  BY <1>1, <1>2, <1>3, <1>4, <1>5 DEF Frame

LEMMA FaultType ==
    ASSUME TypeOK, NEW kind, Fault(kind)
    PROVE  faults' \in 0..MaxFaults
BY DeviceAssumption DEF TypeOK, Fault

\* A frame that is heard is one more on the way, and within the bound.
LEMMA HeardType ==
    ASSUME TypeOK, NEW f \in Frame, Heard(f)
    PROVE  /\ frames' \in Seq(Frame) /\ Len(frames') = Len(frames) + 1
           /\ Len(frames') <= MaxFlight /\ phase # "boot"
<1>1. Append(frames, f) \in Seq(Frame) /\ Len(Append(frames, f)) = Len(frames) + 1
  BY AppendProperties DEF TypeOK
<1>2. Len(frames) \in Nat
  BY LenProperties DEF TypeOK
<1> QED
  BY <1>1, <1>2, DeviceAssumption DEF Heard

\* A reset puts the account of questions back to nothing.
LEMMA ResetTypes ==
    ASSUME TypeInv, Reset,
           network' \in Network, ctzu' \in {0, 3}, faults' \in 0..MaxFaults,
           asked' \in Nat, resets' \in Nat, excused' \in Nat,
           UNCHANGED <<pins, deaf, changes>>
    PROVE  TypeInv'
<1>1. <<>> \in Seq(Frame) /\ Len(<<>>) = 0
  BY EmptySeq
<1>2. /\ phase' = "boot" /\ count' = 0 /\ frames' = <<>> /\ unheard' = 0 /\ mirror' = Dark
      /\ ~ armed'
  BY Zenon DEF Reset
<1>3. count' <= asked' + Len(frames') + unheard' /\ Len(frames') <= MaxFlight
  <2>1. Len(frames') = 0 /\ count' = 0 /\ unheard' = 0
    BY <1>1, <1>2, Zenon
  <2>2. \A n \in Nat : 0 <= n + 0 + 0
    OBVIOUS
  <2>3. 0 <= MaxFlight
    BY DeviceAssumption
  <2> QED
    BY <2>1, <2>2, <2>3, Zenon
<1>4. run' \in BOOLEAN /\ need' \in BOOLEAN /\ armed' \in BOOLEAN /\ sure' \in BOOLEAN
  BY DEF Reset
<1>5. pins' \in Pins /\ deaf' \in BOOLEAN /\ changes' \in 0..MaxChanges /\ reported' = None
  BY DEF Reset, TypeInv, TypeOK
<1>6. phase' \in {"boot", "waiting", "cycle"} /\ count' \in 0..4 /\ mirror' \in Pins
      /\ frames' \in Seq(Frame) /\ unheard' \in Nat /\ reported' \in Network \cup {None}
  BY <1>1, <1>2, <1>5, PinsTypes
<1>7. TypeOK'
  BY <1>2, <1>3, <1>4, <1>5, <1>6 DEF TypeOK
<1> QED
  BY <1>2, <1>7 DEF TypeInv

\* A change of the pins and its event, heard or not.
LEMMA ChangesTypes ==
    ASSUME TypeInv, NEW p \in Pins, NEW f \in Frame, Changes(p, f)
    PROVE  TypeInv'
<1> USE DeviceAssumption
<1>1. changes' \in 0..MaxChanges /\ pins' \in Pins
  BY DEF TypeInv, TypeOK, Changes
<1>2. UNCHANGED <<modem, boot, syncing, mirror, deaf, asked, unheard, time>>
  BY DEF Changes
<1>3. Len(frames) \in Nat
  BY LenProperties DEF TypeInv, TypeOK
<1>4. CASE Heard(f) /\ UNCHANGED <<faults, sure>>
  BY <1>1, <1>2, <1>3, <1>4, HeardType
  DEF TypeInv, TypeOK, modem, boot, syncing, time
<1>5. CASE Fault("lost") /\ sure' = FALSE /\ UNCHANGED frames
  BY <1>1, <1>2, <1>3, <1>5, FaultType DEF TypeInv, TypeOK, modem, boot, syncing, time
<1>6. CASE sure' = FALSE /\ UNCHANGED <<faults, frames>>
  BY <1>1, <1>2, <1>3, <1>6 DEF TypeInv, TypeOK, modem, boot, syncing, time
<1> QED
  BY <1>4, <1>5, <1>6 DEF Changes

LEMMA StepTypes == TypeInv /\ [Next]_vars => TypeInv'
<1> SUFFICES ASSUME TypeInv, [Next]_vars PROVE TypeInv'
  OBVIOUS
<1> USE DeviceAssumption
<1>0. Len(frames) \in Nat
  BY LenProperties DEF TypeInv, TypeOK
<1>1. CASE UNCHANGED vars
  BY <1>1
  DEF TypeInv, TypeOK, vars, modem, boot, syncing, board, line, bounds, time
<1>2. CASE RilReady
  BY <1>0, <1>2
  DEF RilReady, TypeInv, TypeOK, modem, boot, syncing, board, line, bounds, time
<1>3. CASE Registered
  <2>1. faults' \in 0..MaxFaults /\ excused' \in Nat
    BY <1>3, FaultType DEF Registered, TypeInv, TypeOK
  <2>2. run' \in BOOLEAN /\ need' \in BOOLEAN
    <3>1. PICK answer : TimeSetting(answer)
      BY <1>3 DEF Registered
    <3> QED
      BY <3>1, Zenon DEF TimeSetting, TypeInv, TypeOK
  <2> QED
    BY <1>0, <1>3, <2>1, <2>2 DEF Registered, Asks, TypeInv, TypeOK, board, Home, Network
<1>4. CASE NotRegistered
  BY <1>0, <1>4
  DEF NotRegistered, TypeInv, TypeOK, boot, syncing, board, line, bounds, time
<1>5. CASE RegisterExpires
  <2>1. faults' \in 0..MaxFaults
    BY <1>5, FaultType DEF RegisterExpires, TypeInv, TypeOK
  <2> QED
    BY <1>5, <2>1, ResetTypes DEF RegisterExpires, TypeInv, TypeOK, time, board
<1>6. CASE WorkCycle
  <2>1. faults' \in 0..MaxFaults /\ ctzu' \in {0, 3} /\ excused' \in Nat /\ resets' \in Nat
    BY <1>6, FaultType DEF WorkCycle, TypeInv, TypeOK
  <2> QED
    BY <1>6, <2>1, ResetTypes DEF WorkCycle, TypeInv, TypeOK, board
<1>7. CASE SyncExpires
  <2>1. faults' \in 0..MaxFaults
    BY <1>7, FaultType DEF SyncExpires, TypeInv, TypeOK
  <2>2. CASE Reset /\ UNCHANGED asked
    BY <1>7, <2>1, <2>2, ResetTypes DEF SyncExpires, TypeInv, TypeOK, time, board
  <2>3. CASE /\ count <= 3 /\ Asks /\ count' = count + 1
             /\ UNCHANGED <<boot, armed, mirror, reported, frames, sure, unheard>>
    BY <1>0, <1>7, <2>1, <2>3
    DEF SyncExpires, Asks, TypeInv, TypeOK, boot, board, time
  <2> QED
    BY <1>7, <2>2, <2>3 DEF SyncExpires
<1>8. CASE ReadFrame
  <2>1. Head(frames) \in Frame /\ Tail(frames) \in Seq(Frame) /\ Len(Tail(frames)) = Len(frames) - 1
    BY <1>8, HeadTailProperties DEF ReadFrame, TypeInv, TypeOK
  <2>2. mirror' \in Pins
    BY <1>8, <2>1, AppliedType DEF ReadFrame, TypeInv, TypeOK
  <2>3. Len(Tail(frames)) \in Nat
    BY <2>1, LenProperties
  <2> QED
    BY <1>0, <1>8, <2>1, <2>2, <2>3 DEF ReadFrame, TypeInv, TypeOK, modem, boot, board, bounds, time
<1>9. CASE BoardAnswers
  <2>0. UNCHANGED <<modem, boot, syncing, mirror, board, changes, time>> /\ asked > 0 /\ asked' = asked - 1
    BY <1>9 DEF BoardAnswers
  <2>1. CASE Heard(State(pins)) /\ sure' = TRUE /\ UNCHANGED <<faults, unheard>>
    <3>1. State(pins) \in Frame
      BY PinsTypes DEF TypeInv, TypeOK
    <3> QED
      BY <1>0, <2>0, <2>1, <3>1, HeardType
      DEF TypeInv, TypeOK, modem, boot, syncing, board, time
  <2>2. CASE Unheard /\ UNCHANGED <<faults, unheard, sure>>
    BY <1>0, <2>0, <2>2 DEF Unheard, TypeInv, TypeOK, modem, boot, syncing, board, time
  <2>3. CASE phase # "boot" /\ Fault("lost") /\ unheard' = unheard + 1 /\ UNCHANGED <<frames, sure>>
    BY <1>0, <2>0, <2>3, FaultType DEF TypeInv, TypeOK, modem, boot, syncing, board, time
  <2> QED
    BY <1>9, <2>1, <2>2, <2>3 DEF BoardAnswers
<1>10. CASE BoardIgnores
  BY <1>0, <1>10
  DEF BoardIgnores, TypeInv, TypeOK, modem, boot, syncing, board, bounds, time
<1>11. CASE PinChanges
  <2>1. PICK p \in Pins, f \in Frame : Changes(p, f)
    BY <1>11, PinsTypes DEF PinChanges, TypeInv, TypeOK
  <2> QED
    BY <2>1, ChangesTypes
<1>12. CASE BoardHangs \/ BoardRecovers
  <2>1. faults' \in 0..MaxFaults
    BY <1>12, FaultType DEF BoardHangs, BoardRecovers, TypeInv, TypeOK, bounds
  <2>2. deaf' \in BOOLEAN
    BY <1>12 DEF BoardHangs, BoardRecovers
  <2>3. UNCHANGED <<modem, boot, syncing, mirror, pins, line, changes, sure, unheard, time>>
    BY <1>12 DEF BoardHangs, BoardRecovers, bounds
  <2> QED
    BY <1>0, <2>1, <2>2, <2>3 DEF TypeInv, TypeOK, modem, boot, syncing, line, time
<1>13. CASE NetworkChanges
  BY <1>0, <1>13
  DEF NetworkChanges, TypeInv, TypeOK, boot, syncing, board, line, time
<1> QED
  BY <1>1, <1>2, <1>3, <1>4, <1>5, <1>6, <1>7, <1>8, <1>9, <1>10, <1>11, <1>12, <1>13 DEF Next

LEMMA InitTypes == Init => TypeInv
<1>1. <<>> \in Seq(Frame) /\ Len(<<>>) = 0
  BY EmptySeq
<1> SUFFICES ASSUME Init PROVE TypeInv
  OBVIOUS
<1>2. run \in BOOLEAN /\ need \in BOOLEAN /\ armed \in BOOLEAN /\ deaf \in BOOLEAN /\ sure \in BOOLEAN
  BY DEF Init
<1>3. /\ phase = "boot" /\ ~ armed /\ count = 0 /\ frames = <<>> /\ asked = 0 /\ unheard = 0
      /\ faults = 0 /\ changes = 0 /\ resets = 0 /\ excused = 0
  BY DEF Init
<1>4. /\ network \in Network /\ reported \in Network \cup {None} /\ ctzu \in {0, 3}
      /\ mirror \in Pins /\ pins \in Pins
  BY PinsTypes DEF Init, Network, None, Home
<1>5. TypeOK
  BY <1>1, <1>2, <1>3, <1>4, DeviceAssumption DEF TypeOK
<1> QED
  BY <1>3, <1>5 DEF TypeInv

(***************************************************************************)
(* The types, and the account of the questions to the board: those that    *)
(* count towards the reset are on their way, answered or lost.             *)
(***************************************************************************)
THEOREM DeviceTypeCorrect == Spec => []TypeOK
<1>1. TypeInv => TypeOK
  BY DEF TypeInv
<1> QED
  BY InitTypes, StepTypes, <1>1, PTL DEF Spec

(***************************************************************************)
(* Every reset for the time setting but one has an excuse.  What makes the *)
(* argument go: a device that still may reset (the modem reports 0, or it  *)
(* has looked and needs to) has not had the one it is allowed.             *)
(***************************************************************************)
ResetInv ==
    /\ resets <= 1 + excused
    /\ ctzu = 0 \/ (run /\ need) => resets <= excused

LEMMA StepResets == TypeInv /\ ResetInv /\ [Next]_vars => ResetInv'
<1> SUFFICES ASSUME TypeInv, ResetInv, [Next]_vars PROVE ResetInv'
  OBVIOUS
<1>0. resets \in Nat /\ excused \in Nat /\ ctzu \in {0, 3} /\ run \in BOOLEAN /\ need \in BOOLEAN
  BY DEF TypeInv, TypeOK
<1>1. CASE UNCHANGED <<ctzu, run, need, time>>
  BY <1>1 DEF ResetInv, time
<1>2. CASE Registered
  <2>1. UNCHANGED <<ctzu, resets>>
    BY <1>2 DEF Registered
  <2>2. CASE TimeSetting(IF ctzu = 0 THEN "zero" ELSE "set") /\ UNCHANGED excused
    BY <1>0, <2>1, <2>2 DEF TimeSetting, ResetInv
  <2>3. CASE excused' = excused + 1
    BY <1>0, <2>1, <2>3 DEF ResetInv
  <2>4. CASE TimeSetting("missed") /\ UNCHANGED excused
    BY <1>0, <2>1, <2>4 DEF TimeSetting, ResetInv
  <2> QED
    BY <1>2, <2>2, <2>3, <2>4 DEF Registered
<1>3. CASE Reset /\ UNCHANGED <<ctzu, time>>
  BY <1>3 DEF Reset, ResetInv, time
<1>4. CASE WorkCycle
  <2>1. resets <= excused /\ resets' = resets + 1 /\ ~ run'
    BY <1>4 DEF WorkCycle, ResetInv, Reset
  <2>2. CASE ctzu' = 3 /\ UNCHANGED excused
    BY <1>0, <2>1, <2>2 DEF ResetInv
  <2>3. CASE excused' = excused + 1
    BY <1>0, <2>1, <2>3 DEF ResetInv
  <2> QED
    BY <1>4, <2>2, <2>3 DEF WorkCycle
<1>5. CASE RegisterExpires
  BY <1>3, <1>5 DEF RegisterExpires
<1>6. CASE SyncExpires
  BY <1>1, <1>3, <1>6 DEF SyncExpires, boot
<1>7. CASE RilReady \/ NotRegistered \/ ReadFrame \/ BoardAnswers \/ BoardIgnores
           \/ BoardHangs \/ BoardRecovers \/ NetworkChanges \/ UNCHANGED vars
  BY <1>1, <1>7
  DEF RilReady, NotRegistered, ReadFrame, BoardAnswers, BoardIgnores, BoardHangs,
      BoardRecovers, NetworkChanges, vars, modem, boot
<1>8. CASE PinChanges
  <2>1. \A p, f : Changes(p, f) => UNCHANGED <<ctzu, run, need, time>>
    BY DEF Changes, modem, boot
  <2> QED
    BY <1>1, <1>8, <2>1 DEF PinChanges
<1> QED
  BY <1>2, <1>4, <1>5, <1>6, <1>7, <1>8 DEF Next

\* However often the network comes and goes and the board hangs, the time setting
\* costs one reset, and one more for each that the modem did not take.
THEOREM ResetsOnce == Spec => []ResetsForTimeOnce
<1>1. Init => ResetInv
  BY DEF Init, ResetInv
<1>2. ResetInv => ResetsForTimeOnce
  BY DEF ResetInv, ResetsForTimeOnce
<1> QED
  BY InitTypes, StepTypes, StepResets, <1>1, <1>2, PTL DEF Spec

(***************************************************************************)
(* The mirror.  Followed is a recursive function: what it computes follows *)
(* from the least place where it would not.                                *)
(***************************************************************************)
\* The mirror before the first frame, and after each of them.
Path(m, fs, h) ==
    /\ h \in [0..Len(fs) -> Pins] /\ h[0] = m
    /\ \A k \in 1..Len(fs) : h[k] = Applied(h[k - 1], fs[k])

LEMMA PathExists ==
    ASSUME NEW m \in Pins, NEW fs \in Seq(Frame)
    PROVE  \E h : Path(m, fs, h)
<1> DEFINE Upto(n, h) == /\ h \in [0..n -> Pins] /\ h[0] = m
                         /\ \A k \in 1..n : h[k] = Applied(h[k - 1], fs[k])
           T == {n \in 0..Len(fs) : \A h : ~ Upto(n, h)}
<1>1. Len(fs) \in Nat /\ \A k \in 1..Len(fs) : fs[k] \in Frame
  BY LenProperties, ElementOfSeq
<1>2. T = {}
  <2> SUFFICES ASSUME T # {} PROVE FALSE
    OBVIOUS
  <2>1. PICK x \in T : \A y \in T : x <= y
    <3>1. T \in SUBSET Nat
      OBVIOUS
    <3> HIDE DEF T
    <3> QED
      BY <3>1, Least
  <2>2. CASE x = 0
    <3>1. Upto(0, [k \in 0..0 |-> m])
      OBVIOUS
    <3> QED
      BY <2>2, <3>1
  <2>3. CASE x > 0
    <3>0. x \in 0..Len(fs)
      BY <2>1
    <3>1. x - 1 \in 0..Len(fs) /\ x - 1 \notin T
      <4> HIDE DEF T
      <4> QED
        BY <1>1, <2>1, <2>3, <3>0
    <3>2. PICK h : Upto(x - 1, h)
      BY <3>1
    <3> DEFINE g == [k \in 0..x |-> IF k = x THEN Applied(h[x - 1], fs[x]) ELSE h[k]]
    <3>3. Applied(h[x - 1], fs[x]) \in Pins
      BY <1>1, <2>1, <2>3, <3>2, AppliedType
    <3>4. g \in [0..x -> Pins] /\ g[0] = m
      BY <2>1, <2>3, <3>2, <3>3
    <3>5. ASSUME NEW k \in 1..x PROVE g[k] = Applied(g[k - 1], fs[k])
      BY <2>1, <2>3, <3>2
    <3>6. Upto(x, g)
      BY <3>4, <3>5
    <3> QED
      BY <3>6
  <2> QED
    BY <1>1, <2>1, <2>2, <2>3
<1>3. PICK h : Upto(Len(fs), h)
  BY <1>1, <1>2
<1> QED
  BY <1>3 DEF Path

LEMMA FollowedEnds ==
    ASSUME NEW m \in Pins, NEW fs \in Seq(Frame), NEW h, Path(m, fs, h)
    PROVE  Followed(m, fs) = h[Len(fs)]
<1> DEFINE Fits(g) == g = [n \in 0..Len(fs) |-> IF n = 0 THEN m ELSE Applied(g[n - 1], fs[n])]
<1>0. Len(fs) \in Nat
  BY LenProperties
<1>1. Fits(h)
  BY <1>0 DEF Path
<1>2. Fits(CHOOSE g : Fits(g))
  <2> HIDE DEF Fits
  <2> QED
    BY <1>1, Zenon
<1>3. Followed(m, fs) = (CHOOSE g : Fits(g))[Len(fs)]
  BY Zenon DEF Followed
<1>4. PICK g : Fits(g) /\ Followed(m, fs) = g[Len(fs)]
  <2> HIDE DEF Fits
  <2> QED
    BY <1>2, <1>3, Zenon
<1> DEFINE T == {n \in 0..Len(fs) : g[n] # h[n]}
<1>5. T = {}
  <2> SUFFICES ASSUME T # {} PROVE FALSE
    OBVIOUS
  <2>1. PICK x \in T : \A y \in T : x <= y
    <3>1. T \in SUBSET Nat
      OBVIOUS
    <3> HIDE DEF T
    <3> QED
      BY <3>1, Least
  <2>2. g[x] = IF x = 0 THEN m ELSE Applied(g[x - 1], fs[x])
    BY <1>4
  <2>3. x # 0
    BY <2>2 DEF Path
  <2>4. x - 1 \in 0..Len(fs) /\ x - 1 \notin T /\ x \in 1..Len(fs)
    BY <1>0, <2>1, <2>3
  <2>5. g[x - 1] = h[x - 1]
    BY <2>4
  <2>6. h[x] = Applied(h[x - 1], fs[x])
    BY <2>4 DEF Path
  <2> QED
    BY <2>1, <2>2, <2>3, <2>5, <2>6
<1>6. Len(fs) \in 0..Len(fs)
  BY <1>0
<1>7. g[Len(fs)] = h[Len(fs)]
  BY <1>5, <1>6
<1> QED
  BY <1>4, <1>7, Zenon

LEMMA FollowedAppend ==
    ASSUME NEW m \in Pins, NEW fs \in Seq(Frame), NEW f \in Frame
    PROVE  /\ Followed(m, Append(fs, f)) = Applied(Followed(m, fs), f)
           /\ Followed(m, fs) \in Pins
<1>1. PICK h : Path(m, fs, h)
  BY PathExists
<1> DEFINE n == Len(fs)
           fs2 == Append(fs, f)
           g == [k \in 0..(n + 1) |-> IF k <= n THEN h[k] ELSE Applied(h[n], f)]
<1>2. n \in Nat
  BY LenProperties
<1>3. /\ fs2 \in Seq(Frame) /\ Len(fs2) = n + 1 /\ fs2[n + 1] = f
      /\ \A k \in 1..n : fs2[k] = fs[k]
  BY AppendProperties
<1> HIDE DEF fs2
<1>4. h[n] \in Pins
  BY <1>1, <1>2 DEF Path
<1>5. Applied(h[n], f) \in Pins
  BY <1>4, AppliedType
<1>6. g \in [0..(n + 1) -> Pins] /\ g[0] = m
  BY <1>1, <1>2, <1>5 DEF Path
<1>7. ASSUME NEW k \in 1..(n + 1) PROVE g[k] = Applied(g[k - 1], fs2[k])
  <2>1. CASE k <= n
    BY <1>1, <1>2, <1>3, <2>1 DEF Path
  <2>2. CASE k = n + 1
    BY <1>2, <1>3, <2>2
  <2> QED
    BY <1>2, <2>1, <2>2
<1>8. Path(m, fs2, g)
  BY <1>3, <1>6, <1>7 DEF Path
<1>9. Followed(m, fs2) = g[n + 1] /\ Followed(m, fs) = h[n]
  BY <1>1, <1>3, <1>8, FollowedEnds
<1> QED
  BY <1>2, <1>4, <1>9 DEF fs2

LEMMA FollowedHead ==
    ASSUME NEW m \in Pins, NEW fs \in Seq(Frame), fs # <<>>
    PROVE  Followed(Applied(m, Head(fs)), Tail(fs)) = Followed(m, fs)
<1>1. PICK h : Path(m, fs, h)
  BY PathExists
<1> DEFINE n == Len(fs)
           fs2 == Tail(fs)
           m2 == Applied(m, Head(fs))
           g == [k \in 0..(n - 1) |-> h[k + 1]]
<1>2. n \in Nat /\ n > 0
  BY EmptySeq, LenProperties
<1>3. /\ Head(fs) \in Frame /\ fs2 \in Seq(Frame) /\ Len(fs2) = n - 1
      /\ Head(fs) = fs[1] /\ \A k \in 1..(n - 1) : fs2[k] = fs[k + 1]
  BY <1>2, HeadTailProperties
<1> HIDE DEF fs2
<1>4. m2 \in Pins
  BY <1>3, AppliedType
<1>5. g \in [0..(n - 1) -> Pins] /\ g[0] = m2
  BY <1>1, <1>2, <1>3 DEF Path
<1>6. ASSUME NEW k \in 1..(n - 1) PROVE g[k] = Applied(g[k - 1], fs2[k])
  BY <1>1, <1>2, <1>3 DEF Path
<1>7. Path(m2, fs2, g)
  BY <1>3, <1>5, <1>6 DEF Path
<1>8. Followed(m2, fs2) = g[n - 1] /\ Followed(m, fs) = h[n]
  <2> HIDE DEF m2, g
  <2> QED
    BY <1>1, <1>3, <1>4, <1>7, FollowedEnds
<1> QED
  BY <1>2, <1>8 DEF fs2
\* An event of the board, applied to the pins it is about, gives the new ones.
LEMMA EventTells ==
    ASSUME NEW q \in Pins
    PROVE  /\ Applied(q, State(q)) = q
           /\ \A i \in Input, v \in {0, 1} : [q EXCEPT !.input[i] = v] # q =>
                 Applied(q, InputEvent(i, v)) = [q EXCEPT !.input[i] = v]
           /\ \A o \in Output, v \in {0, 1} : [q EXCEPT !.output[o] = v] # q =>
                 Applied(q, OutputEvent(o, v)) = [q EXCEPT !.output[o] = v]
           /\ \A a \in Analog, v \in Level :
                 Applied(q, AnalogEvent(a, v)) = [q EXCEPT !.analog[a] = v]
           /\ \A v \in {0, 1} : Applied(q, PowerEvent(v)) = [q EXCEPT !.power = v]
<1>1. ASSUME NEW i \in Input, NEW v \in {0, 1}, [q EXCEPT !.input[i] = v] # q
      PROVE  Applied(q, InputEvent(i, v)) = [q EXCEPT !.input[i] = v]
  <2>1. q.input[i] # v /\ q.input[i] \in {0, 1}
    BY <1>1 DEF Pins
  <2>2. v = IF v = 1 THEN 1 - q.input[i] ELSE 0
    BY <2>1
  <2> QED
    BY <2>2 DEF Applied, InputEvent, Pins
<1>2. ASSUME NEW o \in Output, NEW v \in {0, 1}, [q EXCEPT !.output[o] = v] # q
      PROVE  Applied(q, OutputEvent(o, v)) = [q EXCEPT !.output[o] = v]
  <2>1. q.output[o] # v /\ q.output[o] \in {0, 1}
    BY <1>2 DEF Pins
  <2>2. v = 1 - q.output[o]
    BY <2>1
  <2> QED
    BY <2>2 DEF Applied, OutputEvent, Pins
<1>3. Applied(q, State(q)) = q
  BY DEF Applied, State
<1>4. \A a \in Analog, v \in Level :
         Applied(q, AnalogEvent(a, v)) = [q EXCEPT !.analog[a] = v]
  BY DEF Applied, AnalogEvent, Pins
<1>5. \A v \in {0, 1} : Applied(q, PowerEvent(v)) = [q EXCEPT !.power = v]
  BY DEF Applied, PowerEvent, Pins
<1> QED
  BY <1>1, <1>2, <1>3, <1>4, <1>5

\* The mirror of a sure device follows a change, heard or not.
LEMMA ChangesMirror ==
    ASSUME TypeInv, MirrorFollows, NEW f \in Frame, NEW p, Changes(p, f),
           p # pins => Applied(pins, f) = p
    PROVE  MirrorFollows'
<1>1. mirror \in Pins /\ frames \in Seq(Frame)
  BY DEF TypeInv, TypeOK
<1>2. mirror' = mirror /\ pins' = p /\ p # pins
  BY DEF Changes
<1>3. CASE Heard(f) /\ UNCHANGED <<faults, sure>>
  <2>1. frames' = Append(frames, f) /\ sure' = sure
    BY <1>3 DEF Heard
  <2>2. Followed(mirror, frames') = Applied(Followed(mirror, frames), f)
    BY <1>1, <2>1, FollowedAppend
  <2> QED
    BY <1>2, <2>1, <2>2 DEF MirrorFollows
<1>4. CASE sure' = FALSE
  BY <1>4 DEF MirrorFollows
<1> QED
  BY <1>3, <1>4 DEF Changes

LEMMA StepMirror == TypeInv /\ MirrorFollows /\ [Next]_vars => MirrorFollows'
<1> SUFFICES ASSUME TypeInv, MirrorFollows, [Next]_vars PROVE MirrorFollows'
  OBVIOUS
<1>0. mirror \in Pins /\ pins \in Pins /\ frames \in Seq(Frame)
  BY DEF TypeInv, TypeOK
<1>1. CASE UNCHANGED <<mirror, pins, frames, sure>>
  BY <1>1 DEF MirrorFollows
<1>2. CASE Reset
  BY <1>2 DEF Reset, MirrorFollows
<1>3. CASE ReadFrame
  <2>1. Followed(mirror', frames') = Followed(mirror, frames)
    BY <1>0, <1>3, FollowedHead DEF ReadFrame
  <2>2. UNCHANGED <<pins, sure>>
    BY <1>3 DEF ReadFrame, board
  <2> QED
    BY <2>1, <2>2 DEF MirrorFollows
<1>4. CASE BoardAnswers
  <2>1. UNCHANGED <<mirror, pins>>
    BY <1>4 DEF BoardAnswers, board
  <2>2. CASE Heard(State(pins))
    <3>1. frames' = Append(frames, State(pins)) /\ State(pins) \in Frame
      BY <1>0, <2>2, PinsTypes DEF Heard
    <3>2. /\ Followed(mirror, frames') = Applied(Followed(mirror, frames), State(pins))
          /\ Followed(mirror, frames) \in Pins
      BY <1>0, <3>1, FollowedAppend
    <3>3. Applied(Followed(mirror, frames), State(pins)) = pins
      BY DEF Applied, State
    <3> QED
      BY <2>1, <3>2, <3>3 DEF MirrorFollows
  <2>3. CASE UNCHANGED <<frames, sure>>
    BY <1>1, <2>1, <2>3
  <2> QED
    BY <1>4, <2>2, <2>3 DEF BoardAnswers, Unheard
<1>5. CASE PinChanges
  <2>1. ASSUME NEW i \in Input, NEW v \in {0, 1}, Changes([pins EXCEPT !.input[i] = v], InputEvent(i, v))
        PROVE  MirrorFollows'
    <3>1. InputEvent(i, v) \in Frame
      BY <1>0, PinsTypes
    <3>2. [pins EXCEPT !.input[i] = v] # pins => Applied(pins, InputEvent(i, v)) = [pins EXCEPT !.input[i] = v]
      BY <1>0, EventTells
    <3> QED
      BY <2>1, <3>1, <3>2, ChangesMirror, Zenon
  <2>2. ASSUME NEW o \in Output, NEW v \in {0, 1}, Changes([pins EXCEPT !.output[o] = v], OutputEvent(o, v))
        PROVE  MirrorFollows'
    <3>1. OutputEvent(o, v) \in Frame
      BY <1>0, PinsTypes
    <3>2. [pins EXCEPT !.output[o] = v] # pins => Applied(pins, OutputEvent(o, v)) = [pins EXCEPT !.output[o] = v]
      BY <1>0, EventTells
    <3> QED
      BY <2>2, <3>1, <3>2, ChangesMirror, Zenon
  <2>3. ASSUME NEW a \in Analog, NEW v \in Level, Changes([pins EXCEPT !.analog[a] = v], AnalogEvent(a, v))
        PROVE  MirrorFollows'
    <3>1. AnalogEvent(a, v) \in Frame
      BY <1>0, PinsTypes
    <3>2. [pins EXCEPT !.analog[a] = v] # pins => Applied(pins, AnalogEvent(a, v)) = [pins EXCEPT !.analog[a] = v]
      BY <1>0, EventTells
    <3> QED
      BY <2>3, <3>1, <3>2, ChangesMirror, Zenon
  <2>4. ASSUME NEW v \in {0, 1}, Changes([pins EXCEPT !.power = v], PowerEvent(v))
        PROVE  MirrorFollows'
    <3>1. PowerEvent(v) \in Frame
      BY <1>0, PinsTypes
    <3>2. [pins EXCEPT !.power = v] # pins => Applied(pins, PowerEvent(v)) = [pins EXCEPT !.power = v]
      BY <1>0, EventTells
    <3> QED
      BY <2>4, <3>1, <3>2, ChangesMirror, Zenon
  <2> QED
    BY <1>5, <2>1, <2>2, <2>3, <2>4, Zenon DEF PinChanges
<1>6. CASE SyncExpires
  BY <1>1, <1>2, <1>6 DEF SyncExpires, board
<1>7. CASE \/ RilReady \/ Registered \/ NotRegistered \/ BoardIgnores \/ BoardHangs
           \/ BoardRecovers \/ NetworkChanges \/ UNCHANGED vars
  BY <1>1, <1>7
  DEF RilReady, Registered, NotRegistered, BoardIgnores, BoardHangs, BoardRecovers,
      NetworkChanges, vars, board, line
<1>8. CASE RegisterExpires \/ WorkCycle
  BY <1>2, <1>8 DEF RegisterExpires, WorkCycle
<1> QED
  BY <1>3, <1>4, <1>5, <1>6, <1>7, <1>8 DEF Next

\* Between two states of the board the mirror and the frames on the way make up
\* the board's pins, though the device never sees a value, only toggles.
THEOREM MirrorFollowsBoard == Spec => []MirrorFollows
<1>1. Init => MirrorFollows
  BY DEF Init, MirrorFollows
<1> QED
  BY InitTypes, StepTypes, StepMirror, <1>1, PTL DEF Spec
=============================================================================
