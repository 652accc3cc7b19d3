------------------------------ MODULE Framing -------------------------------
(***************************************************************************)
(* Packets between the device and the monitoring server, byte by byte.     *)
(*                                                                         *)
(* A packet is 17 13, a stuffed body (17 becomes 17 12) and 17 05.  The    *)
(* device takes out the stuffing of all it has read, and then looks for    *)
(* marks; every read is a world of its own.  What a handled packet does    *)
(* is in EstLink (confirmations) and SettingsStore (OUT).                  *)
(***************************************************************************)
EXTENDS Naturals, Sequences, SequencesExt, Crc16

CONSTANTS
    Addresses,  \* __mdm_settings.num, an u8: the addresses a device may have
    Numbers,    \* packet numbers in use
    Texts,      \* text commands, as sequences of bytes
    Events,     \* events to report: [type, desc, time]
    Pins,       \* input pins, analog inputs and output pins: [input, analog, output]
    MaxRead,    \* bytes in one read: dat[100]
    MaxFlight   \* bound: packets of the server not read yet

Byte == {n \in Nat : n < 256}
Word == {n \in Nat : n < 65536}

ASSUME FramingAssumption ==
    /\ Addresses \subseteq Byte /\ Numbers \subseteq Word
    /\ \A t \in Texts : t \in Seq(Byte) /\ 8 + Len(t) \in Word
    /\ MaxRead \in 1..100
    /\ Events \subseteq [type : Byte, desc : Word, time : [1..6 -> Byte]]
    /\ Pins \subseteq [input : Word, analog : [1..4 -> Word], output : Byte]

Begin == 23   \* 0x17, the first byte of a mark
Start == 19   \* 0x13
End   == 5
Same  == 18   \* 0x12: the 0x17 before it is data

VARIABLES
    num,      \* the device's address
    flight,   \* packets of the server not wholly read: [type, what]
    cut,      \* bytes of the first of them that are read
    handled,  \* history: what this step handled
    outside,  \* history: it used bytes it had not read
    beyond,   \* history: it wrote behind the packet it handled
    out       \* the device's own packet on its way, [frame, what], or Nothing

vars == <<num, flight, cut, handled, outside, beyond, out>>

Nothing == [frame |-> <<>>]

Short(n) == <<n \div 256, n % 256>>        \* WriteShort: high byte first
Word16(n) == <<n % 256, n \div 256>>       \* a copy of an u16: low byte first
AddressBytes(n) == <<(n \div 65536) % 256, (n \div 256) % 256, n % 256>>

\* Broken on purpose, for the mutants: stuffing only where a mark would show.
StuffBeforeMarks(data) == FlattenSeq([i \in 1..Len(data) |->
    IF data[i] = Begin /\ i < Len(data) /\ data[i + 1] \in {Start, End}
    THEN <<Begin, Same>> ELSE <<data[i]>>])

\* replace
Stuff(data) == FlattenSeq([i \in 1..Len(data) |->
                    IF data[i] = Begin THEN <<Begin, Same>> ELSE <<data[i]>>])

\* unreplace
Unstuff(data) ==
    LET pair(i) == i < Len(data) /\ data[i] = Begin /\ data[i + 1] = Same
        from[i \in 1..(Len(data) + 2)] ==
            IF i > Len(data) THEN <<>>
            ELSE <<data[i]>> \o from[IF pair(i) THEN i + 2 ELSE i + 1]
    IN from[1]

Framed(body) == <<Begin, Start>> \o Stuff(body) \o <<Begin, End>>

Closed(content, crc) == content \o Short(crc)
-----------------------------------------------------------------------------
Confirmation == {[type |-> 1, what |-> n] : n \in Numbers}
Text         == {[type |-> 2, what |-> t] : t \in Texts}

\* The server: a confirmation or a text in the format the device reads.
Content(p) == IF p.type = 1 THEN Short(p.what) ELSE p.what

ServerBody == [address \in Addresses |-> [p \in Confirmation \cup Text |->
    LET data == Short(8 + Len(Content(p))) \o AddressBytes(address) \o <<p.type>> \o Content(p)
    IN Closed(data, Ccitt(data))]]

ServerFrame == [address \in Addresses |-> [p \in Confirmation \cup Text |->
    Framed(ServerBody[address][p])]]

Wire(packets) == FlattenSeq([i \in 1..Len(packets) |-> ServerFrame[num][packets[i]]])

ServerSends(p) ==
    /\ Len(flight) < MaxFlight /\ out = Nothing
    /\ flight' = Append(flight, p)
    /\ handled' = <<>> /\ outside' = FALSE /\ beyond' = FALSE
    /\ UNCHANGED <<num, cut, out>>
-----------------------------------------------------------------------------
\* CheckTypePacket, with what ParseTextCommand gets: the packet whose body
\* starts at index s, or <<>>.
Checked(p, s) ==
    LET length == p[s] * 256 + p[s + 1] - 8
    IN CASE p[s + 5] = 1 -> <<[type |-> 1, what |-> p[s + 6] * 256 + p[s + 7]]>>
         [] p[s + 5] = 2 -> <<[type |-> 2, what |-> SubSeq(p, s + 6, s + 5 + length)]>>
         [] OTHER -> <<>>

\* Where a text is ended in place: at the byte behind it.
TextEnd(p, s) == s + p[s] * 256 + p[s + 1] - 2

\* Everything CheckTypePacket uses has been read.
Inside(p, s) ==
    /\ s + 5 <= Len(p)
    /\ p[s + 5] = 1 => s + 7 <= Len(p)
    /\ p[s + 5] = 2 => s + 6 <= TextEnd(p, s) /\ TextEnd(p, s) <= Len(p)

\* Broken on purpose: parentheses round the |, and the shift still in an u8.
AcceptsLowByte(p, s, e) == calc_crc(SubSeq(p, s, e - 2)) = p[e]

\* The CRC test.  "pakets[end - 1] <<= 8" leaves 0 in a byte, and the result
\* of == is or-ed with the low byte of the packet's CRC.
Accepts(p, s, e) == calc_crc(SubSeq(p, s, e - 2)) = 0 \/ p[e] # 0

Ended(p, s) == IF p[s + 5] = 2 THEN [p EXCEPT ![TextEnd(p, s)] = 0] ELSE p

\* An end mark behind index e: the body runs from scan.start to e.
Attempt(scan, e) ==
    LET s == scan.start
        p == [scan.bytes EXCEPT ![e - 1] = 0]
    IN CASE e < s + 1 -> [scan EXCEPT !.outside = TRUE]
         [] e >= s + 1 /\ ~ Accepts(p, s, e) -> [scan EXCEPT !.bytes = p]
         [] e >= s + 1 /\ Accepts(p, s, e) /\ ~ Inside(p, s) -> [scan EXCEPT !.outside = TRUE]
         [] OTHER -> [scan EXCEPT !.bytes = Ended(p, s), !.found = @ \o Checked(p, s),
                                  !.beyond = @ \/ (p[s + 5] = 2 /\ e < TextEnd(p, s))]

\* The byte at i, which may begin a mark.  behind: what lies in the buffer
\* behind the last byte.
Looks(scan, i, behind) ==
    LET next == IF i < Len(scan.bytes) THEN scan.bytes[i + 1] ELSE behind
        mark == scan.bytes[i] = Begin
    IN IF scan.outside THEN scan
       ELSE IF scan.skip THEN [scan EXCEPT !.skip = FALSE]
       ELSE IF mark /\ next = Start THEN [scan EXCEPT !.start = i + 2, !.skip = TRUE]
       ELSE IF mark /\ next = End THEN Attempt(scan, i - 1)
       ELSE scan

\* ExtractPakets
Extract(bytes, behind) ==
    LET after[i \in 0..Len(bytes)] ==
            IF i = 0 THEN [start |-> 1, skip |-> FALSE, bytes |-> bytes,
                           found |-> <<>>, outside |-> FALSE, beyond |-> FALSE]
            ELSE Looks(after[i - 1], i, behind)
    IN after[Len(bytes)]

\* How many whole packets n bytes from the first one's beginning hold.
WholeIn(n) ==
    LET fits == {k \in 0..Len(flight) : Len(Wire(SubSeq(flight, 1, k))) <= n}
    IN CHOOSE k \in fits : \A j \in fits : j <= k

\* socket_th_read of the EST socket: any number of bytes up to MaxRead.
Read(wire, n) ==
    LET bytes == SubSeq(wire, cut + 1, cut + n)
        whole == WholeIn(cut + n)
    IN /\ out = Nothing
       /\ \E behind \in {0, End} :
             LET scan == Extract(Unstuff(bytes), behind)
             IN handled' = scan.found /\ outside' = scan.outside /\ beyond' = scan.beyond
       /\ flight' = SubSeq(flight, whole + 1, Len(flight))
       /\ cut' = cut + n - Len(Wire(SubSeq(flight, 1, whole)))
       /\ UNCHANGED <<num, out>>

Reads ==
    LET wire == Wire(flight)
    IN \E n \in 1..MaxRead : cut + n <= Len(wire) /\ Read(wire, n)
-----------------------------------------------------------------------------
\* BuildEvent: month, day, year, hour, minute and second follow the event.
EventBytes(events) ==
    FlattenSeq([i \in 1..Len(events) |->
                   <<events[i].type>> \o Short(events[i].desc) \o events[i].time])

\* BuildEventMessage
EventBody(number, power, events) ==
    LET data == Short(11 + 9 * Len(events)) \o AddressBytes(num) \o <<0>> \o Short(number)
                \o <<power>> \o EventBytes(events)
    IN Closed(data, calc_crc(data))

\* BuildInputStateMessage: the pins as they lie in memory.
StateBody(pins) ==
    LET data == Short(19) \o AddressBytes(num) \o <<4>> \o Word16(pins.input)
                \o FlattenSeq([i \in 1..4 |-> Word16(pins.analog[i])]) \o <<pins.output>>
    IN Closed(data, calc_crc(data))

\* Sending and receiving share nothing: what the device sends is enumerated
\* while nothing comes in.
Sends(body, what) ==
    /\ out = Nothing /\ flight = <<>> /\ handled = <<>> /\ ~ outside /\ ~ beyond
    /\ out' = [frame |-> Framed(body), what |-> what]
    /\ UNCHANGED <<num, flight, cut, handled, outside, beyond>>

SendsEvents ==
    \E number \in Numbers, power \in {1, 2}, k \in 0..2 :
       \E events \in [1..k -> Events] :
          Sends(EventBody(number, power, events),
                [type |-> 0, number |-> number, power |-> power, events |-> events])

SendsState == \E pins \in Pins : Sends(StateBody(pins), [type |-> 4, pins |-> pins])

\* The network takes the packet to the server.
Delivers ==
    /\ out # Nothing /\ out' = Nothing
    /\ UNCHANGED <<num, flight, cut, handled, outside, beyond>>
-----------------------------------------------------------------------------
FramingInit ==
    /\ num \in Addresses /\ flight = <<>> /\ cut = 0
    /\ handled = <<>> /\ outside = FALSE /\ beyond = FALSE /\ out = Nothing

FramingNext ==
    \/ \E p \in Confirmation \cup Text : ServerSends(p)
    \/ Reads
    \/ SendsEvents
    \/ SendsState
    \/ Delivers

FramingSpec == FramingInit /\ [][FramingNext]_vars
-----------------------------------------------------------------------------
(* What the frames promise. *)

\* A server that looks for the marks, takes out the stuffing, and compares
\* the length and the CRC finds in each of the device's packets what was put
\* there, also when a number, a time or a pin holds 17 and 05 or 13 follows
\* (events.c:83-239, replace and WriteShort).
OwnPacketsReadBack ==
    out # Nothing =>
    LET f == out.frame
        mark(i, b) == f[i] = Begin /\ f[i + 1] = b
        ends == {i \in 3..(Len(f) - 1) : mark(i, End)}
        first == CHOOSE i \in ends : \A j \in ends : i <= j
        body == Unstuff(SubSeq(f, 3, first - 1))
        n == Len(body)
        word(i) == body[i] * 256 + body[i + 1]
        memory(i) == body[i] + 256 * body[i + 1]
        event(i) == [type |-> body[9 * i + 1], desc |-> word(9 * i + 2),
                     time |-> SubSeq(body, 9 * i + 4, 9 * i + 9)]
    IN /\ mark(1, Start) /\ first = Len(f) - 1
       /\ word(1) = n /\ word(n - 1) = calc_crc(SubSeq(body, 1, n - 2))
       /\ body[5] = num /\ body[6] = out.what.type
       /\ out.what.type = 0 =>
             out.what = [type |-> 0, number |-> word(7), power |-> body[9],
                         events |-> [i \in 1..((n - 11) \div 9) |-> event(i)]]
       /\ out.what.type = 4 =>
             out.what.pins = [input |-> memory(7),
                              analog |-> [i \in 1..4 |-> memory(7 + 2 * i)],
                              output |-> body[17]]

\* Once unstuffed, the packet holds no mark, and the low byte of its CRC is
\* not 0: all that ExtractPakets needs.
Clear(p) ==
    LET body == ServerBody[num][p]
    IN /\ \A i \in 1..(Len(body) - 1) : ~ (body[i] = Begin /\ body[i + 1] \in {Start, End})
       /\ body[Len(body)] # 0

Infix(s, t) == \E i \in 0..(Len(t) - Len(s)) : SubSeq(t, i + 1, i + Len(s)) = s

\* The last byte that was read is a 17, of a mark or of the data: the byte
\* behind it decides what it is, and that one was not read.
EndsInBegin ==
    cut > 0 /\ LET wire == Wire(flight)
               IN \/ wire[cut] = Begin
                  \/ cut > 1 /\ wire[cut - 1] = Begin /\ wire[cut] = Same

\* A clear packet that comes in one read is handled, once and in its turn,
\* whatever a cut packet left in front of it or behind it, unless what is left
\* leads out of the packets; a read that begins with a packet handles just
\* the packets that are whole, and keeps to them (events.c:258-308,
\* socket_th.c:208-217).
WholePacketsAreHandled ==
    [][cut' # cut \/ Len(flight') < Len(flight) =>
         LET gone == Len(flight) - Len(flight')
             from == IF cut = 0 THEN 1 ELSE 2
             whole == SubSeq(flight, from, gone)
             touched == SubSeq(flight, 1, IF cut' = 0 THEN gone ELSE gone + 1)
             clear(s) == \A i \in 1..Len(s) : Clear(s[i])
         IN /\ clear(whole) /\ ~ outside' /\ ~ beyond' => Infix(whole, handled')
            /\ clear(touched) /\ cut = 0 /\ ~ EndsInBegin' =>
                  handled' = whole /\ ~ outside' /\ ~ beyond']_vars

\* "Name  : CRC-16 CCITT", "Check : 0x29B1" (events.c:55-60): the CRC of the
\* device's packets is the one the comment on calc_crc names.
OwnCrcIsCcitt ==
    out # Nothing =>
    LET body == Unstuff(SubSeq(out.frame, 3, Len(out.frame) - 2))
        n == Len(body)
    IN SubSeq(body, n - 1, n) = Short(Ccitt(SubSeq(body, 1, n - 2)))
=============================================================================
