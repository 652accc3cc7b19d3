------------------------------ MODULE CodecsMC ------------------------------
(* Framing and Calendar in one run.  They share nothing, so a behaviour     *)
(* exercises one of them and leaves the other where it began.               *)
EXTENDS Framing, Calendar

VARIABLE part

\* "OK", and with a byte that may be taken for the type of a text
TextSet == {<<79, 75>>, <<79, 75, 2>>}

\* Times, types and descriptions with 17 before 05, 12 and 13.
EventSet == {[type |-> 5,  desc |-> 5906, time |-> <<9, 23, 19, 23, 5, 18>>],
             [type |-> 23, desc |-> 274,  time |-> <<12, 31, 24, 1, 2, 23>>]}

PinSet == {[input |-> 1303, analog |-> <<4887, 0, 1023, 23>>, output |-> 5],
           [input |-> 5911, analog |-> <<23, 4631, 5, 65535>>, output |-> 23]}

ClockSet == {<<0, 0, 0>>, <<20, 59, 59>>, <<23, 59, 59>>}

Rest == [year |-> 2000, month |-> 0, day |-> 0, hour |-> 0, minute |-> 0, second |-> 0]

Init == \/ part = "frames" /\ FramingInit /\ date = Rest /\ moved = 0
        \/ /\ part = "calendar" /\ CalendarInit
           /\ FramingInit /\ num = CHOOSE a \in Addresses : TRUE

Next == \/ part = "frames" /\ FramingNext /\ UNCHANGED <<date, moved, part>>
        \/ part = "calendar" /\ CalendarNext
           /\ UNCHANGED <<num, flight, cut, handled, outside, beyond, out, part>>

Spec == Init /\ [][Next]_<<vars, dateVars, part>>
=============================================================================
