---------------------------- MODULE EventJournal ----------------------------
(***************************************************************************)
(* What the event journal promises, without the link that empties it: a    *)
(* bounded FIFO of events in a flash file.  An event leaves it in three    *)
(* ways only: it was offered to the monitoring server in a packet, it was  *)
(* pushed out by an overflow, or power failed while the file was rewritten.*)
(* EstLink implements this specification.                                  *)
(***************************************************************************)
EXTENDS Naturals, Sequences

CONSTANTS Event,      \* the events that can be logged
          Capacity    \* records the file holds

VARIABLES queue,      \* the records of the file, oldest first
          present,    \* the file exists
          offered     \* events put into at least one packet

jvars == <<queue, present, offered>>

Records(q) == {q[i] : i \in 1..Len(q)}

JInit == queue = <<>> /\ present \in BOOLEAN /\ offered = {}

\* Logging an event: at capacity the oldest record makes room.
Put(e) ==
    /\ present
    /\ queue' = Append(IF Len(queue) >= Capacity THEN Tail(queue) ELSE queue, e)
    /\ UNCHANGED <<present, offered>>

\* The whole file goes into one packet.
Offer ==
    /\ offered' = offered \union Records(queue)
    /\ UNCHANGED <<queue, present>>

\* The file is rewritten without its first k records, all of them offered.
Retire(k) ==
    /\ \A i \in 1..k : queue[i] \in offered
    /\ queue' = SubSeq(queue, k + 1, Len(queue))
    /\ UNCHANGED <<present, offered>>

\* Power fails during that rewrite: the file is gone, or holds a part.
TornRetire(k) ==
    /\ \A i \in 1..k : queue[i] \in offered
    /\ \/ queue' = <<>> /\ present' = FALSE
       \/ /\ \E m \in k..Len(queue) : queue' = SubSeq(queue, k + 1, m)
          /\ UNCHANGED present
    /\ UNCHANGED offered

\* Power fails while the overflow shifts the records one place: the first
\* i records have moved, the others have not.
TornShift(i) ==
    /\ queue' = [j \in 1..Len(queue) |-> IF j <= i THEN queue[j + 1] ELSE queue[j]]
    /\ UNCHANGED <<present, offered>>

JNext ==
    \/ \E e \in Event : Put(e)
    \/ Offer
    \/ \E k \in 0..Len(queue) : Retire(k) \/ TornRetire(k)
    \/ \E i \in 1..(Len(queue) - 1) : TornShift(i)

JSpec == JInit /\ [][JNext]_jvars
=============================================================================
