------------------------------ MODULE SamLink ------------------------------
(***************************************************************************)
(* The receiving side of the UART link to the SAM board.                   *)
(*                                                                         *)
(* A frame is  17 13 len payload time 17 05,  nothing is stuffed.  Bytes   *)
(* come in reads of any length; add puts them behind those that wait, or   *)
(* in their place when both do not fit.  check looks at the front of the   *)
(* buffer: it drops garbage, one frame is handled, a part of one waits.    *)
(* It runs after every read and in every work cycle.                       *)
(*                                                                         *)
(* The buffer is memory that outlives the bytes in it: check compares two  *)
(* bytes when only one is there, so what lies behind the last one matters. *)
(* What extract does with a payload is left out: handled is the history of *)
(* the payloads it got.  Ql_memcpy copies upwards.                         *)
(***************************************************************************)
EXTENDS Naturals, Sequences

CONSTANTS
    BufferLen,  \* RS_LEN_BUFFER
    ReadLen,    \* SAM_IN_BUF_LEN, the longest read
    TimeLen,    \* LEN_MARK_TIME
    Beyond,     \* the byte behind the array, which check may copy
    Payloads,   \* payloads the board sends
    Stamps,     \* time stamps it adds
    SyncLimit,  \* __sync_msg_count above this reboots (3 in the code)
    MaxFrames   \* bound: frames sent

Byte == 0..255

ASSUME SamAssumption ==
    /\ BufferLen \in Nat /\ BufferLen >= 3 /\ ReadLen \in 1..BufferLen
    /\ TimeLen \in Nat /\ Beyond \in Byte
    /\ \A p \in Payloads : p \in Seq(Byte) /\ Len(p) \in Byte
    /\ \A t \in Stamps : t \in Seq(Byte) /\ Len(t) = TimeLen
    /\ SyncLimit \in Nat /\ MaxFrames \in Nat

VARIABLES
    mem,       \* __rs_r_buf
    count,     \* __count_r_buf
    syncCount, \* __sync_msg_count
    wire,      \* bytes on the way
    sent,      \* payloads sent
    handled,   \* payloads extract was called with
    paced,     \* environment: the board never sends more than the buffer holds
    splits     \* environment: a read may end between 17 and 13

vars == <<mem, count, syncCount, wire, sent, handled, paced, splits>>

Position == 1..BufferLen
Overhead == TimeLen + 5     \* LEN_MARK_SERVICE
Frame(p, t) == <<23, 19, Len(p)>> \o p \o t \o <<23, 5>>

Cleared == [i \in Position |-> 0]
-----------------------------------------------------------------------------
(* check *)

At(m, i) == IF i \in Position THEN m[i] ELSE Beyond

\* Ql_memcpy(&buf[0], &buf[d], n)
Moved(m, d, n) == [i \in Position |-> IF i <= n THEN At(m, i + d) ELSE m[i]]

StartsAt(m, k) == At(m, k + 1) = 23 /\ At(m, k + 2) = 19

\* The loop drops a byte while it sees no start mark, but its index meets the
\* shrinking count half way: k bytes in all.
LoopEnds(m, n, k) == 2 * k >= n \/ StartsAt(m, k)
Garbage(m, n, k) == LoopEnds(m, n, k) /\ \A j \in 0..n : j < k => ~LoopEnds(m, n, j)

\* The buffer after k such drops, each of which copies the byte behind the
\* last one too.
Dropped(m, n, k) ==
    [i \in Position |-> IF k > 0 /\ i <= n
                        THEN At(m, IF i + k <= n THEN i + k ELSE n + 1) ELSE m[i]]

\* Mutant: the end mark is looked for one byte early.
EndsWellEarly(b, last) == At(b, last - 2) = 23 /\ At(b, last - 1) = 5

EndsWell(b, last) == At(b, last - 1) = 23 /\ At(b, last) = 5

\* Mutant: one byte too many goes with the frame.
AfterFrameOneMore(b, r, last) ==
    /\ mem' = Moved(b, last + 1, r - last)
    /\ count' = IF r > last THEN r - last - 1 ELSE 0

\* Mutant: the handled frame stays in front when nothing follows it.
AfterFrameKeepsLast(b, r, last) ==
    /\ mem' = Moved(b, last, r - last)
    /\ count' = IF r = last THEN r ELSE r - last

AfterFrame(b, r, last) ==
    /\ mem' = IF r = last THEN Cleared ELSE Moved(b, last, r - last)
    /\ count' = r - last

\* Without the k bytes of garbage: nothing or a part of a frame waits, a frame
\* is handled, or a false start mark goes.
CheckFront(m, n, k) ==
    LET b     == Dropped(m, n, k)
        r     == n - k
        last  == b[3] + Overhead
        whole == 2 * k < n /\ last <= r
    IN \/ /\ ~whole
          /\ mem' = b /\ count' = r
          /\ UNCHANGED handled
       \/ /\ whole /\ EndsWell(b, last)
          /\ AfterFrame(b, r, last)
          /\ handled' = Append(handled, [i \in 1..b[3] |-> b[i + 3]])
       \/ /\ whole /\ ~EndsWell(b, last)
          /\ mem' = Moved(b, 2, r - 2) /\ count' = r - 2
          /\ UNCHANGED handled

Check(m, n) == \E k \in 0..n : Garbage(m, n, k) /\ CheckFront(m, n, k)
-----------------------------------------------------------------------------
Init ==
    /\ mem = Cleared /\ count = 0 /\ syncCount = 0
    /\ wire = <<>> /\ sent = <<>> /\ handled = <<>>
    /\ paced \in BOOLEAN /\ splits \in BOOLEAN

\* add: n bytes of the wire behind the first c of m
Added(m, c, n) ==
    [i \in Position |-> IF i \in (c + 1)..(c + n) THEN wire[i - c] ELSE m[i]]

\* Mutant: add writes past the buffer's end instead of starting it over.
OverflowsLate(n) == count > BufferLen

Overflows(n) == count + n > BufferLen

\* callback_samd20_port
UartRead ==
    \E n \in 1..ReadLen :
        /\ n <= Len(wire)
        /\ splits \/ ~(n < Len(wire) /\ wire[n] = 23 /\ wire[n + 1] = 19)
        /\ wire' = SubSeq(wire, n + 1, Len(wire))
        /\ IF Overflows(n) THEN Check(Added(Cleared, 0, n), n)
           ELSE Check(Added(mem, count, n), count + n)
        /\ syncCount' = 0
        /\ UNCHANGED <<sent, paced, splits>>

\* tmr_work_cycle
WorkCycle ==
    /\ count > 0
    /\ Check(mem, count)
    /\ UNCHANGED <<syncCount, wire, sent, paced, splits>>

\* tmr_sam_cync, 30 s after the last byte: whatever check could do is done.
Settled ==
    /\ wire = <<>>
    /\ count > 0 => StartsAt(mem, 0) /\ mem[3] + Overhead > count

SyncPeriod ==
    /\ Settled
    /\ IF syncCount > SyncLimit
       THEN mem' = Cleared /\ count' = 0 /\ syncCount' = 0
       ELSE syncCount' = syncCount + 1 /\ UNCHANGED <<mem, count>>
    /\ UNCHANGED <<wire, sent, handled, paced, splits>>

\* The board.
SamSends ==
    \E p \in Payloads, t \in Stamps :
        /\ Len(sent) < MaxFrames
        /\ paced => count + Len(wire) + Len(p) + Overhead <= BufferLen
        /\ wire' = wire \o Frame(p, t)
        /\ sent' = Append(sent, p)
        /\ UNCHANGED <<mem, count, syncCount, handled, paced, splits>>

Next == UartRead \/ WorkCycle \/ SyncPeriod \/ SamSends

Spec == Init /\ [][Next]_vars

\* Bytes on the wire are read, the work cycle does not stop.
FairSpec == Spec /\ WF_vars(UartRead) /\ WF_vars(WorkCycle)
-----------------------------------------------------------------------------
\* The buffer and its counter stay within the array, whatever arrives.
TypeOK ==
    /\ mem \in [Position -> Byte] /\ count \in 0..BufferLen
    /\ syncCount \in 0..(SyncLimit + 1)
    /\ wire \in Seq(Byte) /\ sent \in Seq(Payloads) /\ handled \in Seq(Seq(Byte))
    /\ paced \in BOOLEAN /\ splits \in BOOLEAN

\* The bytes of s behind the first i that check takes for a frame
LooksLikeFrame(s, i) ==
    /\ i + Overhead <= Len(s) /\ s[i + 1] = 23 /\ s[i + 2] = 19
    /\ LET last == s[i + 3] + Overhead
       IN /\ last <= BufferLen /\ i + last <= Len(s)
          /\ s[i + last - 1] = 23 /\ s[i + last] = 5

\* What extract gets was sent: no frame is handled twice, out of order, or
\* made up from the pieces that an overflow or a cut start mark leaves.
HandledInOrder ==
    \E f \in [1..Len(handled) -> 1..Len(sent)] :
        /\ \A i \in 1..Len(handled) : handled[i] = sent[f[i]]
        /\ \A i, j \in 1..Len(handled) : i < j => f[i] < f[j]

\* With reads that leave start marks whole and a board that does not overflow
\* the buffer, frames are handled in turn without a gap.
NothingSkipped ==
    paced /\ ~splits => Len(handled) <= Len(sent) /\ handled = SubSeq(sent, 1, Len(handled))

\* And each frame is handled in the end.
AllHandled ==
    paced /\ ~splits => \A n \in 1..MaxFrames : Len(sent) >= n ~> Len(handled) >= n
=============================================================================
