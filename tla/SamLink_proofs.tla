--------------------------- MODULE SamLink_proofs ---------------------------
(***************************************************************************)
(* The SAM link, for every buffer, read and frame length: the receive      *)
(* buffer stays within its array, whatever arrives; no frame is skipped    *)
(* when reads leave marks whole and the board does not overflow the        *)
(* buffer; frames are handled in order whatever happens, if payloads       *)
(* cannot be mistaken for frames.                                          *)
(***************************************************************************)
EXTENDS SamLink, LeastNatural, SequenceTheorems, TLAPS

Memory == [Position -> Byte]

LEMMA Sizes ==
    /\ BufferLen \in Nat /\ BufferLen >= 3 /\ ReadLen \in Nat /\ ReadLen <= BufferLen
    /\ Overhead \in Nat /\ Overhead >= 5
    /\ Beyond \in Byte /\ 0 \in Byte /\ 3 \in Position /\ Position \subseteq Nat
    /\ SyncLimit \in Nat /\ MaxFrames \in Nat
BY SamAssumption DEF Overhead, Byte, Position

LEMMA ClearedType == Cleared \in Memory
BY Sizes DEF Cleared, Memory

\* What check and add do to the bytes of the array.
LEMMA MemoryTypes ==
    ASSUME NEW m \in Memory, NEW n \in Nat, NEW k \in Nat
    PROVE  Moved(m, k, n) \in Memory /\ Dropped(m, n, k) \in Memory
<1>1. \A i : At(m, i) \in Byte
  BY Sizes DEF At, Memory
<1>2. Moved(m, k, n) \in Memory
  BY <1>1 DEF Moved, Memory
<1>3. Dropped(m, n, k) \in Memory
  BY <1>1 DEF Dropped, Memory
<1> QED
  BY <1>2, <1>3

LEMMA AddedType ==
    ASSUME TypeOK, NEW m \in Memory, NEW c \in Nat, NEW n \in Nat, n <= Len(wire)
    PROVE  Added(m, c, n) \in Memory
<1>1. \A i \in (c + 1)..(c + n) : wire[i - c] \in Byte
  <2> SUFFICES ASSUME NEW i \in (c + 1)..(c + n) PROVE wire[i - c] \in Byte
    OBVIOUS
  <2>1. wire \in Seq(Byte) /\ Len(wire) \in Nat
    BY LenProperties DEF TypeOK
  <2>2. i - c \in 1..Len(wire)
    BY <2>1
  <2> QED
    BY <2>1, <2>2, ElementOfSeq
<1> QED
  BY <1>1 DEF Added, Memory

\* check never takes more bytes than there are.
LEMMA CheckTypes ==
    ASSUME TypeOK, NEW m \in Memory, NEW n \in 0..BufferLen, Check(m, n)
    PROVE  mem' \in Memory /\ count' \in 0..BufferLen /\ handled' \in Seq(Seq(Byte))
<1>1. PICK k \in 0..n : CheckFront(m, n, k)
  BY DEF Check
<1> DEFINE b == Dropped(m, n, k)
           r == n - k
           last == b[3] + Overhead
<1>2. b \in Memory
  BY MemoryTypes
<1>3. r \in 0..BufferLen /\ b[3] \in Nat /\ last \in Nat /\ last = b[3] + Overhead /\ last >= 5
  BY <1>2, Sizes DEF Memory, Byte
<1> HIDE DEF b, r, last
<1>4. CASE mem' = b /\ count' = r /\ UNCHANGED handled
  BY <1>2, <1>3, <1>4 DEF TypeOK
<1>5. CASE /\ last <= r /\ AfterFrame(b, r, last)
           /\ handled' = Append(handled, [i \in 1..b[3] |-> b[i + 3]])
  <2>1. mem' \in Memory
    <3>1. r - last \in Nat
      BY <1>3, <1>5, Sizes
    <3>2. Moved(b, last, r - last) \in Memory
      BY <1>2, <1>3, <3>1, MemoryTypes
    <3> QED
      BY <1>5, <3>2, ClearedType DEF AfterFrame
  <2>2. count' \in 0..BufferLen
    BY SMTT(20), <1>3, <1>5, Sizes DEF AfterFrame
  <2>3. [i \in 1..b[3] |-> b[i + 3]] \in Seq(Byte)
    <3>1. \A i \in 1..b[3] : i + 3 \in Position
      BY <1>3, <1>5, Sizes DEF Position
    <3>2. \A i \in 1..b[3] : b[i + 3] \in Byte
      BY <1>2, <3>1 DEF Memory
    <3>3. [i \in 1..b[3] |-> b[i + 3]] \in [1..b[3] -> Byte]
      BY <3>2
    <3>4. [1..b[3] -> Byte] \in {[1..l -> Byte] : l \in Nat}
      BY <1>3
    <3>5. Seq(Byte) = UNION {[1..l -> Byte] : l \in Nat}
      BY SeqDef, Zenon
    <3> QED
      BY <3>3, <3>4, <3>5, Zenon
  <2>4. handled' \in Seq(Seq(Byte))
    BY <1>5, <2>3, AppendProperties DEF TypeOK
  <2> QED
    BY <2>1, <2>2, <2>4
<1>6. CASE last <= r /\ mem' = Moved(b, 2, r - 2) /\ count' = r - 2 /\ UNCHANGED handled
  <2>1. r - 2 \in Nat /\ r - 2 \in 0..BufferLen
    BY <1>3, <1>6, Sizes
  <2> QED
    BY <1>2, <1>6, <2>1, MemoryTypes DEF TypeOK
<1> QED
  BY <1>1, <1>4, <1>5, <1>6 DEF CheckFront, b, r, last

LEMMA FrameType ==
    ASSUME NEW p \in Payloads, NEW t \in Stamps
    PROVE  Frame(p, t) \in Seq(Byte)
<1>1. p \in Seq(Byte) /\ t \in Seq(Byte) /\ Len(p) \in Byte
  BY SamAssumption
<1>2. <<23, 19, Len(p)>> \in Seq(Byte) /\ <<23, 5>> \in Seq(Byte)
  BY <1>1 DEF Byte
<1>3. <<23, 19, Len(p)>> \o p \in Seq(Byte)
  BY <1>1, <1>2, ConcatProperties
<1>4. <<23, 19, Len(p)>> \o p \o t \in Seq(Byte)
  BY <1>1, <1>3, ConcatProperties
<1> QED
  BY <1>2, <1>4, ConcatProperties DEF Frame

LEMMA TypeInit == Init => TypeOK
<1> SUFFICES ASSUME Init PROVE TypeOK
  OBVIOUS
<1>1. mem \in Memory
  BY ClearedType DEF Init
<1>2. /\ wire \in Seq(Byte) /\ sent \in Seq(Payloads) /\ handled \in Seq(Seq(Byte))
  BY EmptySeq DEF Init
<1>3. count \in 0..BufferLen /\ syncCount \in 0..(SyncLimit + 1)
  BY Sizes DEF Init
<1> QED
  BY <1>1, <1>2, <1>3 DEF Init, TypeOK, Memory

LEMMA TypeStep == TypeOK /\ [Next]_vars => TypeOK'
<1> SUFFICES ASSUME TypeOK, [Next]_vars PROVE TypeOK'
  OBVIOUS
<1>1. CASE UNCHANGED vars
  BY <1>1 DEF vars, TypeOK
<1>2. CASE UartRead
  <2>1. PICK n \in 1..ReadLen :
          /\ n <= Len(wire)
          /\ wire' = SubSeq(wire, n + 1, Len(wire))
          /\ IF Overflows(n) THEN Check(Added(Cleared, 0, n), n)
             ELSE Check(Added(mem, count, n), count + n)
    BY <1>2 DEF UartRead
  <2>2. wire \in Seq(Byte) /\ Len(wire) \in Nat /\ count \in 0..BufferLen
    BY LenProperties DEF TypeOK
  <2>3. wire' \in Seq(Byte)
    <3>1. \A i \in (n + 1)..Len(wire) : wire[i] \in Byte
      <4> SUFFICES ASSUME NEW i \in (n + 1)..Len(wire) PROVE wire[i] \in Byte
        OBVIOUS
      <4>1. i \in 1..Len(wire)
        BY <2>2
      <4> QED
        BY <2>2, <4>1, ElementOfSeq
    <3> QED
      BY <2>1, <2>2, <3>1, SubSeqProperties
  <2>4. Added(Cleared, 0, n) \in Memory /\ Added(mem, count, n) \in Memory
    <3>1. Cleared \in Memory /\ mem \in Memory /\ n \in Nat /\ count \in Nat
      BY <2>2, ClearedType, Sizes DEF TypeOK, Memory
    <3> QED
      BY <2>1, <3>1, AddedType
  <2>5. mem' \in Memory /\ count' \in 0..BufferLen /\ handled' \in Seq(Seq(Byte))
    <3>1. CASE Overflows(n)
      <4>1. n \in 0..BufferLen
        BY Sizes
      <4> QED
        BY <2>1, <2>4, <3>1, <4>1, CheckTypes
    <3>2. CASE ~Overflows(n)
      <4>1. count + n \in 0..BufferLen
        BY <2>2, <3>2, Sizes DEF Overflows
      <4> QED
        BY <2>1, <2>4, <3>2, <4>1, CheckTypes
    <3> QED
      BY <3>1, <3>2
  <2> QED
    <3>1. syncCount' \in 0..(SyncLimit + 1)
      BY <1>2, Sizes DEF UartRead
    <3>2. UNCHANGED <<sent, paced, splits>>
      BY <1>2 DEF UartRead
    <3> QED
      BY <2>3, <2>5, <3>1, <3>2 DEF TypeOK, Memory
<1>3. CASE WorkCycle
  BY <1>3, CheckTypes DEF WorkCycle, TypeOK, Memory
<1>4. CASE SyncPeriod
  <2>1. mem' \in Memory /\ count' \in 0..BufferLen
    BY <1>4, ClearedType, Sizes DEF SyncPeriod, TypeOK, Memory
  <2>2. syncCount' \in 0..(SyncLimit + 1)
    BY <1>4, Sizes DEF SyncPeriod, TypeOK
  <2> QED
    BY <1>4, <2>1, <2>2 DEF SyncPeriod, TypeOK, Memory
<1>5. CASE SamSends
  <2>1. wire' \in Seq(Byte)
    BY <1>5, FrameType, ConcatProperties DEF SamSends, TypeOK
  <2>2. sent' \in Seq(Payloads)
    BY <1>5, AppendProperties DEF SamSends, TypeOK
  <2> QED
    BY <1>5, <2>1, <2>2 DEF SamSends, TypeOK
<1> QED
  BY <1>1, <1>2, <1>3, <1>4, <1>5 DEF Next

(***************************************************************************)
(* Whatever arrives, in reads of any length and however cut: the count     *)
(* stays within the array, and so do all the bytes check looks at to find  *)
(* a frame.                                                                *)
(***************************************************************************)
THEOREM SamTypeCorrect == Spec => []TypeOK
BY TypeInit, TypeStep, PTL DEF Spec
-----------------------------------------------------------------------------
(***************************************************************************)
(* The stream of the board: the frames it has sent, each where the one     *)
(* before it ends.                                                         *)
(***************************************************************************)
FrameLen(p) == Len(p) + Overhead

IsFrameAt(s, i, p) == \E t \in Stamps : \A j \in 1..FrameLen(p) : s[i + j] = Frame(p, t)[j]

\* The payloads ps in s, the i-th behind the first start[i] bytes
IsStream(s, start, ps) ==
    /\ s \in Seq(Byte) /\ ps \in Seq(Payloads) /\ start \in [1..(Len(ps) + 1) -> Nat]
    /\ start[1] = 0 /\ start[Len(ps) + 1] = Len(s)
    /\ \A i \in 1..Len(ps) : start[i + 1] = start[i] + FrameLen(ps[i]) /\ IsFrameAt(s, start[i], ps[i])
    /\ \A i, j \in 1..(Len(ps) + 1) : i < j => start[i] < start[j]

LEMMA ConcatAt ==
    ASSUME NEW x \in Seq(Byte), NEW y \in Seq(Byte)
    PROVE  /\ x \o y \in Seq(Byte) /\ Len(x \o y) = Len(x) + Len(y)
           /\ Len(x) \in Nat /\ Len(y) \in Nat
           /\ \A i \in 1..Len(x) : (x \o y)[i] = x[i]
           /\ \A i \in 1..Len(y) : (x \o y)[Len(x) + i] = y[i]
<1>1. Len(x) \in Nat /\ Len(y) \in Nat
  BY LenProperties
<1>2. /\ x \o y \in Seq(Byte) /\ Len(x \o y) = Len(x) + Len(y)
      /\ \A i \in 1..(Len(x) + Len(y)) : (x \o y)[i] = IF i <= Len(x) THEN x[i] ELSE y[i - Len(x)]
  BY ConcatProperties
<1>3. \A i \in 1..Len(x) : (x \o y)[i] = x[i]
  <2> SUFFICES ASSUME NEW i \in 1..Len(x) PROVE (x \o y)[i] = x[i]
    OBVIOUS
  <2>1. i \in 1..(Len(x) + Len(y)) /\ i <= Len(x)
    BY <1>1
  <2> QED
    BY <1>2, <2>1
<1>4. \A i \in 1..Len(y) : (x \o y)[Len(x) + i] = y[i]
  <2> SUFFICES ASSUME NEW i \in 1..Len(y) PROVE (x \o y)[Len(x) + i] = y[i]
    OBVIOUS
  <2>1. /\ Len(x) + i \in 1..(Len(x) + Len(y)) /\ ~ (Len(x) + i <= Len(x))
        /\ (Len(x) + i) - Len(x) = i
    BY <1>1
  <2> QED
    BY <1>2, <2>1
<1> QED
  BY <1>1, <1>2, <1>3, <1>4

\* What is where in a frame
LEMMA FrameIs ==
    ASSUME NEW p \in Payloads, NEW t \in Stamps
    PROVE  /\ Frame(p, t) \in Seq(Byte) /\ Len(Frame(p, t)) = FrameLen(p)
           /\ Frame(p, t)[1] = 23 /\ Frame(p, t)[2] = 19 /\ Frame(p, t)[3] = Len(p)
           /\ \A i \in 1..Len(p) : Frame(p, t)[3 + i] = p[i]
           /\ Frame(p, t)[FrameLen(p) - 1] = 23 /\ Frame(p, t)[FrameLen(p)] = 5
<1> DEFINE h == <<23, 19, Len(p)>>
           e == <<23, 5>>
           a == h \o p
           b == a \o t
           f == b \o e
           L == Len(p)
<1>1. /\ p \in Seq(Byte) /\ t \in Seq(Byte) /\ Len(t) = TimeLen /\ TimeLen \in Nat
      /\ L \in Byte /\ L \in Nat
  BY SamAssumption DEF Byte
<1>2. /\ h \in Seq(Byte) /\ Len(h) = 3 /\ h[1] = 23 /\ h[2] = 19 /\ h[3] = L
  BY <1>1 DEF Byte
<1>3. e \in Seq(Byte) /\ Len(e) = 2 /\ e[1] = 23 /\ e[2] = 5
  BY DEF Byte
<1>4. Frame(p, t) = f /\ FrameLen(p) = L + (TimeLen + 5)
  BY DEF Frame, FrameLen, Overhead
<1> HIDE DEF h, e, L
<1>5. /\ a \in Seq(Byte) /\ Len(a) = 3 + L
      /\ \A i \in 1..3 : a[i] = h[i]
      /\ \A i \in 1..L : a[3 + i] = p[i]
  <2>1. /\ a \in Seq(Byte) /\ Len(a) = Len(h) + Len(p)
        /\ \A i \in 1..Len(h) : a[i] = h[i]
        /\ \A i \in 1..Len(p) : a[Len(h) + i] = p[i]
    BY <1>1, <1>2, ConcatAt
  <2> HIDE DEF a
  <2> QED
    BY <1>2, <2>1 DEF L
<1> HIDE DEF a
<1>6. /\ b \in Seq(Byte) /\ Len(b) = 3 + L + TimeLen
      /\ \A i \in 1..(3 + L) : b[i] = a[i]
  <2>1. b \in Seq(Byte) /\ Len(b) = Len(a) + Len(t) /\ \A i \in 1..Len(a) : b[i] = a[i]
    BY <1>1, <1>5, ConcatAt
  <2> HIDE DEF b
  <2> QED
    BY <1>1, <1>5, <2>1
<1> HIDE DEF b
<1>7. /\ f \in Seq(Byte) /\ Len(f) = 3 + L + TimeLen + 2
      /\ \A i \in 1..(3 + L + TimeLen) : f[i] = b[i]
      /\ \A i \in 1..2 : f[3 + L + TimeLen + i] = e[i]
  <2>1. /\ f \in Seq(Byte) /\ Len(f) = Len(b) + Len(e)
        /\ \A i \in 1..Len(b) : f[i] = b[i]
        /\ \A i \in 1..Len(e) : f[Len(b) + i] = e[i]
    BY <1>3, <1>6, ConcatAt
  <2> HIDE DEF f
  <2> QED
    BY <1>3, <1>6, <2>1
<1> HIDE DEF f
<1>8. \A i \in 1..(3 + L) : f[i] = a[i]
  <2> SUFFICES ASSUME NEW i \in 1..(3 + L) PROVE f[i] = a[i]
    OBVIOUS
  <2>1. i \in 1..(3 + L + TimeLen)
    BY <1>1
  <2> QED
    BY <1>6, <1>7, <2>1
<1>9. f[1] = 23 /\ f[2] = 19 /\ f[3] = L
  <2>1. 1 \in 1..3 /\ 2 \in 1..3 /\ 3 \in 1..3 /\ \A i \in 1..3 : i \in 1..(3 + L)
    BY <1>1
  <2> QED
    BY <1>2, <1>5, <1>8, <2>1
<1>10. \A i \in 1..L : f[3 + i] = p[i]
  <2> SUFFICES ASSUME NEW i \in 1..L PROVE f[3 + i] = p[i]
    OBVIOUS
  <2>1. 3 + i \in 1..(3 + L)
    BY <1>1
  <2> QED
    BY <1>5, <1>8, <2>1
<1>11. f[FrameLen(p) - 1] = 23 /\ f[FrameLen(p)] = 5
  <2>1. FrameLen(p) - 1 = 3 + L + TimeLen + 1 /\ FrameLen(p) = 3 + L + TimeLen + 2
    BY <1>1, <1>4
  <2>2. 1 \in 1..2 /\ 2 \in 1..2
    OBVIOUS
  <2> QED
    BY <1>3, <1>7, <2>1, <2>2
<1>12. Len(f) = FrameLen(p)
  BY <1>1, <1>4, <1>7
<1> QED
  BY <1>4, <1>7, <1>9, <1>10, <1>11, <1>12 DEF L

\* A frame in the stream, by the bytes of the stream
LEMMA InStream ==
    ASSUME NEW s, NEW start, NEW ps, IsStream(s, start, ps), NEW k \in 1..Len(ps)
    PROVE  /\ start[k] \in Nat /\ start[k + 1] \in Nat
           /\ start[k + 1] = start[k] + Len(ps[k]) + Overhead /\ start[k + 1] <= Len(s)
           /\ Len(s) \in Nat /\ Len(ps) \in Nat /\ ps[k] \in Payloads /\ Len(ps[k]) \in Byte
           /\ s[start[k] + 1] = 23 /\ s[start[k] + 2] = 19 /\ s[start[k] + 3] = Len(ps[k])
           /\ \A i \in 1..Len(ps[k]) : s[start[k] + (3 + i)] = ps[k][i]
           /\ s[start[k + 1] - 1] = 23 /\ s[start[k + 1]] = 5
<1> DEFINE p == ps[k]
<1>1. Len(ps) \in Nat /\ Len(s) \in Nat /\ p \in Payloads
  BY LenProperties, ElementOfSeq DEF IsStream
<1>2. Len(p) \in Byte /\ Len(p) \in Nat /\ p \in Seq(Byte)
  BY <1>1, SamAssumption DEF Byte
<1>3. /\ k \in 1..(Len(ps) + 1) /\ k + 1 \in 1..(Len(ps) + 1) /\ Len(ps) + 1 \in 1..(Len(ps) + 1)
      /\ k + 1 < Len(ps) + 1 \/ k + 1 = Len(ps) + 1
  BY <1>1
<1>4. /\ start[k] \in Nat /\ start[k + 1] \in Nat
      /\ start[k + 1] = start[k] + FrameLen(p) /\ IsFrameAt(s, start[k], p)
      /\ start[k + 1] <= Len(s)
  <2>1. /\ start \in [1..(Len(ps) + 1) -> Nat] /\ start[Len(ps) + 1] = Len(s)
        /\ start[k + 1] = start[k] + FrameLen(ps[k]) /\ IsFrameAt(s, start[k], ps[k])
        /\ k + 1 < Len(ps) + 1 => start[k + 1] < start[Len(ps) + 1]
    BY <1>3 DEF IsStream
  <2>2. start[k] \in Nat /\ start[k + 1] \in Nat
    BY <1>3, <2>1
  <2>3. start[k + 1] <= Len(s)
    BY <1>1, <1>3, <2>1, <2>2
  <2> QED
    BY <2>1, <2>2, <2>3
<1> HIDE DEF p
<1>5. PICK t \in Stamps : \A j \in 1..FrameLen(p) : s[start[k] + j] = Frame(p, t)[j]
  BY <1>4 DEF IsFrameAt
<1>6. /\ FrameLen(p) = Len(p) + Overhead /\ FrameLen(p) \in Nat /\ Overhead \in Nat /\ Overhead >= 5
  BY <1>2, Sizes DEF FrameLen
<1>7. /\ 1 \in 1..FrameLen(p) /\ 2 \in 1..FrameLen(p) /\ 3 \in 1..FrameLen(p)
      /\ FrameLen(p) - 1 \in 1..FrameLen(p) /\ FrameLen(p) \in 1..FrameLen(p)
      /\ \A i \in 1..Len(p) : 3 + i \in 1..FrameLen(p)
  BY <1>2, <1>6
<1>8. /\ s[start[k] + 1] = 23 /\ s[start[k] + 2] = 19 /\ s[start[k] + 3] = Len(p)
      /\ \A i \in 1..Len(p) : s[start[k] + (3 + i)] = p[i]
      /\ s[start[k] + (FrameLen(p) - 1)] = 23 /\ s[start[k] + FrameLen(p)] = 5
  <2>1. /\ Frame(p, t)[1] = 23 /\ Frame(p, t)[2] = 19 /\ Frame(p, t)[3] = Len(p)
        /\ \A i \in 1..Len(p) : Frame(p, t)[3 + i] = p[i]
        /\ Frame(p, t)[FrameLen(p) - 1] = 23 /\ Frame(p, t)[FrameLen(p)] = 5
    BY <1>1, FrameIs
  <2>2. ASSUME NEW i \in 1..Len(p) PROVE s[start[k] + (3 + i)] = p[i]
    BY <1>5, <1>7, <2>1
  <2>3. /\ s[start[k] + 1] = 23 /\ s[start[k] + 2] = 19 /\ s[start[k] + 3] = Len(p)
        /\ s[start[k] + (FrameLen(p) - 1)] = 23 /\ s[start[k] + FrameLen(p)] = 5
    BY <1>5, <1>7, <2>1
  <2> QED
    BY <2>2, <2>3
<1>9. /\ start[k] + (FrameLen(p) - 1) = start[k + 1] - 1 /\ start[k] + FrameLen(p) = start[k + 1]
      /\ start[k + 1] = start[k] + Len(p) + Overhead
  BY <1>2, <1>4, <1>6
<1> QED
  BY <1>1, <1>2, <1>4, <1>8, <1>9 DEF p

\* Nothing was sent; and one frame more.
LEMMA NoStream == IsStream(<<>>, [i \in 1..1 |-> 0], <<>>)
<1>1. <<>> \in Seq(Byte) /\ <<>> \in Seq(Payloads) /\ Len(<<>>) = 0
  BY EmptySeq
<1> QED
  BY <1>1 DEF IsStream

LEMMA StreamGrows ==
    ASSUME NEW s, NEW start, NEW ps, IsStream(s, start, ps), NEW p \in Payloads, NEW t \in Stamps
    PROVE  IsStream(s \o Frame(p, t),
                    [i \in 1..(Len(ps) + 2) |-> IF i <= Len(ps) + 1 THEN start[i]
                                                ELSE Len(s) + FrameLen(p)],
                    Append(ps, p))
<1> DEFINE f    == Frame(p, t)
           S    == s \o f
           PS   == Append(ps, p)
           N    == Len(ps)
           more == [i \in 1..(N + 2) |-> IF i <= N + 1 THEN start[i] ELSE Len(s) + FrameLen(p)]
<1>1. /\ s \in Seq(Byte) /\ ps \in Seq(Payloads) /\ Len(s) \in Nat /\ N \in Nat
      /\ start \in [1..(N + 1) -> Nat] /\ start[1] = 0 /\ start[N + 1] = Len(s)
  BY LenProperties DEF IsStream
<1>2. f \in Seq(Byte) /\ Len(f) = FrameLen(p)
  BY FrameIs
<1>3. FrameLen(p) \in Nat /\ FrameLen(p) > 0
  <2>1. Len(p) \in Nat
    BY SamAssumption DEF Byte
  <2> QED
    BY <2>1, Sizes DEF FrameLen
<1>4. \A i \in 1..N : /\ start[i + 1] = start[i] + FrameLen(ps[i]) /\ IsFrameAt(s, start[i], ps[i])
                      /\ start[i + 1] <= Len(s) /\ start[i] \in Nat /\ FrameLen(ps[i]) \in Nat
  <2> SUFFICES ASSUME NEW i \in 1..N
               PROVE  /\ start[i + 1] = start[i] + FrameLen(ps[i]) /\ IsFrameAt(s, start[i], ps[i])
                      /\ start[i + 1] <= Len(s) /\ start[i] \in Nat /\ FrameLen(ps[i]) \in Nat
    OBVIOUS
  <2>1. /\ start[i + 1] <= Len(s) /\ start[i] \in Nat /\ Len(ps[i]) \in Byte
    BY InStream
  <2>2. FrameLen(ps[i]) \in Nat
    BY <2>1, Sizes DEF FrameLen, Byte
  <2> QED
    BY <2>1, <2>2 DEF IsStream
<1>5. \A i, j \in 1..(N + 1) : i < j => start[i] < start[j]
  BY DEF IsStream
<1>6. /\ S \in Seq(Byte) /\ Len(S) = Len(s) + FrameLen(p)
      /\ \A i \in 1..Len(s) : S[i] = s[i]
      /\ \A i \in 1..FrameLen(p) : S[Len(s) + i] = f[i]
  <2> HIDE DEF f
  <2>1. /\ S \in Seq(Byte) /\ Len(S) = Len(s) + Len(f)
        /\ \A i \in 1..Len(s) : S[i] = s[i]
        /\ \A i \in 1..Len(f) : S[Len(s) + i] = f[i]
    BY <1>1, <1>2, ConcatAt
  <2> HIDE DEF S
  <2> QED
    BY <1>2, <2>1
<1>7. /\ PS \in Seq(Payloads) /\ Len(PS) = N + 1 /\ PS[N + 1] = p
      /\ \A i \in 1..N : PS[i] = ps[i]
  BY <1>1, AppendProperties
<1>8. /\ more \in [1..(N + 2) -> Nat] /\ more[N + 2] = Len(s) + FrameLen(p)
      /\ \A i \in 1..(N + 1) : more[i] = start[i]
  <2>1. ~ (N + 2 <= N + 1) /\ N + 2 \in 1..(N + 2)
    BY <1>1
  <2>2. more[N + 2] = Len(s) + FrameLen(p)
    BY <2>1
  <2>3. ASSUME NEW i \in 1..(N + 1) PROVE more[i] = start[i]
    <3>1. i \in 1..(N + 2) /\ i <= N + 1
      BY <1>1
    <3> QED
      BY <3>1
  <2>4. ASSUME NEW i \in 1..(N + 2) PROVE more[i] \in Nat
    <3>1. CASE i \in 1..(N + 1)
      BY <1>1, <2>3, <3>1
    <3>2. CASE i = N + 2
      BY <1>1, <1>3, <2>2, <3>2
    <3> QED
      BY <1>1, <3>1, <3>2
  <2> QED
    BY <2>2, <2>3, <2>4
<1> HIDE DEF f, S, PS, N, more
<1>9. ASSUME NEW i \in 1..(N + 1)
      PROVE  more[i + 1] = more[i] + FrameLen(PS[i]) /\ IsFrameAt(S, more[i], PS[i])
  <2>1. CASE i \in 1..N
    <3>1. i + 1 \in 1..(N + 1)
      BY <1>1, <2>1
    <3>2. more[i + 1] = more[i] + FrameLen(PS[i])
      BY <1>4, <1>7, <1>8, <2>1, <3>1
    <3>3. PICK stamp \in Stamps :
             \A j \in 1..FrameLen(ps[i]) : s[start[i] + j] = Frame(ps[i], stamp)[j]
      BY <1>4, <2>1 DEF IsFrameAt
    <3>4. ASSUME NEW j \in 1..FrameLen(ps[i]) PROVE S[start[i] + j] = Frame(ps[i], stamp)[j]
      <4>1. start[i] + j \in 1..Len(s)
        BY <1>1, <1>4, <2>1
      <4> QED
        BY <1>6, <3>3, <4>1
    <3> QED
      BY <1>7, <1>8, <2>1, <3>2, <3>4 DEF IsFrameAt
  <2>2. CASE i = N + 1
    <3>1. i + 1 = N + 2
      BY <1>1, <2>2
    <3>2. more[i + 1] = more[i] + FrameLen(PS[i])
      BY <1>1, <1>7, <1>8, <2>2, <3>1
    <3>3. \A j \in 1..FrameLen(p) : S[Len(s) + j] = Frame(p, t)[j]
      BY <1>6 DEF f
    <3>4. more[i] = Len(s) /\ PS[i] = p
      <4>1. N + 1 \in 1..(N + 1)
        BY <1>1
      <4> QED
        BY <1>1, <1>7, <1>8, <2>2, <4>1
    <3>5. IsFrameAt(S, Len(s), p)
      BY <3>3 DEF IsFrameAt
    <3> QED
      BY <3>2, <3>4, <3>5
  <2> QED
    BY <1>1, <2>1, <2>2
<1>10. ASSUME NEW i \in 1..(N + 2), NEW j \in 1..(N + 2), i < j
       PROVE  more[i] < more[j]
  <2>1. i \in 1..(N + 1) /\ more[i] = start[i]
    BY <1>1, <1>8, <1>10
  <2>2. CASE j \in 1..(N + 1)
    BY <1>5, <1>8, <1>10, <2>1, <2>2
  <2>3. CASE j = N + 2
    <3>1. start[i] <= Len(s) /\ start[i] \in Nat
      <4>1. i < N + 1 \/ i = N + 1
        BY <1>1, <2>1
      <4>2. N + 1 \in 1..(N + 1)
        BY <1>1
      <4> QED
        BY <1>1, <1>5, <2>1, <4>1, <4>2
    <3> QED
      BY <1>1, <1>3, <1>8, <2>1, <2>3, <3>1
  <2> QED
    BY <1>1, <2>2, <2>3
<1>11. more[1] = 0 /\ more[Len(PS) + 1] = Len(S) /\ more \in [1..(Len(PS) + 1) -> Nat]
  <2>1. Len(PS) + 1 = N + 2 /\ 1 \in 1..(N + 1)
    BY <1>1, <1>7
  <2> QED
    BY <1>1, <1>6, <1>8, <2>1
<1>12. IsStream(S, more, PS)
  <2>1. Len(PS) + 1 = N + 2
    BY <1>1, <1>7
  <2> QED
    BY <1>6, <1>7, <1>9, <1>10, <1>11, <2>1 DEF IsStream
<1> QED
  BY <1>12 DEF S, more, PS, N, f

(***************************************************************************)
(* check and add, where the buffer holds the n bytes of the stream behind  *)
(* the first a                                                             *)
(***************************************************************************)
\* What becomes of them: without the garbage in front they stay, or a whole frame is
\* handled, or the two bytes of a false start mark go too.
Stays(n, s, c) ==
    /\ count' = n /\ handled' = handled
    /\ \A j \in 1..n : mem'[j] = s[c + j]

Handles(n, s, c) ==
    \E l \in Byte :
        /\ l + Overhead <= n /\ s[c + 1] = 23 /\ s[c + 2] = 19 /\ s[c + 3] = l
        /\ s[c + (l + Overhead - 1)] = 23 /\ s[c + (l + Overhead)] = 5
        /\ count' = n - (l + Overhead)
        /\ \A j \in 1..count' : mem'[j] = s[(c + (l + Overhead)) + j]
        /\ handled' = Append(handled, [i \in 1..l |-> s[c + (3 + i)]])

Skips(n, s, c) ==
    \E l \in Byte :
        /\ l + Overhead <= n /\ s[c + 3] = l
        /\ ~ (s[c + (l + Overhead - 1)] = 23 /\ s[c + (l + Overhead)] = 5)
        /\ count' = n - 2 /\ handled' = handled
        /\ \A j \in 1..count' : mem'[j] = s[(c + 2) + j]

LEMMA CheckDoes ==
    ASSUME NEW m \in Memory, NEW n \in 1..BufferLen, NEW s, NEW a \in Nat,
           \A j \in 1..n : m[j] = s[a + j], Check(m, n)
    PROVE  \E k \in 0..n :
              /\ Garbage(m, n, k)
              /\ Stays(n - k, s, a + k) \/ Handles(n - k, s, a + k) \/ Skips(n - k, s, a + k)
<1>0. n \in Nat /\ n <= BufferLen /\ BufferLen \in Nat /\ Overhead \in Nat /\ Overhead >= 5
  BY Sizes
<1>1. PICK k \in 0..n : Garbage(m, n, k) /\ CheckFront(m, n, k)
  BY DEF Check
<1> DEFINE b    == Dropped(m, n, k)
           r    == n - k
           c    == a + k
           last == b[3] + Overhead
<1>2. b \in Memory
  BY <1>0, MemoryTypes
<1>3. r \in 0..BufferLen /\ k \in Nat /\ r + k = n /\ c \in Nat
  BY <1>0
<1>4. b[3] \in Byte /\ last \in Nat /\ last >= 5 /\ last = b[3] + Overhead
  BY <1>0, <1>2, Sizes DEF Memory, Byte
<1>5. \A j \in 1..r : b[j] = s[c + j] /\ j \in Position
  <2> SUFFICES ASSUME NEW j \in 1..r PROVE b[j] = s[c + j] /\ j \in Position
    OBVIOUS
  <2>1. /\ j \in Position /\ j <= n /\ j + k <= n /\ j + k \in Position /\ j + k \in 1..n
        /\ a + (j + k) = c + j
    BY <1>0, <1>3 DEF Position
  <2>2. b[j] = m[j + k]
    <3>1. CASE k > 0
      <4>1. b[j] = At(m, j + k)
        BY <2>1, <3>1 DEF Dropped
      <4> QED
        BY <2>1, <4>1 DEF At
    <3>2. CASE ~ (k > 0)
      <4>1. b[j] = m[j]
        BY <2>1, <3>2 DEF Dropped
      <4>2. j + k = j
        BY <1>3, <3>2
      <4> QED
        BY <4>1, <4>2
    <3> QED
      BY <3>1, <3>2
  <2> QED
    BY <2>1, <2>2
<1>6. \A d \in 0..r : \A j \in 1..(r - d) : Moved(b, d, r - d)[j] = s[(c + d) + j]
  <2> SUFFICES ASSUME NEW d \in 0..r, NEW j \in 1..(r - d)
               PROVE  Moved(b, d, r - d)[j] = s[(c + d) + j]
    OBVIOUS
  <2>1. /\ j \in Position /\ j <= r - d /\ j + d \in Position /\ j + d \in 1..r
        /\ c + (j + d) = (c + d) + j
    BY <1>0, <1>3 DEF Position
  <2> HIDE DEF b, r, c
  <2>2. Moved(b, d, r - d)[j] = b[j + d]
    BY <2>1 DEF Moved, At
  <2>3. b[j + d] = s[c + (j + d)]
    BY <1>5, <2>1
  <2> QED
    BY <2>1, <2>2, <2>3
<1>7. \/ ~ (2 * k < n /\ last <= r) /\ mem' = b /\ count' = r /\ UNCHANGED handled
      \/ /\ 2 * k < n /\ last <= r /\ EndsWell(b, last) /\ AfterFrame(b, r, last)
         /\ handled' = Append(handled, [i \in 1..b[3] |-> b[i + 3]])
      \/ /\ 2 * k < n /\ last <= r /\ ~EndsWell(b, last)
         /\ mem' = Moved(b, 2, r - 2) /\ count' = r - 2 /\ UNCHANGED handled
  BY <1>1 DEF CheckFront
<1>8. 2 * k < n => StartsAt(m, k)
  BY <1>0, <1>1, <1>3 DEF Garbage, LoopEnds
<1> HIDE DEF b, r, c, last
<1>9. CASE mem' = b /\ count' = r /\ UNCHANGED handled
  <2>1. Stays(r, s, c)
    BY <1>5, <1>9 DEF Stays
  <2> QED
    BY <1>1, <2>1 DEF r, c
<1>10. ASSUME 2 * k < n, last <= r
       PROVE  /\ s[c + 1] = 23 /\ s[c + 2] = 19 /\ s[c + 3] = b[3]
              /\ EndsWell(b, last) <=> s[c + (b[3] + Overhead - 1)] = 23
                                        /\ s[c + (b[3] + Overhead)] = 5
  <2>1. /\ 1 \in 1..r /\ 2 \in 1..r /\ 3 \in 1..r /\ last - 1 \in 1..r /\ last \in 1..r
        /\ b[3] + Overhead - 1 = last - 1 /\ b[3] + Overhead = last
    BY <1>0, <1>3, <1>4, <1>10 DEF Byte
  <2>2. /\ b[1] = s[c + 1] /\ b[2] = s[c + 2] /\ b[3] = s[c + 3]
        /\ b[last - 1] = s[c + (last - 1)] /\ b[last] = s[c + last]
        /\ last - 1 \in Position /\ last \in Position
    BY <1>5, <2>1
  <2>3. b[1] = 23 /\ b[2] = 19
    <3>1. At(m, k + 1) = 23 /\ At(m, k + 2) = 19
      BY <1>8, <1>10 DEF StartsAt
    <3>2. /\ k + 1 \in 1..n /\ k + 2 \in 1..n /\ k + 1 \in Position /\ k + 2 \in Position
          /\ a + (k + 1) = c + 1 /\ a + (k + 2) = c + 2
      BY <1>0, <1>3, <2>1 DEF Position, c
    <3>3. m[k + 1] = 23 /\ m[k + 2] = 19
      BY <3>1, <3>2 DEF At
    <3>4. m[k + 1] = s[a + (k + 1)] /\ m[k + 2] = s[a + (k + 2)]
      BY <3>2
    <3> QED
      BY <2>2, <3>2, <3>3, <3>4
  <2>4. EndsWell(b, last) <=> b[last - 1] = 23 /\ b[last] = 5
    BY <2>2 DEF EndsWell, At
  <2> QED
    BY <2>1, <2>2, <2>3, <2>4
<1>11. CASE /\ 2 * k < n /\ last <= r /\ EndsWell(b, last) /\ AfterFrame(b, r, last)
            /\ handled' = Append(handled, [i \in 1..b[3] |-> b[i + 3]])
  <2>1. /\ s[c + 1] = 23 /\ s[c + 2] = 19 /\ s[c + 3] = b[3]
        /\ s[c + (b[3] + Overhead - 1)] = 23 /\ s[c + (b[3] + Overhead)] = 5
    BY <1>10, <1>11
  <2>2. count' = r - last /\ last \in 0..r /\ r - last \in Nat
    BY <1>3, <1>4, <1>11 DEF AfterFrame
  <2>3. \A j \in 1..(r - last) : mem'[j] = s[(c + last) + j]
    <3>1. CASE r = last
      BY <1>3, <3>1
    <3>2. CASE r # last
      BY <1>6, <1>11, <2>2, <3>2 DEF AfterFrame
    <3> QED
      BY <3>1, <3>2
  <2>4. [i \in 1..b[3] |-> b[i + 3]] = [i \in 1..b[3] |-> s[c + (3 + i)]]
    <3>1. ASSUME NEW i \in 1..b[3] PROVE b[i + 3] = s[c + (3 + i)]
      <4>1. b[3] \in Nat /\ i \in Nat /\ i >= 1 /\ i <= b[3]
        BY <1>4 DEF Byte
      <4>2. b[3] + 5 <= r
        BY <1>0, <1>3, <1>4, <1>11, <4>1
      <4>3. i + 3 \in 1..r /\ i + 3 = 3 + i
        BY <1>3, <4>1, <4>2
      <4> QED
        BY <1>5, <4>3
    <3> QED
      BY <3>1
  <2>5. Handles(r, s, c)
    BY <1>4, <1>11, <2>1, <2>2, <2>3, <2>4 DEF Handles
  <2> QED
    BY <1>1, <2>5 DEF r, c
<1>12. CASE /\ 2 * k < n /\ last <= r /\ ~EndsWell(b, last)
            /\ mem' = Moved(b, 2, r - 2) /\ count' = r - 2 /\ UNCHANGED handled
  <2>1. /\ s[c + 3] = b[3]
        /\ ~ (s[c + (b[3] + Overhead - 1)] = 23 /\ s[c + (b[3] + Overhead)] = 5)
    BY <1>10, <1>12
  <2>2. 2 \in 0..r
    BY <1>3, <1>4, <1>12
  <2>3. \A j \in 1..count' : mem'[j] = s[(c + 2) + j]
    BY <1>6, <1>12, <2>2
  <2>4. Skips(r, s, c)
    BY <1>4, <1>12, <2>1, <2>3 DEF Skips
  <2> QED
    BY <1>1, <2>4 DEF r, c
<1> QED
  BY <1>7, <1>9, <1>11, <1>12

(***************************************************************************)
(* The buffer and the wire hold the end of the stream, whatever was        *)
(* dropped before it.                                                      *)
(***************************************************************************)
Follows(s, a) ==
    /\ a \in Nat /\ s \in Seq(Byte) /\ a + count + Len(wire) = Len(s)
    /\ \A j \in 1..count : mem[j] = s[a + j]
    /\ \A j \in 1..Len(wire) : wire[j] = s[(a + count) + j]

\* No start mark is half read.
MarkWhole(s, a) ==
    count > 0 /\ Len(wire) > 0 => ~ (s[a + count] = 23 /\ s[a + count + 1] = 19)

\* What check gets to see, and what stays on the wire
Reads(s, a, m, n, b) ==
    /\ m \in Memory /\ n \in 1..BufferLen /\ b \in Nat /\ a <= b /\ Check(m, n)
    /\ \A j \in 1..n : m[j] = s[b + j]
    /\ wire' \in Seq(Byte) /\ b + n + Len(wire') = Len(s)
    /\ \A j \in 1..Len(wire') : wire'[j] = s[(b + n) + j]
    /\ Len(s) - a <= BufferLen => b = a
    /\ ~splits /\ MarkWhole(s, a) /\ Len(wire') > 0 => ~ (s[b + n] = 23 /\ s[b + n + 1] = 19)
    /\ UNCHANGED <<sent, paced, splits>>

LEMMA WorkCycleReads ==
    ASSUME TypeOK, WorkCycle, NEW s, NEW a, Follows(s, a)
    PROVE  Reads(s, a, mem, count, a)
<1>1. /\ count > 0 /\ Check(mem, count) /\ UNCHANGED <<wire, sent, paced, splits>>
      /\ mem \in Memory /\ wire \in Seq(Byte) /\ count \in 0..BufferLen
  BY DEF WorkCycle, TypeOK, Memory
<1>2. count \in 1..BufferLen
  BY <1>1, Sizes
<1> QED
  BY <1>1, <1>2 DEF Follows, Reads, MarkWhole

LEMMA UartReads ==
    ASSUME TypeOK, UartRead, NEW s, NEW a, Follows(s, a)
    PROVE  \E m, n, b : Reads(s, a, m, n, b)
<1>0. BufferLen \in Nat /\ ReadLen \in Nat /\ ReadLen <= BufferLen
  BY Sizes
<1>1. PICK n \in 1..ReadLen :
        /\ n <= Len(wire)
        /\ splits \/ ~(n < Len(wire) /\ wire[n] = 23 /\ wire[n + 1] = 19)
        /\ wire' = SubSeq(wire, n + 1, Len(wire))
        /\ IF Overflows(n) THEN Check(Added(Cleared, 0, n), n)
           ELSE Check(Added(mem, count, n), count + n)
        /\ UNCHANGED <<sent, paced, splits>>
  BY DEF UartRead
<1>2. /\ wire \in Seq(Byte) /\ Len(wire) \in Nat /\ count \in Nat /\ count <= BufferLen
      /\ mem \in Memory /\ n \in Nat /\ n >= 1 /\ n <= Len(wire) /\ n <= ReadLen
  BY <1>0, <1>1, LenProperties DEF TypeOK, Memory
<1>3. /\ a \in Nat /\ s \in Seq(Byte) /\ a + count + Len(wire) = Len(s) /\ Len(s) \in Nat
      /\ \A j \in 1..count : mem[j] = s[a + j]
      /\ \A j \in 1..Len(wire) : wire[j] = s[(a + count) + j]
  BY LenProperties DEF Follows
<1> DEFINE e == a + count + n     \* what is read or dropped, or in the buffer
<1>4. /\ wire' \in Seq(Byte) /\ e + Len(wire') = Len(s) /\ Len(wire') = Len(wire) - n
      /\ \A j \in 1..Len(wire') : wire'[j] = s[e + j]
  <2>1. \A i \in (n + 1)..Len(wire) : wire[i] \in Byte
    <3>1. \A i \in 1..Len(wire) : wire[i] \in Byte
      BY <1>2, ElementOfSeq
    <3>2. \A i \in (n + 1)..Len(wire) : i \in 1..Len(wire)
      BY <1>2
    <3> QED
      BY <3>1, <3>2
  <2>2. /\ wire' \in Seq(Byte)
        /\ Len(wire') = IF n + 1 <= Len(wire) THEN Len(wire) - (n + 1) + 1 ELSE 0
        /\ \A i \in 1..(Len(wire) - (n + 1) + 1) : wire'[i] = wire[(n + 1) + i - 1]
    BY <1>1, <1>2, <2>1, SubSeqProperties
  <2>3. Len(wire') = Len(wire) - n
    BY <1>2, <2>2
  <2>4. ASSUME NEW j \in 1..Len(wire')
        PROVE  wire'[j] = s[e + j]
    <3>1. /\ j \in 1..(Len(wire) - (n + 1) + 1) /\ (n + 1) + j - 1 = n + j /\ n + j \in 1..Len(wire)
          /\ (a + count) + (n + j) = e + j
      BY <1>2, <1>3, <2>3
    <3>2. wire'[j] = wire[n + j]
      BY <2>2, <3>1
    <3>3. wire[n + j] = s[(a + count) + (n + j)]
      BY <1>3, <3>1
    <3> QED
      BY <3>1, <3>2, <3>3
  <2>5. e + Len(wire') = Len(s)
    <3> DEFINE w == Len(wire)
               z == Len(wire')
               l == Len(s)
    <3>1. /\ a \in Nat /\ count \in Nat /\ w \in Nat /\ n \in Nat /\ l \in Nat
          /\ a + count + w = l /\ z = w - n
      BY <1>2, <1>3, <2>3
    <3> HIDE DEF w, z, l
    <3>2. a + count + n + z = l
      BY <3>1
    <3> QED
      BY <3>2 DEF z, l
  <2> HIDE DEF e
  <2> QED
    BY <2>2, <2>3, <2>4, <2>5
<1>5. e \in Nat /\ e = a + count + n
  BY <1>2, <1>3
<1>6. ~ splits /\ Len(wire') > 0 => ~ (s[e] = 23 /\ s[e + 1] = 19)
  <2>1. Len(wire') > 0 => n < Len(wire)
    BY <1>2, <1>4
  <2>2. ASSUME n < Len(wire)
        PROVE  wire[n] = s[e] /\ wire[n + 1] = s[e + 1]
    <3>1. /\ n \in 1..Len(wire) /\ n + 1 \in 1..Len(wire)
          /\ (a + count) + n = e /\ (a + count) + (n + 1) = e + 1
      BY <1>2, <1>3, <2>2
    <3>2. wire[n] = s[(a + count) + n] /\ wire[n + 1] = s[(a + count) + (n + 1)]
      BY <1>3, <3>1
    <3> QED
      BY <3>1, <3>2
  <2> QED
    BY <1>1, <2>1, <2>2
<1> HIDE DEF e
<1>7. CASE Overflows(n)
  <2> DEFINE m == Added(Cleared, 0, n)
             b == a + count
  <2>1. m \in Memory
    BY <1>2, ClearedType, AddedType
  <2>2. n \in 1..BufferLen /\ b \in Nat /\ a <= b /\ b + n = e
    BY <1>0, <1>2, <1>3, <1>5
  <2>3. ASSUME NEW j \in 1..n
        PROVE  m[j] = s[b + j]
    <3>1. /\ j \in Position /\ j \in (0 + 1)..(0 + n) /\ j - 0 = j /\ j \in 1..Len(wire)
      BY <1>0, <1>2 DEF Position
    <3>2. m[j] = wire[j]
      BY <3>1 DEF Added
    <3> QED
      BY <1>3, <3>1, <3>2
  <2>4. ~ (Len(s) - a <= BufferLen)
    BY <1>0, <1>2, <1>3, <1>7 DEF Overflows
  <2>5. Check(m, n)
    BY <1>1, <1>7
  <2> HIDE DEF m, b
  <2>6. Reads(s, a, m, n, b)
    BY <1>1, <1>4, <1>6, <2>1, <2>2, <2>3, <2>4, <2>5 DEF Reads
  <2> QED
    BY <2>6
<1>8. CASE ~ Overflows(n)
  <2> DEFINE m == Added(mem, count, n)
             c == count + n
  <2>1. m \in Memory
    BY <1>2, AddedType
  <2>2. c \in 1..BufferLen /\ a + c = e
    BY <1>0, <1>2, <1>3, <1>5, <1>8 DEF Overflows
  <2>3. ASSUME NEW j \in 1..c
        PROVE  m[j] = s[a + j]
    <3>0. j \in Position /\ j \in Nat
      BY <1>0, <1>2, <2>2 DEF Position
    <3>1. CASE j <= count
      <4>1. j \notin (count + 1)..(count + n) /\ j \in 1..count
        BY <1>2, <3>1
      <4> QED
        BY <1>3, <3>0, <4>1 DEF Added
    <3>2. CASE ~ (j <= count)
      <4>1. /\ j \in (count + 1)..(count + n) /\ j - count \in 1..Len(wire)
            /\ (a + count) + (j - count) = a + j
        BY <1>2, <1>3, <3>2
      <4>2. m[j] = wire[j - count]
        BY <3>0, <4>1 DEF Added
      <4>3. wire[j - count] = s[(a + count) + (j - count)]
        BY <1>3, <4>1
      <4> QED
        BY <4>1, <4>2, <4>3
    <3> QED
      BY <3>1, <3>2
  <2>4. Check(m, c)
    BY <1>1, <1>8
  <2> HIDE DEF m, c
  <2>5. a \in Nat /\ a <= a
    BY <1>3
  <2>6. Reads(s, a, m, c, a)
    BY <1>1, <1>4, <1>6, <2>1, <2>2, <2>3, <2>4, <2>5 DEF Reads
  <2> QED
    BY <2>6
<1> QED
  BY <1>7, <1>8

\* What check leaves follows on.
LEMMA FollowsOn ==
    ASSUME NEW s, NEW a, NEW m, NEW n, NEW b, Reads(s, a, m, n, b), s \in Seq(Byte),
           NEW d \in 0..n, count' = n - d, \A j \in 1..count' : mem'[j] = s[(b + d) + j]
    PROVE  /\ Follows(s, b + d)'
           /\ b + d + count' = b + n /\ count' \in Nat
<1>1. /\ b \in Nat /\ n \in Nat /\ d \in Nat /\ d <= n
      /\ wire' \in Seq(Byte) /\ b + n + Len(wire') = Len(s)
      /\ \A j \in 1..Len(wire') : wire'[j] = s[(b + n) + j]
  BY Sizes DEF Reads
<1>2. b + d + count' = b + n /\ count' \in Nat /\ b + d \in Nat
  BY <1>1
<1>3. \A j \in 1..Len(wire') : wire'[j] = s[((b + d) + count') + j]
  BY <1>1, <1>2
<1>4. (b + d) + count' + Len(wire') = Len(s)
  BY <1>1, <1>2
<1> QED
  BY <1>2, <1>3, <1>4 DEF Follows

\* A frame goes on the wire.
Puts(p, t) == wire' = wire \o Frame(p, t) /\ UNCHANGED <<mem, count>>

LEMMA SendFollows ==
    ASSUME TypeOK, NEW s, NEW a, Follows(s, a), NEW p \in Payloads, NEW t \in Stamps, Puts(p, t)
    PROVE  /\ Follows(s \o Frame(p, t), a)'
           /\ MarkWhole(s, a) => MarkWhole(s \o Frame(p, t), a)'
           /\ Len(s \o Frame(p, t)) - a = count + Len(wire) + Len(p) + Overhead
<1> DEFINE f == Frame(p, t)
           S == s \o f
<1>1. f \in Seq(Byte) /\ Len(f) = FrameLen(p) /\ f[1] = 23
  BY FrameIs
<1>2. /\ wire \in Seq(Byte) /\ Len(wire) \in Nat /\ count \in Nat
      /\ a \in Nat /\ s \in Seq(Byte) /\ Len(s) \in Nat /\ a + count + Len(wire) = Len(s)
      /\ \A j \in 1..count : mem[j] = s[a + j]
      /\ \A j \in 1..Len(wire) : wire[j] = s[(a + count) + j]
  BY LenProperties, Sizes DEF TypeOK, Follows
<1>3. FrameLen(p) \in Nat /\ FrameLen(p) = Len(p) + Overhead /\ FrameLen(p) > 0 /\ Len(p) \in Nat
  <2>1. Len(p) \in Nat
    BY SamAssumption DEF Byte
  <2> QED
    BY <2>1, Sizes DEF FrameLen
<1> HIDE DEF f
<1>4. /\ S \in Seq(Byte) /\ Len(S) = Len(s) + FrameLen(p)
      /\ \A i \in 1..Len(s) : S[i] = s[i]
      /\ \A i \in 1..FrameLen(p) : S[Len(s) + i] = f[i]
  <2>1. /\ S \in Seq(Byte) /\ Len(S) = Len(s) + Len(f)
        /\ \A i \in 1..Len(s) : S[i] = s[i]
        /\ \A i \in 1..Len(f) : S[Len(s) + i] = f[i]
    BY <1>1, <1>2, ConcatAt
  <2> HIDE DEF S
  <2> QED
    BY <1>1, <2>1
<1>5. /\ wire' = wire \o f /\ Len(wire') = Len(wire) + FrameLen(p)
      /\ \A i \in 1..Len(wire) : wire'[i] = wire[i]
      /\ \A i \in 1..FrameLen(p) : wire'[Len(wire) + i] = f[i]
  <2>1. wire' = wire \o f
    BY DEF f, Puts
  <2>2. /\ Len(wire \o f) = Len(wire) + Len(f)
        /\ \A i \in 1..Len(wire) : (wire \o f)[i] = wire[i]
        /\ \A i \in 1..Len(f) : (wire \o f)[Len(wire) + i] = f[i]
    BY <1>1, <1>2, ConcatAt
  <2> QED
    BY <1>1, <2>1, <2>2
<1> HIDE DEF S
<1>6. /\ a \in Nat /\ count \in Nat /\ Len(wire) \in Nat /\ Len(s) \in Nat /\ FrameLen(p) \in Nat
       /\ a + count + Len(wire) = Len(s)
  BY <1>2, <1>3
<1>7. Len(wire') = Len(wire) + FrameLen(p) /\ Len(S) = Len(s) + FrameLen(p)
  BY <1>4, <1>5
<1>8. ASSUME NEW j \in 1..count
      PROVE  mem'[j] = S[a + j]
  <2>1. a + j \in 1..Len(s)
    BY <1>2
  <2>2. mem'[j] = mem[j]
    BY DEF Puts
  <2> QED
    BY <1>2, <1>4, <2>1, <2>2
<1>9. ASSUME NEW j \in 1..Len(wire')
      PROVE  wire'[j] = S[(a + count) + j]
  <2>1. CASE j <= Len(wire)
    <3>1. j \in 1..Len(wire) /\ (a + count) + j \in 1..Len(s)
      BY <1>2, <1>3, <1>5, <2>1
    <3> QED
      BY <1>2, <1>4, <1>5, <3>1
  <2>2. CASE ~ (j <= Len(wire))
    <3>1. PICK i \in 1..FrameLen(p) : j = Len(wire) + i /\ (a + count) + j = Len(s) + i
      <4>1. Len(wire') = Len(wire) + FrameLen(p) /\ Len(wire) \in Nat /\ FrameLen(p) \in Nat
        BY <1>6, <1>7
      <4>2. j - Len(wire) \in 1..FrameLen(p) /\ j = Len(wire) + (j - Len(wire))
        BY <2>2, <4>1
      <4>3. \A i \in 1..FrameLen(p) : (a + count) + (Len(wire) + i) = Len(s) + i
        BY <1>6
      <4>4. (a + count) + (Len(wire) + (j - Len(wire))) = Len(s) + (j - Len(wire))
        BY <4>2, <4>3
      <4> QED
        BY <4>2, <4>4
    <3> QED
      BY <1>4, <1>5, <3>1
  <2> QED
    BY <2>1, <2>2
<1>10. a + count + Len(wire') = Len(S)
  BY <1>6, <1>7
<1>11. Follows(S, a)'
  BY <1>2, <1>4, <1>8, <1>9, <1>10 DEF Follows, Puts
<1>12. ASSUME MarkWhole(s, a), count > 0
       PROVE  ~ (S[a + count] = 23 /\ S[a + count + 1] = 19)
  <2>1. CASE Len(wire) > 0
    <3>1. a + count \in 1..Len(s) /\ a + count + 1 \in 1..Len(s)
      BY <1>2, <1>12, <2>1
    <3> QED
      BY <1>4, <1>12, <2>1, <3>1 DEF MarkWhole
  <2>2. CASE ~ (Len(wire) > 0)
    <3>1. a + count + 1 = Len(s) + 1 /\ 1 \in 1..FrameLen(p)
      BY <1>2, <1>3, <2>2
    <3> QED
      BY <1>1, <1>4, <3>1
  <2> QED
    BY <2>1, <2>2
<1>13. MarkWhole(s, a) => MarkWhole(S, a)'
  BY <1>12 DEF MarkWhole, Puts
<1>14. Len(S) - a = count + Len(wire) + Len(p) + Overhead
  <2>1. Overhead \in Nat
    BY Sizes
  <2>2. FrameLen(p) = Len(p) + Overhead /\ Len(p) \in Nat
    BY <1>3
  <2> QED
    BY <1>6, <1>7, <2>1, <2>2
<1> QED
  BY <1>11, <1>13, <1>14 DEF S, f

(***************************************************************************)
(* A board that does not overflow the buffer, and reads that leave start   *)
(* marks whole: the buffer starts where a frame starts.                    *)
(***************************************************************************)
Aligned(s, start, a) ==
    /\ IsStream(s, start, sent) /\ Follows(s, a)
    /\ Len(handled) <= Len(sent) /\ \A i \in 1..Len(handled) : handled[i] = sent[i]
    /\ a = start[Len(handled) + 1] /\ Len(s) - a <= BufferLen /\ MarkWhole(s, a)

AlignedInv == TypeOK /\ (paced /\ ~splits => \E s, start, a : Aligned(s, start, a))

LEMMA AlignedCheck ==
    ASSUME TypeOK, ~splits, NEW s, NEW start, NEW a, Aligned(s, start, a), UartRead \/ WorkCycle
    PROVE  \E b : Aligned(s, start, b)'
<1>0. /\ Len(handled) \in Nat /\ handled \in Seq(Seq(Byte)) /\ Len(sent) \in Nat
      /\ Overhead \in Nat /\ Overhead >= 5 /\ BufferLen \in Nat
  BY LenProperties, Sizes DEF TypeOK
<1>1. /\ IsStream(s, start, sent) /\ Follows(s, a) /\ Len(handled) <= Len(sent)
      /\ \A i \in 1..Len(handled) : handled[i] = sent[i]
      /\ a = start[Len(handled) + 1] /\ Len(s) - a <= BufferLen /\ MarkWhole(s, a)
      /\ a \in Nat /\ s \in Seq(Byte)
  BY DEF Aligned, Follows
<1>2. PICK m, n, b : Reads(s, a, m, n, b)
  BY <1>1, UartReads, WorkCycleReads
<1>3. /\ m \in Memory /\ n \in 1..BufferLen /\ b = a /\ Check(m, n)
      /\ \A j \in 1..n : m[j] = s[a + j]
      /\ Len(wire') \in Nat /\ a + n + Len(wire') = Len(s)
      /\ Len(wire') > 0 => ~ (s[a + n] = 23 /\ s[a + n + 1] = 19)
      /\ UNCHANGED sent
  BY <1>1, <1>2, LenProperties DEF Reads
<1> DEFINE q == Len(handled) + 1
<1>4. q \in 1..Len(sent)
  <2>1. start[Len(sent) + 1] = Len(s)
    BY <1>1 DEF IsStream
  <2>2. a # Len(s)
    BY <1>0, <1>1, <1>3
  <2> QED
    BY <1>0, <1>1, <2>1, <2>2
<1>5. /\ start[q + 1] = a + Len(sent[q]) + Overhead /\ start[q + 1] <= Len(s)
      /\ start[q + 1] \in Nat /\ Len(s) \in Nat /\ Len(sent[q]) \in Byte
      /\ s[a + 1] = 23 /\ s[a + 2] = 19 /\ s[a + 3] = Len(sent[q])
      /\ \A i \in 1..Len(sent[q]) : s[a + (3 + i)] = sent[q][i]
      /\ s[start[q + 1] - 1] = 23 /\ s[start[q + 1]] = 5
      /\ sent[q] \in Payloads
  <2>1. IsStream(s, start, sent) /\ start[q] = a
    BY <1>1
  <2> HIDE DEF q
  <2>2. /\ start[q + 1] = start[q] + Len(sent[q]) + Overhead /\ start[q + 1] <= Len(s)
        /\ start[q + 1] \in Nat /\ Len(s) \in Nat /\ Len(sent[q]) \in Byte /\ sent[q] \in Payloads
    BY <1>4, <2>1, InStream
  <2>3. s[start[q] + 1] = 23 /\ s[start[q] + 2] = 19 /\ s[start[q] + 3] = Len(sent[q])
    BY SMTT(20), <1>4, <2>1, InStream
  <2>4. s[start[q + 1] - 1] = 23 /\ s[start[q + 1]] = 5
    BY <1>4, <2>1, InStream
  <2>5. \A i \in 1..Len(sent[q]) : s[start[q] + (3 + i)] = sent[q][i]
    BY SMTT(20), <1>4, <2>1, InStream
  <2> QED
    BY <2>1, <2>2, <2>3, <2>4, <2>5
<1>6. q = Len(handled) + 1 /\ n \in Nat /\ n >= 1 /\ n <= BufferLen /\ Len(sent[q]) \in Nat
  BY <1>0, <1>3, <1>5 DEF Byte
<1> HIDE DEF q
<1>7. /\ a \in Nat /\ n \in Nat /\ n >= 1 /\ Len(wire') \in Nat /\ Len(s) \in Nat /\ BufferLen \in Nat
       /\ Overhead \in Nat /\ Overhead >= 5 /\ Len(sent[q]) \in Nat
       /\ a + n + Len(wire') = Len(s) /\ Len(s) - a <= BufferLen
       /\ start[q + 1] = a + Len(sent[q]) + Overhead /\ start[q + 1] <= Len(s)
  BY <1>0, <1>1, <1>3, <1>5, <1>6
<1>8. n >= 2
  <2> SUFFICES ASSUME n = 1 PROVE FALSE
    BY <1>6
  <2>1. Len(wire') > 0 /\ a + n = a + 1 /\ a + n + 1 = a + 2
    BY <1>7
  <2> QED
    BY <1>3, <1>5, <2>1
<1>9. PICK k \in 0..n :
         /\ Garbage(m, n, k)
         /\ Stays(n - k, s, a + k) \/ Handles(n - k, s, a + k) \/ Skips(n - k, s, a + k)
  BY <1>1, <1>3, CheckDoes
<1>10. k = 0
  <2>1. 1 \in 1..n /\ 2 \in 1..n /\ 1 \in Position /\ 2 \in Position
    BY <1>0, <1>6, <1>8 DEF Position
  <2>2. m[1] = 23 /\ m[2] = 19
    BY <1>3, <1>5, <2>1
  <2>3. StartsAt(m, 0)
    BY <2>1, <2>2 DEF StartsAt, At
  <2>4. LoopEnds(m, n, 0) /\ 0 \in 0..n
    BY <1>6, <2>3 DEF LoopEnds
  <2>5. ~ (0 < k)
    BY <1>9, <2>4 DEF Garbage
  <2> QED
    BY <1>6, <2>5
<1>11. n - k = n /\ a + k = a
  BY <1>1, <1>6, <1>10
<1>12. ASSUME NEW d \in 0..n, count' = n - d, \A j \in 1..count' : mem'[j] = s[(a + d) + j]
       PROVE  /\ Follows(s, a + d)' /\ MarkWhole(s, a + d)' /\ Len(s) - (a + d) <= BufferLen
              /\ IsStream(s, start, sent)'
  <2>1. Follows(s, a + d)' /\ a + d + count' = a + n
    <3>1. Reads(s, a, m, n, a) /\ s \in Seq(Byte)
      BY <1>1, <1>2, <1>3
    <3> QED
      BY <1>12, <3>1, FollowsOn
  <2>2. MarkWhole(s, a + d)'
    BY <1>3, <2>1 DEF MarkWhole
  <2>3. Len(s) - (a + d) <= BufferLen
    BY <1>7
  <2>4. IsStream(s, start, sent)'
    BY <1>1, <1>3 DEF IsStream
  <2> QED
    BY <2>1, <2>2, <2>3, <2>4
<1>13. CASE Stays(n, s, a)
  <2>1. 0 \in 0..n /\ count' = n - 0 /\ a + 0 = a /\ handled' = handled
        /\ \A j \in 1..count' : mem'[j] = s[(a + 0) + j]
    BY <1>1, <1>6, <1>13 DEF Stays
  <2>2. Follows(s, a)' /\ MarkWhole(s, a)' /\ IsStream(s, start, sent)'
    BY <1>12, <2>1
  <2>3. Aligned(s, start, a)'
    BY <1>1, <1>3, <2>1, <2>2 DEF Aligned
  <2> QED
    BY <2>3
<1>14. CASE Handles(n, s, a)
  <2>1. PICK l \in Byte :
        /\ l + Overhead <= n /\ s[a + 3] = l
        /\ count' = n - (l + Overhead)
        /\ \A j \in 1..count' : mem'[j] = s[(a + (l + Overhead)) + j]
        /\ handled' = Append(handled, [i \in 1..l |-> s[a + (3 + i)]])
    BY <1>14 DEF Handles
  <2> DEFINE d == l + Overhead
  <2>2. l = Len(sent[q]) /\ l \in Nat /\ d \in 0..n /\ a + d = start[q + 1]
    <3>1. l = Len(sent[q]) /\ l + Overhead <= n
      BY <1>5, <2>1
    <3> QED
      BY <1>7, <3>1
  <2>3. [i \in 1..l |-> s[a + (3 + i)]] = sent[q]
    <3>1. sent[q] \in Seq(Byte)
      BY <1>5, SamAssumption
    <3>2. sent[q] = [i \in 1..Len(sent[q]) |-> sent[q][i]]
      BY <3>1, LenProperties
    <3>3. \A i \in 1..l : s[a + (3 + i)] = sent[q][i]
      BY <1>5, <2>2
    <3> QED
      BY <2>2, <3>2, <3>3
  <2>4. /\ Len(handled') = q /\ handled'[q] = sent[q]
        /\ \A i \in 1..Len(handled) : handled'[i] = handled[i]
    <3>1. sent[q] \in Seq(Byte) /\ handled' = Append(handled, sent[q])
      BY <1>5, <2>1, <2>3, SamAssumption
    <3> QED
      BY <1>0, <1>6, <3>1, AppendProperties
  <2>5. \A i \in 1..Len(handled') : handled'[i] = sent'[i]
    <3> SUFFICES ASSUME NEW i \in 1..q PROVE handled'[i] = sent[i]
      BY <1>3, <2>4
    <3>1. i \in 1..Len(handled) \/ i = q
      BY <1>0, <1>6
    <3> QED
      BY <1>1, <2>4, <3>1
  <2>6. Len(handled') <= Len(sent') /\ a + d = start[Len(handled') + 1]
    BY <1>0, <1>3, <1>4, <2>2, <2>4
  <2> HIDE DEF d
  <2>7. count' = n - d /\ \A j \in 1..count' : mem'[j] = s[(a + d) + j]
    BY <2>1 DEF d
  <2>8. /\ Follows(s, a + d)' /\ MarkWhole(s, a + d)' /\ Len(s) - (a + d) <= BufferLen
        /\ IsStream(s, start, sent)'
    BY <1>12, <2>2, <2>7
  <2>9. Aligned(s, start, a + d)'
    BY <2>5, <2>6, <2>8 DEF Aligned
  <2> QED
    BY <2>9
<1>15. CASE Skips(n, s, a)
  <2>1. PICK l \in Byte :
        /\ l + Overhead <= n /\ s[a + 3] = l
        /\ ~ (s[a + (l + Overhead - 1)] = 23 /\ s[a + (l + Overhead)] = 5)
    BY <1>15 DEF Skips
  <2>2. /\ l = Len(sent[q]) /\ a + (l + Overhead) = start[q + 1]
        /\ a + (l + Overhead - 1) = start[q + 1] - 1
    <3>1. l = Len(sent[q])
      BY <1>5, <2>1
    <3> QED
      BY <1>7, <3>1
  <2> QED
    BY <1>5, <2>1, <2>2
<1> QED
  BY <1>9, <1>11, <1>13, <1>14, <1>15

\* Nothing waits when the line is quiet: the sync counter has nothing to clear.
LEMMA AlignedSync ==
    ASSUME TypeOK, NEW s, NEW start, NEW a, Aligned(s, start, a), SyncPeriod
    PROVE  Aligned(s, start, a)'
<1>0. /\ Len(handled) \in Nat /\ Len(sent) \in Nat /\ count \in Nat /\ Overhead \in Nat
      /\ mem \in Memory
  BY LenProperties, Sizes DEF TypeOK, Memory
<1>1. /\ IsStream(s, start, sent) /\ Follows(s, a) /\ a = start[Len(handled) + 1]
      /\ Len(handled) <= Len(sent) /\ a \in Nat /\ s \in Seq(Byte) /\ a + count + Len(wire) = Len(s)
      /\ \A j \in 1..count : mem[j] = s[a + j]
  BY DEF Aligned, Follows
<1>2. /\ wire = <<>> /\ UNCHANGED <<wire, sent, handled, paced, splits>>
      /\ count > 0 => StartsAt(mem, 0) /\ mem[3] + Overhead > count
      /\ (count' = 0 \/ UNCHANGED <<mem, count>>)
  BY DEF SyncPeriod, Settled
<1>3. Len(wire) = 0
  BY <1>2, EmptySeq
<1>4. count = 0
  <2> SUFFICES ASSUME count > 0 PROVE FALSE
    BY <1>0
  <2> DEFINE q == Len(handled) + 1
  <2>1. q \in 1..Len(sent)
    <3>1. start[Len(sent) + 1] = Len(s)
      BY <1>1 DEF IsStream
    <3>2. a # Len(s)
      BY <1>0, <1>1, <1>3
    <3> QED
      BY SMTT(20), <1>0, <1>1, <3>1, <3>2
  <2>2. /\ start[q + 1] = a + Len(sent[q]) + Overhead /\ start[q + 1] <= Len(s)
        /\ Len(sent[q]) \in Nat /\ s[a + 3] = Len(sent[q]) /\ Len(s) \in Nat
    <3>1. IsStream(s, start, sent) /\ start[q] = a
      BY <1>1
    <3> HIDE DEF q
    <3>2. /\ start[q + 1] = a + Len(sent[q]) + Overhead /\ start[q + 1] <= Len(s)
          /\ Len(sent[q]) \in Byte /\ s[a + 3] = Len(sent[q]) /\ Len(s) \in Nat
      BY <2>1, <3>1, InStream
    <3> QED
      BY <3>2 DEF Byte
  <2>3. 3 \in 1..count /\ Len(sent[q]) + Overhead <= count
    <3>1. /\ a \in Nat /\ count \in Nat /\ Overhead \in Nat /\ Overhead >= 5 /\ a + count + 0 = Len(s)
      BY <1>0, <1>1, <1>3, Sizes
    <3> HIDE DEF q
    <3> QED
      BY <2>2, <3>1
  <2>4. mem[3] = Len(sent[q])
    BY <1>1, <2>2, <2>3
  <2> QED
    BY <1>0, <1>2, <2>2, <2>3, <2>4
<1>5. count' = 0
  BY <1>2, <1>4
<1>6. Follows(s, a)' /\ MarkWhole(s, a)'
  BY <1>1, <1>2, <1>4, <1>5 DEF Follows, MarkWhole
<1> QED
  BY <1>1, <1>2, <1>6 DEF Aligned, IsStream

LEMMA AlignedSend ==
    ASSUME TypeOK, paced, NEW s, NEW start, NEW a, Aligned(s, start, a), SamSends
    PROVE  \E s1, start1 : Aligned(s1, start1, a)'
<1>0. Len(handled) \in Nat /\ Len(sent) \in Nat /\ sent \in Seq(Payloads)
  BY LenProperties DEF TypeOK
<1>1. PICK p \in Payloads, t \in Stamps :
        /\ count + Len(wire) + Len(p) + Overhead <= BufferLen
        /\ wire' = wire \o Frame(p, t) /\ sent' = Append(sent, p)
        /\ UNCHANGED <<mem, count, syncCount, handled, paced, splits>>
  BY DEF SamSends
<1>2. /\ IsStream(s, start, sent) /\ Follows(s, a) /\ MarkWhole(s, a) /\ Len(handled) <= Len(sent)
      /\ \A i \in 1..Len(handled) : handled[i] = sent[i]
      /\ a = start[Len(handled) + 1]
  BY DEF Aligned
<1> DEFINE S == s \o Frame(p, t)
<1>3. PICK more : IsStream(S, more, sent') /\ \A i \in 1..(Len(sent) + 1) : more[i] = start[i]
  <2> DEFINE M == [i \in 1..(Len(sent) + 2) |-> IF i <= Len(sent) + 1 THEN start[i]
                                                ELSE Len(s) + FrameLen(p)]
  <2>1. IsStream(S, M, sent')
    BY <1>1, <1>2, StreamGrows
  <2>2. ASSUME NEW i \in 1..(Len(sent) + 1) PROVE M[i] = start[i]
    <3>1. i \in 1..(Len(sent) + 2) /\ i <= Len(sent) + 1
      BY <1>0
    <3> QED
      BY <3>1
  <2> HIDE DEF M
  <2> QED
    BY <2>1, <2>2
<1>4. Follows(S, a)' /\ MarkWhole(S, a)' /\ Len(S) - a <= BufferLen
  BY <1>1, <1>2, SendFollows DEF Puts
<1>5. more[Len(handled) + 1] = a
  <2>1. Len(handled) + 1 \in 1..(Len(sent) + 1)
    BY <1>0, <1>2
  <2> QED
    BY <1>2, <1>3, <2>1
<1>6. Len(sent') = Len(sent) + 1 /\ \A i \in 1..Len(sent) : sent'[i] = sent[i]
  BY <1>0, <1>1, AppendProperties
<1>7. Len(handled') <= Len(sent') /\ \A i \in 1..Len(handled') : handled'[i] = sent'[i]
  BY <1>0, <1>1, <1>2, <1>6
<1>8. a = more[Len(handled') + 1]
  BY <1>1, <1>5
<1> HIDE DEF S
<1>9. IsStream(S, more, sent)'
  BY <1>3 DEF IsStream
<1>10. Aligned(S, more, a)'
  BY <1>4, <1>7, <1>8, <1>9 DEF Aligned
<1> QED
  BY <1>10

LEMMA AlignedStep == AlignedInv /\ [Next]_vars => AlignedInv'
<1> SUFFICES ASSUME AlignedInv, [Next]_vars PROVE AlignedInv'
  OBVIOUS
<1>1. TypeOK /\ TypeOK' /\ UNCHANGED <<paced, splits>>
  BY TypeStep DEF AlignedInv, Next, UartRead, WorkCycle, SyncPeriod, SamSends, vars
<1> SUFFICES ASSUME paced, ~ splits
             PROVE  \E s, start, a : Aligned(s, start, a)'
  BY <1>1 DEF AlignedInv
<1>2. PICK s, start, a : Aligned(s, start, a)
  BY DEF AlignedInv
<1>3. CASE UartRead \/ WorkCycle
  BY <1>1, <1>2, <1>3, AlignedCheck
<1>4. CASE SyncPeriod
  BY <1>1, <1>2, <1>4, AlignedSync
<1>5. CASE SamSends
  BY <1>1, <1>2, <1>5, AlignedSend
<1>6. CASE UNCHANGED vars
  <2>1. Aligned(s, start, a)'
    BY <1>2, <1>6 DEF vars, Aligned, IsStream, Follows, MarkWhole
  <2> QED
    BY <2>1
<1> QED
  BY <1>3, <1>4, <1>5, <1>6 DEF Next

LEMMA NothingYet == Init => \E s, start : IsStream(s, start, sent) /\ Follows(s, 0) /\ start[1] = 0
                                         /\ s = <<>>
<1> SUFFICES ASSUME Init
             PROVE  \E s, start : IsStream(s, start, sent) /\ Follows(s, 0) /\ start[1] = 0 /\ s = <<>>
  OBVIOUS
<1>1. Follows(<<>>, 0)
  BY EmptySeq DEF Init, Follows
<1>2. IsStream(<<>>, [i \in 1..1 |-> 0], sent)
  BY NoStream DEF Init
<1> QED
  BY <1>1, <1>2

LEMMA AlignedInit == Init => AlignedInv
<1> SUFFICES ASSUME Init PROVE AlignedInv
  OBVIOUS
<1>1. PICK s, start : IsStream(s, start, sent) /\ Follows(s, 0) /\ start[1] = 0 /\ s = <<>>
  BY NothingYet
<1>2. Len(handled) = 0 /\ Len(sent) = 0 /\ Len(s) = 0 /\ count = 0
  BY <1>1, EmptySeq DEF Init
<1>3. Aligned(s, start, 0)
  BY <1>1, <1>2, Sizes DEF Aligned, MarkWhole
<1> QED
  BY <1>3, TypeInit DEF AlignedInv

\* With reads that leave start marks whole and a board that does not send more than
\* the buffer holds, no frame is skipped, doubled or changed, whatever the payloads.
THEOREM SamSkipsNothing == Spec => []NothingSkipped
<1>1. ASSUME AlignedInv
      PROVE  NothingSkipped
  <2> SUFFICES ASSUME paced, ~ splits
               PROVE  Len(handled) <= Len(sent) /\ handled = SubSeq(sent, 1, Len(handled))
    BY DEF NothingSkipped
  <2>1. PICK s, start, a : Aligned(s, start, a)
    BY <1>1 DEF AlignedInv
  <2>2. /\ handled \in Seq(Seq(Byte)) /\ sent \in Seq(Seq(Byte))
        /\ Len(handled) \in Nat /\ Len(sent) \in Nat
    <3>1. handled \in Seq(Seq(Byte)) /\ sent \in Seq(Payloads) /\ Payloads \subseteq Seq(Byte)
      BY <1>1, SamAssumption DEF AlignedInv, TypeOK
    <3>2. sent \in Seq(Seq(Byte))
      <4>1. \A i \in 1..Len(sent) : sent[i] \in Seq(Byte)
        BY <3>1, ElementOfSeq
      <4>2. sent \in [1..Len(sent) -> Seq(Byte)] /\ Len(sent) \in Nat
        <5>1. sent \in [1..Len(sent) -> Payloads] /\ Len(sent) \in Nat
          BY <3>1, LenProperties
        <5> QED
          BY <4>1, <5>1
      <4>3. Seq(Seq(Byte)) = UNION {[1..l -> Seq(Byte)] : l \in Nat}
        BY SeqDef, Zenon
      <4> QED
        BY <4>2, <4>3, Zenon
    <3> QED
      BY <3>1, <3>2, LenProperties
  <2>3. Len(handled) <= Len(sent) /\ \A i \in 1..Len(handled) : handled[i] = sent[i]
    BY <2>1 DEF Aligned
  <2> DEFINE first == SubSeq(sent, 1, Len(handled))
  <2>4. first \in Seq(Seq(Byte)) /\ Len(first) = Len(handled)
        /\ \A i \in 1..Len(handled) : first[i] = sent[i]
    <3>1. \A i \in 1..Len(handled) : sent[i] \in Seq(Byte)
      <4>1. \A i \in 1..Len(sent) : sent[i] \in Seq(Byte)
        BY <2>2, ElementOfSeq
      <4>2. \A i \in 1..Len(handled) : i \in 1..Len(sent)
        BY <2>2, <2>3
      <4> QED
        BY <4>1, <4>2
    <3>2. /\ first \in Seq(Seq(Byte))
          /\ Len(first) = IF 1 <= Len(handled) THEN Len(handled) - 1 + 1 ELSE 0
          /\ \A i \in 1..(Len(handled) - 1 + 1) : first[i] = sent[1 + i - 1]
      BY <2>2, <3>1, SubSeqProperties
    <3> HIDE DEF first
    <3>3. Len(first) = Len(handled)
      BY <2>2, <3>2
    <3>4. ASSUME NEW i \in 1..Len(handled) PROVE first[i] = sent[i]
      <4>1. i \in 1..(Len(handled) - 1 + 1) /\ 1 + i - 1 = i
        BY <2>2
      <4> QED
        BY <3>2, <4>1
    <3> QED
      BY <3>2, <3>3, <3>4
  <2> HIDE DEF first
  <2>5. handled = first
    BY <2>2, <2>3, <2>4, SeqEqual
  <2> QED
    BY <2>3, <2>5 DEF first
<1> QED
  BY AlignedInit, AlignedStep, <1>1, PTL DEF Spec

(***************************************************************************)
(* Any board and any reads: buffers that overflow, marks that are cut, a   *)
(* start after a reboot.  What check takes for a frame is one, if payloads *)
(* and stamps cannot be mistaken for frames.                               *)
(***************************************************************************)
\* Whatever the board sends, only a frame looks like one.
Unmistakable ==
    \A s \in Seq(Byte), ps \in Seq(Payloads) : \A start \in [1..(Len(ps) + 1) -> Nat] :
        IsStream(s, start, ps) =>
            \A i \in Nat : LooksLikeFrame(s, i) => \E k \in 1..Len(ps) : start[k] = i

\* The f[i]-th frame was handled i-th, and is gone from the buffer.
InTurn(s, start, a, f) ==
    /\ IsStream(s, start, sent) /\ Follows(s, a)
    /\ f \in [1..Len(handled) -> 1..Len(sent)]
    /\ \A i \in 1..Len(handled) : handled[i] = sent[f[i]] /\ start[f[i] + 1] <= a
    /\ \A i, j \in 1..Len(handled) : i < j => f[i] < f[j]

InTurnInv == TypeOK /\ \E s, start, a, f : InTurn(s, start, a, f)

\* Bytes go, and none is handled.
LEMMA InTurnDrops ==
    ASSUME TypeOK, NEW s, NEW start, NEW a, NEW f, InTurn(s, start, a, f),
           NEW b \in Nat, a <= b, Follows(s, b)', UNCHANGED <<handled, sent>>
    PROVE  InTurn(s, start, b, f)'
<1>1. a \in Nat /\ \A i \in 1..Len(handled) : start[f[i] + 1] \in Nat
  <2>1. IsStream(s, start, sent) /\ a \in Nat
    BY DEF InTurn, Follows
  <2>2. ASSUME NEW i \in 1..Len(handled) PROVE start[f[i] + 1] \in Nat
    <3>1. f[i] \in 1..Len(sent)
      BY DEF InTurn
    <3> QED
      BY <2>1, <3>1, InStream
  <2> QED
    BY <2>1, <2>2
<1>2. ASSUME NEW i \in 1..Len(handled)
      PROVE  handled[i] = sent[f[i]] /\ start[f[i] + 1] <= b
  BY <1>1 DEF InTurn
<1> QED
  BY <1>2 DEF InTurn, IsStream

LEMMA InTurnHandles ==
    ASSUME TypeOK, Unmistakable, NEW s, NEW start, NEW a, NEW f, InTurn(s, start, a, f),
           NEW n \in 0..BufferLen, NEW c \in Nat, a <= c, c + n <= Len(s), Handles(n, s, c),
           UNCHANGED sent
    PROVE  \E d \in 0..n : \E f1 :
              /\ count' = n - d /\ \A j \in 1..count' : mem'[j] = s[(c + d) + j]
              /\ Follows(s, c + d)' => InTurn(s, start, c + d, f1)'
<1>0. /\ Len(handled) \in Nat /\ handled \in Seq(Seq(Byte)) /\ Len(sent) \in Nat
      /\ sent \in Seq(Payloads) /\ Overhead \in Nat /\ Overhead >= 5 /\ BufferLen \in Nat
      /\ n \in Nat /\ n <= BufferLen
  BY LenProperties, Sizes DEF TypeOK
<1>1. /\ IsStream(s, start, sent) /\ a \in Nat /\ s \in Seq(Byte) /\ Len(s) \in Nat
      /\ start \in [1..(Len(sent) + 1) -> Nat]
      /\ f \in [1..Len(handled) -> 1..Len(sent)]
      /\ \A i \in 1..Len(handled) : handled[i] = sent[f[i]] /\ start[f[i] + 1] <= a
      /\ \A i, j \in 1..Len(handled) : i < j => f[i] < f[j]
  BY LenProperties DEF InTurn, Follows, IsStream
<1>2. PICK l \in Byte :
        /\ l + Overhead <= n /\ s[c + 1] = 23 /\ s[c + 2] = 19 /\ s[c + 3] = l
        /\ s[c + (l + Overhead - 1)] = 23 /\ s[c + (l + Overhead)] = 5
        /\ count' = n - (l + Overhead)
        /\ \A j \in 1..count' : mem'[j] = s[(c + (l + Overhead)) + j]
        /\ handled' = Append(handled, [i \in 1..l |-> s[c + (3 + i)]])
  BY DEF Handles
<1>3. l \in Nat /\ l + Overhead \in 0..n /\ c + Overhead <= Len(s)
      /\ c + (l + Overhead) <= Len(s) /\ l + Overhead <= BufferLen
      /\ c + (l + Overhead) - 1 = c + (l + Overhead - 1)
  <2>1. l \in Nat /\ l + Overhead <= n
    BY <1>2 DEF Byte
  <2>2. Len(s) \in Nat /\ c \in Nat /\ c + n <= Len(s)
    BY <1>1
  <2>3. Overhead \in Nat /\ BufferLen \in Nat /\ n \in Nat /\ n <= BufferLen
    BY <1>0
  <2> QED
    BY <2>1, <2>2, <2>3
<1>4. LooksLikeFrame(s, c)
  BY <1>2, <1>3 DEF LooksLikeFrame
<1>5. PICK q \in 1..Len(sent) : start[q] = c
  BY <1>0, <1>1, <1>4 DEF Unmistakable
<1>6. /\ start[q + 1] = c + Len(sent[q]) + Overhead /\ start[q + 1] \in Nat
      /\ sent[q] \in Payloads /\ Len(sent[q]) \in Nat
      /\ s[c + 3] = Len(sent[q])
  <2>0. IsStream(s, start, sent)
    BY <1>1
  <2>1. /\ start[q + 1] = start[q] + Len(sent[q]) + Overhead /\ start[q + 1] \in Nat
        /\ sent[q] \in Payloads /\ Len(sent[q]) \in Byte
        /\ s[start[q] + 3] = Len(sent[q])
    BY <2>0, InStream
  <2> QED
    BY <1>5, <2>1 DEF Byte
<1>7. \A i \in 1..Len(sent[q]) : s[c + (3 + i)] = sent[q][i]
  <2>0. IsStream(s, start, sent)
    BY <1>1
  <2>1. \A i \in 1..Len(sent[q]) : s[start[q] + (3 + i)] = sent[q][i]
    BY <2>0, InStream
  <2> QED
    BY <1>5, <2>1
<1>8. l = Len(sent[q]) /\ c + (l + Overhead) = start[q + 1]
  BY <1>0, <1>2, <1>6
<1>9. [i \in 1..l |-> s[c + (3 + i)]] = sent[q] /\ sent[q] \in Seq(Byte)
  <2>1. sent[q] \in Seq(Byte)
    BY <1>6, SamAssumption
  <2>2. sent[q] = [i \in 1..Len(sent[q]) |-> sent[q][i]]
    BY <2>1, LenProperties
  <2> QED
    BY <1>7, <1>8, <2>1, <2>2
<1>10. /\ Len(handled') = Len(handled) + 1 /\ handled'[Len(handled) + 1] = sent[q]
       /\ \A i \in 1..Len(handled) : handled'[i] = handled[i]
  BY <1>0, <1>2, <1>9, AppendProperties
\* Frames that were handled end before this one starts.
<1>11. \A i \in 1..Len(handled) : f[i] < q /\ start[f[i] + 1] <= start[q + 1]
  <2> SUFFICES ASSUME NEW i \in 1..Len(handled)
               PROVE  f[i] < q /\ start[f[i] + 1] <= start[q + 1]
    OBVIOUS
  <2>1. f[i] \in 1..Len(sent) /\ start[f[i] + 1] <= a
    BY <1>1
  <2>2. f[i] + 1 \in 1..(Len(sent) + 1) /\ q \in 1..(Len(sent) + 1) /\ start[f[i] + 1] \in Nat
    BY <1>0, <1>1, <2>1
  <2>3. start[f[i] + 1] <= c
    BY <1>1, <2>1, <2>2
  <2>4. ~ (q < f[i] + 1)
    <3>1. q < f[i] + 1 => start[q] < start[f[i] + 1]
      BY <1>1, <2>2 DEF IsStream
    <3> QED
      BY <1>5, <2>2, <2>3, <3>1
  <2>5. f[i] < q
    BY <1>0, <2>1, <2>4
  <2>6. c <= start[q + 1]
    BY <1>0, <1>6
  <2> QED
    BY <2>2, <2>3, <2>5, <2>6, <1>6
<1>12. PICK h : h = [i \in 1..(Len(handled) + 1) |-> IF i <= Len(handled) THEN f[i] ELSE q]
  OBVIOUS
<1>13. /\ h \in [1..(Len(handled) + 1) -> 1..Len(sent)] /\ h[Len(handled) + 1] = q
       /\ \A i \in 1..Len(handled) : h[i] = f[i]
  <2>1. ~ (Len(handled) + 1 <= Len(handled)) /\ Len(handled) + 1 \in 1..(Len(handled) + 1)
    BY <1>0
  <2>2. ASSUME NEW i \in 1..Len(handled) PROVE i \in 1..(Len(handled) + 1) /\ i <= Len(handled)
    BY <1>0
  <2>3. ASSUME NEW i \in 1..(Len(handled) + 1)
        PROVE  (IF i <= Len(handled) THEN f[i] ELSE q) \in 1..Len(sent)
    <3>1. i <= Len(handled) => i \in 1..Len(handled)
      BY <1>0
    <3> QED
      BY <1>1, <3>1
  <2> QED
    BY <1>12, <2>1, <2>2, <2>3
<1>14. ASSUME NEW i \in 1..(Len(handled) + 1)
       PROVE  handled'[i] = sent[h[i]] /\ start[h[i] + 1] <= start[q + 1]
  <2>1. CASE i \in 1..Len(handled)
    BY <1>1, <1>10, <1>11, <1>13, <2>1
  <2>2. CASE i = Len(handled) + 1
    BY <1>6, <1>10, <1>13, <2>2
  <2> QED
    BY <1>0, <2>1, <2>2
<1>15. ASSUME NEW i \in 1..(Len(handled) + 1), NEW j \in 1..(Len(handled) + 1), i < j
       PROVE  h[i] < h[j]
  <2>1. i \in 1..Len(handled)
    BY <1>0, <1>15
  <2>2. CASE j \in 1..Len(handled)
    BY <1>1, <1>13, <1>15, <2>1, <2>2
  <2>3. CASE j = Len(handled) + 1
    BY <1>11, <1>13, <2>1, <2>3
  <2> QED
    BY <1>0, <2>2, <2>3
<1>16. ASSUME Follows(s, start[q + 1])'
       PROVE  InTurn(s, start, start[q + 1], h)'
  <2>1. IsStream(s, start, sent') /\ sent' = sent
    BY <1>1
  <2> QED
    BY <1>10, <1>13, <1>14, <1>15, <1>16, <2>1 DEF InTurn, IsStream
<1>17. /\ count' = n - (l + Overhead)
       /\ \A j \in 1..count' : mem'[j] = s[(c + (l + Overhead)) + j]
       /\ Follows(s, c + (l + Overhead))' => InTurn(s, start, c + (l + Overhead), h)'
  BY <1>2, <1>8, <1>16
<1> QED
  BY <1>3, <1>17

LEMMA InTurnCheck ==
    ASSUME TypeOK, Unmistakable, NEW s, NEW start, NEW a, NEW f, InTurn(s, start, a, f),
           UartRead \/ WorkCycle
    PROVE  \E b, f1 : InTurn(s, start, b, f1)'
<1>1. Follows(s, a) /\ s \in Seq(Byte) /\ a \in Nat
  BY DEF InTurn, Follows
<1>2. PICK m, n, b : Reads(s, a, m, n, b)
  BY <1>1, UartReads, WorkCycleReads
<1>3. /\ m \in Memory /\ n \in 1..BufferLen /\ b \in Nat /\ a <= b /\ Check(m, n)
      /\ \A j \in 1..n : m[j] = s[b + j]
      /\ Len(wire') \in Nat /\ b + n + Len(wire') = Len(s) /\ UNCHANGED sent
  BY <1>2, LenProperties DEF Reads
<1>4. PICK k \in 0..n :
         Stays(n - k, s, b + k) \/ Handles(n - k, s, b + k) \/ Skips(n - k, s, b + k)
  BY <1>3, CheckDoes
<1>5. /\ n \in Nat /\ k \in Nat /\ k <= n /\ n - k \in 0..BufferLen /\ b + k \in Nat /\ a <= b + k
      /\ (b + k) + (n - k) <= Len(s) /\ Len(s) \in Nat
  BY <1>1, <1>3, LenProperties, Sizes
<1>6. ASSUME NEW d \in 0..(n - k), count' = (n - k) - d,
             \A j \in 1..count' : mem'[j] = s[((b + k) + d) + j]
      PROVE  Follows(s, (b + k) + d)' /\ (b + k) + d \in Nat /\ a <= (b + k) + d
  <2>1. /\ k + d \in 0..n /\ count' = n - (k + d) /\ b + (k + d) = (b + k) + d
        /\ (b + k) + d \in Nat /\ a <= (b + k) + d
    BY <1>1, <1>3, <1>5, <1>6
  <2>2. \A j \in 1..count' : mem'[j] = s[(b + (k + d)) + j]
    BY <1>6, <2>1
  <2>3. Follows(s, b + (k + d))'
    BY <1>1, <1>2, <2>1, <2>2, FollowsOn
  <2> QED
    BY <2>1, <2>3
<1>7. CASE Stays(n - k, s, b + k)
  <2>1. 0 \in 0..(n - k) /\ (n - k) - 0 = n - k /\ (b + k) + 0 = b + k
    BY <1>5
  <2>2. Follows(s, b + k)' /\ handled' = handled
    BY <1>6, <1>7, <2>1 DEF Stays
  <2>3. InTurn(s, start, b + k, f)'
    BY <1>3, <1>5, <2>2, InTurnDrops
  <2> QED
    BY <2>3
<1>8. CASE Handles(n - k, s, b + k)
  <2>1. \E d \in 0..(n - k) : \E f1 :
              /\ count' = (n - k) - d /\ \A j \in 1..count' : mem'[j] = s[((b + k) + d) + j]
              /\ Follows(s, (b + k) + d)' => InTurn(s, start, (b + k) + d, f1)'
    <3>1. UNCHANGED sent
      BY <1>3
    <3>2. PICK r : r = n - k
      OBVIOUS
    <3>3. PICK c : c = b + k
      OBVIOUS
    <3>4. r \in 0..BufferLen /\ c \in Nat /\ a <= c /\ c + r <= Len(s)
      BY <1>5, <3>2, <3>3
    <3>5. Handles(r, s, c)
      BY <1>8, <3>2, <3>3
    <3>6. \E d \in 0..r : \E f1 :
              /\ count' = r - d /\ \A j \in 1..count' : mem'[j] = s[(c + d) + j]
              /\ Follows(s, c + d)' => InTurn(s, start, c + d, f1)'
      BY <3>1, <3>4, <3>5, InTurnHandles
    <3> QED
      BY <3>2, <3>3, <3>6
  <2>2. PICK d \in 0..(n - k) : \E f1 :
              /\ count' = (n - k) - d /\ \A j \in 1..count' : mem'[j] = s[((b + k) + d) + j]
              /\ Follows(s, (b + k) + d)' => InTurn(s, start, (b + k) + d, f1)'
    BY <2>1
  <2>3. Follows(s, (b + k) + d)'
    BY <1>6, <2>2
  <2>4. \E f1 : InTurn(s, start, (b + k) + d, f1)'
    BY <2>2, <2>3
  <2> QED
    BY <2>4
<1>9. CASE Skips(n - k, s, b + k)
  <2>1. PICK l \in Byte :
        /\ l + Overhead <= n - k /\ count' = (n - k) - 2 /\ handled' = handled
        /\ \A j \in 1..count' : mem'[j] = s[((b + k) + 2) + j]
    BY <1>9 DEF Skips
  <2>2. 2 \in 0..(n - k)
    BY <1>5, <2>1, Sizes DEF Byte
  <2>3. Follows(s, (b + k) + 2)' /\ (b + k) + 2 \in Nat /\ a <= (b + k) + 2
    BY <1>6, <2>1, <2>2
  <2>4. InTurn(s, start, (b + k) + 2, f)'
    BY <1>3, <2>1, <2>3, InTurnDrops
  <2> QED
    BY <2>4
<1> QED
  BY <1>4, <1>7, <1>8, <1>9

LEMMA InTurnSync ==
    ASSUME TypeOK, NEW s, NEW start, NEW a, NEW f, InTurn(s, start, a, f), SyncPeriod
    PROVE  \E b : InTurn(s, start, b, f)'
<1>1. /\ Follows(s, a) /\ a \in Nat /\ s \in Seq(Byte) /\ a + count + Len(wire) = Len(s)
      /\ count \in Nat
  BY Sizes DEF InTurn, Follows, TypeOK
<1>2. wire = <<>> /\ wire' = wire /\ UNCHANGED <<handled, sent>>
      /\ (\/ mem' = Cleared /\ count' = 0
          \/ UNCHANGED <<mem, count>>)
  BY DEF SyncPeriod, Settled
<1>3. CASE UNCHANGED <<mem, count>>
  <2>1. Follows(s, a)'
    BY <1>1, <1>2, <1>3 DEF Follows
  <2>2. InTurn(s, start, a, f)'
    BY <1>1, <1>2, <2>1, InTurnDrops
  <2> QED
    BY <2>2
<1>4. CASE count' = 0
  <2>1. Len(wire) = 0
    BY <1>2, EmptySeq
  <2>2. a + count \in Nat /\ a <= a + count /\ (a + count) + 0 + 0 = Len(s)
    BY <1>1, <2>1
  <2>3. PICK b : b = a + count
    OBVIOUS
  <2>4. Follows(s, b)'
    BY <1>1, <1>2, <1>4, <2>1, <2>2, <2>3 DEF Follows
  <2>5. InTurn(s, start, b, f)'
    BY <1>2, <2>2, <2>3, <2>4, InTurnDrops
  <2> QED
    BY <2>5
<1> QED
  BY <1>2, <1>3, <1>4

LEMMA InTurnSend ==
    ASSUME TypeOK, NEW s, NEW start, NEW a, NEW f, InTurn(s, start, a, f), SamSends
    PROVE  \E s1, start1 : InTurn(s1, start1, a, f)'
<1>0. Len(handled) \in Nat /\ Len(sent) \in Nat /\ sent \in Seq(Payloads)
  BY LenProperties DEF TypeOK
<1>1. PICK p \in Payloads, t \in Stamps :
        /\ Puts(p, t) /\ sent' = Append(sent, p) /\ UNCHANGED handled
  BY DEF SamSends, Puts
<1>2. /\ IsStream(s, start, sent) /\ Follows(s, a)
      /\ f \in [1..Len(handled) -> 1..Len(sent)]
      /\ \A i \in 1..Len(handled) : handled[i] = sent[f[i]] /\ start[f[i] + 1] <= a
      /\ \A i, j \in 1..Len(handled) : i < j => f[i] < f[j]
  BY DEF InTurn
<1> DEFINE S == s \o Frame(p, t)
<1>3. PICK more : IsStream(S, more, sent') /\ \A i \in 1..(Len(sent) + 1) : more[i] = start[i]
  <2> DEFINE M == [i \in 1..(Len(sent) + 2) |-> IF i <= Len(sent) + 1 THEN start[i]
                                                ELSE Len(s) + FrameLen(p)]
  <2>1. IsStream(S, M, sent')
    BY <1>1, <1>2, StreamGrows
  <2>2. ASSUME NEW i \in 1..(Len(sent) + 1) PROVE M[i] = start[i]
    <3>1. i \in 1..(Len(sent) + 2) /\ i <= Len(sent) + 1
      BY <1>0
    <3> QED
      BY <3>1
  <2> HIDE DEF M
  <2> QED
    BY <2>1, <2>2
<1>4. Follows(S, a)'
  BY <1>1, <1>2, SendFollows
<1>5. /\ Len(sent') = Len(sent) + 1 /\ \A i \in 1..Len(sent) : sent'[i] = sent[i]
      /\ \A i \in 1..Len(sent) : i \in 1..Len(sent')
  BY <1>0, <1>1, AppendProperties
<1>6. ASSUME NEW i \in 1..Len(handled)
      PROVE  f[i] \in 1..Len(sent') /\ handled'[i] = sent'[f[i]] /\ more[f[i] + 1] <= a
  <2>1. f[i] \in 1..Len(sent) /\ handled[i] = sent[f[i]] /\ start[f[i] + 1] <= a
    BY <1>2
  <2>2. f[i] + 1 \in 1..(Len(sent) + 1)
    BY <1>0, <2>1
  <2>3. more[f[i] + 1] <= a
    BY <1>3, <2>1, <2>2
  <2>4. handled'[i] = sent'[f[i]] /\ f[i] \in 1..Len(sent')
    BY <1>1, <1>5, <2>1
  <2> QED
    BY <2>3, <2>4
<1>7. f \in [1..Len(handled') -> 1..Len(sent')]
  BY <1>1, <1>2, <1>6
<1> HIDE DEF S
<1>8. IsStream(S, more, sent)'
  BY <1>3 DEF IsStream
<1>9. InTurn(S, more, a, f)'
  BY <1>1, <1>2, <1>4, <1>6, <1>7, <1>8 DEF InTurn
<1> QED
  BY <1>9

LEMMA InTurnStep == ASSUME Unmistakable PROVE InTurnInv /\ [Next]_vars => InTurnInv'
<1> SUFFICES ASSUME InTurnInv, [Next]_vars PROVE InTurnInv'
  OBVIOUS
<1>1. TypeOK /\ TypeOK'
  BY TypeStep DEF InTurnInv
<1> SUFFICES \E s, start, a, f : InTurn(s, start, a, f)'
  BY <1>1 DEF InTurnInv
<1>2. PICK s, start, a, f : InTurn(s, start, a, f)
  BY DEF InTurnInv
<1>3. CASE UartRead \/ WorkCycle
  BY <1>1, <1>2, <1>3, InTurnCheck
<1>4. CASE SyncPeriod
  BY <1>1, <1>2, <1>4, InTurnSync
<1>5. CASE SamSends
  BY <1>1, <1>2, <1>5, InTurnSend
<1>6. CASE UNCHANGED vars
  <2>1. InTurn(s, start, a, f)'
    BY <1>2, <1>6 DEF vars, InTurn, IsStream, Follows
  <2> QED
    BY <2>1
<1> QED
  BY <1>3, <1>4, <1>5, <1>6 DEF Next

LEMMA InTurnInit == Init => InTurnInv
<1> SUFFICES ASSUME Init PROVE InTurnInv
  OBVIOUS
<1>1. PICK s, start : IsStream(s, start, sent) /\ Follows(s, 0)
  BY NothingYet
<1>2. Len(handled) = 0 /\ Len(sent) = 0
  BY EmptySeq DEF Init
<1>3. PICK f : f = [i \in 1..0 |-> 0]
  OBVIOUS
<1>4. f \in [1..0 -> 1..0]
  BY <1>3
<1>5. InTurn(s, start, 0, f)
  BY <1>1, <1>2, <1>4 DEF InTurn
<1> QED
  BY <1>5, TypeInit DEF InTurnInv

\* Whatever overflows the buffer, cuts a mark or starts over: what is handled was
\* sent, no frame is handled twice or out of order, and none is made up, as long
\* as payloads and stamps cannot be mistaken for frames.
THEOREM SamHandlesInOrder == ASSUME Unmistakable PROVE Spec => []HandledInOrder
<1>1. ASSUME InTurnInv
      PROVE  HandledInOrder
  BY <1>1 DEF InTurnInv, InTurn, HandledInOrder
<1>2. InTurnInv /\ [Next]_vars => InTurnInv'
  BY InTurnStep
<1> QED
  BY InTurnInit, <1>1, <1>2, PTL DEF Spec

=============================================================================
