---------------------------- MODULE Codecs_proofs ---------------------------
(***************************************************************************)
(* What the device sends is read back, for every address, number, event    *)
(* and pin; the clear packets of the server are handled, for every text,   *)
(* number and address, whatever was cut before them; and the calendar, for *)
(* every date its clock may show.                                          *)
(*                                                                         *)
(* First the packets: sequences put together, stuffing and taking it out   *)
(* again (StuffingIsUndone), marks (FrameIsRead), the CRC (CrcIs), and the *)
(* bodies of the two packets (EventBodyIs, StateBodyIs).  Then the         *)
(* server's: its packet's body (ServerBodyIs), unstuffing what is cut      *)
(* (UnstuffJoins, StuffedPart), the search for marks (ExtractIs), which    *)
(* finds a frame (FrameScan) and nothing in a cut one (BeginningScan), and *)
(* from there what a read finds (WholeFound, JustWholeFound).  Then the    *)
(* dates: sums of months and years and the loops that take them off again  *)
(* (TakesOffAll), one move of a date (DayAddedIs to SecondAddedIs), the    *)
(* register (RegisterIs, FurtherIs), the way back (BackToDate), the day of *)
(* the week (DayWeekIs), and the theorems.                                 *)
(***************************************************************************)
EXTENDS Framing, Calendar, LeastNatural, SequenceTheorems, TLAPS

LEMMA ConcatAt ==
    ASSUME NEW S, NEW x \in Seq(S), NEW y \in Seq(S)
    PROVE  /\ x \o y \in Seq(S) /\ Len(x \o y) = Len(x) + Len(y)
           /\ Len(x) \in Nat /\ Len(y) \in Nat
           /\ \A i \in 1..Len(x) : (x \o y)[i] = x[i]
           /\ \A i \in 1..Len(y) : (x \o y)[Len(x) + i] = y[i]
<1>1. Len(x) \in Nat /\ Len(y) \in Nat
  BY LenProperties
<1>2. /\ x \o y \in Seq(S) /\ Len(x \o y) = Len(x) + Len(y)
      /\ \A i \in 1..(Len(x) + Len(y)) : (x \o y)[i] = IF i <= Len(x) THEN x[i] ELSE y[i - Len(x)]
  BY ConcatProperties
<1>3. \A i \in 1..Len(x) : (x \o y)[i] = x[i]
  <2> SUFFICES ASSUME NEW i \in 1..Len(x) PROVE (x \o y)[i] = x[i]
    OBVIOUS
  <2>1. i \in 1..(Len(x) + Len(y)) /\ i <= Len(x)
    BY <1>1
  <2> QED
    BY <1>2, <2>1
<1>4. \A i \in 1..Len(y) : (x \o y)[Len(x) + i] = y[i]
  <2> SUFFICES ASSUME NEW i \in 1..Len(y) PROVE (x \o y)[Len(x) + i] = y[i]
    OBVIOUS
  <2>1. /\ Len(x) + i \in 1..(Len(x) + Len(y)) /\ ~ (Len(x) + i <= Len(x))
        /\ (Len(x) + i) - Len(x) = i
    BY <1>1
  <2> QED
    BY <1>2, <2>1
<1> QED
  BY <1>1, <1>2, <1>3, <1>4

\* FlattenSeq, piece by piece
Joined(h, ss, S) ==
    h \in [0..Len(ss) -> Seq(S)] /\ h[0] = <<>> /\ \A k \in 1..Len(ss) : h[k] = h[k - 1] \o ss[k]

LEMMA FlattenIs ==
    ASSUME NEW S, NEW ss \in Seq(Seq(S))
    PROVE  \E h : Joined(h, ss, S) /\ FlattenSeq(ss) = h[Len(ss)]
<1> DEFINE N == Len(ss)
           F == [n \in 1..N |-> [v \in Seq(S) |-> v \o ss[n]]]
           Fits(g) == g = [i \in 1..N |-> IF i = 1 THEN ss[i] ELSE g[i - 1] \o ss[i]]
<1>1. N \in Nat /\ <<>> \in Seq(S) /\ \A n \in 1..N : ss[n] \in Seq(S)
  BY LenProperties, ElementOfSeq, EmptySeq
<1>2. PICK h : h \in [0..N -> Seq(S)] /\ h[0] = <<>> /\ \A k \in 1..N : h[k] = h[k - 1] \o ss[k]
  <2>1. \A n \in 1..N : \A v \in Seq(S) : v \o ss[n] \in Seq(S)
    BY <1>1, ConcatProperties
  <2>2. F \in [1..N -> [Seq(S) -> Seq(S)]]
    BY <2>1
  <2> HIDE DEF F
  <2>3. PICK h : Recurs(h, Seq(S), <<>>, N, F)
    BY <1>1, <2>2, Recursion
  <2>4. ASSUME NEW k \in 1..N PROVE h[k] = h[k - 1] \o ss[k]
    <3>1. h[k] = F[k][h[k - 1]] /\ k - 1 \in 0..N
      BY <1>1, <2>3 DEF Recurs
    <3>2. h[k - 1] \in Seq(S)
      BY <2>3, <3>1 DEF Recurs
    <3> QED
      BY <3>1, <3>2 DEF F
  <2> QED
    BY <2>3, <2>4 DEF Recurs
<1>3. Joined(h, ss, S)
  BY <1>2 DEF Joined
<1>4. CASE N = 0
  <2>1. ss = <<>> /\ h[N] = <<>>
    BY <1>2, <1>4, EmptySeq
  <2>2. FlattenSeq(ss) = ss
    BY <1>4 DEF FlattenSeq
  <2> QED
    BY <1>3, <2>1, <2>2
<1>5. CASE N > 0
  <2>1. Fits([i \in 1..N |-> h[i]])
    <3>1. ASSUME NEW i \in 1..N
          PROVE  h[i] = IF i = 1 THEN ss[i] ELSE [j \in 1..N |-> h[j]][i - 1] \o ss[i]
      <4>1. CASE i = 1
        <5>1. h[1] = <<>> \o ss[1] /\ ss[1] \in Seq(S)
          <6>1. 1 \in 1..N /\ 1 - 1 = 0
            BY <4>1
          <6> QED
            BY <1>1, <1>2, <6>1
        <5> QED
          BY <4>1, <5>1, ConcatEmptySeq
      <4>2. CASE i # 1
        <5>1. i - 1 \in 1..N
          BY <4>2
        <5> QED
          BY <1>2, <4>2, <5>1
      <4> QED
        BY <4>1, <4>2
    <3> QED
      BY <3>1
  <2>2. Fits(CHOOSE g : Fits(g))
    <3> HIDE DEF Fits
    <3> QED
      BY <2>1, Zenon
  <2>3. FlattenSeq(ss) = (CHOOSE g : Fits(g))[N]
    BY <1>1, <1>5 DEF FlattenSeq
  <2>4. PICK g : Fits(g) /\ FlattenSeq(ss) = g[N]
    <3> HIDE DEF Fits
    <3> QED
      BY <2>2, <2>3, Zenon
  <2> DEFINE P == {n \in 0..N : n > 0 => g[n] = h[n]}
  <2>5. ASSUME NEW n \in 1..N, n - 1 \in P PROVE n \in P
    <3>1. g[n] = IF n = 1 THEN ss[n] ELSE g[n - 1] \o ss[n]
      BY <2>4
    <3>2. h[n] = h[n - 1] \o ss[n] /\ ss[n] \in Seq(S)
      BY <1>1, <1>2
    <3>3. CASE n = 1
      <4>1. h[n] = <<>> \o ss[n]
        <5>1. n - 1 = 0
          BY <3>3
        <5> QED
          BY <1>2, <3>2, <5>1
      <4> QED
        BY <3>1, <3>2, <3>3, <4>1, ConcatEmptySeq
    <3>4. CASE n # 1
      <4>1. n - 1 > 0
        BY <3>4
      <4>2. g[n - 1] = h[n - 1]
        BY <2>5, <4>1
      <4>3. g[n] = h[n]
        BY <3>1, <3>2, <3>4, <4>2
      <4>4. n \in 0..N
        BY <1>1
      <4> QED
        BY <4>3, <4>4
    <3> QED
      BY <3>3, <3>4
  <2>6. 0 \in P /\ N \in 0..N
    BY <1>1
  <2> HIDE DEF P
  <2>7. N \in P
    BY <1>1, <2>5, <2>6, UpTo
  <2> QED
    BY <1>3, <1>5, <2>4, <2>7 DEF P
<1> QED
  BY <1>1, <1>4, <1>5
-----------------------------------------------------------------------------
(* Stuffing *)

Piece(b) == IF b = Begin THEN <<Begin, Same>> ELSE <<b>>

\* What Stuff has written after each byte
Stuffs(h, d) ==
    /\ h \in [0..Len(d) -> Seq(Nat)] /\ h[0] = <<>>
    /\ \A k \in 1..Len(d) : h[k] = h[k - 1] \o Piece(d[k])

LEMMA PieceIs ==
    ASSUME NEW b \in Nat
    PROVE  /\ Piece(b) \in Seq(Nat) /\ Len(Piece(b)) \in {1, 2} /\ Piece(b)[1] = b
           /\ b = 23 => Len(Piece(b)) = 2 /\ Piece(b)[2] = 18
           /\ b # 23 => Len(Piece(b)) = 1
BY DEF Piece, Begin, Same

LEMMA StuffIs ==
    ASSUME NEW d \in Seq(Nat)
    PROVE  \E h : Stuffs(h, d) /\ Stuff(d) = h[Len(d)]
<1> DEFINE ss == [i \in 1..Len(d) |-> IF d[i] = Begin THEN <<Begin, Same>> ELSE <<d[i]>>]
<1>1. Len(d) \in Nat /\ \A i \in 1..Len(d) : d[i] \in Nat
  BY LenProperties, ElementOfSeq
<1>2. \A i \in 1..Len(d) : ss[i] = Piece(d[i]) /\ ss[i] \in Seq(Nat)
  BY <1>1, PieceIs DEF Piece
<1>3. ss \in Seq(Seq(Nat)) /\ Len(ss) = Len(d)
  <2>1. ss \in [1..Len(d) -> Seq(Nat)]
    BY <1>2
  <2> HIDE DEF ss
  <2> QED
    BY <1>1, <2>1, SeqDef
<1>4. Stuff(d) = FlattenSeq(ss)
  BY DEF Stuff
<1> HIDE DEF ss
<1>5. PICK h : Joined(h, ss, Nat) /\ FlattenSeq(ss) = h[Len(ss)]
  BY <1>3, FlattenIs
<1>6. Stuffs(h, d)
  BY <1>2, <1>3, <1>5 DEF Joined, Stuffs
<1> QED
  BY <1>3, <1>4, <1>5, <1>6

\* The k-th byte is behind the first pos[k - 1] bytes of what is stuffed.
Spread(x, d, pos) ==
    /\ pos \in [0..Len(d) -> Nat] /\ pos[0] = 0 /\ pos[Len(d)] = Len(x)
    /\ \A k \in 1..Len(d) :
          /\ x[pos[k - 1] + 1] = d[k] /\ pos[k] <= Len(x)
          /\ d[k] = 23 => pos[k] = pos[k - 1] + 2 /\ x[pos[k - 1] + 2] = 18
          /\ d[k] # 23 => pos[k] = pos[k - 1] + 1

LEMMA Grows ==
    ASSUME NEW d \in Seq(Nat), NEW h, Stuffs(h, d), NEW k \in 1..Len(d)
    PROVE  /\ h[k - 1] \in Seq(Nat) /\ h[k] \in Seq(Nat) /\ d[k] \in Nat
           /\ Len(h[k - 1]) \in Nat /\ Len(h[k]) \in Nat
           /\ h[k][Len(h[k - 1]) + 1] = d[k]
           /\ d[k] = 23 => Len(h[k]) = Len(h[k - 1]) + 2 /\ h[k][Len(h[k - 1]) + 2] = 18
           /\ d[k] # 23 => Len(h[k]) = Len(h[k - 1]) + 1
           /\ \A i \in 1..Len(h[k - 1]) : h[k][i] = h[k - 1][i]
<1>1. Len(d) \in Nat /\ d[k] \in Nat
  BY LenProperties, ElementOfSeq
<1>2. h[k - 1] \in Seq(Nat) /\ h[k] \in Seq(Nat) /\ h[k] = h[k - 1] \o Piece(d[k])
  <2>1. k - 1 \in 0..Len(d) /\ k \in 0..Len(d)
    BY <1>1
  <2> QED
    BY <2>1 DEF Stuffs
<1> DEFINE u == h[k - 1]
           p == Piece(d[k])
<1>3. /\ p \in Seq(Nat) /\ Len(p) \in {1, 2} /\ p[1] = d[k]
      /\ d[k] = 23 => Len(p) = 2 /\ p[2] = 18
      /\ d[k] # 23 => Len(p) = 1
  BY <1>1, PieceIs
<1>4. u \in Seq(Nat) /\ h[k] = u \o p
  BY <1>2
<1> HIDE DEF u, p
<1>5. /\ Len(u \o p) = Len(u) + Len(p) /\ Len(u) \in Nat
      /\ \A i \in 1..Len(u) : (u \o p)[i] = u[i]
      /\ \A i \in 1..Len(p) : (u \o p)[Len(u) + i] = p[i]
  BY <1>3, <1>4, ConcatAt
<1>6. Len(h[k]) = Len(u) + Len(p) /\ h[k][Len(u) + 1] = d[k] /\ Len(h[k]) \in Nat
  <2>1. 1 \in 1..Len(p) /\ Len(p) \in Nat
    BY <1>3
  <2>2. (u \o p)[Len(u) + 1] = p[1]
    BY <1>5, <2>1
  <2>3. Len(u) + Len(p) \in Nat
    BY <1>5, <2>1
  <2> QED
    BY <1>3, <1>4, <1>5, <2>2, <2>3
<1>7. d[k] = 23 => Len(h[k]) = Len(u) + 2 /\ h[k][Len(u) + 2] = 18
  <2> SUFFICES ASSUME d[k] = 23 PROVE Len(h[k]) = Len(u) + 2 /\ h[k][Len(u) + 2] = 18
    OBVIOUS
  <2>0. Len(p) = 2 /\ p[2] = 18
    BY <1>3
  <2>1. 2 \in 1..Len(p)
    BY <2>0
  <2>2. (u \o p)[Len(u) + 2] = p[2]
    BY <1>5, <2>1
  <2> QED
    BY <1>4, <1>6, <2>0, <2>2
<1>8. \A i \in 1..Len(u) : h[k][i] = u[i]
  BY <1>4, <1>5
<1> QED
  BY <1>1, <1>2, <1>3, <1>5, <1>6, <1>7, <1>8 DEF u

LEMMA StuffSpreads ==
    ASSUME NEW d \in Seq(Nat)
    PROVE  Stuff(d) \in Seq(Nat) /\ \E pos : Spread(Stuff(d), d, pos)
<1>1. PICK h : Stuffs(h, d) /\ Stuff(d) = h[Len(d)]
  BY StuffIs
<1>2. Len(d) \in Nat /\ Len(d) \in 0..Len(d)
  BY LenProperties
<1>3. \A k \in 0..Len(d) : h[k] \in Seq(Nat) /\ Len(h[k]) \in Nat
  BY <1>1, LenProperties DEF Stuffs
<1> DEFINE pos == [k \in 0..Len(d) |-> Len(h[k])]
           Good(m, k) == /\ pos[k] <= pos[m] /\ h[m][pos[k - 1] + 1] = d[k]
                         /\ d[k] = 23 => h[m][pos[k - 1] + 2] = 18
           P == {m \in 0..Len(d) : \A k \in 1..m : Good(m, k)}
<1>4. /\ pos \in [0..Len(d) -> Nat]
      /\ \A k \in 0..Len(d) : pos[k] = Len(h[k])
  BY <1>3
<1>5. ASSUME NEW k \in 1..Len(d)
      PROVE  /\ k - 1 \in 0..Len(d) /\ k \in 0..Len(d) /\ pos[k - 1] \in Nat /\ pos[k] \in Nat
             /\ h[k][pos[k - 1] + 1] = d[k]
             /\ d[k] = 23 => pos[k] = pos[k - 1] + 2 /\ h[k][pos[k - 1] + 2] = 18
             /\ d[k] # 23 => pos[k] = pos[k - 1] + 1
             /\ \A i \in 1..pos[k - 1] : h[k][i] = h[k - 1][i]
  <2>1. k - 1 \in 0..Len(d) /\ k \in 0..Len(d)
    BY <1>2
  <2>2. pos[k] = Len(h[k]) /\ pos[k - 1] = Len(h[k - 1])
    BY <1>4, <2>1
  <2> HIDE DEF pos
  <2>3. /\ h[k][Len(h[k - 1]) + 1] = d[k] /\ Len(h[k - 1]) \in Nat /\ Len(h[k]) \in Nat
        /\ d[k] = 23 => Len(h[k]) = Len(h[k - 1]) + 2 /\ h[k][Len(h[k - 1]) + 2] = 18
        /\ d[k] # 23 => Len(h[k]) = Len(h[k - 1]) + 1
        /\ \A i \in 1..Len(h[k - 1]) : h[k][i] = h[k - 1][i]
    BY <1>1, Grows
  <2> QED
    BY <2>1, <2>2, <2>3
<1> HIDE DEF pos
<1>6. ASSUME NEW m \in 1..Len(d), m - 1 \in P PROVE m \in P
  <2> SUFFICES ASSUME NEW k \in 1..m PROVE Good(m, k)
    BY <1>2
  <2>1. CASE k = m
    <3>1. m \in 0..Len(d) /\ pos[m] \in Nat
      BY <1>5
    <3> QED
      BY <1>5, <2>1, <3>1
  <2>2. CASE k # m
    <3>1. k \in 1..(m - 1) /\ k \in 1..Len(d)
      BY <1>2, <2>2
    <3>2. Good(m - 1, k)
      BY <1>6, <3>1
    <3>3. pos[m - 1] <= pos[m] /\ pos[m - 1] \in Nat /\ pos[m] \in Nat /\ pos[k - 1] \in Nat /\ pos[k] \in Nat
      <4>1. pos[m - 1] \in Nat /\ pos[m] \in Nat /\ (pos[m] = pos[m - 1] + 2 \/ pos[m] = pos[m - 1] + 1)
        BY <1>5
      <4>2. pos[k - 1] \in Nat /\ pos[k] \in Nat
        BY <1>5, <3>1
      <4> QED
        BY <4>1, <4>2
    <3>4. pos[k - 1] + 1 <= pos[k] /\ (d[k] = 23 => pos[k - 1] + 2 <= pos[k])
      <4>1. d[k] = 23 => pos[k] = pos[k - 1] + 2
        BY <1>5, <3>1
      <4>2. d[k] # 23 => pos[k] = pos[k - 1] + 1
        BY <1>5, <3>1
      <4> QED
        BY <3>3, <4>1, <4>2
    <3>5. pos[k - 1] + 1 \in 1..pos[m - 1] /\ (d[k] = 23 => pos[k - 1] + 2 \in 1..pos[m - 1])
      <4>1. pos[k] <= pos[m - 1]
        BY <3>2
      <4> QED
        <5>1. ASSUME NEW a \in Nat, NEW b \in Nat, NEW c \in Nat, a + 1 <= b, b <= c
              PROVE  a + 1 \in 1..c /\ (a + 2 <= b => a + 2 \in 1..c)
          BY <5>1
        <5> QED
          BY <3>3, <3>4, <4>1, <5>1
    <3>6. \A i \in 1..pos[m - 1] : h[m][i] = h[m - 1][i]
      BY <1>5
    <3>7. pos[k] <= pos[m]
      BY <3>2, <3>3
    <3> QED
      BY <3>2, <3>5, <3>6, <3>7
  <2> QED
    BY <2>1, <2>2
<1>7. 0 \in P
  BY <1>2
<1> HIDE DEF P
<1>8. Len(d) \in P
  BY <1>2, <1>6, <1>7, UpTo
<1>9. pos[0] = 0 /\ pos[Len(d)] = Len(Stuff(d))
  <2>1. h[0] = <<>> /\ 0 \in 0..Len(d)
    BY <1>1, <1>2 DEF Stuffs
  <2> QED
    BY <1>1, <1>2, <1>4, <2>1, EmptySeq
<1>10. ASSUME NEW k \in 1..Len(d) PROVE Good(Len(d), k)
  BY <1>8 DEF P
<1>11. Spread(Stuff(d), d, pos)
  <2> SUFFICES ASSUME NEW k \in 1..Len(d)
               PROVE  /\ Stuff(d)[pos[k - 1] + 1] = d[k] /\ pos[k] <= Len(Stuff(d))
                      /\ d[k] = 23 => pos[k] = pos[k - 1] + 2 /\ Stuff(d)[pos[k - 1] + 2] = 18
                      /\ d[k] # 23 => pos[k] = pos[k - 1] + 1
    BY <1>4, <1>9 DEF Spread
  <2>1. Good(Len(d), k)
    BY <1>10
  <2>2. /\ d[k] = 23 => pos[k] = pos[k - 1] + 2
        /\ d[k] # 23 => pos[k] = pos[k - 1] + 1
    BY <1>5
  <2> QED
    BY <1>1, <1>9, <2>1, <2>2
<1> QED
  BY <1>1, <1>2, <1>3, <1>11

\* 17 is always followed by 12: no mark shows in what is stuffed, nor across its end.
LEMMA NoMarkInside ==
    ASSUME NEW d \in Seq(Nat), NEW i \in 1..Len(Stuff(d)), Stuff(d)[i] = 23
    PROVE  i < Len(Stuff(d)) /\ Stuff(d)[i + 1] = 18
<1>1. PICK h : Stuffs(h, d) /\ Stuff(d) = h[Len(d)]
  BY StuffIs
<1>2. Len(d) \in Nat
  BY LenProperties
<1> DEFINE Good(w) == \A j \in 1..Len(w) : w[j] = 23 => j < Len(w) /\ w[j + 1] = 18
           P == {m \in 0..Len(d) : Good(h[m])}
<1>3. ASSUME NEW m \in 1..Len(d), m - 1 \in P PROVE m \in P
  <2>1. PICK u, w : u = h[m - 1] /\ w = h[m]
    OBVIOUS
  <2>2. /\ Len(u) \in Nat /\ Len(w) \in Nat /\ w[Len(u) + 1] = d[m]
        /\ d[m] = 23 => Len(w) = Len(u) + 2 /\ w[Len(u) + 2] = 18
        /\ d[m] # 23 => Len(w) = Len(u) + 1
        /\ \A j \in 1..Len(u) : w[j] = u[j]
    BY <1>1, <2>1, Grows
  <2>3. Good(u) /\ m \in 0..Len(d)
    BY <1>2, <1>3, <2>1
  <2>4. ASSUME NEW j \in 1..Len(w), w[j] = 23 PROVE j < Len(w) /\ w[j + 1] = 18
    <3>1. CASE j \in 1..Len(u)
      <4>1. u[j] = 23
        BY <2>2, <2>4, <3>1
      <4>2. j < Len(u) /\ u[j + 1] = 18
        BY <2>3, <3>1, <4>1
      <4>3. j + 1 \in 1..Len(u) /\ (Len(w) = Len(u) + 1 \/ Len(w) = Len(u) + 2)
        BY <2>2, <3>1, <4>2, SMTT(60)
      <4>4. w[j + 1] = 18
        BY <2>2, <4>2, <4>3
      <4>5. j < Len(w)
        BY <2>2, <4>2, <4>3
      <4> QED
        BY <4>4, <4>5
    <3>2. CASE j = Len(u) + 1
      <4>1. d[m] = 23
        BY <2>2, <2>4, <3>2
      <4>2. Len(w) = Len(u) + 2 /\ w[Len(u) + 2] = 18 /\ j + 1 = Len(u) + 2
        BY <2>2, <3>2, <4>1
      <4> QED
        BY <2>2, <3>2, <4>2
    <3>3. CASE j = Len(u) + 2
      <4>1. d[m] = 23
        BY <2>2, <3>3
      <4>2. w[j] = 18
        BY <2>2, <3>3, <4>1
      <4> QED
        BY <2>4, <4>2
    <3> QED
      BY <2>2, <3>1, <3>2, <3>3, SMTT(60)
  <2> QED
    BY <2>1, <2>3, <2>4
<1>4. 0 \in P
  <2>1. Len(h[0]) = 0 /\ 0 \in 0..Len(d)
    BY <1>1, <1>2, EmptySeq DEF Stuffs
  <2> QED
    BY <2>1
<1> HIDE DEF P
<1>5. Len(d) \in P
  <2>1. Len(d) \in 0..Len(d)
    BY <1>2
  <2> QED
    BY <1>2, <1>3, <1>4, <2>1, UpTo
<1>6. Good(Stuff(d))
  BY <1>1, <1>5 DEF P
<1> QED
  BY <1>6

Pair(x, i) == i < Len(x) /\ x[i] = Begin /\ x[i + 1] = Same

\* What unreplace leaves of the bytes from i on
Undoes(from, x) ==
    \A i \in 1..(Len(x) + 2) :
        from[i] = IF i > Len(x) THEN <<>>
                  ELSE <<x[i]>> \o from[IF Pair(x, i) THEN i + 2 ELSE i + 1]

LEMMA UnstuffIs ==
    ASSUME NEW x \in Seq(Nat)
    PROVE  \E from : Undoes(from, x) /\ Unstuff(x) = from[1]
<1> DEFINE M == Len(x)
           Next2(i) == IF Pair(x, i) THEN i + 2 ELSE i + 1
           Val(i, g) == IF i > M THEN <<>> ELSE <<x[i]>> \o g[Next2(i)]
           Fits(g) == g = [i \in 1..(M + 2) |-> Val(i, g)]
           Part(n, g) == \A i \in (M + 1 - n)..(M + 2) : g[i] = Val(i, g)
           P == {n \in 0..M : \E g : Part(n, g)}
<1>1. M \in Nat
  BY LenProperties
<1>2. 0 \in P
  <2> DEFINE g == [i \in (M + 1)..(M + 2) |-> <<>>]
  <2>1. \A i \in (M + 1)..(M + 2) : i > M /\ g[i] = <<>>
    BY <1>1
  <2> HIDE DEF g
  <2>2. M + 1 - 0 = M + 1
    BY <1>1
  <2>3. Part(0, g)
    BY <2>1, <2>2
  <2> QED
    BY <1>1, <2>3
<1>3. ASSUME NEW n \in 1..M, n - 1 \in P PROVE n \in P
  <2>1. PICK f : Part(n - 1, f)
    BY <1>3
  <2>2. PICK k : k = M + 1 - n
    OBVIOUS
  <2>3. k \in 1..M /\ M + 1 - (n - 1) = k + 1
    BY <1>1, <2>2
  <2> DEFINE g == [i \in k..(M + 2) |-> IF i = k THEN <<x[k]>> \o f[Next2(k)] ELSE f[i]]
  <2>4. g[k] = <<x[k]>> \o f[Next2(k)] /\ \A i \in (k + 1)..(M + 2) : g[i] = f[i]
    <3>1. k \in k..(M + 2)
      BY <1>1, <2>3
    <3>2. ASSUME NEW i \in (k + 1)..(M + 2) PROVE i # k /\ i \in k..(M + 2)
      BY <1>1, <2>3
    <3> HIDE DEF Next2
    <3> QED
      BY <3>1, <3>2
  <2> HIDE DEF g
  <2>5. \A i \in k..M : Next2(i) \in (k + 1)..(M + 2)
    BY <1>1, <2>3
  <2>6. ASSUME NEW i \in k..(M + 2) PROVE g[i] = Val(i, g)
    <3>1. CASE i = k
      <4>1. ~ (k > M) /\ k \in k..M
        BY <1>1, <2>3
      <4>2. g[Next2(k)] = f[Next2(k)]
        BY <2>4, <2>5, <4>1
      <4> HIDE DEF Next2
      <4> QED
        BY <2>4, <3>1, <4>1, <4>2
    <3>2. CASE i # k
      <4>1. i \in (k + 1)..(M + 2)
        BY <1>1, <2>3, <3>2
      <4>2. f[i] = Val(i, f)
        BY <2>1, <2>3, <4>1
      <4>3. CASE i > M
        BY <2>4, <4>1, <4>2, <4>3
      <4>4. CASE ~ (i > M)
        <5>1. i \in k..M
          BY <1>1, <2>3, <4>1, <4>4
        <5>2. g[Next2(i)] = f[Next2(i)]
          BY <2>4, <2>5, <5>1
        <5> HIDE DEF Next2
        <5> QED
          BY <2>4, <4>1, <4>2, <4>4, <5>2
      <4> QED
        BY <4>3, <4>4
    <3> QED
      BY <3>1, <3>2
  <2> HIDE DEF Val
  <2>7. Part(n, g)
    BY <2>2, <2>6
  <2>8. n \in 0..M
    BY <1>1
  <2> HIDE DEF Part
  <2> QED
    BY <2>7, <2>8
<1> HIDE DEF P
<1>4. M \in P
  <2>1. M \in 0..M
    BY <1>1
  <2> QED
    BY <1>1, <1>2, <1>3, <2>1, UpTo
<1>5. PICK f : Part(M, f)
  <2> HIDE DEF Part
  <2> QED
    BY <1>4 DEF P
<1>6. Fits([i \in 1..(M + 2) |-> f[i]])
  <2> DEFINE g == [i \in 1..(M + 2) |-> f[i]]
  <2>1. M + 1 - M = 1
    BY <1>1
  <2>2. \A i \in 1..(M + 2) : f[i] = Val(i, f) /\ g[i] = f[i]
    BY <1>5, <2>1
  <2>3. ASSUME NEW i \in 1..(M + 2) PROVE Val(i, f) = Val(i, g)
    <3>1. ~ (i > M) => Next2(i) \in 1..(M + 2)
      BY <1>1
    <3> HIDE DEF Next2
    <3>2. ~ (i > M) => g[Next2(i)] = f[Next2(i)]
      BY <3>1
    <3> HIDE DEF g
    <3> QED
      BY <3>2
  <2> HIDE DEF Val
  <2> QED
    BY <2>2, <2>3
<1>7. Fits(CHOOSE g : Fits(g))
  <2> HIDE DEF Fits
  <2> QED
    BY <1>6, Zenon
<1>8. Unstuff(x) = (CHOOSE g : Fits(g))[1]
  BY DEF Unstuff, Pair
<1>9. PICK from : Fits(from) /\ Unstuff(x) = from[1]
  <2> HIDE DEF Fits
  <2> QED
    BY <1>7, <1>8, Zenon
<1>10. Undoes(from, x)
  BY <1>9 DEF Undoes
<1> QED
  BY <1>9, <1>10

\* Taking out the stuffing gives back what was stuffed.
LEMMA StuffingIsUndone ==
    ASSUME NEW d \in Seq(Nat)
    PROVE  Unstuff(Stuff(d)) = d
<1>1. PICK x : x = Stuff(d)
  OBVIOUS
<1>2. x \in Seq(Nat) /\ \E pos : Spread(x, d, pos)
  BY <1>1, StuffSpreads
<1>3. PICK pos : Spread(x, d, pos)
  BY <1>2
<1>4. PICK from : Undoes(from, x) /\ Unstuff(x) = from[1]
  BY <1>2, UnstuffIs
<1> DEFINE L == Len(d)
           P == {n \in 0..L : from[pos[L - n] + 1] = SubSeq(d, (L - n) + 1, L)}
<1>5. L \in Nat /\ Len(x) \in Nat /\ pos[0] = 0 /\ pos[L] = Len(x)
  BY <1>2, <1>3, LenProperties DEF Spread
<1>6. 0 \in P
  <2>1. L - 0 = L /\ Len(x) + 1 \in 1..(Len(x) + 2) /\ Len(x) + 1 > Len(x)
    BY <1>5
  <2>2. from[Len(x) + 1] = <<>>
    BY <1>4, <2>1 DEF Undoes
  <2>3. SubSeq(d, L + 1, L) = <<>>
    BY <1>5, SubSeqEmpty
  <2>4. pos[L - 0] = Len(x) /\ (L - 0) + 1 = L + 1
    BY <1>5, <2>1
  <2>5. from[pos[L - 0] + 1] = SubSeq(d, (L - 0) + 1, L)
    BY <2>2, <2>3, <2>4
  <2>6. 0 \in 0..L
    BY <1>5
  <2> QED
    BY <2>5, <2>6
<1>7. ASSUME NEW n \in 1..L, n - 1 \in P PROVE n \in P
  <2>1. PICK k : k = (L - n) + 1
    OBVIOUS
  <2>2. k \in 1..L /\ L - n = k - 1 /\ L - (n - 1) = k /\ (L - n) + 1 = k /\ n \in 0..L
    BY <1>5, <2>1
  <2>3. from[pos[k] + 1] = SubSeq(d, k + 1, L)
    BY <1>7, <2>2
  <2>4. PICK i : i = pos[k - 1] + 1
    OBVIOUS
  <2>5. /\ pos[k - 1] \in Nat /\ pos[k] \in Nat /\ pos[k] <= Len(x) /\ x[i] = d[k]
        /\ d[k] = 23 => pos[k] = pos[k - 1] + 2 /\ x[pos[k - 1] + 2] = 18
        /\ d[k] # 23 => pos[k] = pos[k - 1] + 1
    <3>1. k - 1 \in 0..L /\ k \in 0..L
      BY <1>5, <2>2
    <3> QED
      BY <1>3, <2>2, <2>4, <3>1 DEF Spread
  <2>6. /\ i \in 1..(Len(x) + 2) /\ ~ (i > Len(x))
        /\ d[k] = 23 => i < Len(x) /\ i + 1 = pos[k - 1] + 2 /\ i + 2 = pos[k] + 1
        /\ d[k] # 23 => i + 1 = pos[k] + 1
    <3>1. i \in Nat /\ i = pos[k - 1] + 1 /\ Len(x) \in Nat /\ pos[k - 1] \in Nat
      BY <1>5, <2>4, <2>5, SMTT(60)
    <3>2. CASE d[k] = 23
      <4>1. pos[k] = pos[k - 1] + 2 /\ pos[k] <= Len(x)
        BY <2>5, <3>2
      <4>2. /\ i \in 1..(Len(x) + 2) /\ ~ (i > Len(x)) /\ i < Len(x)
            /\ i + 1 = pos[k - 1] + 2 /\ i + 2 = pos[k] + 1
        BY <3>1, <4>1
      <4> QED
        BY <3>2, <4>2
    <3>3. CASE d[k] # 23
      <4>1. pos[k] = pos[k - 1] + 1 /\ pos[k] <= Len(x)
        BY <2>5, <3>3
      <4>2. i \in 1..(Len(x) + 2) /\ ~ (i > Len(x)) /\ i + 1 = pos[k] + 1
        BY <3>1, <4>1
      <4> QED
        BY <3>3, <4>2
    <3> QED
      BY <3>2, <3>3
  <2>7. from[i] = <<x[i]>> \o from[IF Pair(x, i) THEN i + 2 ELSE i + 1]
    BY <1>4, <2>6 DEF Undoes
  <2>8. (IF Pair(x, i) THEN i + 2 ELSE i + 1) = pos[k] + 1
    <3>1. CASE d[k] = 23
      <4>1. Pair(x, i)
        BY <2>5, <2>6, <3>1 DEF Pair, Begin, Same
      <4> QED
        BY <2>6, <3>1, <4>1
    <3>2. CASE d[k] # 23
      <4>1. ~ Pair(x, i)
        BY <2>5, <3>2 DEF Pair, Begin
      <4> QED
        BY <2>6, <3>2, <4>1
    <3> QED
      BY <3>1, <3>2
  <2>9. from[i] = <<d[k]>> \o SubSeq(d, k + 1, L)
    BY <2>3, <2>5, <2>7, <2>8
  <2>10. from[i] = SubSeq(d, k, L)
    BY <2>2, <2>9, SubSeqRecursiveFirst, SMTT(60)
  <2> QED
    BY <2>2, <2>4, <2>10
<1>8. L \in P
  <2>1. L \in 0..L
    BY <1>5
  <2> HIDE DEF P
  <2> QED
    BY <1>5, <1>6, <1>7, <2>1, UpTo
<1>9. L - L = 0 /\ 0 + 1 = 1
  BY <1>5
<1>10. Unstuff(x) = SubSeq(d, 1, L)
  BY <1>4, <1>5, <1>8, <1>9
<1>11. SubSeq(d, 1, L) = d
  BY SubSeqFull
<1> QED
  BY <1>1, <1>10, <1>11

Ends(f) == {i \in 3..(Len(f) - 1) : f[i] = Begin /\ f[i + 1] = End}

\* The server finds the body between the marks: its end mark is the first one.
LEMMA FrameIsRead ==
    ASSUME NEW body \in Seq(Nat), NEW f, f = Framed(body)
    PROVE  /\ Len(f) \in Nat /\ f[1] = Begin /\ f[2] = Start
           /\ (CHOOSE i \in Ends(f) : \A j \in Ends(f) : i <= j) = Len(f) - 1
           /\ Unstuff(SubSeq(f, 3, (Len(f) - 1) - 1)) = body
<1> DEFINE x == Stuff(body)
           b == <<Begin, Start>>
           e == <<Begin, End>>
           M == Len(x)
           y == b \o x
<1>1. x \in Seq(Nat) /\ M \in Nat
  BY StuffSpreads, LenProperties
<1>2. /\ b \in Seq(Nat) /\ Len(b) = 2 /\ b[1] = 23 /\ b[2] = 19
      /\ e \in Seq(Nat) /\ Len(e) = 2 /\ e[1] = 23 /\ e[2] = 5
  BY DEF Begin, Start, End
<1>3. f = y \o e
  BY DEF Framed
<1>4. \A i \in 1..M : x[i] = 23 => i < M /\ x[i + 1] = 18
  BY NoMarkInside
<1>5. Unstuff(x) = body
  BY StuffingIsUndone
<1> HIDE DEF x, b, e
<1>6. /\ y \in Seq(Nat) /\ Len(y) = 2 + M /\ y[1] = 23 /\ y[2] = 19
      /\ \A i \in 1..M : y[2 + i] = x[i]
  <2>1. /\ y \in Seq(Nat) /\ Len(y) = 2 + M /\ \A i \in 1..2 : y[i] = b[i]
        /\ \A i \in 1..M : y[2 + i] = x[i]
    <3>1. /\ y \in Seq(Nat) /\ Len(y) = Len(b) + Len(x) /\ \A i \in 1..Len(b) : y[i] = b[i]
          /\ \A i \in 1..Len(x) : y[Len(b) + i] = x[i]
      <4>1. x \in Seq(Nat) /\ b \in Seq(Nat)
        BY <1>1, <1>2
      <4> QED
        BY <4>1, ConcatAt
    <3> HIDE DEF y
    <3> QED
      BY <1>2, <3>1
  <2>2. 1 \in 1..2 /\ 2 \in 1..2
    OBVIOUS
  <2> HIDE DEF y
  <2> QED
    BY <1>2, <2>1, <2>2
<1> HIDE DEF y
<1>7. /\ f \in Seq(Nat) /\ Len(f) = M + 4 /\ f[1] = 23 /\ f[2] = 19
      /\ f[M + 3] = 23 /\ f[M + 4] = 5
      /\ \A i \in 1..M : f[2 + i] = x[i]
  <2>1. /\ f \in Seq(Nat) /\ Len(f) = (2 + M) + 2 /\ \A i \in 1..(2 + M) : f[i] = y[i]
        /\ \A i \in 1..2 : f[(2 + M) + i] = e[i]
    <3>1. /\ y \o e \in Seq(Nat) /\ Len(y \o e) = Len(y) + Len(e)
          /\ \A i \in 1..Len(y) : (y \o e)[i] = y[i]
          /\ \A i \in 1..Len(e) : (y \o e)[Len(y) + i] = e[i]
      <4>1. y \in Seq(Nat) /\ e \in Seq(Nat)
        BY <1>2, <1>6
      <4> QED
        BY <4>1, ConcatAt
    <3> QED
      BY <1>2, <1>3, <1>6, <3>1
  <2>2. /\ (2 + M) + 2 = M + 4 /\ (2 + M) + 1 = M + 3 /\ 1 \in 1..2 /\ 2 \in 1..2
        /\ 1 \in 1..(2 + M) /\ 2 \in 1..(2 + M) /\ \A i \in 1..M : 2 + i \in 1..(2 + M)
    BY <1>1
  <2>3. f[M + 3] = 23 /\ f[M + 4] = 5
    BY <1>2, <2>1, <2>2
  <2>4. f[1] = 23 /\ f[2] = 19 /\ \A i \in 1..M : f[2 + i] = x[i]
    BY <1>6, <2>1, <2>2
  <2> QED
    BY <2>1, <2>2, <2>3, <2>4
<1>8. Ends(f) = {M + 3}
  <2>1. M + 3 \in Ends(f)
    <3>1. M + 3 \in 3..(Len(f) - 1) /\ (M + 3) + 1 = M + 4
      BY <1>1, <1>7
    <3> QED
      BY <1>7, <3>1 DEF Ends, Begin, End
  <2>2. ASSUME NEW i \in Ends(f), i # M + 3 PROVE FALSE
    <3>1. PICK k : k = i - 2
      OBVIOUS
    <3>2. k \in 1..M /\ i = 2 + k /\ f[i] = 23 /\ f[i + 1] = 5
      BY <1>1, <1>7, <2>2, <3>1 DEF Ends, Begin, End
    <3>3. x[k] = 23
      BY <1>7, <3>2
    <3>4. k < M /\ x[k + 1] = 18
      BY <1>4, <3>2, <3>3
    <3>5. k + 1 \in 1..M /\ 2 + (k + 1) = i + 1
      BY <1>1, <3>2, <3>4
    <3>6. f[i + 1] = 18
      BY <1>7, <3>4, <3>5
    <3> QED
      BY <3>2, <3>6
  <2> QED
    BY <2>1, <2>2
<1>9. (CHOOSE i \in Ends(f) : \A j \in Ends(f) : i <= j) = M + 3
  <2>1. M + 3 <= M + 3
    BY <1>1
  <2> QED
    BY <1>8, <2>1
<1>10. SubSeq(f, 3, (Len(f) - 1) - 1) = x
  <2>1. (Len(f) - 1) - 1 = M + 2 /\ Len(f) \in Nat
    BY <1>1, <1>7
  <2> DEFINE g == SubSeq(f, 3, M + 2)
  <2>2. \A i \in 3..(M + 2) : f[i] \in Nat
    <3>1. \A i \in 3..(M + 2) : i \in 1..Len(f)
      BY <1>1, <1>7
    <3> QED
      BY <1>7, <3>1, ElementOfSeq
  <2>3. /\ g \in Seq(Nat) /\ Len(g) = IF 3 <= M + 2 THEN (M + 2) - 3 + 1 ELSE 0
        /\ \A i \in 1..((M + 2) - 3 + 1) : g[i] = f[3 + i - 1]
    <3>1. 3 \in Int /\ M + 2 \in Int
      BY <1>1
    <3> QED
      BY <2>2, <3>1, SubSeqProperties
  <2> HIDE DEF g
  <2>4. Len(g) = M /\ (M + 2) - 3 + 1 = M
    BY <1>1, <2>3
  <2>5. ASSUME NEW i \in 1..Len(g) PROVE g[i] = x[i]
    <3>1. i \in 1..M /\ i \in 1..((M + 2) - 3 + 1) /\ 3 + i - 1 = 2 + i
      BY <1>1, <2>4
    <3> QED
      BY <1>7, <2>3, <3>1
  <2>6. g = x
    BY <1>1, <2>3, <2>4, <2>5, SeqEqual
  <2> QED
    BY <2>1, <2>6 DEF g
<1>11. Len(f) - 1 = M + 3 /\ Len(f) \in Nat
  BY <1>1, <1>7
<1> QED
  BY <1>5, <1>7, <1>9, <1>10, <1>11 DEF Begin, Start
-----------------------------------------------------------------------------
(* The CRC *)

LEMMA Ranges ==
    /\ \A b \in Byte : b \in Nat /\ b * 256 \in Nat
    /\ \A w \in Word : w \in Nat
<1>1. \A b \in Byte : b \in Nat /\ b * 256 \in Nat
  BY DEF Byte
<1>2. \A w \in Word : w \in Nat
  BY DEF Word
<1> QED
  BY <1>1, <1>2

\* The two bytes of a number
LEMMA Halves ==
    ASSUME NEW w \in Nat
    PROVE  \E q, r : /\ q = w \div 256 /\ r = w % 256 /\ q \in Nat /\ r \in Byte /\ q * 256 + r = w
                     /\ w \in Word => q \in Byte
<1>1. PICK q \in Nat : q = w \div 256
  OBVIOUS
<1>2. PICK r \in Nat : r = w % 256 /\ r < 256
  OBVIOUS
<1>3. w = q * 256 + r
  BY <1>1, <1>2
<1>4. w < 65536 => q < 256
  BY <1>3
<1>5. w \in Word => q \in Byte
  BY <1>4 DEF Byte, Word
<1>6. r \in Byte
  BY <1>2 DEF Byte
<1> QED
  BY <1>1, <1>2, <1>3, <1>5, <1>6, ZenonT(60)

LEMMA FourBits ==
    ASSUME NEW p \in Nat, NEW r1 \in {0, p}, NEW r2 \in {0, 2 * p}, NEW r3 \in {0, 4 * p}, NEW r4 \in {0, 8 * p}
    PROVE  r1 + r2 + r3 + r4 \in Nat /\ r1 + r2 + r3 + r4 <= 15 * p
OBVIOUS

LEMMA BitIs ==
    ASSUME NEW p \in Nat, NEW a \in Nat, NEW b \in Nat, p > 0
    PROVE  p * ((a \div p + b \div p) % 2) \in {0, p}
<1>1. a \div p \in Nat /\ b \div p \in Nat
  OBVIOUS
<1>2. (a \div p + b \div p) % 2 \in {0, 1}
  BY <1>1
<1> QED
  BY <1>2

LEMMA XorIs ==
    ASSUME NEW a \in Nat, NEW b \in Nat
    PROVE  Xor(a, b) \in Word /\ (a \in Byte /\ b \in Byte => Xor(a, b) \in Byte)
<1> DEFINE bit(p) == p * ((a \div p + b \div p) % 2)
<1>1. Xor(a, b) = (bit(1) + bit(2 * 1) + bit(4 * 1) + bit(8 * 1))
                  + (bit(16) + bit(2 * 16) + bit(4 * 16) + bit(8 * 16))
                  + (bit(256) + bit(2 * 256) + bit(4 * 256) + bit(8 * 256))
                  + (bit(4096) + bit(2 * 4096) + bit(4 * 4096) + bit(8 * 4096))
  BY DEF Xor
<1>2. \A p \in Nat : p > 0 => bit(p) \in {0, p}
  BY BitIs
<1>3. ASSUME a \in Byte, b \in Byte
      PROVE  \A p \in {256, 2 * 256, 4 * 256, 8 * 256, 4096, 2 * 4096, 4 * 4096, 8 * 4096} : bit(p) = 0
  <2> SUFFICES ASSUME NEW p \in {256, 512, 1024, 2048, 4096, 8192, 16384, 32768} PROVE bit(p) = 0
    OBVIOUS
  <2>1. a \div p = 0 /\ b \div p = 0
    BY <1>3 DEF Byte
  <2>2. (a \div p + b \div p) % 2 = 0
    BY <2>1
  <2> QED
    BY <2>2
<1> HIDE DEF bit
<1>4. /\ bit(1) \in {0, 1} /\ bit(2 * 1) \in {0, 2} /\ bit(4 * 1) \in {0, 4} /\ bit(8 * 1) \in {0, 8}
      /\ bit(16) \in {0, 16} /\ bit(2 * 16) \in {0, 32} /\ bit(4 * 16) \in {0, 64} /\ bit(8 * 16) \in {0, 128}
      /\ bit(256) \in {0, 256} /\ bit(2 * 256) \in {0, 512} /\ bit(4 * 256) \in {0, 1024}
      /\ bit(8 * 256) \in {0, 2048}
      /\ bit(4096) \in {0, 4096} /\ bit(2 * 4096) \in {0, 8192} /\ bit(4 * 4096) \in {0, 16384}
      /\ bit(8 * 4096) \in {0, 32768}
  BY <1>2
<1> DEFINE four(p) == bit(p) + bit(2 * p) + bit(4 * p) + bit(8 * p)
<1>5. Xor(a, b) \in Word
  <2>1. PICK q1, q2, q3, q4 : q1 = four(1) /\ q2 = four(16) /\ q3 = four(256) /\ q4 = four(4096)
    OBVIOUS
  <2>2. ASSUME NEW p \in Nat, p > 0 PROVE four(p) \in Nat /\ four(p) <= 15 * p
    <3>1. bit(p) \in {0, p} /\ bit(2 * p) \in {0, 2 * p} /\ bit(4 * p) \in {0, 4 * p} /\ bit(8 * p) \in {0, 8 * p}
      BY <1>2, <2>2
    <3> QED
      BY <3>1, FourBits
  <2>3. Xor(a, b) = q1 + q2 + q3 + q4
    BY <1>1, <2>1
  <2> HIDE DEF four
  <2>4. /\ q1 \in Nat /\ q2 \in Nat /\ q3 \in Nat /\ q4 \in Nat
        /\ q1 <= 15 * 1 /\ q2 <= 15 * 16 /\ q3 <= 15 * 256 /\ q4 <= 15 * 4096
    BY <2>1, <2>2
  <2>5. q1 + q2 + q3 + q4 \in Nat /\ q1 + q2 + q3 + q4 < 65536
    BY <2>4
  <2> QED
    BY <2>3, <2>5 DEF Word
<1>6. ASSUME a \in Byte, b \in Byte PROVE Xor(a, b) \in Byte
  BY <1>1, <1>3, <1>4, <1>6 DEF Byte
<1> QED
  BY <1>5, <1>6

LEMMA RemainderIs ==
    ASSUME NEW byte \in Byte
    PROVE  Remainder(byte) \in Word
<1> DEFINE Step(v) == IF v >= 32768 THEN Xor((2 * v) % 65536, 4129) ELSE (2 * v) % 65536
           F == [n \in 1..8 |-> [v \in Word |-> Step(v)]]
           Fits(g) == g = [n \in 0..8 |-> IF n = 0 THEN byte * 256 ELSE Step(g[n - 1])]
<1>1. byte * 256 \in Word
  BY DEF Byte, Word
<1>2. ASSUME NEW v \in Word PROVE Step(v) \in Word
  <2>1. (2 * v) % 65536 \in Word /\ (2 * v) % 65536 \in Nat
    <3>1. v \in Nat
      BY DEF Word
    <3>2. (2 * v) % 65536 \in Nat /\ (2 * v) % 65536 < 65536
      BY <3>1
    <3> QED
      BY <3>2 DEF Word
  <2>2. Xor((2 * v) % 65536, 4129) \in Word
    BY <2>1, XorIs
  <2> QED
    BY <2>1, <2>2
<1> HIDE DEF Step
<1>3. F \in [1..8 -> [Word -> Word]]
  BY <1>2
<1> HIDE DEF F
<1>4. PICK h : Recurs(h, Word, byte * 256, 8, F)
  BY <1>1, <1>3, Recursion
<1>5. h \in [0..8 -> Word] /\ h[0] = byte * 256
  BY <1>4 DEF Recurs
<1>6. ASSUME NEW n \in 1..8 PROVE h[n] = Step(h[n - 1])
  <2>1. h[n] = F[n][h[n - 1]] /\ n - 1 \in 0..8
    BY <1>4 DEF Recurs
  <2> QED
    BY <1>5, <2>1 DEF F
<1>7. Fits(h)
  BY <1>5, <1>6
<1>8. Fits(CHOOSE g : Fits(g))
  <2> HIDE DEF Fits
  <2> QED
    BY <1>7, Zenon
<1>9. Remainder(byte) = (CHOOSE g : Fits(g))[8]
  BY DEF Remainder, Step
<1>10. PICK g : Fits(g) /\ Remainder(byte) = g[8]
  <2> HIDE DEF Fits
  <2> QED
    BY <1>8, <1>9, Zenon
<1> DEFINE P == {n \in 0..8 : g[n] \in Word}
<1>11. 0 \in P
  BY <1>1, <1>10
<1>12. ASSUME NEW n \in 1..8, n - 1 \in P PROVE n \in P
  <2>1. g[n] = Step(g[n - 1])
    BY <1>10
  <2> QED
    BY <1>2, <1>12, <2>1
<1> HIDE DEF P
<1>13. 8 \in P
  <2>1. 8 \in Nat /\ 8 \in 0..8
    OBVIOUS
  <2> QED
    BY <1>11, <1>12, <2>1, UpTo
<1> QED
  BY <1>10, <1>13 DEF P

LEMMA TableIs == Crc16Table \in [Byte -> Word] /\ CcittTable \in [Byte -> Word]
<1>1. ASSUME NEW i \in 0..255 PROVE CcittTable[i] \in Word /\ i \in Byte
  BY RemainderIs DEF CcittTable, Byte
<1>2. ASSUME NEW i \in 0..255
      PROVE  (IF i % 8 = 0 THEN CcittTable[i] \div 16 ELSE CcittTable[i]) \in Word
  <2>1. CcittTable[i] \div 16 \in Word
    <3>1. ASSUME NEW w \in Word PROVE w \div 16 \in Word
      BY DEF Word
    <3> QED
      BY <1>1, <3>1
  <2> QED
    BY <1>1, <2>1
<1>3. CcittTable \in [Byte -> Word]
  BY RemainderIs DEF CcittTable, Byte
<1> QED
  BY <1>2, <1>3 DEF Crc16Table, Byte

LEMMA CrcByIs ==
    ASSUME NEW T \in [Byte -> Word], NEW bytes \in Seq(Byte)
    PROVE  CrcBy(T, bytes) \in Word
<1> DEFINE N == Len(bytes)
           Step(n, v) == Xor((v % 256) * 256, T[Xor(v \div 256, bytes[n])])
           F == [n \in 1..N |-> [v \in Word |-> Step(n, v)]]
           Fits(g) == g = [n \in 0..N |-> IF n = 0 THEN 65535 ELSE Step(n, g[n - 1])]
<1>1. N \in Nat /\ 65535 \in Word /\ N \in 0..N
  BY LenProperties DEF Word
<1>2. ASSUME NEW n \in 1..N, NEW v \in Word PROVE Step(n, v) \in Word
  <2>1. bytes[n] \in Byte /\ bytes[n] \in Nat
    <3>1. bytes[n] \in Byte
      BY ElementOfSeq
    <3> QED
      BY <3>1 DEF Byte
  <2>2. v \div 256 \in Byte /\ v \div 256 \in Nat /\ (v % 256) * 256 \in Nat
    <3>1. v \in Nat
      BY DEF Word
    <3>2. PICK q, r : q = v \div 256 /\ r = v % 256 /\ q \in Byte /\ r \in Byte
      BY <3>1, Halves, ZenonT(60)
    <3>3. q \in Nat /\ r * 256 \in Nat
      BY <3>2, Ranges
    <3> QED
      BY <3>2, <3>3, Zenon
  <2>3. Xor(v \div 256, bytes[n]) \in Byte
    BY <2>1, <2>2, XorIs
  <2>4. T[Xor(v \div 256, bytes[n])] \in Word /\ T[Xor(v \div 256, bytes[n])] \in Nat
    <3>1. T[Xor(v \div 256, bytes[n])] \in Word
      BY <2>3
    <3> QED
      BY <3>1, Ranges
  <2> QED
    BY <2>2, <2>4, XorIs
<1> HIDE DEF Step
<1>3. F \in [1..N -> [Word -> Word]]
  BY <1>2
<1> HIDE DEF F, N
<1>4. PICK h : Recurs(h, Word, 65535, N, F)
  BY <1>1, <1>3, Recursion
<1> USE DEF N
<1>5. h \in [0..N -> Word] /\ h[0] = 65535
  BY <1>4 DEF Recurs
<1>6. ASSUME NEW n \in 1..N PROVE h[n] = Step(n, h[n - 1])
  <2>1. h[n] = F[n][h[n - 1]] /\ n - 1 \in 0..N
    BY <1>1, <1>4 DEF Recurs
  <2> QED
    BY <1>5, <2>1 DEF F
<1>7. Fits(h)
  BY <1>5, <1>6
<1>8. Fits(CHOOSE g : Fits(g))
  <2> HIDE DEF Fits
  <2> QED
    BY <1>7, Zenon
<1>9. CrcBy(T, bytes) = (CHOOSE g : Fits(g))[N]
  BY DEF CrcBy, Step
<1>10. PICK g : Fits(g) /\ CrcBy(T, bytes) = g[N]
  <2> HIDE DEF Fits
  <2> QED
    BY <1>8, <1>9, Zenon
<1> DEFINE P == {n \in 0..N : g[n] \in Word}
<1>11. 0 \in P
  BY <1>1, <1>10
<1>12. ASSUME NEW n \in 1..N, n - 1 \in P PROVE n \in P
  <2>1. g[n] = Step(n, g[n - 1]) /\ n \in 0..N
    BY <1>1, <1>10, SMTT(60)
  <2> QED
    BY <1>2, <1>12, <2>1
<1> HIDE DEF P
<1> HIDE DEF N
<1>13. N \in P
  <2>1. N \in Nat /\ N \in 0..N
    BY <1>1
  <2>2. \A n \in 1..N : n - 1 \in P => n \in P
    BY <1>12
  <2>3. \A n \in 0..N : n \in P
    BY <1>11, <2>1, <2>2, UpTo
  <2> QED
    BY <2>1, <2>3
<1> QED
  BY <1>10, <1>13 DEF P

LEMMA CrcIs ==
    ASSUME NEW bytes \in Seq(Byte)
    PROVE  calc_crc(bytes) \in Word /\ Ccitt(bytes) \in Word
BY TableIs, CrcByIs DEF calc_crc, Ccitt

-----------------------------------------------------------------------------
(* Where the parts of a packet lie *)

\* z is x and then y.
JoinOf(z, x, y) ==
    /\ Len(x) \in Nat /\ Len(y) \in Nat /\ Len(z) = Len(x) + Len(y)
    /\ \A i \in 1..Len(x) : z[i] = x[i]
    /\ \A i \in 1..Len(y) : z[Len(x) + i] = y[i]

LEMMA Joins ==
    ASSUME NEW S, NEW x \in Seq(S), NEW y \in Seq(S)
    PROVE  x \o y \in Seq(S) /\ JoinOf(x \o y, x, y)
BY ConcatAt DEF JoinOf

LEMMA BytesAreNumbers == Seq(Byte) \subseteq Seq(Nat)
<1>1. Byte \subseteq Nat
  BY Ranges
<1> SUFFICES ASSUME NEW x \in Seq(Byte) PROVE x \in Seq(Nat)
  OBVIOUS
<1>2. Len(x) \in Nat /\ x \in [1..Len(x) -> Byte]
  BY LenProperties
<1>3. x \in [1..Len(x) -> Nat]
  BY <1>1, <1>2
<1> QED
  BY <1>2, <1>3, SeqDef

LEMMA ShortIs ==
    ASSUME NEW w \in Word
    PROVE  /\ Short(w) \in Seq(Byte) /\ Len(Short(w)) = 2 /\ Short(w)[1] * 256 + Short(w)[2] = w
           /\ Word16(w) \in Seq(Byte) /\ Len(Word16(w)) = 2 /\ Word16(w)[1] + 256 * Word16(w)[2] = w
<1>1. PICK q, r : q = w \div 256 /\ r = w % 256 /\ q \in Byte /\ r \in Byte /\ q * 256 + r = w
  BY Ranges, Halves, ZenonT(60)
<1>2. Short(w) = <<q, r>> /\ Word16(w) = <<r, q>>
  BY <1>1 DEF Short, Word16
<1>3. r + 256 * q = w
  <2>1. q \in Nat /\ r \in Nat /\ w \in Nat
    BY <1>1, Ranges
  <2> QED
    BY <1>1, <2>1
<1> QED
  BY <1>1, <1>2, <1>3

LEMMA FunctionIsSeq ==
    ASSUME NEW S, NEW n \in Nat, NEW f \in [1..n -> S]
    PROVE  f \in Seq(S) /\ Len(f) = n
<1>1. f \in Seq(S)
  BY SeqDef
<1> QED
  BY <1>1, LenProperties

LEMMA ByteIs ==
    ASSUME NEW b \in Byte
    PROVE  <<b>> \in Seq(Byte) /\ Len(<<b>>) = 1 /\ <<b>>[1] = b
OBVIOUS

LEMMA AddressIs ==
    ASSUME NEW n \in Nat
    PROVE  AddressBytes(n) \in Seq(Byte) /\ Len(AddressBytes(n)) = 3 /\ AddressBytes(n)[3] = n % 256
<1>1. PICK u : u = n \div 65536 /\ u \in Nat
  OBVIOUS
<1>2. PICK v : v = n \div 256 /\ v \in Nat
  OBVIOUS
<1>3. u % 256 \in Byte /\ v % 256 \in Byte /\ n % 256 \in Byte
  BY <1>1, <1>2, Halves
<1>4. AddressBytes(n) = <<u % 256, v % 256, n % 256>>
  BY <1>1, <1>2 DEF AddressBytes
<1> QED
  BY <1>3, <1>4

\* Length, address and type are in front of every packet.
HeadAt(h, length, n, type) ==
    /\ h \in Seq(Byte) /\ Len(h) = 6
    /\ h[1] * 256 + h[2] = length /\ h[5] = n % 256 /\ h[6] = type

LEMMA HeadIs ==
    ASSUME NEW length \in Word, NEW n \in Nat, NEW type \in Byte,
           NEW h, h = Short(length) \o AddressBytes(n) \o <<type>>
    PROVE  HeadAt(h, length, n, type)
<1> DEFINE x == Short(length)
           a == AddressBytes(n)
           y == x \o a
<1>1. /\ x \in Seq(Byte) /\ Len(x) = 2 /\ x[1] * 256 + x[2] = length
      /\ a \in Seq(Byte) /\ Len(a) = 3 /\ a[3] = n % 256
  BY ShortIs, AddressIs
<1> HIDE DEF x, a
<1>2. /\ y \in Seq(Byte) /\ Len(y) = 5 /\ \A i \in 1..2 : y[i] = x[i]
      /\ \A i \in 1..3 : y[2 + i] = a[i]
  <2>1. y \in Seq(Byte) /\ JoinOf(y, x, a)
    BY <1>1, Joins, Zenon
  <2> HIDE DEF y
  <2> QED
    BY <1>1, <2>1 DEF JoinOf
<1> DEFINE t == <<type>>
<1>3. t \in Seq(Byte) /\ Len(t) = 1 /\ t[1] = type
  BY ByteIs
<1>4. h = y \o t
  BY DEF x, a
<1> HIDE DEF y, t
<1>5. /\ h \in Seq(Byte) /\ Len(h) = 6 /\ \A i \in 1..5 : h[i] = y[i]
      /\ \A i \in 1..1 : h[5 + i] = t[i]
  <2>1. h \in Seq(Byte) /\ JoinOf(h, y, t)
    BY <1>2, <1>3, <1>4, Joins, Zenon
  <2> QED
    BY <1>2, <1>3, <2>1 DEF JoinOf
<1>6. h[1] = x[1] /\ h[2] = x[2] /\ h[5] = a[3] /\ h[6] = t[1]
  <2>1. h[1] = y[1] /\ h[2] = y[2] /\ h[5] = y[5] /\ h[5 + 1] = t[1]
    BY <1>5
  <2>2. y[1] = x[1] /\ y[2] = x[2] /\ y[2 + 3] = a[3] /\ 2 + 3 = 5 /\ 5 + 1 = 6
    BY <1>2
  <2> QED
    BY <2>1, <2>2
<1> QED
  BY <1>1, <1>3, <1>5, <1>6, ZenonT(60) DEF HeadAt

\* The CRC is behind what it was computed of.
LEMMA ClosedIs ==
    ASSUME NEW data \in Seq(Byte), NEW w \in Word, NEW body, body = Closed(data, w)
    PROVE  /\ body \in Seq(Byte) /\ Len(data) \in Nat /\ Len(body) = Len(data) + 2
           /\ \A i \in 1..Len(data) : body[i] = data[i]
           /\ SubSeq(body, 1, Len(data)) = data
           /\ body[Len(data) + 1] * 256 + body[Len(data) + 2] = w
<1> DEFINE c == Short(w)
<1>1. c \in Seq(Byte) /\ Len(c) = 2 /\ c[1] * 256 + c[2] = w
  BY ShortIs
<1>2. body = data \o c
  BY DEF Closed
<1> HIDE DEF c
<1>3. /\ body \in Seq(Byte) /\ Len(data) \in Nat /\ Len(body) = Len(data) + 2
      /\ \A i \in 1..Len(data) : body[i] = data[i]
      /\ \A i \in 1..2 : body[Len(data) + i] = c[i]
  <2>1. body \in Seq(Byte) /\ JoinOf(body, data, c)
    BY <1>1, <1>2, Joins, Zenon
  <2> QED
    BY <1>1, <2>1 DEF JoinOf
<1>4. SubSeq(body, 1, Len(data)) = data
  <2> DEFINE g == SubSeq(body, 1, Len(data))
             L == Len(data)
  <2>1. \A i \in 1..L : body[i] \in Byte
    BY <1>3, ElementOfSeq
  <2>2. /\ g \in Seq(Byte) /\ Len(g) = IF 1 <= L THEN L - 1 + 1 ELSE 0
        /\ \A i \in 1..(L - 1 + 1) : g[i] = body[1 + i - 1]
    <3>1. 1 \in Int /\ L \in Int
      BY <1>3
    <3> QED
      BY <2>1, <3>1, SubSeqProperties
  <2> HIDE DEF g
  <2>3. Len(g) = L /\ L - 1 + 1 = L /\ \A i \in 1..L : 1 + i - 1 = i
    BY <1>3, <2>2
  <2>4. \A i \in 1..Len(g) : g[i] = data[i]
    BY <1>3, <2>2, <2>3
  <2> QED
    BY <2>2, <2>3, <2>4, SeqEqual DEF g
<1>5. body[Len(data) + 1] = c[1] /\ body[Len(data) + 2] = c[2]
  BY <1>3
<1> QED
  BY <1>1, <1>3, <1>4, <1>5
LEMMA Times ==
    ASSUME NEW w \in Nat, NEW a \in Nat, NEW b \in Nat, a <= b
    PROVE  w * a \in Nat /\ w * a <= w * b /\ w * (a + 1) = w * a + w
<1>1. PICK c \in Nat : b = a + c
  <2>1. b - a \in Nat /\ b = a + (b - a)
    OBVIOUS
  <2> QED
    BY <2>1
<1>2. w * b = w * a + w * c /\ w * c \in Nat /\ w * a \in Nat
  BY <1>1
<1> QED
  BY <1>2

\* z is of pieces of w each: the i-th begins w * (i - 1) behind the beginning.
PiecesOf(z, w, ss) ==
    /\ Len(z) = w * Len(ss)
    /\ \A i \in 1..Len(ss) : \A t \in 1..w : z[w * (i - 1) + t] = ss[i][t]

LEMMA PiecesAt ==
    ASSUME NEW S, NEW w \in Nat, NEW ss \in Seq(Seq(S)), \A i \in 1..Len(ss) : Len(ss[i]) = w
    PROVE  FlattenSeq(ss) \in Seq(S) /\ PiecesOf(FlattenSeq(ss), w, ss)
<1>1. PICK h : Joined(h, ss, S) /\ FlattenSeq(ss) = h[Len(ss)]
  BY FlattenIs
<1> DEFINE N == Len(ss)
           Good(m, z) == /\ Len(z) = w * m
                         /\ \A i \in 1..m : \A t \in 1..w : z[w * (i - 1) + t] = ss[i][t]
           P == {m \in 0..N : Good(m, h[m])}
<1>2. N \in Nat /\ h \in [0..N -> Seq(S)] /\ \A i \in 1..N : ss[i] \in Seq(S)
  BY <1>1, LenProperties, ElementOfSeq DEF Joined
<1>3. 0 \in P
  <2>1. h[0] = <<>> /\ Len(h[0]) = 0 /\ w * 0 = 0 /\ 0 \in 0..N
    BY <1>1, <1>2, EmptySeq DEF Joined
  <2> QED
    BY <2>1
<1>4. ASSUME NEW n \in 1..N, n - 1 \in P PROVE n \in P
  <2>1. PICK u, x, z, k : u = h[n - 1] /\ x = ss[n] /\ z = h[n] /\ k = n - 1
    OBVIOUS
  <2>2. k \in Nat /\ k \in 0..N /\ n = k + 1 /\ n \in 0..N
    BY <1>2, <2>1
  <2>3. u \in Seq(S) /\ x \in Seq(S) /\ z = u \o x
    BY <1>1, <1>2, <2>1, <2>2 DEF Joined
  <2>4. JoinOf(z, u, x)
    BY <2>3, Joins, Zenon
  <2>5. Good(k, u) /\ Len(x) = w
    BY <1>4, <2>1
  <2>6. Len(z) = w * n
    <3>1. w * n = w * k + w
      BY <2>2, Times
    <3> QED
      BY <2>4, <2>5, <3>1 DEF JoinOf
  <2>7. ASSUME NEW i \in 1..n, NEW t \in 1..w PROVE z[w * (i - 1) + t] = ss[i][t]
    <3>1. CASE i = n
      <4>1. w * (i - 1) + t = Len(u) + t
        BY <2>2, <2>5, <3>1
      <4>2. t \in 1..Len(x)
        BY <2>5
      <4> QED
        BY <2>1, <2>4, <3>1, <4>1, <4>2 DEF JoinOf
    <3>2. CASE i # n
      <4>1. i \in 1..k /\ i - 1 \in Nat /\ (i - 1) + 1 = i /\ i - 1 <= k /\ i <= k /\ i \in Nat
        BY <2>2, <3>2
      <4>2. PICK j : j = i - 1
        OBVIOUS
      <4>3. j \in Nat /\ j <= k /\ j + 1 = i
        BY <4>1, <4>2
      <4>4. w * j \in Nat /\ w * i = w * j + w
        BY <2>2, <4>3, Times
      <4>5. w * i \in Nat /\ w * i <= w * k
        BY <2>2, <4>1, Times
      <4>6. w * j + t \in 1..Len(u)
        BY <2>4, <2>5, <4>4, <4>5 DEF JoinOf
      <4>7. u[w * (i - 1) + t] = ss[i][t]
        BY <2>5, <4>1
      <4>8. z[w * j + t] = u[w * j + t]
        BY <2>4, <4>6 DEF JoinOf
      <4> QED
        BY <4>2, <4>7, <4>8
    <3> QED
      BY <3>1, <3>2
  <2> QED
    BY <2>1, <2>2, <2>6, <2>7
<1> HIDE DEF P
<1>5. N \in P
  <2>1. N \in 0..N
    BY <1>2
  <2> QED
    BY <1>2, <1>3, <1>4, <2>1, UpTo
<1>6. Good(N, h[N]) /\ h[N] \in Seq(S)
  BY <1>2, <1>5 DEF P
<1> HIDE DEF N
<1>7. FlattenSeq(ss) = h[N]
  BY <1>1 DEF N
<1> QED
  BY <1>6, <1>7 DEF N, PiecesOf
\* An event is nine bytes.
LEMMA EventIs ==
    ASSUME NEW e \in [type : Byte, desc : Word, time : [1..6 -> Byte]],
           NEW x, x = <<e.type>> \o Short(e.desc) \o e.time
    PROVE  /\ x \in Seq(Byte) /\ Len(x) = 9
           /\ x[1] = e.type /\ x[2] * 256 + x[3] = e.desc /\ \A t \in 1..6 : x[3 + t] = e.time[t]
<1>1. e.type \in Byte /\ e.desc \in Word /\ e.time \in [1..6 -> Byte]
  OBVIOUS
<1>2. PICK a, s, t, y : a = <<e.type>> /\ s = Short(e.desc) /\ t = e.time /\ y = a \o s
  OBVIOUS
<1>3. a \in Seq(Byte) /\ Len(a) = 1 /\ a[1] = e.type
  BY <1>1, <1>2, ByteIs
<1>4. s \in Seq(Byte) /\ Len(s) = 2 /\ s[1] * 256 + s[2] = e.desc
  BY <1>1, <1>2, ShortIs
<1>5. t \in Seq(Byte) /\ Len(t) = 6
  <2>1. PICK n \in Nat : n = 6
    OBVIOUS
  <2>2. t \in [1..n -> Byte]
    BY <1>1, <1>2, <2>1
  <2>3. t \in Seq(Byte) /\ Len(t) = n
    BY <2>2, FunctionIsSeq
  <2> QED
    BY <2>1, <2>3
<1>6. y \in Seq(Byte) /\ JoinOf(y, a, s)
  BY <1>2, <1>3, <1>4, Joins, Zenon
<1>7. x \in Seq(Byte) /\ JoinOf(x, y, t)
  <2>1. x = y \o t
    BY <1>2
  <2> QED
    BY <1>5, <1>6, <2>1, Joins, Zenon
<1>8. Len(y) = 3 /\ y[1] = a[1] /\ y[2] = s[1] /\ y[3] = s[2]
  BY <1>3, <1>4, <1>6 DEF JoinOf
<1>9. Len(x) = 9 /\ x[1] = y[1] /\ x[2] = y[2] /\ x[3] = y[3] /\ \A k \in 1..6 : x[3 + k] = t[k]
  <2>1. Len(x) = 3 + 6 /\ (\A k \in 1..3 : x[k] = y[k]) /\ \A k \in 1..6 : x[3 + k] = t[k]
    BY <1>5, <1>7, <1>8 DEF JoinOf
  <2> QED
    BY <2>1, SMTT(60)
<1> QED
  BY <1>2, <1>3, <1>4, <1>7, <1>8, <1>9

EventsAt(z, k, events) ==
    /\ z \in Seq(Byte) /\ Len(z) = 9 * k /\ Len(events) = k
    /\ \A i \in 1..k :
          /\ z[9 * (i - 1) + 1] = events[i].type
          /\ z[9 * (i - 1) + 2] * 256 + z[9 * (i - 1) + 3] = events[i].desc
          /\ \A t \in 1..6 : z[9 * (i - 1) + (3 + t)] = events[i].time[t]

LEMMA EventsAre ==
    ASSUME NEW k \in Nat, NEW events \in [1..k -> Events], NEW z, z = EventBytes(events)
    PROVE  EventsAt(z, k, events)
<1> DEFINE ss == [i \in 1..Len(events) |-> <<events[i].type>> \o Short(events[i].desc) \o events[i].time]
<1>1. events \in Seq(Events) /\ Len(events) = k
  BY FunctionIsSeq
<1>2. ASSUME NEW i \in 1..k
      PROVE  /\ ss[i] \in Seq(Byte) /\ Len(ss[i]) = 9
             /\ ss[i][1] = events[i].type /\ ss[i][2] * 256 + ss[i][3] = events[i].desc
             /\ \A t \in 1..6 : ss[i][3 + t] = events[i].time[t]
  <2>1. events[i] \in [type : Byte, desc : Word, time : [1..6 -> Byte]]
    BY FramingAssumption DEF FramingAssumption
  <2>2. PICK e : e = events[i]
    OBVIOUS
  <2>3. ss[i] = <<e.type>> \o Short(e.desc) \o e.time
    BY <1>1, <2>2
  <2> HIDE DEF ss
  <2> QED
    BY <2>1, <2>2, <2>3, EventIs
<1>3. ss \in Seq(Seq(Byte)) /\ Len(ss) = k
  <2>1. ss \in [1..k -> Seq(Byte)]
    BY <1>1, <1>2
  <2> HIDE DEF ss
  <2> QED
    BY <2>1, FunctionIsSeq
<1>4. z = FlattenSeq(ss)
  BY DEF EventBytes
<1> HIDE DEF ss
<1>5. /\ z \in Seq(Byte) /\ Len(z) = 9 * k
      /\ \A i \in 1..k : \A t \in 1..9 : z[9 * (i - 1) + t] = ss[i][t]
  <2>1. 9 \in Nat /\ \A i \in 1..Len(ss) : Len(ss[i]) = 9
    BY <1>2, <1>3
  <2>2. z \in Seq(Byte) /\ PiecesOf(z, 9, ss)
    BY <1>3, <1>4, <2>1, PiecesAt, Zenon
  <2> QED
    BY <1>3, <2>2 DEF PiecesOf
<1>6. ASSUME NEW i \in 1..k
      PROVE  /\ z[9 * (i - 1) + 1] = events[i].type
             /\ z[9 * (i - 1) + 2] * 256 + z[9 * (i - 1) + 3] = events[i].desc
             /\ \A t \in 1..6 : z[9 * (i - 1) + (3 + t)] = events[i].time[t]
  <2>1. \A t \in 1..9 : z[9 * (i - 1) + t] = ss[i][t]
    BY <1>5
  <2>2. 1 \in 1..9 /\ 2 \in 1..9 /\ 3 \in 1..9 /\ \A t \in 1..6 : 3 + t \in 1..9
    OBVIOUS
  <2>3. PICK p : p = 9 * (i - 1)
    OBVIOUS
  <2>4. z[p + 1] = ss[i][1] /\ z[p + 2] = ss[i][2] /\ z[p + 3] = ss[i][3] /\ \A t \in 1..6 : z[p + (3 + t)] = ss[i][3 + t]
    BY <2>1, <2>2, <2>3
  <2> QED
    BY <1>2, <2>3, <2>4
<1> QED
  BY <1>1, <1>5, <1>6 DEF EventsAt

AnalogsAt(z, analog) ==
    /\ z \in Seq(Byte) /\ Len(z) = 8
    /\ \A i \in 1..4 : z[2 * (i - 1) + 1] + 256 * z[2 * (i - 1) + 2] = analog[i]

LEMMA AnalogsAre ==
    ASSUME NEW analog \in [1..4 -> Word], NEW z, z = FlattenSeq([i \in 1..4 |-> Word16(analog[i])])
    PROVE  AnalogsAt(z, analog)
<1> DEFINE ss == [i \in 1..4 |-> Word16(analog[i])]
<1>1. ASSUME NEW i \in 1..4
      PROVE  ss[i] \in Seq(Byte) /\ Len(ss[i]) = 2 /\ ss[i][1] + 256 * ss[i][2] = analog[i]
  <2>1. analog[i] \in Word /\ ss[i] = Word16(analog[i])
    OBVIOUS
  <2> HIDE DEF ss
  <2> QED
    BY <2>1, ShortIs
<1>2. ss \in Seq(Seq(Byte)) /\ Len(ss) = 4
  <2>1. PICK n \in Nat : n = 4
    OBVIOUS
  <2>2. ss \in [1..n -> Seq(Byte)]
    BY <1>1, <2>1
  <2> HIDE DEF ss
  <2>3. ss \in Seq(Seq(Byte)) /\ Len(ss) = n
    BY <2>2, FunctionIsSeq
  <2> QED
    BY <2>1, <2>3
<1>3. z = FlattenSeq(ss)
  OBVIOUS
<1> HIDE DEF ss
<1>4. /\ z \in Seq(Byte) /\ Len(z) = 8
      /\ \A i \in 1..4 : \A t \in 1..2 : z[2 * (i - 1) + t] = ss[i][t]
  <2>1. 2 \in Nat /\ \A i \in 1..Len(ss) : Len(ss[i]) = 2
    BY <1>1, <1>2
  <2>2. z \in Seq(Byte) /\ PiecesOf(z, 2, ss)
    BY <1>2, <1>3, <2>1, PiecesAt, Zenon
  <2> QED
    BY <1>2, <2>2 DEF PiecesOf
<1>5. ASSUME NEW i \in 1..4 PROVE z[2 * (i - 1) + 1] + 256 * z[2 * (i - 1) + 2] = analog[i]
  <2>1. z[2 * (i - 1) + 1] = ss[i][1] /\ z[2 * (i - 1) + 2] = ss[i][2]
    <3>1. 1 \in 1..2 /\ 2 \in 1..2
      OBVIOUS
    <3> QED
      BY <1>4, <3>1
  <2> QED
    BY <1>1, <2>1
<1> QED
  BY <1>4, <1>5 DEF AnalogsAt
\* What a server reads of a body, by the tests and the positions of OwnPacketsReadBack
ReadsBack(body, what) ==
    LET n == Len(body)
        word(i) == body[i] * 256 + body[i + 1]
        memory(i) == body[i] + 256 * body[i + 1]
        event(i) == [type |-> body[9 * i + 1], desc |-> word(9 * i + 2),
                     time |-> SubSeq(body, 9 * i + 4, 9 * i + 9)]
    IN /\ word(1) = n /\ word(n - 1) = calc_crc(SubSeq(body, 1, n - 2))
       /\ body[5] = num /\ body[6] = what.type
       /\ what.type = 0 =>
             what = [type |-> 0, number |-> word(7), power |-> body[9],
                     events |-> [i \in 1..((n - 11) \div 9) |-> event(i)]]
       /\ what.type = 4 =>
             what.pins = [input |-> memory(7), analog |-> [i \in 1..4 |-> memory(7 + 2 * i)],
                          output |-> body[17]]

LEMMA FrameReadsBack ==
    ASSUME NEW body \in Seq(Byte), NEW what, ReadsBack(body, what),
           out = [frame |-> Framed(body), what |-> what]
    PROVE  OwnPacketsReadBack
<1>1. out.frame = Framed(body) /\ out.what = what /\ body \in Seq(Nat)
  BY BytesAreNumbers
<1>2. /\ out.frame[1] = Begin /\ out.frame[2] = Start
      /\ (CHOOSE i \in Ends(out.frame) : \A j \in Ends(out.frame) : i <= j) = Len(out.frame) - 1
      /\ Unstuff(SubSeq(out.frame, 3, (Len(out.frame) - 1) - 1)) = body
  BY <1>1, FrameIsRead, Zenon
<1>3. /\ out.frame[1] = Begin /\ out.frame[1 + 1] = Start
      /\ (CHOOSE i \in Ends(out.frame) : \A j \in Ends(out.frame) : i <= j) = Len(out.frame) - 1
      /\ Unstuff(SubSeq(out.frame, 3, (CHOOSE i \in Ends(out.frame) : \A j \in Ends(out.frame) : i <= j) - 1)) = body
  <2>1. 1 + 1 = 2
    OBVIOUS
  <2> QED
    BY <1>2, <2>1, Zenon
<1>4. ReadsBack(body, out.what)
  BY <1>1
<1> DEFINE first == CHOOSE i \in Ends(out.frame) : \A j \in Ends(out.frame) : i <= j
           read == Unstuff(SubSeq(out.frame, 3, first - 1))
<1>5. /\ out.frame[1] = Begin /\ out.frame[1 + 1] = Start /\ first = Len(out.frame) - 1
      /\ ReadsBack(read, out.what)
  BY <1>3, <1>4, Zenon
<1> QED
  BY <1>5 DEF OwnPacketsReadBack, ReadsBack, Ends

\* The number and the CRC of a closed packet
ClosedAt(body, data, length) ==
    /\ body \in Seq(Byte) /\ Len(body) = length /\ length - 2 = Len(data)
    /\ body[length - 1] * 256 + body[(length - 1) + 1] = calc_crc(SubSeq(body, 1, length - 2))
    /\ \A i \in 1..Len(data) : body[i] = data[i]

LEMMA EndsAreRead ==
    ASSUME NEW data \in Seq(Byte), NEW body, body = Closed(data, calc_crc(data)),
           NEW length, length = Len(data) + 2
    PROVE  ClosedAt(body, data, length)
<1>0. PICK w \in Word : w = calc_crc(data)
  BY CrcIs
<1>1. /\ body \in Seq(Byte) /\ Len(data) \in Nat /\ Len(body) = Len(data) + 2
      /\ \A i \in 1..Len(data) : body[i] = data[i]
      /\ SubSeq(body, 1, Len(data)) = data
      /\ body[Len(data) + 1] * 256 + body[Len(data) + 2] = w
  BY <1>0, ClosedIs
<1>2. length - 2 = Len(data) /\ length - 1 = Len(data) + 1 /\ (length - 1) + 1 = Len(data) + 2
  BY <1>1
<1> QED
  BY <1>0, <1>1, <1>2, ZenonT(60) DEF ClosedAt

LEMMA EventBodyIs ==
    ASSUME num \in Nat, num % 256 = num, NEW number \in Word, NEW power \in Byte, NEW k \in 0..2,
           NEW events \in [1..k -> Events],
           NEW body, body = EventBody(number, power, events),
           NEW what, what = [type |-> 0, number |-> number, power |-> power, events |-> events]
    PROVE  body \in Seq(Byte) /\ ReadsBack(body, what)
<1>1. PICK z : z = EventBytes(events)
  OBVIOUS
<1>2. /\ z \in Seq(Byte) /\ Len(z) = 9 * k /\ Len(events) = k
      /\ \A i \in 1..k :
            /\ z[9 * (i - 1) + 1] = events[i].type
            /\ z[9 * (i - 1) + 2] * 256 + z[9 * (i - 1) + 3] = events[i].desc
            /\ \A t \in 1..6 : z[9 * (i - 1) + (3 + t)] = events[i].time[t]
  <2>1. k \in Nat
    OBVIOUS
  <2>2. EventsAt(z, k, events)
    BY <1>1, <2>1, EventsAre, Zenon
  <2> QED
    BY <2>2 DEF EventsAt
<1>3. PICK length : length = 11 + 9 * k /\ length \in Word
  BY DEF Word
<1>4. PICK h, s, p, hs, hp, data :
         /\ h = Short(length) \o AddressBytes(num) \o <<0>> /\ s = Short(number) /\ p = <<power>>
         /\ hs = h \o s /\ hp = hs \o p /\ data = hp \o z
  OBVIOUS
<1>5. /\ h \in Seq(Byte) /\ Len(h) = 6
      /\ h[1] * 256 + h[2] = length /\ h[5] = num % 256 /\ h[6] = 0
  <2>1. 0 \in Byte
    BY DEF Byte
  <2>2. HeadAt(h, length, num, 0)
    BY <1>3, <1>4, <2>1, HeadIs, Zenon
  <2> QED
    BY <2>2 DEF HeadAt
<1>6. /\ s \in Seq(Byte) /\ Len(s) = 2 /\ s[1] * 256 + s[2] = number
      /\ p \in Seq(Byte) /\ Len(p) = 1 /\ p[1] = power
  BY <1>4, ShortIs, ByteIs
<1>7. hs \in Seq(Byte) /\ JoinOf(hs, h, s)
  BY <1>4, <1>5, <1>6, Joins, Zenon
<1>8. hp \in Seq(Byte) /\ JoinOf(hp, hs, p)
  BY <1>4, <1>6, <1>7, Joins, Zenon
<1>9. data \in Seq(Byte) /\ JoinOf(data, hp, z)
  BY <1>2, <1>4, <1>8, Joins, Zenon
<1>10. Len(hs) = 8 /\ (\A i \in 1..6 : hs[i] = h[i]) /\ hs[7] = s[1] /\ hs[8] = s[2]
  <2>1. Len(hs) = 6 + 2 /\ (\A i \in 1..6 : hs[i] = h[i]) /\ \A i \in 1..2 : hs[6 + i] = s[i]
    BY <1>5, <1>6, <1>7 DEF JoinOf
  <2> QED
    BY <2>1
<1>11. Len(hp) = 9 /\ (\A i \in 1..6 : hp[i] = h[i]) /\ hp[7] = s[1] /\ hp[8] = s[2] /\ hp[9] = power
  <2>1. Len(hp) = 8 + 1 /\ (\A i \in 1..8 : hp[i] = hs[i]) /\ \A i \in 1..1 : hp[8 + i] = p[i]
    BY <1>6, <1>8, <1>10 DEF JoinOf
  <2> QED
    BY <1>6, <1>10, <2>1
<1>12. Len(data) = 9 + 9 * k /\ (\A i \in 1..9 : data[i] = hp[i]) /\ \A i \in 1..(9 * k) : data[9 + i] = z[i]
  BY <1>2, <1>9, <1>11 DEF JoinOf
<1>13. body = Closed(data, calc_crc(data))
  BY <1>1, <1>2, <1>3, <1>4 DEF EventBody
<1>14. length = Len(data) + 2
  BY <1>3, <1>12
<1>15. /\ body \in Seq(Byte) /\ Len(body) = length /\ length - 2 = Len(data)
       /\ body[length - 1] * 256 + body[(length - 1) + 1] = calc_crc(SubSeq(body, 1, length - 2))
       /\ \A i \in 1..Len(data) : body[i] = data[i]
  <2>1. ClosedAt(body, data, length)
    BY <1>9, <1>13, <1>14, EndsAreRead, Zenon
  <2> QED
    BY <2>1 DEF ClosedAt
<1>16. (\A i \in 1..9 : body[i] = hp[i]) /\ \A i \in 1..(9 * k) : body[9 + i] = z[i]
  <2>1. \A i \in 1..9 : i \in 1..Len(data)
    BY <1>12
  <2>2. \A i \in 1..(9 * k) : 9 + i \in 1..Len(data)
    BY <1>12
  <2> QED
    BY <1>12, <1>15, <2>1, <2>2
<1>17. /\ body[1] * 256 + body[1 + 1] = length /\ body[5] = num /\ body[6] = 0
       /\ body[7] * 256 + body[7 + 1] = number /\ body[9] = power
  <2>1. /\ body[1] = h[1] /\ body[2] = h[2] /\ body[5] = h[5] /\ body[6] = h[6]
        /\ body[7] = s[1] /\ body[8] = s[2] /\ body[9] = power
    <3>1. \A i \in 1..9 : body[i] = hp[i]
      BY <1>16
    <3>2. /\ body[1] = hp[1] /\ body[2] = hp[2] /\ body[5] = hp[5] /\ body[6] = hp[6]
          /\ body[7] = hp[7] /\ body[8] = hp[8] /\ body[9] = hp[9]
      BY <3>1
    <3>3. hp[1] = h[1] /\ hp[2] = h[2] /\ hp[5] = h[5] /\ hp[6] = h[6]
      BY <1>11
    <3> QED
      BY <1>11, <3>2, <3>3
  <2> QED
    BY <1>5, <1>6, <2>1
<1> DEFINE event(i) == [type |-> body[9 * i + 1], desc |-> body[9 * i + 2] * 256 + body[(9 * i + 2) + 1],
                        time |-> SubSeq(body, 9 * i + 4, 9 * i + 9)]
<1>18. ASSUME NEW i \in 1..k PROVE events[i] = event(i)
  <2>1. PICK e : e = events[i]
    OBVIOUS
  <2>2. e \in [type : Byte, desc : Word, time : [1..6 -> Byte]]
    BY <2>1, FramingAssumption DEF FramingAssumption
  <2>3. PICK q : q = 9 * (i - 1) /\ q \in Nat /\ q + 9 <= 9 * k /\ 9 * i = q + 9
    OBVIOUS
  <2>4. \A t \in 1..9 : body[(q + 9) + t] = z[q + t]
    <3>1. \A t \in 1..9 : q + t \in 1..(9 * k) /\ (q + 9) + t = 9 + (q + t)
      BY <2>3
    <3> QED
      BY <1>16, <3>1
  <2>5. /\ body[(q + 9) + 1] = e.type
        /\ body[(q + 9) + 2] * 256 + body[((q + 9) + 2) + 1] = e.desc
    <3>1. 1 \in 1..9 /\ 2 \in 1..9 /\ 3 \in 1..9 /\ ((q + 9) + 2) + 1 = (q + 9) + 3
      BY <2>3
    <3>2. body[(q + 9) + 1] = z[q + 1] /\ body[(q + 9) + 2] = z[q + 2] /\ body[(q + 9) + 3] = z[q + 3]
      BY <2>4, <3>1
    <3>3. z[q + 1] = e.type /\ z[q + 2] * 256 + z[q + 3] = e.desc
      BY <1>2, <2>1, <2>3
    <3> QED
      BY <3>1, <3>2, <3>3
  <2>6. \A t \in 1..6 : body[(q + 9) + (3 + t)] = e.time[t]
    <3>1. \A t \in 1..6 : 3 + t \in 1..9
      OBVIOUS
    <3>2. \A t \in 1..6 : z[q + (3 + t)] = e.time[t]
      BY <1>2, <2>1, <2>3
    <3> QED
      BY <2>4, <3>1, <3>2
  <2>7. SubSeq(body, (q + 9) + 4, (q + 9) + 9) = e.time
    <3>1. PICK m, n, six, g : /\ m = (q + 9) + 4 /\ n = (q + 9) + 9 /\ six = 6 /\ g = SubSeq(body, m, n)
      OBVIOUS
    <3>2. m \in Int /\ n \in Int /\ m <= n /\ n - m + 1 = six /\ six \in Nat /\ m \in 1..Len(body) /\ n \in 1..Len(body)
      BY <1>3, <1>15, <2>3, <3>1
    <3>3. \A j \in m..n : body[j] \in Byte
      <4>1. \A j \in m..n : j \in 1..Len(body)
        BY <3>2
      <4> QED
        BY <1>15, <4>1, ElementOfSeq
    <3>4. /\ g \in Seq(Byte) /\ Len(g) = n - m + 1 /\ \A j \in 1..(n - m + 1) : g[j] = body[m + j - 1]
      BY <3>1, <3>2, <3>3, SubSeqProperties, SMTT(60)
    <3>5. e.time \in Seq(Byte) /\ Len(e.time) = six
      <4>1. e.time \in [1..six -> Byte]
        BY <2>2, <3>1
      <4>2. six \in Nat
        BY <3>2
      <4> QED
        BY <4>1, <4>2, FunctionIsSeq, Zenon
    <3>6. ASSUME NEW j \in 1..Len(g) PROVE g[j] = e.time[j]
      <4>1. j \in 1..(n - m + 1) /\ j \in 1..6
        BY <3>1, <3>2, <3>4
      <4>2. m + j - 1 = (q + 9) + (3 + j)
        BY <2>3, <3>1, <4>1
      <4>3. g[j] = body[m + j - 1]
        BY <3>4, <4>1
      <4> QED
        BY <2>6, <4>1, <4>2, <4>3
    <3>7. g = e.time
      <4>1. g \in Seq(Byte) /\ e.time \in Seq(Byte) /\ Len(g) = Len(e.time)
        BY <3>2, <3>4, <3>5
      <4> QED
        BY <3>6, <4>1, SeqEqual
    <3> QED
      BY <3>1, <3>7
  <2>8. event(i) = [type |-> e.type, desc |-> e.desc, time |-> e.time]
    BY <2>3, <2>5, <2>7, ZenonT(60)
  <2> QED
    BY <2>1, <2>2, <2>8
<1>19. (length - 11) \div 9 = k
  <2>1. length - 11 = 9 * k
    BY <1>3
  <2> QED
    BY <2>1
<1>20. events = [i \in 1..((length - 11) \div 9) |-> event(i)]
  BY <1>18, <1>19
<1>21. what.type = 0 /\ what = [type |-> 0, number |-> body[7] * 256 + body[7 + 1], power |-> body[9],
                                events |-> [i \in 1..((length - 11) \div 9) |-> event(i)]]
  BY <1>17, <1>20
<1> HIDE DEF event
<1>22. ~ (what.type = 4)
  BY <1>21
<1> QED
  BY <1>15, <1>17, <1>21, <1>22, ZenonT(60) DEF ReadsBack, event
LEMMA StateBodyIs ==
    ASSUME num \in Nat, num % 256 = num, NEW pins \in Pins, NEW body, body = StateBody(pins),
           NEW what, what = [type |-> 4, pins |-> pins]
    PROVE  body \in Seq(Byte) /\ ReadsBack(body, what)
<1>1. /\ pins \in [input : Word, analog : [1..4 -> Word], output : Byte]
      /\ pins.input \in Word /\ pins.analog \in [1..4 -> Word] /\ pins.output \in Byte
  BY FramingAssumption DEF FramingAssumption
<1>2. PICK length : length = 19 /\ length \in Word
  BY DEF Word
<1>3. PICK h, s, z, o, hs, hz, data :
         /\ h = Short(length) \o AddressBytes(num) \o <<4>> /\ s = Word16(pins.input)
         /\ z = FlattenSeq([i \in 1..4 |-> Word16(pins.analog[i])]) /\ o = <<pins.output>>
         /\ hs = h \o s /\ hz = hs \o z /\ data = hz \o o
  OBVIOUS
<1>4. /\ h \in Seq(Byte) /\ Len(h) = 6
      /\ h[1] * 256 + h[2] = length /\ h[5] = num % 256 /\ h[6] = 4
  <2>1. 4 \in Byte
    BY DEF Byte
  <2>2. HeadAt(h, length, num, 4)
    BY <1>2, <1>3, <2>1, HeadIs, Zenon
  <2> QED
    BY <2>2 DEF HeadAt
<1>5. /\ s \in Seq(Byte) /\ Len(s) = 2 /\ s[1] + 256 * s[2] = pins.input
      /\ o \in Seq(Byte) /\ Len(o) = 1 /\ o[1] = pins.output
  BY <1>1, <1>3, ShortIs, ByteIs
<1>6. /\ z \in Seq(Byte) /\ Len(z) = 8
      /\ \A i \in 1..4 : z[2 * (i - 1) + 1] + 256 * z[2 * (i - 1) + 2] = pins.analog[i]
  <2>1. PICK analog : analog = pins.analog
    OBVIOUS
  <2>2. analog \in [1..4 -> Word] /\ z = FlattenSeq([i \in 1..4 |-> Word16(analog[i])])
    BY <1>1, <1>3, <2>1
  <2>3. AnalogsAt(z, analog)
    BY <2>2, AnalogsAre, Zenon
  <2> QED
    BY <2>1, <2>3 DEF AnalogsAt
<1>7. hs \in Seq(Byte) /\ JoinOf(hs, h, s)
  BY <1>3, <1>4, <1>5, Joins, Zenon
<1>8. hz \in Seq(Byte) /\ JoinOf(hz, hs, z)
  BY <1>3, <1>6, <1>7, Joins, Zenon
<1>9. data \in Seq(Byte) /\ JoinOf(data, hz, o)
  BY <1>3, <1>5, <1>8, Joins, Zenon
<1>10. Len(hs) = 8 /\ (\A i \in 1..6 : hs[i] = h[i]) /\ hs[7] = s[1] /\ hs[8] = s[2]
  <2>1. Len(hs) = 6 + 2 /\ (\A i \in 1..6 : hs[i] = h[i]) /\ \A i \in 1..2 : hs[6 + i] = s[i]
    BY <1>4, <1>5, <1>7 DEF JoinOf
  <2> QED
    BY <2>1
<1>11. Len(hz) = 16 /\ (\A i \in 1..8 : hz[i] = hs[i]) /\ \A i \in 1..8 : hz[8 + i] = z[i]
  <2>1. Len(hz) = 8 + 8 /\ (\A i \in 1..8 : hz[i] = hs[i]) /\ \A i \in 1..8 : hz[8 + i] = z[i]
    BY <1>6, <1>8, <1>10 DEF JoinOf
  <2> QED
    BY <2>1
<1>12. Len(data) = 17 /\ (\A i \in 1..16 : data[i] = hz[i]) /\ data[17] = pins.output
  <2>1. Len(data) = 16 + 1 /\ (\A i \in 1..16 : data[i] = hz[i]) /\ \A i \in 1..1 : data[16 + i] = o[i]
    BY <1>5, <1>9, <1>11 DEF JoinOf
  <2> QED
    BY <1>5, <2>1
<1>13. body = Closed(data, calc_crc(data))
  BY <1>2, <1>3 DEF StateBody
<1>14. length = Len(data) + 2
  BY <1>2, <1>12
<1>15. /\ body \in Seq(Byte) /\ Len(body) = length /\ length - 2 = Len(data)
       /\ body[length - 1] * 256 + body[(length - 1) + 1] = calc_crc(SubSeq(body, 1, length - 2))
       /\ \A i \in 1..Len(data) : body[i] = data[i]
  <2>1. ClosedAt(body, data, length)
    BY <1>9, <1>13, <1>14, EndsAreRead, Zenon
  <2> QED
    BY <2>1 DEF ClosedAt
<1>16. (\A i \in 1..8 : body[i] = hs[i]) /\ (\A i \in 1..8 : body[8 + i] = z[i]) /\ body[17] = pins.output
  <2>1. /\ \A i \in 1..8 : i \in 1..Len(data) /\ i \in 1..16
        /\ \A i \in 1..8 : 8 + i \in 1..Len(data) /\ 8 + i \in 1..16
        /\ 17 \in 1..Len(data)
    BY <1>12
  <2> QED
    BY <1>11, <1>12, <1>15, <2>1
<1>17. /\ body[1] * 256 + body[1 + 1] = length /\ body[5] = num /\ body[6] = 4
       /\ body[7] + 256 * body[7 + 1] = pins.input
  <2>1. /\ body[1] = h[1] /\ body[2] = h[2] /\ body[5] = h[5] /\ body[6] = h[6]
        /\ body[7] = s[1] /\ body[8] = s[2]
    BY <1>10, <1>16
  <2> QED
    BY <1>4, <1>5, <2>1
<1>18. ASSUME NEW i \in 1..4
       PROVE  body[7 + 2 * i] + 256 * body[(7 + 2 * i) + 1] = pins.analog[i]
  <2>1. PICK q : q = 2 * (i - 1) /\ q + 1 \in 1..8 /\ q + 2 \in 1..8 /\ 7 + 2 * i = 8 + (q + 1) /\ (7 + 2 * i) + 1 = 8 + (q + 2)
    OBVIOUS
  <2>2. body[8 + (q + 1)] = z[q + 1] /\ body[8 + (q + 2)] = z[q + 2]
    BY <1>16, <2>1
  <2>3. z[q + 1] + 256 * z[q + 2] = pins.analog[i]
    BY <1>6, <2>1
  <2> QED
    BY <2>1, <2>2, <2>3
<1>19. pins.analog = [i \in 1..4 |-> body[7 + 2 * i] + 256 * body[(7 + 2 * i) + 1]]
  BY <1>1, <1>18
<1>20. pins = [input |-> body[7] + 256 * body[7 + 1],
               analog |-> [i \in 1..4 |-> body[7 + 2 * i] + 256 * body[(7 + 2 * i) + 1]],
               output |-> body[17]]
  <2>1. pins = [input |-> pins.input, analog |-> pins.analog, output |-> pins.output]
    BY <1>1
  <2>2. pins.input = body[7] + 256 * body[7 + 1] /\ pins.output = body[17]
    BY <1>16, <1>17
  <2> QED
    BY <1>19, <2>1, <2>2, Zenon
<1>21. what.type = 4 /\ what.pins = pins /\ ~ (what.type = 0)
  OBVIOUS
<1> QED
  BY <1>15, <1>17, <1>20, <1>21 DEF ReadsBack
-----------------------------------------------------------------------------
(* The packet on its way is one that BuildEventMessage or                  *)
(* BuildInputStateMessage has built for this device.                       *)

OwnPacket ==
    \/ \E number \in Numbers, power \in {1, 2}, k \in 0..2 : \E events \in [1..k -> Events] :
          out = [frame |-> Framed(EventBody(number, power, events)),
                 what |-> [type |-> 0, number |-> number, power |-> power, events |-> events]]
    \/ \E pins \in Pins : out = [frame |-> Framed(StateBody(pins)), what |-> [type |-> 4, pins |-> pins]]

FramingInv == num \in Addresses /\ (out = Nothing \/ OwnPacket)

\* Whatever the device's address and whatever it reports, a server that looks
\* for the marks, takes out the stuffing and compares length and CRC reads
\* back what was put in each packet (BuildEventMessage, BuildInputStateMessage,
\* replace and calc_crc of events.c).
THEOREM OwnPacketsAreRead == FramingSpec => []OwnPacketsReadBack
<1>1. FramingInit => FramingInv
  BY DEF FramingInit, FramingInv
<1>2. FramingInv /\ [FramingNext]_vars => FramingInv'
  <2> SUFFICES ASSUME FramingInv, [FramingNext]_vars PROVE FramingInv'
    OBVIOUS
  <2>1. ASSUME UNCHANGED <<num, out>> PROVE FramingInv'
    BY <2>1, ZenonT(60) DEF FramingInv, OwnPacket, EventBody, StateBody, Closed
  <2>2. ASSUME NEW p \in Confirmation \cup Text, ServerSends(p) PROVE FramingInv'
    BY <2>1, <2>2, Zenon DEF ServerSends
  <2>3. CASE Reads
    BY <2>1, <2>3, Zenon DEF Reads, Read
  <2>4. CASE SendsEvents
    <3>1. PICK number \in Numbers, power \in {1, 2}, k \in 0..2 : \E events \in [1..k -> Events] :
             Sends(EventBody(number, power, events),
                   [type |-> 0, number |-> number, power |-> power, events |-> events])
      BY <2>4, Zenon DEF SendsEvents
    <3>2. PICK events \in [1..k -> Events] :
             Sends(EventBody(number, power, events),
                   [type |-> 0, number |-> number, power |-> power, events |-> events])
      BY <3>1
    <3>3. num' = num
      BY <3>2, Zenon DEF Sends
    <3>4. out' = [frame |-> Framed(EventBody(number, power, events)),
                  what |-> [type |-> 0, number |-> number, power |-> power, events |-> events]]
      BY <3>2, Zenon DEF Sends
    <3>5. Framed(EventBody(number, power, events)) = Framed(EventBody(number, power, events)')
      BY <3>3, Zenon DEF EventBody
    <3> QED
      BY <3>3, <3>4, <3>5, Zenon DEF FramingInv, OwnPacket
  <2>5. CASE SendsState
    <3>1. PICK pins \in Pins : Sends(StateBody(pins), [type |-> 4, pins |-> pins])
      BY <2>5, Zenon DEF SendsState
    <3>2. num' = num /\ out' = [frame |-> Framed(StateBody(pins)), what |-> [type |-> 4, pins |-> pins]]
      BY <3>1, Zenon DEF Sends
    <3>3. Framed(StateBody(pins)) = Framed(StateBody(pins)')
      BY <3>2, Zenon DEF StateBody
    <3> QED
      BY <3>2, <3>3, Zenon DEF FramingInv, OwnPacket
  <2>6. CASE Delivers
    BY <2>6, Zenon DEF Delivers, FramingInv
  <2>7. CASE UNCHANGED vars
    BY <2>1, <2>7, Zenon DEF vars
  <2> QED
    BY <2>2, <2>3, <2>4, <2>5, <2>6, <2>7, Zenon DEF FramingNext
<1>3. FramingInv => OwnPacketsReadBack
  <2> SUFFICES ASSUME FramingInv, out # Nothing PROVE OwnPacketsReadBack
    BY Zenon DEF OwnPacketsReadBack
  <2>1. num \in Nat /\ num % 256 = num
    BY FramingAssumption DEF FramingInv, FramingAssumption, Byte
  <2>2. ASSUME NEW number \in Numbers, NEW power \in {1, 2}, NEW k \in 0..2, NEW events \in [1..k -> Events],
               out = [frame |-> Framed(EventBody(number, power, events)),
                      what |-> [type |-> 0, number |-> number, power |-> power, events |-> events]]
        PROVE  OwnPacketsReadBack
    <3>1. number \in Word /\ power \in Byte
      BY FramingAssumption DEF FramingAssumption, Byte
    <3>2. PICK body, what : /\ body = EventBody(number, power, events)
                            /\ what = [type |-> 0, number |-> number, power |-> power, events |-> events]
      OBVIOUS
    <3>3. body \in Seq(Byte) /\ ReadsBack(body, what)
      BY <2>1, <3>1, <3>2, EventBodyIs, Zenon
    <3>4. out = [frame |-> Framed(body), what |-> what]
      BY <2>2, <3>2, Zenon
    <3> QED
      BY <3>3, <3>4, FrameReadsBack, Zenon
  <2>3. ASSUME NEW pins \in Pins,
               out = [frame |-> Framed(StateBody(pins)), what |-> [type |-> 4, pins |-> pins]]
        PROVE  OwnPacketsReadBack
    <3>1. PICK body, what : body = StateBody(pins) /\ what = [type |-> 4, pins |-> pins]
      OBVIOUS
    <3>2. body \in Seq(Byte) /\ ReadsBack(body, what)
      BY <2>1, <3>1, StateBodyIs, Zenon
    <3>3. out = [frame |-> Framed(body), what |-> what]
      BY <2>3, <3>1, Zenon
    <3> QED
      BY <3>2, <3>3, FrameReadsBack, Zenon
  <2> QED
    BY <2>2, <2>3, Zenon DEF FramingInv, OwnPacket
<1> QED
  BY <1>1, <1>2, <1>3, PTL DEF FramingSpec

-----------------------------------------------------------------------------
(* The packets of the server: what the search looks for in a body *)

\* What the scan looks for in a body, and finds there
IsBody(body, p) ==
    /\ body \in Seq(Byte) /\ Len(body) \in Nat /\ Len(body) >= 8
    /\ body[1] * 256 + body[2] = Len(body) /\ body[6] = p.type
    /\ p.type = 1 => Len(body) = 10 /\ body[7] * 256 + body[8] = p.what
    /\ p.type = 2 => Len(p.what) = Len(body) - 8 /\ \A i \in 1..(Len(body) - 8) : body[6 + i] = p.what[i]

\* What a packet of the server holds, by its type
LEMMA PacketIs ==
    ASSUME NEW p \in Confirmation \cup Text
    PROVE  /\ p.type \in {1, 2} /\ (p.type = 1 => p.what \in Word)
           /\ p.type = 2 => p.what \in Texts /\ p.what \in Seq(Byte) /\ 8 + Len(p.what) \in Word
           /\ Content(p) \in Seq(Byte) /\ Len(Content(p)) \in Nat /\ 8 + Len(Content(p)) \in Word
           /\ p.type = 1 => Len(Content(p)) = 2 /\ Content(p)[1] * 256 + Content(p)[2] = p.what
           /\ p = [type |-> p.type, what |-> p.what]
<1>1. CASE p \in Confirmation
  <2>1. PICK n \in Numbers : p = [type |-> 1, what |-> n]
    BY <1>1 DEF Confirmation
  <2>2. n \in Word
    BY FramingAssumption DEF FramingAssumption
  <2>3. PICK c : c = Short(n) /\ c \in Seq(Byte) /\ Len(c) = 2 /\ c[1] * 256 + c[2] = n
    BY <2>2, ShortIs
  <2>4. p.type = 1 /\ p.what = n /\ Content(p) = c
    BY <2>1, <2>3 DEF Content
  <2>5. Len(c) \in Nat /\ 8 + Len(c) \in Word
    BY <2>3 DEF Word
  <2>6. p.type = 1 /\ p.what \in Word /\ p = [type |-> p.type, what |-> p.what]
    BY <2>1, <2>2, <2>4
  <2>7. /\ Content(p) \in Seq(Byte) /\ Len(Content(p)) \in Nat /\ 8 + Len(Content(p)) \in Word
        /\ Len(Content(p)) = 2
    BY <2>3, <2>4, <2>5
  <2>8. Content(p)[1] * 256 + Content(p)[2] = p.what
    BY <2>3, <2>4, Zenon
  <2> QED
    BY <2>6, <2>7, <2>8
<1>2. CASE p \in Text
  <2>1. PICK t \in Texts : p = [type |-> 2, what |-> t]
    BY <1>2 DEF Text
  <2>2. t \in Seq(Byte) /\ 8 + Len(t) \in Word
    BY FramingAssumption DEF FramingAssumption
  <2>3. p.type = 2 /\ p.what = t /\ Content(p) = t
    BY <2>1 DEF Content
  <2>4. Len(t) \in Nat
    BY <2>2, LenProperties
  <2> QED
    BY <2>1, <2>2, <2>3, <2>4
<1> QED
  BY <1>1, <1>2

\* The body ServerBody builds has the fields CheckTypePacket looks for.
LEMMA ServerBodyIs ==
    ASSUME NEW a \in Addresses, NEW p \in Confirmation \cup Text
    PROVE  IsBody(ServerBody[a][p], p)
<1> DEFINE length == 8 + Len(Content(p))
           h == Short(length) \o AddressBytes(a) \o <<p.type>>
           data == h \o Content(p)
           body == ServerBody[a][p]
           w == Ccitt(data)
<1>1. /\ p.type \in {1, 2} /\ p.type \in Byte /\ (p.type = 1 => p.what \in Word)
      /\ p.type = 2 => p.what \in Seq(Byte) /\ Content(p) = p.what
      /\ Content(p) \in Seq(Byte) /\ Len(Content(p)) \in Nat /\ length \in Word /\ length \in Nat
      /\ p.type = 1 => Len(Content(p)) = 2 /\ Content(p)[1] * 256 + Content(p)[2] = p.what
  BY PacketIs, Ranges, SMTT(60) DEF Byte, Content
<1>2. a \in Nat
  BY FramingAssumption DEF FramingAssumption, Byte
<1>3. HeadAt(h, length, a, p.type)
  BY <1>1, <1>2, HeadIs
<1>4. body = Closed(data, w)
  BY DEF ServerBody
<1> HIDE DEF h
<1>5. h \in Seq(Byte) /\ Len(h) = 6 /\ h[1] * 256 + h[2] = length /\ h[6] = p.type
  BY <1>3 DEF HeadAt
<1>6. /\ data \in Seq(Byte) /\ Len(data) = 6 + Len(Content(p))
      /\ \A i \in 1..6 : data[i] = h[i]
      /\ \A i \in 1..Len(Content(p)) : data[6 + i] = Content(p)[i]
  <2>1. data \in Seq(Byte) /\ JoinOf(data, h, Content(p))
    BY <1>1, <1>5, Joins, Zenon
  <2> QED
    BY <1>5, <2>1 DEF JoinOf
<1> HIDE DEF data
<1>7. w \in Word
  BY <1>6, CrcIs
<1> HIDE DEF w, body
<1>8. /\ body \in Seq(Byte) /\ Len(data) \in Nat /\ Len(body) = Len(data) + 2
      /\ \A i \in 1..Len(data) : body[i] = data[i]
  BY <1>4, <1>6, <1>7, ClosedIs, SMTT(60)
<1>9. Len(body) = length /\ Len(body) \in Nat /\ Len(body) >= 8 /\ Len(data) >= 6
  BY <1>1, <1>6, <1>8
<1>10. body[1] = h[1] /\ body[2] = h[2] /\ body[6] = h[6]
  BY <1>6, <1>8, <1>9
<1>11. \A i \in 1..Len(Content(p)) : body[6 + i] = Content(p)[i]
  BY <1>1, <1>6, <1>8
<1>12. CASE p.type = 1
  <2>0. Len(Content(p)) = 2
    BY <1>1, <1>12, Zenon
  <2>1. Len(body) = 10 /\ 1 \in 1..Len(Content(p)) /\ 2 \in 1..Len(Content(p))
    BY <1>9, <2>0
  <2>2. body[6 + 1] = Content(p)[1] /\ body[6 + 2] = Content(p)[2] /\ 6 + 1 = 7 /\ 6 + 2 = 8
    BY <1>11, <2>1
  <2>3. body[7] * 256 + body[8] = p.what
    BY <1>1, <1>12, <2>2
  <2>4. p.type # 2
    BY <1>12
  <2>5. body[1] * 256 + body[2] = Len(body) /\ body[6] = p.type
    BY <1>5, <1>9, <1>10
  <2> QED
    BY <1>8, <1>9, <2>1, <2>3, <2>4, <2>5 DEF IsBody, body
<1>13. CASE p.type = 2
  <2>1. Content(p) = p.what /\ Len(body) - 8 = Len(p.what)
    BY <1>1, <1>9, <1>13
  <2>2. body[1] * 256 + body[2] = Len(body) /\ body[6] = p.type
    BY <1>5, <1>9, <1>10
  <2>3. \A i \in 1..(Len(body) - 8) : body[6 + i] = p.what[i]
    BY <1>11, <2>1
  <2>4. p.type # 1
    BY <1>13
  <2>5. /\ body \in Seq(Byte) /\ Len(body) \in Nat /\ Len(body) >= 8
        /\ Len(p.what) = Len(body) - 8
    BY <1>8, <1>9, <2>1, Zenon
  <2>6. IsBody(body, p)
    BY <2>2, <2>3, <2>4, <2>5, Zenon DEF IsBody
  <2> QED
    BY <2>6, Zenon DEF body
<1> QED
  BY <1>1, <1>12, <1>13

-----------------------------------------------------------------------------
(* Pieces put together: their stages, and what lies in them *)

\* A sequence put together of pieces: it begins with each of its stages, holds
\* each piece behind the stage before, and the first pieces make the same stages
\* whatever follows them.
LEMMA JoinedGrows ==
    ASSUME NEW S, NEW ss \in Seq(Seq(S)), NEW h, Joined(h, ss, S), NEW k \in 1..Len(ss)
    PROVE  /\ k - 1 \in 0..Len(ss) /\ k \in 0..Len(ss) /\ ss[k] \in Seq(S)
           /\ h[k] \in Seq(S) /\ h[k - 1] \in Seq(S) /\ h[k] = h[k - 1] \o ss[k]
           /\ JoinOf(h[k], h[k - 1], ss[k])
<1>1. Len(ss) \in Nat /\ ss[k] \in Seq(S)
  BY LenProperties, ElementOfSeq
<1>2. k - 1 \in 0..Len(ss) /\ k \in 0..Len(ss)
  BY <1>1
<1>3. h[k] \in Seq(S) /\ h[k - 1] \in Seq(S) /\ h[k] = h[k - 1] \o ss[k]
  BY <1>2 DEF Joined
<1>4. JoinOf(h[k], h[k - 1], ss[k])
  BY <1>1, <1>3, Joins, Zenon
<1> QED
  BY <1>1, <1>2, <1>3, <1>4

\* An earlier stage is the beginning of a later one.
LEMMA JoinedBegins ==
    ASSUME NEW S, NEW ss \in Seq(Seq(S)), NEW h, Joined(h, ss, S),
           NEW b \in 0..Len(ss), NEW a \in 0..b
    PROVE  /\ h[a] \in Seq(S) /\ h[b] \in Seq(S) /\ Len(h[a]) \in Nat /\ Len(h[b]) \in Nat
           /\ Len(h[a]) <= Len(h[b]) /\ \A c \in 1..Len(h[a]) : h[b][c] = h[a][c]
<1>1. Len(ss) \in Nat /\ a \in 0..Len(ss)
  BY LenProperties
<1>2. \A n \in 0..Len(ss) : h[n] \in Seq(S) /\ Len(h[n]) \in Nat
  BY LenProperties DEF Joined
<1> DEFINE Good(n) == Len(h[a]) <= Len(h[n]) /\ \A c \in 1..Len(h[a]) : h[n][c] = h[a][c]
           P == {n \in 0..Len(ss) : a <= n => Good(n)}
<1>3. 0 \in P
  BY <1>1, <1>2
<1>4. ASSUME NEW n \in 1..Len(ss), n - 1 \in P PROVE n \in P
  <2> SUFFICES ASSUME a <= n PROVE Good(n)
    BY <1>1
  <2>1. CASE n = a
    BY <1>1, <1>2, <2>1
  <2>2. CASE n # a
    <3>1. Good(n - 1)
      BY <1>1, <1>4, <2>2
    <3>2. JoinOf(h[n], h[n - 1], ss[n])
      BY JoinedGrows, Zenon
    <3>3. Len(h[a]) \in Nat
      BY <1>1, <1>2
    <3>4. PICK x, y, z, l : x = h[n - 1] /\ y = ss[n] /\ z = h[n] /\ l = Len(h[a])
      OBVIOUS
    <3>5. /\ JoinOf(z, x, y) /\ l \in Nat /\ l <= Len(x)
          /\ \A c \in 1..l : x[c] = h[a][c]
      BY <3>1, <3>2, <3>3, <3>4, Zenon
    <3>6. l <= Len(z) /\ \A c \in 1..l : z[c] = h[a][c]
      BY <3>5 DEF JoinOf
    <3> QED
      BY <3>4, <3>6, Zenon
  <2> QED
    BY <2>1, <2>2
<1> HIDE DEF P
<1>5. b \in P
  BY <1>1, <1>3, <1>4, UpTo
<1>6. Good(b)
  BY <1>1, <1>5 DEF P
<1> QED
  BY <1>1, <1>2, <1>6

\* Each piece lies behind the stage before it.
LEMMA JoinedHolds ==
    ASSUME NEW S, NEW ss \in Seq(Seq(S)), NEW h, Joined(h, ss, S), NEW k \in 1..Len(ss),
           NEW c \in 1..Len(ss[k])
    PROVE  Len(h[k - 1]) + c \in 1..Len(h[Len(ss)]) /\ h[Len(ss)][Len(h[k - 1]) + c] = ss[k][c]
<1>1. JoinOf(h[k], h[k - 1], ss[k])
  BY JoinedGrows, Zenon
<1>2. Len(ss) \in Nat /\ Len(ss) \in 0..Len(ss) /\ k \in 0..Len(ss)
  BY LenProperties
<1>3. /\ Len(h[k]) <= Len(h[Len(ss)]) /\ Len(h[Len(ss)]) \in Nat /\ Len(h[k]) \in Nat
      /\ \A i \in 1..Len(h[k]) : h[Len(ss)][i] = h[k][i]
  <2>1. PICK b : b = Len(ss)
    OBVIOUS
  <2>2. b \in 0..Len(ss) /\ k \in 0..b
    BY <1>2, <2>1
  <2>3. /\ Len(h[k]) <= Len(h[b]) /\ Len(h[b]) \in Nat /\ Len(h[k]) \in Nat
        /\ \A i \in 1..Len(h[k]) : h[b][i] = h[k][i]
    BY <2>2, JoinedBegins
  <2> QED
    BY <2>1, <2>3, Zenon
<1>4. PICK x, y, z, w : x = h[k - 1] /\ y = ss[k] /\ z = h[k] /\ w = h[Len(ss)]
  OBVIOUS
<1>5. /\ JoinOf(z, x, y) /\ Len(z) <= Len(w) /\ Len(w) \in Nat /\ Len(z) \in Nat
      /\ c \in 1..Len(y) /\ \A i \in 1..Len(z) : w[i] = z[i]
  BY <1>1, <1>3, <1>4, Zenon
<1>6. Len(x) + c \in 1..Len(w) /\ w[Len(x) + c] = y[c]
  <2>1. Len(x) + c \in 1..Len(z) /\ Len(x) \in Nat
    BY <1>5 DEF JoinOf
  <2>2. z[Len(x) + c] = y[c]
    BY <1>5 DEF JoinOf
  <2>3. Len(x) + c \in 1..Len(w)
    BY <1>5, <2>1
  <2> QED
    BY <1>5, <2>1, <2>2, <2>3
<1> QED
  BY <1>4, <1>6, Zenon

\* Pieces that begin alike have the same stages.
LEMMA JoinedAgrees ==
    ASSUME NEW S, NEW ss \in Seq(Seq(S)), NEW h, Joined(h, ss, S),
           NEW tt \in Seq(Seq(S)), NEW g, Joined(g, tt, S),
           Len(tt) <= Len(ss), \A i \in 1..Len(tt) : tt[i] = ss[i]
    PROVE  \A k \in 0..Len(tt) : g[k] = h[k]
<1>1. Len(ss) \in Nat /\ Len(tt) \in Nat
  BY LenProperties
<1> DEFINE P == {k \in 0..Len(tt) : g[k] = h[k]}
<1>2. 0 \in P
  BY <1>1 DEF Joined
<1>3. ASSUME NEW k \in 1..Len(tt), k - 1 \in P PROVE k \in P
  <2>1. k \in 1..Len(ss) /\ k \in 0..Len(tt)
    BY <1>1
  <2>2. g[k] = g[k - 1] \o tt[k] /\ h[k] = h[k - 1] \o ss[k]
    BY <2>1 DEF Joined
  <2> QED
    BY <1>3, <2>1, <2>2
<1> HIDE DEF P
<1>4. \A k \in 0..Len(tt) : k \in P
  BY <1>1, <1>2, <1>3, UpTo
<1> QED
  BY <1>4 DEF P

-----------------------------------------------------------------------------
(* Taking out the stuffing piece by piece *)

\* Joining is associative.
LEMMA Associates ==
    \A u, v, w \in Seq(Nat) : (u \o v) \o w = u \o (v \o w)
<1>1. ASSUME NEW u \in Seq(Nat), NEW v \in Seq(Nat), NEW w \in Seq(Nat)
      PROVE  (u \o v) \o w = u \o (v \o w)
  BY ConcatAssociative, SMTT(60)
<1> QED
  BY <1>1

\* What is left of x from any place on is a sequence.
LEMMA UndoesSeqs ==
    ASSUME NEW x \in Seq(Nat), NEW from, Undoes(from, x)
    PROVE  \A i \in 1..(Len(x) + 2) : from[i] \in Seq(Nat)
<1> DEFINE M == Len(x)
           P == {n \in 0..M : \A i \in (M + 1 - n)..(M + 2) : from[i] \in Seq(Nat)}
<1>1. M \in Nat
  BY LenProperties
<1>2. 0 \in P
  <2>1. ASSUME NEW i \in (M + 1)..(M + 2) PROVE from[i] \in Seq(Nat)
    <3>1. i \in 1..(M + 2) /\ i > M
      BY <1>1
    <3>2. from[i] = <<>>
      BY <3>1 DEF Undoes
    <3> QED
      BY <3>2, EmptySeq
  <2>2. M + 1 - 0 = M + 1
    BY <1>1
  <2> QED
    BY <1>1, <2>1, <2>2
<1>3. ASSUME NEW n \in 1..M, n - 1 \in P PROVE n \in P
  <2>1. PICK k : k = M + 1 - n
    OBVIOUS
  <2>2. k \in 1..M /\ M + 1 - (n - 1) = k + 1 /\ n \in 0..M
    BY <1>1, <2>1
  <2>3. \A i \in (k + 1)..(M + 2) : from[i] \in Seq(Nat)
    BY <1>3, <2>2
  <2>4. from[k] \in Seq(Nat)
    <3>1. PICK l : l = IF Pair(x, k) THEN k + 2 ELSE k + 1
      OBVIOUS
    <3>2. l \in (k + 1)..(M + 2) /\ k \in 1..(M + 2) /\ ~ (k > M)
      BY <1>1, <2>2, <3>1
    <3>3. from[k] = <<x[k]>> \o from[l]
      BY <3>1, <3>2 DEF Undoes
    <3>4. x[k] \in Nat /\ from[l] \in Seq(Nat)
      BY <2>2, <2>3, <3>2, ElementOfSeq
    <3>5. <<x[k]>> \in Seq(Nat)
      BY <3>4
    <3> QED
      BY <3>3, <3>4, <3>5, ConcatProperties
  <2>5. \A i \in k..(M + 2) : i = k \/ i \in (k + 1)..(M + 2)
    BY <1>1, <2>2
  <2> QED
    BY <2>1, <2>2, <2>3, <2>4, <2>5
<1> HIDE DEF P
<1>4. M \in P
  <2>1. M \in 0..M
    BY <1>1
  <2> QED
    BY <1>1, <1>2, <1>3, <2>1, UpTo
<1>5. M + 1 - M = 1
  BY <1>1
<1> QED
  BY <1>4, <1>5 DEF P

\* Unstuffing gives a sequence of numbers.
LEMMA UnstuffSeq ==
    ASSUME NEW x \in Seq(Nat)
    PROVE  Unstuff(x) \in Seq(Nat)
<1>1. PICK from : Undoes(from, x) /\ Unstuff(x) = from[1]
  BY UnstuffIs
<1>2. 1 \in 1..(Len(x) + 2)
  BY LenProperties
<1> QED
  BY <1>1, <1>2, UndoesSeqs

\* What ends in no half of a pair can be unstuffed on its own.
LEMMA UnstuffJoins ==
    ASSUME NEW x \in Seq(Nat), NEW y \in Seq(Nat), Len(x) > 0 => x[Len(x)] # 23
    PROVE  Unstuff(x \o y) = Unstuff(x) \o Unstuff(y)
<1>1. PICK z : z = x \o y
  OBVIOUS
<1>0. PICK M, K, N : M = Len(x) /\ K = Len(y) /\ N = Len(z)
  OBVIOUS
<1>2. /\ z \in Seq(Nat) /\ M \in Nat /\ K \in Nat /\ N = M + K
      /\ \A i \in 1..M : z[i] = x[i]
      /\ \A i \in 1..K : z[M + i] = y[i]
  BY <1>0, <1>1, ConcatAt
<1>n. M \in Nat /\ K \in Nat /\ N \in Nat /\ N = M + K /\ (M > 0 => x[M] # 23)
  BY <1>0, <1>2
<1>3. PICK fx : Undoes(fx, x) /\ Unstuff(x) = fx[1]
  BY UnstuffIs
<1>4. PICK fy : Undoes(fy, y) /\ Unstuff(y) = fy[1]
  BY UnstuffIs
<1>5. PICK fz : Undoes(fz, z) /\ Unstuff(z) = fz[1]
  BY <1>2, UnstuffIs
<1>6. \A j \in 1..(K + 2) : fz[M + j] = fy[j]
  <2> DEFINE P == {n \in 0..K : \A j \in (K + 1 - n)..(K + 2) : fz[M + j] = fy[j]}
  <2>1. 0 \in P
    <3>1. ASSUME NEW j \in (K + 1)..(K + 2) PROVE fz[M + j] = fy[j]
      <4>1. j \in 1..(K + 2) /\ j > K /\ M + j \in 1..(N + 2) /\ M + j > N
        BY <1>n
      <4>2. fz[M + j] = <<>> /\ fy[j] = <<>>
        BY <1>0, <1>4, <1>5, <4>1 DEF Undoes
      <4> QED
        BY <4>2
    <3>2. K + 1 - 0 = K + 1
      BY <1>n
    <3> QED
      BY <1>n, <3>1, <3>2
  <2>2. ASSUME NEW n \in 1..K, n - 1 \in P PROVE n \in P
    <3>1. PICK k : k = K + 1 - n
      OBVIOUS
    <3>2. k \in 1..K /\ K + 1 - (n - 1) = k + 1 /\ n \in 0..K
      BY <1>n, <3>1
    <3>3. \A j \in (k + 1)..(K + 2) : fz[M + j] = fy[j]
      BY <2>2, <3>2
    <3>4. fz[M + k] = fy[k]
      <4>1. PICK l : l = IF Pair(y, k) THEN k + 2 ELSE k + 1
        OBVIOUS
      <4>2. /\ l \in (k + 1)..(K + 2) /\ k \in 1..(K + 2) /\ ~ (k > K)
            /\ M + k \in 1..(N + 2) /\ ~ (M + k > N)
        <5>1. l = k + 2 \/ l = k + 1
          BY <4>1
        <5>2. l \in (k + 1)..(K + 2) /\ k \in 1..(K + 2) /\ ~ (k > K)
          BY <1>n, <3>2, <5>1
        <5>3. M + k \in 1..(N + 2) /\ ~ (M + k > N)
          BY <1>n, <3>2
        <5> QED
          BY <5>2, <5>3
      <4>3. Pair(z, M + k) <=> Pair(y, k)
        <5>0. k < K => k + 1 \in 1..K /\ (M + k) + 1 = M + (k + 1)
          BY <1>n, <3>2
        <5>1. z[M + k] = y[k] /\ (k < K => k + 1 \in 1..K /\ (M + k) + 1 = M + (k + 1))
          BY <1>2, <1>n, <3>2, <5>0
        <5>2. k < K => z[(M + k) + 1] = y[k + 1]
          BY <1>2, <1>n, <5>1
        <5>3. k < K <=> M + k < N
          BY <1>n, <3>2
        <5> QED
          BY <1>0, <5>1, <5>2, <5>3 DEF Pair
      <4>4. M + l = IF Pair(z, M + k) THEN (M + k) + 2 ELSE (M + k) + 1
        BY <1>n, <3>2, <4>1, <4>3
      <4>5. fy[k] = <<y[k]>> \o fy[l]
        BY <1>0, <1>4, <4>1, <4>2 DEF Undoes
      <4>6. fz[M + k] = <<z[M + k]>> \o fz[M + l]
        BY <1>0, <1>5, <4>2, <4>4 DEF Undoes
      <4>7. z[M + k] = y[k] /\ fz[M + l] = fy[l]
        BY <1>2, <1>n, <3>2, <3>3, <4>2
      <4> QED
        BY <4>5, <4>6, <4>7
    <3>5. \A j \in k..(K + 2) : j = k \/ j \in (k + 1)..(K + 2)
      BY <1>n, <3>2
    <3> QED
      BY <3>1, <3>2, <3>3, <3>4, <3>5
  <2> HIDE DEF P
  <2>3. K \in P
    <3>1. K \in 0..K
      BY <1>n
    <3> QED
      BY <1>n, <2>1, <2>2, <3>1, UpTo
  <2>4. K + 1 - K = 1
    BY <1>n
  <2> QED
    BY <2>3, <2>4 DEF P
<1>7. /\ fy[1] \in Seq(Nat) /\ 1 \in 1..(K + 2) /\ fz[M + 1] = fy[1]
      /\ \A i \in 1..(M + 2) : fx[i] \in Seq(Nat)
  <2>1. 1 \in 1..(K + 2)
    BY <1>n
  <2> QED
    <3>1. /\ \A i \in 1..(Len(x) + 2) : fx[i] \in Seq(Nat)
          /\ \A i \in 1..(Len(y) + 2) : fy[i] \in Seq(Nat)
      BY <1>3, <1>4, UndoesSeqs
    <3>2. /\ \A i \in 1..(M + 2) : fx[i] \in Seq(Nat)
          /\ \A i \in 1..(K + 2) : fy[i] \in Seq(Nat)
      BY <1>0, <3>1, Zenon
    <3>3. fz[M + 1] = fy[1]
      BY <1>6, <2>1
    <3> QED
      BY <2>1, <3>2, <3>3
<1>8. \A i \in 1..(M + 1) : fz[i] = fx[i] \o fy[1]
  <2> DEFINE P == {n \in 0..M : \A i \in (M + 1 - n)..(M + 1) : fz[i] = fx[i] \o fy[1]}
  <2>1. 0 \in P
    <3>1. M + 1 \in 1..(M + 2) /\ M + 1 > M /\ \A i \in (M + 1 - 0)..(M + 1) : i = M + 1
      BY <1>n
    <3>2. fx[M + 1] = <<>>
      BY <1>0, <1>3, <3>1 DEF Undoes
    <3>3. fz[M + 1] = fx[M + 1] \o fy[1]
      BY <1>7, <3>2, ConcatEmptySeq
    <3>4. \A i \in (M + 1 - 0)..(M + 1) : fz[i] = fx[i] \o fy[1]
      BY <3>1, <3>3
    <3> QED
      <4>1. 0 \in 0..M
        BY <1>n
      <4> QED
        BY <3>4, <4>1, Zenon
  <2>2. ASSUME NEW n \in 1..M, n - 1 \in P PROVE n \in P
    <3>1. PICK k : k = M + 1 - n
      OBVIOUS
    <3>2. k \in 1..M /\ M + 1 - (n - 1) = k + 1 /\ n \in 0..M
      BY <1>n, <3>1
    <3>3. \A i \in (k + 1)..(M + 1) : fz[i] = fx[i] \o fy[1]
      BY <2>2, <3>2
    <3>4. fz[k] = fx[k] \o fy[1]
      <4>1. PICK l : l = IF Pair(x, k) THEN k + 2 ELSE k + 1
        OBVIOUS
      <4>2. /\ l \in (k + 1)..(M + 1) /\ l \in 1..(M + 2) /\ k \in 1..(M + 2) /\ ~ (k > M)
            /\ k \in 1..(N + 2) /\ ~ (k > N)
        <5>1. (l = k + 2 /\ k < M) \/ l = k + 1
          BY <1>0, <4>1 DEF Pair
        <5>2. l \in (k + 1)..(M + 1) /\ l \in 1..(M + 2) /\ k \in 1..(M + 2) /\ ~ (k > M)
          BY <1>n, <3>2, <5>1
        <5>3. k \in 1..(N + 2) /\ ~ (k > N)
          BY <1>n, <3>2
        <5> QED
          BY <5>2, <5>3
      <4>3. Pair(z, k) <=> Pair(x, k)
        <5>1. z[k] = x[k]
          BY <1>2, <1>n, <3>2
        <5>2. CASE k < M
          <6>1. k + 1 \in 1..M /\ k < N
            BY <1>n, <3>2, <5>2
          <6>2. z[k + 1] = x[k + 1]
            BY <1>2, <1>n, <6>1
          <6> QED
            BY <1>0, <5>1, <5>2, <6>1, <6>2 DEF Pair
        <5>3. CASE ~ (k < M)
          <6>1. k = M /\ M > 0
            BY <1>n, <3>2, <5>3
          <6>2. x[k] # 23 /\ z[k] # 23
            BY <1>n, <5>1, <6>1
          <6> QED
            BY <1>0, <6>2 DEF Pair, Begin
        <5> QED
          BY <5>2, <5>3
      <4>4. fx[k] = <<x[k]>> \o fx[l]
        BY <1>0, <1>3, <4>1, <4>2 DEF Undoes
      <4>5. fz[k] = <<z[k]>> \o fz[l]
        BY <1>0, <1>5, <4>1, <4>2, <4>3 DEF Undoes
      <4>6. z[k] = x[k] /\ fz[l] = fx[l] \o fy[1]
        BY <1>2, <1>n, <3>2, <3>3, <4>2
      <4>7. x[k] \in Nat /\ <<x[k]>> \in Seq(Nat) /\ fx[l] \in Seq(Nat) /\ fy[1] \in Seq(Nat)
        <5>1. x[k] \in Nat
          BY <1>0, <3>2, ElementOfSeq
        <5>2. <<x[k]>> \in Seq(Nat)
          BY <5>1
        <5> QED
          BY <1>7, <4>2, <5>1, <5>2
      <4>8. (<<x[k]>> \o fx[l]) \o fy[1] = <<x[k]>> \o (fx[l] \o fy[1])
        BY <4>7, Associates, ZenonT(60)
      <4> QED
        BY <4>4, <4>5, <4>6, <4>8
    <3>5. \A i \in k..(M + 1) : i = k \/ i \in (k + 1)..(M + 1)
      BY <1>n, <3>2
    <3> QED
      BY <3>1, <3>2, <3>3, <3>4, <3>5
  <2> HIDE DEF P
  <2>3. M \in P
    <3>1. M \in 0..M
      BY <1>n
    <3> QED
      BY <1>n, <2>1, <2>2, <3>1, UpTo
  <2>4. M + 1 - M = 1
    BY <1>n
  <2> QED
    BY <2>3, <2>4 DEF P
<1>9. 1 \in 1..(M + 1)
  BY <1>n
<1> QED
  BY <1>1, <1>3, <1>4, <1>5, <1>8, <1>9

\* x between a start mark and an end mark
Bare(x) == <<Begin, Start>> \o x \o <<Begin, End>>

Wraps(f, x) ==
    /\ f \in Seq(Nat) /\ Len(x) \in Nat /\ Len(f) = Len(x) + 4
    /\ f[1] = 23 /\ f[2] = 19 /\ \A i \in 1..Len(x) : f[2 + i] = x[i]
    /\ f[Len(x) + 3] = 23 /\ f[Len(x) + 4] = 5

\* The beginning of a sequence
LEMMA FirstPart ==
    ASSUME NEW S, NEW s \in Seq(S), NEW m \in 0..Len(s)
    PROVE  /\ SubSeq(s, 1, m) \in Seq(S) /\ Len(SubSeq(s, 1, m)) = m
           /\ \A i \in 1..m : SubSeq(s, 1, m)[i] = s[i]
<1>1. Len(s) \in Nat /\ m \in Int /\ 1 \in Int /\ \A i \in 1..m : i \in 1..Len(s)
  BY LenProperties
<1>2. \A i \in 1..m : s[i] \in S
  BY <1>1, ElementOfSeq
<1>3. /\ SubSeq(s, 1, m) \in Seq(S) /\ Len(SubSeq(s, 1, m)) = IF 1 <= m THEN m - 1 + 1 ELSE 0
      /\ \A i \in 1..(m - 1 + 1) : SubSeq(s, 1, m)[i] = s[1 + i - 1]
  BY <1>1, <1>2, SubSeqProperties
<1>4. m - 1 + 1 = m /\ (~ (1 <= m) => m = 0) /\ \A i \in 1..m : 1 + i - 1 = i
  BY <1>1
<1> QED
  BY <1>3, <1>4

\* A body between its marks, not stuffed
LEMMA BareIs ==
    ASSUME NEW x \in Seq(Nat)
    PROVE  Wraps(Bare(x), x)
<1>1. PICK b, e, y, f : /\ b = <<Begin, Start>> /\ e = <<Begin, End>>
                        /\ y = b \o x /\ f = y \o e
  OBVIOUS
<1>2. /\ b \in Seq(Nat) /\ e \in Seq(Nat) /\ Len(b) = 2 /\ Len(e) = 2
      /\ b[1] = 23 /\ b[2] = 19 /\ e[1] = 23 /\ e[2] = 5
  BY <1>1 DEF Begin, Start, End
<1>3. y \in Seq(Nat) /\ JoinOf(y, b, x)
  BY <1>1, <1>2, Joins, Zenon
<1>4. f \in Seq(Nat) /\ JoinOf(f, y, e)
  BY <1>1, <1>2, <1>3, Joins, Zenon
<1>5. /\ Len(x) \in Nat /\ Len(y) = Len(x) + 2 /\ y[1] = 23 /\ y[2] = 19
      /\ \A i \in 1..Len(x) : y[2 + i] = x[i]
  BY <1>2, <1>3 DEF JoinOf
<1>6. /\ Len(f) = Len(x) + 4 /\ f[Len(x) + 3] = 23 /\ f[Len(x) + 4] = 5
      /\ \A i \in 1..(Len(x) + 2) : f[i] = y[i]
  <2>1. /\ Len(f) = Len(y) + 2 /\ \A i \in 1..Len(y) : f[i] = y[i]
        /\ f[Len(y) + 1] = 23 /\ f[Len(y) + 2] = 5
    BY <1>2, <1>4 DEF JoinOf
  <2>2. Len(y) + 2 = Len(x) + 4 /\ Len(y) + 1 = Len(x) + 3
    BY <1>5
  <2> QED
    BY <1>5, <2>1, <2>2
<1>7. f[1] = 23 /\ f[2] = 19 /\ \A i \in 1..Len(x) : f[2 + i] = x[i]
  <2>1. 1 \in 1..(Len(x) + 2) /\ 2 \in 1..(Len(x) + 2)
    BY <1>5
  <2>2. \A i \in 1..Len(x) : 2 + i \in 1..(Len(x) + 2)
    BY <1>5
  <2> QED
    BY <1>5, <1>6, <2>1, <2>2
<1>8. Wraps(f, x)
  BY <1>4, <1>5, <1>6, <1>7 DEF Wraps
<1> QED
  BY <1>1, <1>8 DEF Bare

\* A mark is no stuffed pair: unstuffing keeps it.
LEMMA TwoUnstuffed ==
    ASSUME NEW a \in Nat, NEW b \in Nat, ~ (a = 23 /\ b = 18)
    PROVE  Unstuff(<<a, b>>) = <<a, b>>
<1>1. PICK x : x = <<a, b>>
  OBVIOUS
<1>2. x \in Seq(Nat) /\ Len(x) = 2 /\ x[1] = a /\ x[2] = b
  BY <1>1
<1>3. PICK from : Undoes(from, x) /\ Unstuff(x) = from[1]
  BY <1>2, UnstuffIs
<1>4. ~ Pair(x, 1) /\ ~ Pair(x, 2)
  BY <1>2 DEF Pair, Begin, Same
<1>5. from[3] = <<>> /\ from[2] = <<b>> \o from[3] /\ from[1] = <<a>> \o from[2]
  <2>1. 1 \in 1..(2 + 2) /\ 2 \in 1..(2 + 2) /\ 3 \in 1..(2 + 2) /\ 3 > 2 /\ ~ (2 > 2) /\ ~ (1 > 2)
    OBVIOUS
  <2> QED
    BY <1>2, <1>3, <1>4, <2>1 DEF Undoes
<1>6. from[2] = <<b>>
  <2>1. <<b>> \in Seq(Nat)
    OBVIOUS
  <2> QED
    BY <1>5, <2>1, ConcatEmptySeq
<1>7. <<a>> \o <<b>> = <<a, b>>
  <2>1. PICK u, v, w : u = <<a>> /\ v = <<b>> /\ w = u \o v
    OBVIOUS
  <2>2. u \in Seq(Nat) /\ v \in Seq(Nat) /\ Len(u) = 1 /\ Len(v) = 1 /\ u[1] = a /\ v[1] = b
    BY <2>1
  <2>3. w \in Seq(Nat) /\ JoinOf(w, u, v)
    BY <2>1, <2>2, Joins, Zenon
  <2>4. Len(w) = 2 /\ w[1] = a /\ w[2] = b
    BY <2>2, <2>3 DEF JoinOf
  <2>5. \A i \in 1..Len(w) : w[i] = x[i]
    BY <1>2, <2>4
  <2>6. w = x
    BY <1>2, <2>3, <2>4, <2>5, SeqEqual
  <2> QED
    BY <1>1, <2>1, <2>6, Zenon
<1> QED
  BY <1>1, <1>3, <1>5, <1>6, <1>7

\* Unstuffing a frame gives the body between its marks.
LEMMA FrameUnstuffs ==
    ASSUME NEW body \in Seq(Nat)
    PROVE  Wraps(Framed(body), Stuff(body)) /\ Unstuff(Framed(body)) = Bare(body)
<1>1. Stuff(body) \in Seq(Nat)
  BY StuffSpreads
<1>2. PICK x, b, e, y : /\ x = Stuff(body) /\ b = <<Begin, Start>> /\ e = <<Begin, End>>
                        /\ y = b \o x
  OBVIOUS
<1>3. Framed(body) = Bare(x) /\ Framed(body) = y \o e /\ Wraps(Bare(x), x)
  BY <1>1, <1>2, BareIs DEF Framed, Bare
<1>4. /\ b \in Seq(Nat) /\ e \in Seq(Nat) /\ Len(b) = 2 /\ Len(e) = 2 /\ b[2] = 19
      /\ x \in Seq(Nat)
  BY <1>1, <1>2 DEF Begin, Start, End
<1>5. y \in Seq(Nat) /\ JoinOf(y, b, x)
  BY <1>2, <1>4, Joins, Zenon
<1>6. Unstuff(b) = b /\ Unstuff(e) = e
  BY <1>2, TwoUnstuffed DEF Begin, Start, End
<1>7. Unstuff(x) = body
  BY <1>2, StuffingIsUndone
<1>8. Unstuff(y) = b \o body
  <2>1. Len(b) > 0 => b[Len(b)] # 23
    BY <1>4
  <2>2. Unstuff(b \o x) = Unstuff(b) \o Unstuff(x)
    BY <1>4, <2>1, UnstuffJoins
  <2> QED
    BY <1>2, <1>6, <1>7, <2>2
<1>9. Len(y) > 0 => y[Len(y)] # 23
  <2>1. Len(x) \in Nat /\ Len(y) = 2 + Len(x) /\ y[2] = 19 /\ \A i \in 1..Len(x) : y[2 + i] = x[i]
    BY <1>4, <1>5 DEF JoinOf
  <2>2. CASE Len(x) = 0
    BY <2>1, <2>2
  <2>3. CASE Len(x) # 0
    <3>1. Len(x) \in 1..Len(x) /\ ~ (Len(x) < Len(x))
      BY <2>1, <2>3
    <3>2. x[Len(x)] # 23
      BY <1>2, <3>1, NoMarkInside
    <3> QED
      BY <2>1, <3>1, <3>2
  <2> QED
    BY <2>2, <2>3
<1>10. Unstuff(y \o e) = Unstuff(y) \o Unstuff(e)
  BY <1>4, <1>5, <1>9, UnstuffJoins
<1>11. Unstuff(y \o e) = (b \o body) \o e
  BY <1>6, <1>8, <1>10
<1> QED
  BY <1>2, <1>3, <1>11 DEF Bare

\* The first c bytes of x unstuff to the first m of d, and end in a pair if
\* those end in a 17.
UnstuffsTo(x, c, d, m) ==
    /\ Unstuff(SubSeq(x, 1, c)) = SubSeq(d, 1, m)
    /\ m > 0 /\ d[m] = 23 => c > 1 /\ x[c - 1] = 23 /\ x[c] = 18

\* What is stuffed, cut anywhere but behind a 17, unstuffs to the beginning of
\* what it was.  It ends in a pair if that beginning ends in a 17.
LEMMA StuffedPart ==
    ASSUME NEW d \in Seq(Nat), NEW x, x = Stuff(d), NEW c \in 0..Len(x),
           c > 0 => x[c] # 23
    PROVE  \E m \in 0..Len(d) : UnstuffsTo(x, c, d, m)
<1>1. PICK ss \in Seq(Seq(Nat)) : Len(ss) = Len(d) /\ \A i \in 1..Len(d) : ss[i] = Piece(d[i])
  <2>1. Len(d) \in Nat /\ \A i \in 1..Len(d) : d[i] \in Nat
    BY LenProperties, ElementOfSeq
  <2>2. PICK f, n : n = Len(d) /\ f = [i \in 1..n |-> Piece(d[i])]
    OBVIOUS
  <2>3. n \in Nat /\ f \in [1..n -> Seq(Nat)] /\ \A i \in 1..n : f[i] = Piece(d[i])
    BY <2>1, <2>2, PieceIs
  <2>4. f \in Seq(Seq(Nat)) /\ Len(f) = n
    BY <2>3, FunctionIsSeq
  <2> QED
    BY <2>2, <2>3, <2>4, Zenon
<1>2. PICK h : Stuffs(h, d) /\ x = h[Len(d)]
  BY StuffIs
<1>3. Joined(h, ss, Nat)
  BY <1>1, <1>2 DEF Stuffs, Joined
<1>4. PICK L : L = Len(d)
  OBVIOUS
<1>5. L \in Nat /\ L = Len(ss) /\ x = h[L] /\ x \in Seq(Nat)
  BY <1>1, <1>2, <1>4, LenProperties, StuffSpreads
<1>6. ASSUME NEW m \in 0..L
      PROVE  /\ h[m] \in Seq(Nat) /\ Len(h[m]) \in Nat /\ Len(h[m]) <= Len(x) /\ Len(x) \in Nat
             /\ \A i \in 1..Len(h[m]) : x[i] = h[m][i]
  <2>1. L \in 0..Len(ss) /\ m \in 0..L
    BY <1>5
  <2>2. /\ h[m] \in Seq(Nat) /\ h[L] \in Seq(Nat) /\ Len(h[m]) \in Nat /\ Len(h[L]) \in Nat
        /\ Len(h[m]) <= Len(h[L]) /\ \A i \in 1..Len(h[m]) : h[L][i] = h[m][i]
    BY <1>3, <2>1, JoinedBegins
  <2> QED
    BY <1>5, <2>2, Zenon
<1>7. ASSUME NEW m \in 1..L
      PROVE  /\ m - 1 \in 0..L /\ Len(h[m - 1]) \in Nat /\ Len(h[m]) \in Nat
             /\ d[m] = 23 => /\ Len(h[m]) = Len(h[m - 1]) + 2 /\ x[Len(h[m]) - 1] = 23
                             /\ x[Len(h[m])] = 18
             /\ d[m] # 23 => Len(h[m]) = Len(h[m - 1]) + 1
  <2>1. /\ Len(h[m - 1]) \in Nat /\ Len(h[m]) \in Nat /\ h[m][Len(h[m - 1]) + 1] = d[m]
        /\ d[m] = 23 => Len(h[m]) = Len(h[m - 1]) + 2 /\ h[m][Len(h[m - 1]) + 2] = 18
        /\ d[m] # 23 => Len(h[m]) = Len(h[m - 1]) + 1
    BY <1>2, <1>4, Grows
  <2>2. m \in 0..L /\ m - 1 \in 0..L
    BY <1>5
  <2>3. \A i \in 1..Len(h[m]) : x[i] = h[m][i]
    BY <1>6, <2>2
  <2>4. PICK a, b : a = Len(h[m - 1]) /\ b = Len(h[m])
    OBVIOUS
  <2>5. ASSUME d[m] = 23 PROVE b = a + 2 /\ x[b - 1] = 23 /\ x[b] = 18
    <3>1. a \in Nat /\ b = a + 2 /\ h[m][a + 1] = 23 /\ h[m][b] = 18
      BY <2>1, <2>4, <2>5
    <3>2. b - 1 = a + 1 /\ a + 1 \in 1..b /\ b \in 1..b
      BY <3>1
    <3> QED
      BY <2>3, <2>4, <3>1, <3>2
  <2> QED
    BY <2>1, <2>2, <2>4, <2>5, Zenon
<1> DEFINE Full(n) == \E m \in 0..L : Len(h[m]) = n
           Half(n) == \E m \in 1..L : d[m] = 23 /\ Len(h[m]) = n + 1
           P == {n \in 0..Len(x) : Full(n) \/ Half(n)}
<1>8. Len(x) \in Nat /\ 0 \in 0..L
  BY <1>5, LenProperties
<1>9. 0 \in P
  <2>1. Len(h[0]) = 0
    BY <1>3, EmptySeq DEF Joined
  <2> QED
    BY <1>8, <2>1
<1>10. ASSUME NEW n \in 1..Len(x), n - 1 \in P PROVE n \in P
  <2>1. CASE Half(n - 1)
    <3>1. PICK m \in 1..L : d[m] = 23 /\ Len(h[m]) = (n - 1) + 1
      BY <2>1
    <3>2. m \in 0..L /\ Len(h[m]) = n
      BY <1>8, <3>1
    <3> QED
      BY <1>8, <3>2
  <2>2. CASE Full(n - 1)
    <3>1. PICK m \in 0..L : Len(h[m]) = n - 1
      BY <2>2
    <3>2. m # L
      BY <1>5, <1>8, <3>1
    <3>3. m + 1 \in 1..L /\ (m + 1) - 1 = m /\ m + 1 \in 0..L
      BY <1>5, <3>2
    <3>4. CASE d[m + 1] = 23
      <4>0. Len(h[m + 1]) = Len(h[(m + 1) - 1]) + 2 /\ Len(h[m + 1]) \in Nat
        BY <1>7, <3>3, <3>4
      <4>1. Len(h[m + 1]) = n + 1
        BY <1>8, <3>1, <3>3, <4>0
      <4> QED
        BY <1>8, <3>3, <3>4, <4>1
    <3>5. CASE d[m + 1] # 23
      <4>0. Len(h[m + 1]) = Len(h[(m + 1) - 1]) + 1 /\ Len(h[m + 1]) \in Nat
        BY <1>7, <3>3, <3>5
      <4>1. Len(h[m + 1]) = n
        BY <1>8, <3>1, <3>3, <4>0
      <4> QED
        BY <1>8, <3>3, <4>1
    <3> QED
      BY <3>4, <3>5
  <2> QED
    BY <1>10, <2>1, <2>2
<1> HIDE DEF P
<1>11. c \in P
  BY <1>8, <1>9, <1>10, UpTo
<1>12. ~ Half(c)
  <2> SUFFICES ASSUME NEW m \in 1..L, d[m] = 23, Len(h[m]) = c + 1 PROVE FALSE
    OBVIOUS
  <2>1. c \in Nat /\ Len(h[m]) - 1 = c /\ Len(h[m - 1]) \in Nat /\ Len(h[m]) = Len(h[m - 1]) + 2
        /\ x[Len(h[m]) - 1] = 23
    BY <1>7, <1>8
  <2> QED
    BY <2>1
<1>13. PICK m \in 0..L : Len(h[m]) = c
  BY <1>11, <1>12 DEF P
<1>14. SubSeq(x, 1, c) = h[m]
  <2>1. h[m] \in Seq(Nat) /\ \A i \in 1..c : x[i] = h[m][i] /\ h[m][i] \in Nat
    <3>1. h[m] \in Seq(Nat) /\ \A i \in 1..Len(h[m]) : x[i] = h[m][i]
      BY <1>6
    <3> QED
      BY <1>13, <3>1, ElementOfSeq
  <2>2. /\ SubSeq(x, 1, c) \in Seq(Nat) /\ Len(SubSeq(x, 1, c)) = c
        /\ \A i \in 1..c : SubSeq(x, 1, c)[i] = x[i]
    BY <1>5, FirstPart
  <2> QED
    BY <1>13, <2>1, <2>2, SeqEqual
<1>15. h[m] = Stuff(SubSeq(d, 1, m))
  <2>1. PICK e : e = SubSeq(d, 1, m)
    OBVIOUS
  <2>2. e \in Seq(Nat) /\ Len(e) = m /\ \A i \in 1..m : e[i] = d[i]
    <3>1. m \in 0..Len(d)
      BY <1>4
    <3>2. /\ SubSeq(d, 1, m) \in Seq(Nat) /\ Len(SubSeq(d, 1, m)) = m
          /\ \A i \in 1..m : SubSeq(d, 1, m)[i] = d[i]
      BY <3>1, FirstPart
    <3> QED
      BY <2>1, <3>2, Zenon
  <2>3. PICK g : Stuffs(g, e) /\ Stuff(e) = g[Len(e)]
    BY <2>2, StuffIs
  <2> DEFINE Q == {k \in 0..m : g[k] = h[k]}
  <2>4. m \in Nat /\ 0 \in Q
    BY <1>2, <2>3 DEF Stuffs
  <2>5. ASSUME NEW k \in 1..m, k - 1 \in Q PROVE k \in Q
    <3>1. k \in 1..L /\ k \in 0..m
      BY <1>5
    <3>2. g[k] = g[k - 1] \o Piece(d[k]) /\ h[k] = h[k - 1] \o Piece(d[k])
      BY <1>2, <1>4, <2>2, <2>3, <3>1 DEF Stuffs
    <3> QED
      BY <2>5, <3>1, <3>2
  <2> HIDE DEF Q
  <2>6. m \in Q
    <3>1. m \in 0..m
      BY <2>4
    <3>2. \A k \in 0..m : k \in Q
      BY <2>4, <2>5, UpTo
    <3> QED
      BY <3>1, <3>2
  <2> QED
    BY <2>1, <2>2, <2>3, <2>6 DEF Q
<1>16. Unstuff(SubSeq(x, 1, c)) = SubSeq(d, 1, m)
  <2>1. SubSeq(d, 1, m) \in Seq(Nat)
    BY <1>4, FirstPart
  <2> QED
    BY <1>14, <1>15, <2>1, StuffingIsUndone
<1>17. ASSUME m > 0, d[m] = 23 PROVE c > 1 /\ x[c - 1] = 23 /\ x[c] = 18
  <2>1. m \in 1..L
    BY <1>5, <1>17
  <2>2. /\ Len(h[m - 1]) \in Nat /\ Len(h[m]) = Len(h[m - 1]) + 2 /\ x[Len(h[m]) - 1] = 23
        /\ x[Len(h[m])] = 18
    BY <1>7, <1>17, <2>1
  <2> QED
    BY <1>13, <2>2
<1> QED
  BY <1>4, <1>16, <1>17 DEF UnstuffsTo

-----------------------------------------------------------------------------
(* The search for marks, byte by byte *)

Found == [type : Nat, what : Nat \cup Seq(Nat)]

\* The search, of n bytes
ScanOf(n) ==
    [start : Nat \ {0}, skip : BOOLEAN, bytes : {b \in Seq(Nat) : Len(b) = n},
     found : Seq(Found), outside : BOOLEAN, beyond : BOOLEAN]

\* What is found stays so, and so do the bytes behind i, as long as the
\* search stays in the packets.
Goes(next, scan, i, n) ==
    /\ next \in ScanOf(n)
    /\ scan.outside => next.outside
    /\ scan.beyond => next.beyond
    /\ \E t \in Seq(Found) : next.found = scan.found \o t
    /\ ~ next.outside /\ ~ next.beyond =>
          \A j \in 1..n : j > i => next.bytes[j] = scan.bytes[j]

\* The search closes a text with a 0: it changes one byte only.
LEMMA Put ==
    ASSUME NEW b \in Seq(Nat), NEW k
    PROVE  /\ [b EXCEPT ![k] = 0] \in Seq(Nat) /\ Len([b EXCEPT ![k] = 0]) = Len(b)
           /\ \A j \in 1..Len(b) : j # k => [b EXCEPT ![k] = 0][j] = b[j]
<1>1. Len(b) \in Nat /\ b \in [1..Len(b) -> Nat] /\ DOMAIN b = 1..Len(b)
  BY LenProperties
<1>2. PICK f, n : n = Len(b) /\ f = [b EXCEPT ![k] = 0]
  OBVIOUS
<1>3. n \in Nat /\ f \in [1..n -> Nat] /\ \A j \in 1..n : j # k => f[j] = b[j]
  BY <1>1, <1>2
<1>4. f \in Seq(Nat) /\ Len(f) = n
  BY <1>3, FunctionIsSeq
<1> QED
  BY <1>2, <1>3, <1>4, Zenon

\* CheckTypePacket finds packets of numbers.
LEMMA CheckedIs ==
    ASSUME NEW p \in Seq(Nat), NEW s \in Nat \ {0}, Inside(p, s)
    PROVE  /\ Checked(p, s) \in Seq(Found) /\ p[s] * 256 + p[s + 1] \in Nat
           /\ p[s + 5] = 2 => TextEnd(p, s) \in Nat
<1>1. Len(p) \in Nat /\ s + 5 <= Len(p)
  BY LenProperties DEF Inside
<1>2. \A i \in 1..Len(p) : p[i] \in Nat
  BY ElementOfSeq
<1>3. p[s] \in Nat /\ p[s + 1] \in Nat /\ p[s + 5] \in Nat
  <2>1. s \in 1..Len(p) /\ s + 1 \in 1..Len(p) /\ s + 5 \in 1..Len(p)
    BY <1>1
  <2> QED
    BY <1>2, <2>1
<1>4. PICK l : l = p[s] * 256 + p[s + 1]
  OBVIOUS
<1>5. l \in Nat /\ p[s] * 256 + p[s + 1] \in Nat
  BY <1>3, <1>4, SMTT(60)
<1>6. TextEnd(p, s) = s + l - 2
  <2>1. PICK x, y : x = p[s] /\ y = p[s + 1]
    OBVIOUS
  <2>2. x \in Nat /\ y \in Nat /\ l = x * 256 + y /\ TextEnd(p, s) = s + x * 256 + y - 2
    BY <1>3, <1>4, <2>1, Zenon DEF TextEnd
  <2> QED
    BY <2>2
<1>7. CASE p[s + 5] = 1
  <2>1. s + 6 \in 1..Len(p) /\ s + 7 \in 1..Len(p)
    BY <1>1, <1>7 DEF Inside
  <2>2. p[s + 6] * 256 + p[s + 7] \in Nat
    BY <1>2, <2>1
  <2>3. PICK w \in Nat : w = p[s + 6] * 256 + p[s + 7]
    BY <2>2
  <2>4. Checked(p, s) = <<[type |-> 1, what |-> w]>>
    BY <1>7, <2>3 DEF Checked
  <2>5. [type |-> 1, what |-> w] \in Found
    BY DEF Found
  <2>6. Checked(p, s) \in Seq(Found)
    BY <2>4, <2>5
  <2> QED
    BY <1>5, <1>7, <2>6
<1>8. CASE p[s + 5] = 2
  <2>1. s + 6 <= s + l - 2 /\ s + l - 2 <= Len(p)
    BY <1>6, <1>8 DEF Inside
  <2>2. PICK w, m : w = SubSeq(p, s + 6, m) /\ m = s + 5 + (p[s] * 256 + p[s + 1] - 8)
    OBVIOUS
  <2>3. m = s + 5 + (l - 8)
    <3>1. PICK x, y : x = p[s] /\ y = p[s + 1]
      OBVIOUS
    <3>2. x \in Nat /\ y \in Nat /\ l = x * 256 + y /\ m = s + 5 + (x * 256 + y - 8)
      BY <1>3, <1>4, <2>2, <3>1, Zenon
    <3> QED
      BY <3>2
  <2>4. s + 6 \in Int /\ m \in Int /\ \A i \in (s + 6)..m : p[i] \in Nat
    BY <1>1, <1>2, <1>5, <2>1, <2>3
  <2>5. SubSeq(p, s + 6, m) \in Seq(Nat)
    BY <2>4, SubSeqProperties
  <2>6. w \in Seq(Nat)
    BY <2>2, <2>5, Zenon
  <2>7. Checked(p, s) = <<[type |-> 2, what |-> w]>>
    <3>1. PICK r1, r2 : /\ r1 = <<[type |-> 1, what |-> p[s + 6] * 256 + p[s + 7]]>>
                        /\ r2 = <<[type |-> 2, what |-> w]>>
      OBVIOUS
    <3>2. Checked(p, s) = CASE p[s + 5] = 1 -> r1 [] p[s + 5] = 2 -> r2 [] OTHER -> <<>>
      BY <2>2, <3>1, Zenon DEF Checked
    <3>3. Checked(p, s) = r2
      BY <1>8, <3>2
    <3> QED
      BY <3>1, <3>3
  <2>8. [type |-> 2, what |-> w] \in Found
    BY <2>6 DEF Found
  <2>9. Checked(p, s) \in Seq(Found)
    BY <2>7, <2>8
  <2>10. TextEnd(p, s) \in Nat
    BY <1>5, <1>6, <2>1
  <2> QED
    BY <1>5, <2>9, <2>10
<1>9. CASE p[s + 5] # 1 /\ p[s + 5] # 2
  <2>1. Checked(p, s) = <<>>
    BY <1>9 DEF Checked
  <2> QED
    BY <1>5, <1>9, <2>1, EmptySeq
<1> QED
  BY <1>7, <1>8, <1>9

\* What Attempt decides
Decided(next, scan, e, p, s) ==
    \/ (e < s + 1 \/ ~ Inside(p, s)) /\ next = [scan EXCEPT !.outside = TRUE]
    \/ e >= s + 1 /\ ~ Accepts(p, s, e) /\ next = [scan EXCEPT !.bytes = p]
    \/ /\ e >= s + 1 /\ Accepts(p, s, e) /\ Inside(p, s)
       /\ next = [scan EXCEPT !.bytes = Ended(p, s), !.found = @ \o Checked(p, s),
                              !.beyond = @ \/ (p[s + 5] = 2 /\ e < TextEnd(p, s))]

\* The outcomes of an end mark: outside, refused, or found
LEMMA AttemptDecides ==
    ASSUME NEW scan, NEW e \in Nat, scan.start \in Nat
    PROVE  Decided(Attempt(scan, e), scan, e, [scan.bytes EXCEPT ![e - 1] = 0], scan.start)
<1>0. PICK p, s : p = [scan.bytes EXCEPT ![e - 1] = 0] /\ s = scan.start
  OBVIOUS
<1>1. e < s + 1 \/ e >= s + 1
  BY <1>0
<1>2. PICK r1, r2, r3 :
        /\ r1 = [scan EXCEPT !.outside = TRUE] /\ r2 = [scan EXCEPT !.bytes = p]
        /\ r3 = [scan EXCEPT !.bytes = Ended(p, s), !.found = @ \o Checked(p, s),
                             !.beyond = @ \/ (p[s + 5] = 2 /\ e < TextEnd(p, s))]
  OBVIOUS
<1>3. Attempt(scan, e) =
        CASE e < s + 1 -> r1
          [] e >= s + 1 /\ ~ Accepts(p, s, e) -> r2
          [] e >= s + 1 /\ Accepts(p, s, e) /\ ~ Inside(p, s) -> r1
          [] OTHER -> r3
  BY <1>0, <1>2, Zenon DEF Attempt
<1>4. \/ (e < s + 1 \/ ~ Inside(p, s)) /\ Attempt(scan, e) = r1
      \/ e >= s + 1 /\ ~ Accepts(p, s, e) /\ Attempt(scan, e) = r2
      \/ e >= s + 1 /\ Accepts(p, s, e) /\ Inside(p, s) /\ Attempt(scan, e) = r3
  <2>1. PICK A, I : A = Accepts(p, s, e) /\ I = Inside(p, s)
    OBVIOUS
  <2> QED
    BY <1>1, <1>3
<1> QED
  BY <1>0, <1>2, <1>4, Zenon DEF Decided

\* After an end mark the state of the search keeps its type and what it found.
LEMMA AttemptGoes ==
    ASSUME NEW n \in Nat, NEW scan \in ScanOf(n), NEW e \in Nat
    PROVE  Goes(Attempt(scan, e), scan, e, n) /\ Attempt(scan, e).skip = scan.skip
<1>1. PICK p, s : p = [scan.bytes EXCEPT ![e - 1] = 0] /\ s = scan.start
  OBVIOUS
<1>2. s \in Nat \ {0} /\ scan.bytes \in Seq(Nat) /\ Len(scan.bytes) = n /\ scan.found \in Seq(Found)
  BY <1>1 DEF ScanOf
<1>3. p \in Seq(Nat) /\ Len(p) = n /\ \A j \in 1..n : j # e - 1 => p[j] = scan.bytes[j]
  BY <1>1, <1>2, Put
<1>4. scan.found \o <<>> = scan.found /\ <<>> \in Seq(Found)
  BY <1>2, ConcatEmptySeq, EmptySeq
<1>5. CASE Attempt(scan, e) = [scan EXCEPT !.outside = TRUE]
  <2>1. PICK t : t = Attempt(scan, e)
    OBVIOUS
  <2>2. /\ t \in ScanOf(n) /\ t.outside /\ t.beyond = scan.beyond /\ t.found = scan.found
        /\ t.skip = scan.skip
    BY <1>5, <2>1 DEF ScanOf
  <2> QED
    BY <1>4, <2>1, <2>2 DEF Goes
<1>6. CASE Attempt(scan, e) = [scan EXCEPT !.bytes = p]
  <2>1. PICK t : t = Attempt(scan, e)
    OBVIOUS
  <2>2. /\ t \in ScanOf(n) /\ t.outside = scan.outside /\ t.beyond = scan.beyond /\ t.found = scan.found
        /\ t.skip = scan.skip /\ t.bytes = p
    BY <1>3, <1>6, <2>1 DEF ScanOf
  <2>3. \A j \in 1..n : j > e => t.bytes[j] = scan.bytes[j]
    BY <1>3, <2>2
  <2> QED
    BY <1>4, <2>1, <2>2, <2>3 DEF Goes
<1>7. CASE /\ e >= s + 1 /\ Accepts(p, s, e) /\ Inside(p, s)
           /\ Attempt(scan, e) =
                 [scan EXCEPT !.bytes = Ended(p, s), !.found = @ \o Checked(p, s),
                              !.beyond = @ \/ (p[s + 5] = 2 /\ e < TextEnd(p, s))]
  <2>1. PICK t, q, c, b : /\ t = Attempt(scan, e) /\ q = Ended(p, s) /\ c = Checked(p, s)
                          /\ b = (scan.beyond \/ (p[s + 5] = 2 /\ e < TextEnd(p, s)))
    OBVIOUS
  <2>2. c \in Seq(Found) /\ (p[s + 5] = 2 => TextEnd(p, s) \in Nat)
    BY <1>2, <1>3, <1>7, <2>1, CheckedIs
  <2>3. q \in Seq(Nat) /\ Len(q) = n /\ (p[s + 5] # 2 => q = p)
        /\ (p[s + 5] = 2 => \A j \in 1..n : j # TextEnd(p, s) => q[j] = p[j])
    BY <1>3, <2>1, Put DEF Ended
  <2>4. b \in BOOLEAN
    BY <2>1 DEF ScanOf
  <2>5. scan.found \o c \in Seq(Found)
    BY <1>2, <2>2, ConcatProperties
  <2>6. t = [scan EXCEPT !.bytes = q, !.found = scan.found \o c, !.beyond = b]
    BY <1>7, <2>1
  <2>7. /\ t \in ScanOf(n) /\ t.outside = scan.outside /\ t.beyond = b /\ t.found = scan.found \o c
        /\ t.skip = scan.skip /\ t.bytes = q
    BY <2>3, <2>4, <2>5, <2>6 DEF ScanOf
  <2>8. ASSUME ~ t.beyond, NEW j \in 1..n, j > e PROVE q[j] = scan.bytes[j]
    <3>0. ~ (p[s + 5] = 2 /\ e < TextEnd(p, s))
      BY <2>1, <2>7, <2>8, Zenon
    <3>1. p[s + 5] = 2 => TextEnd(p, s) <= e
      BY <2>2, <3>0
    <3>2. p[j] = scan.bytes[j]
      BY <1>3, <2>8
    <3> QED
      BY <2>2, <2>3, <2>8, <3>1, <3>2
  <2>9. scan.beyond => t.beyond
    BY <2>1, <2>7
  <2> QED
    BY <2>1, <2>2, <2>7, <2>8, <2>9 DEF Goes
<1>8. s \in Nat
  BY <1>2
<1>9. Decided(Attempt(scan, e), scan, e, p, s)
  BY <1>1, <1>8, AttemptDecides, Zenon
<1> QED
  BY <1>5, <1>6, <1>7, <1>9, Zenon DEF Decided

\* So it does after any byte.
LEMMA LooksGoes ==
    ASSUME NEW n \in Nat, NEW scan \in ScanOf(n), NEW i \in 1..n, NEW behind
    PROVE  /\ Goes(Looks(scan, i, behind), scan, i, n)
           /\ Looks(scan, i, behind).skip => scan.outside \/ scan.bytes[i] = 23
<1>1. PICK t, next : /\ t = Looks(scan, i, behind)
                     /\ next = IF i < Len(scan.bytes) THEN scan.bytes[i + 1] ELSE behind
  OBVIOUS
<1>2. /\ scan.start \in Nat \ {0} /\ scan.bytes \in Seq(Nat) /\ scan.found \in Seq(Found)
      /\ scan.skip \in BOOLEAN /\ scan.outside \in BOOLEAN /\ scan.beyond \in BOOLEAN
  BY DEF ScanOf
<1>3. scan.found \o <<>> = scan.found /\ <<>> \in Seq(Found)
  BY <1>2, ConcatEmptySeq, EmptySeq
<1>4. \/ scan.outside /\ t = scan
      \/ ~ scan.outside /\ scan.skip /\ t = [scan EXCEPT !.skip = FALSE]
      \/ /\ ~ scan.outside /\ ~ scan.skip /\ scan.bytes[i] = 23
         /\ t = [scan EXCEPT !.start = i + 2, !.skip = TRUE]
      \/ ~ scan.outside /\ ~ scan.skip /\ t = Attempt(scan, i - 1)
      \/ ~ scan.outside /\ ~ scan.skip /\ t = scan
  <2>1. PICK mark, a, r : /\ mark = (scan.bytes[i] = 23) /\ a = Attempt(scan, i - 1)
                          /\ r = [scan EXCEPT !.start = i + 2, !.skip = TRUE]
    OBVIOUS
  <2>2. t = IF scan.outside THEN scan
            ELSE IF scan.skip THEN [scan EXCEPT !.skip = FALSE]
            ELSE IF mark /\ next = Start THEN r
            ELSE IF mark /\ next = End THEN a
            ELSE scan
    BY <1>1, <2>1, Zenon DEF Looks, Begin
  <2>3. mark => scan.bytes[i] = 23
    BY <2>1, Zenon
  <2>4. \/ scan.outside /\ t = scan
        \/ ~ scan.outside /\ scan.skip /\ t = [scan EXCEPT !.skip = FALSE]
        \/ ~ scan.outside /\ ~ scan.skip /\ mark /\ t = r
        \/ ~ scan.outside /\ ~ scan.skip /\ t = a
        \/ ~ scan.outside /\ ~ scan.skip /\ t = scan
    BY <2>2, Zenon
  <2> QED
    BY <2>1, <2>3, <2>4, Zenon
<1>5. Goes(scan, scan, i, n)
  BY <1>3 DEF Goes
<1>6. CASE ~ scan.outside /\ scan.skip /\ t = [scan EXCEPT !.skip = FALSE]
  <2>1. /\ t \in ScanOf(n) /\ t.outside = scan.outside /\ t.beyond = scan.beyond /\ t.found = scan.found
        /\ t.skip = FALSE /\ t.bytes = scan.bytes
    BY <1>6 DEF ScanOf
  <2>2. Goes(t, scan, i, n)
    BY <1>3, <2>1 DEF Goes
  <2> QED
    BY <1>1, <1>6, <2>1, <2>2
<1>7. CASE /\ ~ scan.outside /\ ~ scan.skip /\ scan.bytes[i] = 23
           /\ t = [scan EXCEPT !.start = i + 2, !.skip = TRUE]
  <2>1. i + 2 \in Nat \ {0}
    OBVIOUS
  <2>2. /\ t \in ScanOf(n) /\ t.outside = scan.outside /\ t.beyond = scan.beyond /\ t.found = scan.found
        /\ t.bytes = scan.bytes
    BY <1>7, <2>1 DEF ScanOf
  <2>3. Goes(t, scan, i, n)
    BY <1>3, <2>2 DEF Goes
  <2> QED
    BY <1>1, <1>7, <2>3
<1>8. CASE ~ scan.outside /\ ~ scan.skip /\ t = Attempt(scan, i - 1)
  <2>1. i - 1 \in Nat /\ \A j \in 1..n : j > i => j > i - 1
    OBVIOUS
  <2>2. Goes(t, scan, i - 1, n) /\ t.skip = scan.skip
    BY <1>8, <2>1, AttemptGoes
  <2>3. Goes(t, scan, i, n)
    BY <2>1, <2>2 DEF Goes
  <2> QED
    BY <1>1, <1>8, <2>2, <2>3
<1>9. CASE (scan.outside \/ ~ scan.skip) /\ t = scan
  BY <1>1, <1>5, <1>9, Zenon
<1> QED
  BY <1>4, <1>6, <1>7, <1>8, <1>9, Zenon

\* The search, byte by byte
Scans(after, bytes, behind) ==
    /\ after \in [0..Len(bytes) -> ScanOf(Len(bytes))]
    /\ after[0] = [start |-> 1, skip |-> FALSE, bytes |-> bytes,
                   found |-> <<>>, outside |-> FALSE, beyond |-> FALSE]
    /\ \A i \in 1..Len(bytes) : after[i] = Looks(after[i - 1], i, behind)

\* The search is the sequence of its states after each byte.
LEMMA ExtractIs ==
    ASSUME NEW bytes \in Seq(Nat), NEW behind
    PROVE  \E after : Scans(after, bytes, behind) /\ Extract(bytes, behind) = after[Len(bytes)]
<1> DEFINE N == Len(bytes)
           S == ScanOf(N)
           fresh == [start |-> 1, skip |-> FALSE, bytes |-> bytes,
                     found |-> <<>>, outside |-> FALSE, beyond |-> FALSE]
           F == [n \in 1..N |-> [v \in S |-> Looks(v, n, behind)]]
           Fits(g) == g = [i \in 0..N |-> IF i = 0 THEN fresh ELSE Looks(g[i - 1], i, behind)]
<1>1. N \in Nat
  BY LenProperties
<1>2. fresh \in S
  BY EmptySeq DEF ScanOf
<1> HIDE DEF fresh
<1>3. \A n \in 1..N : \A v \in S : Looks(v, n, behind) \in S
  BY <1>1, LooksGoes DEF Goes
<1>4. F \in [1..N -> [S -> S]]
  BY <1>3
<1> HIDE DEF F, S
<1>5. PICK h : Recurs(h, S, fresh, N, F)
  BY <1>1, <1>2, <1>4, Recursion
<1>6. /\ h \in [0..N -> S] /\ h[0] = fresh
      /\ \A i \in 1..N : h[i] = Looks(h[i - 1], i, behind)
  <2>1. h \in [0..N -> S] /\ h[0] = fresh /\ \A i \in 1..N : h[i] = F[i][h[i - 1]]
    BY <1>5 DEF Recurs
  <2>2. ASSUME NEW i \in 1..N PROVE h[i] = Looks(h[i - 1], i, behind)
    <3>1. i - 1 \in 0..N
      BY <1>1
    <3>2. h[i - 1] \in S
      BY <2>1, <3>1
    <3> QED
      BY <2>1, <3>2 DEF F
  <2> QED
    BY <2>1, <2>2
<1>7. Fits(h)
  <2>1. \A i \in 0..N : h[i] = IF i = 0 THEN fresh ELSE Looks(h[i - 1], i, behind)
    <3>1. \A i \in 0..N : i = 0 \/ i \in 1..N
      BY <1>1
    <3> QED
      BY <1>6, <3>1
  <2> QED
    BY <1>6, <2>1
<1>8. Fits(CHOOSE g : Fits(g))
  <2> HIDE DEF Fits
  <2> QED
    BY <1>7, Zenon
<1>9. Extract(bytes, behind) = (CHOOSE g : Fits(g))[N]
  BY DEF Extract, fresh
<1>10. PICK g : Fits(g) /\ Extract(bytes, behind) = g[N]
  <2> HIDE DEF Fits
  <2> QED
    BY <1>8, <1>9, Zenon
<1>11. g = h
  <2>1. g = [i \in 0..N |-> IF i = 0 THEN fresh ELSE Looks(g[i - 1], i, behind)]
    BY <1>10
  <2>2. \A i \in 0..N : g[i] = IF i = 0 THEN fresh ELSE Looks(g[i - 1], i, behind)
    BY <2>1
  <2> DEFINE P == {n \in 0..N : g[n] = h[n]}
  <2>3. 0 \in P
    <3>1. 0 \in 0..N
      BY <1>1
    <3> QED
      BY <1>6, <2>2, <3>1
  <2>4. ASSUME NEW n \in 1..N, n - 1 \in P PROVE n \in P
    <3>1. n \in 0..N /\ n # 0
      BY <1>1
    <3> QED
      BY <1>6, <2>2, <2>4, <3>1
  <2> HIDE DEF P
  <2>5. \A n \in 0..N : n \in P
    BY <1>1, <2>3, <2>4, UpTo
  <2>6. \A n \in 0..N : g[n] = h[n]
    BY <2>5 DEF P
  <2>7. DOMAIN g = 0..N /\ g = [i \in DOMAIN g |-> g[i]]
    BY <2>1
  <2> QED
    BY <1>6, <2>6, <2>7
<1>12. Scans(h, bytes, behind)
  BY <1>6 DEF Scans, S, fresh
<1> QED
  BY <1>10, <1>11, <1>12

Clean(scan) == ~ scan.outside /\ ~ scan.beyond /\ ~ scan.skip

\* What leaves the packets stays out of them, and what is found stays found.
KeepsFinds(next, scan) ==
    /\ scan.outside => next.outside
    /\ scan.beyond => next.beyond
    /\ \E t \in Seq(Found) : next.found = scan.found \o t

\* Between two states of the search what is found stays found.
LEMMA ScanLater ==
    ASSUME NEW bytes \in Seq(Nat), NEW behind, NEW after, Scans(after, bytes, behind),
           NEW b \in 0..Len(bytes), NEW a \in 0..b
    PROVE  /\ after[a] \in ScanOf(Len(bytes)) /\ after[b] \in ScanOf(Len(bytes))
           /\ KeepsFinds(after[b], after[a])
<1>1. PICK N : N = Len(bytes)
  OBVIOUS
<1>2. N \in Nat /\ a \in 0..N /\ b \in 0..N
  BY <1>1, LenProperties
<1>3. /\ \A n \in 0..N : after[n] \in ScanOf(N)
      /\ \A n \in 1..N : after[n] = Looks(after[n - 1], n, behind)
  BY <1>1 DEF Scans
<1> DEFINE Good(n) == /\ after[a].outside => after[n].outside
                      /\ after[a].beyond => after[n].beyond
                      /\ \E t \in Seq(Found) : after[n].found = after[a].found \o t
           P == {n \in 0..N : a <= n => Good(n)}
<1>4. Good(a)
  <2>1. after[a].found \in Seq(Found)
    BY <1>2, <1>3 DEF ScanOf
  <2>2. after[a].found \o <<>> = after[a].found /\ <<>> \in Seq(Found)
    BY <2>1, ConcatEmptySeq, EmptySeq
  <2> QED
    BY <2>2
<1>5. 0 \in P
  <2>1. a <= 0 => a = 0
    BY <1>2
  <2>2. 0 \in 0..N
    BY <1>2
  <2> HIDE DEF Good
  <2> QED
    BY <1>4, <2>1, <2>2
<1>6. ASSUME NEW n \in 1..N, n - 1 \in P PROVE n \in P
  <2>1. n \in 0..N /\ n - 1 \in 0..N
    BY <1>2
  <2>2. CASE a <= n - 1
    <3>1. Good(n - 1)
      BY <1>6, <2>2
    <3>2. Goes(after[n], after[n - 1], n, N)
      BY <1>2, <1>3, <2>1, LooksGoes
    <3>3. PICK t \in Seq(Found) : after[n - 1].found = after[a].found \o t
      BY <3>1
    <3>4. PICK u \in Seq(Found) : after[n].found = after[n - 1].found \o u
      BY <3>2 DEF Goes
    <3>5. after[a].found \in Seq(Found)
      BY <1>2, <1>3 DEF ScanOf
    <3>6. after[n].found = after[a].found \o (t \o u) /\ t \o u \in Seq(Found)
      <4>1. (after[a].found \o t) \o u = after[a].found \o (t \o u)
        <5>1. ASSUME NEW x \in Seq(Found), NEW y \in Seq(Found), NEW z \in Seq(Found)
              PROVE  (x \o y) \o z = x \o (y \o z)
          BY ConcatAssociative, SMTT(60)
        <5> QED
          BY <3>5, <5>1, Zenon
      <4>2. t \o u \in Seq(Found)
        BY ConcatProperties
      <4> QED
        BY <3>3, <3>4, <4>1, <4>2, Zenon
    <3>7. (after[a].outside => after[n].outside) /\ (after[a].beyond => after[n].beyond)
      BY <3>1, <3>2, Zenon DEF Goes
    <3>8. Good(n)
      BY <3>6, <3>7
    <3> HIDE DEF Good
    <3> QED
      BY <2>1, <3>8
  <2>3. CASE ~ (a <= n - 1)
    <3>1. a <= n => a = n
      BY <1>2, <2>3
    <3> HIDE DEF Good
    <3> QED
      BY <1>4, <2>1, <3>1
  <2> QED
    BY <2>2, <2>3
<1> HIDE DEF P
<1>7. \A n \in 0..N : n \in P
  BY <1>2, <1>5, <1>6, UpTo
<1>8. Good(b)
  <2> HIDE DEF Good
  <2> QED
    BY <1>2, <1>7 DEF P
<1> QED
  BY <1>1, <1>2, <1>3, <1>8 DEF KeepsFinds

\* Until the search leaves the packets, the bytes before it are those that
\* were read.
LEMMA ScanClean ==
    ASSUME NEW bytes \in Seq(Nat), NEW behind, NEW after, Scans(after, bytes, behind),
           NEW a \in 0..Len(bytes), ~ after[a].outside, ~ after[a].beyond
    PROVE  /\ \A j \in 1..Len(bytes) : j > a => after[a].bytes[j] = bytes[j]
           /\ a > 0 /\ after[a].skip => bytes[a] = 23
<1>1. PICK N : N = Len(bytes)
  OBVIOUS
<1>2. N \in Nat /\ a \in 0..N
  BY <1>1, LenProperties
<1>3. /\ \A n \in 0..N : after[n] \in ScanOf(N)
      /\ \A n \in 1..N : after[n] = Looks(after[n - 1], n, behind)
      /\ after[0].bytes = bytes
  BY <1>1 DEF Scans
<1> DEFINE Same2(n) == \A j \in 1..N : j > n => after[n].bytes[j] = bytes[j]
           Good(n) == ~ after[n].outside /\ ~ after[n].beyond =>
                         Same2(n) /\ (n > 0 /\ after[n].skip => bytes[n] = 23)
           P == {n \in 0..N : Good(n)}
<1>4. 0 \in P
  <2>1. 0 \in 0..N /\ ~ (0 > 0)
    BY <1>2
  <2> QED
    BY <1>3, <2>1
<1>5. ASSUME NEW n \in 1..N, n - 1 \in P PROVE n \in P
  <2>1. n \in 0..N /\ n - 1 \in 0..N /\ n > n - 1
    BY <1>2
  <2>2. SUFFICES ASSUME ~ after[n].outside, ~ after[n].beyond
                 PROVE  Same2(n) /\ (n > 0 /\ after[n].skip => bytes[n] = 23)
    BY <2>1
  <2>3. /\ Goes(after[n], after[n - 1], n, N)
        /\ after[n].skip => after[n - 1].outside \/ after[n - 1].bytes[n] = 23
    BY <1>2, <1>3, <2>1, LooksGoes
  <2>4. ~ after[n - 1].outside /\ ~ after[n - 1].beyond
    BY <2>2, <2>3, Zenon DEF Goes
  <2>5. Same2(n - 1)
    BY <1>5, <2>4
  <2>6. \A j \in 1..N : j > n => after[n].bytes[j] = after[n - 1].bytes[j]
    BY <2>2, <2>3 DEF Goes
  <2>7. \A j \in 1..N : j > n => j > n - 1
    BY <1>2
  <2>8. Same2(n)
    BY <2>5, <2>6, <2>7
  <2>9. after[n - 1].bytes[n] = bytes[n]
    BY <2>1, <2>5
  <2> QED
    BY <2>3, <2>4, <2>8, <2>9
<1> HIDE DEF P
<1>6. a \in P
  BY <1>2, <1>4, <1>5, UpTo
<1> QED
  BY <1>1, <1>6 DEF P

\* No mark begins at i.
Quiet(bytes, behind, i) ==
    ~ (bytes[i] = 23 /\ (IF i < Len(bytes) THEN bytes[i + 1] ELSE behind) \in {19, 5})

\* Bytes that begin no mark change nothing.
LEMMA ScanQuiet ==
    ASSUME NEW bytes \in Seq(Nat), NEW behind, NEW after, Scans(after, bytes, behind),
           NEW b \in 0..Len(bytes), NEW a \in 0..b, Clean(after[a]),
           \A i \in (a + 1)..b : Quiet(bytes, behind, i)
    PROVE  after[b] = after[a]
<1>1. PICK N : N = Len(bytes)
  OBVIOUS
<1>2. N \in Nat /\ a \in 0..N /\ b \in 0..N
  BY <1>1, LenProperties
<1>3. \A j \in 1..N : j > a => after[a].bytes[j] = bytes[j]
  <2>1. a \in 0..Len(bytes) /\ ~ after[a].outside /\ ~ after[a].beyond
    BY <1>1, <1>2 DEF Clean
  <2> QED
    BY <1>1, <2>1, ScanClean
<1>4. Len(after[a].bytes) = N /\ \A n \in 1..N : after[n] = Looks(after[n - 1], n, behind)
  BY <1>1, <1>2 DEF Scans, ScanOf
<1> DEFINE P == {n \in 0..b : a <= n => after[n] = after[a]}
<1>5. 0 \in P
  BY <1>2
<1>6. ASSUME NEW n \in 1..b, n - 1 \in P PROVE n \in P
  <2>1. n \in 0..b /\ n - 1 \in 0..b /\ n \in 1..N
    BY <1>2
  <2>2. CASE a <= n - 1
    <3>1. after[n - 1] = after[a]
      BY <1>6, <2>2
    <3>2. n \in (a + 1)..b /\ n > a /\ (n < N => n + 1 \in 1..N /\ n + 1 > a)
      BY <1>2, <2>1, <2>2
    <3>3. after[n] = Looks(after[a], n, behind)
      BY <1>4, <2>1, <3>1
    <3>4. PICK next : next = IF n < Len(after[a].bytes) THEN after[a].bytes[n + 1] ELSE behind
      OBVIOUS
    <3>5. after[a].bytes[n] = bytes[n] /\ next = IF n < N THEN bytes[n + 1] ELSE behind
      BY <1>3, <1>4, <2>1, <3>2, <3>4
    <3>6. ~ (bytes[n] = 23 /\ next \in {19, 5})
      BY <1>1, <3>2, <3>5, Zenon DEF Quiet
    <3>7. ~ after[a].outside /\ ~ after[a].skip
      BY DEF Clean
    <3>8. PICK t1, t2, t3 :
            /\ t1 = [after[a] EXCEPT !.skip = FALSE]
            /\ t2 = [after[a] EXCEPT !.start = n + 2, !.skip = TRUE]
            /\ t3 = Attempt(after[a], n - 1)
      OBVIOUS
    <3>9. Looks(after[a], n, behind) =
            IF after[a].outside THEN after[a]
            ELSE IF after[a].skip THEN t1
            ELSE IF after[a].bytes[n] = 23 /\ next = 19 THEN t2
            ELSE IF after[a].bytes[n] = 23 /\ next = 5 THEN t3
            ELSE after[a]
      BY <3>4, <3>8, Zenon DEF Looks, Begin, Start, End
    <3>10. ~ (after[a].bytes[n] = 23 /\ next = 19) /\ ~ (after[a].bytes[n] = 23 /\ next = 5)
      BY <3>5, <3>6
    <3>11. after[n] = after[a]
      BY <3>3, <3>7, <3>9, <3>10, Zenon
    <3> QED
      BY <2>1, <3>11
  <2>3. CASE ~ (a <= n - 1)
    <3>1. a <= n => a = n
      BY <1>2, <2>3
    <3> QED
      BY <2>1, <3>1
  <2> QED
    BY <2>2, <2>3
<1> HIDE DEF P
<1>7. b \in P
  <2>1. b \in Nat /\ b \in 0..b
    BY <1>2
  <2>2. \A n \in 0..b : n \in P
    BY <1>5, <1>6, <2>1, UpTo
  <2> QED
    BY <2>1, <2>2
<1>8. a <= b
  BY <1>2
<1> QED
  BY <1>7, <1>8 DEF P

\* A start mark puts the search at the body behind it.
LEMMA Opens ==
    ASSUME NEW bytes \in Seq(Nat), NEW behind, NEW after, Scans(after, bytes, behind),
           NEW q \in Nat, q + 2 <= Len(bytes), Clean(after[q]),
           bytes[q + 1] = 23, bytes[q + 2] = 19
    PROVE  /\ q + 2 \in 0..Len(bytes) /\ Clean(after[q + 2]) /\ after[q + 2].start = q + 3
           /\ after[q + 2].found = after[q].found
<1>1. PICK N : N = Len(bytes)
  OBVIOUS
<1>2. N \in Nat /\ q \in 0..N /\ q + 1 \in 1..N /\ q + 2 \in 1..N /\ q + 2 \in 0..N /\ q + 1 < N
  BY <1>1, LenProperties
<1>3. (q + 1) - 1 = q /\ (q + 2) - 1 = q + 1 /\ q + 1 > q /\ q + 2 > q /\ (q + 1) + 1 = q + 2 /\ (q + 1) + 2 = q + 3
  OBVIOUS
<1>4. \A j \in 1..N : j > q => after[q].bytes[j] = bytes[j]
  <2>1. q \in 0..Len(bytes) /\ ~ after[q].outside /\ ~ after[q].beyond
    BY <1>1, <1>2 DEF Clean
  <2>2. PICK a \in 0..Len(bytes) : a = q
    BY <2>1
  <2>3. ~ after[a].outside /\ ~ after[a].beyond
    BY <2>1, <2>2
  <2>4. \A j \in 1..Len(bytes) : j > a => after[a].bytes[j] = bytes[j]
    BY <2>3, ScanClean
  <2> QED
    BY <1>1, <2>2, <2>4, Zenon
<1>5. PICK s, t, u : s = after[q] /\ t = after[q + 1] /\ u = after[q + 2]
  OBVIOUS
<1>6. /\ s \in ScanOf(N) /\ t = Looks(s, q + 1, behind) /\ u = Looks(t, q + 2, behind)
      /\ ~ s.outside /\ ~ s.beyond /\ ~ s.skip
  <2>1. \A i \in 1..N : after[i] = Looks(after[i - 1], i, behind)
    BY <1>1 DEF Scans
  <2>2. t = Looks(after[(q + 1) - 1], q + 1, behind) /\ u = Looks(after[(q + 2) - 1], q + 2, behind)
    BY <1>2, <1>5, <2>1
  <2>3. s \in ScanOf(N)
    BY <1>1, <1>2, <1>5 DEF Scans
  <2> QED
    BY <1>3, <1>5, <2>2, <2>3 DEF Clean
<1>7. s.bytes[q + 1] = 23 /\ s.bytes[(q + 1) + 1] = 19 /\ Len(s.bytes) = N
  BY <1>2, <1>3, <1>4, <1>5, <1>6 DEF ScanOf
<1>8. t = [s EXCEPT !.start = q + 3, !.skip = TRUE]
  <2>1. PICK t2 : t2 = [s EXCEPT !.start = (q + 1) + 2, !.skip = TRUE]
    OBVIOUS
  <2>2. Looks(s, q + 1, behind) = t2
    BY <1>2, <1>6, <1>7, <2>1 DEF Looks, Begin, Start
  <2> QED
    BY <1>3, <1>6, <2>1, <2>2
<1>9. ~ t.outside /\ t.skip /\ ~ t.beyond /\ t.start = q + 3 /\ t.found = s.found /\ t \in ScanOf(N)
  <2>1. q + 3 \in Nat \ {0}
    OBVIOUS
  <2> QED
    BY <1>6, <1>8, <2>1 DEF ScanOf
<1>10. u = [t EXCEPT !.skip = FALSE]
  BY <1>6, <1>9, Zenon DEF Looks
<1>11. ~ u.outside /\ ~ u.skip /\ ~ u.beyond /\ u.start = q + 3 /\ u.found = s.found
  BY <1>9, <1>10 DEF ScanOf
<1> QED
  BY <1>1, <1>2, <1>5, <1>11 DEF Clean

\* No mark begins in a body, nor at its end.
NoMarks(body) == \A i \in 1..(Len(body) - 1) : ~ (body[i] = 23 /\ body[i + 1] \in {19, 5})

\* A frame behind the first q bytes
Lies(bytes, q, body) ==
    /\ q + Len(body) + 4 <= Len(bytes)
    /\ bytes[q + 1] = 23 /\ bytes[q + 2] = 19 /\ \A i \in 1..Len(body) : bytes[q + 2 + i] = body[i]
    /\ bytes[q + Len(body) + 3] = 23 /\ bytes[q + Len(body) + 4] = 5

\* A body at index s, of which the CRC may be gone
HoldsBody(b, s, body) ==
    /\ s + Len(body) <= Len(b)
    /\ \A i \in 1..(Len(body) - 2) : b[s - 1 + i] = body[i]

\* A part of a sequence, its numbers those at its places
LEMMA SliceIs ==
    ASSUME NEW b, NEW f \in Int, NEW m \in Int, \A i \in f..m : b[i] \in Nat
    PROVE  /\ SubSeq(b, f, m) \in Seq(Nat)
           /\ Len(SubSeq(b, f, m)) = IF f <= m THEN m - f + 1 ELSE 0
           /\ \A i \in 1..(m - f + 1) : SubSeq(b, f, m)[i] = b[f + i - 1]
BY SubSeqProperties

\* What CheckTypePacket makes of it
LEMMA BodyIsChecked ==
    ASSUME NEW p \in Confirmation \cup Text, NEW body, IsBody(body, p),
           NEW b \in Seq(Nat), NEW s \in Nat, s > 0, HoldsBody(b, s, body)
    PROVE  /\ Inside(b, s) /\ Checked(b, s) = <<p>>
           /\ TextEnd(b, s) = s + Len(body) - 2
<1>l. PICK l : l = Len(body)
  OBVIOUS
<1>1. /\ l \in Nat /\ l >= 8 /\ body[1] * 256 + body[2] = l /\ body[6] = p.type
      /\ body \in Seq(Byte)
  BY <1>l DEF IsBody
<1>h. s + l <= Len(b) /\ \A i \in 1..(l - 2) : b[s - 1 + i] = body[i]
  BY <1>l, Zenon DEF HoldsBody
<1>0. l \in Nat /\ l >= 8
  BY <1>1, Zenon
<1>k. s + l <= Len(b)
  BY <1>h, Zenon
<1>2. \A i \in 1..l : body[i] \in Nat
  <2>1. \A i \in 1..l : body[i] \in Byte
    BY <1>l, <1>1, ElementOfSeq
  <2> QED
    BY <2>1 DEF Byte
<1>3. b[s] = body[1] /\ b[s + 1] = body[2] /\ b[s + 5] = p.type
  <2>1. 1 \in 1..(l - 2) /\ 2 \in 1..(l - 2) /\ 6 \in 1..(l - 2) /\ s - 1 + 1 = s /\ s - 1 + 2 = s + 1 /\ s - 1 + 6 = s + 5
    BY <1>1
  <2>2. b[s - 1 + 1] = body[1] /\ b[s - 1 + 2] = body[2] /\ b[s - 1 + 6] = body[6]
    BY <1>h, <2>1, Zenon
  <2> QED
    BY <1>1, <2>1, <2>2
<1>4. PICK x, y : x = b[s] /\ y = b[s + 1]
  OBVIOUS
<1>5. x \in Nat /\ y \in Nat /\ x * 256 + y = l
  <2>1. 1 \in 1..l /\ 2 \in 1..l
    BY <1>1
  <2>2. body[1] \in Nat /\ body[2] \in Nat
    BY <1>2, <2>1
  <2> QED
    BY <1>1, <1>3, <1>4, <2>2
<1>6. Len(b) \in Nat
  BY LenProperties
<1>7. /\ p.type \in {1, 2} /\ p = [type |-> p.type, what |-> p.what]
      /\ p.type = 2 => p.what \in Seq(Byte)
  BY PacketIs
<1>8. TextEnd(b, s) = s + l - 2
  <2>1. TextEnd(b, s) = s + x * 256 + y - 2
    BY <1>4, Zenon DEF TextEnd
  <2> QED
    BY <1>5, <2>1
<1>9. CASE p.type = 1
  <2>1. l = 10 /\ body[7] * 256 + body[8] = p.what
    BY <1>l, <1>9 DEF IsBody
  <2>2. b[s + 6] = body[7] /\ b[s + 7] = body[8]
    <3>1. 7 \in 1..(l - 2) /\ 8 \in 1..(l - 2) /\ s - 1 + 7 = s + 6 /\ s - 1 + 8 = s + 7
      BY <2>1
    <3>2. b[s - 1 + 7] = body[7] /\ b[s - 1 + 8] = body[8]
      BY <1>h, <3>1, Zenon
    <3> QED
      BY <3>1, <3>2
  <2>3. b[s + 5] = 1 /\ b[s + 5] # 2
    BY <1>3, <1>9
  <2>4. Inside(b, s)
    <3>1. s + 5 <= Len(b) /\ s + 7 <= Len(b)
      <4>1. l = 10
        BY <2>1
      <4> QED
        BY <1>0, <1>k, <1>6, <4>1
    <3> QED
      BY <2>3, <3>1, Zenon DEF Inside
  <2>5. Checked(b, s) = <<[type |-> 1, what |-> b[s + 6] * 256 + b[s + 7]]>>
    BY <2>3 DEF Checked
  <2>6. Checked(b, s) = <<[type |-> 1, what |-> p.what]>>
    BY <2>1, <2>2, <2>5, Zenon
  <2>7. Checked(b, s) = <<p>>
    BY <1>7, <1>9, <2>6, Zenon
  <2> QED
    BY <1>l, <1>8, <2>4, <2>7
<1>10. CASE p.type = 2
  <2>1. Len(p.what) = l - 8 /\ \A i \in 1..(l - 8) : body[6 + i] = p.what[i]
    BY <1>l, <1>10 DEF IsBody
  <2>2. b[s + 5] = 2 /\ b[s + 5] # 1
    BY <1>3, <1>10
  <2>3. Inside(b, s)
    <3>1. s + 5 <= Len(b) /\ s + 6 <= TextEnd(b, s) /\ TextEnd(b, s) <= Len(b)
      BY <1>0, <1>k, <1>6, <1>8
    <3> QED
      BY <2>2, <3>1, Zenon DEF Inside
  <2>4. PICK w, m : w = SubSeq(b, s + 6, m) /\ m = s + 5 + (b[s] * 256 + b[s + 1] - 8)
    OBVIOUS
  <2>5. m = s + 5 + (l - 8) /\ s + 6 \in Int /\ m \in Int
    <3>1. m = s + 5 + (x * 256 + y - 8)
      BY <1>4, <2>4, Zenon
    <3> QED
      BY <1>0, <1>5, <3>1
  <2>6. Checked(b, s) = <<[type |-> 2, what |-> w]>>
    <3>1. PICK r1, r2 : /\ r1 = <<[type |-> 1, what |-> b[s + 6] * 256 + b[s + 7]]>>
                        /\ r2 = <<[type |-> 2, what |-> w]>>
      OBVIOUS
    <3>2. Checked(b, s) = CASE b[s + 5] = 1 -> r1 [] b[s + 5] = 2 -> r2 [] OTHER -> <<>>
      BY <2>4, <3>1, Zenon DEF Checked
    <3>3. Checked(b, s) = r2
      BY <2>2, <3>2
    <3> QED
      BY <3>1, <3>3
  <2>7. \A i \in (s + 6)..m : i \in 1..Len(b) /\ b[i] \in Nat
    <3>1. \A i \in (s + 6)..m : i \in 1..Len(b)
      BY <1>0, <1>k, <1>6, <2>5
    <3> QED
      BY <3>1, ElementOfSeq
  <2>8. /\ SubSeq(b, s + 6, m) \in Seq(Nat)
        /\ Len(SubSeq(b, s + 6, m)) = IF s + 6 <= m THEN m - (s + 6) + 1 ELSE 0
        /\ \A i \in 1..(m - (s + 6) + 1) : SubSeq(b, s + 6, m)[i] = b[(s + 6) + i - 1]
    <3>1. PICK f : f = s + 6
      OBVIOUS
    <3>2. f \in Int /\ m \in Int /\ \A i \in f..m : b[i] \in Nat
      BY <2>5, <2>7, <3>1, Zenon
    <3>3. /\ SubSeq(b, f, m) \in Seq(Nat)
          /\ Len(SubSeq(b, f, m)) = IF f <= m THEN m - f + 1 ELSE 0
          /\ \A i \in 1..(m - f + 1) : SubSeq(b, f, m)[i] = b[f + i - 1]
      BY <3>2, SliceIs
    <3> QED
      BY <3>1, <3>3, Zenon
  <2>9. m - (s + 6) + 1 = l - 8 /\ (~ (s + 6 <= m) => l - 8 = 0)
    BY <1>0, <2>5
  <2>10. w \in Seq(Nat) /\ Len(w) = l - 8 /\ \A i \in 1..(l - 8) : w[i] = b[(s + 6) + i - 1]
    BY <2>4, <2>8, <2>9
  <2>11. ASSUME NEW i \in 1..(l - 8) PROVE w[i] = p.what[i]
    <3>1. 6 + i \in 1..(l - 2) /\ s - 1 + (6 + i) = (s + 6) + i - 1
      BY <1>1
    <3>2. b[s - 1 + (6 + i)] = body[6 + i]
      BY <1>h, <3>1, Zenon
    <3> QED
      BY <2>1, <2>10, <3>1, <3>2
  <2>12. w = p.what
    <3>1. p.what \in Seq(Nat)
      BY <1>7, <1>10, BytesAreNumbers
    <3> QED
      BY <2>1, <2>10, <2>11, <3>1, SeqEqual
  <2>13. Checked(b, s) = <<p>>
    BY <1>7, <1>10, <2>6, <2>12, Zenon
  <2> QED
    BY <1>l, <1>8, <2>3, <2>13
<1> QED
  BY <1>7, <1>9, <1>10

\* A body whose CRC does not end in 0, and that holds no mark
ClearBody(body) == NoMarks(body) /\ body[Len(body)] # 0

\* The search finds a whole frame, and stays in it.
LEMMA FrameScan ==
    ASSUME NEW bytes \in Seq(Nat), NEW behind, NEW after, Scans(after, bytes, behind),
           NEW q \in Nat, NEW p \in Confirmation \cup Text, NEW body, IsBody(body, p), ClearBody(body),
           Lies(bytes, q, body), Clean(after[q])
    PROVE  /\ q + Len(body) + 4 \in 0..Len(bytes) /\ Clean(after[q + Len(body) + 4])
           /\ after[q + Len(body) + 4].found = after[q].found \o <<p>>
<1>1. PICK N, l, s, e : N = Len(bytes) /\ l = Len(body) /\ s = q + 3 /\ e = q + l + 2
  OBVIOUS
<1>2. N \in Nat /\ l \in Nat /\ l >= 8
  BY <1>1, LenProperties DEF IsBody
<1>3. /\ q + l + 4 <= N
      /\ bytes[q + 1] = 23 /\ bytes[q + 2] = 19 /\ \A i \in 1..l : bytes[q + 2 + i] = body[i]
      /\ bytes[q + l + 3] = 23 /\ bytes[q + l + 4] = 5
  BY <1>1, Zenon DEF Lies
<1>4. q + l + 4 <= N
  BY <1>3, Zenon
<1>t. \A i \in 1..l : bytes[q + 2 + i] = body[i]
  BY <1>3, Zenon
<1>5. /\ q + 2 \in 0..N /\ q + 2 + l \in 0..N /\ q + 2 \in 0..(q + 2 + l) /\ q + l + 3 \in 1..N
      /\ q + l + 4 \in 1..N /\ q + l + 3 \in 0..N /\ q + l + 4 \in 0..N /\ q + 2 <= N
      /\ (q + l + 3) - 1 = q + 2 + l /\ (q + l + 4) - 1 = q + l + 3 /\ (q + l + 3) + 1 = q + l + 4
      /\ (q + l + 3) - 1 = e
      /\ (q + l + 3 < N \/ (q + l + 4 = N /\ q + l + 3 < N))
  BY <1>1, <1>2, <1>4
<1>6. /\ Clean(after[q + 2]) /\ after[q + 2].start = s /\ after[q + 2].found = after[q].found
  <2>1. q + 2 <= Len(bytes) /\ bytes[q + 1] = 23 /\ bytes[q + 2] = 19
    BY <1>1, <1>3, <1>5, Zenon
  <2>2. Clean(after[q + 2]) /\ after[q + 2].start = q + 3 /\ after[q + 2].found = after[q].found
    BY <2>1, Opens, ZenonT(60)
  <2> QED
    BY <1>1, <2>2, Zenon
<1>7. after[q + 2 + l] = after[q + 2]
  <2>1. ASSUME NEW i \in ((q + 2) + 1)..(q + 2 + l) PROVE Quiet(bytes, behind, i)
    <3>1. PICK j : j = i - (q + 2)
      OBVIOUS
    <3>2. j \in 1..l /\ q + 2 + j = i /\ i < N
      BY <1>2, <1>4, <3>1
    <3>3. bytes[i] = body[j]
      BY <1>3, <3>2
    <3>4. CASE j = l
      <4>1. i + 1 = q + l + 3
        BY <1>2, <3>2, <3>4
      <4>2. bytes[i + 1] = 23
        BY <1>3, <4>1, Zenon
      <4> QED
        BY <1>1, <3>2, <4>2 DEF Quiet
    <3>5. CASE j # l
      <4>1. j \in 1..(l - 1) /\ j + 1 \in 1..l /\ q + 2 + (j + 1) = i + 1
        BY <1>2, <3>2, <3>5
      <4>2. bytes[i + 1] = body[j + 1]
        <5>1. PICK k : k = j + 1
          OBVIOUS
        <5>2. k \in 1..l /\ q + 2 + k = i + 1 /\ k = j + 1
          BY <4>1, <5>1, Zenon
        <5>3. bytes[q + 2 + k] = body[k]
          BY <1>t, <5>2, Zenon
        <5> QED
          BY <5>2, <5>3, Zenon
      <4>3. ~ (body[j] = 23 /\ body[j + 1] \in {19, 5})
        BY <1>1, <4>1, Zenon DEF ClearBody, NoMarks
      <4> QED
        BY <1>1, <3>2, <3>3, <4>2, <4>3, Zenon DEF Quiet
    <3> QED
      BY <3>4, <3>5
  <2>2. PICK a, b : a = q + 2 /\ b = q + 2 + l
    OBVIOUS
  <2>3. b \in 0..Len(bytes) /\ a \in 0..b /\ Clean(after[a]) /\ \A i \in (a + 1)..b : Quiet(bytes, behind, i)
    BY <1>1, <1>5, <1>6, <2>1, <2>2, Zenon
  <2>4. after[b] = after[a]
    BY <2>3, ScanQuiet
  <2> QED
    BY <2>2, <2>4, Zenon
<1>8. PICK t, u, v, n : /\ t = after[q + 2 + l] /\ u = after[q + l + 3] /\ v = after[q + l + 4]
                        /\ n = q + l + 3
  OBVIOUS
<1>9. /\ \A i \in 1..N : after[i] = Looks(after[i - 1], i, behind)
      /\ \A i \in 0..N : after[i] \in ScanOf(N)
  BY <1>1 DEF Scans
<1>10. /\ t \in ScanOf(N) /\ Clean(t) /\ t.start = s /\ t.found = after[q].found
       /\ u \in ScanOf(N) /\ u = Looks(t, n, behind) /\ v = Looks(u, q + l + 4, behind)
  <2>1. after[q + l + 3] = Looks(after[(q + l + 3) - 1], q + l + 3, behind)
    BY <1>5, <1>9
  <2>2. after[q + l + 4] = Looks(after[(q + l + 4) - 1], q + l + 4, behind)
    BY <1>5, <1>9
  <2>3. after[q + 2 + l] \in ScanOf(N) /\ after[q + l + 3] \in ScanOf(N)
    BY <1>5, <1>9
  <2> QED
    BY <1>5, <1>6, <1>7, <1>8, <2>1, <2>2, <2>3, Zenon
<1>11. \A j \in 1..N : j > q + 2 => t.bytes[j] = bytes[j]
  <2>1. PICK a \in 0..Len(bytes) : a = q + 2
    BY <1>1, <1>5
  <2>2. ~ after[a].outside /\ ~ after[a].beyond
    BY <1>6, <2>1, Zenon DEF Clean
  <2>3. \A j \in 1..Len(bytes) : j > a => after[a].bytes[j] = bytes[j]
    BY <2>2, ScanClean
  <2> QED
    BY <1>1, <1>7, <1>8, <2>1, <2>3, Zenon
<1>12. t.bytes \in Seq(Nat) /\ Len(t.bytes) = N /\ ~ t.outside /\ ~ t.skip /\ ~ t.beyond
  BY <1>10 DEF ScanOf, Clean
<1>13. u = Attempt(t, e)
  <2>1. t.bytes[n] = 23 /\ t.bytes[n + 1] = 5 /\ n < N
    <3>1. n \in 1..N /\ n + 1 \in 1..N /\ n > q + 2 /\ n + 1 > q + 2 /\ n < N /\ n + 1 = q + l + 4
      BY <1>2, <1>4, <1>8
    <3>2. bytes[n] = 23 /\ bytes[n + 1] = 5
      BY <1>3, <1>8, <3>1, Zenon
    <3> QED
      BY <1>11, <3>1, <3>2
  <2>2. PICK t1, t2, t3, mark, next :
          /\ t1 = [t EXCEPT !.skip = FALSE]
          /\ t2 = [t EXCEPT !.start = n + 2, !.skip = TRUE]
          /\ t3 = Attempt(t, n - 1)
          /\ mark = (t.bytes[n] = Begin)
          /\ next = IF n < Len(t.bytes) THEN t.bytes[n + 1] ELSE behind
    OBVIOUS
  <2>3. Looks(t, n, behind) = IF t.outside THEN t
                              ELSE IF t.skip THEN t1
                              ELSE IF mark /\ next = Start THEN t2
                              ELSE IF mark /\ next = End THEN t3
                              ELSE t
    BY <2>2, Zenon DEF Looks
  <2>4. mark /\ next = 5
    BY <1>12, <2>1, <2>2 DEF Begin
  <2>5. next # Start /\ next = End
    BY <2>4 DEF Start, End
  <2>6. u = t3
    BY <1>10, <1>12, <2>3, <2>4, <2>5, Zenon
  <2> QED
    BY <1>5, <1>8, <2>2, <2>6, Zenon
<1>14. PICK b : b = [t.bytes EXCEPT ![e - 1] = 0]
  OBVIOUS
<1>15. e \in Nat /\ s \in Nat /\ s > 0 /\ e >= s + 1 /\ s + l = e + 1 /\ e \in 1..N /\ e # e - 1 /\ e > q + 2
  BY <1>1, <1>2, <1>4
<1>16. /\ b \in Seq(Nat) /\ Len(b) = N
       /\ \A j \in 1..N : j # e - 1 => b[j] = t.bytes[j]
  BY <1>12, <1>14, Put
<1>17. HoldsBody(b, s, body)
  <2>1. s + l <= N
    BY <1>1, <1>2, <1>4
  <2>2. ASSUME NEW i \in 1..(l - 2) PROVE b[s - 1 + i] = body[i]
    <3>1. /\ s - 1 + i \in 1..N /\ s - 1 + i # e - 1 /\ s - 1 + i > q + 2 /\ s - 1 + i = q + 2 + i
          /\ i \in 1..l
      BY <1>1, <1>2, <1>4, SMTT(60)
    <3>2. b[s - 1 + i] = bytes[q + 2 + i]
      BY <1>11, <1>16, <3>1
    <3> QED
      BY <1>3, <3>1, <3>2
  <2> QED
    BY <1>1, <1>16, <2>1, <2>2, Zenon DEF HoldsBody
<1>18. Inside(b, s) /\ Checked(b, s) = <<p>> /\ TextEnd(b, s) = s + l - 2
  <2>1. Inside(b, s) /\ Checked(b, s) = <<p>> /\ TextEnd(b, s) = s + Len(body) - 2
    BY <1>15, <1>16, <1>17, BodyIsChecked
  <2> QED
    BY <1>1, <2>1, Zenon
<1>19. Accepts(b, s, e)
  <2>1. q + 2 + l = e /\ l \in 1..l
    BY <1>1, <1>2
  <2>2. b[e] = bytes[e]
    BY <1>11, <1>15, <1>16
  <2>3. bytes[e] = body[l]
    BY <1>3, <2>1
  <2>4. body[l] # 0
    BY <1>1, Zenon DEF ClearBody
  <2> QED
    BY <2>2, <2>3, <2>4 DEF Accepts
<1>20. u = [t EXCEPT !.bytes = Ended(b, s), !.found = @ \o Checked(b, s),
                     !.beyond = @ \/ (b[s + 5] = 2 /\ e < TextEnd(b, s))]
  <2>1. Decided(Attempt(t, e), t, e, [t.bytes EXCEPT ![e - 1] = 0], t.start)
    BY <1>10, <1>15, AttemptDecides
  <2>2. Decided(u, t, e, b, s)
    BY <1>10, <1>13, <1>14, <2>1, Zenon
  <2>3. ~ (e < s + 1)
    BY <1>15
  <2> QED
    BY <1>18, <1>19, <2>2, <2>3, Zenon DEF Decided
<1>21. ~ (e < TextEnd(b, s))
  BY <1>2, <1>15, <1>18
<1>22. ~ u.outside /\ ~ u.skip /\ ~ u.beyond /\ u.found = after[q].found \o <<p>>
  <2>1. PICK x, y : x = Ended(b, s) /\ y = t.found \o Checked(b, s)
    OBVIOUS
  <2>2. PICK z : z = (t.beyond \/ (b[s + 5] = 2 /\ e < TextEnd(b, s)))
    OBVIOUS
  <2>3. u = [t EXCEPT !.bytes = x, !.found = y, !.beyond = z] /\ ~ z
    BY <1>12, <1>20, <1>21, <2>1, <2>2, Zenon
  <2>4. u.outside = t.outside /\ u.skip = t.skip /\ u.beyond = z /\ u.found = y
    BY <1>10, <2>3 DEF ScanOf
  <2>5. y = after[q].found \o <<p>>
    BY <1>10, <1>18, <2>1, Zenon
  <2> QED
    BY <1>12, <2>3, <2>4, <2>5, Zenon
<1>23. after[q + l + 4] = after[q + l + 3]
  <2>1. PICK a, c : a = q + l + 3 /\ c = q + l + 4
    OBVIOUS
  <2>2. c \in 0..Len(bytes) /\ a \in 0..c /\ \A i \in (a + 1)..c : i = c
    BY <1>1, <1>2, <1>4, <2>1
  <2>3. bytes[c] = 5 /\ Quiet(bytes, behind, c)
    <3>1. bytes[c] = 5
      BY <1>3, <2>1, Zenon
    <3> QED
      BY <3>1 DEF Quiet
  <2>4. Clean(after[a])
    BY <1>8, <1>22, <2>1, Zenon DEF Clean
  <2>5. \A i \in (a + 1)..c : Quiet(bytes, behind, i)
    BY <2>2, <2>3
  <2>6. after[c] = after[a]
    BY <2>2, <2>4, <2>5, ScanQuiet
  <2> QED
    BY <2>1, <2>6, Zenon
<1> QED
  BY <1>1, <1>5, <1>8, <1>22, <1>23, Zenon DEF Clean

\* The beginning of a frame, and nothing behind it
Begins(bytes, q, body) ==
    \/ Len(bytes) = q
    \/ \E m \in 0..Len(body) :
          /\ Len(bytes) = q + 2 + m /\ bytes[q + 1] = 23 /\ bytes[q + 2] = 19
          /\ \A i \in 1..m : bytes[q + 2 + i] = body[i]
          /\ bytes[q + 2 + m] # 23

\* The search finds nothing in what a frame begins with.
LEMMA BeginningScan ==
    ASSUME NEW bytes \in Seq(Nat), NEW behind, NEW after, Scans(after, bytes, behind),
           NEW q \in Nat, NEW body \in Seq(Nat), NoMarks(body), Begins(bytes, q, body), Clean(after[q])
    PROVE  /\ Clean(after[Len(bytes)]) /\ after[Len(bytes)].found = after[q].found
<1>1. CASE Len(bytes) = q
  BY <1>1, Zenon
<1>2. CASE \E m \in 0..Len(body) :
              /\ Len(bytes) = q + 2 + m /\ bytes[q + 1] = 23 /\ bytes[q + 2] = 19
              /\ \A i \in 1..m : bytes[q + 2 + i] = body[i]
              /\ bytes[q + 2 + m] # 23
  <2>1. PICK m \in 0..Len(body) :
              /\ Len(bytes) = q + 2 + m /\ bytes[q + 1] = 23 /\ bytes[q + 2] = 19
              /\ \A i \in 1..m : bytes[q + 2 + i] = body[i]
              /\ bytes[q + 2 + m] # 23
    BY <1>2
  <2>2. PICK N, l : N = Len(bytes) /\ l = Len(body)
    OBVIOUS
  <2>3. N \in Nat /\ l \in Nat /\ m \in 0..l /\ N = q + 2 + m
    BY <2>1, <2>2, LenProperties
  <2>4. /\ Clean(after[q + 2]) /\ after[q + 2].found = after[q].found
    <3>1. q + 2 <= N
      BY <2>3
    <3>2. q + 2 <= Len(bytes) /\ bytes[q + 1] = 23 /\ bytes[q + 2] = 19
      BY <2>1, <2>2, <3>1, Zenon
    <3> QED
      BY <3>2, Opens, ZenonT(60)
  <2>5. ASSUME NEW i \in ((q + 2) + 1)..N PROVE Quiet(bytes, behind, i)
    <3>1. PICK j : j = i - (q + 2)
      OBVIOUS
    <3>2. j \in 1..m /\ q + 2 + j = i
      BY <2>3, <3>1
    <3>3. bytes[i] = body[j]
      BY <2>1, <3>2, Zenon
    <3>4. CASE j = m
      <4>1. i = q + 2 + m
        BY <3>2, <3>4
      <4>2. bytes[i] # 23
        BY <2>1, <4>1, Zenon
      <4> QED
        BY <4>2 DEF Quiet
    <3>5. CASE j # m
      <4>1. j \in 1..(l - 1) /\ j + 1 \in 1..m /\ q + 2 + (j + 1) = i + 1 /\ i < N
        BY <2>3, <3>2, <3>5
      <4>2. bytes[i + 1] = body[j + 1]
        BY <2>1, <4>1, Zenon
      <4>3. ~ (body[j] = 23 /\ body[j + 1] \in {19, 5})
        BY <2>2, <4>1, Zenon DEF NoMarks
      <4> QED
        BY <2>2, <3>3, <4>1, <4>2, <4>3, Zenon DEF Quiet
    <3> QED
      BY <3>4, <3>5
  <2>6. PICK a, b : a = q + 2 /\ b = N
    OBVIOUS
  <2>7. b \in 0..Len(bytes) /\ a \in 0..b
    BY <2>2, <2>3, <2>6
  <2>8. Clean(after[a]) /\ \A i \in (a + 1)..b : Quiet(bytes, behind, i)
    BY <2>4, <2>5, <2>6, Zenon
  <2>9. after[b] = after[a]
    BY <2>7, <2>8, ScanQuiet
  <2> QED
    BY <2>2, <2>4, <2>6, <2>9, Zenon
<1> QED
  BY <1>1, <1>2, Zenon DEF Begins

-----------------------------------------------------------------------------
(* The wire: the frames in flight, one behind the other *)

Packets == Confirmation \cup Text

\* The frame of a packet, and what it unstuffs to
LEMMA FrameOf ==
    ASSUME NEW a \in Addresses, NEW p \in Packets, NEW body, body = ServerBody[a][p],
           NEW f, f = ServerFrame[a][p]
    PROVE  /\ body \in Seq(Nat) /\ IsBody(body, p) /\ Stuff(body) \in Seq(Nat)
           /\ f = Framed(body) /\ f \in Seq(Nat) /\ Wraps(f, Stuff(body))
           /\ Unstuff(f) = Bare(body) /\ Wraps(Bare(body), body)
<1>1. IsBody(body, p)
  BY ServerBodyIs DEF Packets
<1>2. body \in Seq(Nat)
  BY <1>1, BytesAreNumbers DEF IsBody
<1>3. f = Framed(body)
  BY DEF ServerFrame, Packets
<1>4. Wraps(f, Stuff(body)) /\ Unstuff(f) = Bare(body)
  BY <1>2, <1>3, FrameUnstuffs
<1>5. f \in Seq(Nat)
  BY <1>4 DEF Wraps
<1> QED
  BY <1>1, <1>2, <1>3, <1>4, <1>5, BareIs, StuffSpreads

\* The frames ss of the packets ps, and what is on the wire after each
Wires(h, ss, a, ps) ==
    /\ ss \in Seq(Seq(Nat)) /\ Len(ss) = Len(ps) /\ Joined(h, ss, Nat)
    /\ \A i \in 1..Len(ps) : ss[i] = ServerFrame[a][ps[i]]

WireOf(a, ps) == FlattenSeq([i \in 1..Len(ps) |-> ServerFrame[a][ps[i]]])

\* The wire is the frames in flight put together.
LEMMA WireIs ==
    ASSUME NEW a \in Addresses, NEW ps \in Seq(Packets)
    PROVE  \E ss, h : Wires(h, ss, a, ps) /\ WireOf(a, ps) = h[Len(ps)]
<1>1. PICK ss, n : n = Len(ps) /\ ss = [i \in 1..n |-> ServerFrame[a][ps[i]]]
  OBVIOUS
<1>2. n \in Nat /\ \A i \in 1..n : ps[i] \in Packets
  BY <1>1, LenProperties, ElementOfSeq
<1>3. \A i \in 1..n : ServerFrame[a][ps[i]] \in Seq(Nat)
  BY <1>2, FrameOf
<1>4. ss \in [1..n -> Seq(Nat)] /\ \A i \in 1..n : ss[i] = ServerFrame[a][ps[i]]
  BY <1>1, <1>3
<1>5. ss \in Seq(Seq(Nat)) /\ Len(ss) = n
  BY <1>2, <1>4, FunctionIsSeq
<1>6. PICK h : Joined(h, ss, Nat) /\ FlattenSeq(ss) = h[Len(ss)]
  BY <1>5, FlattenIs
<1>7. WireOf(a, ps) = FlattenSeq(ss)
  BY <1>1, Zenon DEF WireOf
<1>8. Wires(h, ss, a, ps)
  BY <1>1, <1>4, <1>5, <1>6, Zenon DEF Wires
<1> QED
  BY <1>1, <1>5, <1>6, <1>7, <1>8, Zenon

\* The first k frames make up the k-th stage of the wire.
LEMMA WirePart ==
    ASSUME NEW a \in Addresses, NEW ps \in Seq(Packets), NEW h, NEW ss, Wires(h, ss, a, ps),
           NEW k \in 0..Len(ps)
    PROVE  WireOf(a, SubSeq(ps, 1, k)) = h[k]
<1>1. PICK qs : qs = SubSeq(ps, 1, k)
  OBVIOUS
<1>2. qs \in Seq(Packets) /\ Len(qs) = k /\ \A i \in 1..k : qs[i] = ps[i]
  BY <1>1, FirstPart
<1>3. PICK tt, g : Wires(g, tt, a, qs) /\ WireOf(a, qs) = g[Len(qs)]
  BY <1>2, WireIs
<1>4. Len(ps) \in Nat
  BY LenProperties
<1>5. /\ ss \in Seq(Seq(Nat)) /\ Joined(h, ss, Nat) /\ tt \in Seq(Seq(Nat)) /\ Joined(g, tt, Nat)
      /\ Len(ss) = Len(ps) /\ Len(tt) = k
      /\ \A i \in 1..Len(ps) : ss[i] = ServerFrame[a][ps[i]]
      /\ \A i \in 1..k : tt[i] = ServerFrame[a][qs[i]]
  BY <1>2, <1>3, Zenon DEF Wires
<1>6. Len(tt) <= Len(ss) /\ \A i \in 1..Len(tt) : tt[i] = ss[i]
  <2>1. \A i \in 1..k : i \in 1..Len(ps)
    BY <1>4
  <2>2. \A i \in 1..k : tt[i] = ss[i]
    BY <1>2, <1>5, <2>1, ZenonT(60)
  <2> QED
    BY <1>4, <1>5, <2>2
<1>7. \A i \in 0..Len(tt) : g[i] = h[i]
  <2>1. /\ ss \in Seq(Seq(Nat)) /\ Joined(h, ss, Nat) /\ tt \in Seq(Seq(Nat)) /\ Joined(g, tt, Nat)
        /\ Len(tt) <= Len(ss) /\ \A i \in 1..Len(tt) : tt[i] = ss[i]
    BY <1>5, <1>6, Zenon
  <2> QED
    BY <2>1, JoinedAgrees
<1>8. k \in 0..Len(tt)
  BY <1>4, <1>5
<1> QED
  BY <1>1, <1>2, <1>3, <1>7, <1>8, Zenon

\* A set of numbers up to a bound has a greatest element.
LEMMA Greatest ==
    ASSUME NEW L \in Nat, NEW T \in SUBSET (0..L), T # {}
    PROVE  \E x \in T : \A y \in T : y <= x
<1> DEFINE U == {L - x : x \in T}
<1>1. U \in SUBSET Nat /\ U # {}
  <2>1. \A x \in T : x \in 0..L
    OBVIOUS
  <2>2. \A x \in T : L - x \in Nat
    BY <2>1
  <2> QED
    BY <2>2
<1>2. PICK u \in U : \A v \in U : u <= v
  <2> HIDE DEF U
  <2> QED
    BY <1>1, Least
<1>3. PICK x \in T : u = L - x
  OBVIOUS
<1>4. ASSUME NEW y \in T PROVE y <= x
  <2>1. L - x <= L - y
    BY <1>2, <1>3
  <2>2. x \in 0..L /\ y \in 0..L
    OBVIOUS
  <2> QED
    BY <2>1, <2>2
<1> QED
  BY <1>4

\* WholeIn counts the frames that end by byte n, and all of them.
LEMMA WholeIs ==
    ASSUME num \in Addresses, flight \in Seq(Packets), NEW h, NEW ss, Wires(h, ss, num, flight),
           NEW n \in Nat, NEW w, w = WholeIn(n)
    PROVE  /\ w \in 0..Len(flight) /\ Len(h[w]) <= n
           /\ \A j \in 0..Len(flight) : Len(h[j]) <= n => j <= w
<1> DEFINE fits == {k \in 0..Len(flight) : Len(Wire(SubSeq(flight, 1, k))) <= n}
<1>1. Len(flight) \in Nat
  BY LenProperties
<1>2. \A k \in 0..Len(flight) : Wire(SubSeq(flight, 1, k)) = h[k]
  <2>1. \A qs : Wire(qs) = WireOf(num, qs)
    BY DEF Wire, WireOf
  <2> QED
    BY <2>1, WirePart
<1>3. Len(h[0]) = 0
  BY EmptySeq DEF Wires, Joined
<1>4. fits \in SUBSET (0..Len(flight)) /\ fits # {}
  <2>1. 0 \in fits
    BY <1>1, <1>2, <1>3
  <2> QED
    BY <2>1
<1>5. w = CHOOSE k \in fits : \A j \in fits : j <= k
  BY DEF WholeIn
<1>6. w \in fits /\ \A j \in fits : j <= w
  <2> HIDE DEF fits
  <2>1. \E k \in fits : \A j \in fits : j <= k
    BY <1>1, <1>4, Greatest
  <2> QED
    BY <1>5, <2>1
<1> QED
  BY <1>2, <1>6

\* A part of a sequence, its elements those at its places
LEMMA PartAt ==
    ASSUME NEW S, NEW s \in Seq(S), NEW j \in 0..Len(s), NEW i \in 0..j
    PROVE  /\ SubSeq(s, i + 1, j) \in Seq(S) /\ Len(SubSeq(s, i + 1, j)) = j - i
           /\ \A c \in 1..(j - i) : SubSeq(s, i + 1, j)[c] = s[i + c]
<1>1. Len(s) \in Nat /\ j \in Int /\ i + 1 \in Int /\ \A c \in (i + 1)..j : c \in 1..Len(s)
  BY LenProperties
<1>2. \A c \in (i + 1)..j : s[c] \in S
  BY <1>1, ElementOfSeq
<1>3. /\ SubSeq(s, i + 1, j) \in Seq(S)
      /\ Len(SubSeq(s, i + 1, j)) = IF i + 1 <= j THEN j - (i + 1) + 1 ELSE 0
      /\ \A c \in 1..(j - (i + 1) + 1) : SubSeq(s, i + 1, j)[c] = s[(i + 1) + c - 1]
  BY <1>1, <1>2, SubSeqProperties
<1>4. /\ j - (i + 1) + 1 = j - i /\ (~ (i + 1 <= j) => j - i = 0)
      /\ \A c \in 1..(j - i) : (i + 1) + c - 1 = i + c
  BY <1>1
<1> QED
  BY <1>3, <1>4

\* A part is split anywhere.
LEMMA PartSplits ==
    ASSUME NEW S, NEW s \in Seq(S), NEW k \in 0..Len(s), NEW j \in 0..k, NEW i \in 0..j
    PROVE  SubSeq(s, i + 1, k) = SubSeq(s, i + 1, j) \o SubSeq(s, j + 1, k)
<1>1. Len(s) \in Nat /\ j \in 0..Len(s) /\ i \in 0..k
  BY LenProperties
<1>2. PICK x, y, z, u : /\ x = SubSeq(s, i + 1, j) /\ y = SubSeq(s, j + 1, k) /\ z = SubSeq(s, i + 1, k)
                        /\ u = x \o y
  OBVIOUS
<1>3. /\ x \in Seq(S) /\ Len(x) = j - i /\ \A c \in 1..(j - i) : x[c] = s[i + c]
      /\ y \in Seq(S) /\ Len(y) = k - j /\ \A c \in 1..(k - j) : y[c] = s[j + c]
      /\ z \in Seq(S) /\ Len(z) = k - i /\ \A c \in 1..(k - i) : z[c] = s[i + c]
  <2>1. x \in Seq(S) /\ Len(x) = j - i /\ \A c \in 1..(j - i) : x[c] = s[i + c]
    BY <1>1, <1>2, PartAt
  <2>2. y \in Seq(S) /\ Len(y) = k - j /\ \A c \in 1..(k - j) : y[c] = s[j + c]
    BY <1>2, PartAt
  <2>3. z \in Seq(S) /\ Len(z) = k - i /\ \A c \in 1..(k - i) : z[c] = s[i + c]
    BY <1>1, <1>2, PartAt
  <2> QED
    BY <2>1, <2>2, <2>3
<1>4. u \in Seq(S) /\ JoinOf(u, x, y)
  BY <1>2, <1>3, Joins, Zenon
<1>5. /\ Len(u) = k - i /\ \A c \in 1..(j - i) : u[c] = x[c]
      /\ \A c \in 1..(k - j) : u[(j - i) + c] = y[c]
  <2>1. /\ Len(u) = Len(x) + Len(y) /\ \A c \in 1..Len(x) : u[c] = x[c]
        /\ \A c \in 1..Len(y) : u[Len(x) + c] = y[c]
    BY <1>4, Zenon DEF JoinOf
  <2>2. Len(u) = (j - i) + (k - j)
    BY <1>3, <2>1, Zenon
  <2>3. (j - i) + (k - j) = k - i
    BY <1>1
  <2> QED
    BY <1>3, <2>1, <2>2, <2>3, Zenon
<1>6. ASSUME NEW c \in 1..(k - i) PROVE u[c] = z[c]
  <2>1. CASE c <= j - i
    <3>1. c \in 1..(j - i)
      BY <1>1, <2>1
    <3> QED
      BY <1>3, <1>5, <3>1
  <2>2. CASE ~ (c <= j - i)
    <3>1. PICK d : d = c - (j - i)
      OBVIOUS
    <3>2. d \in 1..(k - j) /\ (j - i) + d = c /\ j + d = i + c
      BY <1>1, <2>2, <3>1
    <3>3. u[c] = y[d] /\ y[d] = s[i + c]
      BY <1>3, <1>5, <3>2
    <3> QED
      BY <1>3, <3>3
  <2> QED
    BY <2>1, <2>2
<1>7. u = z
  BY <1>3, <1>4, <1>5, <1>6, SeqEqual
<1> QED
  BY <1>2, <1>7, Zenon

\* What ends in neither byte of a pair keeps its end.
LEMMA UnstuffEnds ==
    ASSUME NEW x \in Seq(Nat), NEW M \in Nat \ {0}, M = Len(x), x[M] \notin {18, 23}
    PROVE  /\ Unstuff(x) \in Seq(Nat) /\ Len(Unstuff(x)) \in Nat \ {0}
           /\ Unstuff(x)[Len(Unstuff(x))] = x[M]
<1>1. PICK from : Undoes(from, x) /\ Unstuff(x) = from[1]
  BY UnstuffIs
<1>2. \A i \in 1..(M + 2) : from[i] \in Seq(Nat)
  BY <1>1, UndoesSeqs
<1> DEFINE Good(v) == v \in Seq(Nat) /\ Len(v) \in Nat \ {0} /\ v[Len(v)] = x[M]
           P == {n \in 0..(M - 1) : \A i \in (M - n)..M : Good(from[i])}
<1>3. ASSUME NEW k \in 1..M, NEW l, l = IF Pair(x, k) THEN k + 2 ELSE k + 1, l <= M => Good(from[l])
      PROVE  Good(from[k]) /\ (k # M => l \in (k + 1)..M)
  <2>1. from[k] = <<x[k]>> \o from[l]
    <3>1. k \in 1..(M + 2) /\ ~ (k > M)
      OBVIOUS
    <3> QED
      BY <1>1, <1>3, <3>1 DEF Undoes
  <2>2. x[k] \in Nat
    BY ElementOfSeq
  <2>3. PICK v, u : v = from[l] /\ u = <<x[k]>>
    OBVIOUS
  <2>4. u \in Seq(Nat) /\ Len(u) = 1 /\ u[1] = x[k]
    BY <2>2, <2>3
  <2>5. CASE k = M
    <3>1. ~ Pair(x, k)
      BY <2>5 DEF Pair
    <3>2. l = M + 1 /\ l \in 1..(M + 2) /\ l > M
      BY <1>3, <2>5, <3>1
    <3>3. from[l] = <<>>
      BY <1>1, <3>2 DEF Undoes
    <3>4. from[k] = u
      BY <2>1, <2>3, <2>4, <3>3, ConcatEmptySeq
    <3>5. Len(u) \in Nat \ {0} /\ u[Len(u)] = x[k] /\ x[k] = x[M]
      BY <2>4, <2>5
    <3>6. Good(u)
      BY <2>4, <3>5
    <3>7. Good(from[k])
      BY <3>4, <3>6, Zenon
    <3> QED
      BY <2>5, <3>7, Zenon
  <2>6. CASE k # M
    <3>1. l <= M
      <4>1. Pair(x, k) => x[k + 1] = 18
        BY DEF Pair, Same
      <4>2. k + 1 = M => ~ Pair(x, k)
        BY <4>1
      <4> QED
        BY <1>3, <2>6, <4>2
    <3>2. l \in (k + 1)..M
      BY <1>3, <2>6, <3>1
    <3>3. v \in Seq(Nat) /\ Len(v) \in Nat \ {0} /\ v[Len(v)] = x[M]
      BY <1>3, <2>3, <3>1
    <3>4. PICK w : w = u \o v
      OBVIOUS
    <3>5. w \in Seq(Nat) /\ JoinOf(w, u, v)
      BY <2>4, <3>3, <3>4, Joins, Zenon
    <3>6. Len(w) = 1 + Len(v) /\ \A c \in 1..Len(v) : w[1 + c] = v[c]
      BY <2>4, <3>5 DEF JoinOf
    <3>7. Len(v) \in 1..Len(v) /\ Len(w) \in Nat \ {0}
      BY <3>3, <3>6
    <3>8. w[Len(w)] = x[M]
      BY <3>3, <3>6, <3>7
    <3>9. from[k] = w
      BY <2>1, <2>3, <3>4, Zenon
    <3> QED
      BY <3>2, <3>5, <3>7, <3>8, <3>9
  <2> QED
    BY <2>5, <2>6
<1>4. 0 \in P
  <2>1. PICK l : l = IF Pair(x, M) THEN M + 2 ELSE M + 1
    OBVIOUS
  <2>2. ~ (l <= M) /\ M \in 1..M
    BY <2>1
  <2> HIDE DEF Good
  <2>3. Good(from[M])
    BY <1>3, <2>1, <2>2
  <2>4. 0 \in 0..(M - 1) /\ \A i \in (M - 0)..M : i = M
    OBVIOUS
  <2> QED
    BY <2>3, <2>4
<1>5. ASSUME NEW n \in 1..(M - 1), n - 1 \in P PROVE n \in P
  <2>1. PICK k, l : k = M - n /\ l = IF Pair(x, k) THEN k + 2 ELSE k + 1
    OBVIOUS
  <2>2. k \in 1..M /\ k # M /\ M - (n - 1) = k + 1 /\ n \in 0..(M - 1) /\ (l = k + 2 \/ l = k + 1)
    BY <2>1
  <2> HIDE DEF Good
  <2>3. \A i \in (k + 1)..M : Good(from[i])
    BY <1>5, <2>2
  <2>4. l <= M => Good(from[l])
    BY <2>2, <2>3
  <2>5. Good(from[k])
    BY <1>3, <2>1, <2>2, <2>4
  <2>6. \A i \in k..M : i = k \/ i \in (k + 1)..M
    BY <2>2
  <2> QED
    BY <2>1, <2>2, <2>3, <2>5, <2>6
<1> HIDE DEF P
<1>6. M - 1 \in P
  <2>1. M - 1 \in Nat /\ M - 1 \in 0..(M - 1)
    OBVIOUS
  <2>2. \A n \in 0..(M - 1) : n \in P
    BY <1>4, <1>5, <2>1, UpTo
  <2> QED
    BY <2>1, <2>2
<1>7. 1 \in (M - (M - 1))..M
  OBVIOUS
<1>8. Good(from[1])
  <2> HIDE DEF Good
  <2> QED
    BY <1>6, <1>7 DEF P
<1> QED
  BY <1>1, <1>8

\* What lies between two stages of a sequence put together
LEMMA PieceOf ==
    ASSUME NEW ss \in Seq(Seq(Nat)), NEW h, Joined(h, ss, Nat), NEW k \in 1..Len(ss)
    PROVE  /\ Len(h[k]) \in 0..Len(h[Len(ss)]) /\ Len(h[k - 1]) \in 0..Len(h[k])
           /\ Len(h[k]) = Len(h[k - 1]) + Len(ss[k])
           /\ SubSeq(h[Len(ss)], Len(h[k - 1]) + 1, Len(h[k])) = ss[k]
<1>w. PICK w : w = h[Len(ss)]
  OBVIOUS
<1>1. PICK L, x, y, z : L = Len(ss) /\ x = h[k - 1] /\ y = ss[k] /\ z = h[k]
  OBVIOUS
<1>2. L \in Nat /\ k \in 0..L /\ L \in 0..L
  BY <1>1, LenProperties
<1>3. y \in Seq(Nat) /\ z \in Seq(Nat) /\ x \in Seq(Nat) /\ JoinOf(z, x, y)
  BY <1>1, JoinedGrows
<1>4. Len(x) \in Nat /\ Len(y) \in Nat /\ Len(z) = Len(x) + Len(y)
  BY <1>3, LenProperties DEF JoinOf
<1>5. w \in Seq(Nat) /\ Len(w) \in Nat /\ Len(z) <= Len(w)
  <2>1. PICK b \in 0..Len(ss) : b = Len(ss) /\ k \in 0..b
    BY <1>1, <1>2
  <2>2. h[b] \in Seq(Nat) /\ Len(h[b]) \in Nat /\ Len(h[k]) <= Len(h[b])
    BY <2>1, JoinedBegins
  <2> QED
    BY <1>w, <1>1, <2>1, <2>2, Zenon
<1>6. PICK v : v = SubSeq(w, Len(x) + 1, Len(z))
  OBVIOUS
<1>7. Len(z) \in 0..Len(w) /\ Len(x) \in 0..Len(z) /\ Len(z) - Len(x) = Len(y)
  BY <1>4, <1>5
<1>8. /\ v \in Seq(Nat) /\ Len(v) = Len(z) - Len(x)
      /\ \A c \in 1..(Len(z) - Len(x)) : v[c] = w[Len(x) + c]
  BY <1>5, <1>6, <1>7, PartAt, ZenonT(60)
<1>9. ASSUME NEW c \in 1..Len(y) PROVE v[c] = y[c]
  <2>0. PICK d \in 1..Len(ss[k]) : d = c
    BY <1>1, Zenon
  <2>3. h[Len(ss)][Len(h[k - 1]) + d] = ss[k][d]
    BY JoinedHolds
  <2>1. h[Len(ss)][Len(h[k - 1]) + c] = ss[k][c]
    BY <2>0, <2>3, Zenon
  <2>2. w[Len(x) + c] = y[c]
    BY <1>w, <1>1, <2>1, Zenon
  <2> QED
    BY <1>7, <1>8, <2>2
<1>10. v = y
  BY <1>3, <1>7, <1>8, <1>9, SeqEqual
<1> QED
  BY <1>w, <1>1, <1>4, <1>5, <1>6, <1>7, <1>10, Zenon

\* It ends in a frame, if at all.
Ready(x) == Len(x) > 0 => x[Len(x)] = 5

\* Nothing unstuffs to nothing.
LEMMA NoneUnstuffed == Unstuff(<<>>) = <<>>
<1>1. <<>> \in Seq(Nat) /\ Len(<<>>) = 0
  BY EmptySeq
<1>2. PICK from : Undoes(from, <<>>) /\ Unstuff(<<>>) = from[1]
  BY <1>1, UnstuffIs
<1>3. 1 \in 1..(Len(<<>>) + 2) /\ 1 > Len(<<>>)
  BY <1>1
<1>4. from[1] = <<>>
  BY <1>2, <1>3 DEF Undoes
<1> QED
  BY <1>2, <1>4, Zenon

\* A frame ends in the 05 of its end mark, which no stuffed pair holds.
LEMMA StageEnds ==
    ASSUME NEW a \in Addresses, NEW ps \in Seq(Packets), NEW h, NEW ss, Wires(h, ss, a, ps),
           NEW m \in 1..Len(ps)
    PROVE  Len(h[m]) \in Nat \ {0} /\ h[Len(ps)][Len(h[m])] = 5
<1>1. /\ ss \in Seq(Seq(Nat)) /\ Len(ss) = Len(ps) /\ Joined(h, ss, Nat)
      /\ ss[m] = ServerFrame[a][ps[m]]
  BY DEF Wires
<1>2. ps[m] \in Packets
  BY ElementOfSeq
<1>3. PICK f, x, l : f = ss[m] /\ x = Stuff(ServerBody[a][ps[m]]) /\ l = Len(f)
  OBVIOUS
<1>4. Wraps(f, x)
  <2>1. PICK p, body : p \in Packets /\ p = ps[m] /\ body = ServerBody[a][ps[m]]
    BY <1>2
  <2>2. body = ServerBody[a][p] /\ f = ServerFrame[a][p]
    BY <1>1, <1>3, <2>1, Zenon
  <2>3. Wraps(f, Stuff(body))
    <3>1. a \in Addresses /\ p \in Packets
      BY <2>1, Zenon
    <3> QED
      BY <2>2, <3>1, FrameOf
  <2> QED
    BY <1>3, <2>1, <2>3, Zenon
<1>5. l \in Nat /\ l >= 4 /\ f[l] = 5
  <2>1. Len(x) \in Nat /\ l = Len(x) + 4 /\ f[Len(x) + 4] = 5
    BY <1>3, <1>4 DEF Wraps
  <2> QED
    BY <2>1
<1>6. PICK k \in 1..Len(ss) : k = m
  BY <1>1
<1>7. PICK c \in 1..Len(ss[k]) : c = l
  BY <1>3, <1>5, <1>6
<1>8. h[Len(ss)][Len(h[k - 1]) + c] = ss[k][c]
  BY <1>1, JoinedHolds, SMTT(60)
<1>9. Len(h[k]) = Len(h[k - 1]) + Len(ss[k]) /\ Len(h[k - 1]) \in 0..Len(h[k])
  BY <1>1, PieceOf
<1>10. PICK u, v : u = Len(h[k - 1]) /\ v = Len(h[k])
  OBVIOUS
<1>11. v = u + l /\ u \in 0..v /\ h[Len(ps)][u + l] = 5
  BY <1>1, <1>3, <1>5, <1>6, <1>7, <1>8, <1>9, <1>10, Zenon
<1>12. v \in Nat \ {0}
  BY <1>5, <1>11
<1> QED
  BY <1>6, <1>10, <1>11, <1>12, Zenon

\* What a read that begins behind k bytes has unstuffed at the end of the m-th frame
Got(wire, h, k, m) == Unstuff(SubSeq(wire, k + 1, Len(h[m])))

\* A read up to byte c is unstuffed in two parts there.
Parts(wire, h, k, m, c) ==
    /\ Got(wire, h, k, m) \in Seq(Nat) /\ Ready(Got(wire, h, k, m))
    /\ Unstuff(SubSeq(wire, Len(h[m]) + 1, c)) \in Seq(Nat)
    /\ Unstuff(SubSeq(wire, k + 1, c)) =
          Got(wire, h, k, m) \o Unstuff(SubSeq(wire, Len(h[m]) + 1, c))

\* What lies on the wire up to the end of a frame is unstuffed on its own.
LEMMA StageCut ==
    ASSUME NEW a \in Addresses, NEW ps \in Seq(Packets), NEW h, NEW ss, Wires(h, ss, a, ps),
           NEW wire, wire = h[Len(ps)], NEW m \in 0..Len(ps), NEW k \in 0..Len(h[m]),
           NEW c \in Len(h[m])..Len(wire)
    PROVE  /\ Len(h[m]) \in Nat /\ Len(wire) \in Nat /\ Len(h[m]) <= Len(wire) /\ wire \in Seq(Nat)
           /\ Parts(wire, h, k, m, c)
<1>l. PICK l, x : l = Len(h[m]) /\ x = SubSeq(wire, k + 1, l)
  OBVIOUS
<1>g. k \in 0..l /\ c \in l..Len(wire) /\ Got(wire, h, k, m) = Unstuff(x)
  BY <1>l, Zenon DEF Got
<1>1. /\ ss \in Seq(Seq(Nat)) /\ Len(ss) = Len(ps) /\ Joined(h, ss, Nat)
  BY DEF Wires
<1>2. l \in Nat /\ Len(wire) \in Nat /\ l <= Len(wire) /\ wire \in Seq(Nat)
  <2>1. Len(ps) \in Nat
    BY LenProperties
  <2>4. PICK b \in 0..Len(ss) : b = Len(ps)
    BY <1>1, <2>1
  <2>5. PICK j \in 0..b : j = m
    BY <2>4
  <2>2. b = Len(ps) /\ j = m
    BY <2>4, <2>5
  <2>3. h[b] \in Seq(Nat) /\ Len(h[j]) \in Nat /\ Len(h[b]) \in Nat /\ Len(h[j]) <= Len(h[b])
    BY <1>1, JoinedBegins
  <2> QED
    BY <1>l, <2>2, <2>3, Zenon
<1>3. k \in 0..l /\ l \in 0..c /\ c \in 0..Len(wire) /\ l \in 0..Len(wire)
  BY <1>g, <1>2
<1>4. x \in Seq(Nat) /\ Len(x) = l - k /\ \A i \in 1..(l - k) : x[i] = wire[k + i]
  BY <1>l, <1>2, <1>3, PartAt, SMTT(60)
<1>5. SubSeq(wire, l + 1, c) \in Seq(Nat)
  BY <1>l, <1>2, <1>3, PartAt
<1>6. Len(x) > 0 => Len(x) \in Nat \ {0} /\ x[Len(x)] = 5
  <2> SUFFICES ASSUME Len(x) > 0 PROVE Len(x) \in Nat \ {0} /\ x[Len(x)] = 5
    OBVIOUS
  <2>1. l - k \in 1..(l - k) /\ l > 0 /\ k + (l - k) = l
    BY <1>2, <1>4
  <2>2. m \in 1..Len(ps)
    <3>1. m = 0 => l = 0
      BY <1>1, <1>l, EmptySeq DEF Joined
    <3> QED
      BY <2>1, <3>1
  <2>3. wire[l] = 5
    BY <1>l, <2>2, StageEnds
  <2>4. PICK n : n = l - k
    OBVIOUS
  <2>5. n \in 1..n /\ k + n = l /\ Len(x) = n /\ \A i \in 1..n : x[i] = wire[k + i]
    BY <1>4, <2>1, <2>4
  <2>6. x[n] = wire[l]
    BY <2>5, Zenon
  <2>7. n \in Nat \ {0}
    BY <1>2, <2>1, <2>4
  <2> QED
    BY <2>3, <2>5, <2>6, <2>7, Zenon
<1>7. Unstuff(x) \in Seq(Nat) /\ Ready(Unstuff(x))
  <2>1. CASE Len(x) > 0
    <3>1. PICK n : n = Len(x)
      OBVIOUS
    <3>2. n \in Nat \ {0} /\ x[n] = 5
      BY <1>6, <2>1, <3>1, Zenon
    <3>4. x[n] \notin {18, 23}
      <4>1. 5 \notin {18, 23}
        OBVIOUS
      <4> QED
        BY <3>2, <4>1, Zenon
    <3>3. Unstuff(x)[Len(Unstuff(x))] = x[n]
      BY <1>4, <3>1, <3>2, <3>4, UnstuffEnds
    <3> QED
      BY <1>4, <3>2, <3>3, UnstuffSeq DEF Ready
  <2>2. CASE ~ (Len(x) > 0)
    <3>1. Len(x) = 0
      BY <1>4, <2>2, LenProperties
    <3>2. x = <<>>
      BY <1>4, <3>1, EmptySeq
    <3>3. Unstuff(x) = <<>> /\ Len(<<>>) = 0
      BY <3>2, NoneUnstuffed
    <3>4. Ready(<<>>) /\ <<>> \in Seq(Nat)
      BY EmptySeq DEF Ready
    <3> QED
      BY <3>3, <3>4, Zenon
  <2> QED
    BY <2>1, <2>2
<1>8. SubSeq(wire, k + 1, c) = x \o SubSeq(wire, l + 1, c)
  BY <1>l, <1>2, <1>3, PartSplits
<1>9. Len(x) > 0 => x[Len(x)] # 23
  <2>1. 5 # 23
    OBVIOUS
  <2> QED
    BY <1>6, <2>1, Zenon
<1>10. Unstuff(x \o SubSeq(wire, l + 1, c)) = Unstuff(x) \o Unstuff(SubSeq(wire, l + 1, c))
  BY <1>4, <1>5, <1>9, UnstuffJoins
<1>11. Unstuff(SubSeq(wire, l + 1, c)) \in Seq(Nat)
  BY <1>5, UnstuffSeq
<1>12. Parts(wire, h, k, m, c)
  BY <1>l, <1>g, <1>7, <1>8, <1>10, <1>11, Zenon DEF Parts
<1> QED
  BY <1>l, <1>2, <1>12, Zenon

\* A frame in what is unstuffed
LEMMA LiesIn ==
    ASSUME NEW v \in Seq(Nat), NEW body \in Seq(Nat), NEW r \in Seq(Nat)
    PROVE  /\ Lies((v \o Bare(body)) \o r, Len(v), body)
           /\ Len(v \o Bare(body)) = Len(v) + Len(body) + 4
<1>u. PICK u, bytes : u = v \o Bare(body) /\ bytes = u \o r
  OBVIOUS
<1>1. PICK f, q, l : f = Bare(body) /\ q = Len(v) /\ l = Len(body)
  OBVIOUS
<1>2. /\ f \in Seq(Nat) /\ l \in Nat /\ Len(f) = l + 4
      /\ f[1] = 23 /\ f[2] = 19 /\ \A i \in 1..l : f[2 + i] = body[i]
      /\ f[l + 3] = 23 /\ f[l + 4] = 5
  BY <1>1, BareIs DEF Wraps
<1>3. u \in Seq(Nat) /\ JoinOf(u, v, f)
  BY <1>u, <1>1, <1>2, Joins, Zenon
<1>4. bytes \in Seq(Nat) /\ JoinOf(bytes, u, r)
  BY <1>u, <1>3, Joins, Zenon
<1>5. q \in Nat /\ Len(u) = q + l + 4 /\ \A i \in 1..(l + 4) : u[q + i] = f[i]
  <2>1. q \in Nat /\ Len(u) = q + Len(f) /\ \A i \in 1..Len(f) : u[q + i] = f[i]
    BY <1>1, <1>3, Zenon DEF JoinOf
  <2> QED
    BY <1>2, <2>1
<1>6. /\ Len(r) \in Nat /\ Len(bytes) = q + l + 4 + Len(r)
      /\ \A i \in 1..(l + 4) : bytes[q + i] = f[i]
  <2>1. Len(r) \in Nat /\ Len(bytes) = Len(u) + Len(r) /\ \A i \in 1..Len(u) : bytes[i] = u[i]
    BY <1>4, Zenon DEF JoinOf
  <2>2. \A i \in 1..(l + 4) : q + i \in 1..Len(u)
    BY <1>2, <1>5
  <2>3. \A i \in 1..(l + 4) : bytes[q + i] = f[i]
    BY <1>5, <2>1, <2>2
  <2> QED
    BY <1>5, <2>1, <2>3
<1>7. /\ q + l + 4 <= Len(bytes) /\ 1 \in 1..(l + 4) /\ 2 \in 1..(l + 4)
      /\ l + 3 \in 1..(l + 4) /\ l + 4 \in 1..(l + 4)
      /\ q + (l + 3) = q + l + 3 /\ q + (l + 4) = q + l + 4
  BY <1>2, <1>5, <1>6
<1>8. \A i \in 1..l : 2 + i \in 1..(l + 4) /\ q + (2 + i) = q + 2 + i
  BY <1>2, <1>5
<1>9. \A i \in 1..l : bytes[q + 2 + i] = body[i]
  <2> SUFFICES ASSUME NEW i \in 1..l PROVE bytes[q + 2 + i] = body[i]
    OBVIOUS
  <2>1. bytes[q + (2 + i)] = f[2 + i] /\ f[2 + i] = body[i]
    BY <1>2, <1>6, <1>8
  <2> QED
    BY <1>8, <2>1
<1>10. /\ bytes[q + 1] = 23 /\ bytes[q + 2] = 19 /\ bytes[q + l + 3] = 23 /\ bytes[q + l + 4] = 5
  <2>1. /\ bytes[q + 1] = f[1] /\ bytes[q + 2] = f[2] /\ bytes[q + (l + 3)] = f[l + 3]
        /\ bytes[q + (l + 4)] = f[l + 4]
    BY <1>6, <1>7
  <2> QED
    BY <1>2, <1>7, <2>1
<1>11. Lies(bytes, Len(v), body)
  BY <1>1, <1>7, <1>9, <1>10, Zenon DEF Lies
<1> QED
  BY <1>u, <1>1, <1>5, <1>11, Zenon

-----------------------------------------------------------------------------
(* A read of the wire: what it unstuffs to, and what the search finds there *)

\* A read from byte k of the wire to byte c, from within the frame i
Reading(wire, h, ss, a, ps, i, w, k, c) ==
    /\ a \in Addresses /\ ps \in Seq(Packets) /\ Wires(h, ss, a, ps) /\ wire = h[Len(ps)]
    /\ w \in 0..Len(ps) /\ i \in 0..w /\ k \in 0..Len(h[i]) /\ c \in Len(h[w])..Len(wire)

\* What is read unstuffs to what was got by the end of frame m, and the rest.
LEMMA GotIs ==
    ASSUME NEW a, NEW ps, NEW h, NEW ss, NEW wire, NEW i, NEW w, NEW k, NEW c,
           Reading(wire, h, ss, a, ps, i, w, k, c), NEW m \in i..w
    PROVE  /\ Parts(wire, h, k, m, c)
           /\ k \in 0..Len(h[m]) /\ m \in 0..Len(ps)
<1>0. /\ a \in Addresses /\ ps \in Seq(Packets) /\ Wires(h, ss, a, ps) /\ wire = h[Len(ps)]
      /\ w \in 0..Len(ps) /\ i \in 0..w /\ k \in 0..Len(h[i]) /\ c \in Len(h[w])..Len(wire)
  BY DEF Reading
<1>1. /\ ss \in Seq(Seq(Nat)) /\ Len(ss) = Len(ps) /\ Joined(h, ss, Nat)
  BY <1>0, Zenon DEF Wires
<1>2. Len(ps) \in Nat
  BY <1>0, LenProperties
<1>3. m \in 0..w /\ m \in 0..Len(ps) /\ i \in 0..m
  BY <1>0, <1>2
<1>4. Len(h[m]) \in Nat /\ Len(h[w]) \in Nat /\ Len(h[m]) <= Len(h[w])
  <2>1. PICK b \in 0..Len(ss) : b = w
    BY <1>0, <1>1
  <2>2. PICK j \in 0..b : j = m
    BY <1>3, <2>1
  <2>3. Len(h[j]) \in Nat /\ Len(h[b]) \in Nat /\ Len(h[j]) <= Len(h[b])
    BY <1>1, JoinedBegins
  <2> QED
    BY <2>1, <2>2, <2>3, Zenon
<1>5. Len(h[i]) \in Nat /\ Len(h[i]) <= Len(h[m])
  <2>1. PICK b \in 0..Len(ss) : b = m
    BY <1>1, <1>3
  <2>2. PICK j \in 0..b : j = i
    BY <1>3, <2>1
  <2>3. Len(h[j]) \in Nat /\ Len(h[b]) \in Nat /\ Len(h[j]) <= Len(h[b])
    BY <1>1, JoinedBegins
  <2> QED
    BY <2>1, <2>2, <2>3, Zenon
<1>6. k \in 0..Len(h[m]) /\ c \in Len(h[m])..Len(wire)
  BY <1>0, <1>4, <1>5
<1>7. PICK j \in 0..Len(ps) : j = m
  BY <1>3
<1>8. k \in 0..Len(h[j]) /\ c \in Len(h[j])..Len(wire)
  BY <1>6, <1>7, Zenon
<1>9. Parts(wire, h, k, j, c)
  BY <1>0, <1>8, StageCut
<1> QED
  BY <1>3, <1>6, <1>7, <1>9, Zenon

\* The m-th frame, of packet p, in those bytes
HoldsFrame(bytes, wire, h, k, m, p, body) ==
    /\ p \in Packets /\ body \in Seq(Nat) /\ IsBody(body, p)
    /\ Lies(bytes, Len(Got(wire, h, k, m - 1)), body)
    /\ Len(Got(wire, h, k, m)) = Len(Got(wire, h, k, m - 1)) + Len(body) + 4

\* Each whole frame of a read lies in what it is unstuffed to.
LEMMA GotFrame ==
    ASSUME NEW a, NEW ps, NEW h, NEW ss, NEW wire, NEW i, NEW w, NEW k, NEW c,
           Reading(wire, h, ss, a, ps, i, w, k, c), NEW m \in i..w, m # i,
           NEW bytes, bytes = Unstuff(SubSeq(wire, k + 1, c))
    PROVE  HoldsFrame(bytes, wire, h, k, m, ps[m], ServerBody[a][ps[m]])
<1>b. PICK body : body = ServerBody[a][ps[m]]
  OBVIOUS
<1>0. /\ a \in Addresses /\ ps \in Seq(Packets) /\ Wires(h, ss, a, ps) /\ wire = h[Len(ps)]
      /\ w \in 0..Len(ps) /\ i \in 0..w /\ k \in 0..Len(h[i]) /\ c \in Len(h[w])..Len(wire)
  BY DEF Reading
<1>1. /\ ss \in Seq(Seq(Nat)) /\ Len(ss) = Len(ps) /\ Joined(h, ss, Nat)
      /\ \A j \in 1..Len(ps) : ss[j] = ServerFrame[a][ps[j]]
  BY <1>0, Zenon DEF Wires
<1>2. Len(ps) \in Nat
  BY <1>0, LenProperties
<1>3. m \in 1..Len(ps) /\ m - 1 \in i..w /\ m - 1 \in 0..Len(ps)
  BY <1>0, <1>2
<1>4. ps[m] \in Packets
  BY <1>0, <1>3, ElementOfSeq
<1>5. PICK p \in Packets : p = ps[m]
  BY <1>4
<1>6. PICK f : f = ServerFrame[a][p]
  OBVIOUS
<1>7. /\ body \in Seq(Nat) /\ IsBody(body, p) /\ Unstuff(f) = Bare(body)
  <2>1. body = ServerBody[a][p]
    BY <1>b, <1>5, Zenon
  <2> QED
    BY <1>0, <1>6, <2>1, FrameOf
<1>8. PICK l, x, n, z : l = Len(h[m - 1]) /\ x = SubSeq(wire, k + 1, l) /\ n = Len(h[m])
                     /\ z = SubSeq(wire, l + 1, n)
  OBVIOUS
<1>9. z = f /\ l \in 0..n /\ n \in 0..Len(wire)
  <2>1. PICK j \in 1..Len(ss) : j = m
    BY <1>1, <1>3
  <2>2. /\ Len(h[j]) \in 0..Len(h[Len(ss)]) /\ Len(h[j - 1]) \in 0..Len(h[j])
        /\ SubSeq(h[Len(ss)], Len(h[j - 1]) + 1, Len(h[j])) = ss[j]
    BY <1>1, PieceOf
  <2>4. wire = h[Len(ss)]
    BY <1>0, <1>1, Zenon
  <2>3. ss[m] = f
    BY <1>1, <1>3, <1>5, <1>6
  <2> QED
    BY <1>8, <2>1, <2>2, <2>3, <2>4, Zenon
<1>10. Got(wire, h, k, m - 1) \in Seq(Nat) /\ Got(wire, h, k, m) = Got(wire, h, k, m - 1) \o Unstuff(z)
  <2>0. PICK j \in 0..Len(ps) : j = m - 1
    BY <1>3
  <2>1. k \in 0..Len(h[j])
    <3>1. PICK b \in i..w : b = m - 1
      BY <1>3
    <3>2. k \in 0..Len(h[b])
      BY GotIs
    <3> QED
      BY <2>0, <3>1, <3>2, Zenon
  <2>2. n \in Len(h[j])..Len(wire)
    <3>1. n \in l..Len(wire)
      BY <1>9
    <3> QED
      BY <1>8, <2>0, <3>1, Zenon
  <2>3. Parts(wire, h, k, j, n)
    BY <1>0, <2>1, <2>2, StageCut
  <2>4. Got(wire, h, k, m) = Unstuff(SubSeq(wire, k + 1, n))
    BY <1>8, Zenon DEF Got
  <2> QED
    BY <1>8, <2>0, <2>3, <2>4, Zenon DEF Parts
<1>11. PICK v, u, r : /\ v = Got(wire, h, k, m - 1) /\ u = Got(wire, h, k, m)
                      /\ r = Unstuff(SubSeq(wire, Len(h[m]) + 1, c))
  OBVIOUS
<1>12. v \in Seq(Nat) /\ u = v \o Bare(body)
  BY <1>7, <1>9, <1>10, <1>11, Zenon
<1>13. r \in Seq(Nat) /\ bytes = u \o r
  <2>1. Parts(wire, h, k, m, c)
    BY GotIs
  <2> QED
    BY <1>11, <2>1, Zenon DEF Parts
<1>14. Lies((v \o Bare(body)) \o r, Len(v), body) /\ Len(v \o Bare(body)) = Len(v) + Len(body) + 4
  BY <1>7, <1>12, <1>13, LiesIn, Zenon
<1> QED
  BY <1>b, <1>4, <1>5, <1>7, <1>11, <1>12, <1>13, <1>14, Zenon DEF HoldsFrame

\* The packets of the server are of the type the search finds.
LEMMA PacketsFound == Seq(Packets) \subseteq Seq(Found)
<1>1. ASSUME NEW p \in Packets PROVE p \in Found
  <2>1. /\ p.type \in {1, 2} /\ (p.type = 1 => p.what \in Word)
        /\ (p.type = 2 => p.what \in Seq(Byte)) /\ p = [type |-> p.type, what |-> p.what]
    BY PacketIs DEF Packets
  <2>2. p.what \in Nat \cup Seq(Nat) /\ p.type \in Nat
    <3>1. CASE p.type = 1
      BY <2>1, <3>1 DEF Word
    <3>2. CASE p.type = 2
      BY <2>1, <3>2, BytesAreNumbers
    <3> QED
      BY <2>1, <3>1, <3>2
  <2>3. PICK x, y : x = p.type /\ y = p.what
    OBVIOUS
  <2>4. [type |-> x, what |-> y] \in Found
    BY <2>2, <2>3 DEF Found
  <2> QED
    BY <2>1, <2>3, <2>4, Zenon
<1>2. ASSUME NEW s \in Seq(Packets) PROVE s \in Seq(Found)
  <2>1. Len(s) \in Nat /\ s \in [1..Len(s) -> Packets]
    BY LenProperties
  <2>2. s \in [1..Len(s) -> Found]
    BY <1>1, <2>1
  <2> QED
    BY <2>1, <2>2, FunctionIsSeq
<1> QED
  BY <1>2

\* From one state of the search to a later one, it finds p.
Finds(next, scan, p) == Clean(next) /\ p \in Packets /\ next.found = scan.found \o <<p>>

\* A packet of the server in what is read: FrameScan finds it.
LEMMA PacketScan ==
    ASSUME NEW bytes \in Seq(Nat), NEW behind, NEW after, Scans(after, bytes, behind),
           NEW q \in Nat, NEW p \in Packets, NEW body, IsBody(body, p), ClearBody(body),
           Lies(bytes, q, body), Clean(after[q])
    PROVE  /\ q + Len(body) + 4 \in 0..Len(bytes) /\ Clean(after[q + Len(body) + 4])
           /\ after[q + Len(body) + 4].found = after[q].found \o <<p>>
BY FrameScan DEF Packets

\* The search finds one more frame.
LEMMA OneMore ==
    ASSUME NEW a, NEW ps, NEW h, NEW ss, NEW wire, NEW i, NEW w, NEW k, NEW c,
           Reading(wire, h, ss, a, ps, i, w, k, c), NEW m \in i..w, m # i,
           NEW bytes, bytes = Unstuff(SubSeq(wire, k + 1, c)),
           NEW behind, NEW after, Scans(after, bytes, behind), ClearBody(ServerBody[a][ps[m]]),
           Clean(after[Len(Got(wire, h, k, m - 1))])
    PROVE  Finds(after[Len(Got(wire, h, k, m))], after[Len(Got(wire, h, k, m - 1))], ps[m])
<1>0. w \in Nat /\ i \in Nat
  <2>1. ps \in Seq(Packets) /\ w \in 0..Len(ps) /\ i \in 0..w
    BY Zenon DEF Reading
  <2> QED
    BY <2>1, LenProperties
<1>1. PICK j \in i..w : j = m - 1
  BY <1>0
<1>2. Parts(wire, h, k, j, c)
  BY GotIs
<1>3. bytes \in Seq(Nat) /\ Len(Got(wire, h, k, m - 1)) \in Nat
  <2>1. bytes = Got(wire, h, k, j) \o Unstuff(SubSeq(wire, Len(h[j]) + 1, c))
    BY <1>2, Zenon DEF Parts
  <2>2. Got(wire, h, k, j) \in Seq(Nat) /\ Unstuff(SubSeq(wire, Len(h[j]) + 1, c)) \in Seq(Nat)
    BY <1>2, Zenon DEF Parts
  <2> HIDE DEF Got
  <2>3. bytes \in Seq(Nat) /\ Len(Got(wire, h, k, j)) \in Nat
    BY <2>1, <2>2, ConcatAt
  <2> QED
    BY <1>1, <2>3, Zenon
<1>4. PICK p, body, q : p = ps[m] /\ body = ServerBody[a][ps[m]] /\ q = Len(Got(wire, h, k, m - 1))
  OBVIOUS
<1>5. /\ p \in Packets /\ body \in Seq(Nat) /\ IsBody(body, p) /\ Lies(bytes, q, body)
      /\ Len(Got(wire, h, k, m)) = q + Len(body) + 4
  <2>1. HoldsFrame(bytes, wire, h, k, m, ps[m], ServerBody[a][ps[m]])
    BY GotFrame
  <2> QED
    BY <1>4, <2>1, Zenon DEF HoldsFrame
<1>6. q \in Nat /\ Clean(after[q]) /\ ClearBody(body)
  BY <1>3, <1>4, Zenon
<1>7. /\ q + Len(body) + 4 \in 0..Len(bytes) /\ Clean(after[q + Len(body) + 4])
      /\ after[q + Len(body) + 4].found = after[q].found \o <<p>>
  <2>1. bytes \in Seq(Nat) /\ q \in Nat /\ p \in Packets
    BY <1>3, <1>5, <1>6, Zenon
  <2>2. IsBody(body, p) /\ ClearBody(body) /\ Lies(bytes, q, body) /\ Clean(after[q])
    BY <1>5, <1>6, Zenon
  <2> QED
    BY <2>1, <2>2, PacketScan
<1> QED
  BY <1>4, <1>5, <1>7, Zenon DEF Finds

FindsAll(next, scan, packets) == Clean(next) /\ next.found = scan.found \o packets

\* The search finds all the frames that are whole, in their order.
LEMMA FramesScan ==
    ASSUME NEW a, NEW ps, NEW h, NEW ss, NEW wire, NEW i, NEW w, NEW k, NEW c,
           Reading(wire, h, ss, a, ps, i, w, k, c),
           NEW bytes, bytes = Unstuff(SubSeq(wire, k + 1, c)),
           NEW behind, NEW after, Scans(after, bytes, behind),
           \A m \in (i + 1)..w : ClearBody(ServerBody[a][ps[m]]),
           Clean(after[Len(Got(wire, h, k, i))]),
           after[Len(Got(wire, h, k, i))].found \in Seq(Found)
    PROVE  FindsAll(after[Len(Got(wire, h, k, w))], after[Len(Got(wire, h, k, i))], SubSeq(ps, i + 1, w))
<1>0. ps \in Seq(Packets) /\ w \in 0..Len(ps) /\ i \in 0..w /\ w \in Nat /\ i \in Nat /\ Len(ps) \in Nat
  <2>1. ps \in Seq(Packets) /\ w \in 0..Len(ps) /\ i \in 0..w
    BY Zenon DEF Reading
  <2> QED
    BY <2>1, LenProperties
<1> DEFINE at(m) == after[Len(Got(wire, h, k, m))]
           Good(m) == Clean(at(m)) /\ at(m).found = at(i).found \o SubSeq(ps, i + 1, m)
           P == {n \in 0..(w - i) : Good(i + n)}
<1>1. 0 \in P
  <2>1. i + 0 = i /\ 0 \in 0..(w - i)
    BY <1>0
  <2>2. SubSeq(ps, i + 1, i) \in Seq(Packets) /\ Len(SubSeq(ps, i + 1, i)) = i - i
    <3>1. i \in 0..Len(ps) /\ i \in 0..i
      BY <1>0
    <3> QED
      BY <1>0, <3>1, PartAt
  <2>3. SubSeq(ps, i + 1, i) = <<>>
    BY <1>0, <2>2, EmptySeq
  <2>4. at(i).found = at(i).found \o <<>>
    <3> HIDE DEF at
    <3>1. PICK x \in Seq(Found) : x = at(i).found
      BY DEF at
    <3>2. x = x \o <<>>
      BY ConcatEmptySeq
    <3> QED
      BY <3>1, <3>2, Zenon
  <2>5. Good(i)
    BY <2>3, <2>4, Zenon
  <2> HIDE DEF Good
  <2> QED
    BY <2>1, <2>5
<1>2. ASSUME NEW n \in 1..(w - i), n - 1 \in P PROVE n \in P
  <2>1. PICK m \in i..w : m = i + n
    BY <1>0
  <2>2. m # i /\ m \in (i + 1)..w /\ i + (n - 1) = m - 1 /\ n \in 0..(w - i) /\ m \in 1..Len(ps)
    BY <1>0, <2>1
  <2>3. Good(m - 1)
    <3> HIDE DEF Good
    <3> QED
      BY <1>2, <2>2
  <2>4. ClearBody(ServerBody[a][ps[m]]) /\ Clean(after[Len(Got(wire, h, k, m - 1))])
    BY <2>2, <2>3, Zenon
  <2>9. Finds(at(m), at(m - 1), ps[m])
    BY <2>2, <2>4, OneMore
  <2>5. Clean(at(m)) /\ ps[m] \in Packets /\ at(m).found = at(m - 1).found \o <<ps[m]>>
    BY <2>9, Zenon DEF Finds
  <2>6. SubSeq(ps, i + 1, m) = SubSeq(ps, i + 1, m - 1) \o <<ps[m]>>
    <3>0. PICK v : v = <<ps[m]>>
      OBVIOUS
    <3>10. PICK j \in 0..Len(ps) : j = m
      BY <1>0, <2>2
    <3>1. j = m /\ v = <<ps[m]>>
      BY <3>0, <3>10
    <3>2. PICK l \in 0..j : l = m - 1
      BY <2>2, <3>1
    <3>3. PICK o \in 0..l : o = i
      BY <1>0, <2>1, <2>2, <3>2
    <3>4. SubSeq(ps, o + 1, j) = SubSeq(ps, o + 1, l) \o SubSeq(ps, l + 1, j)
      BY <1>0, PartSplits
    <3>5. /\ SubSeq(ps, l + 1, j) \in Seq(Packets) /\ Len(SubSeq(ps, l + 1, j)) = j - l
          /\ \A e \in 1..(j - l) : SubSeq(ps, l + 1, j)[e] = ps[l + e]
      BY <1>0, PartAt
    <3>6. j - l = 1 /\ l + 1 = m
      BY <2>2, <3>1, <3>2
    <3>7. v \in Seq(Packets) /\ Len(v) = 1 /\ v[1] = ps[m]
      BY <2>5, <3>1
    <3>8. SubSeq(ps, l + 1, j)[1] = ps[m]
      <4>1. 1 \in 1..(j - l)
        BY <3>6
      <4> QED
        BY <3>5, <3>6, <4>1, Zenon
    <3>9. SubSeq(ps, l + 1, j) = v
      <4>1. PICK z : z = SubSeq(ps, l + 1, j)
        OBVIOUS
      <4>2. z \in Seq(Packets) /\ Len(z) = 1 /\ z[1] = v[1]
        BY <3>5, <3>6, <3>7, <3>8, <4>1, Zenon
      <4>3. \A e \in 1..1 : z[e] = v[e]
        BY <4>2
      <4>4. z = v
        BY <3>7, <4>2, <4>3, SeqEqual
      <4> QED
        BY <4>1, <4>4, Zenon
    <3> QED
      BY <3>1, <3>2, <3>3, <3>4, <3>9, Zenon
  <2>7. at(m).found = at(i).found \o SubSeq(ps, i + 1, m)
    <3>1. PICK x, y, z : x = at(i).found /\ y = SubSeq(ps, i + 1, m - 1) /\ z = <<ps[m]>>
      OBVIOUS
    <3>2. x \in Seq(Found)
      BY <3>1, Zenon
    <3>3. y \in Seq(Found)
      <4>1. PICK l \in 0..Len(ps) : l = m - 1
        BY <2>2, <1>0
      <4>2. PICK o \in 0..l : o = i
        BY <1>0, <2>1, <2>2, <4>1
      <4>3. SubSeq(ps, o + 1, l) \in Seq(Packets)
        BY <1>0, PartAt
      <4>4. y \in Seq(Packets)
        BY <3>1, <4>1, <4>2, <4>3, Zenon
      <4> QED
        BY <4>4, PacketsFound
    <3>4. z \in Seq(Found)
      <4>1. z \in Seq(Packets)
        BY <2>5, <3>1
      <4> QED
        BY <4>1, PacketsFound
    <3>5. (x \o y) \o z = x \o (y \o z)
      BY <3>2, <3>3, <3>4, ConcatAssociative, SMTT(60)
    <3>6. at(m).found = (x \o y) \o z
      BY <2>3, <2>5, <3>1, Zenon
    <3> QED
      BY <2>6, <3>1, <3>5, <3>6, Zenon
  <2>8. Good(m)
    BY <2>5, <2>7, Zenon
  <2> HIDE DEF Good
  <2> QED
    BY <2>1, <2>2, <2>8
<1> HIDE DEF P
<1>3. w - i \in P
  <2>1. w - i \in Nat /\ w - i \in 0..(w - i)
    BY <1>0
  <2>2. \A n \in 0..(w - i) : n \in P
    BY <1>1, <1>2, <2>1, UpTo
  <2> QED
    BY <2>1, <2>2
<1>4. Good(w)
  <2> HIDE DEF Good
  <2>1. i + (w - i) = w
    BY <1>0
  <2> QED
    BY <1>3, <2>1 DEF P
<1> QED
  BY <1>4, Zenon DEF FindsAll

\* What is found between other packets is found.
LEMMA InfixIs ==
    ASSUME NEW S, NEW u \in Seq(S), NEW v \in Seq(S), NEW t \in Seq(S)
    PROVE  Infix(v, (u \o v) \o t)
<1>1. PICK x, y, i, n : x = u \o v /\ y = x \o t /\ i = Len(u) /\ n = Len(v)
  OBVIOUS
<1>2. x \in Seq(S) /\ JoinOf(x, u, v)
  BY <1>1, Joins, Zenon
<1>3. y \in Seq(S) /\ JoinOf(y, x, t)
  BY <1>1, <1>2, Joins, Zenon
<1>4. /\ i \in Nat /\ n \in Nat /\ Len(x) = i + n /\ \A c \in 1..n : x[i + c] = v[c]
  BY <1>1, <1>2, Zenon DEF JoinOf
<1>5. Len(t) \in Nat /\ Len(y) = (i + n) + Len(t) /\ \A c \in 1..(i + n) : y[c] = x[c]
  BY <1>3, <1>4, Zenon DEF JoinOf
<1>6. PICK j \in 0..Len(y) : j = i + n
  BY <1>4, <1>5
<1>7. i \in 0..j /\ j - i = n /\ i \in 0..(Len(y) - n)
  BY <1>4, <1>5, <1>6
<1>8. PICK z : z = SubSeq(y, i + 1, j)
  OBVIOUS
<1>9. z \in Seq(S) /\ Len(z) = n /\ \A c \in 1..n : z[c] = y[i + c]
  <2>1. z \in Seq(S) /\ Len(z) = j - i /\ \A c \in 1..(j - i) : z[c] = y[i + c]
    BY <1>3, <1>7, <1>8, PartAt
  <2> QED
    BY <1>7, <2>1, Zenon
<1>10. ASSUME NEW c \in 1..n PROVE z[c] = v[c]
  <2>1. i + c \in 1..(i + n)
    BY <1>4
  <2> QED
    BY <1>4, <1>5, <1>9, <2>1
<1>11. z = v
  <2>1. \A c \in 1..n : z[c] = v[c]
    BY <1>10
  <2>2. Len(v) = n /\ Len(z) = n
    BY <1>1, <1>9
  <2> QED
    BY <1>9, <2>1, <2>2, SeqEqual
<1>12. SubSeq(y, i + 1, i + Len(v)) = v /\ i \in 0..(Len(y) - Len(v))
  BY <1>1, <1>6, <1>7, <1>8, <1>11, Zenon
<1> QED
  BY <1>1, <1>12, Zenon DEF Infix

\* A frame that is cut, neither behind a 17 nor behind a stuffed one, unstuffs
\* to the beginning of what it unstuffs to.
LEMMA FrameCut ==
    ASSUME NEW body \in Seq(Nat), NEW f, Wraps(f, Stuff(body)), NEW d \in 1..(Len(f) - 1),
           f[d] # 23, ~ (d > 1 /\ f[d - 1] = 23 /\ f[d] = 18)
    PROVE  \E m \in 0..Len(body) :
              /\ Unstuff(SubSeq(f, 1, d)) = <<23, 19>> \o SubSeq(body, 1, m)
              /\ m > 0 => body[m] # 23
<1>1. PICK x, n : x = Stuff(body) /\ n = Len(x)
  OBVIOUS
<1>2. /\ f \in Seq(Nat) /\ n \in Nat /\ Len(f) = n + 4
      /\ f[1] = 23 /\ f[2] = 19 /\ \A i \in 1..n : f[2 + i] = x[i]
      /\ f[n + 3] = 23
  BY <1>1, Zenon DEF Wraps
<1>3. d # 1 /\ d # n + 3
  BY <1>2
<1>4. PICK c : c = d - 2
  OBVIOUS
<1>5. c \in 0..n /\ d = 2 + c /\ d \in 0..Len(f) /\ 2 \in 0..d /\ 0 \in 0..2 /\ d - 2 = c
  <2>1. n \in Nat /\ Len(f) = n + 4
    BY <1>2, Zenon
  <2> QED
    BY <1>3, <1>4, <2>1
<1>6. x \in Seq(Nat) /\ c \in 0..Len(x)
  BY <1>1, <1>5, StuffSpreads
<1>7. c > 0 => x[c] = f[d]
  BY <1>2, <1>5
<1>8. c > 1 => x[c - 1] = f[d - 1]
  <2> SUFFICES ASSUME c > 1 PROVE x[c - 1] = f[d - 1]
    OBVIOUS
  <2>1. c - 1 \in 1..n /\ 2 + (c - 1) = d - 1
    BY <1>2, <1>5
  <2>2. f[2 + (c - 1)] = x[c - 1]
    BY <1>2, <2>1
  <2> QED
    BY <2>1, <2>2
<1>9. PICK m \in 0..Len(body) :
         /\ Unstuff(SubSeq(x, 1, c)) = SubSeq(body, 1, m)
         /\ m > 0 /\ body[m] = 23 => c > 1 /\ x[c - 1] = 23 /\ x[c] = 18
  <2>1. c > 0 => x[c] # 23
    BY <1>7
  <2>2. \E j \in 0..Len(body) : UnstuffsTo(x, c, body, j)
    BY <1>1, <1>6, <2>1, StuffedPart
  <2> QED
    BY <2>2, Zenon DEF UnstuffsTo
<1>10. m > 0 => body[m] # 23
  <2> SUFFICES ASSUME m > 0, body[m] = 23 PROVE FALSE
    OBVIOUS
  <2>1. c > 1 /\ x[c - 1] = 23 /\ x[c] = 18
    BY <1>9
  <2>2. d > 1 /\ f[d - 1] = 23 /\ f[d] = 18
    <3>1. c > 0 /\ d > 1
      BY <1>5, <2>1
    <3> QED
      BY <1>7, <1>8, <2>1, <3>1, Zenon
  <2> QED
    BY <2>2
<1>11. SubSeq(f, 1, d) = SubSeq(f, 1, 2) \o SubSeq(f, 2 + 1, d)
  <2>1. PICK o \in 0..2 : o = 0
    OBVIOUS
  <2>2. SubSeq(f, o + 1, d) = SubSeq(f, o + 1, 2) \o SubSeq(f, 2 + 1, d)
    BY <1>2, <1>5, PartSplits
  <2>3. o + 1 = 1
    BY <2>1
  <2> QED
    BY <2>2, <2>3, Zenon
<1>12. SubSeq(f, 1, 2) = <<23, 19>>
  <2>1. PICK g, b : g = SubSeq(f, 1, 2) /\ b = <<23, 19>>
    OBVIOUS
  <2>2. 2 \in 0..Len(f)
    BY <1>2
  <2>3. g \in Seq(Nat) /\ Len(g) = 2 /\ \A i \in 1..2 : g[i] = f[i]
    BY <1>2, <2>1, <2>2, FirstPart
  <2>4. b \in Seq(Nat) /\ Len(b) = 2 /\ b[1] = 23 /\ b[2] = 19
    BY <2>1
  <2>5. \A i \in 1..2 : g[i] = b[i]
    <3>1. f[1] = 23 /\ f[2] = 19
      BY <1>2, Zenon
    <3> QED
      BY <2>3, <2>4, <3>1
  <2>7. Len(g) = Len(b) /\ \A i \in 1..Len(g) : g[i] = b[i]
    BY <2>3, <2>4, <2>5, Zenon
  <2>6. g = b
    BY <2>3, <2>4, <2>7, SeqEqual
  <2> QED
    BY <2>1, <2>6, Zenon
<1>13. SubSeq(f, 2 + 1, d) = SubSeq(x, 1, c)
  <2>1. PICK g, b : g = SubSeq(f, 2 + 1, d) /\ b = SubSeq(x, 1, c)
    OBVIOUS
  <2>2. g \in Seq(Nat) /\ Len(g) = d - 2 /\ \A i \in 1..(d - 2) : g[i] = f[2 + i]
    BY <1>2, <1>5, <2>1, PartAt, SMTT(60)
  <2>3. b \in Seq(Nat) /\ Len(b) = c /\ \A i \in 1..c : b[i] = x[i]
    BY <1>6, <2>1, FirstPart
  <2>4. \A i \in 1..c : i \in 1..n
    BY <1>1, <1>5, <1>6
  <2>5. \A i \in 1..c : g[i] = b[i]
    BY <1>2, <1>5, <2>2, <2>3, <2>4, ZenonT(60)
  <2>6. Len(g) = c
    BY <1>5, <2>2, Zenon
  <2>7. g = b
    BY <2>2, <2>3, <2>5, <2>6, SeqEqual
  <2> QED
    BY <2>1, <2>7, Zenon
<1>14. Unstuff(<<23, 19>> \o SubSeq(x, 1, c)) = <<23, 19>> \o SubSeq(body, 1, m)
  <2>1. PICK b, y : b = <<23, 19>> /\ y = SubSeq(x, 1, c)
    OBVIOUS
  <2>2. b \in Seq(Nat) /\ Len(b) = 2 /\ b[Len(b)] # 23
    BY <2>1
  <2>3. y \in Seq(Nat)
    BY <1>6, <2>1, FirstPart
  <2>4. Unstuff(b \o y) = Unstuff(b) \o Unstuff(y)
    BY <2>2, <2>3, UnstuffJoins
  <2>5. Unstuff(<<23, 19>>) = <<23, 19>>
    BY TwoUnstuffed
  <2> QED
    BY <1>9, <2>1, <2>4, <2>5, Zenon
<1> QED
  BY <1>10, <1>11, <1>12, <1>13, <1>14, Zenon

\* A frame that is cut begins as the whole one does.
LEMMA BeginsIn ==
    ASSUME NEW v \in Seq(Nat), NEW body \in Seq(Nat), NEW m \in 0..Len(body), m > 0 => body[m] # 23
    PROVE  Begins(v \o (<<23, 19>> \o SubSeq(body, 1, m)), Len(v), body)
<1>1. PICK b, y, z, u, q : /\ b = <<23, 19>> /\ y = SubSeq(body, 1, m) /\ z = b \o y /\ u = v \o z
                           /\ q = Len(v)
  OBVIOUS
<1>2. b \in Seq(Nat) /\ Len(b) = 2 /\ b[1] = 23 /\ b[2] = 19
  BY <1>1
<1>3. y \in Seq(Nat) /\ Len(y) = m /\ \A i \in 1..m : y[i] = body[i]
  BY <1>1, FirstPart
<1>4. z \in Seq(Nat) /\ JoinOf(z, b, y)
  BY <1>1, <1>2, <1>3, Joins, Zenon
<1>5. u \in Seq(Nat) /\ JoinOf(u, v, z)
  BY <1>1, <1>4, Joins, Zenon
<1>6. m \in Nat /\ q \in Nat
  BY <1>1, LenProperties
<1>7. Len(z) = 2 + m /\ z[1] = 23 /\ z[2] = 19 /\ \A i \in 1..m : z[2 + i] = body[i]
  <2>1. Len(z) = 2 + m /\ (\A i \in 1..2 : z[i] = b[i]) /\ \A i \in 1..m : z[2 + i] = y[i]
    BY <1>2, <1>3, <1>4, Zenon DEF JoinOf
  <2>2. 1 \in 1..2 /\ 2 \in 1..2
    OBVIOUS
  <2> QED
    BY <1>2, <1>3, <2>1, <2>2, Zenon
<1>8. Len(u) = q + (2 + m) /\ \A i \in 1..(2 + m) : u[q + i] = z[i]
  BY <1>1, <1>5, <1>7, Zenon DEF JoinOf
<1>9. /\ 1 \in 1..(2 + m) /\ 2 \in 1..(2 + m) /\ q + (2 + m) = q + 2 + m
      /\ \A i \in 1..m : 2 + i \in 1..(2 + m) /\ q + (2 + i) = q + 2 + i
  BY <1>6
<1>10. u[q + 1] = 23 /\ u[q + 2] = 19 /\ Len(u) = q + 2 + m
  BY <1>7, <1>8, <1>9, Zenon
<1>11. \A i \in 1..m : u[q + 2 + i] = body[i]
  <2> SUFFICES ASSUME NEW i \in 1..m PROVE u[q + 2 + i] = body[i]
    OBVIOUS
  <2>1. u[q + (2 + i)] = z[2 + i] /\ z[2 + i] = body[i]
    BY <1>7, <1>8, <1>9, Zenon
  <2> QED
    BY <1>9, <2>1, Zenon
<1>12. u[q + 2 + m] # 23
  <2>1. CASE m = 0
    <3>1. q + 2 + 0 = q + 2 /\ 19 # 23
      BY <1>6
    <3> QED
      BY <1>10, <2>1, <3>1, Zenon
  <2>2. CASE m # 0
    <3>1. m > 0 /\ m \in 1..m
      BY <1>6, <2>2
    <3> QED
      BY <1>11, <3>1, Zenon
  <2> QED
    BY <2>1, <2>2
<1>13. Begins(u, q, body)
  BY <1>10, <1>11, <1>12, Zenon DEF Begins
<1> QED
  BY <1>1, <1>13, Zenon

\* The wire is a sequence of bytes.
LEMMA WireSeq ==
    ASSUME NEW a, NEW ps, NEW h, NEW ss, NEW wire, NEW i, NEW w, NEW k, NEW c,
           Reading(wire, h, ss, a, ps, i, w, k, c)
    PROVE  wire \in Seq(Nat) /\ Len(wire) \in Nat /\ Len(h[w]) \in Nat
<1>0. /\ ps \in Seq(Packets) /\ Wires(h, ss, a, ps) /\ wire = h[Len(ps)] /\ w \in 0..Len(ps)
  BY Zenon DEF Reading
<1>1. Len(ps) \in Nat
  BY <1>0, LenProperties
<1>2. ss \in Seq(Seq(Nat)) /\ Len(ss) = Len(ps) /\ Joined(h, ss, Nat)
  BY <1>0, Zenon DEF Wires
<1>3. PICK b \in 0..Len(ss) : b = Len(ps)
  BY <1>1, <1>2
<1>4. PICK j \in 0..b : j = w
  BY <1>0, <1>3
<1>5. h[b] \in Seq(Nat) /\ Len(h[j]) \in Nat /\ Len(h[b]) \in Nat
  BY <1>2, JoinedBegins
<1> QED
  BY <1>0, <1>3, <1>4, <1>5, Zenon

\* The frame behind the first w lies on the wire behind stage w.
LEMMA FrameAt ==
    ASSUME NEW a, NEW ps, NEW h, NEW ss, Wires(h, ss, a, ps), NEW w \in Nat, w + 1 \in 1..Len(ps)
    PROVE  \A e \in 1..Len(ss[w + 1]) : h[Len(ps)][Len(h[w]) + e] = ss[w + 1][e]
<1>1. ss \in Seq(Seq(Nat)) /\ Len(ss) = Len(ps) /\ Joined(h, ss, Nat)
  BY Zenon DEF Wires
<1>2. PICK k \in 1..Len(ss) : k = w + 1
  BY <1>1
<1>3. k - 1 = w
  BY <1>2
<1>4. ASSUME NEW e \in 1..Len(ss[k]) PROVE h[Len(ss)][Len(h[k - 1]) + e] = ss[k][e]
  BY <1>1, JoinedHolds, SMTT(60)
<1> QED
  BY <1>1, <1>2, <1>3, <1>4, Zenon

\* The byte before a frame, in what was unstuffed, is the 05 of the one before.
LEMMA ReadBytes ==
    ASSUME NEW a, NEW ps, NEW h, NEW ss, NEW wire, NEW i, NEW w, NEW k, NEW c,
           Reading(wire, h, ss, a, ps, i, w, k, c), NEW m \in i..w,
           NEW bytes, bytes = Unstuff(SubSeq(wire, k + 1, c)), NEW q, q = Len(Got(wire, h, k, m))
    PROVE  /\ bytes \in Seq(Nat) /\ q \in 0..Len(bytes) /\ q \in Nat /\ Len(bytes) \in Nat
           /\ q > 0 => bytes[q] = 5
<1>1. Parts(wire, h, k, m, c)
  BY GotIs
<1>2. PICK v, r : v = Got(wire, h, k, m) /\ r = Unstuff(SubSeq(wire, Len(h[m]) + 1, c))
  OBVIOUS
<1>3. v \in Seq(Nat) /\ r \in Seq(Nat) /\ Ready(v) /\ bytes = v \o r
  BY <1>1, <1>2, Zenon DEF Parts
<1>4. bytes \in Seq(Nat) /\ JoinOf(bytes, v, r)
  BY <1>3, Joins, Zenon
<1>5. q = Len(v)
  BY <1>2, Zenon
<1>6. q \in Nat /\ Len(r) \in Nat /\ Len(bytes) = q + Len(r) /\ \A j \in 1..q : bytes[j] = v[j]
  BY <1>4, <1>5, Zenon DEF JoinOf
<1>7. q > 0 => v[q] = 5
  BY <1>3, <1>5, Zenon DEF Ready
<1>8. q \in 0..Len(bytes) /\ Len(bytes) \in Nat /\ (q > 0 => q \in 1..q)
  BY <1>6
<1>9. q > 0 => bytes[q] = 5
  BY <1>6, <1>7, <1>8, Zenon
<1> QED
  BY <1>4, <1>6, <1>8, <1>9, Zenon

\* However a read begins and ends: if the search stays in the packets, it finds
\* those that are whole, in their order and with nothing between them.
LEMMA WholeFound ==
    ASSUME NEW a, NEW ps, NEW h, NEW ss, NEW wire, NEW i, NEW w, NEW k, NEW c,
           Reading(wire, h, ss, a, ps, i, w, k, c), NEW behind,
           NEW scan, scan = Extract(Unstuff(SubSeq(wire, k + 1, c)), behind),
           ~ scan.outside, ~ scan.beyond,
           \A m \in (i + 1)..w : ClearBody(ServerBody[a][ps[m]])
    PROVE  Infix(SubSeq(ps, i + 1, w), scan.found)
<1>0. ps \in Seq(Packets) /\ w \in 0..Len(ps) /\ i \in 0..w /\ i \in i..w /\ w \in i..w
  <2>1. ps \in Seq(Packets) /\ w \in 0..Len(ps) /\ i \in 0..w
    BY Zenon DEF Reading
  <2>2. Len(ps) \in Nat
    BY <2>1, LenProperties
  <2> QED
    BY <2>1, <2>2
<1>1. PICK bytes, N : bytes = Unstuff(SubSeq(wire, k + 1, c)) /\ N = Len(bytes)
  OBVIOUS
<1>2. PICK q, z : q = Len(Got(wire, h, k, i)) /\ z = Len(Got(wire, h, k, w))
  OBVIOUS
<1>3. /\ bytes \in Seq(Nat) /\ q \in 0..N /\ q \in Nat /\ N \in Nat
      /\ q > 0 => bytes[q] = 5
  <2>1. PICK m \in i..w : m = i
    BY <1>0
  <2>2. q = Len(Got(wire, h, k, m))
    BY <1>2, <2>1, Zenon
  <2>3. /\ bytes \in Seq(Nat) /\ q \in 0..Len(bytes) /\ q \in Nat /\ Len(bytes) \in Nat
        /\ q > 0 => bytes[q] = 5
    BY <1>1, <2>2, ReadBytes
  <2> QED
    BY <1>1, <2>3, Zenon
<1>4. z \in 0..N /\ z \in Nat
  <2>1. PICK m \in i..w : m = w
    BY <1>0
  <2>2. z = Len(Got(wire, h, k, m))
    BY <1>2, <2>1, Zenon
  <2>3. z \in 0..Len(bytes) /\ z \in Nat
    BY <1>1, <2>2, ReadBytes
  <2> QED
    BY <1>1, <2>3, Zenon
<1>5. PICK after : Scans(after, bytes, behind) /\ scan = after[N]
  <2>1. \E after : Scans(after, bytes, behind) /\ Extract(bytes, behind) = after[Len(bytes)]
    BY <1>3, ExtractIs
  <2> QED
    BY <1>1, <2>1, Zenon
<1>6. PICK b \in 0..Len(bytes) : b = N
  BY <1>1, <1>3
<1>7. PICK x \in 0..b : x = q
  BY <1>3, <1>6
<1>8. PICK y \in 0..b : y = z
  BY <1>4, <1>6
<1>9. after[x] \in ScanOf(Len(bytes)) /\ ~ after[x].outside /\ ~ after[x].beyond
  <2>1. after[x] \in ScanOf(Len(bytes)) /\ KeepsFinds(after[b], after[x])
    BY <1>3, <1>5, ScanLater
  <2> QED
    BY <1>5, <1>6, <2>1, Zenon DEF KeepsFinds
<1>10. Clean(after[x])
  <2>1. x \in 0..Len(bytes)
    BY <1>1, <1>3, <1>7
  <2>2. x > 0 /\ after[x].skip => bytes[x] = 23
    BY <1>3, <1>5, <1>9, <2>1, ScanClean
  <2>3. x > 0 => bytes[x] # 23
    BY <1>3, <1>7
  <2>4. x = 0 => ~ after[x].skip
    BY <1>5 DEF Scans
  <2>5. x = 0 \/ x > 0
    BY <1>3, <1>7
  <2> QED
    BY <1>9, <2>2, <2>3, <2>4, <2>5, Zenon DEF Clean
<1>11. PICK u, v : u = after[x].found /\ v = SubSeq(ps, i + 1, w)
  OBVIOUS
<1>12. u \in Seq(Found) /\ v \in Seq(Found)
  <2>1. u \in Seq(Found)
    BY <1>9, <1>11 DEF ScanOf
  <2>2. v \in Seq(Packets)
    BY <1>0, <1>11, PartAt
  <2> QED
    BY <2>1, <2>2, PacketsFound
<1>13. after[z].found = u \o v
  <2>1. Clean(after[Len(Got(wire, h, k, i))]) /\ after[Len(Got(wire, h, k, i))].found \in Seq(Found)
    BY <1>2, <1>7, <1>10, <1>11, <1>12, Zenon
  <2>2. FindsAll(after[Len(Got(wire, h, k, w))], after[Len(Got(wire, h, k, i))], SubSeq(ps, i + 1, w))
    BY <1>1, <1>5, <2>1, FramesScan
  <2> QED
    BY <1>2, <1>7, <1>11, <2>2, Zenon DEF FindsAll
<1>14. PICK t \in Seq(Found) : scan.found = after[y].found \o t
  <2>1. KeepsFinds(after[b], after[y])
    BY <1>3, <1>5, ScanLater
  <2> QED
    BY <1>5, <1>6, <2>1, Zenon DEF KeepsFinds
<1>15. scan.found = (u \o v) \o t
  BY <1>8, <1>13, <1>14, Zenon
<1>16. Infix(v, (u \o v) \o t)
  BY <1>12, InfixIs
<1> QED
  BY <1>11, <1>15, <1>16, Zenon

\* How a read that begins with a frame may end: with a frame, or in one, but
\* neither behind a 17 nor behind a stuffed one.
Ending(wire, h, ss, a, ps, w, c) ==
    \/ c = Len(h[w])
    \/ /\ w + 1 \in 1..Len(ps) /\ c - Len(h[w]) \in 1..(Len(ss[w + 1]) - 1)
       /\ NoMarks(ServerBody[a][ps[w + 1]]) /\ wire[c] # 23
       /\ ~ (c - Len(h[w]) > 1 /\ wire[c - 1] = 23 /\ wire[c] = 18)

\* What is left of it begins the next frame.
LEMMA EndBegins ==
    ASSUME NEW a, NEW ps, NEW h, NEW ss, NEW wire, NEW i, NEW w, NEW k, NEW c,
           Reading(wire, h, ss, a, ps, i, w, k, c), Ending(wire, h, ss, a, ps, w, c)
    PROVE  \E body \in Seq(Nat) :
              NoMarks(body) /\ Begins(Unstuff(SubSeq(wire, k + 1, c)), Len(Got(wire, h, k, w)), body)
<1>0. /\ a \in Addresses /\ ps \in Seq(Packets) /\ Wires(h, ss, a, ps) /\ wire = h[Len(ps)]
      /\ w \in 0..Len(ps) /\ i \in 0..w /\ c \in Len(h[w])..Len(wire)
  BY Zenon DEF Reading
<1>1. Len(ps) \in Nat /\ w \in i..w /\ w \in Nat
  <2>1. Len(ps) \in Nat
    BY <1>0, LenProperties
  <2> QED
    BY <1>0, <2>1
<1>2. Parts(wire, h, k, w, c)
  <2>1. PICK m \in i..w : m = w
    BY <1>1
  <2>2. Parts(wire, h, k, m, c)
    BY GotIs
  <2> QED
    BY <2>1, <2>2, Zenon
<1>3. PICK v, r, l, bytes : /\ v = Got(wire, h, k, w) /\ l = Len(h[w])
                            /\ r = Unstuff(SubSeq(wire, l + 1, c))
                            /\ bytes = Unstuff(SubSeq(wire, k + 1, c))
  OBVIOUS
<1>4. v \in Seq(Nat) /\ r \in Seq(Nat) /\ bytes = v \o r
  BY <1>2, <1>3, Zenon DEF Parts
<1>5. ss \in Seq(Seq(Nat)) /\ Len(ss) = Len(ps) /\ Joined(h, ss, Nat)
      /\ \A j \in 1..Len(ps) : ss[j] = ServerFrame[a][ps[j]]
  BY <1>0, Zenon DEF Wires
<1>6. l \in Nat /\ Len(wire) \in Nat /\ wire \in Seq(Nat)
  <2>1. wire \in Seq(Nat) /\ Len(wire) \in Nat /\ Len(h[w]) \in Nat
    BY WireSeq
  <2> QED
    BY <1>3, <2>1, Zenon
<1>7. CASE c = l
  <2>1. SubSeq(wire, l + 1, c) = <<>>
    <3>1. PICK j \in 0..Len(wire) : j = c
      BY <1>0, <1>3, <1>6
    <3>2. PICK o \in 0..j : o = l
      BY <1>6, <1>7, <3>1
    <3>3. SubSeq(wire, o + 1, j) \in Seq(Nat) /\ Len(SubSeq(wire, o + 1, j)) = j - o
      BY <1>6, PartAt
    <3>4. j - o = 0
      BY <1>6, <1>7, <3>1, <3>2
    <3>5. SubSeq(wire, o + 1, j) = <<>>
      BY <3>3, <3>4, EmptySeq
    <3> QED
      BY <3>1, <3>2, <3>5, Zenon
  <2>2. r = <<>>
    BY <1>3, <2>1, NoneUnstuffed, Zenon
  <2>3. bytes = v
    BY <1>4, <2>2, ConcatEmptySeq
  <2>4. <<>> \in Seq(Nat) /\ NoMarks(<<>>)
    BY EmptySeq DEF NoMarks
  <2>5. Begins(bytes, Len(v), <<>>)
    BY <2>3, Zenon DEF Begins
  <2> QED
    BY <1>3, <2>4, <2>5, Zenon
<1>8. CASE c # l
  <2>1. PICK d, f, body : /\ d = c - l /\ f = ss[w + 1] /\ body = ServerBody[a][ps[w + 1]]
    OBVIOUS
  <2>2. /\ w + 1 \in 1..Len(ps) /\ d \in 1..(Len(f) - 1) /\ NoMarks(body) /\ wire[c] # 23
        /\ ~ (d > 1 /\ wire[c - 1] = 23 /\ wire[c] = 18)
    BY <1>3, <1>8, <2>1, Zenon DEF Ending
  <2>3. body \in Seq(Nat) /\ Wraps(f, Stuff(body))
    <3>1. ps[w + 1] \in Packets
      BY <1>0, <2>2, ElementOfSeq
    <3>2. PICK p \in Packets : p = ps[w + 1]
      BY <3>1
    <3>3. body = ServerBody[a][p] /\ f = ServerFrame[a][p]
      BY <1>5, <2>1, <2>2, <3>2, Zenon
    <3> QED
      BY <1>0, <3>3, FrameOf
  <2>4. \A e \in 1..Len(f) : wire[l + e] = f[e]
    <3>1. \A e \in 1..Len(ss[w + 1]) : h[Len(ps)][Len(h[w]) + e] = ss[w + 1][e]
      BY <1>0, <1>1, <2>2, FrameAt
    <3> QED
      BY <1>0, <1>3, <2>1, <3>1, Zenon
  <2>5. /\ c = l + d /\ d \in 1..Len(f) /\ Len(f) \in Nat /\ d \in Nat
        /\ d > 1 => c - 1 = l + (d - 1) /\ d - 1 \in 1..Len(f)
    <3>1. Len(f) \in Nat
      <4>1. Len(Stuff(body)) \in Nat /\ Len(f) = Len(Stuff(body)) + 4
        BY <2>3, Zenon DEF Wraps
      <4> QED
        BY <4>1
    <3>2. c \in Int
      BY <1>0, <1>6, <1>3
    <3> QED
      BY <1>6, <2>1, <2>2, <3>1, <3>2
  <2>6. f[d] # 23 /\ ~ (d > 1 /\ f[d - 1] = 23 /\ f[d] = 18)
    BY <2>2, <2>4, <2>5, Zenon
  <2>7. PICK m \in 0..Len(body) :
           /\ Unstuff(SubSeq(f, 1, d)) = <<23, 19>> \o SubSeq(body, 1, m)
           /\ m > 0 => body[m] # 23
    BY <2>2, <2>3, <2>6, FrameCut, ZenonT(60)
  <2>8. SubSeq(wire, l + 1, c) = SubSeq(f, 1, d)
    <3>1. PICK x, y : x = SubSeq(wire, l + 1, c) /\ y = SubSeq(f, 1, d)
      OBVIOUS
    <3>2. c \in 0..Len(wire) /\ l \in 0..c /\ c - l = d
      BY <1>0, <1>3, <1>6, <2>5
    <3>3. x \in Seq(Nat) /\ Len(x) = c - l /\ \A e \in 1..(c - l) : x[e] = wire[l + e]
      BY <1>6, <3>1, <3>2, PartAt
    <3>4. f \in Seq(Nat) /\ d \in 0..Len(f)
      <4>1. f \in Seq(Nat)
        BY <2>3, Zenon DEF Wraps
      <4> QED
        BY <2>5, <4>1
    <3>5. y \in Seq(Nat) /\ Len(y) = d /\ \A e \in 1..d : y[e] = f[e]
      BY <3>1, <3>4, FirstPart
    <3>6. \A e \in 1..d : e \in 1..Len(f)
      BY <2>5
    <3>7. Len(x) = Len(y) /\ \A e \in 1..Len(x) : x[e] = y[e]
      BY <2>4, <3>2, <3>3, <3>5, <3>6, Zenon
    <3>8. x = y
      BY <3>3, <3>5, <3>7, SeqEqual
    <3> QED
      BY <3>1, <3>8, Zenon
  <2>9. bytes = v \o (<<23, 19>> \o SubSeq(body, 1, m))
    BY <1>3, <1>4, <2>7, <2>8, Zenon
  <2>10. Begins(v \o (<<23, 19>> \o SubSeq(body, 1, m)), Len(v), body)
    BY <1>4, <2>3, <2>7, BeginsIn
  <2> QED
    BY <1>3, <2>2, <2>3, <2>9, <2>10, Zenon
<1> QED
  BY <1>7, <1>8

\* A read that begins with a frame and ends so finds just the whole ones.
LEMMA JustWholeFound ==
    ASSUME NEW a, NEW ps, NEW h, NEW ss, NEW wire, NEW w, NEW c,
           Reading(wire, h, ss, a, ps, 0, w, 0, c), Ending(wire, h, ss, a, ps, w, c), NEW behind,
           NEW scan, scan = Extract(Unstuff(SubSeq(wire, 0 + 1, c)), behind),
           \A m \in (0 + 1)..w : ClearBody(ServerBody[a][ps[m]])
    PROVE  ~ scan.outside /\ ~ scan.beyond /\ scan.found = SubSeq(ps, 0 + 1, w)
<1>0. ps \in Seq(Packets) /\ w \in 0..Len(ps) /\ 0 \in 0..w /\ w \in 0..w /\ Wires(h, ss, a, ps)
  <2>1. ps \in Seq(Packets) /\ w \in 0..Len(ps) /\ Wires(h, ss, a, ps)
    BY Zenon DEF Reading
  <2>2. Len(ps) \in Nat
    BY <2>1, LenProperties
  <2> QED
    BY <2>1, <2>2
<1>1. PICK bytes, N : bytes = Unstuff(SubSeq(wire, 0 + 1, c)) /\ N = Len(bytes)
  OBVIOUS
<1>2. PICK z : z = Len(Got(wire, h, 0, w))
  OBVIOUS
<1>3. bytes \in Seq(Nat) /\ z \in 0..N /\ z \in Nat /\ N \in Nat
  <2>1. PICK m \in 0..w : m = w
    BY <1>0
  <2>2. z = Len(Got(wire, h, 0, m))
    BY <1>2, <2>1, Zenon
  <2>3. bytes \in Seq(Nat) /\ z \in 0..Len(bytes) /\ z \in Nat /\ Len(bytes) \in Nat
    BY <1>1, <2>2, ReadBytes
  <2> QED
    BY <1>1, <2>3, Zenon
<1>4. PICK after : Scans(after, bytes, behind) /\ scan = after[N]
  <2>1. \E after : Scans(after, bytes, behind) /\ Extract(bytes, behind) = after[Len(bytes)]
    BY <1>3, ExtractIs
  <2> QED
    BY <1>1, <2>1, Zenon
<1>5. Len(Got(wire, h, 0, 0)) = 0
  <2>1. h[0] = <<>> /\ Len(<<>>) = 0
    BY <1>0, EmptySeq DEF Wires, Joined
  <2>2. wire \in Seq(Nat)
    BY WireSeq
  <2>3. SubSeq(wire, 0 + 1, 0) = <<>>
    <3>1. PICK j \in 0..Len(wire) : j = 0
      BY <2>2, LenProperties
    <3>2. PICK o \in 0..j : o = 0
      BY <3>1
    <3>3. SubSeq(wire, o + 1, j) \in Seq(Nat) /\ Len(SubSeq(wire, o + 1, j)) = j - o
      BY <2>2, PartAt
    <3>4. j - o = 0
      BY <3>1, <3>2
    <3>5. SubSeq(wire, o + 1, j) = <<>>
      BY <3>3, <3>4, EmptySeq
    <3> QED
      BY <3>1, <3>2, <3>5, Zenon
  <2> QED
    BY <2>1, <2>3, NoneUnstuffed, Zenon DEF Got
<1>6. Clean(after[0]) /\ after[0].found = <<>>
  BY <1>4 DEF Scans, Clean
<1>7. Clean(after[z]) /\ after[z].found = <<>> \o SubSeq(ps, 0 + 1, w)
  <2>1. Clean(after[Len(Got(wire, h, 0, 0))]) /\ after[Len(Got(wire, h, 0, 0))].found \in Seq(Found)
    BY <1>5, <1>6, EmptySeq
  <2>2. FindsAll(after[Len(Got(wire, h, 0, w))], after[Len(Got(wire, h, 0, 0))], SubSeq(ps, 0 + 1, w))
    BY <1>1, <1>4, <2>1, FramesScan
  <2> QED
    BY <1>2, <1>5, <1>6, <2>2, Zenon DEF FindsAll
<1>8. PICK body \in Seq(Nat) : NoMarks(body) /\ Begins(bytes, z, body)
  <2>1. \E body \in Seq(Nat) :
           NoMarks(body) /\ Begins(Unstuff(SubSeq(wire, 0 + 1, c)), Len(Got(wire, h, 0, w)), body)
    BY EndBegins
  <2> QED
    BY <1>1, <1>2, <2>1, Zenon
<1>9. Clean(after[Len(bytes)]) /\ after[Len(bytes)].found = after[z].found
  BY <1>3, <1>4, <1>7, <1>8, BeginningScan
<1>10. <<>> \o SubSeq(ps, 0 + 1, w) = SubSeq(ps, 0 + 1, w)
  <2>1. PICK o \in 0..w : o = 0
    BY <1>0
  <2>2. SubSeq(ps, o + 1, w) \in Seq(Packets)
    BY <1>0, PartAt
  <2>3. PICK x : x = SubSeq(ps, o + 1, w)
    OBVIOUS
  <2>4. <<>> \o x = x
    BY <2>2, <2>3, ConcatEmptySeq
  <2> QED
    BY <2>1, <2>3, <2>4, Zenon
<1> QED
  BY <1>1, <1>4, <1>7, <1>9, <1>10, Zenon DEF Clean

-----------------------------------------------------------------------------
(* The server's packets are handled *)

\* Less than the first packet in flight is read.
ReadInv ==
    /\ num \in Addresses /\ flight \in Seq(Packets) /\ cut \in Nat
    /\ cut # 0 => 1 \in 1..Len(flight) /\ cut < Len(ServerFrame[num][flight[1]])

\* Byte c of the wire lies in the frame behind the first w, if not at its beginning.
Stops(h, ss, ps, w, c) ==
    /\ w \in 0..Len(ps) /\ Len(h[w]) \in Nat /\ Len(h[w]) <= c
    /\ c # Len(h[w]) => w + 1 \in 1..Len(ps) /\ c - Len(h[w]) \in 1..(Len(ss[w + 1]) - 1)

\* A read ends in the frame behind those that are whole.
LEMMA StopIs ==
    ASSUME ReadInv, NEW h, NEW ss, Wires(h, ss, num, flight),
           NEW c \in Nat, c <= Len(h[Len(flight)]), NEW w, w = WholeIn(c)
    PROVE  Stops(h, ss, flight, w, c)
<1>0. num \in Addresses /\ flight \in Seq(Packets)
  BY Zenon DEF ReadInv
<1>1. PICK L : L = Len(flight)
  OBVIOUS
<1>2. L \in Nat
  BY <1>0, <1>1, LenProperties
<1>3. w \in 0..L /\ Len(h[w]) <= c /\ \A j \in 0..L : Len(h[j]) <= c => j <= w
  <2>1. /\ w \in 0..Len(flight) /\ Len(h[w]) <= c
        /\ \A j \in 0..Len(flight) : Len(h[j]) <= c => j <= w
    BY <1>0, WholeIs
  <2> QED
    BY <1>1, <2>1, Zenon
<1>4. ss \in Seq(Seq(Nat)) /\ Len(ss) = L /\ Joined(h, ss, Nat)
  BY <1>1, Zenon DEF Wires
<1>5. Len(h[w]) \in Nat /\ Len(h[L]) \in Nat
  <2>1. PICK b \in 0..Len(ss) : b = L
    BY <1>2, <1>4
  <2>2. PICK j \in 0..b : j = w
    BY <1>3, <2>1
  <2>3. Len(h[j]) \in Nat /\ Len(h[b]) \in Nat
    BY <1>4, JoinedBegins
  <2> QED
    BY <2>1, <2>2, <2>3, Zenon
<1>6. ASSUME c # Len(h[w])
      PROVE  w + 1 \in 1..L /\ c - Len(h[w]) \in 1..(Len(ss[w + 1]) - 1)
  <2>1. w # L
    <3>1. c <= Len(h[L])
      BY <1>1, Zenon
    <3>2. w = L => c <= Len(h[w])
      BY <3>1, Zenon
    <3> HIDE <1>6
    <3>3. c <= Len(h[w]) => c = Len(h[w])
      BY <1>3, <1>5
    <3> QED
      BY <1>6, <3>2, <3>3, Zenon
  <2>2. w + 1 \in 1..L /\ w + 1 \in 0..L /\ ~ (w + 1 <= w)
    BY <1>2, <1>3, <2>1
  <2>3. PICK k \in 1..Len(ss) : k = w + 1
    BY <1>4, <2>2
  <2>4. Len(h[k]) = Len(h[k - 1]) + Len(ss[k])
    BY <1>4, PieceOf
  <2>5. k - 1 = w
    BY <1>2, <1>3, <2>3
  <2>6. PICK x, y : x = Len(h[w]) /\ y = Len(ss[w + 1])
    OBVIOUS
  <2>7. Len(h[w + 1]) = x + y
    BY <2>3, <2>4, <2>5, <2>6, Zenon
  <2>8. y \in Nat
    <3>1. ss[k] \in Seq(Nat)
      BY <1>4, ElementOfSeq
    <3> QED
      BY <2>3, <2>6, <3>1, LenProperties
  <2>9. ~ (x + y <= c)
    BY <1>3, <2>2, <2>7, Zenon
  <2>10. x \in Nat /\ x <= c /\ x # c
    BY <1>3, <1>5, <1>6, <2>6, Zenon
  <2>11. c - x \in 1..(y - 1)
    BY <2>8, <2>9, <2>10
  <2> QED
    BY <2>2, <2>6, <2>11, Zenon
<1> QED
  BY <1>1, <1>3, <1>5, <1>6, Zenon DEF Stops

\* What a read does to the packets in flight
ReadTo(wire, h, ss, n, w) ==
    /\ wire = h[Len(flight)] /\ Wires(h, ss, num, flight) /\ n \in Nat \ {0}
    /\ cut + n <= Len(wire) /\ Stops(h, ss, flight, w, cut + n)
    /\ num' = num /\ flight' = SubSeq(flight, w + 1, Len(flight))
    /\ cut' = cut + n - Len(h[w])
    /\ \E behind \in {0, End} :
          LET scan == Extract(Unstuff(SubSeq(wire, cut + 1, cut + n)), behind)
          IN handled' = scan.found /\ outside' = scan.outside /\ beyond' = scan.beyond

\* A read takes the frames that end by its last byte off the wire.
LEMMA ReadsTo ==
    ASSUME ReadInv, Reads
    PROVE  \E wire, h, ss, n, w : ReadTo(wire, h, ss, n, w)
<1>0. num \in Addresses /\ flight \in Seq(Packets) /\ cut \in Nat
  BY Zenon DEF ReadInv
<1>1. PICK wire : wire = Wire(flight)
  OBVIOUS
<1>2. PICK n \in 1..MaxRead : cut + n <= Len(wire) /\ Read(wire, n)
  BY <1>1, Zenon DEF Reads
<1>3. n \in Nat \ {0} /\ cut + n \in Nat
  <2>1. MaxRead \in 1..100
    BY FramingAssumption DEF FramingAssumption
  <2> QED
    BY <1>0, <2>1
<1>4. PICK h, ss : Wires(h, ss, num, flight) /\ WireOf(num, flight) = h[Len(flight)]
  <2>1. \E ss, h : Wires(h, ss, num, flight) /\ WireOf(num, flight) = h[Len(flight)]
    BY <1>0, WireIs
  <2> QED
    BY <2>1, Zenon
<1>5. wire = h[Len(flight)]
  BY <1>1, <1>4, Zenon DEF Wire, WireOf
<1>6. PICK w : w = WholeIn(cut + n)
  OBVIOUS
<1>7. Stops(h, ss, flight, w, cut + n)
  <2>1. PICK c \in Nat : c = cut + n
    BY <1>3
  <2>2. c <= Len(h[Len(flight)]) /\ w = WholeIn(c)
    BY <1>2, <1>5, <1>6, <2>1, Zenon
  <2>3. Stops(h, ss, flight, w, c)
    BY <1>4, <2>2, StopIs
  <2> QED
    BY <2>1, <2>3, Zenon
<1>8. /\ num' = num /\ flight' = SubSeq(flight, w + 1, Len(flight))
      /\ cut' = cut + n - Len(Wire(SubSeq(flight, 1, w)))
      /\ \E behind \in {0, End} :
            LET scan == Extract(Unstuff(SubSeq(wire, cut + 1, cut + n)), behind)
            IN handled' = scan.found /\ outside' = scan.outside /\ beyond' = scan.beyond
  BY <1>2, <1>6, Zenon DEF Read
<1>9. Wire(SubSeq(flight, 1, w)) = h[w]
  <2>1. w \in 0..Len(flight)
    BY <1>7, Zenon DEF Stops
  <2>2. WireOf(num, SubSeq(flight, 1, w)) = h[w]
    BY <1>0, <1>4, <2>1, WirePart
  <2> QED
    BY <2>2, Zenon DEF Wire, WireOf
<1>10. ReadTo(wire, h, ss, n, w)
  BY <1>2, <1>3, <1>4, <1>5, <1>7, <1>8, <1>9, Zenon DEF ReadTo
<1> QED
  BY <1>10, Zenon

\* What is on the wire before a read
LEMMA SentSeq ==
    ASSUME ReadInv, NEW wire, NEW h, NEW ss, NEW n, NEW w, ReadTo(wire, h, ss, n, w)
    PROVE  wire \in Seq(Nat) /\ Len(wire) \in Nat
<1>0. wire = h[Len(flight)] /\ Wires(h, ss, num, flight) /\ flight \in Seq(Packets)
  BY Zenon DEF ReadTo, ReadInv
<1>1. Len(flight) \in Nat
  BY <1>0, LenProperties
<1>2. ss \in Seq(Seq(Nat)) /\ Len(ss) = Len(flight) /\ Joined(h, ss, Nat)
  BY <1>0, Zenon DEF Wires
<1>3. PICK b \in 0..Len(ss) : b = Len(flight)
  BY <1>1, <1>2
<1>4. b \in 0..b
  BY <1>1, <1>3
<1>5. h[b] \in Seq(Nat) /\ Len(h[b]) \in Nat
  BY <1>2, <1>4, JoinedBegins
<1> QED
  BY <1>0, <1>3, <1>5, Zenon

\* What is left in flight
LEMMA LeftIn ==
    ASSUME ReadInv, NEW wire, NEW h, NEW ss, NEW n, NEW w, ReadTo(wire, h, ss, n, w)
    PROVE  /\ flight' \in Seq(Packets) /\ Len(flight') = Len(flight) - w /\ cut' \in Nat
           /\ \A j \in 1..(Len(flight) - w) : flight'[j] = flight[w + j]
           /\ cut' # 0 => /\ w + 1 \in 1..Len(flight) /\ 1 \in 1..Len(flight')
                          /\ cut' < Len(ss[w + 1]) /\ flight'[1] = flight[w + 1]
                          /\ ss[w + 1] = ServerFrame[num][flight[w + 1]]
<1>0. num \in Addresses /\ flight \in Seq(Packets) /\ cut \in Nat /\ n \in Nat
  <2>1. n \in Nat \ {0}
    BY Zenon DEF ReadTo
  <2> QED
    BY <2>1 DEF ReadInv
<1>1. PICK L, x, c : L = Len(flight) /\ x = Len(h[w]) /\ c = cut + n
  OBVIOUS
<1>2. L \in Nat /\ c \in Nat
  BY <1>0, <1>1, LenProperties
<1>3. /\ w \in 0..L /\ x \in Nat /\ x <= c
      /\ c # x => w + 1 \in 1..L /\ c - x \in 1..(Len(ss[w + 1]) - 1)
  <2>1. Stops(h, ss, flight, w, c)
    BY <1>1, Zenon DEF ReadTo
  <2> QED
    BY <1>1, <2>1, Zenon DEF Stops
<1>4. cut' = c - x /\ flight' = SubSeq(flight, w + 1, L)
  <2>1. cut' = cut + n - x /\ flight' = SubSeq(flight, w + 1, L)
    BY <1>1, Zenon DEF ReadTo
  <2> QED
    BY <1>0, <1>1, <1>3, <2>1
<1>5. /\ flight' \in Seq(Packets) /\ Len(flight') = L - w
      /\ \A j \in 1..(L - w) : flight'[j] = flight[w + j]
  <2>1. PICK j \in 0..Len(flight) : j = L
    BY <1>1, <1>2
  <2>2. PICK o \in 0..j : o = w
    BY <1>3, <2>1
  <2>3. /\ SubSeq(flight, o + 1, j) \in Seq(Packets) /\ Len(SubSeq(flight, o + 1, j)) = j - o
        /\ \A e \in 1..(j - o) : SubSeq(flight, o + 1, j)[e] = flight[o + e]
    BY <1>0, PartAt
  <2> QED
    BY <1>4, <2>1, <2>2, <2>3, Zenon
<1>6. cut' \in Nat
  BY <1>2, <1>3, <1>4
<1>7. ASSUME cut' # 0
      PROVE  /\ w + 1 \in 1..L /\ 1 \in 1..Len(flight') /\ cut' < Len(ss[w + 1])
             /\ flight'[1] = flight[w + 1] /\ ss[w + 1] = ServerFrame[num][flight[w + 1]]
  <2>1. c # x
    BY <1>2, <1>3, <1>4, <1>7
  <2>2. w + 1 \in 1..L /\ c - x \in 1..(Len(ss[w + 1]) - 1)
    BY <1>3, <2>1, Zenon
  <2>3. ss \in Seq(Seq(Nat)) /\ Len(ss) = L /\ ss[w + 1] = ServerFrame[num][flight[w + 1]]
    <3>1. Wires(h, ss, num, flight)
      BY Zenon DEF ReadTo
    <3> QED
      BY <1>1, <2>2, <3>1, Zenon DEF Wires
  <2>4. Len(ss[w + 1]) \in Nat
    <3>1. w + 1 \in 1..Len(ss)
      BY <2>2, <2>3, Zenon
    <3>2. ss[w + 1] \in Seq(Nat)
      BY <2>3, <3>1, ElementOfSeq
    <3> QED
      BY <3>2, LenProperties
  <2>5. cut' < Len(ss[w + 1])
    BY <1>2, <1>3, <1>4, <2>2, <2>4
  <2>6. 1 \in 1..(L - w) /\ L - w \in Nat
    BY <1>2, <1>3, <2>2
  <2> QED
    BY <1>5, <2>2, <2>3, <2>5, <2>6, Zenon
<1> QED
  BY <1>1, <1>5, <1>6, <1>7, Zenon

\* A clear packet has no mark in its body, and the server's CRC is accepted.
LEMMA ClearIs ==
    ASSUME NEW p, Clear(p)
    PROVE  ClearBody(ServerBody[num][p])
BY DEF Clear, ClearBody, NoMarks, Begin, Start, End

\* A read that reaches the end of a cut frame goes on with whole ones.
LEMMA ReadingIs ==
    ASSUME ReadInv, NEW wire, NEW h, NEW ss, NEW n, NEW w, ReadTo(wire, h, ss, n, w),
           NEW i, i = IF cut = 0 THEN 0 ELSE 1, i <= w
    PROVE  Reading(wire, h, ss, num, flight, i, w, cut, cut + n)
<1>0. num \in Addresses /\ flight \in Seq(Packets) /\ cut \in Nat
  BY Zenon DEF ReadInv
<1>1. /\ wire = h[Len(flight)] /\ Wires(h, ss, num, flight) /\ n \in Nat \ {0}
      /\ cut + n <= Len(wire) /\ Stops(h, ss, flight, w, cut + n)
  BY Zenon DEF ReadTo
<1>2. Len(flight) \in Nat
  BY <1>0, LenProperties
<1>3. w \in 0..Len(flight) /\ Len(h[w]) \in Nat /\ Len(h[w]) <= cut + n
  BY <1>1, Zenon DEF Stops
<1>4. i \in 0..w
  BY <1>2, <1>3
<1>5. ss \in Seq(Seq(Nat)) /\ Len(ss) = Len(flight) /\ Joined(h, ss, Nat)
      /\ \A j \in 1..Len(flight) : ss[j] = ServerFrame[num][flight[j]]
  BY <1>1, Zenon DEF Wires
<1>6. Len(wire) \in Nat
  BY SentSeq
<1>7. cut + n \in Len(h[w])..Len(wire)
  <2>1. PICK x, y : x = Len(h[w]) /\ y = Len(wire)
    OBVIOUS
  <2>2. x \in Nat /\ y \in Nat /\ x <= cut + n /\ cut + n <= y /\ cut \in Nat /\ n \in Nat
    BY <1>0, <1>1, <1>3, <1>6, <2>1
  <2>3. cut + n \in x..y
    BY <2>2
  <2> QED
    BY <2>1, <2>3, Zenon
<1>8. cut \in 0..Len(h[i])
  <2>1. h[0] = <<>> /\ Len(<<>>) = 0
    BY <1>5, EmptySeq DEF Joined
  <2>2. CASE cut = 0
    <3>1. i = 0 /\ 0 \in 0..0
      BY <2>2
    <3> QED
      BY <2>1, <2>2, <3>1, Zenon
  <2>3. CASE cut # 0
    <3>1. i = 1 /\ 1 \in 1..Len(flight) /\ cut < Len(ServerFrame[num][flight[1]])
      BY <2>3 DEF ReadInv
    <3>2. PICK k \in 1..Len(ss) : k = 1
      BY <1>5, <3>1
    <3>3. Len(h[k]) = Len(h[k - 1]) + Len(ss[k])
      BY <1>5, PieceOf
    <3>4. k - 1 = 0
      BY <3>2
    <3>5. ss[1] \in Seq(Nat)
      BY <1>5, <3>2, ElementOfSeq
    <3>6. Len(ss[1]) \in Nat
      BY <3>5, LenProperties
    <3>7. Len(h[1]) = 0 + Len(ss[1]) /\ cut < Len(ss[1])
      BY <1>5, <2>1, <3>1, <3>2, <3>3, <3>4, Zenon
    <3>8. PICK x : x = Len(ss[1])
      OBVIOUS
    <3>9. cut \in 0..(0 + x)
      BY <1>0, <3>6, <3>7, <3>8
    <3> QED
      BY <3>1, <3>7, <3>8, <3>9, Zenon
  <2> QED
    BY <2>2, <2>3
<1> QED
  BY <1>0, <1>1, <1>3, <1>4, <1>7, <1>8, Zenon DEF Reading

\* A clear packet that comes whole is handled, if the search stays in the packets.
LEMMA ReadFinds ==
    ASSUME ReadInv, NEW wire, NEW h, NEW ss, NEW n, NEW w, ReadTo(wire, h, ss, n, w),
           NEW i, i = IF cut = 0 THEN 0 ELSE 1,
           \A m \in (i + 1)..w : Clear(flight[m]), ~ outside', ~ beyond'
    PROVE  Infix(SubSeq(flight, i + 1, w), handled')
<1>0. PICK behind, scan :
         /\ scan = Extract(Unstuff(SubSeq(wire, cut + 1, cut + n)), behind)
         /\ handled' = scan.found /\ outside' = scan.outside /\ beyond' = scan.beyond
  BY Zenon DEF ReadTo
<1>1. \A m \in (i + 1)..w : ClearBody(ServerBody[num][flight[m]])
  BY ClearIs, Zenon
<1>2. CASE i <= w
  <2>1. PICK c : c = cut + n
    OBVIOUS
  <2>2. Reading(wire, h, ss, num, flight, i, w, cut, c)
    BY <1>2, <2>1, ReadingIs
  <2>3. scan = Extract(Unstuff(SubSeq(wire, cut + 1, c)), behind) /\ ~ scan.outside /\ ~ scan.beyond
    BY <1>0, <2>1, Zenon
  <2>4. Infix(SubSeq(flight, i + 1, w), scan.found)
    BY <1>1, <2>2, <2>3, WholeFound
  <2> QED
    BY <1>0, <2>4, Zenon
<1>3. CASE ~ (i <= w)
  <2>0. flight \in Seq(Packets) /\ Len(flight) \in Nat /\ w \in 0..Len(flight)
    <3>1. flight \in Seq(Packets)
      BY Zenon DEF ReadInv
    <3>2. w \in 0..Len(flight)
      BY Zenon DEF ReadTo, Stops
    <3> QED
      BY <3>1, <3>2, LenProperties
  <2>1. i = 1 /\ w = 0 /\ cut # 0
    BY <1>3, <2>0
  <2>2. SubSeq(flight, i + 1, w) = <<>>
    <3>1. SubSeq(flight, 2, 0) = <<>>
      BY <2>0
    <3> QED
      BY <2>1, <3>1
  <2>3. Len(handled') \in Nat /\ handled' \in Seq(Found)
    <3>1. Unstuff(SubSeq(wire, cut + 1, cut + n)) \in Seq(Nat)
      <4>1. PICK c : c = cut + n
        OBVIOUS
      <4>3. SubSeq(wire, cut + 1, c) \in Seq(Nat)
        <5>1. wire \in Seq(Nat) /\ Len(wire) \in Nat
          BY SentSeq
        <5>2. c \in 0..Len(wire) /\ cut \in 0..c
          <6>1. cut \in Nat /\ n \in Nat \ {0} /\ c <= Len(wire)
            BY <4>1, Zenon DEF ReadInv, ReadTo
          <6> QED
            BY <4>1, <5>1, <6>1
        <5> QED
          BY <5>1, <5>2, PartAt
      <4> QED
        BY <4>1, <4>3, UnstuffSeq
    <3>2. PICK bytes : bytes = Unstuff(SubSeq(wire, cut + 1, cut + n))
      OBVIOUS
    <3>3. PICK after : Scans(after, bytes, behind) /\ Extract(bytes, behind) = after[Len(bytes)]
      BY <3>1, <3>2, ExtractIs
    <3>4. Len(bytes) \in 0..Len(bytes)
      BY <3>1, <3>2, LenProperties
    <3>5. after[Len(bytes)] \in ScanOf(Len(bytes))
      BY <3>3, <3>4 DEF Scans
    <3>6. scan.found \in Seq(Found)
      BY <1>0, <3>2, <3>3, <3>5 DEF ScanOf
    <3> QED
      BY <1>0, <3>6, LenProperties
  <2>4. <<>> \in Seq(Found) /\ <<>> \o handled' = handled' /\ (<<>> \o <<>>) \o handled' = handled'
    BY <2>3, EmptySeq, ConcatEmptySeq
  <2>5. Infix(<<>>, (<<>> \o <<>>) \o handled')
    BY <2>3, <2>4, InfixIs
  <2> QED
    BY <2>2, <2>4, <2>5, Zenon
<1> QED
  BY <1>2, <1>3

\* What is on the wire after a read begins with the frame that was cut.
LEMMA LeftWire ==
    ASSUME ReadInv, NEW wire, NEW h, NEW ss, NEW n, NEW w, ReadTo(wire, h, ss, n, w), cut' # 0,
           NEW f, f = ss[w + 1]
    PROVE  /\ \A e \in 1..Len(f) : WireOf(num', flight')[e] = f[e]
           /\ \A e \in 1..Len(f) : wire[Len(h[w]) + e] = f[e]
<1>0. num \in Addresses /\ num' = num /\ flight' \in Seq(Packets)
  <2>1. num \in Addresses /\ num' = num
    BY Zenon DEF ReadInv, ReadTo
  <2>2. flight' \in Seq(Packets)
    BY LeftIn
  <2> QED
    BY <2>1, <2>2
<1>1. /\ w + 1 \in 1..Len(flight) /\ 1 \in 1..Len(flight') /\ flight'[1] = flight[w + 1]
      /\ f = ServerFrame[num][flight[w + 1]] /\ w \in Nat
  <2>1. cut' # 0 => /\ w + 1 \in 1..Len(flight) /\ 1 \in 1..Len(flight')
                    /\ cut' < Len(ss[w + 1]) /\ flight'[1] = flight[w + 1]
                    /\ ss[w + 1] = ServerFrame[num][flight[w + 1]]
    BY LeftIn
  <2>2. w \in 0..Len(flight) /\ flight \in Seq(Packets)
    BY Zenon DEF ReadTo, Stops, ReadInv
  <2>3. w \in Nat
    BY <2>2, LenProperties
  <2> QED
    BY <2>1, <2>3, Zenon
<1>2. PICK qs : qs = flight'
  OBVIOUS
<1>3. PICK tt, g : Wires(g, tt, num, qs) /\ WireOf(num, qs) = g[Len(qs)]
  BY <1>0, <1>2, WireIs
<1>4. /\ tt \in Seq(Seq(Nat)) /\ Len(tt) = Len(qs) /\ Joined(g, tt, Nat)
      /\ \A j \in 1..Len(qs) : tt[j] = ServerFrame[num][qs[j]]
  BY <1>3, Zenon DEF Wires
<1>5. \A e \in 1..Len(f) : WireOf(num', flight')[e] = f[e]
  <2> SUFFICES ASSUME NEW e \in 1..Len(f) PROVE WireOf(num', flight')[e] = f[e]
    OBVIOUS
  <2>1. PICK k \in 1..Len(tt) : k = 1
    BY <1>1, <1>2, <1>4
  <2>2. tt[k] = f
    BY <1>1, <1>2, <1>4, <2>1, Zenon
  <2>3. PICK c \in 1..Len(tt[k]) : c = e
    BY <2>2
  <2>4. g[Len(tt)][Len(g[k - 1]) + c] = tt[k][c]
    BY <1>4, JoinedHolds, SMTT(60)
  <2>5. k - 1 = 0
    BY <2>1
  <2>6. g[0] = <<>> /\ Len(<<>>) = 0
    BY <1>4, EmptySeq DEF Joined
  <2>7. 0 + c = c
    <3>1. ASSUME NEW m, c \in 1..m PROVE 0 + c = c
      BY <3>1
    <3> QED
      BY <3>1, Zenon
  <2>8. g[Len(qs)][e] = f[e]
    BY <1>4, <2>2, <2>3, <2>4, <2>5, <2>6, <2>7, Zenon
  <2> QED
    BY <1>0, <1>2, <1>3, <2>8, Zenon
<1>6. \A e \in 1..Len(f) : wire[Len(h[w]) + e] = f[e]
  <2>1. Wires(h, ss, num, flight) /\ wire = h[Len(flight)]
    BY Zenon DEF ReadTo
  <2>2. PICK a, ps : a = num /\ ps = flight
    OBVIOUS
  <2>3. Wires(h, ss, a, ps) /\ w + 1 \in 1..Len(ps) /\ w \in Nat
    BY <1>1, <2>1, <2>2, Zenon
  <2>4. \A e \in 1..Len(ss[w + 1]) : h[Len(ps)][Len(h[w]) + e] = ss[w + 1][e]
    BY <2>3, FrameAt
  <2> QED
    BY <2>1, <2>2, <2>4, Zenon
<1> QED
  BY <1>5, <1>6

\* A read that does not end in a 17 ends in a frame that may be cut anywhere else.
LEMMA EndingIs ==
    ASSUME ReadInv, NEW wire, NEW h, NEW ss, NEW n, NEW w, ReadTo(wire, h, ss, n, w), ~ EndsInBegin',
           cut' # 0 => Clear(flight[w + 1])
    PROVE  Ending(wire, h, ss, num, flight, w, cut + n)
<1>0. cut \in Nat /\ n \in Nat
  <2>1. cut \in Nat /\ n \in Nat \ {0}
    BY Zenon DEF ReadInv, ReadTo
  <2> QED
    BY <2>1
<1>1. PICK c, l, d : c = cut + n /\ l = Len(h[w]) /\ d = c - l
  OBVIOUS
<1>2. l \in Nat /\ c \in Nat /\ l <= c /\ cut' = d
  <2>1. l \in Nat /\ l <= c /\ cut' = cut + n - l
    BY <1>1, Zenon DEF ReadTo, Stops
  <2> QED
    BY <1>0, <1>1, <2>1
<1>3. CASE d = 0
  <2>1. c = l
    BY <1>1, <1>2, <1>3
  <2> QED
    BY <1>1, <2>1, Zenon DEF Ending
<1>4. CASE d # 0
  <2>1. PICK f : f = ss[w + 1]
    OBVIOUS
  <2>2. cut' # 0 /\ c # l
    BY <1>1, <1>2, <1>4
  <2>3. w + 1 \in 1..Len(flight) /\ d \in 1..(Len(f) - 1)
    <3>1. Stops(h, ss, flight, w, c)
      BY <1>1, Zenon DEF ReadTo
    <3> QED
      BY <1>1, <2>1, <2>2, <3>1, Zenon DEF Stops
  <2>4. NoMarks(ServerBody[num][flight[w + 1]])
    BY <2>2, ClearIs, Zenon DEF ClearBody
  <2>5. /\ \A e \in 1..Len(f) : WireOf(num', flight')[e] = f[e]
        /\ \A e \in 1..Len(f) : wire[l + e] = f[e]
    <3>1. /\ \A e \in 1..Len(f) : WireOf(num', flight')[e] = f[e]
          /\ \A e \in 1..Len(f) : wire[Len(h[w]) + e] = f[e]
      BY <2>1, <2>2, LeftWire
    <3> QED
      BY <1>1, <3>1, Zenon
  <2>6. Len(f) \in Nat
    <3>1. w + 1 \in 1..Len(ss) /\ ss \in Seq(Seq(Nat))
      BY <2>3, Zenon DEF ReadTo, Wires
    <3>2. ss[w + 1] \in Seq(Nat)
      BY <3>1, ElementOfSeq
    <3> QED
      BY <2>1, <3>2, LenProperties
  <2>7. /\ d \in 1..Len(f) /\ l + d = c /\ d > 0
        /\ d > 1 => d - 1 \in 1..Len(f) /\ l + (d - 1) = c - 1
    BY <1>1, <1>2, <2>3, <2>6, SMTT(60)
  <2>8. f[d] # 23 /\ ~ (d > 1 /\ f[d - 1] = 23 /\ f[d] = 18)
    <3>1. ~ (cut' > 0 /\ (\/ WireOf(num', flight')[cut'] = 23
                          \/ cut' > 1 /\ WireOf(num', flight')[cut' - 1] = 23
                             /\ WireOf(num', flight')[cut'] = 18))
      BY Zenon DEF EndsInBegin, Wire, WireOf, Begin, Same
    <3>2. ~ (d > 0 /\ (f[d] = 23 \/ (d > 1 /\ f[d - 1] = 23 /\ f[d] = 18)))
      BY <1>2, <2>5, <2>7, <3>1, Zenon
    <3> QED
      BY <2>7, <3>2, Zenon
  <2>9. wire[c] # 23 /\ ~ (d > 1 /\ wire[c - 1] = 23 /\ wire[c] = 18)
    BY <2>5, <2>7, <2>8, Zenon
  <2> QED
    BY <1>1, <2>1, <2>3, <2>4, <2>9, Zenon DEF Ending
<1> QED
  BY <1>3, <1>4

\* A read that begins with a frame handles just the packets that are whole.
LEMMA ReadFindsJust ==
    ASSUME ReadInv, NEW wire, NEW h, NEW ss, NEW n, NEW w, ReadTo(wire, h, ss, n, w),
           cut = 0, ~ EndsInBegin', \A m \in 1..w : Clear(flight[m]), cut' # 0 => Clear(flight[w + 1])
    PROVE  handled' = SubSeq(flight, 1, w) /\ ~ outside' /\ ~ beyond'
<1>0. PICK behind, scan :
         /\ scan = Extract(Unstuff(SubSeq(wire, cut + 1, cut + n)), behind)
         /\ handled' = scan.found /\ outside' = scan.outside /\ beyond' = scan.beyond
  BY Zenon DEF ReadTo
<1>1. PICK c : c = cut + n
  OBVIOUS
<1>2. Reading(wire, h, ss, num, flight, 0, w, 0, c)
  <2>1. PICK i : i = IF cut = 0 THEN 0 ELSE 1
    OBVIOUS
  <2>2. flight \in Seq(Packets) /\ w \in 0..Len(flight)
    BY Zenon DEF ReadInv, ReadTo, Stops
  <2>3. i = 0 /\ i <= w
    BY <2>1, <2>2, LenProperties
  <2>4. Reading(wire, h, ss, num, flight, i, w, cut, cut + n)
    BY <2>1, <2>3, ReadingIs
  <2> QED
    BY <1>1, <2>3, <2>4, Zenon
<1>3. Ending(wire, h, ss, num, flight, w, c)
  <2>1. Ending(wire, h, ss, num, flight, w, cut + n)
    BY EndingIs
  <2> QED
    BY <1>1, <2>1, Zenon
<1>4. scan = Extract(Unstuff(SubSeq(wire, 0 + 1, c)), behind)
  BY <1>0, <1>1, Zenon
<1>5. \A m \in (0 + 1)..w : ClearBody(ServerBody[num][flight[m]])
  <2>1. 0 + 1 = 1
    OBVIOUS
  <2> QED
    BY <2>1, ClearIs, Zenon
<1>6. ~ scan.outside /\ ~ scan.beyond /\ scan.found = SubSeq(flight, 0 + 1, w)
  BY <1>2, <1>3, <1>4, <1>5, JustWholeFound
<1>7. 0 + 1 = 1
  OBVIOUS
<1> QED
  BY <1>0, <1>6, <1>7, Zenon

\* Nothing is in flight at first.
LEMMA ReadInvInit == FramingInit => ReadInv
<1> SUFFICES ASSUME FramingInit PROVE ReadInv
  OBVIOUS
<1>1. num \in Addresses /\ flight = <<>> /\ cut = 0
  BY DEF FramingInit
<1> QED
  BY <1>1, EmptySeq DEF ReadInv

\* Sending and reading keep ReadInv.
LEMMA ReadInvStep == ReadInv /\ [FramingNext]_vars => ReadInv'
<1> SUFFICES ASSUME ReadInv, [FramingNext]_vars PROVE ReadInv'
  OBVIOUS
<1>1. ASSUME UNCHANGED <<num, flight, cut>> PROVE ReadInv'
  BY <1>1, Zenon DEF ReadInv
<1>2. ASSUME NEW p \in Confirmation \cup Text, ServerSends(p) PROVE ReadInv'
  <2>1. /\ num \in Addresses /\ flight \in Seq(Packets) /\ cut \in Nat
        /\ cut # 0 => 1 \in 1..Len(flight) /\ cut < Len(ServerFrame[num][flight[1]])
    BY Zenon DEF ReadInv
  <2>2. num' = num /\ cut' = cut /\ flight' = Append(flight, p) /\ p \in Packets
    BY <1>2, Zenon DEF ServerSends, Packets
  <2>3. /\ flight' \in Seq(Packets) /\ Len(flight') = Len(flight) + 1 /\ Len(flight) \in Nat
        /\ \A i \in 1..Len(flight) : flight'[i] = flight[i]
    BY <2>1, <2>2, AppendProperties
  <2>4. cut' # 0 => 1 \in 1..Len(flight') /\ flight'[1] = flight[1]
    BY <2>1, <2>2, <2>3
  <2> QED
    BY <2>1, <2>2, <2>3, <2>4, Zenon DEF ReadInv
<1>3. CASE Reads
  <2>1. PICK wire, h, ss, n, w : ReadTo(wire, h, ss, n, w)
    BY <1>3, ReadsTo, Zenon
  <2>2. /\ flight' \in Seq(Packets) /\ cut' \in Nat
        /\ cut' # 0 => /\ 1 \in 1..Len(flight') /\ cut' < Len(ss[w + 1])
                       /\ flight'[1] = flight[w + 1] /\ ss[w + 1] = ServerFrame[num][flight[w + 1]]
    BY <2>1, LeftIn
  <2>3. num' = num /\ num \in Addresses
    BY <2>1, Zenon DEF ReadTo, ReadInv
  <2> QED
    BY <2>2, <2>3, Zenon DEF ReadInv
<1>4. CASE SendsEvents
  BY <1>1, <1>4, Zenon DEF SendsEvents, Sends
<1>5. CASE SendsState
  BY <1>1, <1>5, Zenon DEF SendsState, Sends
<1>6. CASE Delivers
  BY <1>1, <1>6, Zenon DEF Delivers
<1>7. CASE UNCHANGED vars
  BY <1>1, <1>7, Zenon DEF vars
<1> QED
  BY <1>2, <1>3, <1>4, <1>5, <1>6, <1>7, Zenon DEF FramingNext

\* A step that takes nothing of what is in flight
LEMMA NothingRead ==
    ASSUME ReadInv, cut' = cut, flight' = flight \/ \E p : flight' = Append(flight, p)
    PROVE  ~ (cut' # cut \/ Len(flight') < Len(flight))
<1>1. flight \in Seq(Packets)
  BY Zenon DEF ReadInv
<1>2. Len(flight) \in Nat
  BY <1>1, LenProperties
<1>3. CASE flight' = flight
  BY <1>2, <1>3
<1>4. ASSUME NEW p, flight' = Append(flight, p) PROVE Len(flight') = Len(flight) + 1
  <2>1. flight \in Seq(Packets \cup {p})
    <3>1. flight \in [1..Len(flight) -> Packets \cup {p}]
      BY <1>1, LenProperties
    <3> QED
      BY <1>2, <3>1, FunctionIsSeq
  <2> QED
    BY <1>4, <2>1, AppendProperties
<1> QED
  BY <1>2, <1>3, <1>4

\* Whatever the server sends, and however the network cuts it into reads: a
\* packet that came whole is handled, once and in its turn, unless what is
\* left of a cut one leads the search out of the packets (ExtractPakets and
\* CheckTypePacket, events.c:258-376; socket_th_read, socket_th.c:208-217).
THEOREM PacketsAreHandled == FramingSpec => WholePacketsAreHandled
<1> DEFINE Taken == cut' # cut \/ Len(flight') < Len(flight)
           gone == Len(flight) - Len(flight')
           from == IF cut = 0 THEN 1 ELSE 2
           whole == SubSeq(flight, from, gone)
           touched == SubSeq(flight, 1, IF cut' = 0 THEN gone ELSE gone + 1)
           clear(s) == \A i \in 1..Len(s) : Clear(s[i])
           Handles == Taken =>
              /\ clear(whole) /\ ~ outside' /\ ~ beyond' => Infix(whole, handled')
              /\ clear(touched) /\ cut = 0 /\ ~ EndsInBegin' =>
                    handled' = whole /\ ~ outside' /\ ~ beyond'
<1>1. ReadInv /\ [FramingNext]_vars => [Handles]_vars
  <2> SUFFICES ASSUME ReadInv, FramingNext, Taken PROVE Handles
    BY Zenon
  <2>1. ASSUME UNCHANGED <<flight, cut>> PROVE FALSE
    <3>1. cut' = cut /\ flight' = flight
      BY <2>1
    <3> QED
      BY <3>1, NothingRead
  <2>2. ASSUME NEW p \in Confirmation \cup Text, ServerSends(p) PROVE FALSE
    <3>1. cut' = cut /\ flight' = Append(flight, p)
      BY <2>2, Zenon DEF ServerSends
    <3> QED
      BY <3>1, NothingRead
  <2>3. CASE Reads
    <3>1. PICK wire, h, ss, n, w : ReadTo(wire, h, ss, n, w)
      BY <2>3, ReadsTo, Zenon
    <3>2. PICK i : i = IF cut = 0 THEN 0 ELSE 1
      OBVIOUS
    <3>3. flight \in Seq(Packets) /\ Len(flight) \in Nat /\ w \in 0..Len(flight)
      <4>1. flight \in Seq(Packets) /\ w \in 0..Len(flight)
        BY <3>1, Zenon DEF ReadInv, ReadTo, Stops
      <4> QED
        BY <4>1, LenProperties
    <3>4. gone = w /\ from = i + 1
      <4>1. Len(flight') = Len(flight) - w
        BY <3>1, LeftIn
      <4> QED
        BY <3>2, <3>3, <4>1
    <3>5. whole = SubSeq(flight, i + 1, w)
      BY <3>4, Zenon
    <3>6. touched = SubSeq(flight, 1, IF cut' = 0 THEN w ELSE w + 1)
      BY <3>4, Zenon
    <3> HIDE DEF gone, from, whole, touched, Taken
    <3>7. ASSUME clear(whole), ~ outside', ~ beyond' PROVE Infix(whole, handled')
      <4>1. ASSUME NEW m \in (i + 1)..w PROVE Clear(flight[m])
        <5>1. PICK j \in 0..Len(flight) : j = w
          BY <3>3
        <5>2. PICK o \in 0..j : o = i
          BY <3>2, <3>3, <5>1
        <5>3. /\ Len(SubSeq(flight, o + 1, j)) = j - o
              /\ \A e \in 1..(j - o) : SubSeq(flight, o + 1, j)[e] = flight[o + e]
          BY <3>3, PartAt
        <5>4. PICK e \in 1..(j - o) : o + e = m
          <6>1. m - o \in 1..(j - o) /\ o + (m - o) = m
            BY <3>3, <5>1, <5>2
          <6> QED
            BY <6>1
        <5>5. whole = SubSeq(flight, o + 1, j)
          BY <3>5, <5>1, <5>2, Zenon
        <5>6. Len(whole) = j - o /\ whole[e] = flight[m]
          BY <5>3, <5>4, <5>5, Zenon
        <5>7. Clear(whole[e])
          BY <3>7, <5>6, Zenon
        <5> QED
          BY <5>6, <5>7, Zenon
      <4>2. Infix(SubSeq(flight, i + 1, w), handled')
        BY <3>1, <3>2, <3>7, <4>1, ReadFinds
      <4> QED
        BY <3>5, <4>2, Zenon
    <3>8. ASSUME clear(touched), cut = 0, ~ EndsInBegin'
          PROVE  handled' = whole /\ ~ outside' /\ ~ beyond'
      <4>1. PICK k : k = IF cut' = 0 THEN w ELSE w + 1
        OBVIOUS
      <4>2. k \in 0..Len(flight) /\ w <= k /\ (cut' # 0 => k = w + 1 /\ w + 1 \in 1..k)
        <5>1. cut' # 0 => w + 1 \in 1..Len(flight)
          BY <3>1, LeftIn
        <5> QED
          BY <3>3, <4>1, <5>1
      <4>3. Len(touched) = k /\ \A m \in 1..k : touched[m] = flight[m]
        <5>1. /\ Len(SubSeq(flight, 1, k)) = k
              /\ \A m \in 1..k : SubSeq(flight, 1, k)[m] = flight[m]
          BY <3>3, <4>2, FirstPart
        <5>2. touched = SubSeq(flight, 1, k)
          BY <3>6, <4>1, Zenon
        <5> QED
          BY <5>1, <5>2, Zenon
      <4>4. \A m \in 1..k : Clear(flight[m])
        BY <3>8, <4>3, Zenon
      <4>5. (\A m \in 1..w : Clear(flight[m])) /\ (cut' # 0 => Clear(flight[w + 1]))
        <5>1. \A m \in 1..w : m \in 1..k
          BY <3>3, <4>2
        <5> QED
          BY <4>2, <4>4, <5>1, Zenon
      <4>6. handled' = SubSeq(flight, 1, w) /\ ~ outside' /\ ~ beyond'
        BY <3>1, <3>8, <4>5, ReadFindsJust
      <4>7. i + 1 = 1
        BY <3>2, <3>8
      <4> QED
        BY <3>5, <4>6, <4>7, Zenon
    <3> QED
      BY <3>7, <3>8, Zenon
  <2>4. CASE SendsEvents
    BY <2>1, <2>4, Zenon DEF SendsEvents, Sends
  <2>5. CASE SendsState
    BY <2>1, <2>5, Zenon DEF SendsState, Sends
  <2>6. CASE Delivers
    BY <2>1, <2>6, Zenon DEF Delivers
  <2> QED
    BY <2>2, <2>3, <2>4, <2>5, <2>6, Zenon DEF FramingNext
<1> QED
  BY <1>1, ReadInvInit, ReadInvStep, PTL DEF FramingSpec, WholePacketsAreHandled

-----------------------------------------------------------------------------
(* The lengths of months and years, added up *)

\* g[y] is the sum of the sizes from a up to y - 1.
SumsOf(g, a, b, size) ==
    /\ g \in [a..b -> Nat] /\ g[a] = 0
    /\ \A y \in (a + 1)..b : y - 1 \in a..b /\ g[y] = g[y - 1] + size[y - 1]

Adds(g, a, b, size) == g = [y \in a..b |-> IF y = a THEN 0 ELSE g[y - 1] + size[y - 1]]

LEMMA SumsExist ==
    ASSUME NEW a \in Nat, NEW n \in Nat, NEW b, b = a + n, NEW size \in [a..b -> Nat]
    PROVE  \E g : Adds(g, a, b, size)
<1> DEFINE F == [k \in 1..n |-> [v \in Nat |-> v + size[a + k - 1]]]
<1>1. ASSUME NEW k \in 1..n PROVE a + k - 1 \in a..b /\ size[a + k - 1] \in Nat
  <2>1. a + k - 1 \in a..b
    OBVIOUS
  <2> QED
    BY <2>1
<1>2. F \in [1..n -> [Nat -> Nat]]
  BY <1>1
<1> HIDE DEF F
<1>3. PICK h : Recurs(h, Nat, 0, n, F)
  <2>1. 0 \in Nat
    OBVIOUS
  <2> QED
    BY <1>2, <2>1, Recursion
<1> DEFINE g == [y \in a..b |-> h[y - a]]
<1>4. ASSUME NEW y \in a..b PROVE g[y] = IF y = a THEN 0 ELSE g[y - 1] + size[y - 1]
  <2>1. CASE y = a
    <3>1. y - a = 0
      BY <2>1
    <3> QED
      BY <1>3, <2>1, <3>1 DEF Recurs
  <2>2. CASE y # a
    <3>1. PICK k : k = y - a
      OBVIOUS
    <3>2. k \in 1..n /\ k - 1 \in 0..n /\ (y - 1) - a = k - 1 /\ y - 1 \in a..b /\ a + k - 1 = y - 1
      BY <2>2, <3>1
    <3>3. h[k] = F[k][h[k - 1]] /\ h[k - 1] \in Nat
      BY <1>3, <3>2 DEF Recurs
    <3>4. h[k] = h[k - 1] + size[a + k - 1]
      BY <3>2, <3>3 DEF F
    <3>5. g[y] = h[k] /\ g[y - 1] = h[k - 1]
      BY <3>1, <3>2
    <3> QED
      BY <2>2, <3>2, <3>4, <3>5
  <2> QED
    BY <2>1, <2>2
<1>5. Adds(g, a, b, size)
  BY <1>4 DEF Adds
<1> QED
  BY <1>5

LEMMA SumsAre ==
    ASSUME NEW a \in Nat, NEW n \in Nat, NEW b, b = a + n, NEW size \in [a..b -> Nat],
           NEW g, Adds(g, a, b, size)
    PROVE  SumsOf(g, a, b, size)
<1>1. a \in a..b /\ g[a] = 0
  BY DEF Adds
<1>2. ASSUME NEW y \in (a + 1)..b
      PROVE  y - 1 \in a..b /\ g[y] = g[y - 1] + size[y - 1] /\ y \in a..b /\ size[y - 1] \in Nat
  <2>1. y \in a..b /\ y # a /\ y - 1 \in a..b
    OBVIOUS
  <2> QED
    BY <2>1 DEF Adds
<1> DEFINE P == {k \in 0..n : g[a + k] \in Nat}
<1>3. 0 \in P
  BY <1>1
<1>4. ASSUME NEW k \in 1..n, k - 1 \in P PROVE k \in P
  <2>1. PICK y : y = a + k
    OBVIOUS
  <2>2. y \in (a + 1)..b /\ a + (k - 1) = y - 1 /\ k \in 0..n
    BY <2>1
  <2>3. g[y - 1] \in Nat
    BY <1>4, <2>2
  <2>4. g[y] \in Nat
    BY <1>2, <2>2, <2>3
  <2> QED
    BY <2>1, <2>2, <2>4
<1> HIDE DEF P
<1>5. \A k \in 0..n : k \in P
  BY <1>3, <1>4, UpTo
<1>6. ASSUME NEW y \in a..b PROVE g[y] \in Nat
  <2>1. y - a \in 0..n /\ a + (y - a) = y
    OBVIOUS
  <2>2. y - a \in P
    BY <1>5, <2>1
  <2>3. g[a + (y - a)] \in Nat
    BY <2>2 DEF P
  <2> QED
    BY <2>1, <2>3
<1>7. g \in [a..b -> Nat]
  <2>1. \E v : g = [y \in a..b |-> v[y]]
    <3>1. g = [y \in a..b |-> g[y]]
      BY DEF Adds
    <3> QED
      BY <3>1
  <2> QED
    BY <1>6, <2>1
<1> QED
  BY <1>1, <1>2, <1>7 DEF SumsOf

\* The loops that take the sizes off again: w[y][days] is where they end.
TakesOff(w, a, b, size) ==
    w = [y \in a..b |-> [days \in Nat |->
            IF y < b /\ days >= size[y] THEN w[y + 1][days - size[y]] ELSE <<y, days>>]]

LEMMA TakesOffExists ==
    ASSUME NEW a \in Nat, NEW n \in Nat, NEW b, b = a + n, NEW size \in [a..b -> Nat]
    PROVE  \E w : TakesOff(w, a, b, size)
<1> DEFINE X == (a..b) \X Nat
           S == [Nat -> X]
           x == [days \in Nat |-> <<b, days>>]
           Off(y, v) == [days \in Nat |-> IF days >= size[y] THEN v[days - size[y]] ELSE <<y, days>>]
           F == [k \in 1..n |-> [v \in S |-> Off(b - k, v)]]
<1>1. x \in S
  OBVIOUS
<1>2. ASSUME NEW k \in 1..n PROVE b - k \in a..b /\ size[b - k] \in Nat
  <2>1. b - k \in a..b
    OBVIOUS
  <2> QED
    BY <2>1
<1>3. ASSUME NEW k \in 1..n, NEW v \in S PROVE Off(b - k, v) \in S
  <2>1. PICK y, z : y = b - k /\ z = size[y] /\ y \in a..b /\ z \in Nat
    BY <1>2
  <2>2. ASSUME NEW days \in Nat PROVE (IF days >= z THEN v[days - z] ELSE <<y, days>>) \in X
    <3>1. CASE days >= z
      <4>1. z \in Nat
        BY <2>1
      <4>2. days - z \in Nat
        BY <3>1, <4>1
      <4> QED
        BY <3>1, <4>2
    <3>2. CASE ~ (days >= z)
      BY <2>1, <3>2
    <3> QED
      BY <3>1, <3>2
  <2> HIDE DEF X
  <2> QED
    BY <2>1, <2>2
<1> HIDE DEF Off, S
<1>4. F \in [1..n -> [S -> S]]
  BY <1>3
<1> HIDE DEF F, x
<1>5. PICK h : Recurs(h, S, x, n, F)
  BY <1>1, <1>4, Recursion
<1> DEFINE w == [y \in a..b |-> h[b - y]]
<1>6. ASSUME NEW y \in a..b
      PROVE  w[y] = [days \in Nat |-> IF y < b /\ days >= size[y] THEN w[y + 1][days - size[y]] ELSE <<y, days>>]
  <2>1. CASE y = b
    <3>1. w[y] = h[0]
      <4>1. b - y = 0
        BY <2>1
      <4> QED
        BY <4>1
    <3>2. h[0] = [days \in Nat |-> <<b, days>>]
      BY <1>5 DEF Recurs, x
    <3>3. ~ (y < b)
      BY <2>1
    <3> HIDE DEF w
    <3> QED
      BY <2>1, <3>1, <3>2, <3>3
  <2>2. CASE y # b
    <3>1. PICK k : k = b - y
      OBVIOUS
    <3>2. k \in 1..n /\ k - 1 \in 0..n /\ b - (y + 1) = k - 1 /\ y + 1 \in a..b /\ b - k = y /\ y < b
      BY <2>2, <3>1
    <3>3. h[k] = F[k][h[k - 1]] /\ h[k - 1] \in S
      BY <1>5, <3>2 DEF Recurs
    <3>4. h[k] = Off(y, h[k - 1])
      BY <3>2, <3>3 DEF F
    <3>5. w[y] = h[k] /\ w[y + 1] = h[k - 1]
      BY <3>1, <3>2
    <3> HIDE DEF w
    <3>6. w[y] = Off(y, w[y + 1])
      BY <3>4, <3>5
    <3> QED
      BY <3>2, <3>6 DEF Off
  <2> QED
    BY <2>1, <2>2
<1>7. TakesOff(w, a, b, size)
  BY <1>6 DEF TakesOff
<1> QED
  BY <1>7

\* They end in k, with what is left of it.
EndsRight(w, g, a, b, size) ==
    \A k \in a..b : \A r \in Nat : (k < b => r < size[k]) => w[a][g[k] + r] = <<k, r>>

LEMMA TakesOffAll ==
    ASSUME NEW a \in Nat, NEW n \in Nat, NEW b, b = a + n, NEW size \in [a..b -> Nat],
           NEW w, TakesOff(w, a, b, size), NEW g, SumsOf(g, a, b, size)
    PROVE  EndsRight(w, g, a, b, size)
<1> SUFFICES ASSUME NEW k \in a..b, NEW r \in Nat, k < b => r < size[k]
             PROVE  w[a][g[k] + r] = <<k, r>>
  BY DEF EndsRight
<1> DEFINE D == g[k] + r
           m == k - a
           Q == {j \in 0..m : g[k - j] <= g[k]}
<1>1. g[k] \in Nat /\ \A y \in a..b : g[y] \in Nat /\ size[y] \in Nat
  BY DEF SumsOf
<1>2. m \in Nat /\ k - 0 = k
  OBVIOUS
<1>3. \A j \in 0..m : j \in Q
  <2>1. 0 \in Q
    <3>1. g[k - 0] <= g[k] /\ 0 \in 0..m
      BY <1>1, <1>2
    <3> QED
      BY <3>1
  <2>2. ASSUME NEW j \in 1..m, j - 1 \in Q PROVE j \in Q
    <3>1. PICK y : y = k - (j - 1)
      OBVIOUS
    <3>2. y \in (a + 1)..b /\ y - 1 = k - j /\ j \in 0..m
      BY <3>1
    <3>3. g[y] = g[y - 1] + size[y - 1] /\ y - 1 \in a..b
      BY <3>2 DEF SumsOf
    <3>4. g[y] <= g[k]
      BY <2>2, <3>1
    <3>5. g[y - 1] \in Nat /\ size[y - 1] \in Nat
      BY <1>1, <3>3
    <3>6. g[y - 1] <= g[k]
      BY <1>1, <3>3, <3>4, <3>5
    <3> QED
      BY <3>2, <3>6
  <2> HIDE DEF Q, m
  <2> QED
    BY <1>2, <2>1, <2>2, UpTo
<1>4. ASSUME NEW y \in a..k PROVE g[y] <= g[k] /\ g[y] \in Nat
  <2>1. k - y \in 0..m /\ k - (k - y) = y /\ y \in a..b
    OBVIOUS
  <2>2. k - y \in Q
    BY <1>3, <2>1
  <2>3. g[k - (k - y)] <= g[k]
    BY <2>2
  <2> QED
    BY <1>1, <2>1, <2>3
<1> DEFINE T == {j \in 0..m : w[a][D] = w[a + j][D - g[a + j]]}
<1>5. 0 \in T
  <2>1. a + 0 = a /\ 0 \in 0..m /\ D - g[a] = D
    <3>1. g[a] = 0 /\ D \in Nat
      BY <1>1 DEF SumsOf
    <3> HIDE DEF D
    <3> QED
      BY <3>1
  <2> HIDE DEF D
  <2> QED
    BY <2>1
<1>6. ASSUME NEW j \in 1..m, j - 1 \in T PROVE j \in T
  <2>1. PICK y : y = a + (j - 1)
    OBVIOUS
  <2>2. y \in a..b /\ y < b /\ y + 1 = a + j /\ y + 1 \in (a + 1)..b /\ (y + 1) - 1 = y /\ y + 1 \in a..k /\ j \in 0..m
    BY <2>1
  <2>3. w[a][D] = w[y][D - g[y]]
    BY <1>6, <2>1
  <2>4. g[y + 1] = g[y] + size[y]
    BY <2>2 DEF SumsOf
  <2>5. g[y + 1] <= g[k] /\ g[y + 1] \in Nat /\ g[y] \in Nat /\ size[y] \in Nat
    BY <1>1, <1>4, <2>2
  <2>6. D - g[y] \in Nat /\ D - g[y] >= size[y] /\ (D - g[y]) - size[y] = D - g[y + 1]
    <3>1. PICK p, q, s, u : p = g[k] /\ q = g[y] /\ s = size[y] /\ u = g[y + 1]
      OBVIOUS
    <3>2. p \in Nat /\ q \in Nat /\ s \in Nat /\ u \in Nat /\ u = q + s /\ u <= p
      BY <1>1, <2>4, <2>5, <3>1
    <3>3. (p + r) - q \in Nat /\ (p + r) - q >= s /\ ((p + r) - q) - s = (p + r) - u
      BY <3>2
    <3> QED
      BY <3>1, <3>3
  <2> HIDE DEF D
  <2>7. w[y] = [days \in Nat |-> IF y < b /\ days >= size[y] THEN w[y + 1][days - size[y]] ELSE <<y, days>>]
    BY <2>2 DEF TakesOff
  <2>8. w[y][D - g[y]] = w[y + 1][(D - g[y]) - size[y]]
    BY <2>2, <2>6, <2>7
  <2>9. w[a][D] = w[a + j][D - g[a + j]]
    BY <2>2, <2>3, <2>6, <2>8
  <2> QED
    BY <2>2, <2>9
<1> HIDE DEF T
<1>7. m \in T
  <2>1. m \in 0..m
    BY <1>2
  <2> HIDE DEF m
  <2> QED
    BY <1>2, <1>5, <1>6, <2>1, UpTo
<1>8. w[a][D] = w[k][D - g[k]]
  <2>1. a + m = k
    OBVIOUS
  <2>2. w[a][D] = w[a + m][D - g[a + m]]
    BY <1>7 DEF T
  <2> QED
    BY <2>1, <2>2
<1>9. D - g[k] = r
  BY <1>1
<1>10. w[k] = [days \in Nat |-> IF k < b /\ days >= size[k] THEN w[k + 1][days - size[k]] ELSE <<k, days>>]
  BY DEF TakesOff
<1>11. ~ (k < b /\ r >= size[k])
  BY <1>1
<1>12. w[k][r] = <<k, r>>
  BY <1>10, <1>11
<1> QED
  BY <1>8, <1>9, <1>12
MonthSizes(leap) == [m \in 0..12 |-> MonthDays(leap, m)]
YearSizes == [y \in EPOCH_YEAR..OVERFLOW_YEAR |-> calendar_yearsize(y)]

\* The functions calendar_date_to_timestamp and calendar_timestamp_to_date define
Months(leap) ==
    CHOOSE g : g = [m \in 0..12 |-> IF m = 0 THEN 0 ELSE g[m - 1] + MonthDays(leap, m - 1)]
YearDays ==
    CHOOSE g : g = [y \in EPOCH_YEAR..OVERFLOW_YEAR |-> IF y = EPOCH_YEAR THEN 0 ELSE g[y - 1] + calendar_yearsize(y - 1)]
Within ==
    CHOOSE w : w = [y \in EPOCH_YEAR..OVERFLOW_YEAR |-> [days \in Nat |->
                       IF y < OVERFLOW_YEAR /\ days >= calendar_yearsize(y) THEN w[y + 1][days - calendar_yearsize(y)]
                       ELSE <<y, days>>]]
Left(leap) ==
    CHOOSE w : w = [m \in 0..12 |-> [days \in Nat |->
                       IF m < 12 /\ days >= MonthDays(leap, m) THEN w[m + 1][days - MonthDays(leap, m)]
                       ELSE <<m, days>>]]

LEMMA SizesAre ==
    /\ \A leap : MonthSizes(leap) \in [0..12 -> Nat] /\ \A m : MonthDays(leap, m) \in 28..31
    /\ YearSizes \in [EPOCH_YEAR..OVERFLOW_YEAR -> Nat] /\ \A y : calendar_yearsize(y) \in {365, 366}
<1>1. \A leap, m : MonthDays(leap, m) \in 28..31
  BY DEF MonthDays
<1>2. \A y : calendar_yearsize(y) \in {365, 366}
  BY DEF calendar_yearsize
<1>3. ASSUME NEW leap PROVE MonthSizes(leap) \in [0..12 -> Nat]
  <2>1. \A m : MonthDays(leap, m) \in Nat
    BY <1>1
  <2> QED
    BY <2>1 DEF MonthSizes
<1>4. YearSizes \in [EPOCH_YEAR..OVERFLOW_YEAR -> Nat]
  <2>1. \A y : calendar_yearsize(y) \in Nat
    BY <1>2
  <2> QED
    BY <2>1 DEF YearSizes
<1> QED
  BY <1>1, <1>2, <1>3, <1>4

LEMMA Ends12 == 0 \in Nat /\ 12 \in Nat /\ 12 = 0 + 12
OBVIOUS

LEMMA EndsOverflow == EPOCH_YEAR \in Nat /\ 136 \in Nat /\ OVERFLOW_YEAR = EPOCH_YEAR + 136
BY DEF EPOCH_YEAR, OVERFLOW_YEAR

LEMMA MonthsAre ==
    ASSUME NEW leap
    PROVE  SumsOf(Months(leap), 0, 12, MonthSizes(leap))
<1> DEFINE size == MonthSizes(leap)
           Fits(g) == g = [m \in 0..12 |-> IF m = 0 THEN 0 ELSE g[m - 1] + MonthDays(leap, m - 1)]
<1>1. size \in [0..12 -> Nat]
  BY SizesAre
<1>2. ASSUME NEW g PROVE Adds(g, 0, 12, size) <=> Fits(g)
  <2>1. ASSUME NEW m \in 0..12, m # 0 PROVE g[m - 1] + size[m - 1] = g[m - 1] + MonthDays(leap, m - 1)
    <3>1. m - 1 \in 0..12
      BY <2>1
    <3> QED
      BY <3>1 DEF MonthSizes
  <2>2. [m \in 0..12 |-> IF m = 0 THEN 0 ELSE g[m - 1] + size[m - 1]]
        = [m \in 0..12 |-> IF m = 0 THEN 0 ELSE g[m - 1] + MonthDays(leap, m - 1)]
    <3>1. \A m \in 0..12 : (IF m = 0 THEN 0 ELSE g[m - 1] + size[m - 1])
                           = IF m = 0 THEN 0 ELSE g[m - 1] + MonthDays(leap, m - 1)
      BY <2>1, Zenon
    <3> QED
      BY <3>1, Zenon
  <2> QED
    BY <2>2, Zenon DEF Adds
<1> HIDE DEF size, Fits
<1>3. PICK g : Adds(g, 0, 12, size)
  BY <1>1, Ends12, SumsExist, Zenon
<1>4. Fits(CHOOSE v : Fits(v))
  BY <1>2, <1>3, Zenon
<1>5. Months(leap) = CHOOSE v : Fits(v)
  BY Zenon DEF Months, Fits
<1>6. Adds(Months(leap), 0, 12, size)
  BY <1>2, <1>4, <1>5, Zenon
<1> QED
  BY <1>1, <1>6, Ends12, SumsAre, Zenon DEF size

LEMMA YearsAre == SumsOf(YearDays, EPOCH_YEAR, OVERFLOW_YEAR, YearSizes)
<1> DEFINE size == YearSizes
           Fits(g) == g = [y \in EPOCH_YEAR..OVERFLOW_YEAR |->
                              IF y = EPOCH_YEAR THEN 0 ELSE g[y - 1] + calendar_yearsize(y - 1)]
<1>1. size \in [EPOCH_YEAR..OVERFLOW_YEAR -> Nat]
  BY SizesAre
<1>2. ASSUME NEW g PROVE Adds(g, EPOCH_YEAR, OVERFLOW_YEAR, size) <=> Fits(g)
  <2>1. ASSUME NEW y \in EPOCH_YEAR..OVERFLOW_YEAR, y # EPOCH_YEAR
        PROVE  g[y - 1] + size[y - 1] = g[y - 1] + calendar_yearsize(y - 1)
    <3>1. y - 1 \in EPOCH_YEAR..OVERFLOW_YEAR
      BY <2>1, EndsOverflow
    <3> QED
      BY <3>1 DEF YearSizes
  <2>2. [y \in EPOCH_YEAR..OVERFLOW_YEAR |-> IF y = EPOCH_YEAR THEN 0 ELSE g[y - 1] + size[y - 1]]
        = [y \in EPOCH_YEAR..OVERFLOW_YEAR |-> IF y = EPOCH_YEAR THEN 0 ELSE g[y - 1] + calendar_yearsize(y - 1)]
    <3>1. \A y \in EPOCH_YEAR..OVERFLOW_YEAR : (IF y = EPOCH_YEAR THEN 0 ELSE g[y - 1] + size[y - 1])
             = IF y = EPOCH_YEAR THEN 0 ELSE g[y - 1] + calendar_yearsize(y - 1)
      BY <2>1, Zenon
    <3> QED
      BY <3>1, Zenon
  <2> QED
    BY <2>2, Zenon DEF Adds
<1> HIDE DEF size, Fits
<1>3. PICK g : Adds(g, EPOCH_YEAR, OVERFLOW_YEAR, size)
  BY <1>1, EndsOverflow, SumsExist, Zenon
<1>4. Fits(CHOOSE v : Fits(v))
  BY <1>2, <1>3, Zenon
<1>5. YearDays = CHOOSE v : Fits(v)
  BY Zenon DEF YearDays, Fits
<1>6. Adds(YearDays, EPOCH_YEAR, OVERFLOW_YEAR, size)
  BY <1>2, <1>4, <1>5, Zenon
<1> QED
  BY <1>1, <1>6, EndsOverflow, SumsAre, Zenon DEF size

LEMMA LeftIs ==
    ASSUME NEW leap
    PROVE  TakesOff(Left(leap), 0, 12, MonthSizes(leap))
<1> DEFINE size == MonthSizes(leap)
           Val(w, m, days) == IF m < 12 /\ days >= MonthDays(leap, m) THEN w[m + 1][days - MonthDays(leap, m)]
                              ELSE <<m, days>>
           Fits(w) == w = [m \in 0..12 |-> [days \in Nat |-> Val(w, m, days)]]
<1>1. size \in [0..12 -> Nat]
  BY SizesAre
<1>2. ASSUME NEW w PROVE TakesOff(w, 0, 12, size) <=> Fits(w)
  <2>1. \A m \in 0..12 : size[m] = MonthDays(leap, m)
    BY DEF MonthSizes
  <2> HIDE DEF size
  <2>2. ASSUME NEW m \in 0..12
        PROVE  [days \in Nat |-> IF m < 12 /\ days >= size[m] THEN w[m + 1][days - size[m]] ELSE <<m, days>>]
               = [days \in Nat |-> Val(w, m, days)]
    BY <2>1, Zenon
  <2> HIDE DEF Val
  <2> QED
    BY <2>2, Zenon DEF TakesOff
<1>3. Left(leap) = CHOOSE w : Fits(w)
  BY Zenon DEF Left
<1> HIDE DEF size, Fits
<1>4. PICK w : TakesOff(w, 0, 12, size)
  BY <1>1, Ends12, TakesOffExists, Zenon
<1>5. Fits(CHOOSE v : Fits(v))
  BY <1>2, <1>4, Zenon
<1> QED
  BY <1>2, <1>3, <1>5, Zenon DEF size

LEMMA WithinIs == TakesOff(Within, EPOCH_YEAR, OVERFLOW_YEAR, YearSizes)
<1> DEFINE size == YearSizes
           Val(w, y, days) == IF y < OVERFLOW_YEAR /\ days >= calendar_yearsize(y) THEN w[y + 1][days - calendar_yearsize(y)]
                              ELSE <<y, days>>
           Fits(w) == w = [y \in EPOCH_YEAR..OVERFLOW_YEAR |-> [days \in Nat |-> Val(w, y, days)]]
<1>1. size \in [EPOCH_YEAR..OVERFLOW_YEAR -> Nat]
  BY SizesAre
<1>2. ASSUME NEW w PROVE TakesOff(w, EPOCH_YEAR, OVERFLOW_YEAR, size) <=> Fits(w)
  <2>1. \A y \in EPOCH_YEAR..OVERFLOW_YEAR : size[y] = calendar_yearsize(y)
    BY DEF YearSizes
  <2> HIDE DEF size
  <2>2. ASSUME NEW y \in EPOCH_YEAR..OVERFLOW_YEAR
        PROVE  [days \in Nat |-> IF y < OVERFLOW_YEAR /\ days >= size[y] THEN w[y + 1][days - size[y]] ELSE <<y, days>>]
               = [days \in Nat |-> Val(w, y, days)]
    BY <2>1, Zenon
  <2> HIDE DEF Val
  <2> QED
    BY <2>2, Zenon DEF TakesOff
<1>3. Within = CHOOSE w : Fits(w)
  BY Zenon DEF Within
<1> HIDE DEF size, Fits
<1>4. PICK w : TakesOff(w, EPOCH_YEAR, OVERFLOW_YEAR, size)
  BY <1>1, EndsOverflow, TakesOffExists, Zenon
<1>5. Fits(CHOOSE v : Fits(v))
  BY <1>2, <1>4, Zenon
<1> QED
  BY <1>2, <1>3, <1>5, Zenon DEF size

\* The days up to a date, and the seconds of its day
DayNumber(d) == d.day + Months(calendar_leapyear(d.year))[d.month] + YearDays[d.year]
Clock(d) == SECS_PER_HOUR * d.hour + SECS_PER_MINUTE * d.minute + d.second

LEMMA StampIs ==
    ASSUME NEW d
    PROVE  calendar_date_to_timestamp(d) = <<DayNumber(d), Clock(d)>>
BY Zenon DEF calendar_date_to_timestamp, DayNumber, Clock, Months, YearDays

EndYear(days) == Within[EPOCH_YEAR][days]
EndMonth(days) == Left(calendar_leapyear(EndYear(days)[1]))[0][EndYear(days)[2]]

LEMMA DateIs ==
    ASSUME NEW stamp
    PROVE  calendar_timestamp_to_date(stamp)
           = [year |-> EndYear(stamp[1])[1], month |-> EndMonth(stamp[1])[1], day |-> EndMonth(stamp[1])[2],
              hour |-> stamp[2] \div SECS_PER_HOUR,
              minute |-> (stamp[2] % SECS_PER_HOUR) \div SECS_PER_MINUTE, second |-> stamp[2] % SECS_PER_MINUTE]
BY Zenon DEF calendar_timestamp_to_date, Within, Left, EndYear, EndMonth
-----------------------------------------------------------------------------
(* Leap years *)

LEMMA LeapIs ==
    ASSUME NEW y \in Nat, 1970 <= y, y < 2100
    PROVE  calendar_leapyear(y) <=> y % 4 = 0
<1>1. y % 100 = 0 => y = 2000
  <2>1. PICK q, r : q = y \div 100 /\ r = y % 100 /\ q \in Nat /\ r \in Nat /\ y = 100 * q + r /\ r < 100
    OBVIOUS
  <2> QED
    BY <2>1
<1>2. y = 2000 => y % 400 = 0 /\ y % 4 = 0
  OBVIOUS
<1> QED
  BY <1>1, <1>2 DEF calendar_leapyear

\* calendar_add_day_to_date has the year in an u8.
LEMMA LeapInByte ==
    ASSUME NEW y \in Nat, 2000 <= y, y < 2064
    PROVE  calendar_leapyear(y % 256) <=> calendar_leapyear(y)
<1>1. calendar_leapyear(y) <=> y % 4 = 0
  BY LeapIs
<1>2. CASE y < 2048
  <2>1. PICK z \in Nat : z = y - 1792 /\ 208 <= z /\ z < 256
    BY <1>2
  <2>2. y % 256 = z
    BY <1>2, <2>1
  <2>3. z % 4 = y % 4
    BY <2>1
  <2>4. z % 100 # 0
    BY <2>1
  <2> QED
    BY <1>1, <2>2, <2>3, <2>4 DEF calendar_leapyear
<1>3. CASE 2048 <= y
  <2>1. PICK z \in Nat : z = y - 2048 /\ z < 16
    BY <1>3
  <2>2. y % 256 = z
    BY <1>3, <2>1
  <2>3. z % 4 = y % 4
    BY <2>1
  <2>4. z % 100 = 0 => z = 0
    BY <2>1
  <2>5. 0 % 400 = 0 /\ 0 % 4 = 0
    OBVIOUS
  <2> QED
    BY <1>1, <2>2, <2>3, <2>4, <2>5 DEF calendar_leapyear
<1> QED
  BY <1>2, <1>3

\* The days before each month
LEMMA MonthsBefore ==
    ASSUME NEW leap \in BOOLEAN
    PROVE  \E k \in {0, 1} :
             /\ k = (IF leap THEN 1 ELSE 0)
             /\ Months(leap)[0] = 0 /\ Months(leap)[1] = 31
             /\ Months(leap)[2] = 59 + k /\ Months(leap)[3] = 90 + k /\ Months(leap)[4] = 120 + k
             /\ Months(leap)[5] = 151 + k /\ Months(leap)[6] = 181 + k /\ Months(leap)[7] = 212 + k
             /\ Months(leap)[8] = 243 + k /\ Months(leap)[9] = 273 + k /\ Months(leap)[10] = 304 + k
             /\ Months(leap)[11] = 334 + k /\ Months(leap)[12] = 365 + k
<1> DEFINE g == Months(leap)
<1>1. PICK k \in {0, 1} : k = (IF leap THEN 1 ELSE 0)
  OBVIOUS
<1>2. g[0] = 0 /\ \A m \in 1..12 : g[m] = g[m - 1] + MonthDays(leap, m - 1)
  <2>1. SumsOf(g, 0, 12, MonthSizes(leap))
    BY MonthsAre
  <2> HIDE DEF g
  <2>2. g[0] = 0 /\ \A m \in (0 + 1)..12 : m - 1 \in 0..12 /\ g[m] = g[m - 1] + MonthSizes(leap)[m - 1]
    BY <2>1, Zenon DEF SumsOf
  <2>3. \A m \in 1..12 : m \in (0 + 1)..12
    OBVIOUS
  <2>4. \A m \in 0..12 : MonthSizes(leap)[m] = MonthDays(leap, m)
    BY DEF MonthSizes
  <2> QED
    BY <2>2, <2>3, <2>4
<1>3. /\ MonthDays(leap, 0) = 31 /\ MonthDays(leap, 1) = 28 + k /\ MonthDays(leap, 2) = 31
      /\ MonthDays(leap, 3) = 30 /\ MonthDays(leap, 4) = 31 /\ MonthDays(leap, 5) = 30
      /\ MonthDays(leap, 6) = 31 /\ MonthDays(leap, 7) = 31 /\ MonthDays(leap, 8) = 30
      /\ MonthDays(leap, 9) = 31 /\ MonthDays(leap, 10) = 30 /\ MonthDays(leap, 11) = 31
  BY <1>1 DEF MonthDays
<1> HIDE DEF g
<1>4. /\ g[1] = g[0] + MonthDays(leap, 0) /\ g[2] = g[1] + MonthDays(leap, 1)
      /\ g[3] = g[2] + MonthDays(leap, 2) /\ g[4] = g[3] + MonthDays(leap, 3)
      /\ g[5] = g[4] + MonthDays(leap, 4) /\ g[6] = g[5] + MonthDays(leap, 5)
      /\ g[7] = g[6] + MonthDays(leap, 6) /\ g[8] = g[7] + MonthDays(leap, 7)
      /\ g[9] = g[8] + MonthDays(leap, 8) /\ g[10] = g[9] + MonthDays(leap, 9)
      /\ g[11] = g[10] + MonthDays(leap, 10) /\ g[12] = g[11] + MonthDays(leap, 11)
  BY <1>2
<1>5. g[1] = 31 /\ g[2] = 59 + k
  BY <1>2, <1>3, <1>4
<1>6. g[3] = 90 + k /\ g[4] = 120 + k
  BY <1>3, <1>4, <1>5
<1>7. g[5] = 151 + k /\ g[6] = 181 + k /\ g[7] = 212 + k
  BY <1>3, <1>4, <1>6
<1>8. g[8] = 243 + k /\ g[9] = 273 + k /\ g[10] = 304 + k
  BY <1>3, <1>4, <1>7
<1>9. g[11] = 334 + k /\ g[12] = 365 + k
  BY <1>3, <1>4, <1>8
<1> QED
  BY <1>1, <1>2, <1>5, <1>6, <1>7, <1>8, <1>9 DEF g

\* The days before each year
LEMMA YearsBefore ==
    ASSUME NEW y \in Nat, 1970 <= y, y < 2100
    PROVE  /\ YearDays[y] \in Nat /\ YearDays[y] = 365 * (y - 1970) + (y - 1969) \div 4
           /\ YearDays[y + 1] = YearDays[y] + calendar_yearsize(y)
<1> DEFINE L(z) == 365 * (z - 1970) + (z - 1969) \div 4
           P == {n \in 0..129 : YearDays[1970 + n] = L(1970 + n)}
<1>1. YearDays[1970] = 0 /\ \A z \in Nat : 1970 < z /\ z <= 2106 => YearDays[z] = YearDays[z - 1] + calendar_yearsize(z - 1)
  <2>1. PICK a, b : a = 1970 /\ b = 2106 /\ SumsOf(YearDays, a, b, YearSizes)
    BY YearsAre DEF EPOCH_YEAR, OVERFLOW_YEAR
  <2>2. \A z \in a..b : YearSizes[z] = calendar_yearsize(z)
    BY <2>1 DEF YearSizes, EPOCH_YEAR, OVERFLOW_YEAR
  <2>3. YearDays[a] = 0 /\ \A z \in (a + 1)..b : z - 1 \in a..b /\ YearDays[z] = YearDays[z - 1] + YearSizes[z - 1]
    BY <2>1 DEF SumsOf
  <2>4. \A z \in Nat : 1970 < z /\ z <= 2106 => z \in (a + 1)..b
    BY <2>1
  <2> QED
    BY <2>1, <2>2, <2>3, <2>4
<1>2. ASSUME NEW z \in Nat, 1970 <= z, z < 2100 PROVE L(z + 1) = L(z) + calendar_yearsize(z)
  <2>1. calendar_yearsize(z) = IF z % 4 = 0 THEN 366 ELSE 365
    BY <1>2, LeapIs DEF calendar_yearsize
  <2>2. PICK q \in Nat : q = z \div 4
    OBVIOUS
  <2>3. PICK r \in 0..3 : r = z % 4
    OBVIOUS
  <2>4. z = 4 * q + r
    BY <2>2, <2>3
  <2>5. (z - 1969) \div 4 = IF r = 0 THEN q - 493 ELSE q - 492
    BY <1>2, <2>4
  <2>6. ((z + 1) - 1969) \div 4 = q - 492
    BY <1>2, <2>4
  <2> QED
    BY <2>1, <2>3, <2>4, <2>5, <2>6
<1>3. L(1970) = 0
  OBVIOUS
<1> HIDE DEF L
<1>4. ASSUME NEW n \in 1..129, n - 1 \in P PROVE n \in P
  <2>1. PICK z : z = 1970 + (n - 1)
    OBVIOUS
  <2>2. z \in Nat /\ 1970 <= z /\ z < 2100 /\ z + 1 = 1970 + n /\ (z + 1) - 1 = z /\ n \in 0..129 /\ z + 1 \in Nat
    BY <2>1
  <2>3. YearDays[z] = L(z)
    BY <1>4, <2>1
  <2>4. YearDays[z + 1] = YearDays[z] + calendar_yearsize(z)
    BY <1>1, <2>2
  <2>5. YearDays[1970 + n] = L(1970 + n)
    BY <1>2, <2>2, <2>3, <2>4
  <2> QED
    BY <2>2, <2>5
<1>5. 0 \in P
  BY <1>1, <1>3
<1>6. y - 1970 \in P
  <2>1. 129 \in Nat /\ y - 1970 \in 0..129
    OBVIOUS
  <2> HIDE DEF P
  <2> QED
    BY <1>4, <1>5, <2>1, UpTo
<1>7. YearDays[y] = L(y)
  <2>1. 1970 + (y - 1970) = y
    OBVIOUS
  <2> QED
    BY <1>6, <2>1
<1>8. L(y) \in Nat
  BY DEF L
<1>9. YearDays[y + 1] = YearDays[y] + calendar_yearsize(y)
  <2>1. y + 1 \in Nat /\ 1970 < y + 1 /\ y + 1 <= 2106 /\ (y + 1) - 1 = y
    OBVIOUS
  <2> QED
    BY <1>1, <2>1
<1> QED
  BY <1>7, <1>8, <1>9 DEF L
-----------------------------------------------------------------------------
(* Moving a date *)

Fields == [year : Nat, month : Nat, day : Nat, hour : Nat, minute : Nat, second : Nat]

Dated(d, last) ==
    /\ d \in Fields /\ 2000 <= d.year /\ d.year <= last
    /\ d.month < 12 /\ d.day < MonthDays(calendar_leapyear(d.year), d.month)
    /\ d.hour < 24 /\ d.minute < 60 /\ d.second < 60

\* The two halves of the register
High(d) == (d.year - 2000) * 512 + (d.month + 1) * 32 + (d.day + 1)
Low(d) == d.hour * 4096 + d.minute * 64 + d.second

WithYear(d, n) == [d EXCEPT !.year = n]
WithMonth(d, n) == [d EXCEPT !.month = n]
WithDay(d, n) == [d EXCEPT !.day = n]
WithHour(d, n) == [d EXCEPT !.hour = n]
WithMinute(d, n) == [d EXCEPT !.minute = n]
WithSecond(d, n) == [d EXCEPT !.second = n]

Shows(e, year, month, day, hour, minute, second) ==
    /\ e \in Fields /\ e.year = year /\ e.month = month /\ e.day = day
    /\ e.hour = hour /\ e.minute = minute /\ e.second = second

LEMMA NoneIsNat == 0 \in Nat
OBVIOUS

LEMMA WithIs ==
    ASSUME NEW d \in Fields, NEW n \in Nat
    PROVE  /\ Shows(WithYear(d, n), n, d.month, d.day, d.hour, d.minute, d.second)
           /\ Shows(WithMonth(d, n), d.year, n, d.day, d.hour, d.minute, d.second)
           /\ Shows(WithDay(d, n), d.year, d.month, n, d.hour, d.minute, d.second)
           /\ Shows(WithHour(d, n), d.year, d.month, d.day, n, d.minute, d.second)
           /\ Shows(WithMinute(d, n), d.year, d.month, d.day, d.hour, n, d.second)
           /\ Shows(WithSecond(d, n), d.year, d.month, d.day, d.hour, d.minute, n)
<1>1. d = [year |-> d.year, month |-> d.month, day |-> d.day,
           hour |-> d.hour, minute |-> d.minute, second |-> d.second]
  BY DEF Fields
<1>2. /\ d.year \in Nat /\ d.month \in Nat /\ d.day \in Nat
      /\ d.hour \in Nat /\ d.minute \in Nat /\ d.second \in Nat
  BY DEF Fields
<1>3. ASSUME NEW y \in Nat, NEW mo \in Nat, NEW da \in Nat, NEW h \in Nat, NEW mi \in Nat, NEW se \in Nat,
             NEW e, e = [year |-> y, month |-> mo, day |-> da, hour |-> h, minute |-> mi, second |-> se]
      PROVE  Shows(e, y, mo, da, h, mi, se)
  BY <1>3 DEF Shows, Fields
<1>4. WithYear(d, n) = [year |-> n, month |-> d.month, day |-> d.day,
                        hour |-> d.hour, minute |-> d.minute, second |-> d.second]
  BY <1>1 DEF WithYear
<1>5. WithMonth(d, n) = [year |-> d.year, month |-> n, day |-> d.day,
                         hour |-> d.hour, minute |-> d.minute, second |-> d.second]
  BY <1>1 DEF WithMonth
<1>6. WithDay(d, n) = [year |-> d.year, month |-> d.month, day |-> n,
                       hour |-> d.hour, minute |-> d.minute, second |-> d.second]
  BY <1>1 DEF WithDay
<1>7. WithHour(d, n) = [year |-> d.year, month |-> d.month, day |-> d.day,
                        hour |-> n, minute |-> d.minute, second |-> d.second]
  BY <1>1 DEF WithHour
<1>8. WithMinute(d, n) = [year |-> d.year, month |-> d.month, day |-> d.day,
                          hour |-> d.hour, minute |-> n, second |-> d.second]
  BY <1>1 DEF WithMinute
<1>9. WithSecond(d, n) = [year |-> d.year, month |-> d.month, day |-> d.day,
                          hour |-> d.hour, minute |-> d.minute, second |-> n]
  BY <1>1 DEF WithSecond
<1> HIDE DEF Fields, Shows
<1> QED
  BY <1>2, <1>3, <1>4, <1>5, <1>6, <1>7, <1>8, <1>9

SameClock(d, e) == e.hour = d.hour /\ e.minute = d.minute /\ e.second = d.second

LEMMA DayAddedIs ==
    ASSUME NEW last \in Nat, last < 2063, NEW d, Dated(d, last), NEW e, e = DayAdded(d)
    PROVE  /\ Dated(e, last + 1) /\ SameClock(d, e)
           /\ DayNumber(d) \in Nat /\ DayNumber(e) = DayNumber(d) + 1 /\ High(d) < High(e)
<1> DEFINE y == d.year
           leap == calendar_leapyear(d.year)
           M == Months(leap)
<1>1. /\ d \in Fields /\ y \in Nat /\ d.month \in 0..11 /\ d.day \in Nat /\ 2000 <= y /\ y < 2063
      /\ d.day < MonthDays(leap, d.month) /\ d.hour < 24 /\ d.minute < 60 /\ d.second < 60
  BY DEF Dated, Fields
<1>13. d \in Fields
  BY <1>1
<1>2. calendar_leapyear(y % 256) <=> leap
  BY <1>1, LeapInByte
<1>3. leap \in BOOLEAN /\ calendar_leapyear(y % 256) = leap
  BY <1>2 DEF calendar_leapyear
<1>4. \A m \in 0..11 : M[m] \in Nat /\ MonthDays(leap, m) \in 28..31 /\ M[m + 1] = M[m] + MonthDays(leap, m)
  <2>1. /\ \A m \in 0..12 : M[m] \in Nat
        /\ \A m \in (0 + 1)..12 : m - 1 \in 0..12 /\ M[m] = M[m - 1] + MonthSizes(leap)[m - 1]
    <3>1. SumsOf(M, 0, 12, MonthSizes(leap))
      BY MonthsAre
    <3> HIDE DEF M
    <3> QED
      BY <3>1 DEF SumsOf
  <2>2. \A m \in 0..12 : MonthSizes(leap)[m] = MonthDays(leap, m)
    BY DEF MonthSizes
  <2> HIDE DEF M, leap
  <2> SUFFICES ASSUME NEW m \in 0..11
               PROVE  M[m] \in Nat /\ MonthDays(leap, m) \in 28..31 /\ M[m + 1] = M[m] + MonthDays(leap, m)
    OBVIOUS
  <2>3. m + 1 \in (0 + 1)..12 /\ (m + 1) - 1 = m /\ m \in 0..12
    OBVIOUS
  <2>4. MonthDays(leap, m) \in 28..31
    BY DEF MonthDays
  <2> QED
    BY <2>1, <2>2, <2>3, <2>4
<1>5. M[12] = calendar_yearsize(y) /\ M[0] = 0
  <2>1. PICK k : k = (IF leap THEN 1 ELSE 0) /\ M[12] = 365 + k /\ M[0] = 0
    BY <1>3, MonthsBefore
  <2> QED
    BY <2>1 DEF calendar_yearsize
<1>6. YearDays[y] \in Nat /\ YearDays[y + 1] = YearDays[y] + calendar_yearsize(y)
  BY <1>1, YearsBefore
<1>7. DayNumber(d) = d.day + M[d.month] + YearDays[y]
  BY DEF DayNumber
<1>8. DayNumber(d) \in Nat
  BY <1>1, <1>4, <1>6, <1>7
<1> HIDE DEF M, leap
<1>12. /\ d.day + 1 = MonthDays(leap, d.month) => e = WithDay(MonthAdded(d), 0)
       /\ d.day + 1 # MonthDays(leap, d.month) => e = WithDay(d, d.day + 1)
  BY <1>3 DEF DayAdded, WithDay
<1>9. CASE d.day + 1 # MonthDays(leap, d.month)
  <2>1. e = WithDay(d, d.day + 1)
    BY <1>9, <1>12
  <2>8. Shows(e, d.year, d.month, d.day + 1, d.hour, d.minute, d.second)
    <3>1. PICK n \in Nat : n = d.day + 1
      BY <1>1
    <3>2. Shows(WithDay(d, n), d.year, d.month, n, d.hour, d.minute, d.second)
      BY <1>13, WithIs
    <3> QED
      BY <2>1, <3>1, <3>2
  <2>2. /\ e \in Fields /\ e.year = y /\ e.month = d.month /\ e.day = d.day + 1 /\ SameClock(d, e)
    BY <2>8 DEF Shows, SameClock
  <2>3. e.day < MonthDays(leap, e.month)
    BY <1>1, <1>4, <1>9, <2>2
  <2>4. Dated(e, last + 1)
    BY <1>1, <2>2, <2>3 DEF Dated, SameClock, leap
  <2>5. DayNumber(e) = e.day + M[e.month] + YearDays[y]
    BY <2>2 DEF DayNumber, M, leap
  <2>6. DayNumber(e) = DayNumber(d) + 1
    BY <1>1, <1>4, <1>6, <1>7, <2>2, <2>5
  <2>7. High(d) < High(e)
    BY <1>1, <2>2 DEF High
  <2> QED
    BY <1>8, <2>2, <2>4, <2>6, <2>7
<1>10. CASE d.day + 1 = MonthDays(leap, d.month) /\ d.month + 1 # 12
  <2>1. PICK f : f = WithMonth(d, d.month + 1)
    OBVIOUS
  <2>9. MonthAdded(d) = f
    BY <1>10, <2>1 DEF MonthAdded, WithMonth
  <2>10. e = WithDay(f, 0)
    BY <1>10, <1>12, <2>9
  <2>11. f \in Fields /\ f.year = y /\ f.month = d.month + 1 /\ SameClock(d, f)
    <3>1. PICK n \in Nat : n = d.month + 1
      BY <1>1
    <3>2. Shows(WithMonth(d, n), d.year, n, d.day, d.hour, d.minute, d.second)
      BY <1>13, WithIs
    <3>3. Shows(f, d.year, d.month + 1, d.day, d.hour, d.minute, d.second)
      BY <2>1, <3>1, <3>2
    <3> QED
      BY <3>3 DEF Shows, SameClock
  <2>2. /\ e \in Fields /\ e.year = y /\ e.month = d.month + 1 /\ e.day = 0 /\ SameClock(d, e)
    <3>2. f \in Fields
      BY <2>11
    <3>1. Shows(e, f.year, f.month, 0, f.hour, f.minute, f.second)
      BY <2>10, <3>2, NoneIsNat, WithIs
    <3> QED
      BY <2>11, <3>1 DEF Shows, SameClock
  <2>3. e.month \in 0..11
    BY <1>1, <1>10, <2>2
  <2>4. e.day < MonthDays(leap, e.month)
    BY <1>4, <2>2, <2>3
  <2>5. Dated(e, last + 1)
    BY <1>1, <2>2, <2>3, <2>4 DEF Dated, SameClock, leap
  <2>6. DayNumber(e) = e.day + M[e.month] + YearDays[y]
    BY <2>2 DEF DayNumber, M, leap
  <2>7. DayNumber(e) = DayNumber(d) + 1
    <3>1. M[d.month] \in Nat /\ M[d.month + 1] = M[d.month] + MonthDays(leap, d.month)
      BY <1>1, <1>4
    <3>2. DayNumber(e) = M[d.month] + (d.day + 1) + YearDays[y]
      BY <1>1, <1>10, <2>2, <2>6, <3>1
    <3> QED
      BY <1>1, <1>6, <1>7, <3>1, <3>2
  <2>8. High(d) < High(e)
    <3>1. d.day \in 0..30
      BY <1>1, <1>4
    <3> QED
      BY <1>1, <2>2, <3>1 DEF High
  <2> QED
    BY <1>8, <2>2, <2>5, <2>7, <2>8
<1>11. CASE d.day + 1 = MonthDays(leap, d.month) /\ d.month + 1 = 12
  <2>1. PICK f, g : f = WithYear(d, d.year + 1) /\ g = WithMonth(f, 0)
    OBVIOUS
  <2>9. YearAdded(d) = f
    BY <1>1, <2>1 DEF YearAdded, WithYear
  <2>10. MonthAdded(d) = g
    BY <1>11, <2>1, <2>9 DEF MonthAdded, WithMonth
  <2>11. e = WithDay(g, 0)
    BY <1>11, <1>12, <2>10
  <2>12. f \in Fields /\ f.year = y + 1 /\ SameClock(d, f)
    <3>1. PICK n \in Nat : n = d.year + 1
      BY <1>1
    <3>2. Shows(WithYear(d, n), n, d.month, d.day, d.hour, d.minute, d.second)
      BY <1>13, WithIs
    <3>3. Shows(f, d.year + 1, d.month, d.day, d.hour, d.minute, d.second)
      BY <2>1, <3>1, <3>2
    <3> QED
      BY <3>3 DEF Shows, SameClock
  <2>13. g \in Fields /\ g.year = y + 1 /\ g.month = 0 /\ SameClock(d, g)
    <3>2. f \in Fields
      BY <2>12
    <3>1. Shows(g, f.year, 0, f.day, f.hour, f.minute, f.second)
      BY <2>1, <3>2, NoneIsNat, WithIs
    <3> QED
      BY <2>12, <3>1 DEF Shows, SameClock
  <2>2. /\ e \in Fields /\ e.year = y + 1 /\ e.month = 0 /\ e.day = 0 /\ SameClock(d, e)
    <3>2. g \in Fields
      BY <2>13
    <3>1. Shows(e, g.year, g.month, 0, g.hour, g.minute, g.second)
      BY <2>11, <3>2, NoneIsNat, WithIs
    <3> QED
      BY <2>13, <3>1 DEF Shows, SameClock
  <2>3. e.day < MonthDays(calendar_leapyear(e.year), e.month)
    <3>1. MonthDays(calendar_leapyear(e.year), e.month) \in 28..31
      BY DEF MonthDays
    <3> QED
      BY <2>2, <3>1
  <2>4. Dated(e, last + 1)
    <3>1. e.year <= last + 1
      BY <1>1, <2>2 DEF Dated
    <3> QED
      BY <1>1, <2>2, <2>3, <3>1 DEF Dated, SameClock
  <2>5. DayNumber(e) = 0 + 0 + YearDays[y + 1]
    <3>1. Months(calendar_leapyear(e.year))[0] = 0
      <4>1. calendar_leapyear(e.year) \in BOOLEAN
        BY DEF calendar_leapyear
      <4> QED
        BY <4>1, MonthsBefore
    <3> QED
      BY <2>2, <3>1 DEF DayNumber
  <2>6. d.month = 11 /\ M[11 + 1] = M[11] + MonthDays(leap, 11) /\ 11 + 1 = 12 /\ M[11] \in Nat
    BY <1>1, <1>4, <1>11
  <2>7. DayNumber(e) = DayNumber(d) + 1
    BY <1>1, <1>5, <1>6, <1>7, <1>11, <2>5, <2>6
  <2>8. High(d) < High(e)
    <3>1. d.day \in 0..30
      BY <1>1, <1>4
    <3> QED
      BY <1>1, <2>2, <2>6, <3>1 DEF High
  <2> QED
    BY <1>8, <2>2, <2>4, <2>7, <2>8
<1> QED
  BY <1>9, <1>10, <1>11
SameDay(d, e) == e.year = d.year /\ e.month = d.month /\ e.day = d.day

\* So many seconds later by the timestamps, and at least so much further by the registers
Later(d, e, seconds) ==
    /\ DayNumber(d) \in Nat /\ DayNumber(e) \in Nat
    /\ SECS_PER_DAY * DayNumber(e) + Clock(e) = SECS_PER_DAY * DayNumber(d) + Clock(d) + seconds
Further(d, e, low) == High(d) < High(e) \/ (High(d) = High(e) /\ Low(d) + low <= Low(e))

LEMMA SameDayIs ==
    ASSUME NEW d, NEW e, SameDay(d, e)
    PROVE  DayNumber(e) = DayNumber(d) /\ High(e) = High(d)
BY DEF SameDay, DayNumber, High

\* A clock that stands at h:m:s
At(d, h, m, s) ==
    /\ d.hour = h /\ d.minute = m /\ d.second = s
    /\ h \in 0..23 /\ m \in 0..59 /\ s \in 0..59
Counts(d, h, m, s) ==
    /\ Clock(d) \in Nat /\ Clock(d) = 3600 * h + 60 * m + s
    /\ Low(d) \in Nat /\ Low(d) = 4096 * h + 64 * m + s

LEMMA ClockIs ==
    ASSUME NEW d, NEW h, NEW m, NEW s, At(d, h, m, s)
    PROVE  Counts(d, h, m, s)
<1>1. h \in Nat /\ m \in Nat /\ s \in Nat
  BY DEF At
<1>2. Clock(d) = 3600 * h + 60 * m + s
  BY DEF At, Clock, SECS_PER_HOUR, SECS_PER_MINUTE
<1>3. Low(d) = h * 4096 + m * 64 + s
  BY DEF At, Low
<1> QED
  BY <1>1, <1>2, <1>3 DEF Counts

LEMMA ClockStands ==
    ASSUME NEW last, NEW d, Dated(d, last)
    PROVE  At(d, d.hour, d.minute, d.second)
BY DEF Dated, Fields, At

\* calendar_add_hour_to_date, and the hours of calendar_date_to_tz
LEMMA HoursAddedIs ==
    ASSUME NEW last \in Nat, last < 2063, NEW d, Dated(d, last), NEW n \in 1..23, NEW e,
           d.hour + n < 24 => e = WithHour(d, d.hour + n),
           d.hour + n >= 24 => e = WithHour(DayAdded(d), d.hour + n - 24)
    PROVE  /\ Dated(e, last + 1) /\ e.minute = d.minute /\ e.second = d.second
           /\ Later(d, e, 3600 * n) /\ Further(d, e, 4096)
<1>1. /\ d \in Fields /\ d.hour \in 0..23 /\ d.minute \in 0..59 /\ d.second \in 0..59
  BY DEF Dated, Fields
<1>2. d \in Fields
  BY <1>1
<1>7. PICK h, m, s : At(d, h, m, s)
  BY ClockStands
<1>8. Counts(d, h, m, s)
  BY <1>7, ClockIs
<1>3. PICK f : f = DayAdded(d)
  OBVIOUS
<1>4. /\ Dated(f, last + 1) /\ SameClock(d, f)
      /\ DayNumber(d) \in Nat /\ DayNumber(f) = DayNumber(d) + 1 /\ High(d) < High(f)
  BY <1>3, DayAddedIs
<1>5. CASE d.hour + n < 24
  <2>1. PICK g \in Nat : g = d.hour + n
    BY <1>1
  <2>2. Shows(WithHour(d, g), d.year, d.month, d.day, g, d.minute, d.second)
    BY <1>2, WithIs
  <2>3. Shows(e, d.year, d.month, d.day, d.hour + n, d.minute, d.second)
    BY <1>5, <2>1, <2>2
  <2>4. /\ e \in Fields /\ SameDay(d, e) /\ e.hour = d.hour + n
        /\ e.minute = d.minute /\ e.second = d.second
    BY <2>3 DEF Shows, SameDay
  <2>5. DayNumber(e) = DayNumber(d) /\ High(e) = High(d)
    BY <2>4, SameDayIs
  <2>6. Dated(e, last + 1)
    BY <1>1, <1>5, <2>4 DEF Dated, SameDay, Fields
  <2>7. Counts(e, h + n, m, s)
    <3>1. At(e, h + n, m, s)
      BY <1>5, <1>7, <2>4 DEF At
    <3> QED
      BY <3>1, ClockIs
  <2>8. /\ Clock(d) \in Nat /\ Clock(e) = Clock(d) + 3600 * n
        /\ Low(d) \in Nat /\ Low(e) = Low(d) + 4096 * n
    BY <1>7, <1>8, <2>7 DEF At, Counts
  <2>9. Later(d, e, 3600 * n)
    BY <1>4, <2>5, <2>8 DEF Later, SECS_PER_DAY
  <2>10. Further(d, e, 4096)
    BY <2>5, <2>8 DEF Further
  <2> QED
    BY <2>4, <2>6, <2>9, <2>10
<1>6. CASE d.hour + n >= 24
  <2>1. PICK g \in Nat : g = d.hour + n - 24
    BY <1>1, <1>6
  <2>2. /\ f \in Fields /\ f.minute = d.minute /\ f.second = d.second
    BY <1>4 DEF Dated, SameClock
  <2>3. f \in Fields
    BY <2>2
  <2>4. Shows(WithHour(f, g), f.year, f.month, f.day, g, f.minute, f.second)
    BY <2>3, WithIs
  <2>5. Shows(e, f.year, f.month, f.day, g, f.minute, f.second)
    BY <1>3, <1>6, <2>1, <2>4
  <2>6. /\ e \in Fields /\ SameDay(f, e) /\ e.hour = d.hour + n - 24
        /\ e.minute = d.minute /\ e.second = d.second
    BY <2>1, <2>2, <2>5 DEF Shows, SameDay
  <2>7. DayNumber(e) = DayNumber(d) + 1 /\ High(d) < High(e)
    BY <1>4, <2>6, SameDayIs
  <2>8. Dated(e, last + 1)
    BY <1>1, <1>4, <1>6, <2>6 DEF Dated, SameDay, Fields
  <2>11. Counts(e, h + n - 24, m, s)
    <3>1. At(e, h + n - 24, m, s)
      BY <1>6, <1>7, <2>6 DEF At
    <3> QED
      BY <3>1, ClockIs
  <2>9. Clock(d) \in Nat /\ Clock(e) = Clock(d) + 3600 * n - 86400
    BY <1>7, <1>8, <2>11 DEF At, Counts
  <2>10. Later(d, e, 3600 * n)
    BY <1>4, <2>7, <2>9 DEF Later, SECS_PER_DAY
  <2> QED
    BY <2>6, <2>7, <2>8, <2>10 DEF Further
<1> QED
  BY <1>1, <1>5, <1>6

LEMMA HourAddedIs ==
    ASSUME NEW last \in Nat, last < 2063, NEW d, Dated(d, last), NEW e, e = HourAdded(d)
    PROVE  /\ Dated(e, last + 1) /\ e.minute = d.minute /\ e.second = d.second
           /\ Later(d, e, 3600) /\ Further(d, e, 4096)
<1>1. d.hour \in 0..23
  BY DEF Dated, Fields
<1>2. /\ d.hour + 1 < 24 => e = WithHour(d, d.hour + 1)
      /\ d.hour + 1 >= 24 => d.hour + 1 = 24 /\ e = WithHour(DayAdded(d), 0)
  BY <1>1 DEF HourAdded, WithHour
<1>3. d.hour + 1 >= 24 => e = WithHour(DayAdded(d), d.hour + 1 - 24)
  <2>1. d.hour + 1 = 24 => d.hour + 1 - 24 = 0
    BY <1>1
  <2> QED
    BY <1>2, <2>1
<1>4. 1 \in 1..23 /\ 3600 * 1 = 3600
  OBVIOUS
<1> QED
  BY <1>2, <1>3, <1>4, HoursAddedIs

LEMMA TimeZoneIs ==
    ASSUME NEW last \in Nat, last < 2063, NEW d, Dated(d, last), NEW hour \in {3, 12},
           NEW e, e = ToTimeZone(d, hour, 0)
    PROVE  /\ Dated(e, last + 1) /\ Later(d, e, 3600 * hour) /\ Further(d, e, 4096)
<1>1. d \in Fields /\ d.hour \in 0..23 /\ d.minute \in 0..59
  BY DEF Dated, Fields
<1>2. d = [year |-> d.year, month |-> d.month, day |-> d.day,
           hour |-> d.hour, minute |-> d.minute, second |-> d.second]
  BY <1>1 DEF Fields
<1>3. d.minute + 0 = d.minute /\ ~ (d.minute + 0 >= 60)
  BY <1>1
<1>4. [d EXCEPT !.minute = d.minute] = d
  BY <1>2
<1>5. /\ d.hour + hour < 24 => e = WithHour(d, d.hour + hour)
      /\ d.hour + hour >= 24 => e = WithHour(DayAdded(d), d.hour + hour - 24)
  BY <1>1, <1>3, <1>4 DEF ToTimeZone, WithHour
<1>6. hour \in 1..23
  OBVIOUS
<1> QED
  BY <1>5, <1>6, HoursAddedIs

\* calendar_add_minute_to_date
LEMMA MinuteAddedIs ==
    ASSUME NEW last \in Nat, last < 2063, NEW d, Dated(d, last), NEW e, e = MinuteAdded(d)
    PROVE  /\ Dated(e, last + 1) /\ e.second = d.second
           /\ Later(d, e, 60) /\ Further(d, e, 64)
<1>1. /\ d \in Fields /\ d.hour \in 0..23 /\ d.minute \in 0..59 /\ d.second \in 0..59
  BY DEF Dated, Fields
<1>2. d \in Fields
  BY <1>1
<1>8. PICK h, m, s : At(d, h, m, s)
  BY ClockStands
<1>9. Counts(d, h, m, s)
  BY <1>8, ClockIs
<1>3. PICK f : f = HourAdded(d)
  OBVIOUS
<1>4. /\ Dated(f, last + 1) /\ f.minute = d.minute /\ f.second = d.second
      /\ Later(d, f, 3600) /\ Further(d, f, 4096)
  BY <1>3, HourAddedIs
<1>5. /\ d.minute + 1 = 60 => e = WithMinute(f, 0)
      /\ d.minute + 1 # 60 => e = WithMinute(d, d.minute + 1)
  BY <1>3 DEF MinuteAdded, WithMinute
<1>6. CASE d.minute + 1 # 60
  <2>1. PICK n \in Nat : n = d.minute + 1
    BY <1>1
  <2>2. Shows(WithMinute(d, n), d.year, d.month, d.day, d.hour, n, d.second)
    BY <1>2, WithIs
  <2>3. Shows(e, d.year, d.month, d.day, d.hour, n, d.second)
    BY <1>5, <1>6, <2>1, <2>2
  <2>4. /\ e \in Fields /\ SameDay(d, e) /\ e.minute = d.minute + 1
        /\ e.hour = d.hour /\ e.second = d.second
    BY <2>1, <2>3 DEF Shows, SameDay
  <2>5. DayNumber(e) = DayNumber(d) /\ High(e) = High(d)
    BY <2>4, SameDayIs
  <2>6. Dated(e, last + 1)
    BY <1>1, <1>6, <2>4 DEF Dated, SameDay, Fields
  <2>7. Counts(e, h, m + 1, s)
    <3>1. At(e, h, m + 1, s)
      BY <1>6, <1>8, <2>4 DEF At
    <3> QED
      BY <3>1, ClockIs
  <2>8. /\ Clock(d) \in Nat /\ Clock(e) = Clock(d) + 60
        /\ Low(d) \in Nat /\ Low(e) = Low(d) + 64
    BY <1>8, <1>9, <2>7 DEF At, Counts
  <2>9. Later(d, e, 60)
    BY <1>4, <2>5, <2>8 DEF Later, SECS_PER_DAY
  <2> QED
    BY <2>4, <2>5, <2>6, <2>8, <2>9 DEF Further
<1>7. CASE d.minute + 1 = 60
  <2>1. /\ f \in Fields /\ f.hour \in 0..23 /\ f.minute = 59 /\ f.second = d.second
    BY <1>1, <1>4, <1>7 DEF Dated, Fields
  <2>2. f \in Fields
    BY <2>1
  <2>3. Shows(WithMinute(f, 0), f.year, f.month, f.day, f.hour, 0, f.second)
    BY <2>2, NoneIsNat, WithIs
  <2>4. /\ e \in Fields /\ SameDay(f, e) /\ e.minute = 0
        /\ e.hour = f.hour /\ e.second = d.second
    BY <1>5, <1>7, <2>1, <2>3 DEF Shows, SameDay
  <2>5. DayNumber(e) = DayNumber(f) /\ High(e) = High(f)
    BY <2>4, SameDayIs
  <2>6. Dated(e, last + 1)
    BY <1>4, <2>4 DEF Dated, SameDay, Fields
  <2>7. /\ Clock(f) \in Nat /\ Clock(e) = Clock(f) - 3540 /\ Clock(d) \in Nat
        /\ Low(f) \in Nat /\ Low(e) = Low(f) - 3776 /\ Low(d) \in Nat
    <3>1. PICK g : At(f, g, 59, s)
      BY <1>8, <2>1 DEF At
    <3>2. At(e, g, 0, s)
      BY <1>8, <2>4, <3>1 DEF At
    <3>3. Counts(f, g, 59, s) /\ Counts(e, g, 0, s)
      BY <3>1, <3>2, ClockIs
    <3> QED
      BY <1>9, <3>1, <3>3 DEF At, Counts
  <2>8. Later(d, e, 60)
    BY <1>4, <2>5, <2>7 DEF Later, SECS_PER_DAY
  <2>9. Further(d, e, 64)
    BY <1>4, <2>5, <2>7 DEF Further
  <2> QED
    BY <2>4, <2>6, <2>8, <2>9
<1> QED
  BY <1>6, <1>7

\* calendar_add_second_to_date
LEMMA SecondAddedIs ==
    ASSUME NEW last \in Nat, last < 2063, NEW d, Dated(d, last), NEW e, e = SecondAdded(d)
    PROVE  Dated(e, last + 1) /\ Later(d, e, 1) /\ Further(d, e, 1)
<1>1. /\ d \in Fields /\ d.hour \in 0..23 /\ d.minute \in 0..59 /\ d.second \in 0..59
  BY DEF Dated, Fields
<1>2. d \in Fields
  BY <1>1
<1>7. PICK h, m, s : At(d, h, m, s)
  BY ClockStands
<1>8. Counts(d, h, m, s)
  BY <1>7, ClockIs
<1>3. DayNumber(d) \in Nat
  BY DayAddedIs
<1>4. /\ d.second + 1 = 60 => e = MinuteAdded(WithSecond(d, 0))
      /\ d.second + 1 # 60 => e = WithSecond(d, d.second + 1)
  BY DEF SecondAdded, WithSecond
<1>5. CASE d.second + 1 # 60
  <2>1. PICK n \in Nat : n = d.second + 1
    BY <1>1
  <2>2. Shows(WithSecond(d, n), d.year, d.month, d.day, d.hour, d.minute, n)
    BY <1>2, WithIs
  <2>3. Shows(e, d.year, d.month, d.day, d.hour, d.minute, n)
    BY <1>4, <1>5, <2>1, <2>2
  <2>4. /\ e \in Fields /\ SameDay(d, e) /\ e.second = d.second + 1
        /\ e.hour = d.hour /\ e.minute = d.minute
    BY <2>1, <2>3 DEF Shows, SameDay
  <2>5. DayNumber(e) = DayNumber(d) /\ High(e) = High(d)
    BY <2>4, SameDayIs
  <2>6. Dated(e, last + 1)
    BY <1>1, <1>5, <2>4 DEF Dated, SameDay, Fields
  <2>7. Counts(e, h, m, s + 1)
    <3>1. At(e, h, m, s + 1)
      BY <1>5, <1>7, <2>4 DEF At
    <3> QED
      BY <3>1, ClockIs
  <2>8. /\ Clock(d) \in Nat /\ Clock(e) = Clock(d) + 1
        /\ Low(d) \in Nat /\ Low(e) = Low(d) + 1
    BY <1>7, <1>8, <2>7 DEF At, Counts
  <2>9. Later(d, e, 1)
    BY <1>3, <2>5, <2>8 DEF Later, SECS_PER_DAY
  <2> QED
    BY <2>5, <2>6, <2>8, <2>9 DEF Further
<1>6. CASE d.second + 1 = 60
  <2>1. PICK f : f = WithSecond(d, 0)
    OBVIOUS
  <2>2. Shows(f, d.year, d.month, d.day, d.hour, d.minute, 0)
    BY <1>2, <2>1, NoneIsNat, WithIs
  <2>3. /\ f \in Fields /\ SameDay(d, f) /\ f.second = 0
        /\ f.hour = d.hour /\ f.minute = d.minute
    BY <2>2 DEF Shows, SameDay
  <2>4. Dated(f, last)
    BY <1>1, <2>3 DEF Dated, SameDay, Fields
  <2>5. Dated(e, last + 1) /\ Later(f, e, 60) /\ Further(f, e, 64)
    BY <1>4, <1>6, <2>1, <2>4, MinuteAddedIs
  <2>6. DayNumber(f) = DayNumber(d) /\ High(f) = High(d)
    BY <2>3, SameDayIs
  <2>7. /\ Clock(d) \in Nat /\ Clock(f) = Clock(d) - 59
        /\ Low(d) \in Nat /\ Low(f) = Low(d) - 59
    <3>1. At(f, h, m, 0) /\ s = 59
      BY <1>6, <1>7, <2>3 DEF At
    <3>2. Counts(f, h, m, 0)
      BY <3>1, ClockIs
    <3> QED
      BY <1>7, <1>8, <3>1, <3>2 DEF At, Counts
  <2>8. Clock(e) \in Nat /\ Low(e) \in Nat
    <3>1. Counts(e, e.hour, e.minute, e.second)
      BY <2>5, ClockStands, ClockIs
    <3> QED
      BY <3>1 DEF Counts
  <2>9. Later(d, e, 1)
    BY <2>5, <2>6, <2>7, <2>8 DEF Later, SECS_PER_DAY
  <2>10. Further(d, e, 1)
    BY <2>5, <2>6, <2>7, <2>8 DEF Further
  <2> QED
    BY <2>5, <2>9, <2>10
<1> QED
  BY <1>5, <1>6

-----------------------------------------------------------------------------
(* The register *)

LEMMA CivilIs ==
    ASSUME NEW d \in Fields
    PROVE  Shows(Civil(d), d.year, d.month + 1, d.day + 1, d.hour, d.minute, d.second)
<1>1. /\ d.year \in Nat /\ d.month \in Nat /\ d.day \in Nat
      /\ d.hour \in Nat /\ d.minute \in Nat /\ d.second \in Nat
  BY DEF Fields
<1>2. d = [year |-> d.year, month |-> d.month, day |-> d.day,
           hour |-> d.hour, minute |-> d.minute, second |-> d.second]
  BY DEF Fields
<1>3. PICK m, n : m = d.month + 1 /\ n = d.day + 1
  OBVIOUS
<1>4. m \in Nat /\ n \in Nat
  BY <1>1, <1>3
<1>5. Civil(d) = [d EXCEPT !.month = m, !.day = n]
  BY <1>3 DEF Civil
<1>6. Civil(d) = [year |-> d.year, month |-> m, day |-> n,
                  hour |-> d.hour, minute |-> d.minute, second |-> d.second]
  BY <1>2, <1>5
<1>7. Shows(Civil(d), d.year, m, n, d.hour, d.minute, d.second)
  BY <1>1, <1>4, <1>6 DEF Shows, Fields
<1> QED
  BY <1>3, <1>7

\* A year from 2000, a month and a day are one half of the register, the clock the other.
IsHigh(high, y, m, n) == y \in 0..63 /\ m \in 0..15 /\ n \in 0..31 /\ high = y * 512 + m * 32 + n
Divided(high, y, m, n) == high \in Nat /\ high \div 512 = y /\ (high \div 32) % 16 = m /\ high % 32 = n
IsLow(low, h, m, s) == h \in 0..23 /\ m \in 0..59 /\ s \in 0..59 /\ low = h * 4096 + m * 64 + s
DividedLow(low, h, m, s) == low \in Nat /\ low \div 4096 = h /\ (low \div 64) % 64 = m /\ low % 64 = s

\* The register has the years up to this one, and the last second of a day in its lower half.
LAST_YEAR == 2063
LAST_LOW == 98043

LEMMA DivideHigh ==
    ASSUME NEW high, NEW y, NEW m, NEW n, IsHigh(high, y, m, n)
    PROVE  Divided(high, y, m, n)
<1>1. y \in Nat /\ m \in Nat /\ m < 16 /\ n \in Nat /\ n < 32 /\ high = y * 512 + m * 32 + n
  BY DEF IsHigh
<1>2. PICK k \in Nat : k = m * 32 + n /\ k < 512
  BY <1>1
<1>3. high \in Nat /\ high \div 512 = y
  BY <1>1, <1>2
<1>4. PICK j \in Nat : j = y * 16 + m
  BY <1>1
<1>5. high = j * 32 + n
  BY <1>1, <1>4
<1>6. high \div 32 = j /\ high % 32 = n
  BY <1>1, <1>5
<1>7. j % 16 = m
  BY <1>1, <1>4
<1> QED
  BY <1>3, <1>6, <1>7 DEF Divided

LEMMA DivideLow ==
    ASSUME NEW low, NEW h, NEW m, NEW s, IsLow(low, h, m, s)
    PROVE  DividedLow(low, h, m, s) /\ low <= LAST_LOW
<1>1. /\ h \in Nat /\ h < 24 /\ m \in Nat /\ m < 60 /\ s \in Nat /\ s < 60
      /\ low = h * 4096 + m * 64 + s
  BY DEF IsLow
<1>2. PICK k \in Nat : k = m * 64 + s /\ k < 4096
  BY <1>1
<1>3. low \in Nat /\ low \div 4096 = h
  BY <1>1, <1>2
<1>4. PICK j \in Nat : j = h * 64 + m
  BY <1>1
<1>5. low = j * 64 + s
  BY <1>1, <1>4
<1>6. low \div 64 = j /\ low % 64 = s
  BY <1>1, <1>5
<1>7. j % 64 = m
  BY <1>1, <1>4
<1>8. low <= LAST_LOW
  BY <1>1, SMT DEF LAST_LOW
<1> QED
  BY <1>3, <1>6, <1>7, <1>8 DEF DividedLow

LEMMA RegisterIs ==
    ASSUME NEW last \in Nat, last <= LAST_YEAR, NEW d, Dated(d, last)
    PROVE  /\ ToRegister(Civil(d)) = <<High(d), Low(d)>>
           /\ High(d) \in Nat /\ Low(d) \in Nat /\ Low(d) <= LAST_LOW
           /\ ToTime(<<High(d), Low(d)>>) = Civil(d)
<1>1. d \in Fields
  BY DEF Dated
<1>2. PICK t : t = Civil(d)
  OBVIOUS
<1>3. /\ t \in Fields /\ t.year = d.year /\ t.month = d.month + 1 /\ t.day = d.day + 1
      /\ t.hour = d.hour /\ t.minute = d.minute /\ t.second = d.second
  BY <1>1, <1>2, CivilIs DEF Shows
<1>4. d.year \in 2000..2063 /\ d.month \in 0..11 /\ d.day \in 0..30
  <2>1. MonthDays(calendar_leapyear(d.year), d.month) \in 28..31
    BY DEF MonthDays
  <2> QED
    BY <2>1 DEF Dated, Fields, LAST_YEAR
<1>5. PICK high, y : y = d.year - 2000 /\ high = y * 512 + t.month * 32 + t.day
  OBVIOUS
<1>6. PICK low : low = t.hour * 4096 + t.minute * 64 + t.second
  OBVIOUS
<1>7. High(d) = high /\ Low(d) = low
  BY <1>3, <1>5, <1>6 DEF High, Low
<1>8. IsHigh(high, y, t.month, t.day)
  <2>1. y \in 0..63
    BY <1>4, <1>5
  <2>2. t.month \in 0..15 /\ t.day \in 0..31
    BY <1>3, <1>4
  <2> QED
    BY <1>5, <2>1, <2>2 DEF IsHigh
<1>9. IsLow(low, t.hour, t.minute, t.second)
  <2>1. At(d, d.hour, d.minute, d.second)
    BY ClockStands
  <2> QED
    BY <1>3, <1>6, <2>1 DEF IsLow, At
<1>10. Divided(high, y, t.month, t.day)
  BY <1>8, DivideHigh
<1>11. DividedLow(low, t.hour, t.minute, t.second) /\ low <= LAST_LOW
  BY <1>9, DivideLow
<1>12. ToRegister(t) = <<high, low>>
  <2>1. (t.year - 2000) % 64 = y
    BY <1>3, <1>4, <1>5
  <2> QED
    BY <1>5, <1>6, <2>1 DEF ToRegister
<1>13. ToTime(<<high, low>>) = t
  <2>1. ToTime(<<high, low>>) = [year |-> y + 2000, month |-> t.month, day |-> t.day,
                                 hour |-> t.hour, minute |-> t.minute, second |-> t.second]
    BY <1>10, <1>11 DEF ToTime, Divided, DividedLow
  <2>2. y + 2000 = t.year
    BY <1>3, <1>4, <1>5
  <2>3. t = [year |-> t.year, month |-> t.month, day |-> t.day,
             hour |-> t.hour, minute |-> t.minute, second |-> t.second]
    BY <1>3 DEF Fields
  <2> QED
    BY <2>1, <2>2, <2>3
<1>14. high \in Nat /\ low \in Nat
  BY <1>10, <1>11 DEF Divided, DividedLow
<1> QED
  BY <1>2, <1>7, <1>11, <1>12, <1>13, <1>14

\* Halves of which one is further than the other
LEMMA HalvesApart ==
    ASSUME NEW a \in Nat, NEW b \in Nat, NEW f \in Nat, NEW g \in Nat, NEW low \in Nat, 0 < low,
           b <= LAST_LOW, g <= LAST_LOW, a < f \/ (a = f /\ b + low <= g)
    PROVE  /\ Below(<<a, b>>, <<f, g>>)
           /\ low > 60 => check_time(<<a, b>>, <<f, g>>) /\ check_time(<<f, g>>, <<a, b>>)
<1>1. Below(<<a, b>>, <<f, g>>)
  BY DEF Below
<1>2. ASSUME low > 60
      PROVE  check_time(<<a, b>>, <<f, g>>) /\ check_time(<<f, g>>, <<a, b>>)
  <2>1. a - f \notin -1..1 \/ (a - f) * 131072 + (b - g) \notin -60..60
    <3>1. CASE a = f
      <4>1. (a - f) * 131072 + (b - g) = b - g
        BY <3>1, SMT
      <4> QED
        BY <1>2, <3>1, <4>1, SMT
    <3>2. CASE f = a + 1
      BY <3>2, SMT DEF LAST_LOW
    <3>3. CASE a + 1 < f
      BY <3>3, SMT
    <3> QED
      BY <3>1, <3>2, <3>3, SMT
  <2>2. f - a \notin -1..1 \/ (f - a) * 131072 + (g - b) \notin -60..60
    <3>1. CASE a = f
      <4>1. (f - a) * 131072 + (g - b) = g - b
        BY <3>1, SMT
      <4> QED
        BY <1>2, <3>1, <4>1, SMT
    <3>2. CASE f = a + 1
      BY <3>2, SMT DEF LAST_LOW
    <3>3. CASE a + 1 < f
      BY <3>3, SMT
    <3> QED
      BY <3>1, <3>2, <3>3, SMT
  <2> QED
    BY <2>1, <2>2, SMT DEF check_time
<1> QED
  BY <1>1, <1>2

\* What is further is greater, and a minute further is noticed.
LEMMA FurtherIs ==
    ASSUME NEW last \in Nat, last <= LAST_YEAR, NEW d, Dated(d, last), NEW e, Dated(e, last),
           NEW low \in Nat, 0 < low, Further(d, e, low),
           NEW r, r = ToRegister(Civil(d)), NEW s, s = ToRegister(Civil(e))
    PROVE  Below(r, s) /\ (low > 60 => check_time(r, s) /\ check_time(s, r))
<1>1. r = <<High(d), Low(d)>> /\ High(d) \in Nat /\ Low(d) \in Nat /\ Low(d) <= LAST_LOW
  BY RegisterIs
<1>2. s = <<High(e), Low(e)>> /\ High(e) \in Nat /\ Low(e) \in Nat /\ Low(e) <= LAST_LOW
  BY RegisterIs
<1>3. High(d) < High(e) \/ (High(d) = High(e) /\ Low(d) + low <= Low(e))
  BY DEF Further
<1> QED
  BY <1>1, <1>2, <1>3, HalvesApart

-----------------------------------------------------------------------------
(* There and back *)

DaysOfYear(leap) == 365 + (IF leap THEN 1 ELSE 0)

\* The month and the day of what is left of the year
LEMMA MonthOf ==
    ASSUME NEW leap \in BOOLEAN, NEW m \in 0..11, NEW n \in Nat, n < MonthDays(leap, m)
    PROVE  /\ Months(leap)[m] \in Nat /\ Left(leap)[0][Months(leap)[m] + n] = <<m, n>>
           /\ Months(leap)[m] + n < DaysOfYear(leap)
<1> DEFINE M == Months(leap)
<1>1. SumsOf(M, 0, 12, MonthSizes(leap))
  BY MonthsAre
<1>2. TakesOff(Left(leap), 0, 12, MonthSizes(leap))
  BY LeftIs
<1>3. MonthSizes(leap) \in [0..12 -> Nat]
  BY SizesAre
<1>4. m \in 0..12 /\ MonthSizes(leap)[m] = MonthDays(leap, m)
  BY DEF MonthSizes
<1>5. PICK size, w : size = MonthSizes(leap) /\ w = Left(leap)
  OBVIOUS
<1> HIDE DEF M
<1>6. w[0][M[m] + n] = <<m, n>>
  <2>1. SumsOf(M, 0, 12, size) /\ TakesOff(w, 0, 12, size) /\ size \in [0..12 -> Nat]
    BY <1>1, <1>2, <1>3, <1>5
  <2>2. m < 12 => n < size[m]
    BY <1>4, <1>5
  <2> QED
    <3>1. EndsRight(w, M, 0, 12, size)
      BY <2>1, Ends12, TakesOffAll
    <3> QED
      BY <1>4, <2>2, <3>1 DEF EndsRight
<1>7. M[m] \in Nat /\ M[m] + n < DaysOfYear(leap)
  <2>1. PICK k \in {0, 1} :
             /\ k = (IF leap THEN 1 ELSE 0)
             /\ M[0] = 0 /\ M[1] = 31 /\ M[2] = 59 + k /\ M[3] = 90 + k /\ M[4] = 120 + k
             /\ M[5] = 151 + k /\ M[6] = 181 + k /\ M[7] = 212 + k /\ M[8] = 243 + k
             /\ M[9] = 273 + k /\ M[10] = 304 + k /\ M[11] = 334 + k /\ M[12] = 365 + k
    BY MonthsBefore DEF M
  <2>2. PICK last \in 28..31 : /\ n < last /\ (m = 1 => last = 28 + k)
                                /\ (m \in {3, 5, 8, 10} => last = 30)
    BY <2>1 DEF MonthDays
  <2>3. CASE m = 0
    BY <2>1, <2>2, <2>3 DEF DaysOfYear
  <2>4. CASE m = 1
    BY <2>1, <2>2, <2>4 DEF DaysOfYear
  <2>5. CASE m = 2
    BY <2>1, <2>2, <2>5 DEF DaysOfYear
  <2>6. CASE m = 3
    BY <2>1, <2>2, <2>6 DEF DaysOfYear
  <2>7. CASE m = 4
    BY <2>1, <2>2, <2>7 DEF DaysOfYear
  <2>8. CASE m = 5
    BY <2>1, <2>2, <2>8 DEF DaysOfYear
  <2>9. CASE m = 6
    BY <2>1, <2>2, <2>9 DEF DaysOfYear
  <2>10. CASE m = 7
    BY <2>1, <2>2, <2>10 DEF DaysOfYear
  <2>11. CASE m = 8
    BY <2>1, <2>2, <2>11 DEF DaysOfYear
  <2>12. CASE m = 9
    BY <2>1, <2>2, <2>12 DEF DaysOfYear
  <2>13. CASE m = 10
    BY <2>1, <2>2, <2>13 DEF DaysOfYear
  <2>14. CASE m = 11
    BY <2>1, <2>2, <2>14 DEF DaysOfYear
  <2> QED
    BY <2>3, <2>4, <2>5, <2>6, <2>7, <2>8, <2>9, <2>10, <2>11, <2>12, <2>13, <2>14
<1> QED
  BY <1>5, <1>6, <1>7 DEF M

\* A year in the range of calendar_is_date_valid, and what is left of the days
LEMMA YearOf ==
    ASSUME NEW y \in EPOCH_YEAR..OVERFLOW_YEAR, NEW n \in Nat, n < calendar_yearsize(y)
    PROVE  Within[EPOCH_YEAR][YearDays[y] + n] = <<y, n>>
<1>1. SumsOf(YearDays, EPOCH_YEAR, OVERFLOW_YEAR, YearSizes)
  BY YearsAre
<1>2. TakesOff(Within, EPOCH_YEAR, OVERFLOW_YEAR, YearSizes)
  BY WithinIs
<1>3. YearSizes \in [EPOCH_YEAR..OVERFLOW_YEAR -> Nat]
  BY SizesAre
<1>4. YearSizes[y] = calendar_yearsize(y)
  BY DEF YearSizes
<1>5. y < OVERFLOW_YEAR => n < YearSizes[y]
  BY <1>4
<1> QED
  <2>1. EndsRight(Within, YearDays, EPOCH_YEAR, OVERFLOW_YEAR, YearSizes)
    BY <1>1, <1>2, <1>3, EndsOverflow, TakesOffAll
  <2> QED
    BY <1>5, <2>1 DEF EndsRight

\* Hours, minutes and seconds of a day
LEMMA DivideClock ==
    ASSUME NEW d, NEW h, NEW m, NEW s, At(d, h, m, s)
    PROVE  /\ Clock(d) \div SECS_PER_HOUR = h
           /\ (Clock(d) % SECS_PER_HOUR) \div SECS_PER_MINUTE = m /\ Clock(d) % SECS_PER_MINUTE = s
<1>1. h \in Nat /\ h < 24 /\ m \in Nat /\ m < 60 /\ s \in Nat /\ s < 60
  BY DEF At
<1>2. PICK clock \in Nat : clock = Clock(d) /\ clock = 3600 * h + 60 * m + s
  BY ClockIs DEF Counts
<1>3. PICK r \in Nat : r = 60 * m + s /\ r < 3600
  BY <1>1
<1>4. clock \div SECS_PER_HOUR = h /\ clock % SECS_PER_HOUR = r
  BY <1>1, <1>2, <1>3 DEF SECS_PER_HOUR
<1>5. r \div SECS_PER_MINUTE = m
  BY <1>1, <1>3 DEF SECS_PER_MINUTE
<1>6. PICK j \in Nat : j = 60 * h + m
  BY <1>1
<1>7. clock = 60 * j + s
  BY <1>1, <1>2, <1>6
<1>8. clock % SECS_PER_MINUTE = s
  BY <1>1, <1>6, <1>7 DEF SECS_PER_MINUTE
<1> QED
  BY <1>2, <1>4, <1>5, <1>8

LEMMA BackToDate ==
    ASSUME NEW last \in Nat, last <= LAST_YEAR, NEW d, Dated(d, last)
    PROVE  calendar_timestamp_to_date(<<DayNumber(d), Clock(d)>>) = d
<1> DEFINE y == d.year
           leap == calendar_leapyear(y)
           M == Months(leap)
<1>1. /\ d \in Fields /\ y \in 2000..2063 /\ d.month \in 0..11 /\ d.day \in Nat
      /\ d.day < MonthDays(leap, d.month)
  BY DEF Dated, Fields, LAST_YEAR
<1>2. leap \in BOOLEAN
  BY DEF calendar_leapyear
<1>3. PICK n : n = M[d.month] + d.day
  OBVIOUS
<1>4. /\ M[d.month] \in Nat /\ Left(leap)[0][n] = <<d.month, d.day>>
      /\ n < DaysOfYear(leap)
  <2> HIDE DEF M, leap
  <2>1. /\ Months(leap)[d.month] \in Nat
        /\ Left(leap)[0][Months(leap)[d.month] + d.day] = <<d.month, d.day>>
        /\ Months(leap)[d.month] + d.day < DaysOfYear(leap)
    <3>1. PICK m \in 0..11, day \in Nat : m = d.month /\ day = d.day /\ day < MonthDays(leap, m)
      BY <1>1
    <3>2. /\ Months(leap)[m] \in Nat /\ Left(leap)[0][Months(leap)[m] + day] = <<m, day>>
          /\ Months(leap)[m] + day < DaysOfYear(leap)
      BY <1>2, <3>1, MonthOf
    <3> QED
      BY <3>1, <3>2
  <2> QED
    BY <1>3, <2>1 DEF M
<1>5. n \in Nat /\ n < calendar_yearsize(y)
  BY <1>1, <1>3, <1>4 DEF calendar_yearsize, DaysOfYear
<1>6. y \in EPOCH_YEAR..OVERFLOW_YEAR
  BY <1>1 DEF EPOCH_YEAR, OVERFLOW_YEAR
<1>7. Within[EPOCH_YEAR][YearDays[y] + n] = <<y, n>>
  BY <1>5, <1>6, YearOf
<1>8. DayNumber(d) = YearDays[y] + n
  <2>1. DayNumber(d) = d.day + M[d.month] + YearDays[y]
    BY DEF DayNumber
  <2>2. YearDays[y] \in Nat
    BY <1>1, YearsBefore
  <2> HIDE DEF M, leap
  <2> QED
    BY <1>1, <1>3, <1>4, <2>1, <2>2
<1>9. EndYear(DayNumber(d)) = <<y, n>>
  BY <1>7, <1>8 DEF EndYear
<1>10. EndMonth(DayNumber(d)) = <<d.month, d.day>>
  BY <1>4, <1>9 DEF EndMonth
<1>11. /\ Clock(d) \div SECS_PER_HOUR = d.hour
       /\ (Clock(d) % SECS_PER_HOUR) \div SECS_PER_MINUTE = d.minute
       /\ Clock(d) % SECS_PER_MINUTE = d.second
  <2>1. At(d, d.hour, d.minute, d.second)
    BY ClockStands
  <2> QED
    BY <2>1, DivideClock
<1>12. PICK stamp : stamp = <<DayNumber(d), Clock(d)>>
  OBVIOUS
<1>13. stamp[1] = DayNumber(d) /\ stamp[2] = Clock(d)
  BY <1>12
<1>14. calendar_timestamp_to_date(stamp)
       = [year |-> y, month |-> d.month, day |-> d.day,
          hour |-> d.hour, minute |-> d.minute, second |-> d.second]
  <2>1. EndYear(stamp[1])[1] = y /\ EndMonth(stamp[1])[1] = d.month /\ EndMonth(stamp[1])[2] = d.day
    BY <1>9, <1>10, <1>13
  <2>2. /\ stamp[2] \div SECS_PER_HOUR = d.hour
        /\ (stamp[2] % SECS_PER_HOUR) \div SECS_PER_MINUTE = d.minute
        /\ stamp[2] % SECS_PER_MINUTE = d.second
    BY <1>11, <1>13
  <2> QED
    BY <2>1, <2>2, DateIs
<1>15. d = [year |-> d.year, month |-> d.month, day |-> d.day,
            hour |-> d.hour, minute |-> d.minute, second |-> d.second]
  BY <1>1 DEF Fields
<1> QED
  BY <1>12, <1>14, <1>15

LEMMA DatedIsValid ==
    ASSUME NEW last \in Nat, last <= LAST_YEAR, NEW d, Dated(d, last)
    PROVE  calendar_is_date_valid(d)
<1>1. MonthDays(calendar_leapyear(d.year), d.month) \in 28..31
  BY DEF MonthDays
<1> QED
  BY <1>1 DEF calendar_is_date_valid, Dated, Fields, LAST_YEAR, EPOCH_YEAR, OVERFLOW_YEAR

-----------------------------------------------------------------------------
(* The day of the week *)

LEMMA SameWeekday ==
    ASSUME NEW a \in Int, NEW b \in Int, NEW z \in Int, a = b + 7 * z
    PROVE  a % 7 = b % 7
OBVIOUS

\* The sum day_week takes of month m, counted from 0: the year begins in March.
WeekSum(day, year, m) ==
    LET y == IF m < 2 THEN year - 1 ELSE year
        n == IF m < 2 THEN m + 11 ELSE m - 1
    IN 7000 + day + y + y \div 4 - y \div 100 + y \div 400 + (31 * n) \div 12

LEMMA WeekSumIs ==
    ASSUME NEW t, NEW m \in 0..11, t.month = m + 1, t.year \in Nat
    PROVE  day_week(t) = WeekSum(t.day, t.year, m) % 7
<1>1. CASE m < 2
  <2>1. (14 - t.month) \div 12 = 1
    BY <1>1
  <2>2. t.month + 12 * 1 - 2 = m + 11
    OBVIOUS
  <2> QED
    BY <1>1, <2>1, <2>2 DEF day_week, WeekSum
<1>2. CASE m >= 2
  <2>1. (14 - t.month) \div 12 = 0
    BY <1>2
  <2>2. t.month + 12 * 0 - 2 = m - 1 /\ t.year - 0 = t.year /\ ~ (m < 2)
    BY <1>2
  <2> QED
    BY <2>1, <2>2 DEF day_week, WeekSum
<1> QED
  BY <1>1, <1>2

\* The quotients of a year the register has, by its quarter q and its leap day k
LEMMA QuotientsAre ==
    ASSUME NEW y \in 2000..2063
    PROVE  \E q \in Nat, k \in {0, 1} :
             /\ k = (IF calendar_leapyear(y) THEN 1 ELSE 0)
             /\ y \div 4 = q /\ (y - 1) \div 4 = q - k /\ (y - 1969) \div 4 = q - k - 492
             /\ y \div 400 - y \div 100 = -15 /\ (y - 1) \div 400 - (y - 1) \div 100 = -15
<1>1. calendar_leapyear(y) <=> y % 4 = 0
  BY LeapIs
<1>2. PICK q \in Nat, c \in 0..3 : y = 4 * q + c
  <2>1. PICK q, c : q = y \div 4 /\ c = y % 4
    OBVIOUS
  <2>2. q \in Nat /\ c \in 0..3 /\ y = 4 * q + c
    BY <2>1, SMT
  <2> QED
    BY <2>2
<1>3. PICK k \in {0, 1} : k = (IF calendar_leapyear(y) THEN 1 ELSE 0)
  OBVIOUS
<1>4. k = (IF c = 0 THEN 1 ELSE 0)
  BY <1>1, <1>2, <1>3
<1>5. y \div 4 = q /\ (y - 1) \div 4 = q - k /\ (y - 1969) \div 4 = q - k - 492
  BY <1>2, <1>4
<1>6. y \div 400 - y \div 100 = -15
  OBVIOUS
<1>7. (y - 1) \div 400 - (y - 1) \div 100 = -15
  OBVIOUS
<1> QED
  BY <1>3, <1>5, <1>6, <1>7

LEMMA DayWeekIs ==
    ASSUME NEW last \in Nat, last <= LAST_YEAR, NEW d, Dated(d, last)
    PROVE  DayNumber(d) \in Nat /\ day_week(Civil(d)) = (DayNumber(d) + 4) % 7
<1>1. /\ d \in Fields /\ d.year \in 2000..2063 /\ d.month \in 0..11 /\ d.day \in Nat
  BY DEF Dated, Fields, LAST_YEAR
<1>2. PICK y \in 2000..2063, m \in 0..11, n \in Nat : y = d.year /\ m = d.month /\ n = d.day
  BY <1>1
<1>3. PICK t : t = Civil(d)
  OBVIOUS
<1>4. t.year = y /\ t.month = m + 1 /\ t.day = n + 1
  BY <1>1, <1>2, <1>3, CivilIs DEF Shows
<1>5. day_week(t) = WeekSum(n + 1, y, m) % 7
  <2>1. day_week(t) = WeekSum(t.day, t.year, m) % 7
    BY <1>4, WeekSumIs
  <2> QED
    BY <1>4, <2>1
<1>6. PICK q \in Nat, k \in {0, 1} :
             /\ k = (IF calendar_leapyear(y) THEN 1 ELSE 0)
             /\ y \div 4 = q /\ (y - 1) \div 4 = q - k /\ (y - 1969) \div 4 = q - k - 492
             /\ y \div 400 - y \div 100 = -15 /\ (y - 1) \div 400 - (y - 1) \div 100 = -15
  BY QuotientsAre
<1>7. PICK leap \in BOOLEAN : leap = calendar_leapyear(y)
  <2>1. calendar_leapyear(y) \in BOOLEAN
    BY DEF calendar_leapyear
  <2> QED
    BY <2>1
<1>8. PICK j \in {0, 1} :
             /\ j = (IF leap THEN 1 ELSE 0)
             /\ Months(leap)[0] = 0 /\ Months(leap)[1] = 31
             /\ Months(leap)[2] = 59 + j /\ Months(leap)[3] = 90 + j /\ Months(leap)[4] = 120 + j
             /\ Months(leap)[5] = 151 + j /\ Months(leap)[6] = 181 + j /\ Months(leap)[7] = 212 + j
             /\ Months(leap)[8] = 243 + j /\ Months(leap)[9] = 273 + j /\ Months(leap)[10] = 304 + j
             /\ Months(leap)[11] = 334 + j /\ Months(leap)[12] = 365 + j
  BY MonthsBefore
<1>9. j = k
  BY <1>6, <1>7, <1>8
<1>10. YearDays[y] = 365 * (y - 1970) + (q - k - 492)
  <2>1. YearDays[y] = 365 * (y - 1970) + (y - 1969) \div 4
    BY YearsBefore
  <2> QED
    BY <1>6, <2>1
<1>11. DayNumber(d) = n + Months(leap)[m] + (365 * (y - 1970) + (q - k - 492))
  BY <1>2, <1>7, <1>10 DEF DayNumber
<1> SUFFICES DayNumber(d) \in Nat /\ WeekSum(n + 1, y, m) % 7 = (DayNumber(d) + 4) % 7
  BY <1>3, <1>5
<1>12. CASE m = 0
  <2>1. WeekSum(n + 1, y, m) = 7000 + (n + 1) + (y - 1) + (q - k) - 15 + 28
    <3>1. (31 * 11) \div 12 = 28
      BY SMT
    <3> QED
      BY <1>6, <1>12, <3>1, SMT DEF WeekSum
  <2>2. DayNumber(d) = n + 0 + (365 * (y - 1970) + (q - k - 492))
    BY <1>8, <1>9, <1>11, <1>12, SMT
  <2> QED
    <3>1. PICK z, b : z = 103793 - 52 * y /\ b = DayNumber(d) + 4
      OBVIOUS
    <3>2. z \in Int /\ b \in Int /\ WeekSum(n + 1, y, m) = b + 7 * z
      BY <1>6, <2>1, <2>2, <3>1, SMT
    <3>3. DayNumber(d) \in Nat
      BY <1>6, <2>2, SMT
    <3>4. WeekSum(n + 1, y, m) % 7 = b % 7
      BY <3>2, SameWeekday
    <3> QED
      BY <3>1, <3>3, <3>4
<1>13. CASE m = 1
  <2>1. WeekSum(n + 1, y, m) = 7000 + (n + 1) + (y - 1) + (q - k) - 15 + 31
    <3>1. (31 * 12) \div 12 = 31
      BY SMT
    <3> QED
      BY <1>6, <1>13, <3>1, SMT DEF WeekSum
  <2>2. DayNumber(d) = n + 31 + (365 * (y - 1970) + (q - k - 492))
    BY <1>8, <1>9, <1>11, <1>13, SMT
  <2> QED
    <3>1. PICK z, b : z = 103789 - 52 * y /\ b = DayNumber(d) + 4
      OBVIOUS
    <3>2. z \in Int /\ b \in Int /\ WeekSum(n + 1, y, m) = b + 7 * z
      BY <1>6, <2>1, <2>2, <3>1, SMT
    <3>3. DayNumber(d) \in Nat
      BY <1>6, <2>2, SMT
    <3>4. WeekSum(n + 1, y, m) % 7 = b % 7
      BY <3>2, SameWeekday
    <3> QED
      BY <3>1, <3>3, <3>4
<1>14. CASE m = 2
  <2>1. WeekSum(n + 1, y, m) = 7000 + (n + 1) + y + q - 15 + 2
    <3>1. (31 * 1) \div 12 = 2
      BY SMT
    <3> QED
      BY <1>6, <1>14, <3>1, SMT DEF WeekSum
  <2>2. DayNumber(d) = n + (59 + k) + (365 * (y - 1970) + (q - k - 492))
    BY <1>8, <1>9, <1>11, <1>14, SMT
  <2> QED
    <3>1. PICK z, b : z = 103781 - 52 * y /\ b = DayNumber(d) + 4
      OBVIOUS
    <3>2. z \in Int /\ b \in Int /\ WeekSum(n + 1, y, m) = b + 7 * z
      BY <1>6, <2>1, <2>2, <3>1, SMT
    <3>3. DayNumber(d) \in Nat
      BY <1>6, <2>2, SMT
    <3>4. WeekSum(n + 1, y, m) % 7 = b % 7
      BY <3>2, SameWeekday
    <3> QED
      BY <3>1, <3>3, <3>4
<1>15. CASE m = 3
  <2>1. WeekSum(n + 1, y, m) = 7000 + (n + 1) + y + q - 15 + 5
    <3>1. (31 * 2) \div 12 = 5
      BY SMT
    <3> QED
      BY <1>6, <1>15, <3>1, SMT DEF WeekSum
  <2>2. DayNumber(d) = n + (90 + k) + (365 * (y - 1970) + (q - k - 492))
    BY <1>8, <1>9, <1>11, <1>15, SMT
  <2> QED
    <3>1. PICK z, b : z = 103777 - 52 * y /\ b = DayNumber(d) + 4
      OBVIOUS
    <3>2. z \in Int /\ b \in Int /\ WeekSum(n + 1, y, m) = b + 7 * z
      BY <1>6, <2>1, <2>2, <3>1, SMT
    <3>3. DayNumber(d) \in Nat
      BY <1>6, <2>2, SMT
    <3>4. WeekSum(n + 1, y, m) % 7 = b % 7
      BY <3>2, SameWeekday
    <3> QED
      BY <3>1, <3>3, <3>4
<1>16. CASE m = 4
  <2>1. WeekSum(n + 1, y, m) = 7000 + (n + 1) + y + q - 15 + 7
    <3>1. (31 * 3) \div 12 = 7
      BY SMT
    <3> QED
      BY <1>6, <1>16, <3>1, SMT DEF WeekSum
  <2>2. DayNumber(d) = n + (120 + k) + (365 * (y - 1970) + (q - k - 492))
    BY <1>8, <1>9, <1>11, <1>16, SMT
  <2> QED
    <3>1. PICK z, b : z = 103773 - 52 * y /\ b = DayNumber(d) + 4
      OBVIOUS
    <3>2. z \in Int /\ b \in Int /\ WeekSum(n + 1, y, m) = b + 7 * z
      BY <1>6, <2>1, <2>2, <3>1, SMT
    <3>3. DayNumber(d) \in Nat
      BY <1>6, <2>2, SMT
    <3>4. WeekSum(n + 1, y, m) % 7 = b % 7
      BY <3>2, SameWeekday
    <3> QED
      BY <3>1, <3>3, <3>4
<1>17. CASE m = 5
  <2>1. WeekSum(n + 1, y, m) = 7000 + (n + 1) + y + q - 15 + 10
    <3>1. (31 * 4) \div 12 = 10
      BY SMT
    <3> QED
      BY <1>6, <1>17, <3>1, SMT DEF WeekSum
  <2>2. DayNumber(d) = n + (151 + k) + (365 * (y - 1970) + (q - k - 492))
    BY <1>8, <1>9, <1>11, <1>17, SMT
  <2> QED
    <3>1. PICK z, b : z = 103769 - 52 * y /\ b = DayNumber(d) + 4
      OBVIOUS
    <3>2. z \in Int /\ b \in Int /\ WeekSum(n + 1, y, m) = b + 7 * z
      BY <1>6, <2>1, <2>2, <3>1, SMT
    <3>3. DayNumber(d) \in Nat
      BY <1>6, <2>2, SMT
    <3>4. WeekSum(n + 1, y, m) % 7 = b % 7
      BY <3>2, SameWeekday
    <3> QED
      BY <3>1, <3>3, <3>4
<1>18. CASE m = 6
  <2>1. WeekSum(n + 1, y, m) = 7000 + (n + 1) + y + q - 15 + 12
    <3>1. (31 * 5) \div 12 = 12
      BY SMT
    <3> QED
      BY <1>6, <1>18, <3>1, SMT DEF WeekSum
  <2>2. DayNumber(d) = n + (181 + k) + (365 * (y - 1970) + (q - k - 492))
    BY <1>8, <1>9, <1>11, <1>18, SMT
  <2> QED
    <3>1. PICK z, b : z = 103765 - 52 * y /\ b = DayNumber(d) + 4
      OBVIOUS
    <3>2. z \in Int /\ b \in Int /\ WeekSum(n + 1, y, m) = b + 7 * z
      BY <1>6, <2>1, <2>2, <3>1, SMT
    <3>3. DayNumber(d) \in Nat
      BY <1>6, <2>2, SMT
    <3>4. WeekSum(n + 1, y, m) % 7 = b % 7
      BY <3>2, SameWeekday
    <3> QED
      BY <3>1, <3>3, <3>4
<1>19. CASE m = 7
  <2>1. WeekSum(n + 1, y, m) = 7000 + (n + 1) + y + q - 15 + 15
    <3>1. (31 * 6) \div 12 = 15
      BY SMT
    <3> QED
      BY <1>6, <1>19, <3>1, SMT DEF WeekSum
  <2>2. DayNumber(d) = n + (212 + k) + (365 * (y - 1970) + (q - k - 492))
    BY <1>8, <1>9, <1>11, <1>19, SMT
  <2> QED
    <3>1. PICK z, b : z = 103761 - 52 * y /\ b = DayNumber(d) + 4
      OBVIOUS
    <3>2. z \in Int /\ b \in Int /\ WeekSum(n + 1, y, m) = b + 7 * z
      BY <1>6, <2>1, <2>2, <3>1, SMT
    <3>3. DayNumber(d) \in Nat
      BY <1>6, <2>2, SMT
    <3>4. WeekSum(n + 1, y, m) % 7 = b % 7
      BY <3>2, SameWeekday
    <3> QED
      BY <3>1, <3>3, <3>4
<1>20. CASE m = 8
  <2>1. WeekSum(n + 1, y, m) = 7000 + (n + 1) + y + q - 15 + 18
    <3>1. (31 * 7) \div 12 = 18
      BY SMT
    <3> QED
      BY <1>6, <1>20, <3>1, SMT DEF WeekSum
  <2>2. DayNumber(d) = n + (243 + k) + (365 * (y - 1970) + (q - k - 492))
    BY <1>8, <1>9, <1>11, <1>20, SMT
  <2> QED
    <3>1. PICK z, b : z = 103757 - 52 * y /\ b = DayNumber(d) + 4
      OBVIOUS
    <3>2. z \in Int /\ b \in Int /\ WeekSum(n + 1, y, m) = b + 7 * z
      BY <1>6, <2>1, <2>2, <3>1, SMT
    <3>3. DayNumber(d) \in Nat
      BY <1>6, <2>2, SMT
    <3>4. WeekSum(n + 1, y, m) % 7 = b % 7
      BY <3>2, SameWeekday
    <3> QED
      BY <3>1, <3>3, <3>4
<1>21. CASE m = 9
  <2>1. WeekSum(n + 1, y, m) = 7000 + (n + 1) + y + q - 15 + 20
    <3>1. (31 * 8) \div 12 = 20
      BY SMT
    <3> QED
      BY <1>6, <1>21, <3>1, SMT DEF WeekSum
  <2>2. DayNumber(d) = n + (273 + k) + (365 * (y - 1970) + (q - k - 492))
    BY <1>8, <1>9, <1>11, <1>21, SMT
  <2> QED
    <3>1. PICK z, b : z = 103753 - 52 * y /\ b = DayNumber(d) + 4
      OBVIOUS
    <3>2. z \in Int /\ b \in Int /\ WeekSum(n + 1, y, m) = b + 7 * z
      BY <1>6, <2>1, <2>2, <3>1, SMT
    <3>3. DayNumber(d) \in Nat
      BY <1>6, <2>2, SMT
    <3>4. WeekSum(n + 1, y, m) % 7 = b % 7
      BY <3>2, SameWeekday
    <3> QED
      BY <3>1, <3>3, <3>4
<1>22. CASE m = 10
  <2>1. WeekSum(n + 1, y, m) = 7000 + (n + 1) + y + q - 15 + 23
    <3>1. (31 * 9) \div 12 = 23
      BY SMT
    <3> QED
      BY <1>6, <1>22, <3>1, SMT DEF WeekSum
  <2>2. DayNumber(d) = n + (304 + k) + (365 * (y - 1970) + (q - k - 492))
    BY <1>8, <1>9, <1>11, <1>22, SMT
  <2> QED
    <3>1. PICK z, b : z = 103749 - 52 * y /\ b = DayNumber(d) + 4
      OBVIOUS
    <3>2. z \in Int /\ b \in Int /\ WeekSum(n + 1, y, m) = b + 7 * z
      BY <1>6, <2>1, <2>2, <3>1, SMT
    <3>3. DayNumber(d) \in Nat
      BY <1>6, <2>2, SMT
    <3>4. WeekSum(n + 1, y, m) % 7 = b % 7
      BY <3>2, SameWeekday
    <3> QED
      BY <3>1, <3>3, <3>4
<1>23. CASE m = 11
  <2>1. WeekSum(n + 1, y, m) = 7000 + (n + 1) + y + q - 15 + 25
    <3>1. (31 * 10) \div 12 = 25
      BY SMT
    <3> QED
      BY <1>6, <1>23, <3>1, SMT DEF WeekSum
  <2>2. DayNumber(d) = n + (334 + k) + (365 * (y - 1970) + (q - k - 492))
    BY <1>8, <1>9, <1>11, <1>23, SMT
  <2> QED
    <3>1. PICK z, b : z = 103745 - 52 * y /\ b = DayNumber(d) + 4
      OBVIOUS
    <3>2. z \in Int /\ b \in Int /\ WeekSum(n + 1, y, m) = b + 7 * z
      BY <1>6, <2>1, <2>2, <3>1, SMT
    <3>3. DayNumber(d) \in Nat
      BY <1>6, <2>2, SMT
    <3>4. WeekSum(n + 1, y, m) % 7 = b % 7
      BY <3>2, SameWeekday
    <3> QED
      BY <3>1, <3>3, <3>4
<1> QED
  BY <1>12, <1>13, <1>14, <1>15, <1>16, <1>17, <1>18, <1>19, <1>20, <1>21, <1>22, <1>23

-----------------------------------------------------------------------------
(* The clock *)

LEMMA DayIsLater ==
    ASSUME NEW last \in Nat, last < 2063, NEW d, Dated(d, last), NEW e, e = DayAdded(d)
    PROVE  Dated(e, last + 1) /\ Later(d, e, 86400) /\ Further(d, e, 64)
<1>1. /\ Dated(e, last + 1) /\ SameClock(d, e)
      /\ DayNumber(d) \in Nat /\ DayNumber(e) = DayNumber(d) + 1 /\ High(d) < High(e)
  BY DayAddedIs
<1>2. PICK h, m, s : At(d, h, m, s)
  BY ClockStands
<1>3. At(e, h, m, s)
  BY <1>1, <1>2 DEF SameClock, At
<1>4. Counts(d, h, m, s) /\ Counts(e, h, m, s)
  BY <1>2, <1>3, ClockIs
<1>5. Clock(d) \in Nat /\ Clock(e) = Clock(d)
  BY <1>4 DEF Counts
<1>6. Later(d, e, 86400)
  BY <1>1, <1>5, SMT DEF Later, SECS_PER_DAY
<1> QED
  BY <1>1, <1>6 DEF Further

\* Two timestamps that far apart
StampAfter(d, e, seconds) ==
    LET now == calendar_date_to_timestamp(d)
        clock == now[2] + seconds
    IN calendar_date_to_timestamp(e) = <<now[1] + clock \div SECS_PER_DAY, clock % SECS_PER_DAY>>

LEMMA LaterIs ==
    ASSUME NEW last, NEW d, NEW e, Dated(d, last), Dated(e, last + 1),
           NEW seconds \in Nat, Later(d, e, seconds)
    PROVE  StampAfter(d, e, seconds)
<1>1. PICK a, b, c, f : a = DayNumber(d) /\ b = Clock(d) /\ c = DayNumber(e) /\ f = Clock(e)
  OBVIOUS
<1>2. b \in Nat
  <2>1. Counts(d, d.hour, d.minute, d.second)
    BY ClockStands, ClockIs
  <2> QED
    BY <1>1, <2>1 DEF Counts
<1>3. f \in Nat /\ f < SECS_PER_DAY
  <2>1. PICK h, m, s : At(e, h, m, s)
    BY ClockStands
  <2>2. Counts(e, h, m, s)
    BY <2>1, ClockIs
  <2> QED
    BY <1>1, <2>1, <2>2, SMT DEF At, Counts, SECS_PER_DAY
<1>4. a \in Nat /\ c \in Nat /\ SECS_PER_DAY * c + f = SECS_PER_DAY * a + b + seconds
  BY <1>1 DEF Later
<1>5. PICK clock : clock = b + seconds
  OBVIOUS
<1>6. a + clock \div SECS_PER_DAY = c /\ clock % SECS_PER_DAY = f
  <2>1. PICK n : n = c - a
    OBVIOUS
  <2>2. n \in Int /\ clock \in Nat /\ clock = SECS_PER_DAY * n + f /\ a + n = c
    BY <1>2, <1>3, <1>4, <1>5, <2>1, SMT DEF SECS_PER_DAY
  <2>3. clock \div SECS_PER_DAY = n /\ clock % SECS_PER_DAY = f
    BY <1>3, <2>2, SMT DEF SECS_PER_DAY
  <2> QED
    BY <2>2, <2>3
<1>7. PICK now : now = calendar_date_to_timestamp(d)
  OBVIOUS
<1>8. now[1] = a /\ now[2] = b
  BY <1>1, <1>7, StampIs
<1>9. calendar_date_to_timestamp(e) = <<c, f>>
  BY <1>1, StampIs
<1>10. calendar_date_to_timestamp(e) = <<now[1] + (now[2] + seconds) \div SECS_PER_DAY,
                                         (now[2] + seconds) % SECS_PER_DAY>>
  BY <1>5, <1>6, <1>8, <1>9
<1> QED
  BY <1>7, <1>10 DEF StampAfter

\* The register of one date leads back to it, and the one of a later date is greater.
Ordered(d, e, low) ==
    LET r == ToRegister(Civil(d))
        s == ToRegister(Civil(e))
    IN /\ ToTime(r) = Civil(d) /\ Below(r, s)
       /\ low > 60 => check_time(r, s) /\ check_time(s, r)

LEMMA OrderedIs ==
    ASSUME NEW last \in Nat, last < 2063, NEW d, Dated(d, last), NEW e, Dated(e, last + 1),
           NEW low \in Nat, 0 < low, Further(d, e, low)
    PROVE  Ordered(d, e, low)
<1>1. last + 1 \in Nat /\ last + 1 <= LAST_YEAR
  BY DEF LAST_YEAR
<1>2. Dated(d, last + 1)
  BY DEF Dated, Fields
<1>3. PICK r, s, more : r = ToRegister(Civil(d)) /\ s = ToRegister(Civil(e)) /\ more = last + 1
  OBVIOUS
<1>4. more \in Nat /\ more <= LAST_YEAR /\ Dated(d, more) /\ Dated(e, more)
  BY <1>1, <1>2, <1>3
<1>5. Below(r, s) /\ (low > 60 => check_time(r, s) /\ check_time(s, r))
  BY <1>3, <1>4, FurtherIs
<1>6. ToTime(r) = Civil(d)
  <2>1. ToRegister(Civil(d)) = <<High(d), Low(d)>> /\ ToTime(<<High(d), Low(d)>>) = Civil(d)
    BY <1>4, RegisterIs
  <2> QED
    BY <1>3, <2>1
<1> QED
  BY <1>3, <1>5, <1>6 DEF Ordered

-----------------------------------------------------------------------------
LastYear == LAST_YEAR - MaxSteps + moved

\* The date is one of the calendar, in years the register has, whatever moves are left.
DateInv == moved \in 0..MaxSteps /\ Dated(date, LastYear)

LEMMA DateInvInit == CalendarInit => DateInv
<1> SUFFICES ASSUME CalendarInit PROVE DateInv
  OBVIOUS
<1>1. moved = 0 /\ MaxSteps \in Nat
  BY CalendarAssumption DEF CalendarInit
<1>2. PICK year \in Years, month \in 0..11, day \in 0..30, clock \in Clocks :
          /\ date = [year |-> year, month |-> month, day |-> day,
                     hour |-> clock[1], minute |-> clock[2], second |-> clock[3]]
          /\ calendar_is_date_valid(date)
  BY Zenon DEF CalendarInit
<1>3. year \in Nat /\ 2000 <= year /\ year <= LastYear
  BY <1>1, CalendarAssumption DEF LastYear, LAST_YEAR
<1>4. clock[1] \in 0..23 /\ clock[2] \in 0..59 /\ clock[3] \in 0..59
  BY CalendarAssumption
<1>5. date \in Fields
  BY <1>2, <1>3, <1>4 DEF Fields
<1>6. Dated(date, LastYear)
  BY <1>2, <1>3, <1>4, <1>5 DEF Dated, calendar_is_date_valid
<1> QED
  BY <1>1, <1>6 DEF DateInv

\* One move of the date
LEMMA MoveIs ==
    ASSUME DateInv, NEW d, Moves(d)
    PROVE  /\ LastYear \in Nat /\ LastYear < 2063 /\ Dated(date, LastYear)
           /\ date' = d /\ (Dated(d, LastYear + 1) => DateInv')
<1>1. /\ moved \in 0..MaxSteps /\ moved < MaxSteps /\ moved' = moved + 1 /\ date' = d
      /\ MaxSteps \in Nat /\ Dated(date, LastYear)
  BY CalendarAssumption DEF DateInv, Moves
<1>2. LastYear \in Nat /\ LastYear < 2063 /\ LastYear' = LastYear + 1
  BY <1>1 DEF LastYear, LAST_YEAR, Dated, Fields
<1> QED
  BY <1>1, <1>2 DEF DateInv

\* What a move of so many seconds is to keep
Keeps(seconds, low) == DateInv' /\ StampAfter(date, date', seconds) /\ Ordered(date, date', low)

LEMMA KeepsIs ==
    ASSUME DateInv, NEW d, Moves(d), NEW seconds \in Nat, NEW low \in Nat, 0 < low,
           Dated(d, LastYear + 1), Later(date, d, seconds), Further(date, d, low)
    PROVE  Keeps(seconds, low)
<1>1. /\ LastYear \in Nat /\ LastYear < 2063 /\ Dated(date, LastYear)
      /\ date' = d /\ DateInv'
  BY MoveIs
<1>2. StampAfter(date, d, seconds)
  BY <1>1, LaterIs
<1>3. Ordered(date, d, low)
  BY <1>1, OrderedIs
<1> QED
  BY <1>1, <1>2, <1>3 DEF Keeps

LEMMA SecondKeeps == DateInv /\ AddSecond => Keeps(1, 1)
<1> SUFFICES ASSUME DateInv, AddSecond PROVE Keeps(1, 1)
  OBVIOUS
<1>1. PICK e : e = SecondAdded(date) /\ Moves(e)
  BY DEF AddSecond
<1>2. LastYear \in Nat /\ LastYear < 2063 /\ Dated(date, LastYear)
  BY <1>1, MoveIs
<1>3. Dated(e, LastYear + 1) /\ Later(date, e, 1) /\ Further(date, e, 1)
  BY <1>1, <1>2, SecondAddedIs
<1>4. 1 \in Nat /\ 0 < 1
  OBVIOUS
<1> QED
  BY <1>1, <1>3, <1>4, KeepsIs

LEMMA MinuteKeeps == DateInv /\ AddMinute => Keeps(60, 64)
<1> SUFFICES ASSUME DateInv, AddMinute PROVE Keeps(60, 64)
  OBVIOUS
<1>1. PICK e : e = MinuteAdded(date) /\ Moves(e)
  BY DEF AddMinute
<1>2. LastYear \in Nat /\ LastYear < 2063 /\ Dated(date, LastYear)
  BY <1>1, MoveIs
<1>3. Dated(e, LastYear + 1) /\ Later(date, e, 60) /\ Further(date, e, 64)
  BY <1>1, <1>2, MinuteAddedIs
<1>4. 60 \in Nat /\ 64 \in Nat /\ 0 < 64
  BY SMT
<1> QED
  BY <1>1, <1>3, <1>4, KeepsIs

LEMMA HourKeeps == DateInv /\ AddHour => Keeps(3600, 4096)
<1> SUFFICES ASSUME DateInv, AddHour PROVE Keeps(3600, 4096)
  OBVIOUS
<1>1. PICK e : e = HourAdded(date) /\ Moves(e)
  BY DEF AddHour
<1>2. LastYear \in Nat /\ LastYear < 2063 /\ Dated(date, LastYear)
  BY <1>1, MoveIs
<1>3. Dated(e, LastYear + 1) /\ Later(date, e, 3600) /\ Further(date, e, 4096)
  BY <1>1, <1>2, HourAddedIs
<1>4. 3600 \in Nat /\ 4096 \in Nat /\ 0 < 4096
  BY SMT
<1> QED
  BY <1>1, <1>3, <1>4, KeepsIs

LEMMA DayKeeps == DateInv /\ AddDay => Keeps(86400, 64)
<1> SUFFICES ASSUME DateInv, AddDay PROVE Keeps(86400, 64)
  OBVIOUS
<1>1. PICK e : e = DayAdded(date) /\ Moves(e)
  BY DEF AddDay
<1>2. LastYear \in Nat /\ LastYear < 2063 /\ Dated(date, LastYear)
  BY <1>1, MoveIs
<1>3. Dated(e, LastYear + 1) /\ Later(date, e, 86400) /\ Further(date, e, 64)
  BY <1>1, <1>2, DayIsLater
<1>4. 86400 \in Nat /\ 64 \in Nat /\ 0 < 64
  BY SMT
<1> QED
  BY <1>1, <1>3, <1>4, KeepsIs

LEMMA ShiftKeeps ==
    ASSUME DateInv, NEW hour \in {3, 12}, ShiftEast(hour)
    PROVE  Keeps(3600 * hour, 4096)
<1>1. PICK e : e = ToTimeZone(date, hour, 0) /\ Moves(e)
  BY DEF ShiftEast
<1>2. LastYear \in Nat /\ LastYear < 2063 /\ Dated(date, LastYear)
  BY <1>1, MoveIs
<1>3. Dated(e, LastYear + 1) /\ Later(date, e, 3600 * hour) /\ Further(date, e, 4096)
  BY <1>1, <1>2, TimeZoneIs
<1>4. 3600 * hour \in Nat /\ 4096 \in Nat /\ 0 < 4096
  BY SMT
<1> QED
  BY <1>1, <1>3, <1>4, KeepsIs

\* Every step keeps the dates in order.
LEMMA StepKeeps ==
    ASSUME DateInv, CalendarNext
    PROVE  /\ DateInv'
           /\ \E low \in Nat : Ordered(date, date', low) /\ (~ AddSecond => low > 60)
<1>1. CASE AddSecond
  BY <1>1, SecondKeeps DEF Keeps
<1>2. CASE AddMinute
  <2>1. DateInv' /\ Ordered(date, date', 64)
    BY <1>2, MinuteKeeps DEF Keeps
  <2> QED
    BY <2>1
<1>3. CASE AddHour
  <2>1. DateInv' /\ Ordered(date, date', 4096)
    BY <1>3, HourKeeps DEF Keeps
  <2> QED
    BY <2>1, SMT
<1>4. CASE AddDay
  <2>1. DateInv' /\ Ordered(date, date', 64)
    BY <1>4, DayKeeps DEF Keeps
  <2> QED
    BY <2>1
<1>5. CASE \E hour \in {3, 12} : ShiftEast(hour)
  <2>1. PICK hour \in {3, 12} : ShiftEast(hour)
    BY <1>5
  <2>2. DateInv' /\ Ordered(date, date', 4096)
    BY <2>1, ShiftKeeps DEF Keeps
  <2> QED
    BY <2>2, SMT
<1> QED
  BY <1>1, <1>2, <1>3, <1>4, <1>5 DEF CalendarNext

\* The date stays one of the calendar through every move.
THEOREM DatesStayInCalendar == CalendarSpec => []DateInv
<1>1. CalendarInit => DateInv
  BY DateInvInit
<1>2. DateInv /\ [CalendarNext]_dateVars => DateInv'
  <2>1. CASE UNCHANGED dateVars
    BY <2>1 DEF DateInv, LastYear, dateVars
  <2> QED
    BY <2>1, StepKeeps
<1> QED
  BY <1>1, <1>2, PTL DEF CalendarSpec

\* MovesExactly, for every year of the register and every time of day: a second, a
\* minute, an hour, a day, or the hours of a time zone move the timestamp by just
\* that, over the ends of days, months, leap Februaries and years
\* (calendar.c:78-190, 303-334, 462-471).
THEOREM TimestampsMoveExactly == CalendarSpec => MovesExactly
<1>1. DateInv /\ AddSecond => After(1)
  BY SecondKeeps DEF Keeps, StampAfter, After
<1>2. DateInv /\ AddMinute => After(60)
  BY MinuteKeeps DEF Keeps, StampAfter, After
<1>3. DateInv /\ AddHour => After(3600)
  BY HourKeeps DEF Keeps, StampAfter, After
<1>4. DateInv /\ AddDay => After(86400)
  BY DayKeeps DEF Keeps, StampAfter, After
<1>5. ASSUME DateInv, NEW hour \in {3, 12}, ShiftEast(hour)
      PROVE  After(3600 * hour)
  BY <1>5, ShiftKeeps DEF Keeps, StampAfter, After
<1>6. DateInv /\ [CalendarNext]_dateVars =>
        [/\ AddSecond => After(1)
         /\ AddMinute => After(60)
         /\ AddHour => After(3600)
         /\ AddDay => After(86400)
         /\ \A hour \in {3, 12} : ShiftEast(hour) => After(3600 * hour)]_dateVars
  BY <1>1, <1>2, <1>3, <1>4, <1>5
<1> QED
  BY <1>6, DatesStayInCalendar, PTL DEF CalendarSpec, MovesExactly

\* RegisterKeepsOrder, for every year the register has: the register leads back to the
\* time it was made of, a later time is a greater register, and a clock that is a
\* minute or more off is told to set itself (rtc.c:11-32, incury.c:193-204).
THEOREM RegistersKeepOrder == CalendarSpec => RegisterKeepsOrder
<1>1. ASSUME DateInv, CalendarNext
      PROVE  /\ ToTime(Register) = Civil(date)
             /\ Below(Register, Register')
             /\ ~ AddSecond => check_time(Register, Register') /\ check_time(Register', Register)
  <2>1. PICK low \in Nat : Ordered(date, date', low) /\ (~ AddSecond => low > 60)
    BY <1>1, StepKeeps
  <2> QED
    BY <2>1 DEF Ordered, Register
<1>2. DateInv /\ [CalendarNext]_dateVars =>
        [/\ ToTime(Register) = Civil(date)
         /\ Below(Register, Register')
         /\ ~ AddSecond => check_time(Register, Register') /\ check_time(Register', Register)]_dateVars
  BY <1>1
<1> QED
  BY <1>2, DatesStayInCalendar, PTL DEF CalendarSpec, RegisterKeepsOrder

\* DatesAgree, for every year the register has: a timestamp leads back to its date,
\* which the program's own test accepts, and its days give the day of the week
\* (calendar.c:203-265, 303-334, rtc.c:4-9).
THEOREM DatesAlwaysAgree == CalendarSpec => []DatesAgree
<1>1. DateInv => DatesAgree
  <2> SUFFICES ASSUME DateInv PROVE DatesAgree
    OBVIOUS
  <2>1. PICK last : last = LastYear
    OBVIOUS
  <2>2. last \in Nat /\ last <= LAST_YEAR /\ Dated(date, last)
    BY <2>1, CalendarAssumption DEF DateInv, LastYear, LAST_YEAR, Dated, Fields
  <2>3. calendar_is_date_valid(date)
    BY <2>2, DatedIsValid
  <2>4. calendar_date_to_timestamp(date) = <<DayNumber(date), Clock(date)>>
    BY StampIs
  <2>5. calendar_timestamp_to_date(<<DayNumber(date), Clock(date)>>) = date
    BY <2>2, BackToDate
  <2>6. day_week(Civil(date)) = (DayNumber(date) + 4) % 7
    BY <2>2, DayWeekIs
  <2> QED
    BY <2>3, <2>4, <2>5, <2>6 DEF DatesAgree
<1> QED
  BY <1>1, DatesStayInCalendar, PTL DEF CalendarSpec

=============================================================================
