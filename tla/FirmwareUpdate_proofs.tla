------------------------ MODULE FirmwareUpdate_proofs ------------------------
(***************************************************************************)
(* Proofs about FirmwareUpdate, for any images, pages, reads, faults and   *)
(* numbers of attempts.                                                    *)
(***************************************************************************)
EXTENDS FirmwareUpdate, SequenceTheorems, TLAPS

\* Images are received in normal operation only, and behind a mark, and pages sent
\* in an update.
Phases ==
    /\ listening \/ Sending # {} => mode = "normal"
    /\ Inside # {} => updater # "none"
    /\ update => mode # "normal"
    /\ pages # <<>> => mode \in {"update", "flash"}
    /\ page = FirstPage + Len(pages)
    /\ mode # "flash" => pos = Len(pages) * SamPage

\* Unless a report came twice or an answer late, at most one page is on its way
\* or answered and not read, and none before the first report or in the loop.
InStep ==
    {"urc", "late"} \cap seen = {} =>
        /\ mode = "update" /\ up => len = Len(samFile) /\ waiting + oks <= 1
        /\ (mode = "update" /\ ~ up) \/ mode = "normal" \/ mode = "boot" =>
              waiting = 0 /\ oks = 0 /\ ~ up
        /\ mode = "flash" => waiting = 0 /\ oks = 0 /\ Len(pages) * SamPage >= Len(samFile)

Inv == TypeOK /\ Phases /\ PagesInTurn /\ InStep

(***************************************************************************)
(* Data                                                                    *)
(***************************************************************************)
LEMMA MarksAreBytes == SamMark \in Byte /\ MdmMark \in Byte /\ EndMark \in Byte
BY UpdateAssumption DEF SamMark, MdmMark, EndMark, Byte

LEMMA ImageType ==
    ASSUME NEW a \in 0..MaxAttempts, NEW n \in Nat
    PROVE  Image(a, n) \in Seq(Byte)
<1>1. Image(a, n) \in [1..n -> Byte]
  BY DEF Image, Byte
<1>2. Seq(Byte) = UNION {[1..m -> Byte] : m \in Nat}
  BY SeqDef, Zenon
<1> QED
  BY <1>1, <1>2, Zenon

LEMMA PartType ==
    ASSUME NEW file \in Seq(Byte), NEW p \in Nat, NEW n \in Nat
    PROVE  Part(file, p, n) \in Seq(Byte)
<1> DEFINE q == IF p + n <= Len(file) THEN p + n ELSE Len(file)
<1>1. Len(file) \in Nat
  BY LenProperties
<1>2. q \in Nat /\ q <= Len(file)
  BY <1>1
<1>3. SubSeq(file, p + 1, q) \in Seq(Byte)
  <2> HIDE DEF q
  <2>1. \A i \in (p + 1)..q : i \in 1..Len(file)
    BY <1>1, <1>2
  <2>2. \A i \in (p + 1)..q : file[i] \in Byte
    BY <2>1, ElementOfSeq
  <2> QED
    BY <1>2, <2>2, SubSeqProperties
<1> QED
  BY <1>3 DEF Part

\* What a client sends begins with a mark.
LEMMA MessageType ==
    ASSUME NEW a \in 0..MaxAttempts, NEW s \in Nat, NEW m \in Nat
    PROVE  /\ Message(a, s, m) \in Seq(Byte) /\ Message(a, s, m) # <<>>
           /\ Head(Message(a, s, m)) \in Marks
<1> DEFINE one == IF s > 0 THEN <<SamMark>> \o Image(a, s) ELSE <<>>
           two == IF m > 0 THEN <<MdmMark>> \o Image(a, m) ELSE <<>>
<1>1. /\ <<SamMark>> \in Seq(Byte) /\ <<MdmMark>> \in Seq(Byte) /\ <<EndMark>> \in Seq(Byte)
      /\ Len(<<SamMark>>) = 1 /\ Len(<<MdmMark>>) = 1 /\ Len(<<EndMark>>) = 1
      /\ <<SamMark>>[1] \in Marks /\ <<MdmMark>>[1] \in Marks /\ <<EndMark>>[1] \in Marks
  BY MarksAreBytes DEF Marks
<1>2. Image(a, s) \in Seq(Byte) /\ Image(a, m) \in Seq(Byte)
  BY ImageType
<1>3. ASSUME NEW p \in Seq(Byte), NEW q \in Seq(Byte), p # <<>>, p[1] \in Marks
      PROVE  p \o q \in Seq(Byte) /\ p \o q # <<>> /\ (p \o q)[1] \in Marks
  <2>1. Len(p) \in Nat /\ Len(p) > 0 /\ Len(q) \in Nat
    BY <1>3, EmptySeq
  <2>2. /\ p \o q \in Seq(Byte) /\ Len(p \o q) = Len(p) + Len(q)
        /\ \A i \in 1..(Len(p) + Len(q)) : (p \o q)[i] = IF i <= Len(p) THEN p[i] ELSE q[i - Len(p)]
    BY ConcatProperties
  <2>3. (p \o q)[1] = p[1]
    BY <2>1, <2>2
  <2>4. p \o q # <<>>
    BY <2>1, <2>2, EmptySeq
  <2> QED
    BY <1>3, <2>2, <2>3, <2>4
<1>4. /\ <<SamMark>> \o Image(a, s) \in Seq(Byte) /\ <<MdmMark>> \o Image(a, m) \in Seq(Byte)
      /\ <<SamMark>> \o Image(a, s) # <<>> /\ <<MdmMark>> \o Image(a, m) # <<>>
      /\ (<<SamMark>> \o Image(a, s))[1] \in Marks /\ (<<MdmMark>> \o Image(a, m))[1] \in Marks
  <2>1. <<SamMark>> # <<>> /\ <<MdmMark>> # <<>>
    BY <1>1, EmptySeq
  <2> QED
    BY <1>1, <1>2, <1>3, <2>1
<1>5. one \in Seq(Byte) /\ (one = <<>> \/ (one # <<>> /\ one[1] \in Marks))
  BY <1>4, EmptySeq
<1>6. two \in Seq(Byte) /\ (two = <<>> \/ (two # <<>> /\ two[1] \in Marks))
  BY <1>4, EmptySeq
<1>7. Message(a, s, m) = (one \o two) \o <<EndMark>>
  BY DEF Message
<1> HIDE DEF one, two
<1>8. one \o two \in Seq(Byte) /\ (one \o two = <<>> \/ (one \o two # <<>> /\ (one \o two)[1] \in Marks))
  <2>1. CASE one = <<>>
    <3>1. one \o two = two
      BY <1>6, <2>1, ConcatEmptySeq
    <3> QED
      BY <1>6, <3>1
  <2>2. CASE one # <<>>
    BY <1>3, <1>5, <1>6, <2>2
  <2> QED
    BY <2>1, <2>2
<1>9. /\ (one \o two) \o <<EndMark>> \in Seq(Byte) /\ (one \o two) \o <<EndMark>> # <<>>
      /\ ((one \o two) \o <<EndMark>>)[1] \in Marks
  <2> DEFINE both == one \o two
             end == <<EndMark>>
  <2>1. end \in Seq(Byte) /\ end # <<>> /\ end[1] \in Marks
    BY <1>1, EmptySeq
  <2>2. both \in Seq(Byte) /\ (both = <<>> \/ (both # <<>> /\ both[1] \in Marks))
    BY <1>8
  <2> HIDE DEF both, end
  <2>3. both \o end \in Seq(Byte) /\ both \o end # <<>> /\ (both \o end)[1] \in Marks
    <3>1. CASE both = <<>>
      <4>1. both \o end = end
        BY <2>1, <3>1, ConcatEmptySeq
      <4> QED
        BY <2>1, <4>1
    <3>2. CASE both # <<>>
      BY <1>3, <2>1, <2>2, <3>2
    <3> QED
      BY <3>1, <3>2
  <2> QED
    BY <2>3 DEF both, end
<1>10. Head(Message(a, s, m)) = Message(a, s, m)[1]
  BY <1>7, <1>9, HeadTailProperties
<1> QED
  BY <1>7, <1>9, <1>10

LEMMA OneMore ==
    ASSUME NEW n \in Nat
    PROVE  (n + 1) * SamPage = n * SamPage + SamPage /\ n * SamPage \in Nat
BY UpdateAssumption

\* Faults only add up.
LEMMA FaultAdds ==
    ASSUME TypeOK, NEW f, Fault(f)
    PROVE  faults' \in 0..MaxFaults /\ seen' \subseteq Faults /\ f \in seen' /\ seen \subseteq seen'
BY UpdateAssumption DEF TypeOK, Fault

\* One client's message, and what is left of it
LEMMA OneStream ==
    ASSUME TypeOK, NEW a \in DOMAIN stream, NEW rest \in Seq(Byte),
           stream' = [stream EXCEPT ![a] = rest]
    PROVE  /\ stream' \in Seq(Seq(Byte)) /\ Len(stream') = Len(stream) /\ DOMAIN stream' = DOMAIN stream
           /\ stream'[a] = rest /\ \A b \in DOMAIN stream \ {a} : stream'[b] = stream[b]
<1>1. stream \in Seq(Seq(Byte))
  BY DEF TypeOK
<1>2. stream \in [1..Len(stream) -> Seq(Byte)] /\ Len(stream) \in Nat /\ DOMAIN stream = 1..Len(stream)
  BY <1>1, LenProperties
<1>3. stream' \in [1..Len(stream) -> Seq(Byte)]
  BY <1>2
<1>4. stream' \in Seq(Seq(Byte)) /\ Len(stream') = Len(stream)
  BY <1>2, <1>3, SeqDef, LenProperties
<1> QED
  BY <1>2, <1>3, <1>4

LEMMA StreamsAre ==
    ASSUME TypeOK
    PROVE  /\ DOMAIN stream = 1..Len(stream) /\ DOMAIN images = 1..Len(images)
           /\ Len(images) \in Nat /\ Len(stream) = Len(images) /\ Inside \subseteq Sending
           /\ \A a \in DOMAIN stream : stream[a] \in Seq(Byte)
           /\ \A a \in DOMAIN images :
                 images[a] \in [sam : SamLens, mdm : MdmLens] /\ images[a].sam \in Nat /\ images[a].mdm \in Nat
<1>1. stream \in Seq(Seq(Byte)) /\ images \in Seq([sam : SamLens, mdm : MdmLens]) /\ Len(stream) = Len(images)
  BY DEF TypeOK
<1>2. /\ DOMAIN stream = 1..Len(stream) /\ DOMAIN images = 1..Len(images) /\ Len(images) \in Nat
      /\ \A a \in DOMAIN stream : stream[a] \in Seq(Byte)
      /\ \A a \in DOMAIN images : images[a] \in [sam : SamLens, mdm : MdmLens]
  BY <1>1, LenProperties, ElementOfSeq
<1>3. \A a \in DOMAIN images : images[a].sam \in Nat /\ images[a].mdm \in Nat
  BY <1>2, UpdateAssumption
<1>4. Inside \subseteq Sending
  BY DEF Inside
<1> QED
  BY <1>1, <1>2, <1>3, <1>4

LEMMA SameStreams == ASSUME UNCHANGED stream PROVE UNCHANGED <<Sending, Inside>>
BY DEF Sending, Inside

\* All the connections are lost.
LEMMA AllEnd ==
    ASSUME TypeOK, Phases, stream' = [a \in DOMAIN stream |-> <<>>], GivesUp(Sending)
    PROVE  /\ stream' \in Seq(Seq(Byte)) /\ Len(stream') = Len(stream) /\ DOMAIN stream' = DOMAIN stream
           /\ Sending' = {} /\ Inside' = {} /\ cut' \subseteq {"sam", "mdm"}
<1>1. DOMAIN stream = 1..Len(stream) /\ Len(stream) \in Nat /\ Inside \subseteq Sending
  BY StreamsAre
<1>2. stream' \in [1..Len(stream) -> Seq(Byte)]
  BY <1>1, EmptySeq
<1>3. stream' \in Seq(Seq(Byte)) /\ Len(stream') = Len(stream)
  BY <1>1, <1>2, SeqDef, LenProperties
<1>4. Sending' = {}
  BY DEF Sending
<1>5. Inside' = {}
  BY <1>4 DEF Inside
<1>6. cut' \subseteq {"sam", "mdm"}
  <2>1. Inside # {} => updater \in {"sam", "mdm"}
    BY DEF Phases, TypeOK
  <2> QED
    BY <2>1 DEF GivesUp, TypeOK
<1> QED
  BY <1>1, <1>2, <1>3, <1>4, <1>5, <1>6

(***************************************************************************)
(* Resets and the normal operation                                         *)
(***************************************************************************)
\* RAM starts over, and no page is on its way but after a late answer.
LEMMA BootsKeeps ==
    ASSUME Inv, Boots, update' \in BOOLEAN, UNCHANGED <<present, samFile, mdmFile>>,
           pool' \in Seq(Byte), waiting' \in Nat, waiting' = 0 \/ "late" \in seen',
           faults' \in 0..MaxFaults, seen' \subseteq Faults
    PROVE  Inv'
<1>1. /\ mode' = "boot" /\ updater' = "none" /\ ~ listening' /\ ~ timer' /\ ~ up'
      /\ listening' \in BOOLEAN /\ timer' \in BOOLEAN /\ up' \in BOOLEAN
      /\ pos' = 0 /\ len' = 0 /\ page' = FirstPage /\ oks' = 0
      /\ images' = images /\ stream' = [a \in DOMAIN stream |-> <<>>] /\ GivesUp(Sending)
  BY DEF Boots
<1>2. pages' = <<>> /\ pages' \in Seq(Nat \X Seq(Byte)) /\ Len(pages') = 0
  BY EmptySeq DEF Boots
<1>0. /\ stream' \in Seq(Seq(Byte)) /\ Len(stream') = Len(stream)
      /\ Sending' = {} /\ Inside' = {} /\ cut' \subseteq {"sam", "mdm"}
  BY <1>1, AllEnd DEF Inv
<1>3. TypeOK'
  <2>1. page' \in FirstPage..(FirstPage + Len(pages'))
    BY <1>1, <1>2 DEF FirstPage
  <2> QED
    BY <1>0, <1>1, <1>2, <2>1 DEF Inv, TypeOK
<1>4. 0 * SamPage = 0
  BY UpdateAssumption
<1>5. Phases'
  BY <1>0, <1>1, <1>2, <1>4 DEF Phases, FirstPage
<1>6. PagesInTurn'
  BY <1>2 DEF PagesInTurn
<1>7. InStep'
  BY <1>1 DEF InStep
<1> QED
  BY <1>3, <1>5, <1>6, <1>7 DEF Inv

LEMMA ResetsKeep ==
    ASSUME Inv, \/ PowerLoss \/ ReadEnd \/ GprsUpNoFile \/ DividesByZero
                \/ FlashRunsOut \/ FlashFails \/ (FlashLast /\ Reset /\ UNCHANGED trouble)
    PROVE  Inv'
<1>0. TypeOK
  BY DEF Inv
<1>1. /\ faults \in 0..MaxFaults /\ seen \subseteq Faults /\ waiting \in Nat
      /\ update \in BOOLEAN /\ pool \in Seq(Byte)
  BY <1>0 DEF TypeOK
<1>2. CASE PowerLoss
  <2>1. \/ Fault("power") /\ Boots /\ waiting' = 0
        \/ Fault("late") /\ Boots /\ UNCHANGED waiting
    BY <1>2 DEF PowerLoss, Reset
  <2>2. UNCHANGED <<update, present, samFile, mdmFile, pool>>
    BY <1>2 DEF PowerLoss, flash
  <2> QED
    BY <1>0, <1>1, <2>1, <2>2, FaultAdds, BootsKeeps
<1>3. CASE ReadEnd \/ GprsUpNoFile
  <2>1. Boots /\ waiting' = 0 /\ update' \in BOOLEAN /\ UNCHANGED <<present, samFile, mdmFile, pool>>
    BY <1>3 DEF ReadEnd, GprsUpNoFile, Reset
  <2>2. faults' \in 0..MaxFaults /\ seen' \subseteq Faults
    BY <1>0, <1>1, <1>3, FaultAdds DEF ReadEnd, GprsUpNoFile, Reported, trouble
  <2> QED
    BY <1>1, <2>1, <2>2, BootsKeeps
<1>4. CASE DividesByZero \/ FlashRunsOut \/ FlashFails
  <2>1. Boots /\ waiting' = 0 /\ UNCHANGED <<update, present, samFile, mdmFile, pool>>
    BY <1>4 DEF DividesByZero, FlashRunsOut, FlashFails, Reset, flash
  <2>2. faults' \in 0..MaxFaults /\ seen' \subseteq Faults
    BY <1>0, <1>1, <1>4, FaultAdds DEF DividesByZero, FlashRunsOut, FlashFails, Reported, trouble
  <2> QED
    BY <1>1, <2>1, <2>2, BootsKeeps
<1>5. CASE FlashLast /\ Reset /\ UNCHANGED trouble
  <2>1. Boots /\ waiting' = 0 /\ update' \in BOOLEAN /\ UNCHANGED <<present, samFile, mdmFile>>
    BY <1>5 DEF FlashLast, Reset
  <2>2. pool' \in Seq(Byte)
    <3>1. Part(mdmFile, pos, MdmPage) \in Seq(Byte)
      BY <1>0, UpdateAssumption, PartType DEF TypeOK
    <3> QED
      BY <1>1, <1>5, <3>1, ConcatProperties DEF FlashLast, Written
  <2>3. faults' \in 0..MaxFaults /\ seen' \subseteq Faults
    BY <1>1, <1>5 DEF trouble
  <2> QED
    BY <2>1, <2>2, <2>3, BootsKeeps
<1> QED
  BY <1>2, <1>3, <1>4, <1>5

LEMMA ReadyKeeps == Inv /\ RilReady => Inv'
<1> SUFFICES ASSUME Inv, RilReady PROVE Inv'
  OBVIOUS
<1>1. /\ mode = "boot" /\ mode' \in {"update", "normal"}
      /\ UNCHANGED <<flash, socket, board, client, trouble>>
  BY DEF RilReady
<1>2. pages = <<>> /\ Len(pages) = 0 /\ Len(pages) \in Nat
  BY <1>1, EmptySeq DEF Inv, Phases
<1>3. TypeOK'
  BY <1>1 DEF Inv, TypeOK, flash, socket, board, client, trouble
<1>0. (update' => mode' # "normal") /\ Sending = {}
  BY <1>1 DEF Inv, Phases, RilReady, flash
<1>4. Phases'
  <2>1. Sending' = Sending /\ Inside' = Inside
    BY <1>1 DEF client, Sending, Inside
  <2> QED
    BY <1>0, <1>1, <1>2, <2>1 DEF Inv, Phases, socket, board
<1>5. PagesInTurn' /\ InStep'
  BY <1>1 DEF Inv, PagesInTurn, InStep, flash, board, trouble
<1> QED
  BY <1>3, <1>4, <1>5 DEF Inv

\* In normal operation there are no pages that the files could belong to.
LEMMA NormalKeeps ==
    ASSUME Inv, mode = "normal", UNCHANGED <<update, mode, board>>, seen \subseteq seen',
           TypeOK', Inside' # {} => updater' # "none"
    PROVE  Inv'
<1>1. pages = <<>> /\ Len(pages) = 0
  BY EmptySeq DEF Inv, Phases
<1>2. Phases'
  BY <1>1 DEF Inv, Phases, board
<1>3. PagesInTurn'
  BY <1>1 DEF PagesInTurn, board
<1>4. InStep'
  <2>1. {"urc", "late"} \cap seen' = {} => {"urc", "late"} \cap seen = {}
    OBVIOUS
  <2> QED
    BY <2>1 DEF Inv, InStep, board
<1> QED
  BY <1>2, <1>3, <1>4 DEF Inv

LEMMA ReceiveKeeps ==
    ASSUME Inv, \/ RegisterSocket \/ ClientConnects \/ ClientLeaves
                \/ ReadSam \/ ReadMdm \/ ReadData
    PROVE  Inv'
<1>0. TypeOK /\ Phases /\ mode = "normal"
  <2>1. TypeOK /\ Phases
    BY DEF Inv
  <2>2. CASE RegisterSocket
    BY <2>1, <2>2 DEF RegisterSocket
  <2>3. CASE ClientConnects \/ ClientLeaves \/ ReadSam \/ ReadMdm \/ ReadData
    <3>1. listening \/ Sending # {}
      BY <2>3 DEF ClientConnects, ClientLeaves, ReadSam, ReadMdm, ReadData, Reads, Inside
    <3> QED
      BY <2>1, <3>1 DEF Phases
  <2> QED
    BY <2>1, <2>2, <2>3
<1>1. /\ DOMAIN stream = 1..Len(stream) /\ Len(images) \in Nat /\ Len(stream) = Len(images)
      /\ Inside \subseteq Sending /\ \A a \in DOMAIN stream : stream[a] \in Seq(Byte)
  BY <1>0, StreamsAre
<1>2. CASE RegisterSocket
  <2>1. TypeOK'
    BY <1>0, <1>2 DEF RegisterSocket, TypeOK, flash, board, client, trouble
  <2>2. UNCHANGED <<update, mode, board, seen, updater, stream>>
    BY <1>2 DEF RegisterSocket, flash, client, trouble
  <2>3. Inside' = Inside
    BY <2>2 DEF Inside, Sending
  <2> QED
    BY <1>0, <2>1, <2>2, <2>3, NormalKeeps DEF Phases
<1>3. CASE ClientConnects
  <2>1. PICK s \in SamLens, m \in MdmLens :
         /\ images' = Append(images, [sam |-> s, mdm |-> m])
         /\ stream' = Append(stream, Message(Len(images'), s, m))
    BY <1>3 DEF ClientConnects
  <2>2. images \in Seq([sam : SamLens, mdm : MdmLens]) /\ [sam |-> s, mdm |-> m] \in [sam : SamLens, mdm : MdmLens]
    BY <1>0 DEF TypeOK
  <2>3. images' \in Seq([sam : SamLens, mdm : MdmLens]) /\ Len(images') = Len(images) + 1
    BY <2>1, <2>2, AppendProperties
  <2>4. Len(images') \in 0..MaxAttempts
    BY <1>1, <1>3, <2>3, UpdateAssumption DEF ClientConnects
  <2> DEFINE sent == Message(Len(images'), s, m)
  <2>5. sent \in Seq(Byte) /\ sent # <<>> /\ Head(sent) \in Marks
    BY <2>4, MessageType, UpdateAssumption
  <2>6. /\ stream' \in Seq(Seq(Byte)) /\ Len(stream') = Len(stream) + 1
        /\ stream'[Len(stream) + 1] = sent
        /\ \A a \in 1..Len(stream) : stream'[a] = stream[a]
    <3>1. stream \in Seq(Seq(Byte))
      BY <1>0 DEF TypeOK
    <3> HIDE DEF sent
    <3>2. stream' = Append(stream, sent)
      BY <2>1 DEF sent
    <3> QED
      BY <2>5, <3>1, <3>2, AppendProperties
  <2>7. UNCHANGED <<flash, mode, socket, board, cut>>
    BY <1>3 DEF ClientConnects
  <2>8. /\ faults' \in 0..MaxFaults /\ seen' \subseteq Faults /\ seen \subseteq seen'
    <3>1. UNCHANGED trouble \/ Fault("second")
      BY <1>3 DEF ClientConnects
    <3>2. CASE UNCHANGED trouble
      BY <1>0, <3>2 DEF trouble, TypeOK
    <3> QED
      BY <1>0, <3>1, <3>2, FaultAdds
  <2>9. TypeOK'
    BY <1>0, <1>1, <2>3, <2>4, <2>6, <2>7, <2>8 DEF TypeOK, flash, socket, board
  <2>10. Inside' \subseteq Inside
    <3> SUFFICES ASSUME NEW a \in Inside' PROVE a \in Inside
      OBVIOUS
    <3>1. a \in DOMAIN stream' /\ stream'[a] # <<>> /\ Head(stream'[a]) \notin Marks
      BY DEF Inside, Sending
    <3>2. a \in 1..(Len(stream) + 1) /\ a # Len(stream) + 1
      <4>1. DOMAIN stream' = 1..(Len(stream) + 1)
        BY <2>6, LenProperties
      <4> QED
        BY <2>5, <2>6, <3>1, <4>1
    <3>3. a \in DOMAIN stream /\ stream'[a] = stream[a]
      BY <1>1, <2>6, <3>2
    <3> QED
      BY <3>1, <3>3 DEF Inside, Sending
  <2> QED
    BY <1>0, <2>7, <2>8, <2>9, <2>10, NormalKeeps DEF Phases, flash, socket
<1>4. CASE ClientLeaves
  <2>1. PICK a \in Sending : stream' = [stream EXCEPT ![a] = <<>>] /\ GivesUp({a})
    BY <1>4 DEF ClientLeaves
  <2>2. a \in DOMAIN stream /\ <<>> \in Seq(Byte)
    BY EmptySeq DEF Sending
  <2>3. /\ stream' \in Seq(Seq(Byte)) /\ Len(stream') = Len(stream) /\ DOMAIN stream' = DOMAIN stream
        /\ stream'[a] = <<>> /\ \A b \in DOMAIN stream \ {a} : stream'[b] = stream[b]
    BY <1>0, <2>1, <2>2, OneStream
  <2>4. UNCHANGED <<flash, mode, socket, board, images, trouble>>
    BY <1>4 DEF ClientLeaves
  <2>5. cut' \subseteq {"sam", "mdm"}
    <3>1. Inside # {} => updater \in {"sam", "mdm"}
      BY <1>0 DEF Phases, TypeOK
    <3> QED
      BY <1>0, <2>1, <3>1 DEF GivesUp, TypeOK
  <2>6. TypeOK'
    BY <1>0, <2>3, <2>4, <2>5 DEF TypeOK, flash, socket, board, trouble
  <2>7. Inside' \subseteq Inside
    BY <2>3 DEF Inside, Sending
  <2> QED
    BY <1>0, <2>4, <2>6, <2>7, NormalKeeps DEF Phases, flash, socket, trouble
<1>5. CASE ReadSam \/ ReadMdm
  <2>1. PICK a \in Sending : stream' = [stream EXCEPT ![a] = Tail(stream[a])]
    BY <1>5 DEF ReadSam, ReadMdm, Reads
  <2>2. a \in DOMAIN stream /\ Tail(stream[a]) \in Seq(Byte)
    <3>1. a \in DOMAIN stream /\ stream[a] # <<>>
      BY DEF Sending
    <3> QED
      BY <1>1, <3>1, HeadTailProperties
  <2>3. stream' \in Seq(Seq(Byte)) /\ Len(stream') = Len(stream)
    BY <1>0, <2>1, <2>2, OneStream
  <2>4. samFile' \in Seq(Byte) /\ mdmFile' \in Seq(Byte)
    BY <1>0, <1>5, EmptySeq DEF ReadSam, ReadMdm, TypeOK
  <2>5. /\ present' \in {present \cup {"sam"}, present \cup {"mdm"}}
        /\ updater' \in {"sam", "mdm"} /\ (timer' = timer \/ timer' = TRUE) /\ cut' \subseteq cut
        /\ UNCHANGED <<update, pool, mode, listening, board, images, trouble>>
    BY <1>5 DEF ReadSam, ReadMdm
  <2>6. timer' \in BOOLEAN
    BY <1>0, <2>5 DEF TypeOK
  <2>7. present' \subseteq {"sam", "mdm"} /\ cut' \subseteq {"sam", "mdm"}
    BY <1>0, <2>5 DEF TypeOK
  <2>8. TypeOK'
    BY <1>0, <2>3, <2>4, <2>5, <2>6, <2>7 DEF TypeOK, board, trouble
  <2> QED
    BY <1>0, <2>5, <2>8, NormalKeeps DEF trouble
<1>6. CASE ReadData
  <2>1. PICK a \in Inside, n \in 1..Chunk :
         /\ n <= Len(stream[a])
         /\ stream' = [stream EXCEPT ![a] = SubSeq(stream[a], n + 1, Len(stream[a]))]
         /\ samFile' = samFile \o (IF updater = "sam" THEN SubSeq(stream[a], 1, n) ELSE <<>>)
         /\ mdmFile' = mdmFile \o (IF updater = "mdm" THEN SubSeq(stream[a], 1, n) ELSE <<>>)
    BY <1>6 DEF ReadData
  <2> DEFINE left == stream[a]
  <2>2. a \in DOMAIN stream /\ left \in Seq(Byte) /\ Len(left) \in Nat /\ n \in Nat
    BY <1>1, LenProperties, UpdateAssumption DEF Inside, Sending
  <2> HIDE DEF left
  <2>3. \A i \in 1..Len(left) : left[i] \in Byte
    BY <2>2, ElementOfSeq
  <2>4. SubSeq(left, n + 1, Len(left)) \in Seq(Byte)
    <3>1. \A i \in (n + 1)..Len(left) : left[i] \in Byte
      BY <2>2, <2>3
    <3> QED
      BY <2>2, <3>1, SubSeqProperties
  <2>5. SubSeq(left, 1, n) \in Seq(Byte)
    <3>1. n <= Len(left)
      BY <2>1 DEF left
    <3>2. \A i \in 1..n : left[i] \in Byte
      BY <2>2, <2>3, <3>1
    <3> QED
      BY <2>2, <3>2, SubSeqProperties
  <2>6. samFile' \in Seq(Byte) /\ mdmFile' \in Seq(Byte)
    <3>1. /\ samFile' = samFile \o (IF updater = "sam" THEN SubSeq(left, 1, n) ELSE <<>>)
          /\ mdmFile' = mdmFile \o (IF updater = "mdm" THEN SubSeq(left, 1, n) ELSE <<>>)
      BY <2>1 DEF left
    <3> QED
      BY <1>0, <2>5, <3>1, EmptySeq, ConcatProperties DEF TypeOK
  <2>7. /\ timer' = TRUE
        /\ UNCHANGED <<update, present, pool, mode, updater, listening, board, images, cut, trouble>>
    BY <1>6 DEF ReadData
  <2>8. stream' \in Seq(Seq(Byte)) /\ Len(stream') = Len(stream)
    BY <1>0, <2>1, <2>2, <2>4, OneStream DEF left
  <2>9. TypeOK'
    BY <1>0, <2>6, <2>7, <2>8 DEF TypeOK, board, trouble
  <2>10. updater' # "none"
    BY <1>0, <2>1, <2>7 DEF Phases
  <2> QED
    BY <1>0, <2>7, <2>9, <2>10, NormalKeeps DEF trouble
<1> QED
  BY <1>2, <1>3, <1>4, <1>5, <1>6

\* The timeout may find the client's data still on its way, or nobody.
LEMMA TimeoutKeeps == Inv /\ UpdateTimeout => Inv'
<1> SUFFICES ASSUME Inv, UpdateTimeout PROVE Inv'
  OBVIOUS
<1>1. /\ timer' = FALSE /\ listening' = FALSE
      /\ UNCHANGED <<flash, mode, updater, board, client, trouble>>
  BY DEF UpdateTimeout
<1>2. TypeOK'
  BY <1>1 DEF Inv, TypeOK, flash, board, client, trouble
<1>3. Phases'
  BY <1>1, SameStreams DEF Inv, Phases, flash, board, client
<1>4. PagesInTurn' /\ InStep'
  BY <1>1 DEF Inv, PagesInTurn, InStep, flash, board, trouble
<1> QED
  BY <1>2, <1>3, <1>4 DEF Inv

(***************************************************************************)
(* The update                                                              *)
(***************************************************************************)
\* The next page is the one the board has not got, under the next number.
LEMMA NextPage ==
    ASSUME Inv, mode # "flash",
           pages' = Append(pages, <<page, Part(samFile, pos, SamPage)>>),
           page' = page + 1, pos' = pos + SamPage, samFile' = samFile
    PROVE  /\ pages' \in Seq(Nat \X Seq(Byte)) /\ Len(pages') = Len(pages) + 1
           /\ page' = FirstPage + Len(pages') /\ pos' = Len(pages') * SamPage
           /\ page' \in FirstPage..(FirstPage + Len(pages')) /\ pos' \in Nat
           /\ PagesInTurn'
<1>1. /\ pages \in Seq(Nat \X Seq(Byte)) /\ samFile \in Seq(Byte)
      /\ page = FirstPage + Len(pages) /\ pos = Len(pages) * SamPage /\ pos \in Nat
  BY DEF Inv, TypeOK, Phases
<1>2. Len(pages) \in Nat
  BY <1>1, LenProperties
<1>3. page \in Nat
  BY <1>1, <1>2 DEF FirstPage
<1>4. Part(samFile, pos, SamPage) \in Seq(Byte)
  BY <1>1, UpdateAssumption, PartType
<1> DEFINE sent == <<page, Part(samFile, pos, SamPage)>>
<1>5. sent \in Nat \X Seq(Byte)
  BY <1>3, <1>4
<1>6. /\ pages' \in Seq(Nat \X Seq(Byte)) /\ Len(pages') = Len(pages) + 1
      /\ pages'[Len(pages) + 1] = sent
      /\ \A i \in 1..Len(pages) : pages'[i] = pages[i]
  <2> HIDE DEF sent
  <2>1. pages' = Append(pages, sent)
    BY DEF sent
  <2> QED
    BY <1>1, <1>5, <2>1, AppendProperties
<1>7. pos' = Len(pages') * SamPage /\ pos' \in Nat
  <2>1. (Len(pages) + 1) * SamPage = Len(pages) * SamPage + SamPage
    BY <1>2, OneMore
  <2> QED
    BY <1>1, <1>6, <2>1, UpdateAssumption
<1>8. page' = FirstPage + Len(pages') /\ page' \in FirstPage..(FirstPage + Len(pages'))
  BY <1>1, <1>2, <1>6 DEF FirstPage
<1>9. PagesInTurn'
  <2> SUFFICES ASSUME NEW i \in 1..Len(pages')
               PROVE  pages'[i] = <<FirstPage + i - 1, Part(samFile, (i - 1) * SamPage, SamPage)>>
    BY DEF PagesInTurn
  <2>1. CASE i \in 1..Len(pages)
    BY <1>6, <2>1 DEF Inv, PagesInTurn
  <2>2. CASE i = Len(pages) + 1
    <3>1. i - 1 = Len(pages) /\ FirstPage + i - 1 = page
      BY <1>1, <1>2, <2>2 DEF FirstPage
    <3>2. pos = (i - 1) * SamPage
      BY <1>1, <3>1, Zenon
    <3>3. pages'[i] = <<page, Part(samFile, pos, SamPage)>>
      BY <1>6, <2>2
    <3> QED
      BY <3>1, <3>2, <3>3
  <2> QED
    BY <1>2, <1>6, <2>1, <2>2
<1> QED
  BY <1>6, <1>7, <1>8, <1>9

\* update_sam, when a report or an OK calls it
LEMMA UpdateSamKeeps ==
    ASSUME Inv, mode = "update", NEW n \in Nat, UpdateSam(n),
           up' \in BOOLEAN, oks' \in Nat, faults' \in 0..MaxFaults, seen' \subseteq Faults,
           seen \subseteq seen',
           {"urc", "late"} \cap seen' = {} =>
               n = Len(samFile) /\ up' /\ waiting = 0 /\ oks' = 0,
           UNCHANGED <<update, present, samFile, mdmFile, socket, client>>
    PROVE  Inv'
<1>0. TypeOK /\ Phases /\ PagesInTurn /\ InStep
  BY DEF Inv
<1>1. Len(pages) \in Nat /\ Len(mdmFile) \in Nat /\ Len(samFile) \in Nat
  BY <1>0, LenProperties DEF TypeOK
<1>2. waiting \in Nat
  BY <1>0 DEF TypeOK
<1>3. CASE SendPage(n) /\ len' = n
  <2>1. /\ pages' = Append(pages, <<page, Part(samFile, pos, SamPage)>>)
        /\ pos' = pos + SamPage /\ page' = page + 1 /\ waiting' = waiting + 1 /\ len' = n
        /\ UNCHANGED <<mode, pool>>
    BY <1>3 DEF SendPage
  <2>2. /\ pages' \in Seq(Nat \X Seq(Byte)) /\ Len(pages') = Len(pages) + 1
        /\ page' = FirstPage + Len(pages') /\ pos' = Len(pages') * SamPage
        /\ page' \in FirstPage..(FirstPage + Len(pages')) /\ pos' \in Nat
        /\ PagesInTurn'
    BY <2>1, NextPage
  <2>3. TypeOK'
    BY <1>0, <1>2, <2>1, <2>2 DEF TypeOK, socket, client
  <2>4. Phases'
    BY <1>0, <2>1, <2>2, SameStreams DEF Phases, socket, client
  <2>5. InStep'
    BY <2>1 DEF InStep
  <2> QED
    BY <2>2, <2>3, <2>4, <2>5 DEF Inv
<1>4. CASE StartFlash(n)
  <2>1. /\ pos >= n /\ mode' = "flash" /\ pos' = 0 /\ len' = Len(mdmFile) /\ pool' = <<>>
        /\ UNCHANGED <<page, pages, waiting>>
    BY <1>4 DEF StartFlash
  <2>2. TypeOK'
    BY <1>0, <1>1, <2>1, EmptySeq DEF TypeOK, socket, client
  <2>3. Phases'
    BY <1>0, <2>1, SameStreams DEF Phases, socket, client
  <2>4. PagesInTurn'
    BY <1>0, <2>1 DEF PagesInTurn
  <2>5. InStep'
    <3>1. pos = Len(pages) * SamPage
      BY <1>0 DEF Phases
    <3>2. {"urc", "late"} \cap seen' = {} => Len(pages) * SamPage >= Len(samFile)
      BY <2>1, <3>1
    <3> QED
      BY <2>1, <3>2 DEF InStep
  <2> QED
    BY <2>2, <2>3, <2>4, <2>5 DEF Inv
<1> QED
  BY <1>3, <1>4 DEF UpdateSam

LEMMA UpdateKeeps ==
    ASSUME Inv, GprsUp \/ CbUpdate \/ BoardAnswers \/ CbUpdateNoOk
    PROVE  Inv'
<1>0. TypeOK /\ Phases /\ PagesInTurn /\ InStep
  BY DEF Inv
<1>1. /\ Len(samFile) \in Nat /\ waiting \in Nat /\ oks \in Nat /\ len \in Nat
      /\ faults \in 0..MaxFaults /\ seen \subseteq Faults
  BY <1>0, LenProperties DEF TypeOK
<1>2. CASE GprsUp
  <2>1. /\ mode = "update" /\ UpdateSam(Len(samFile)) /\ up' = TRUE
        /\ UNCHANGED <<update, present, samFile, mdmFile, socket, client, oks>>
    BY <1>2 DEF GprsUp
  <2>2. /\ faults' \in 0..MaxFaults /\ seen' \subseteq Faults /\ seen \subseteq seen'
        /\ up => "urc" \in seen'
    BY <1>0, <1>1, <1>2, FaultAdds DEF GprsUp, Reported, trouble
  <2>3. {"urc", "late"} \cap seen' = {} => waiting = 0 /\ oks' = 0
    BY <1>0, <2>1, <2>2 DEF InStep
  <2> QED
    BY <1>1, <2>1, <2>2, <2>3, UpdateSamKeeps
<1>3. CASE CbUpdate
  <2>1. /\ mode = "update" /\ oks > 0 /\ oks' \in 0..(oks - 1) /\ UpdateSam(len)
        /\ UNCHANGED <<update, present, samFile, mdmFile, socket, up, client, trouble>>
    BY <1>3 DEF CbUpdate
  <2>2. up' \in BOOLEAN /\ oks' \in Nat /\ UNCHANGED <<faults, seen, up>>
    BY <1>0, <1>1, <2>1 DEF TypeOK, trouble
  <2>3. ASSUME {"urc", "late"} \cap seen = {}
        PROVE  len = Len(samFile) /\ up /\ waiting = 0 /\ oks' = 0
    <3>1. up
      BY <1>0, <1>1, <2>1, <2>3 DEF InStep
    <3>2. len = Len(samFile) /\ waiting + oks <= 1
      BY <1>0, <2>1, <2>3, <3>1 DEF InStep
    <3> QED
      BY <1>1, <2>1, <3>1, <3>2
  <2> QED
    BY <1>1, <2>1, <2>2, <2>3, UpdateSamKeeps
<1>4. CASE BoardAnswers
  <2>1. /\ waiting > 0 /\ waiting' = waiting - 1
        /\ oks' = (IF mode = "boot" THEN oks ELSE oks + 1)
        /\ UNCHANGED <<flash, mode, socket, up, pos, len, page, pages, client, trouble>>
    BY <1>4 DEF BoardAnswers
  <2>2. waiting' \in Nat /\ oks' \in Nat
    BY <1>1, <2>1
  <2>3. TypeOK'
    BY <1>0, <2>1, <2>2 DEF TypeOK, flash, socket, client, trouble
  <2>4. Phases' /\ PagesInTurn'
    BY <1>0, <2>1, SameStreams DEF Phases, PagesInTurn, flash, socket, client
  <2>5. InStep'
    <3> SUFFICES ASSUME {"urc", "late"} \cap seen = {} PROVE InStep'
      BY <2>1 DEF InStep, trouble
    <3>1. mode = "update" /\ up /\ len = Len(samFile) /\ waiting + oks <= 1
      BY <1>0, <1>1, <2>1 DEF InStep, TypeOK
    <3>2. waiting' + oks' <= 1
      BY <1>1, <2>1, <3>1
    <3> QED
      BY <2>1, <3>1, <3>2 DEF InStep, flash
  <2> QED
    BY <2>3, <2>4, <2>5 DEF Inv
<1>5. CASE CbUpdateNoOk
  <2>1. /\ mode = "update" /\ oks > 0 /\ oks' = oks - 1 /\ Fault("ok")
        /\ UNCHANGED <<flash, mode, socket, up, pos, len, page, pages, waiting, client>>
    BY <1>5 DEF CbUpdateNoOk
  <2>2. faults' \in 0..MaxFaults /\ seen' \subseteq Faults /\ seen \subseteq seen'
    BY <1>0, <2>1, FaultAdds
  <2>3. oks' \in Nat
    BY <1>1, <2>1
  <2>4. TypeOK'
    BY <1>0, <2>1, <2>2, <2>3 DEF TypeOK, flash, socket, client
  <2>5. Phases' /\ PagesInTurn'
    BY <1>0, <2>1, SameStreams DEF Phases, PagesInTurn, flash, socket, client
  <2>6. InStep'
    <3> SUFFICES ASSUME {"urc", "late"} \cap seen = {} PROVE InStep'
      BY <2>2 DEF InStep
    <3>1. up /\ len = Len(samFile) /\ waiting + oks <= 1
      BY <1>0, <1>1, <2>1 DEF InStep
    <3>2. waiting' + oks' <= 1
      BY <1>1, <2>1, <3>1
    <3> QED
      BY <2>1, <3>1, <3>2 DEF InStep, flash
  <2> QED
    BY <2>4, <2>5, <2>6 DEF Inv
<1> QED
  BY <1>2, <1>3, <1>4, <1>5

\* The loop, as long as it goes on: nothing of the board's is touched.
LEMMA LoopKeeps ==
    ASSUME Inv, FlashPage \/ (FlashLast /\ Fault("fota") /\ pos' = pos + MdmPage
                   /\ UNCHANGED <<mode, socket, up, len, page, pages, waiting, oks, client>>)
    PROVE  Inv'
<1>0. TypeOK /\ Phases /\ PagesInTurn /\ InStep
  BY DEF Inv
<1>1. /\ mode = "flash" /\ pool' = Written /\ pos' = pos + MdmPage
      /\ UNCHANGED <<present, samFile, mdmFile, mode, updater, listening, timer, images, stream, cut,
                     up, len, page, pages, waiting, oks>>
  BY DEF FlashPage, FlashLast, socket, client
<1>2. update' \in BOOLEAN
  BY <1>0 DEF FlashPage, FlashLast, TypeOK
<1>3. faults' \in 0..MaxFaults /\ seen' \subseteq Faults /\ seen \subseteq seen'
  BY <1>0, FaultAdds DEF FlashPage, TypeOK, trouble
<1>4. pool' \in Seq(Byte)
  <2>1. Part(mdmFile, pos, MdmPage) \in Seq(Byte) /\ pool \in Seq(Byte)
    BY <1>0, UpdateAssumption, PartType DEF TypeOK
  <2> QED
    BY <1>1, <2>1, ConcatProperties DEF Written
<1>5. TypeOK'
  <2>1. pos' \in Nat
    BY <1>0, <1>1, UpdateAssumption DEF TypeOK
  <2> QED
    BY <1>0, <1>1, <1>2, <1>3, <1>4, <2>1 DEF TypeOK
<1>6. Phases' /\ PagesInTurn'
  BY <1>0, <1>1, SameStreams DEF Phases, PagesInTurn
<1>7. InStep'
  BY <1>0, <1>1, <1>3 DEF InStep
<1> QED
  BY <1>5, <1>6, <1>7 DEF Inv

LEMMA StepKeeps == Inv /\ [Next]_vars => Inv'
<1> SUFFICES ASSUME Inv, [Next]_vars PROVE Inv'
  OBVIOUS
<1>1. CASE PowerLoss \/ RilReady \/ UpdateTimeout
  BY <1>1, ResetsKeep, ReadyKeeps, TimeoutKeeps
<1>2. CASE RegisterSocket \/ ClientConnects \/ ClientLeaves \/ Receiving
  BY <1>2, ReceiveKeeps, ResetsKeep DEF Receiving
<1>3. CASE BoardAnswers \/ CbUpdateNoOk
  BY <1>3, UpdateKeeps
<1>4. CASE FlashLast
  BY <1>4, ResetsKeep, LoopKeeps DEF FlashLast
<1>5. CASE \/ GprsUp \/ GprsUpNoFile \/ CbUpdate \/ DividesByZero
           \/ FlashPage \/ FlashRunsOut \/ FlashFails
  BY <1>5, UpdateKeeps, ResetsKeep, LoopKeeps
<1>6. CASE UNCHANGED vars
  <2>1. UNCHANGED <<flash, mode, socket, board, client, trouble>>
    BY <1>6 DEF vars
  <2>2. TypeOK'
    BY <2>1 DEF Inv, TypeOK, flash, socket, board, client, trouble
  <2>3. Phases'
    BY <2>1, SameStreams DEF Inv, Phases, flash, socket, board, client
  <2>4. PagesInTurn' /\ InStep'
    BY <2>1 DEF Inv, PagesInTurn, InStep, flash, board, trouble
  <2> QED
    BY <2>2, <2>3, <2>4 DEF Inv
<1> QED
  BY <1>1, <1>2, <1>3, <1>4, <1>5, <1>6 DEF Next, Updating

LEMMA InitKeeps == Init => Inv
<1> SUFFICES ASSUME Init PROVE Inv
  OBVIOUS
<1>1. /\ <<>> \in Seq(Byte) /\ <<>> \in Seq(Nat \X Seq(Byte)) /\ Len(<<>>) = 0
      /\ <<>> \in Seq(Seq(Byte)) /\ <<>> \in Seq([sam : SamLens, mdm : MdmLens]) /\ DOMAIN <<>> = {}
  BY EmptySeq
<1>0. Sending = {} /\ Inside = {}
  BY <1>1 DEF Init, Sending, Inside
<1>2. /\ update \in BOOLEAN /\ listening \in BOOLEAN /\ timer \in BOOLEAN /\ up \in BOOLEAN
      /\ ~ listening /\ ~ up
  BY DEF Init
<1>3. 0 * SamPage = 0
  BY UpdateAssumption
<1>4. TypeOK
  BY <1>1, <1>2, UpdateAssumption DEF Init, TypeOK, FirstPage
<1>5. Phases
  BY <1>0, <1>1, <1>2, <1>3 DEF Init, Phases, FirstPage
<1>6. PagesInTurn /\ InStep
  BY <1>1, <1>2 DEF Init, PagesInTurn, InStep
<1> QED
  BY <1>4, <1>5, <1>6 DEF Inv

-----------------------------------------------------------------------------
(***************************************************************************)
(* The images arrive.  What the client still has to send is the end of its *)
(* message, and the files hold what came before it.                        *)
(***************************************************************************)
Least(a, b) == IF a <= b THEN a ELSE b

\* The first n bytes of an image
Holds(file, image, n) == Len(file) = n /\ \A i \in 1..n : file[i] = image[i]

\* The last client, its images, and what is left of its message
Now == Len(images)
Rest     == IF images = <<>> THEN <<>> ELSE stream[Now]
SamImage == IF images = <<>> THEN <<>> ELSE Image(Now, images[Now].sam)
MdmImage == IF images = <<>> THEN <<>> ELSE Image(Now, images[Now].mdm)

\* A message: a mark and the image for the board, the same for the modem, the end mark.
PartLen(image) == IF image = <<>> THEN 0 ELSE Len(image) + 1
Size(s, m) == PartLen(s) + PartLen(m) + 1
PartOf(mark, image) == IF Len(image) > 0 THEN <<mark>> \o image ELSE <<>>
Sent(s, m) == PartOf(SamMark, s) \o PartOf(MdmMark, m) \o <<EndMark>>

SamEnd == PartLen(SamImage)
Done   == Size(SamImage, MdmImage) - Len(Rest)     \* bytes of the message that were read

Unmarked == /\ \A i \in 1..Len(SamImage) : SamImage[i] \notin Marks
            /\ \A i \in 1..Len(MdmImage) : MdmImage[i] \notin Marks

Expected ==
    /\ Len(Rest) <= Size(SamImage, MdmImage)
    /\ \A i \in 1..Len(Rest) : Rest[i] = Sent(SamImage, MdmImage)[Done + i]

Filed ==
    /\ Done > 0 /\ SamEnd > 0 => Holds(samFile, SamImage, Least(Done, SamEnd) - 1) /\ "sam" \notin cut
    /\ Done > SamEnd => Holds(mdmFile, MdmImage, Done - SamEnd - 1) /\ "mdm" \notin cut
    /\ Done \in 1..SamEnd => updater = "sam"
    /\ Done > SamEnd => updater = "mdm"

Arrives == Rest # <<>> => Expected /\ Filed

\* Nobody else is sending.
Alone == Sending \subseteq {Now}

\* A file is of one image: all of it, but for one that is being sent or was cut.
Short(h) == h \in cut \/ (Inside # {} /\ updater = h)
Kept(h) ==
    h \in present => \E a \in DOMAIN images :
        IF Short(h) THEN \E n \in 0..images[a][h] : Begins(h, a, n) ELSE Whole(h, a)
KeptBoth == Kept("sam") /\ Kept("mdm")

Follows  == TypeOK /\ Unmarked /\ Arrives
ImageInv == Inv /\ Alone /\ Follows /\ KeptBoth /\ FlagMeansWhole

\* It is all about clients that come one after the other.
FlagInv == Inv /\ ("second" \notin seen => ImageInv)

LEMMA NowIs ==
    ASSUME TypeOK
    PROVE  /\ Rest \in Seq(Byte) /\ SamImage \in Seq(Byte) /\ MdmImage \in Seq(Byte)
           /\ Rest # <<>> => images # <<>>
           /\ images # <<>> => /\ Now \in DOMAIN images /\ Now \in DOMAIN stream /\ Now # 0
                               /\ Rest = stream[Now]
                               /\ Len(SamImage) = images[Now].sam /\ Len(MdmImage) = images[Now].mdm
                               /\ \A i \in 1..Len(SamImage) : SamImage[i] = <<Now, i>>
                               /\ \A i \in 1..Len(MdmImage) : MdmImage[i] = <<Now, i>>
<1>1. /\ DOMAIN stream = 1..Len(stream) /\ DOMAIN images = 1..Len(images)
      /\ Len(images) \in Nat /\ Len(stream) = Len(images)
      /\ \A a \in DOMAIN stream : stream[a] \in Seq(Byte)
      /\ \A a \in DOMAIN images : images[a].sam \in Nat /\ images[a].mdm \in Nat
  BY StreamsAre
<1>2. Len(images) \in 0..MaxAttempts /\ images \in Seq([sam : SamLens, mdm : MdmLens])
  BY <1>1, UpdateAssumption DEF TypeOK
<1>3. CASE images = <<>>
  BY <1>3, EmptySeq DEF Rest, SamImage, MdmImage
<1>4. CASE images # <<>>
  <2>1. Len(images) > 0
    BY <1>1, <1>2, <1>4, EmptySeq
  <2>2. Now \in DOMAIN images /\ Now \in DOMAIN stream /\ Now # 0 /\ Now \in 0..MaxAttempts
    BY <1>1, <1>2, <2>1 DEF Now
  <2>3. Rest = stream[Now] /\ SamImage = Image(Now, images[Now].sam) /\ MdmImage = Image(Now, images[Now].mdm)
    BY <1>4 DEF Rest, SamImage, MdmImage
  <2>4. Rest \in Seq(Byte) /\ SamImage \in Seq(Byte) /\ MdmImage \in Seq(Byte)
    BY <1>1, <2>2, <2>3, ImageType
  <2>5. ASSUME NEW n \in Nat
        PROVE  Len(Image(Now, n)) = n /\ \A i \in 1..n : Image(Now, n)[i] = <<Now, i>>
    BY DEF Image
  <2>6. /\ Len(SamImage) = images[Now].sam /\ Len(MdmImage) = images[Now].mdm
        /\ \A i \in 1..Len(SamImage) : SamImage[i] = <<Now, i>>
        /\ \A i \in 1..Len(MdmImage) : MdmImage[i] = <<Now, i>>
    BY <1>1, <2>2, <2>3, <2>5
  <2> QED
    BY <1>4, <2>2, <2>3, <2>4, <2>6
<1> QED
  BY <1>3, <1>4

\* The length of a part, and what is in it
LEMMA PartLenIs ==
    ASSUME NEW q \in Seq(Byte)
    PROVE  /\ Len(q) \in Nat /\ PartLen(q) \in Nat
           /\ q = <<>> => Len(q) = 0 /\ PartLen(q) = 0
           /\ q # <<>> => Len(q) > 0 /\ PartLen(q) = Len(q) + 1
<1>1. Len(q) \in Nat
  BY LenProperties
<1>2. CASE q = <<>>
  <2>1. Len(q) = 0 /\ PartLen(q) = 0
    BY <1>2, EmptySeq DEF PartLen
  <2> QED
    BY <1>1, <1>2, <2>1
<1>3. CASE q # <<>>
  <2>1. Len(q) > 0
    BY <1>1, <1>3, EmptySeq
  <2>2. PartLen(q) = Len(q) + 1
    BY <1>3 DEF PartLen
  <2> QED
    BY <1>1, <1>3, <2>1, <2>2
<1> QED
  BY <1>2, <1>3

LEMMA PartIs ==
    ASSUME NEW mark \in Byte, NEW q \in Seq(Byte)
    PROVE  /\ PartOf(mark, q) \in Seq(Byte) /\ Len(PartOf(mark, q)) = PartLen(q)
           /\ PartLen(q) > 0 => PartOf(mark, q)[1] = mark
           /\ \A i \in 2..PartLen(q) : PartOf(mark, q)[i] = q[i - 1]
<1>1. CASE q # <<>>
  <2>1. Len(q) \in Nat /\ Len(q) > 0 /\ PartLen(q) = Len(q) + 1
    BY <1>1, PartLenIs
  <2>2. PartOf(mark, q) = <<mark>> \o q
    BY <2>1 DEF PartOf
  <2>3. <<mark>> \in Seq(Byte) /\ Len(<<mark>>) = 1 /\ <<mark>>[1] = mark
    OBVIOUS
  <2> DEFINE one == <<mark>>
  <2>4. one \in Seq(Byte) /\ Len(one) = 1 /\ one[1] = mark
    BY <2>3
  <2> HIDE DEF one
  <2>5. /\ one \o q \in Seq(Byte) /\ Len(one \o q) = 1 + Len(q)
        /\ \A i \in 1..(1 + Len(q)) : (one \o q)[i] = IF i <= 1 THEN one[i] ELSE q[i - 1]
    BY <2>4, ConcatProperties
  <2>6. PartOf(mark, q) = one \o q
    BY <2>2 DEF one
  <2> QED
    BY <2>1, <2>4, <2>5, <2>6
<1>2. CASE q = <<>>
  <2>1. Len(q) = 0 /\ PartLen(q) = 0
    BY <1>2, PartLenIs
  <2>2. PartOf(mark, q) = <<>>
    BY <2>1 DEF PartOf
  <2>3. PartOf(mark, q) \in Seq(Byte) /\ Len(PartOf(mark, q)) = 0
    BY <2>2, EmptySeq
  <2> QED
    BY <2>1, <2>3
<1> QED
  BY <1>1, <1>2

\* What is where in a message
LEMMA MessageIs ==
    ASSUME NEW s \in Seq(Byte), NEW m \in Seq(Byte)
    PROVE  /\ Sent(s, m) \in Seq(Byte) /\ Len(Sent(s, m)) = Size(s, m)
           /\ Sent(s, m)[Size(s, m)] = EndMark
           /\ PartLen(s) > 0 => Sent(s, m)[1] = SamMark
           /\ PartLen(m) > 0 => Sent(s, m)[PartLen(s) + 1] = MdmMark
           /\ \A i \in 2..PartLen(s) : Sent(s, m)[i] = s[i - 1]
           /\ \A i \in 2..PartLen(m) : Sent(s, m)[PartLen(s) + i] = m[i - 1]
<1> DEFINE a == PartOf(SamMark, s)
           b == PartOf(MdmMark, m)
           e == <<EndMark>>
           A == PartLen(s)
           B == PartLen(m)
           q == (a \o b) \o e
<1>1. SamMark \in Byte /\ MdmMark \in Byte /\ e \in Seq(Byte) /\ Len(e) = 1 /\ e[1] = EndMark
  BY MarksAreBytes
<1>2. /\ a \in Seq(Byte) /\ Len(a) = A /\ (A > 0 => a[1] = SamMark)
      /\ \A i \in 2..A : a[i] = s[i - 1]
  BY <1>1, PartIs
<1>3. /\ b \in Seq(Byte) /\ Len(b) = B /\ (B > 0 => b[1] = MdmMark)
      /\ \A i \in 2..B : b[i] = m[i - 1]
  BY <1>1, PartIs
<1>4. A \in Nat /\ B \in Nat
  BY PartLenIs
<1>5. Sent(s, m) = q /\ Size(s, m) = A + B + 1
  BY DEF Sent, Size
<1> HIDE DEF a, b, e, A, B
<1>6. /\ a \o b \in Seq(Byte) /\ Len(a \o b) = A + B
      /\ \A i \in 1..(A + B) : (a \o b)[i] = IF i <= A THEN a[i] ELSE b[i - A]
  BY <1>2, <1>3, ConcatProperties
<1>7. /\ q \in Seq(Byte) /\ Len(q) = A + B + 1
      /\ \A i \in 1..(A + B + 1) : q[i] = IF i <= A + B THEN (a \o b)[i] ELSE e[i - (A + B)]
  <2> DEFINE c == a \o b
  <2>1. c \in Seq(Byte) /\ Len(c) = A + B
    BY <1>6
  <2>2. q = c \o e
    OBVIOUS
  <2> HIDE DEF c, q
  <2>3. /\ q \in Seq(Byte) /\ Len(q) = Len(c) + Len(e)
        /\ \A i \in 1..(Len(c) + Len(e)) : q[i] = IF i <= Len(c) THEN c[i] ELSE e[i - Len(c)]
    BY <1>1, <2>1, <2>2, ConcatProperties
  <2>4. /\ q \in Seq(Byte) /\ Len(q) = A + B + 1
        /\ \A i \in 1..(A + B + 1) : q[i] = IF i <= A + B THEN c[i] ELSE e[i - (A + B)]
    BY <1>1, <2>1, <2>3
  <2> QED
    BY <2>4 DEF c
<1> HIDE DEF q
<1>8. q[A + B + 1] = EndMark
  <2>1. A + B + 1 \in 1..(A + B + 1) /\ ~ (A + B + 1 <= A + B) /\ (A + B + 1) - (A + B) = 1
    BY <1>4
  <2>2. q[A + B + 1] = e[(A + B + 1) - (A + B)]
    BY <1>7, <2>1
  <2> QED
    BY <1>1, <2>1, <2>2
<1>9. \A i \in 1..A : q[i] = a[i]
  <2> SUFFICES ASSUME NEW i \in 1..A PROVE q[i] = a[i]
    OBVIOUS
  <2>1. i \in 1..(A + B + 1) /\ i <= A + B /\ i \in 1..(A + B) /\ i <= A
    BY <1>4
  <2>2. q[i] = (a \o b)[i]
    BY <1>7, <2>1
  <2> QED
    BY <1>6, <2>1, <2>2
<1>10. \A i \in 1..B : q[A + i] = b[i]
  <2> SUFFICES ASSUME NEW i \in 1..B PROVE q[A + i] = b[i]
    OBVIOUS
  <2>1. /\ A + i \in 1..(A + B + 1) /\ A + i <= A + B /\ A + i \in 1..(A + B)
        /\ ~ (A + i <= A) /\ (A + i) - A = i
    BY <1>4
  <2>2. q[A + i] = (a \o b)[A + i]
    BY <1>7, <2>1
  <2> QED
    BY <1>6, <2>1, <2>2
<1>11. A > 0 => q[1] = SamMark
  BY <1>2, <1>4, <1>9
<1>12. B > 0 => q[A + 1] = MdmMark
  BY <1>3, <1>4, <1>10
<1>13. \A i \in 2..A : q[i] = s[i - 1]
  BY <1>2, <1>4, <1>9
<1>14. \A i \in 2..B : q[A + i] = m[i - 1]
  <2> SUFFICES ASSUME NEW i \in 2..B PROVE q[A + i] = m[i - 1]
    OBVIOUS
  <2>1. i \in 1..B
    BY <1>4
  <2> QED
    BY <1>3, <1>10, <2>1
<1> QED
  BY <1>5, <1>7, <1>8, <1>11, <1>12, <1>13, <1>14 DEF A, B

\* A mark is met only where the message has it, and what is no mark is of an image.
LEMMA MarksInMessage ==
    ASSUME NEW s \in Seq(Byte), NEW m \in Seq(Byte),
           \A k \in 1..Len(s) : s[k] \notin Marks, \A k \in 1..Len(m) : m[k] \notin Marks,
           NEW i \in 1..Size(s, m)
    PROVE  /\ Sent(s, m)[i] = SamMark => i = 1 /\ PartLen(s) > 0
           /\ Sent(s, m)[i] = MdmMark => i = PartLen(s) + 1 /\ PartLen(m) > 0
           /\ Sent(s, m)[i] = EndMark => i = Size(s, m)
           /\ Sent(s, m)[i] \notin Marks =>
                 \/ i \in 2..PartLen(s) /\ Sent(s, m)[i] = s[i - 1]
                 \/ /\ i - PartLen(s) \in 2..PartLen(m)
                    /\ Sent(s, m)[i] = m[(i - PartLen(s)) - 1]
<1> DEFINE A == PartLen(s)
           B == PartLen(m)
           q == Sent(s, m)
<1>1. /\ A \in Nat /\ B \in Nat /\ Size(s, m) = A + B + 1
      /\ Len(s) \in Nat /\ (A > 0 => A = Len(s) + 1)
      /\ Len(m) \in Nat /\ (B > 0 => B = Len(m) + 1)
  BY PartLenIs DEF Size
<1>2. /\ q[Size(s, m)] = EndMark
      /\ A > 0 => q[1] = SamMark
      /\ B > 0 => q[A + 1] = MdmMark
      /\ \A k \in 2..A : q[k] = s[k - 1]
      /\ \A k \in 2..B : q[A + k] = m[k - 1]
  BY MessageIs
<1>3. SamMark # MdmMark /\ SamMark # EndMark /\ MdmMark # EndMark
  BY DEF SamMark, MdmMark, EndMark
<1>4. SamMark \in Marks /\ MdmMark \in Marks /\ EndMark \in Marks
  BY DEF Marks
<1> HIDE DEF A, B, q
<1>5. CASE i = A + B + 1
  BY <1>1, <1>2, <1>3, <1>4, <1>5 DEF A, B, q
<1>6. CASE i = 1 /\ A > 0
  BY <1>1, <1>2, <1>3, <1>4, <1>6 DEF A, B, q
<1>7. CASE i = A + 1 /\ B > 0
  BY <1>1, <1>2, <1>3, <1>4, <1>7 DEF A, B, q
<1>8. CASE i \in 2..A
  <2>1. q[i] = s[i - 1] /\ i - 1 \in 1..Len(s)
    BY <1>1, <1>2, <1>8
  <2>2. q[i] \notin Marks
    BY <2>1
  <2> QED
    BY <1>4, <1>8, <2>1, <2>2 DEF A, q
<1>9. CASE i - A \in 2..B
  <2> DEFINE k == i - A
  <2>1. k \in 2..B /\ A + k = i /\ k - 1 \in 1..Len(m)
    BY <1>1, <1>9
  <2>2. q[A + k] = m[k - 1]
    BY <1>2, <2>1
  <2>3. q[i] = m[k - 1]
    BY <2>1, <2>2
  <2>4. q[i] \notin Marks
    BY <2>1, <2>3
  <2> QED
    BY <1>4, <1>9, <2>3, <2>4 DEF A, B, q
<1>10. i = A + B + 1 \/ (i = 1 /\ A > 0) \/ (i = A + 1 /\ B > 0) \/ i \in 2..A \/ i - A \in 2..B
  BY <1>1
<1> QED
  BY <1>5, <1>6, <1>7, <1>8, <1>9, <1>10

\* A file that gets the bytes it waits for
LEMMA HoldsMore ==
    ASSUME NEW file \in Seq(Byte), NEW image \in Seq(Byte), NEW rest \in Seq(Byte),
           NEW k \in Nat, NEW n \in 1..Len(rest), Holds(file, image, k),
           \A i \in 1..n : rest[i] = image[k + i]
    PROVE  Holds(file \o SubSeq(rest, 1, n), image, k + n)
<1>1. Len(rest) \in Nat /\ n \in Nat /\ n <= Len(rest)
  BY LenProperties
<1> DEFINE new == SubSeq(rest, 1, n)
<1>2. new \in Seq(Byte) /\ Len(new) = n /\ \A i \in 1..n : new[i] = rest[i]
  <2>1. \A i \in 1..n : rest[i] \in Byte
    BY <1>1, ElementOfSeq
  <2>2. /\ new \in Seq(Byte)
        /\ Len(new) = IF 1 <= n THEN n - 1 + 1 ELSE 0
        /\ \A i \in 1..(n - 1 + 1) : new[i] = rest[1 + i - 1]
    BY <1>1, <2>1, SubSeqProperties
  <2> HIDE DEF new
  <2>3. n - 1 + 1 = n /\ 1 <= n /\ \A i \in 1..n : 1 + i - 1 = i
    BY <1>1
  <2> QED
    BY <2>2, <2>3
<1> HIDE DEF new
<1>3. Len(file) = k /\ \A i \in 1..k : file[i] = image[i]
  BY DEF Holds
<1>4. /\ Len(file \o new) = k + n
      /\ \A i \in 1..(k + n) : (file \o new)[i] = IF i <= k THEN file[i] ELSE new[i - k]
  BY <1>2, <1>3, ConcatProperties
<1>5. ASSUME NEW i \in 1..(k + n)
      PROVE  (file \o new)[i] = image[i]
  <2>1. CASE i <= k
    BY <1>3, <1>4, <2>1
  <2>2. CASE ~ (i <= k)
    <3>1. i - k \in 1..n /\ k + (i - k) = i
      BY <1>1, <2>2
    <3>2. (file \o new)[i] = new[i - k] /\ new[i - k] = rest[i - k]
      BY <1>2, <1>4, <2>2, <3>1
    <3>3. rest[i - k] = image[k + (i - k)]
      BY <3>1
    <3> QED
      BY <3>1, <3>2, <3>3
  <2> QED
    BY <2>1, <2>2
<1> QED
  BY <1>4, <1>5 DEF Holds, new

LEMMA HoldsWhole ==
    ASSUME NEW file \in Seq(Byte), NEW image \in Seq(Byte), Holds(file, image, Len(image))
    PROVE  file = image
BY SeqEqual DEF Holds

\* The next bytes of the client's message, by the place it has come to
LEMMA Facing ==
    ASSUME Follows, Rest # <<>>
    PROVE  /\ Rest \in Seq(Byte) /\ SamImage \in Seq(Byte) /\ MdmImage \in Seq(Byte)
           /\ samFile \in Seq(Byte) /\ mdmFile \in Seq(Byte)
           /\ Len(Rest) \in Nat /\ Len(Rest) > 0
           /\ SamEnd \in Nat /\ PartLen(MdmImage) \in Nat /\ Done \in Nat
           /\ Size(SamImage, MdmImage) = SamEnd + PartLen(MdmImage) + 1
           /\ Done + Len(Rest) = Size(SamImage, MdmImage)
           /\ \A i \in 1..Len(Rest) :
                 /\ Done + i \in 1..Size(SamImage, MdmImage)
                 /\ Rest[i] = Sent(SamImage, MdmImage)[Done + i]
           /\ Filed
<1>1. /\ Rest \in Seq(Byte) /\ SamImage \in Seq(Byte) /\ MdmImage \in Seq(Byte)
      /\ samFile \in Seq(Byte) /\ mdmFile \in Seq(Byte)
  BY NowIs DEF Follows, TypeOK
<1>2. Len(Rest) \in Nat /\ Len(Rest) > 0
  BY <1>1, EmptySeq
<1>3. SamEnd \in Nat /\ PartLen(MdmImage) \in Nat
      /\ Size(SamImage, MdmImage) = SamEnd + PartLen(MdmImage) + 1
  BY <1>1, PartLenIs DEF SamEnd, Size
<1>4. /\ Len(Rest) <= Size(SamImage, MdmImage) /\ Filed
      /\ \A i \in 1..Len(Rest) : Rest[i] = Sent(SamImage, MdmImage)[Done + i]
  BY DEF Follows, Arrives, Expected
<1>5. Done = Size(SamImage, MdmImage) - Len(Rest)
  BY DEF Done
<1>6. Done \in Nat /\ Done + Len(Rest) = Size(SamImage, MdmImage)
  BY <1>2, <1>3, <1>4, <1>5
<1>7. \A i \in 1..Len(Rest) : Done + i \in 1..Size(SamImage, MdmImage)
  BY <1>2, <1>3, <1>6
<1> QED
  BY <1>1, <1>2, <1>3, <1>4, <1>6, <1>7

\* What is left of the message after n bytes is still expected.
LEMMA ReadsOn ==
    ASSUME Follows, Rest # <<>>, NEW n \in 1..Len(Rest),
           Len(Rest') = Len(Rest) - n,
           \A i \in 1..(Len(Rest) - n) : Rest'[i] = Rest[n + i],
           UNCHANGED <<SamImage, MdmImage>>
    PROVE  Expected' /\ Done' = Done + n /\ SamEnd' = SamEnd
<1>1. /\ Len(Rest) \in Nat /\ Done \in Nat /\ Done + Len(Rest) = Size(SamImage, MdmImage)
      /\ \A i \in 1..Len(Rest) : Rest[i] = Sent(SamImage, MdmImage)[Done + i]
      /\ Size(SamImage, MdmImage) \in Nat
  BY Facing
<1>2. n \in Nat /\ n <= Len(Rest)
  BY <1>1
<1>3. Done' = Done + n
  <2>1. Done' = Size(SamImage, MdmImage) - Len(Rest')
    BY DEF Done
  <2> QED
    BY <1>1, <1>2, <2>1
<1>4. Len(Rest') <= Size(SamImage, MdmImage)
  BY <1>1, <1>2
<1>5. ASSUME NEW i \in 1..Len(Rest')
      PROVE  Rest'[i] = Sent(SamImage, MdmImage)[Done' + i]
  <2>1. n + i \in 1..Len(Rest) /\ Done + (n + i) = Done' + i /\ i \in 1..(Len(Rest) - n)
    BY <1>1, <1>2, <1>3
  <2>2. Rest'[i] = Rest[n + i]
    BY <2>1
  <2> QED
    BY <1>1, <2>1, <2>2
<1>6. Expected'
  BY <1>4, <1>5 DEF Expected
<1> QED
  BY <1>3, <1>6 DEF SamEnd

LEMMA TailReadsOn ==
    ASSUME Follows, Rest # <<>>, Rest' = Tail(Rest), UNCHANGED <<SamImage, MdmImage>>
    PROVE  Expected' /\ Done' = Done + 1 /\ SamEnd' = SamEnd /\ Head(Rest) = Rest[1]
<1>1. Rest \in Seq(Byte) /\ Len(Rest) \in Nat /\ Len(Rest) > 0
  BY Facing
<1>2. /\ Len(Rest') = Len(Rest) - 1
      /\ \A i \in 1..(Len(Rest) - 1) : Rest'[i] = Rest[i + 1]
      /\ Head(Rest) = Rest[1]
  BY <1>1, HeadTailProperties
<1>3. \A i \in 1..(Len(Rest) - 1) : Rest'[i] = Rest[1 + i]
  BY <1>1, <1>2
<1>4. 1 \in 1..Len(Rest)
  BY <1>1
<1> QED
  BY <1>2, <1>3, <1>4, ReadsOn

\* The mark at the head tells how much was read.
LEMMA AtMark ==
    ASSUME Follows, Rest # <<>>
    PROVE  /\ Head(Rest) = SamMark => Done = 0 /\ SamEnd > 0
           /\ Head(Rest) = MdmMark => Done = SamEnd /\ PartLen(MdmImage) > 0
           /\ Head(Rest) = EndMark => Done = SamEnd + PartLen(MdmImage)
<1>1. /\ Rest \in Seq(Byte) /\ SamImage \in Seq(Byte) /\ MdmImage \in Seq(Byte)
      /\ Len(Rest) \in Nat /\ Len(Rest) > 0 /\ Done \in Nat
      /\ SamEnd \in Nat /\ PartLen(MdmImage) \in Nat
      /\ Size(SamImage, MdmImage) = SamEnd + PartLen(MdmImage) + 1
      /\ \A i \in 1..Len(Rest) :
            /\ Done + i \in 1..Size(SamImage, MdmImage)
            /\ Rest[i] = Sent(SamImage, MdmImage)[Done + i]
  BY Facing
<1>2. Head(Rest) = Rest[1]
  BY <1>1, HeadTailProperties
<1>3. /\ Done + 1 \in 1..Size(SamImage, MdmImage)
      /\ Head(Rest) = Sent(SamImage, MdmImage)[Done + 1]
  BY <1>1, <1>2
<1>4. /\ \A k \in 1..Len(SamImage) : SamImage[k] \notin Marks
      /\ \A k \in 1..Len(MdmImage) : MdmImage[k] \notin Marks
  BY DEF Follows, Unmarked
<1>5. \A k \in 1..Size(SamImage, MdmImage) :
         /\ Sent(SamImage, MdmImage)[k] = SamMark => k = 1 /\ SamEnd > 0
         /\ Sent(SamImage, MdmImage)[k] = MdmMark => k = SamEnd + 1 /\ PartLen(MdmImage) > 0
         /\ Sent(SamImage, MdmImage)[k] = EndMark => k = Size(SamImage, MdmImage)
  BY <1>1, <1>4, MarksInMessage DEF SamEnd
<1>6. /\ Head(Rest) = SamMark => Done + 1 = 1 /\ SamEnd > 0
      /\ Head(Rest) = MdmMark => Done + 1 = SamEnd + 1 /\ PartLen(MdmImage) > 0
      /\ Head(Rest) = EndMark => Done + 1 = Size(SamImage, MdmImage)
  BY <1>3, <1>5
<1>7. /\ Size(SamImage, MdmImage) = SamEnd + PartLen(MdmImage) + 1
      /\ SamEnd \in Nat /\ PartLen(MdmImage) \in Nat /\ Done \in Nat
  BY <1>1
<1> QED
  BY <1>6, <1>7

\* The only client that sends is the last one.
LEMMA LastReads ==
    ASSUME TypeOK, Alone, NEW mark, Reads(mark), images' = images
    PROVE  /\ Rest # <<>> /\ Head(Rest) = mark /\ Rest' = Tail(Rest) /\ Alone'
           /\ UNCHANGED <<Now, SamImage, MdmImage>>
<1>1. PICK a \in Sending : Head(stream[a]) = mark /\ stream' = [stream EXCEPT ![a] = Tail(stream[a])]
  BY DEF Reads
<1>2. a = Now /\ a \in DOMAIN stream /\ stream[a] # <<>>
  BY DEF Alone, Sending
<1>3. images # <<>> /\ stream[Now] \in Seq(Byte) /\ Len(stream) = Len(images)
  <2>1. DOMAIN stream = 1..Len(stream) /\ Len(stream) = Len(images) /\ \A b \in DOMAIN stream : stream[b] \in Seq(Byte)
    BY StreamsAre
  <2> QED
    BY <1>2, <2>1, EmptySeq
<1>4. Rest = stream[Now]
  BY <1>3 DEF Rest
<1>5. Now' = Now /\ SamImage' = SamImage /\ MdmImage' = MdmImage
  BY DEF Now, SamImage, MdmImage
<1>6. stream'[Now] = Tail(stream[Now])
  BY <1>1, <1>2
<1>7. Rest' = Tail(Rest)
  BY <1>3, <1>4, <1>5, <1>6 DEF Rest
<1>8. Alone'
  <2>1. DOMAIN stream' = DOMAIN stream /\ \A b \in DOMAIN stream \ {a} : stream'[b] = stream[b]
    BY <1>1
  <2> QED
    BY <1>2, <1>5, <2>1 DEF Alone, Sending
<1> QED
  BY <1>1, <1>2, <1>4, <1>5, <1>7, <1>8

\* The message does not end before its end mark.
LEMMA MoreToCome ==
    ASSUME UNCHANGED <<SamImage, MdmImage>>, Size(SamImage, MdmImage) \in Nat,
           Done' < Size(SamImage, MdmImage)
    PROVE  Rest' # <<>>
<1> SUFFICES ASSUME Rest' = <<>> PROVE FALSE
  OBVIOUS
<1>1. Len(Rest') = 0
  BY EmptySeq
<1>2. Done' = Size(SamImage, MdmImage) - Len(Rest')
  BY DEF Done
<1> QED
  BY <1>1, <1>2

LEMMA ReadSamArrives ==
    ASSUME Follows, Alone, ReadSam
    PROVE  Rest' # <<>> /\ Arrives' /\ Alone' /\ Rest # <<>> /\ Done' > 0 /\ Head(Rest) \in Marks
<1>0. Reads(SamMark) /\ images' = images
  BY DEF ReadSam
<1>1. /\ Rest # <<>> /\ Head(Rest) = SamMark /\ Rest' = Tail(Rest) /\ Alone'
      /\ samFile' = <<>> /\ updater' = "sam" /\ cut' = cut \ {"sam"}
      /\ UNCHANGED <<mdmFile, SamImage, MdmImage>>
  BY <1>0, LastReads DEF ReadSam, Follows
<1>2. Expected' /\ Done' = Done + 1 /\ SamEnd' = SamEnd
  BY <1>1, TailReadsOn
<1>3. Done = 0 /\ SamEnd > 0 /\ SamEnd \in Nat
  BY <1>1, AtMark, Facing
<1>4. SamEnd > 1
  BY <1>1, <1>3, PartLenIs, Facing DEF SamEnd
<1>5. Done' = 1 /\ Least(Done', SamEnd') - 1 = 0
  BY <1>2, <1>3, <1>4 DEF Least
<1>6. Holds(<<>>, SamImage, 0)
  BY DEF Holds
<1>7. Filed'
  BY <1>1, <1>2, <1>4, <1>5, <1>6, <1>3 DEF Filed
<1>8. Rest' # <<>>
  <2>1. Size(SamImage, MdmImage) = SamEnd + PartLen(MdmImage) + 1 /\ PartLen(MdmImage) \in Nat
    BY <1>1, Facing
  <2> QED
    BY <1>1, <1>3, <1>4, <1>5, <2>1, MoreToCome
<1> QED
  BY <1>1, <1>2, <1>5, <1>7, <1>8 DEF Arrives, Marks

LEMMA ReadMdmArrives ==
    ASSUME Follows, Alone, ReadMdm
    PROVE  Rest' # <<>> /\ Arrives' /\ Alone' /\ Rest # <<>> /\ Done' > 0 /\ Head(Rest) \in Marks
<1>0. Reads(MdmMark) /\ images' = images
  BY DEF ReadMdm
<1>1. /\ Rest # <<>> /\ Head(Rest) = MdmMark /\ Rest' = Tail(Rest) /\ Alone'
      /\ mdmFile' = <<>> /\ updater' = "mdm" /\ cut' = cut \ {"mdm"}
      /\ UNCHANGED <<samFile, SamImage, MdmImage>>
  BY <1>0, LastReads DEF ReadMdm, Follows
<1>2. Expected' /\ Done' = Done + 1 /\ SamEnd' = SamEnd
  BY <1>1, TailReadsOn
<1>3. Done = SamEnd /\ SamEnd \in Nat /\ Filed
  BY <1>1, AtMark, Facing
<1>4. Done' = SamEnd + 1 /\ Done' - SamEnd - 1 = 0
  BY <1>2, <1>3
<1>5. Least(Done, SamEnd) = SamEnd /\ Least(Done', SamEnd') = SamEnd
  BY <1>2, <1>3, <1>4 DEF Least
<1>6. Holds(<<>>, MdmImage, 0)
  BY DEF Holds
<1>7. SamEnd > 0 => Holds(samFile, SamImage, SamEnd - 1) /\ "sam" \notin cut
  BY <1>3, <1>5 DEF Filed
<1>8. Done' > SamEnd /\ Done' \notin 1..SamEnd
  BY <1>3, <1>4
<1>9. Filed'
  BY <1>1, <1>2, <1>4, <1>5, <1>6, <1>7, <1>8 DEF Filed
<1>10. Rest' # <<>>
  <2>1. /\ Size(SamImage, MdmImage) = SamEnd + PartLen(MdmImage) + 1
        /\ PartLen(MdmImage) \in Nat /\ PartLen(MdmImage) > 0
    BY <1>1, Facing, AtMark
  <2> QED
    BY <1>1, <1>3, <1>4, <2>1, MoreToCome
<1> QED
  BY <1>1, <1>3, <1>4, <1>9, <1>10, <1>2 DEF Arrives, Marks

\* Data is read up to the next mark: it all belongs to one image.
LEMMA OneImage ==
    ASSUME Follows, NEW n \in 1..Len(Rest), \A i \in 1..n : Rest[i] \notin Marks,
           Rest # <<>>
    PROVE  \/ /\ Done \in 1..SamEnd /\ Done + n <= SamEnd
              /\ \A i \in 1..n : Rest[i] = SamImage[(Done - 1) + i]
           \/ /\ Done > SamEnd /\ Done + n <= SamEnd + PartLen(MdmImage)
              /\ \A i \in 1..n : Rest[i] = MdmImage[(Done - SamEnd - 1) + i]
<1> DEFINE A == SamEnd
           B == PartLen(MdmImage)
           q == Sent(SamImage, MdmImage)
<1>1. /\ SamImage \in Seq(Byte) /\ MdmImage \in Seq(Byte)
      /\ Len(Rest) \in Nat /\ Done \in Nat /\ A \in Nat /\ B \in Nat
      /\ Size(SamImage, MdmImage) = A + B + 1
      /\ \A i \in 1..Len(Rest) :
            Done + i \in 1..Size(SamImage, MdmImage) /\ Rest[i] = q[Done + i]
  BY Facing
<1>2. /\ q[A + B + 1] = EndMark /\ (A > 0 => q[1] = SamMark) /\ (B > 0 => q[A + 1] = MdmMark)
      /\ \A k \in 2..A : q[k] = SamImage[k - 1]
      /\ \A k \in 2..B : q[A + k] = MdmImage[k - 1]
  <2>1. /\ q[Size(SamImage, MdmImage)] = EndMark
        /\ PartLen(SamImage) > 0 => q[1] = SamMark
        /\ PartLen(MdmImage) > 0 => q[PartLen(SamImage) + 1] = MdmMark
        /\ \A k \in 2..PartLen(SamImage) : q[k] = SamImage[k - 1]
        /\ \A k \in 2..PartLen(MdmImage) : q[PartLen(SamImage) + k] = MdmImage[k - 1]
    BY <1>1, MessageIs
  <2>2. PartLen(SamImage) = A /\ Size(SamImage, MdmImage) = A + B + 1
    BY <1>1 DEF SamEnd
  <2> HIDE DEF q
  <2> QED
    BY <2>1, <2>2
<1>3. SamMark \in Marks /\ MdmMark \in Marks /\ EndMark \in Marks
  BY DEF Marks
<1>4. n \in Nat /\ n >= 1 /\ n <= Len(Rest)
  BY <1>1
<1> HIDE DEF A, B, q
<1>5. \A i \in 1..n : /\ Done + i \in 1..(A + B + 1) /\ Rest[i] = q[Done + i]
                      /\ q[Done + i] \notin Marks
  <2> SUFFICES ASSUME NEW i \in 1..n
               PROVE  /\ Done + i \in 1..(A + B + 1) /\ Rest[i] = q[Done + i]
                      /\ q[Done + i] \notin Marks
    OBVIOUS
  <2>1. i \in 1..Len(Rest)
    BY <1>1, <1>4
  <2> QED
    BY <1>1, <2>1
<1>6. \A k \in (Done + 1)..(Done + n) : k \in 1..(A + B + 1) /\ q[k] \notin Marks
  <2> SUFFICES ASSUME NEW k \in (Done + 1)..(Done + n)
               PROVE  k \in 1..(A + B + 1) /\ q[k] \notin Marks
    OBVIOUS
  <2>1. k - Done \in 1..n /\ Done + (k - Done) = k
    BY <1>1, <1>4
  <2> QED
    BY <1>5, <2>1
<1>7. Done + n < A + B + 1
  <2>1. Done + n \in (Done + 1)..(Done + n)
    BY <1>1, <1>4
  <2>2. Done + n \in 1..(A + B + 1) /\ q[Done + n] \notin Marks
    BY <1>6, <2>1
  <2>3. Done + n # A + B + 1
    BY <1>2, <1>3, <2>2
  <2> QED
    BY <1>1, <1>4, <2>2, <2>3
<1>8. CASE Done + n <= A
  <2>1. Done # 0
    <3> SUFFICES ASSUME Done = 0 PROVE FALSE
      OBVIOUS
    <3>1. A > 0 /\ 1 \in (Done + 1)..(Done + n)
      BY <1>1, <1>4, <1>8
    <3> QED
      BY <1>2, <1>3, <1>6, <3>1
  <2>2. ASSUME NEW i \in 1..n
        PROVE  Rest[i] = SamImage[(Done - 1) + i]
    <3>1. Done + i \in 2..A /\ (Done + i) - 1 = (Done - 1) + i
      BY <1>1, <1>4, <1>8, <2>1
    <3> QED
      BY <1>2, <1>5, <3>1
  <2>3. Done \in 1..A
    BY <1>1, <1>4, <1>8, <2>1
  <2> QED
    BY <1>8, <2>2, <2>3 DEF A
<1>9. CASE ~ (Done + n <= A)
  <2>1. B > 0
    BY <1>1, <1>4, <1>7, <1>9
  <2>2. Done > A
    <3> SUFFICES ASSUME ~ (Done > A) PROVE FALSE
      OBVIOUS
    <3>1. A + 1 \in (Done + 1)..(Done + n)
      BY <1>1, <1>4, <1>9
    <3> QED
      BY <1>2, <1>3, <1>6, <2>1, <3>1
  <2>3. ASSUME NEW i \in 1..n
        PROVE  Rest[i] = MdmImage[(Done - A - 1) + i]
    <3> DEFINE k == (Done + i) - A
    <3>1. k \in 2..B /\ A + k = Done + i /\ k - 1 = (Done - A - 1) + i
      BY <1>1, <1>4, <1>7, <2>2
    <3>2. q[A + k] = MdmImage[k - 1]
      BY <1>2, <3>1
    <3> QED
      BY <1>5, <3>1, <3>2
  <2>4. Done + n <= A + B
    BY <1>1, <1>4, <1>7
  <2> QED
    BY <2>2, <2>3, <2>4 DEF A, B
<1> QED
  BY <1>8, <1>9

LEMMA ReadDataArrives ==
    ASSUME Follows, Alone, ReadData
    PROVE  Rest' # <<>> /\ Arrives' /\ Alone' /\ Rest # <<>> /\ Done' > 0
<1>0. Rest \in Seq(Byte) /\ TypeOK
  BY NowIs DEF Follows
<1>1. PICK n \in 1..Chunk :
         /\ n <= Len(Rest) /\ \A i \in 1..n : Rest[i] \notin Marks
         /\ Rest' = SubSeq(Rest, n + 1, Len(Rest)) /\ Alone'
         /\ samFile' = (IF updater = "sam" THEN samFile \o SubSeq(Rest, 1, n) ELSE samFile)
         /\ mdmFile' = (IF updater = "mdm" THEN mdmFile \o SubSeq(Rest, 1, n) ELSE mdmFile)
         /\ UNCHANGED <<updater, SamImage, MdmImage, cut>>
  <2>1. PICK a \in Inside, n \in 1..Chunk :
         /\ n <= Len(stream[a]) /\ \A i \in 1..n : stream[a][i] \notin Marks
         /\ stream' = [stream EXCEPT ![a] = SubSeq(stream[a], n + 1, Len(stream[a]))]
         /\ samFile' = samFile \o (IF updater = "sam" THEN SubSeq(stream[a], 1, n) ELSE <<>>)
         /\ mdmFile' = mdmFile \o (IF updater = "mdm" THEN SubSeq(stream[a], 1, n) ELSE <<>>)
    BY DEF ReadData
  <2>2. UNCHANGED <<updater, images, cut>>
    BY DEF ReadData
  <2>3. a = Now /\ a \in DOMAIN stream /\ a \in Sending
    BY DEF Alone, Inside, Sending
  <2>4. images # <<>> /\ Rest = stream[Now]
    <3>1. DOMAIN stream = 1..Len(stream) /\ Len(stream) = Len(images)
      BY <1>0, StreamsAre
    <3>2. images # <<>>
      BY <2>3, <3>1, EmptySeq
    <3> QED
      BY <3>2 DEF Rest
  <2>5. Now' = Now /\ SamImage' = SamImage /\ MdmImage' = MdmImage
    BY <2>2 DEF Now, SamImage, MdmImage
  <2>6. Rest' = SubSeq(Rest, n + 1, Len(Rest))
    <3>1. stream'[Now] = SubSeq(stream[Now], n + 1, Len(stream[Now]))
      BY <2>1, <2>3
    <3> QED
      BY <2>2, <2>4, <2>5, <3>1 DEF Rest
  <2>7. Alone'
    <3>1. DOMAIN stream' = DOMAIN stream /\ \A b \in DOMAIN stream \ {a} : stream'[b] = stream[b]
      BY <2>1
    <3> QED
      BY <2>3, <2>5, <3>1 DEF Alone, Sending
  <2>8. samFile \in Seq(Byte) /\ mdmFile \in Seq(Byte)
    BY <1>0 DEF TypeOK
  <2>9. samFile \o <<>> = samFile /\ mdmFile \o <<>> = mdmFile
    BY <2>8, ConcatEmptySeq
  <2>10. /\ samFile' = (IF updater = "sam" THEN samFile \o SubSeq(Rest, 1, n) ELSE samFile)
         /\ mdmFile' = (IF updater = "mdm" THEN mdmFile \o SubSeq(Rest, 1, n) ELSE mdmFile)
    BY <2>1, <2>3, <2>4, <2>9
  <2>11. n <= Len(Rest) /\ \A i \in 1..n : Rest[i] \notin Marks
    BY <2>1, <2>3, <2>4
  <2> QED
    BY <2>2, <2>5, <2>6, <2>7, <2>10, <2>11
<1>2. n \in Nat /\ n >= 1 /\ n \in 1..Len(Rest) /\ Len(Rest) \in Nat
  BY <1>0, <1>1, LenProperties, UpdateAssumption
<1>3. Rest # <<>>
  BY <1>2, EmptySeq
<1>4. /\ SamImage \in Seq(Byte) /\ MdmImage \in Seq(Byte) /\ samFile \in Seq(Byte)
      /\ mdmFile \in Seq(Byte) /\ Done \in Nat /\ SamEnd \in Nat /\ PartLen(MdmImage) \in Nat
      /\ Filed
  BY <1>3, Facing
<1>5. /\ Len(Rest') = Len(Rest) - n
      /\ \A i \in 1..(Len(Rest) - n) : Rest'[i] = Rest[n + i]
  <2>1. \A i \in (n + 1)..Len(Rest) : Rest[i] \in Byte
    <3>1. \A i \in 1..Len(Rest) : Rest[i] \in Byte
      BY <1>0, ElementOfSeq
    <3>2. \A i \in (n + 1)..Len(Rest) : i \in 1..Len(Rest)
      BY <1>2
    <3> QED
      BY <3>1, <3>2
  <2>2. /\ Len(Rest') = IF n + 1 <= Len(Rest) THEN Len(Rest) - (n + 1) + 1 ELSE 0
        /\ \A i \in 1..(Len(Rest) - (n + 1) + 1) : Rest'[i] = Rest[(n + 1) + i - 1]
    BY <1>1, <1>2, <2>1, SubSeqProperties
  <2>3. Len(Rest') = Len(Rest) - n
    BY <1>2, <2>2
  <2>4. ASSUME NEW i \in 1..(Len(Rest) - n)
        PROVE  Rest'[i] = Rest[n + i]
    <3>1. i \in 1..(Len(Rest) - (n + 1) + 1) /\ (n + 1) + i - 1 = n + i
      BY <1>2
    <3> QED
      BY <2>2, <3>1
  <2> QED
    BY <2>3, <2>4
<1>6. Expected' /\ Done' = Done + n /\ SamEnd' = SamEnd
  BY <1>1, <1>2, <1>3, <1>5, ReadsOn
<1>7. \/ /\ Done \in 1..SamEnd /\ Done + n <= SamEnd
         /\ \A i \in 1..n : Rest[i] = SamImage[(Done - 1) + i]
      \/ /\ Done > SamEnd /\ Done + n <= SamEnd + PartLen(MdmImage)
         /\ \A i \in 1..n : Rest[i] = MdmImage[(Done - SamEnd - 1) + i]
  BY <1>1, <1>2, <1>3, OneImage
<1>8. Rest' # <<>> /\ Done' > 0
  <2>1. Size(SamImage, MdmImage) = SamEnd + PartLen(MdmImage) + 1
    BY <1>3, Facing
  <2>2. Size(SamImage, MdmImage) \in Nat /\ Done' < Size(SamImage, MdmImage) /\ Done' > 0
    BY <1>2, <1>4, <1>6, <1>7, <2>1
  <2> QED
    BY <1>1, <2>2, MoreToCome
<1>9. CASE /\ Done \in 1..SamEnd /\ Done + n <= SamEnd
           /\ \A i \in 1..n : Rest[i] = SamImage[(Done - 1) + i]
  <2>1. updater = "sam"
    BY <1>4, <1>9 DEF Filed
  <2>2. Holds(samFile, SamImage, Done - 1)
    BY <1>4, <1>9 DEF Filed, Least
  <2>3. Done - 1 \in Nat
    BY <1>9
  <2>4. Holds(samFile', SamImage, (Done - 1) + n)
    BY <1>0, <1>1, <1>2, <1>4, <1>9, <2>1, <2>2, <2>3, HoldsMore
  <2>5. /\ Done' \in 1..SamEnd' /\ ~ (Done' > SamEnd') /\ Least(Done', SamEnd') - 1 = (Done - 1) + n
    BY <1>2, <1>4, <1>6, <1>9 DEF Least
  <2>6. Filed'
    <3>1. Holds(samFile', SamImage', Least(Done', SamEnd') - 1) /\ "sam" \notin cut'
      BY <1>1, <1>4, <1>9, <2>4, <2>5 DEF Filed
    <3>2. updater' = "sam"
      BY <1>1, <2>1
    <3> QED
      BY <2>5, <3>1, <3>2 DEF Filed
  <2> QED
    BY <1>1, <1>3, <1>6, <1>8, <2>6 DEF Arrives
<1>10. CASE /\ Done > SamEnd /\ Done + n <= SamEnd + PartLen(MdmImage)
           /\ \A i \in 1..n : Rest[i] = MdmImage[(Done - SamEnd - 1) + i]
  <2>1. updater = "mdm"
    BY <1>4, <1>10 DEF Filed
  <2>2. Holds(mdmFile, MdmImage, Done - SamEnd - 1)
    BY <1>4, <1>10 DEF Filed
  <2>3. Done - SamEnd - 1 \in Nat
    BY <1>4, <1>10
  <2>4. Holds(mdmFile', MdmImage, (Done - SamEnd - 1) + n)
    BY <1>0, <1>1, <1>2, <1>4, <1>10, <2>1, <2>2, <2>3, HoldsMore
  <2>5. /\ Done' > SamEnd' /\ Done' \notin 1..SamEnd'
        /\ Done' - SamEnd' - 1 = (Done - SamEnd - 1) + n
        /\ Least(Done', SamEnd') = Least(Done, SamEnd) /\ Done > 0
    BY <1>2, <1>4, <1>6, <1>10 DEF Least
  <2>6. samFile' = samFile
    BY <1>1, <2>1
  <2>7. SamEnd' > 0 => Holds(samFile', SamImage', Least(Done', SamEnd') - 1)
    BY <1>1, <1>4, <1>6, <2>5, <2>6 DEF Filed
  <2> QED
    BY <1>1, <1>3, <1>4, <1>6, <1>8, <2>1, <2>4, <2>5, <2>7 DEF Arrives, Filed
<1> QED
  BY <1>3, <1>7, <1>9, <1>10

\* The file that is being sent holds what was read of the last client's image.
LEMMA HoldsImage ==
    ASSUME NEW file \in Seq(Byte), NEW a \in 0..MaxAttempts, NEW k \in Nat, NEW n \in 0..k,
           Holds(file, Image(a, k), n)
    PROVE  file = Image(a, n)
<1>1. /\ Len(Image(a, n)) = n /\ \A i \in 1..n : Image(a, n)[i] = <<a, i>>
      /\ \A i \in 1..k : Image(a, k)[i] = <<a, i>>
  BY DEF Image
<1>2. Image(a, n) \in Seq(Byte)
  BY ImageType
<1>3. Len(file) = n /\ \A i \in 1..n : file[i] = Image(a, n)[i]
  <2>1. Len(file) = n /\ \A i \in 1..n : file[i] = Image(a, k)[i]
    BY DEF Holds
  <2>2. \A i \in 1..n : i \in 1..k
    OBVIOUS
  <2> QED
    BY <1>1, <2>1, <2>2
<1> QED
  BY <1>1, <1>2, <1>3, SeqEqual

LEMMA LastFile ==
    Follows /\ Rest # <<>> /\ Done > 0 => Kept(updater) /\ updater \in {"sam", "mdm"}
<1> SUFFICES ASSUME Follows, Rest # <<>>, Done > 0
             PROVE  Kept(updater) /\ updater \in {"sam", "mdm"}
  OBVIOUS
<1>1. /\ Rest \in Seq(Byte) /\ SamImage \in Seq(Byte) /\ MdmImage \in Seq(Byte)
      /\ samFile \in Seq(Byte) /\ mdmFile \in Seq(Byte) /\ Len(Rest) \in Nat /\ Len(Rest) > 0
      /\ SamEnd \in Nat /\ PartLen(MdmImage) \in Nat /\ Done \in Nat
      /\ Size(SamImage, MdmImage) = SamEnd + PartLen(MdmImage) + 1
      /\ Done + Len(Rest) = Size(SamImage, MdmImage)
      /\ Rest[1] = Sent(SamImage, MdmImage)[Done + 1]
      /\ Filed
  BY Facing
<1>2. /\ Now \in DOMAIN images /\ Now \in DOMAIN stream /\ Rest = stream[Now]
      /\ Len(SamImage) = images[Now].sam /\ Len(MdmImage) = images[Now].mdm
      /\ SamImage = Image(Now, images[Now].sam) /\ MdmImage = Image(Now, images[Now].mdm)
  BY NowIs DEF Follows, SamImage, MdmImage
<1>3. /\ images[Now].sam \in Nat /\ images[Now].mdm \in Nat /\ Now \in 0..MaxAttempts
  BY <1>2, StreamsAre, UpdateAssumption DEF Follows, Now, TypeOK
<1>4. Rest[1] \notin Marks => Inside # {}
  <2>1. Head(Rest) = Rest[1]
    BY <1>1, HeadTailProperties
  <2> QED
    BY <1>2, <2>1 DEF Inside, Sending
<1>5. /\ \A i \in 2..PartLen(SamImage) : Sent(SamImage, MdmImage)[i] = SamImage[i - 1]
      /\ \A i \in 2..PartLen(MdmImage) : Sent(SamImage, MdmImage)[PartLen(SamImage) + i] = MdmImage[i - 1]
  BY <1>1, MessageIs
<1>6. CASE Done \in 1..SamEnd
  <2>1. updater = "sam" /\ Holds(samFile, SamImage, Done - 1) /\ "sam" \notin cut
    BY <1>1, <1>6 DEF Filed, Least
  <2>2. SamEnd = Len(SamImage) + 1 /\ Len(SamImage) > 0
    BY <1>1, <1>6, PartLenIs DEF SamEnd
  <2>3. Done - 1 \in 0..images[Now].sam
    BY <1>2, <1>3, <1>6, <2>2
  <2>4. Begins("sam", Now, Done - 1)
    <3>1. samFile = Image(Now, Done - 1)
      BY <1>1, <1>2, <1>3, <2>1, <2>3, HoldsImage
    <3> QED
      BY <2>3, <3>1 DEF Begins, File
  <2>5. ~ Short("sam") => Whole("sam", Now)
    <3> SUFFICES ASSUME Inside = {} PROVE Whole("sam", Now)
      BY <2>1 DEF Short
    <3>1. Done = SamEnd
      <4> SUFFICES ASSUME Done + 1 \in 2..SamEnd PROVE FALSE
        BY <1>1, <1>6
      <4>1. Rest[1] = SamImage[Done]
        BY <1>1, <1>5 DEF SamEnd
      <4>2. Done \in 1..Len(SamImage)
        BY <1>1, <2>2
      <4> QED
        BY <1>4, <4>1, <4>2 DEF Follows, Unmarked
    <3>2. Done - 1 = images[Now].sam /\ images[Now].sam > 0
      BY <1>2, <1>3, <2>2, <3>1
    <3> QED
      BY <2>4, <3>2 DEF Whole
  <2> QED
    BY <1>2, <2>1, <2>3, <2>4, <2>5 DEF Kept
<1>7. CASE Done > SamEnd
  <2>1. updater = "mdm" /\ Holds(mdmFile, MdmImage, Done - SamEnd - 1) /\ "mdm" \notin cut
    BY <1>1, <1>7 DEF Filed
  <2>2. PartLen(MdmImage) = Len(MdmImage) + 1 /\ Len(MdmImage) > 0 /\ Done <= SamEnd + PartLen(MdmImage)
    <3>1. PartLen(MdmImage) > 0 /\ Done <= SamEnd + PartLen(MdmImage)
      BY <1>1, <1>7
    <3> QED
      BY <1>1, <3>1, PartLenIs
  <2>3. Done - SamEnd - 1 \in 0..images[Now].mdm
    BY <1>1, <1>2, <1>3, <1>7, <2>2
  <2>4. Begins("mdm", Now, Done - SamEnd - 1)
    <3>1. mdmFile = Image(Now, Done - SamEnd - 1)
      BY <1>1, <1>2, <1>3, <2>1, <2>3, HoldsImage
    <3> QED
      BY <2>3, <3>1 DEF Begins, File
  <2>5. ~ Short("mdm") => Whole("mdm", Now)
    <3> SUFFICES ASSUME Inside = {} PROVE Whole("mdm", Now)
      BY <2>1 DEF Short
    <3>1. Done = SamEnd + PartLen(MdmImage)
      <4> SUFFICES ASSUME Done # SamEnd + PartLen(MdmImage) PROVE FALSE
        OBVIOUS
      <4> DEFINE k == (Done + 1) - SamEnd
      <4>0. /\ Done \in Nat /\ SamEnd \in Nat /\ PartLen(MdmImage) \in Nat
            /\ Done > SamEnd /\ Done <= SamEnd + PartLen(MdmImage)
        BY <1>1, <1>7, <2>2
      <4>1. k \in 2..PartLen(MdmImage) /\ SamEnd + k = Done + 1
        BY <4>0
      <4>2. Rest[1] = MdmImage[k - 1]
        BY <1>1, <1>5, <4>1 DEF SamEnd
      <4>3. k - 1 \in 1..Len(MdmImage)
        BY <1>2, <1>3, <2>2, <4>1
      <4> QED
        BY <1>4, <4>2, <4>3 DEF Follows, Unmarked
    <3>2. Done - SamEnd - 1 = images[Now].mdm /\ images[Now].mdm > 0
      BY <1>1, <1>2, <1>3, <2>2, <3>1
    <3> QED
      BY <2>4, <3>2 DEF Whole
  <2> QED
    BY <1>2, <2>1, <2>3, <2>4, <2>5 DEF Kept
<1>8. Done \in 1..SamEnd \/ Done > SamEnd
  BY <1>1
<1> QED
  BY <1>6, <1>7, <1>8

\* A file that a step leaves alone, and does not take for whole
LEMMA KeptOn ==
    ASSUME TypeOK, NEW h \in {"sam", "mdm"}, Kept(h), h \in present' => h \in present,
           File(h)' = File(h), Short(h) => Short(h)',
           \A a \in DOMAIN images : a \in DOMAIN images' /\ images'[a] = images[a]
    PROVE  Kept(h)'
<1> SUFFICES ASSUME h \in present'
             PROVE  \E a \in DOMAIN images' :
                      IF Short(h)' THEN \E n \in 0..images'[a][h] : Begins(h, a, n)' ELSE Whole(h, a)'
  BY DEF Kept
<1>1. PICK a \in DOMAIN images :
         IF Short(h) THEN \E n \in 0..images[a][h] : Begins(h, a, n) ELSE Whole(h, a)
  BY DEF Kept
<1>2. a \in DOMAIN images' /\ images'[a] = images[a]
  BY <1>1
<1>3. images[a][h] \in Nat
  BY <1>1, StreamsAre
<1>4. ASSUME NEW n, Begins(h, a, n)
      PROVE  Begins(h, a, n)'
  BY <1>2, <1>4 DEF Begins
<1>5. Whole(h, a) => Whole(h, a)' /\ Begins(h, a, images[a][h])
  BY <1>2, <1>4 DEF Whole, Begins
<1>6. CASE Short(h)
  <2>1. PICK n \in 0..images[a][h] : Begins(h, a, n)
    BY <1>1, <1>6
  <2> QED
    BY <1>2, <1>4, <1>6, <2>1
<1>7. CASE ~ Short(h)
  <2>1. Whole(h, a)
    BY <1>1, <1>7
  <2>2. Whole(h, a)' /\ Begins(h, a, images[a][h])'
    BY <1>4, <1>5, <2>1
  <2>3. images[a][h] \in 0..images'[a][h]
    BY <1>2, <1>3
  <2> QED
    BY <1>2, <2>2, <2>3
<1> QED
  BY <1>6, <1>7

LEMMA SameImages ==
    ASSUME UNCHANGED images
    PROVE  UNCHANGED <<Now, SamImage, MdmImage>> /\ (Unmarked => Unmarked')
BY DEF Now, SamImage, MdmImage, Unmarked

\* When the clients are gone the file that was being sent is cut.
LEMMA GoneKeeps ==
    ASSUME ImageInv, UNCHANGED <<present, samFile, mdmFile, images>>, Sending' = {},
           DOMAIN stream' = DOMAIN stream,
           cut' = cut \cup (IF Inside = {} THEN {} ELSE {updater})
    PROVE  Alone' /\ Unmarked' /\ Arrives' /\ KeptBoth'
<1>0. TypeOK /\ KeptBoth /\ Unmarked
  BY DEF ImageInv, Follows
<1>1. Alone'
  BY DEF Alone
<1>2. Unmarked'
  BY <1>0, SameImages
<1>3. Arrives'
  <2> SUFFICES ASSUME Rest' # <<>> PROVE FALSE
    BY DEF Arrives
  <2>1. images # <<>> /\ Now' = Now /\ stream'[Now] # <<>>
    BY DEF Rest, Now
  <2>2. \A a \in DOMAIN stream' : stream'[a] = <<>>
    BY DEF Sending
  <2>3. Now \in DOMAIN stream'
    BY <1>0, <2>1, NowIs
  <2> QED
    BY <2>1, <2>2, <2>3
<1>4. ASSUME NEW h \in {"sam", "mdm"}
      PROVE  Kept(h)'
  <2>1. Short(h) => Short(h)'
    BY DEF Short
  <2>2. File(h)' = File(h) /\ Kept(h)
    BY <1>0, <1>4 DEF File, KeptBoth
  <2> QED
    BY <1>0, <2>1, <2>2, KeptOn
<1> QED
  BY <1>1, <1>2, <1>3, <1>4 DEF KeptBoth

\* The flag means the same as long as neither files nor images change.
LEMMA FlagKept ==
    ASSUME ImageInv, "second" \notin seen, UNCHANGED <<present, samFile, mdmFile, images>>,
           update' => update /\ cut' = cut
    PROVE  FlagMeansWhole'
BY DEF ImageInv, FlagMeansWhole, Whole, Begins, File

\* Steps that leave the clients, the images and the files alone
LEMMA QuietKeeps ==
    ASSUME ImageInv, Inv', "second" \notin seen,
           UNCHANGED <<present, samFile, mdmFile, images, stream, updater, cut>>, update' => update
    PROVE  ImageInv'
<1>1. Sending' = Sending /\ Inside' = Inside /\ Now' = Now /\ Rest' = Rest
  BY SameStreams DEF Now, Rest
<1>2. SamImage' = SamImage /\ MdmImage' = MdmImage
  BY SameImages
<1>3. Alone'
  BY <1>1 DEF ImageInv, Alone
<1>4. Follows'
  <2>1. Unmarked'
    BY SameImages DEF ImageInv, Follows
  <2>2. Arrives'
    BY <1>1, <1>2 DEF ImageInv, Follows, Arrives, Expected, Filed, Done, SamEnd
  <2> QED
    BY <2>1, <2>2 DEF Inv, Follows
<1>5. KeptBoth'
  BY <1>1 DEF ImageInv, KeptBoth, Kept, Short, Whole, Begins, File
<1>6. FlagMeansWhole'
  BY FlagKept
<1> QED
  BY <1>3, <1>4, <1>5, <1>6 DEF ImageInv

LEMMA LeaveKeeps ==
    ASSUME ImageInv, Inv', "second" \notin seen, ClientLeaves
    PROVE  ImageInv'
<1>1. PICK a \in Sending : stream' = [stream EXCEPT ![a] = <<>>] /\ GivesUp({a})
  BY DEF ClientLeaves
<1>2. /\ DOMAIN stream' = DOMAIN stream /\ stream'[a] = <<>>
      /\ \A b \in DOMAIN stream \ {a} : stream'[b] = stream[b]
  BY <1>1 DEF Sending
<1>3. a = Now /\ Sending \subseteq {a} /\ Inside \subseteq {a}
  BY DEF ImageInv, Alone, Inside
<1>4. Sending' = {}
  BY <1>2, <1>3 DEF Sending
<1>5. cut' = cut \cup (IF Inside = {} THEN {} ELSE {updater})
  <2>1. {a} \cap Inside = Inside
    BY <1>3
  <2> QED
    BY <1>1, <2>1 DEF GivesUp
<1>6. UNCHANGED <<update, present, samFile, mdmFile, images>>
  BY DEF ClientLeaves, flash
<1>7. Alone' /\ Unmarked' /\ Arrives' /\ KeptBoth'
  BY <1>2, <1>4, <1>5, <1>6, GoneKeeps
<1>8. ~ update'
  BY <1>1, <1>6 DEF Inv, ImageInv, Phases
<1> QED
  BY <1>7, <1>8 DEF ImageInv, Follows, Inv, FlagMeansWhole

\* In a reset the clients are gone.
LEMMA BootKeeps ==
    ASSUME ImageInv, Boots, UNCHANGED <<present, samFile, mdmFile>>
    PROVE  /\ Alone' /\ Unmarked' /\ Arrives' /\ KeptBoth'
           /\ images' = images /\ (Inside = {} => cut' = cut)
<1>1. /\ stream' = [a \in DOMAIN stream |-> <<>>] /\ GivesUp(Sending) /\ images' = images
  BY DEF Boots
<1>2. Sending' = {} /\ DOMAIN stream' = DOMAIN stream
  BY <1>1, AllEnd DEF ImageInv, Inv
<1>3. cut' = cut \cup (IF Inside = {} THEN {} ELSE {updater})
  <2>1. Sending \cap Inside = Inside
    BY DEF Inside
  <2> QED
    BY <1>1, <2>1 DEF GivesUp
<1>4. Inside = {} => cut' = cut
  BY <1>3
<1> QED
  BY <1>1, <1>2, <1>3, <1>4, GoneKeeps

LEMMA ResetKeepsImages ==
    ASSUME ImageInv, Inv', "second" \notin seen, Boots, UNCHANGED <<present, samFile, mdmFile>>,
           update' => update
    PROVE  ImageInv'
<1>1. /\ Alone' /\ Unmarked' /\ Arrives' /\ KeptBoth'
      /\ images' = images /\ (Inside = {} => cut' = cut)
  BY BootKeeps
<1>2. update' => cut' = cut
  <2>1. update => Inside = {}
    BY DEF ImageInv, Inv, Phases, Inside
  <2> QED
    BY <1>1, <2>1
<1>3. FlagMeansWhole'
  BY <1>1, <1>2, FlagKept
<1> QED
  BY <1>1, <1>3 DEF ImageInv, Follows, Inv

\* The end mark comes when the images of its client are there.
LEMMA EndKeeps ==
    ASSUME ImageInv, Inv', ReadEnd
    PROVE  ImageInv'
<1>1. Boots /\ UNCHANGED <<present, samFile, mdmFile>>
  BY DEF ReadEnd, Reset
<1>2. PICK a \in Sending : Head(stream[a]) = EndMark
  BY DEF ReadEnd
<1>3. a = Now /\ Sending \subseteq {Now} /\ a \in DOMAIN stream /\ stream[a] # <<>>
  BY DEF ImageInv, Alone, Sending
<1>4. TypeOK /\ Follows
  BY DEF ImageInv, Follows
<1>5. images # <<>>
  <2>1. DOMAIN stream = 1..Len(stream) /\ Len(stream) = Len(images)
    BY <1>4, StreamsAre
  <2> QED
    BY <1>3, <2>1, EmptySeq
<1>6. Rest # <<>> /\ Head(Rest) = EndMark
  BY <1>2, <1>3, <1>5 DEF Rest
<1>7. Inside = {}
  BY <1>2, <1>3 DEF Inside, Marks
<1>8. /\ SamImage \in Seq(Byte) /\ MdmImage \in Seq(Byte) /\ samFile \in Seq(Byte)
      /\ mdmFile \in Seq(Byte) /\ SamEnd \in Nat /\ PartLen(MdmImage) \in Nat /\ Filed
  BY <1>4, <1>6, Facing
<1>9. Done = SamEnd + PartLen(MdmImage)
  BY <1>4, <1>6, AtMark
<1>10. /\ Len(SamImage) = images[Now].sam /\ Len(MdmImage) = images[Now].mdm
       /\ SamImage = Image(Now, images[Now].sam) /\ MdmImage = Image(Now, images[Now].mdm)
       /\ images[Now].sam \in Nat /\ images[Now].mdm \in Nat
  <2>1. Now \in DOMAIN images
    BY <1>4, <1>5, NowIs
  <2> QED
    BY <1>4, <1>5, <2>1, NowIs, StreamsAre DEF SamImage, MdmImage
<1>11. ASSUME images[Now]["sam"] > 0
       PROVE  Whole("sam", Now) /\ "sam" \notin cut
  <2>1. SamImage # <<>> /\ SamEnd = Len(SamImage) + 1 /\ Len(SamImage) \in Nat
    <3>1. SamImage # <<>>
      BY <1>10, <1>11, EmptySeq
    <3> QED
      BY <1>8, <3>1, PartLenIs DEF SamEnd
  <2>2. Done > 0 /\ SamEnd > 0 /\ Least(Done, SamEnd) - 1 = Len(SamImage)
    BY <1>8, <1>9, <2>1 DEF Least
  <2>3. samFile = SamImage /\ "sam" \notin cut
    BY <1>8, <2>2, HoldsWhole DEF Filed
  <2> QED
    BY <1>10, <1>11, <2>3 DEF Whole, Begins, File
<1>12. ASSUME images[Now]["mdm"] > 0
       PROVE  Whole("mdm", Now) /\ "mdm" \notin cut
  <2>1. MdmImage # <<>> /\ PartLen(MdmImage) = Len(MdmImage) + 1 /\ Len(MdmImage) \in Nat
    <3>1. MdmImage # <<>>
      BY <1>10, <1>12, EmptySeq
    <3> QED
      BY <1>8, <3>1, PartLenIs
  <2>2. Done > SamEnd /\ Done - SamEnd - 1 = Len(MdmImage)
    BY <1>8, <1>9, <2>1
  <2>3. mdmFile = MdmImage /\ "mdm" \notin cut
    BY <1>8, <2>2, HoldsWhole DEF Filed
  <2> QED
    BY <1>10, <1>12, <2>3 DEF Whole, Begins, File
<1>13. \A h \in {"sam", "mdm"} :
          /\ images[Now][h] > 0 => Whole(h, Now) /\ h \notin cut
          /\ h \in present => \E b \in DOMAIN images :
                IF h \in cut THEN \E n \in 0..images[b][h] : Begins(h, b, n) ELSE Whole(h, b)
  <2> SUFFICES ASSUME NEW h \in {"sam", "mdm"}
               PROVE  /\ images[Now][h] > 0 => Whole(h, Now) /\ h \notin cut
                      /\ h \in present => \E b \in DOMAIN images :
                            IF h \in cut THEN \E n \in 0..images[b][h] : Begins(h, b, n) ELSE Whole(h, b)
    OBVIOUS
  <2>1. Kept(h) /\ (Short(h) <=> h \in cut)
    BY <1>7 DEF ImageInv, KeptBoth, Short
  <2>2. images[Now][h] > 0 => Whole(h, Now) /\ h \notin cut
    BY <1>11, <1>12
  <2> QED
    BY <2>1, <2>2 DEF Kept
<1>14. /\ Alone' /\ Unmarked' /\ Arrives' /\ KeptBoth' /\ images' = images /\ cut' = cut
  BY <1>1, <1>7, BootKeeps
<1>15. FlagMeansWhole'
  BY <1>1, <1>13, <1>14 DEF FlagMeansWhole, Whole, Begins, File, Now
<1> QED
  BY <1>14, <1>15 DEF ImageInv, Follows, Inv

\* A read of a mark or of data: the flag is not set.
LEMMA ReadKeeps ==
    ASSUME ImageInv, Inv', ReadSam \/ ReadMdm \/ ReadData
    PROVE  ImageInv'
<1>1. UNCHANGED <<update, images>>
  BY DEF ReadSam, ReadMdm, ReadData
<1>2. ~ update'
  <2>1. Sending # {}
    BY DEF ReadSam, ReadMdm, ReadData, Reads, Inside
  <2> QED
    BY <1>1, <2>1 DEF ImageInv, Inv, Phases
<1>3. TypeOK /\ Follows /\ Alone /\ KeptBoth
  BY DEF ImageInv, Follows
<1>4. Arrives' /\ Alone' /\ Rest' # <<>> /\ Done' > 0
  BY <1>3, ReadSamArrives, ReadMdmArrives, ReadDataArrives
<1>5. Follows'
  BY <1>1, <1>3, <1>4, SameImages DEF Follows, Inv
<1>6. Kept(updater)' /\ updater' \in {"sam", "mdm"}
  <2>1. (Follows /\ Rest # <<>> /\ Done > 0)'
    BY <1>4, <1>5
  <2>2. (Follows /\ Rest # <<>> /\ Done > 0 => Kept(updater) /\ updater \in {"sam", "mdm"})'
    BY LastFile, PTL
  <2> QED
    BY <2>1, <2>2
<1>7. ASSUME NEW h \in {"sam", "mdm"}, h # updater'
      PROVE  Kept(h)'
  <2>1. (h \in present' => h \in present) /\ File(h)' = File(h)
    <3>1. CASE ReadSam \/ ReadMdm
      BY <1>7, <3>1 DEF ReadSam, ReadMdm, File
    <3>2. CASE ReadData
      <4>1. samFile \o <<>> = samFile /\ mdmFile \o <<>> = mdmFile
        BY <1>3, ConcatEmptySeq DEF TypeOK
      <4>2. UNCHANGED <<present, updater>>
        BY <3>2 DEF ReadData
      <4>3. (updater # "sam" => samFile' = samFile) /\ (updater # "mdm" => mdmFile' = mdmFile)
        BY <3>2, <4>1 DEF ReadData
      <4> QED
        BY <1>7, <4>2, <4>3 DEF File
    <3> QED
      BY <3>1, <3>2
  <2>2. Short(h) => Short(h)'
    <3>1. CASE ReadSam \/ ReadMdm
      <4>1. Inside = {}
        <5>1. Head(Rest) \in Marks /\ Rest # <<>>
          BY <1>3, <3>1, ReadSamArrives, ReadMdmArrives
        <5>2. Rest = stream[Now]
          BY <1>3, <5>1, NowIs
        <5> QED
          BY <1>3, <5>1, <5>2 DEF Inside, Alone
      <4>2. h \in cut => h \in cut'
        BY <1>7, <3>1 DEF ReadSam, ReadMdm
      <4> QED
        BY <4>1, <4>2 DEF Short
    <3>2. CASE ReadData
      <4>1. UNCHANGED <<cut, updater>>
        BY <3>2 DEF ReadData
      <4> QED
        BY <1>7, <4>1 DEF Short
    <3> QED
      BY <3>1, <3>2
  <2>3. Kept(h)
    BY <1>3, <1>7 DEF KeptBoth
  <2> QED
    BY <1>1, <1>3, <2>1, <2>2, <2>3, KeptOn
<1>8. KeptBoth'
  <2>1. CASE updater' = "sam"
    <3>1. Kept("sam")'
      BY <1>6, <2>1 DEF Kept, Short, Whole, Begins, File
    <3> QED
      BY <1>7, <2>1, <3>1 DEF KeptBoth
  <2>2. CASE updater' = "mdm"
    <3>1. Kept("mdm")'
      BY <1>6, <2>2 DEF Kept, Short, Whole, Begins, File
    <3> QED
      BY <1>7, <2>2, <3>1 DEF KeptBoth
  <2> QED
    BY <1>6, <2>1, <2>2
<1> QED
  BY <1>2, <1>4, <1>5, <1>8 DEF ImageInv, FlagMeansWhole

\* A new client, when nobody is sending: the whole message is to come.
LEMMA ConnectKeeps ==
    ASSUME ImageInv, Inv', ClientConnects, Sending = {}
    PROVE  ImageInv'
<1>0. TypeOK /\ KeptBoth /\ Phases
  BY DEF ImageInv, Inv
<1>1. UNCHANGED <<update, present, samFile, mdmFile, updater, mode, cut>>
  BY DEF ClientConnects, flash, socket
<1>2. ~ update'
  <2>1. listening
    BY DEF ClientConnects
  <2> QED
    BY <1>0, <1>1, <2>1 DEF Phases
<1>3. PICK s \in SamLens, m \in MdmLens :
         /\ images' = Append(images, [sam |-> s, mdm |-> m])
         /\ stream' = Append(stream, Message(Len(images'), s, m))
  BY DEF ClientConnects
<1>4. /\ s \in Nat /\ m \in Nat /\ Len(images) \in Nat /\ Len(stream) = Len(images)
      /\ DOMAIN stream = 1..Len(stream) /\ DOMAIN images = 1..Len(images)
      /\ images \in Seq([sam : SamLens, mdm : MdmLens]) /\ stream \in Seq(Seq(Byte))
      /\ images' \in Seq([sam : SamLens, mdm : MdmLens]) /\ Len(images') <= MaxAttempts
  BY <1>0, StreamsAre, UpdateAssumption DEF Inv, TypeOK
<1>5. /\ Len(images') = Len(images) + 1 /\ images'[Len(images) + 1] = [sam |-> s, mdm |-> m]
      /\ \A a \in 1..Len(images) : images'[a] = images[a]
  <2> DEFINE new == [sam |-> s, mdm |-> m]
  <2>1. new \in [sam : SamLens, mdm : MdmLens] /\ images' = Append(images, new)
    BY <1>3
  <2> HIDE DEF new
  <2>2. /\ Len(images') = Len(images) + 1 /\ images'[Len(images) + 1] = new
        /\ \A a \in 1..Len(images) : images'[a] = images[a]
    BY <1>4, <2>1, AppendProperties
  <2> QED
    BY <2>2 DEF new
<1>6. Now' = Len(images) + 1 /\ Now' \in 0..MaxAttempts /\ Now' # 0 /\ images' # <<>>
  BY <1>4, <1>5, EmptySeq, UpdateAssumption DEF Now
<1>7. SamImage' = Image(Now', s) /\ MdmImage' = Image(Now', m)
  BY <1>5, <1>6 DEF SamImage, MdmImage
<1>8. SamImage' \in Seq(Byte) /\ MdmImage' \in Seq(Byte)
  BY <1>4, <1>6, <1>7, ImageType
<1>9. ASSUME NEW k \in Nat
      PROVE  /\ Len(Image(Now', k)) = k
             /\ \A i \in 1..k : Image(Now', k)[i] \notin Marks
  <2>1. Len(Image(Now', k)) = k /\ \A i \in 1..k : Image(Now', k)[i] = <<Now', i>>
    BY DEF Image
  <2>2. ASSUME NEW i \in 1..k
        PROVE  Image(Now', k)[i] \notin Marks
    <3>1. <<Now', i>> \notin Marks
      BY <1>6 DEF Marks, SamMark, MdmMark, EndMark
    <3> QED
      BY <2>1, <3>1
  <2> QED
    BY <2>1, <2>2
<1>10. Len(SamImage') = s /\ Len(MdmImage') = m
  BY <1>4, <1>7, <1>9
<1>11. Unmarked'
  BY <1>4, <1>7, <1>9, <1>10 DEF Unmarked
<1>12. Message(Now', s, m) = Sent(SamImage', MdmImage')
  BY <1>7, <1>10 DEF Message, Sent, PartOf
<1> DEFINE sent == Message(Now', s, m)
<1>13. sent \in Seq(Byte)
  BY <1>4, <1>6, MessageType
<1> HIDE DEF sent
<1>14. /\ Len(stream') = Len(stream) + 1 /\ stream'[Len(stream) + 1] = sent
       /\ \A a \in 1..Len(stream) : stream'[a] = stream[a]
       /\ DOMAIN stream' = 1..(Len(stream) + 1)
  <2>1. stream' = Append(stream, sent)
    BY <1>3 DEF Now, sent
  <2>2. /\ stream' \in Seq(Seq(Byte)) /\ Len(stream') = Len(stream) + 1
        /\ stream'[Len(stream) + 1] = sent
        /\ \A a \in 1..Len(stream) : stream'[a] = stream[a]
    BY <1>4, <1>13, <2>1, AppendProperties
  <2> QED
    BY <2>2, LenProperties
<1>15. Rest' = Sent(SamImage', MdmImage')
  BY <1>4, <1>6, <1>12, <1>14 DEF Rest, sent
<1>16. Len(Rest') = Size(SamImage', MdmImage') /\ Size(SamImage', MdmImage') \in Nat
  BY <1>8, <1>15, MessageIs, PartLenIs DEF Size
<1>17. Done' = 0 /\ SamEnd' \in Nat
  <2>1. Done' = Size(SamImage', MdmImage') - Len(Rest')
    BY DEF Done
  <2> QED
    BY <1>8, <1>16, <2>1, PartLenIs DEF SamEnd
<1>18. Expected'
  <2>1. \A i \in 1..Len(Rest') : Rest'[i] = Sent(SamImage', MdmImage')[Done' + i]
    <3>1. \A i \in 1..Len(Rest') : Done' + i = i
      BY <1>16, <1>17
    <3> QED
      BY <1>15, <3>1
  <2>2. Len(Rest') <= Size(SamImage', MdmImage')
    BY <1>16
  <2> QED
    BY <2>1, <2>2 DEF Expected
<1>19. Filed'
  <2>1. ~ (Done' > 0) /\ ~ (Done' > SamEnd') /\ ~ (Done' \in 1..SamEnd')
    BY <1>17
  <2> QED
    BY <2>1 DEF Filed
<1>20. Alone'
  <2> SUFFICES ASSUME NEW a \in Sending' PROVE a = Now'
    BY DEF Alone
  <2>1. a \in 1..(Len(stream) + 1) /\ stream'[a] # <<>>
    BY <1>14 DEF Sending
  <2>2. CASE a \in 1..Len(stream)
    <3>1. a \in Sending
      BY <1>4, <1>14, <2>1, <2>2 DEF Sending
    <3> QED
      BY <3>1
  <2>3. CASE a = Len(stream) + 1
    BY <1>4, <1>6, <2>3
  <2> QED
    BY <1>4, <2>1, <2>2, <2>3
<1>21. ASSUME NEW h \in {"sam", "mdm"}
       PROVE  Kept(h)'
  <2>1. Short(h) => Short(h)'
    BY <1>1 DEF Short, Inside
  <2>2. File(h)' = File(h) /\ Kept(h)
    BY <1>0, <1>1, <1>21 DEF File, KeptBoth
  <2>3. \A a \in DOMAIN images : a \in DOMAIN images' /\ images'[a] = images[a]
    <3>1. DOMAIN images' = 1..(Len(images) + 1)
      BY <1>4, <1>5, LenProperties
    <3> QED
      BY <1>4, <1>5, <3>1
  <2> QED
    BY <1>0, <1>1, <2>1, <2>2, <2>3, KeptOn
<1> QED
  BY <1>2, <1>11, <1>18, <1>19, <1>20, <1>21 DEF ImageInv, Follows, Inv, Arrives, KeptBoth, FlagMeansWhole

LEMMA SeenGrows ==
    ASSUME [Next]_vars
    PROVE  seen \subseteq seen'
<1>1. (UNCHANGED trouble \/ \E f \in Faults : Fault(f)) => seen \subseteq seen'
  BY DEF Fault, trouble
<1>2. CASE PowerLoss \/ RilReady \/ RegisterSocket \/ UpdateTimeout \/ ClientConnects \/ ClientLeaves
  BY <1>1, <1>2 DEF PowerLoss, RilReady, RegisterSocket, UpdateTimeout, ClientConnects, ClientLeaves,
                    Fault, trouble
<1>3. CASE Receiving \/ BoardAnswers \/ CbUpdateNoOk \/ UNCHANGED vars
  BY <1>1, <1>3 DEF Receiving, ReadSam, ReadMdm, ReadData, ReadEnd, BoardAnswers, CbUpdateNoOk, Fault,
                    vars, trouble
<1>4. CASE Updating
  BY <1>1, <1>4 DEF Updating, GprsUp, GprsUpNoFile, CbUpdate, DividesByZero, FlashPage, FlashLast,
                    FlashRunsOut, FlashFails, Reported, Fault, trouble
<1> QED
  BY <1>2, <1>3, <1>4 DEF Next

LEMMA FlagStep == FlagInv /\ [Next]_vars => FlagInv'
<1> SUFFICES ASSUME FlagInv, [Next]_vars PROVE FlagInv'
  OBVIOUS
<1>0. Inv' /\ Inv
  BY StepKeeps DEF FlagInv
<1> SUFFICES ASSUME "second" \notin seen' PROVE ImageInv'
  BY <1>0 DEF FlagInv
<1>1. "second" \notin seen /\ ImageInv
  BY SeenGrows DEF FlagInv
<1>2. CASE PowerLoss \/ GprsUpNoFile \/ DividesByZero \/ FlashRunsOut \/ FlashFails
  <2>1. Boots /\ (update' => update) /\ UNCHANGED <<present, samFile, mdmFile>>
    BY <1>2 DEF PowerLoss, GprsUpNoFile, DividesByZero, FlashRunsOut, FlashFails, Reset, flash
  <2> QED
    BY <1>0, <1>1, <2>1, ResetKeepsImages
<1>3. CASE \/ RilReady \/ RegisterSocket \/ UpdateTimeout \/ BoardAnswers \/ CbUpdateNoOk
           \/ UNCHANGED vars
  <2>1. UNCHANGED <<flash, updater, client>>
    BY <1>3 DEF RilReady, RegisterSocket, UpdateTimeout, BoardAnswers, CbUpdateNoOk, vars, socket
  <2>2. UNCHANGED <<update, present, samFile, mdmFile, images, stream, updater, cut>>
    BY <2>1 DEF flash, client
  <2> QED
    BY <1>0, <1>1, <2>2, QuietKeeps
<1>4. CASE GprsUp \/ CbUpdate \/ FlashPage
  <2>1. UNCHANGED <<update, present, samFile, mdmFile, socket, client>>
    BY <1>4 DEF GprsUp, CbUpdate, FlashPage
  <2>2. UNCHANGED <<images, stream, updater, cut>>
    BY <2>1 DEF socket, client
  <2> QED
    BY <1>0, <1>1, <2>1, <2>2, QuietKeeps
<1>5. CASE FlashLast
  <2>1. ~ update' /\ UNCHANGED <<present, samFile, mdmFile>> /\ (Reset \/ UNCHANGED <<socket, client>>)
    BY <1>5 DEF FlashLast
  <2>2. CASE Reset
    BY <1>0, <1>1, <2>1, <2>2, ResetKeepsImages DEF Reset
  <2>3. CASE UNCHANGED <<socket, client>>
    <3>1. UNCHANGED <<images, stream, updater, cut>>
      BY <2>3 DEF socket, client
    <3> QED
      BY <1>0, <1>1, <2>1, <3>1, QuietKeeps
  <2> QED
    BY <2>1, <2>2, <2>3
<1>6. CASE ReadSam \/ ReadMdm \/ ReadData \/ ReadEnd
  BY <1>0, <1>1, <1>6, ReadKeeps, EndKeeps
<1>7. CASE ClientConnects
  <2>1. Sending = {}
    BY <1>7 DEF ClientConnects, Fault
  <2> QED
    BY <1>0, <1>1, <1>7, <2>1, ConnectKeeps
<1>8. CASE ClientLeaves
  BY <1>0, <1>1, <1>8, LeaveKeeps
<1> QED
  BY <1>2, <1>3, <1>4, <1>5, <1>6, <1>7, <1>8 DEF Next, Receiving, Updating

LEMMA FlagInit == Init => FlagInv
<1> SUFFICES ASSUME Init PROVE FlagInv
  OBVIOUS
<1>1. Len(<<>>) = 0 /\ DOMAIN <<>> = {}
  BY EmptySeq
<1>2. images = <<>> /\ stream = <<>> /\ ~ update /\ present = {}
  BY DEF Init
<1>3. Unmarked
  BY <1>1, <1>2 DEF Unmarked, SamImage, MdmImage
<1>4. Arrives /\ Alone
  BY <1>1, <1>2 DEF Arrives, Rest, Alone, Sending
<1>5. KeptBoth /\ FlagMeansWhole
  BY <1>2 DEF KeptBoth, Kept, FlagMeansWhole
<1> QED
  BY <1>3, <1>4, <1>5, InitKeeps DEF FlagInv, ImageInv, Follows, Inv

\* The flag in flash means that the images of the attempt that set it are whole, and
\* that the file it did not send is the whole image of an earlier one, or the part of
\* it that was sent before its client was given up: whatever the reads cut, whenever
\* power fails, as long as two clients do not send at the same time.
THEOREM FlagSaysWhole == Spec => []FlagMeansWhole
<1>1. FlagInv => FlagMeansWhole
  BY DEF FlagInv, ImageInv, FlagMeansWhole
<1> QED
  BY FlagInit, FlagStep, <1>1, PTL DEF Spec

-----------------------------------------------------------------------------
(***************************************************************************)
(* The update is done.  Without a late answer the OKs that are read are    *)
(* those of this boot's pages, and the pool holds what the loop has passed.*)
(***************************************************************************)
Answers ==
    "late" \notin seen =>
        /\ mode \in {"boot", "normal"} => ~ up
        /\ mode = "update" /\ up => len = Len(samFile)
        /\ mode \in {"boot", "normal"} \/ (mode = "update" /\ ~ up) => waiting = 0 /\ oks = 0
        /\ mode = "flash" => Len(pages) * SamPage >= Len(samFile)

Loop == mode = "flash" => len = Len(mdmFile) /\ Holds(pool, mdmFile, Least(pos, len))

DoneInv == Inv /\ Answers /\ Loop

\* The next page of the file behind those that were written
LEMMA PageWritten ==
    ASSUME NEW file \in Seq(Byte), NEW written \in Seq(Byte), NEW p \in Nat, NEW n \in Nat,
           p <= Len(file), Holds(written, file, p)
    PROVE  Holds(written \o Part(file, p, n), file, Least(p + n, Len(file)))
<1> DEFINE q == Least(p + n, Len(file))
           new == SubSeq(file, p + 1, q)
<1>1. Len(file) \in Nat
  BY LenProperties
<1>2. q \in Nat /\ p <= q /\ q <= Len(file)
  BY <1>1 DEF Least
<1>3. Part(file, p, n) = new
  BY DEF Part, Least
<1> HIDE DEF q
<1>4. new \in Seq(Byte) /\ Len(new) = q - p /\ \A i \in 1..(q - p) : new[i] = file[p + i]
  <2>1. \A i \in 1..Len(file) : file[i] \in Byte
    BY ElementOfSeq
  <2>2. \A i \in (p + 1)..q : file[i] \in Byte
    BY <1>1, <1>2, <2>1
  <2>3. /\ new \in Seq(Byte)
        /\ Len(new) = IF p + 1 <= q THEN q - (p + 1) + 1 ELSE 0
        /\ \A i \in 1..(q - (p + 1) + 1) : new[i] = file[(p + 1) + i - 1]
    BY <1>2, <2>2, SubSeqProperties
  <2> HIDE DEF new
  <2>4. Len(new) = q - p
    BY <1>2, <2>3
  <2>5. ASSUME NEW i \in 1..(q - p)
        PROVE  new[i] = file[p + i]
    <3>1. i \in 1..(q - (p + 1) + 1) /\ (p + 1) + i - 1 = p + i
      BY <1>2
    <3> QED
      BY <2>3, <3>1
  <2> QED
    BY <2>3, <2>4, <2>5
<1> HIDE DEF new
<1>5. Len(written) = p /\ \A i \in 1..p : written[i] = file[i]
  BY DEF Holds
<1>6. /\ Len(written \o new) = p + (q - p)
      /\ \A i \in 1..(p + (q - p)) : (written \o new)[i] = IF i <= p THEN written[i] ELSE new[i - p]
  <2>1. /\ Len(written \o new) = Len(written) + Len(new)
        /\ \A i \in 1..(Len(written) + Len(new)) :
              (written \o new)[i] = IF i <= Len(written) THEN written[i] ELSE new[i - Len(written)]
    BY <1>4, ConcatProperties
  <2> QED
    BY <1>4, <1>5, <2>1
<1>7. Len(written \o new) = q
  BY <1>2, <1>6
<1>8. ASSUME NEW i \in 1..q
      PROVE  (written \o new)[i] = file[i]
  <2>1. i \in 1..(p + (q - p))
    BY <1>2
  <2>2. CASE i <= p
    BY <1>5, <1>6, <2>1, <2>2
  <2>3. CASE ~ (i <= p)
    <3>1. i - p \in 1..(q - p) /\ p + (i - p) = i
      BY <1>2, <2>3
    <3>2. (written \o new)[i] = new[i - p]
      BY <1>6, <2>1, <2>3
    <3> QED
      BY <1>4, <3>1, <3>2
  <2> QED
    BY <2>2, <2>3
<1> QED
  BY <1>3, <1>7, <1>8 DEF Holds, q

\* A turn of the loop writes up to where it goes.
LEMMA TurnWrites ==
    ASSUME DoneInv, mode = "flash", pos <= len
    PROVE  /\ Holds(Written, mdmFile, Least(pos + MdmPage, len)) /\ len = Len(mdmFile)
           /\ mdmFile \in Seq(Byte) /\ Written \in Seq(Byte)
           /\ pos \in Nat /\ MdmPage \in Nat /\ len \in Nat
<1>1. mdmFile \in Seq(Byte) /\ pool \in Seq(Byte) /\ pos \in Nat /\ len \in Nat /\ MdmPage \in Nat
  BY UpdateAssumption DEF DoneInv, Inv, TypeOK
<1>2. len = Len(mdmFile) /\ Holds(pool, mdmFile, pos)
  BY <1>1 DEF DoneInv, Loop, Least
<1>3. Holds(Written, mdmFile, Least(pos + MdmPage, len))
  BY <1>1, <1>2, PageWritten DEF Written
<1>4. Written \in Seq(Byte)
  BY <1>1, PartType, ConcatProperties DEF Written
<1> QED
  BY <1>1, <1>2, <1>3, <1>4

LEMMA AnswersKeep ==
    ASSUME DoneInv, [Next]_vars
    PROVE  Answers'
<1>0. /\ TypeOK /\ Phases /\ Answers /\ waiting \in Nat /\ oks \in Nat
      /\ mode \in {"boot", "normal", "update", "flash"}
  BY DEF DoneInv, Inv, TypeOK
<1> SUFFICES ASSUME "late" \notin seen' PROVE Answers'
  BY DEF Answers
<1>1. "late" \notin seen
  <2>1. (UNCHANGED trouble \/ \E f \in Faults : Fault(f)) => "late" \notin seen
    BY DEF Fault, trouble
  <2>2. CASE PowerLoss \/ RilReady \/ RegisterSocket \/ UpdateTimeout \/ ClientConnects \/ ClientLeaves
    BY <2>1, <2>2 DEF PowerLoss, RilReady, RegisterSocket, UpdateTimeout, ClientConnects, ClientLeaves,
                      Fault, trouble
  <2>3. CASE Receiving \/ BoardAnswers \/ CbUpdateNoOk \/ UNCHANGED vars
    BY <2>1, <2>3 DEF Receiving, ReadSam, ReadMdm, ReadData, ReadEnd, BoardAnswers, CbUpdateNoOk, Fault,
                      vars
  <2>4. CASE Updating
    BY <2>1, <2>4 DEF Updating, GprsUp, GprsUpNoFile, CbUpdate, DividesByZero, FlashPage, FlashLast,
                      FlashRunsOut, FlashFails, Reported, Fault
  <2> QED
    BY <2>2, <2>3, <2>4 DEF Next
<1>2. CASE PowerLoss \/ ReadEnd \/ GprsUpNoFile \/ DividesByZero \/ FlashRunsOut \/ FlashFails
  <2>1. Boots /\ waiting' = 0
    BY <1>2 DEF PowerLoss, ReadEnd, GprsUpNoFile, DividesByZero, FlashRunsOut, FlashFails, Reset, Fault
  <2> QED
    BY <2>1 DEF Boots, Answers
<1>3. CASE RilReady
  BY <1>0, <1>1, <1>3 DEF RilReady, Answers, board, flash
<1>4. CASE \/ RegisterSocket \/ UpdateTimeout \/ ClientConnects \/ ClientLeaves
           \/ ReadSam \/ ReadMdm \/ ReadData
  <2>1. UNCHANGED <<mode, up, len, pages, waiting, oks>>
    BY <1>4 DEF RegisterSocket, UpdateTimeout, ClientConnects, ClientLeaves, ReadSam, ReadMdm, ReadData,
                board
  <2>2. samFile' = samFile \/ mode = "normal"
    <3>1. CASE RegisterSocket \/ UpdateTimeout \/ ClientConnects \/ ClientLeaves \/ ReadMdm
      BY <3>1 DEF RegisterSocket, UpdateTimeout, ClientConnects, ClientLeaves, ReadMdm, flash
    <3>2. CASE ReadSam \/ ReadData
      <4>1. Sending # {}
        BY <3>2 DEF ReadSam, ReadData, Reads, Inside
      <4> QED
        BY <1>0, <4>1 DEF Phases
    <3> QED
      BY <1>4, <3>1, <3>2
  <2> QED
    BY <1>0, <1>1, <2>1, <2>2 DEF Answers
<1>5. CASE BoardAnswers
  BY <1>0, <1>1, <1>5 DEF BoardAnswers, Answers, flash
<1>6. CASE CbUpdateNoOk
  BY <1>0, <1>1, <1>6 DEF CbUpdateNoOk, Answers, flash
<1>7. CASE GprsUp \/ CbUpdate
  <2>1. PICK n : UpdateSam(n) /\ n = Len(samFile) /\ up' /\ mode = "update" /\ samFile' = samFile
    <3>1. CASE GprsUp
      BY <3>1 DEF GprsUp
    <3>2. CASE CbUpdate
      <4>1. mode = "update" /\ oks > 0 /\ UpdateSam(len) /\ UNCHANGED <<samFile, up>>
        BY <3>2 DEF CbUpdate
      <4>2. up
        BY <1>0, <1>1, <4>1 DEF Answers
      <4>3. len = Len(samFile)
        BY <1>0, <1>1, <4>1, <4>2 DEF Answers
      <4> QED
        BY <4>1, <4>2, <4>3
    <3> QED
      BY <1>7, <3>1, <3>2
  <2>2. pos = Len(pages) * SamPage
    BY <1>0, <2>1 DEF Phases
  <2>3. CASE SendPage(n) /\ len' = n
    BY <2>1, <2>3 DEF SendPage, Answers
  <2>4. CASE StartFlash(n)
    BY <2>1, <2>2, <2>4 DEF StartFlash, Answers
  <2> QED
    BY <2>1, <2>3, <2>4 DEF UpdateSam
<1>8. CASE FlashPage \/ FlashLast
  <2>1. CASE UNCHANGED <<mode, up, len, pages, waiting, oks>>
    <3>1. samFile' = samFile
      BY <1>8 DEF FlashPage, FlashLast
    <3> QED
      BY <1>0, <1>1, <2>1, <3>1 DEF Answers
  <2>2. CASE Reset
    BY <2>2 DEF Reset, Boots, Answers
  <2> QED
    BY <1>8, <2>1, <2>2 DEF FlashPage, FlashLast
<1>9. CASE UNCHANGED vars
  BY <1>0, <1>1, <1>9 DEF vars, flash, board, Answers
<1> QED
  BY <1>2, <1>3, <1>4, <1>5, <1>6, <1>7, <1>8, <1>9 DEF Next, Receiving, Updating

LEMMA LoopKept ==
    ASSUME DoneInv, [Next]_vars
    PROVE  Loop'
<1>0. TypeOK /\ Phases /\ Loop /\ Len(mdmFile) \in Nat
  BY LenProperties DEF DoneInv, Inv, TypeOK
<1>1. CASE mode' # "flash"
  BY <1>1 DEF Loop
<1>2. CASE UNCHANGED <<mode, len, mdmFile, pool, pos>>
  BY <1>0, <1>2 DEF Loop
<1>3. CASE GprsUp \/ CbUpdate
  <2>1. mode = "update" /\ mdmFile' = mdmFile /\ \E n : UpdateSam(n)
    BY <1>3 DEF GprsUp, CbUpdate
  <2>2. CASE \E n : SendPage(n)
    BY <1>1, <2>1, <2>2 DEF SendPage
  <2>3. CASE \E n : StartFlash(n)
    <3>1. pos' = 0 /\ len' = Len(mdmFile) /\ pool' = <<>>
      BY <2>3 DEF StartFlash
    <3>2. Least(0, Len(mdmFile)) = 0
      BY <1>0 DEF Least
    <3>3. Holds(<<>>, mdmFile, 0)
      BY DEF Holds
    <3> QED
      BY <2>1, <3>1, <3>2, <3>3 DEF Loop
  <2> QED
    BY <2>1, <2>2, <2>3 DEF UpdateSam
<1>4. CASE FlashPage \/ (FlashLast /\ ~ Reset)
  <2>1. /\ mode = "flash" /\ pos <= len /\ pool' = Written /\ pos' = pos + MdmPage
        /\ UNCHANGED <<mode, len, mdmFile>>
    <3>1. pos \in Nat /\ len \in Nat /\ MdmPage \in Nat
      BY <1>0, UpdateAssumption DEF TypeOK
    <3> QED
      BY <1>4, <3>1 DEF FlashPage, FlashLast
  <2> QED
    BY <2>1, TurnWrites DEF Loop
<1>5. CASE \/ PowerLoss \/ ReadEnd \/ GprsUpNoFile \/ DividesByZero \/ FlashRunsOut \/ FlashFails
           \/ Reset \/ RilReady
  BY <1>1, <1>5 DEF PowerLoss, ReadEnd, GprsUpNoFile, DividesByZero, FlashRunsOut, FlashFails, Reset,
                    Boots, RilReady
<1>6. CASE RegisterSocket \/ UpdateTimeout \/ ClientConnects \/ ClientLeaves \/ BoardAnswers
           \/ CbUpdateNoOk \/ UNCHANGED vars
  BY <1>2, <1>6 DEF RegisterSocket, UpdateTimeout, ClientConnects, ClientLeaves, BoardAnswers,
                    CbUpdateNoOk, vars, flash, board
<1>7. CASE ReadSam \/ ReadMdm \/ ReadData
  <2>1. mode' = mode
    BY <1>7 DEF ReadSam, ReadMdm, ReadData
  <2>2. mode = "normal"
    <3>1. Sending # {}
      BY <1>7 DEF ReadSam, ReadMdm, ReadData, Reads, Inside
    <3> QED
      BY <1>0, <3>1 DEF Phases
  <2> QED
    BY <1>1, <2>1, <2>2
<1> QED
  BY <1>3, <1>4, <1>5, <1>6, <1>7 DEF Next, Receiving, Updating

LEMMA DoneStep == DoneInv /\ [Next]_vars => DoneInv'
BY AnswersKeep, LoopKept, StepKeeps DEF DoneInv

LEMMA DoneInit == Init => DoneInv
<1> SUFFICES ASSUME Init PROVE DoneInv
  OBVIOUS
<1>1. mode = "boot" /\ ~ up /\ waiting = 0 /\ oks = 0
  BY DEF Init
<1> QED
  BY <1>1, InitKeeps DEF DoneInv, Answers, Loop

\* The update counts as done only when the board was sent all of its image and the
\* modem has got all of its own, unless there is none for the board or an answer of
\* the board came late: no fault, report or read makes it skip or repeat a byte.
THEOREM DoneSaysFlashed == Spec => DoneMeansFlashed
<1>1. ASSUME DoneInv, [Next]_vars
      PROVE  [update /\ ~update' /\ "late" \notin seen =>
                \/ "sam" \notin present
                \/ Len(pages) * SamPage >= Len(samFile) /\ pool' = mdmFile]_vars
  <2> SUFFICES ASSUME update, ~ update', "late" \notin seen, "sam" \in present
               PROVE  Len(pages) * SamPage >= Len(samFile) /\ pool' = mdmFile
    OBVIOUS
  <2>1. FlashLast
    <3>1. CASE PowerLoss \/ RilReady \/ RegisterSocket \/ UpdateTimeout \/ ClientConnects \/ ClientLeaves
      BY <3>1 DEF PowerLoss, RilReady, RegisterSocket, UpdateTimeout, ClientConnects, ClientLeaves, flash
    <3>2. CASE Receiving \/ BoardAnswers \/ CbUpdateNoOk \/ UNCHANGED vars
      BY <3>2 DEF Receiving, ReadSam, ReadMdm, ReadData, ReadEnd, BoardAnswers, CbUpdateNoOk, vars, flash
    <3>3. CASE Updating
      BY <3>3 DEF Updating, GprsUp, GprsUpNoFile, CbUpdate, DividesByZero, FlashPage, FlashRunsOut,
                  FlashFails, flash
    <3> QED
      BY <1>1, <3>1, <3>2, <3>3 DEF Next
  <2>2. mode = "flash" /\ pos < len /\ len < pos + MdmPage /\ pool' = Written
    BY <2>1 DEF FlashLast
  <2>3. Len(pages) * SamPage >= Len(samFile)
    BY <1>1, <2>2 DEF DoneInv, Answers
  <2>4. pos \in Nat /\ len \in Nat /\ MdmPage \in Nat
    BY <1>1, UpdateAssumption DEF DoneInv, Inv, TypeOK
  <2>5. /\ Holds(Written, mdmFile, Least(pos + MdmPage, len)) /\ len = Len(mdmFile)
        /\ mdmFile \in Seq(Byte) /\ Written \in Seq(Byte)
    BY <1>1, <2>2, <2>4, TurnWrites
  <2>6. Least(pos + MdmPage, len) = Len(mdmFile)
    BY <2>2, <2>4, <2>5 DEF Least
  <2> QED
    BY <2>2, <2>3, <2>5, <2>6, HoldsWhole
<1> QED
  BY DoneInit, DoneStep, <1>1, PTL DEF Spec, DoneMeansFlashed

(***************************************************************************)
(* What Inv gives                                                          *)
(***************************************************************************)
\* Positions, pages and counts keep their types and bounds, whatever power failures,
\* lost answers and repeated reports come.
THEOREM UpdateTypeCorrect == Spec => []TypeOK
<1>1. Inv => TypeOK
  BY DEF Inv
<1> QED
  BY InitKeeps, StepKeeps, <1>1, PTL DEF Spec

\* The pages go out in turn, each once, whatever reports come in between.
THEOREM PagesGoInTurn == Spec => []PagesInTurn
<1>1. Inv => PagesInTurn
  BY DEF Inv
<1> QED
  BY InitKeeps, StepKeeps, <1>1, PTL DEF Spec

\* The loop starts when the board has answered its whole image, but after a
\* second report or a late answer.
THEOREM LoopAfterTheBoard == Spec => []SamUpdateGood
<1>1. Inv => SamUpdateGood
  BY DEF Inv, InStep, SamUpdateGood
<1> QED
  BY InitKeeps, StepKeeps, <1>1, PTL DEF Spec
=============================================================================
