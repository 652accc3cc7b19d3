------------------------- MODULE ClientTable_proofs -------------------------
(***************************************************************************)
(* Proofs about ClientTable, for any number of sockets, slots and faults.  *)
(***************************************************************************)
EXTENDS ClientTable, LeastNatural, SequenceTheorems, TLAPS

-----------------------------------------------------------------------------
(* Facts about the steps of Console, whoever takes them. *)

ConsoleInv ==
    /\ ConsoleTypeOK
    /\ QuestionsNeedMenu
    /\ AnswersFollowQuestion
    /\ fresh <= Len(buffer)

\* A console with nothing typed and no menu
LEMMA NothingTyped ==
    ASSUME ~ menus, menus \in BOOLEAN, debug \in BOOLEAN, log \in BOOLEAN, choice = 0,
           buffer = <<>>, fresh = 0, lined \in BOOLEAN
    PROVE  ConsoleInv
<1>1. buffer \in Seq(Piece) /\ Len(buffer) = 0
  BY EmptySeq
<1>2. choice \in Asking \cup {0}
  OBVIOUS
<1> QED
  BY <1>1, <1>2, ConsoleAssumption
  DEF ConsoleInv, ConsoleTypeOK, QuestionsNeedMenu, AnswersFollowQuestion

LEMMA ConsoleStarts == ConsoleInit => ConsoleInv
BY NothingTyped DEF ConsoleInit

LEMMA ConsoleStays == ConsoleInv /\ UNCHANGED console => ConsoleInv'
BY DEF console, ConsoleInv, ConsoleTypeOK, QuestionsNeedMenu, AnswersFollowQuestion

LEMMA ConsoleReboots == ConsoleInv /\ ConsoleBoots => ConsoleInv'
<1> SUFFICES ASSUME ConsoleInv, ConsoleBoots PROVE ConsoleInv'
  OBVIOUS
<1>1. buffer' \in Seq(Piece) /\ Len(buffer') = 0
  BY EmptySeq DEF ConsoleBoots
<1>2. debug' \in BOOLEAN /\ log' \in BOOLEAN
  BY DEF ConsoleBoots, ConsoleInv, ConsoleTypeOK
<1>3. /\ menus' \in BOOLEAN /\ ~ menus' /\ lined' \in BOOLEAN
      /\ choice' \in Asking \cup {0} /\ choice' = 0 /\ fresh' = 0
  BY DEF ConsoleBoots
<1> QED
  BY <1>1, <1>2, <1>3, ConsoleAssumption
  DEF ConsoleInv, ConsoleTypeOK, QuestionsNeedMenu, AnswersFollowQuestion

\* The menu: a question is asked or closed, and the log comes back with the end
\* of the menu only.
LEMMA MenuKeeps ==
    ASSUME ConsoleInv, menus, NEW text, Menu(text)
    PROVE  /\ menus' \in BOOLEAN /\ debug' \in BOOLEAN /\ log' \in BOOLEAN
           /\ choice' \in Asking \cup {0}
           /\ choice' # 0 => menus'
           /\ menus' /\ debug' => debug
<1>1. CASE choice = 0
  BY <1>1 DEF Menu, MenuChooses, ConsoleInv, ConsoleTypeOK
<1>2. CASE choice # 0
  BY <1>2 DEF Menu, MenuAnswers, ConsoleInv, ConsoleTypeOK
<1> QED
  BY <1>1, <1>2

LEMMA ParceKeeps ==
    ASSUME ConsoleInv, NEW text, ParceCommand(text)
    PROVE  /\ menus' \in BOOLEAN /\ log' \in BOOLEAN
           /\ choice' \in Asking \cup {0}
           /\ choice' # 0 => menus'
           /\ menus' => menus \/ Opens(text)
BY DEF ParceCommand, Opens, ConsoleInv, ConsoleTypeOK, QuestionsNeedMenu

\* What was gathered is handed over whole: nothing is left to be taken for an
\* answer to a question that is asked only then.
LEMMA HandsOver ==
    ASSUME HandedOver
    PROVE  buffer' \in Seq(Piece) /\ Len(buffer') = 0 /\ fresh' = 0
BY EmptySeq DEF HandedOver

LEMMA ConsoleSteps == ConsoleInv /\ ConsoleReads => ConsoleInv'
<1> SUFFICES ASSUME ConsoleInv, ConsoleReads PROVE ConsoleInv'
  OBVIOUS
<1> USE ConsoleAssumption
<1>0. Len(buffer) \in Nat
  BY LenProperties DEF ConsoleInv, ConsoleTypeOK
<1>1. ASSUME NEW piece \in Piece, Gathers(piece) PROVE ConsoleInv'
  <2>1. buffer' \in Seq(Piece) /\ Len(buffer') = Len(buffer) + 1
    BY <1>1, AppendProperties DEF Gathers, ConsoleInv, ConsoleTypeOK
  <2>2. Len(buffer') <= MaxText /\ fresh' = fresh + 1 /\ UNCHANGED <<menus, debug, log, choice, lined>>
    BY <1>0, <1>1, <2>1 DEF Gathers
  <2> QED
    BY <1>0, <2>1, <2>2
    DEF ConsoleInv, ConsoleTypeOK, QuestionsNeedMenu, AnswersFollowQuestion
<1>2. CASE Enters
  <2>0. buffer' \in Seq(Piece) /\ Len(buffer') = 0 /\ fresh' = 0
    BY <1>2, HandsOver DEF Enters
  <2>1. lined' \in BOOLEAN /\ (lined' <=> lined /\ menus)
    BY <1>2 DEF Enters, ConsoleInv, ConsoleTypeOK
  <2>2. /\ menus' \in BOOLEAN /\ debug' \in BOOLEAN /\ log' \in BOOLEAN
        /\ choice' \in Asking \cup {0} /\ (choice' # 0 => menus')
        /\ menus' /\ debug' => menus /\ debug
    <3>1. CASE menus
      BY <1>2, <3>1, MenuKeeps DEF Enters
    <3>2. CASE ~ menus
      <4>1. ParceCommand(buffer) /\ debug' = (debug /\ ~ Opens(buffer))
        BY <1>2, <3>2 DEF Enters
      <4>2. debug' \in BOOLEAN
        BY <4>1, Zenon DEF ConsoleInv, ConsoleTypeOK
      <4> QED
        BY <3>2, <4>1, <4>2, ParceKeeps
    <3> QED
      BY <3>1, <3>2
  <2> QED
    BY <2>0, <2>1, <2>2
    DEF ConsoleInv, ConsoleTypeOK, QuestionsNeedMenu, AnswersFollowQuestion
<1>3. ASSUME NEW piece \in Piece, Line(piece) PROVE ConsoleInv'
  <2>0. buffer' \in Seq(Piece) /\ Len(buffer') = 0 /\ fresh' = 0
    BY <1>3, HandsOver DEF Line
  <2>1. ParceCommand(Append(buffer, piece)) /\ debug' = log' /\ lined' = TRUE
    BY <1>3 DEF Line
  <2> QED
    BY <2>0, <2>1, ParceKeeps
    DEF ConsoleInv, ConsoleTypeOK, QuestionsNeedMenu, AnswersFollowQuestion
<1> QED
  BY <1>1, <1>2, <1>3 DEF ConsoleReads

LEMMA WebFormKeeps == ConsoleInv /\ WebForm => ConsoleInv'
<1> SUFFICES ASSUME ConsoleInv, WebForm PROVE ConsoleInv'
  OBVIOUS
<1>1. PICK on \in {log, FALSE, TRUE}, asks \in BOOLEAN :
        /\ log' = on /\ menus' = (menus \/ asks)
        /\ choice' = IF asks /\ ~ menus THEN 0 ELSE choice
        /\ debug' = (debug /\ ~ (asks /\ ~ menus))
        /\ fresh' = IF asks /\ ~ menus THEN 0 ELSE fresh
        /\ lined' = (lined /\ ~ (asks /\ ~ menus))
        /\ UNCHANGED buffer
  BY Zenon DEF WebForm
<1>2. menus' \in BOOLEAN /\ debug' \in BOOLEAN /\ log' \in BOOLEAN /\ lined' \in BOOLEAN
  BY <1>1 DEF ConsoleInv, ConsoleTypeOK
<1>3. Len(buffer) \in Nat
  BY LenProperties DEF ConsoleInv, ConsoleTypeOK
<1> QED
  BY <1>1, <1>2, <1>3, ConsoleAssumption
  DEF ConsoleInv, ConsoleTypeOK, QuestionsNeedMenu, AnswersFollowQuestion
-----------------------------------------------------------------------------
TableTypes ==
    /\ conn \in [Socket -> Kind \cup {"EST", Free}] /\ estId \in Socket \cup {None}
    /\ slotId \in [Index -> Socket \cup {Free, Failed}]
    /\ slotType \in [Index -> Kind \cup {"NONE"}]
    /\ remote \in BOOLEAN
    /\ remDbg \in Socket \cup {Failed, None} /\ remTh \in Socket \cup {Failed, None}
    /\ wild \in BOOLEAN /\ lost \in Nat
    /\ slotLeft \subseteq Socket /\ outputLeft \subseteq Socket
    /\ faults \in 0..MaxFaults /\ seen \subseteq FaultKinds

\* Slots that are taken, and clients that have one
Taken   == {i \in Index : slotId[i] # Free}
Clients == {s \in Socket : conn[s] \in Kind /\ Known(s)}

\* Each taken slot is a client's, or was lost.
Counted == "send" \notin seen => Cardinality(Taken) <= Cardinality(Clients) + lost

\* A socket to the server is the EST link's own or was left behind, and a client
\* that has the EST link's identifier got it when that was stale.
OneLink ==
    /\ \A s \in Socket : conn[s] = "EST" => s = estId \/ "orphan" \in seen
    /\ \A s \in Socket : s = estId /\ conn[s] \in Kind => s \in slotLeft \cap outputLeft

StaysInTable == wild => "send" \in seen \/ "orphan" \in seen \/ Small

Promised ==
    /\ TableTypes /\ Counted /\ OneLink /\ StaysInTable
    /\ DataIsReadAsSent /\ RoomForClients /\ OutputReachesItsClient

Inv == ConsoleInv /\ Promised

(***************************************************************************)
(* Searching the table                                                     *)
(***************************************************************************)
LEMMA Finds ==
    ASSUME NEW id, Known(id)
    PROVE  Find(id) \in Index /\ slotId[Find(id)] = id
<1> DEFINE T == {i \in Index : slotId[i] = id}
<1>1. T \in SUBSET Nat /\ T # {}
  BY DEF Known, Index
<1>2. PICK x \in T : \A y \in T : x <= y
  <2> HIDE DEF T
  <2> QED
    BY <1>1, Least
<1>3. x \in Index /\ slotId[x] = id
  OBVIOUS
<1>4. ASSUME NEW j \in 1..(x - 1) PROVE slotId[j] # id
  <2>1. j \in Index /\ j < x
    BY <1>3, ClientAssumption DEF Index
  <2>2. ~ (x <= j)
    BY <1>3, <2>1 DEF Index
  <2> QED
    BY <1>2, <2>1, <2>2
<1>5. IsFirst(x, id)
  BY <1>3, <1>4 DEF IsFirst
<1>6. Find(id) \in Index /\ IsFirst(Find(id), id)
  <2> HIDE DEF T
  <2> QED
    BY <1>3, <1>5, Zenon DEF Find
<1> QED
  BY <1>6 DEF IsFirst

\* A slot is taken, or the table is full.
LEMMA Inserts ==
    ASSUME NEW id, NEW kind, Insert(id, kind)
    PROVE  \/ ~ Known(Free) /\ UNCHANGED <<slotId, slotType>>
           \/ \E k \in Index : /\ slotId[k] = Free
                               /\ slotId' = [slotId EXCEPT ![k] = id]
                               /\ slotType' = [slotType EXCEPT ![k] = kind]
BY Finds DEF Insert, table

LEMMA Finite ==
    /\ IsFiniteSet(Taken) /\ Cardinality(Taken) \in Nat
    /\ IsFiniteSet(Clients) /\ Cardinality(Clients) \in Nat
    /\ Cardinality(Socket) \in Nat
<1>1. IsFiniteSet(Index)
  BY ClientAssumption, FS_Interval DEF Index
<1>2. Taken \in SUBSET Index /\ Clients \in SUBSET Socket
  BY DEF Taken, Clients
<1> QED
  BY <1>1, <1>2, ClientAssumption, FS_Subset, FS_CardinalityType

LEMMA OneMore ==
    ASSUME NEW S, IsFiniteSet(S), NEW x, x \notin S
    PROVE  Cardinality(S \cup {x}) = Cardinality(S) + 1
BY FS_AddElement

LEMMA OneLess ==
    ASSUME NEW S, IsFiniteSet(S), NEW x, x \in S
    PROVE  Cardinality(S \ {x}) = Cardinality(S) - 1
BY FS_RemoveElement

\* The table is full, and a socket is not in it.
LEMMA FullTable ==
    ASSUME TableTypes, Counted, "send" \notin seen, ~ Known(Free), NEW s \in Socket, ~ Known(s)
    PROVE  Small
<1>1. Taken = Index
  BY DEF Taken, Known
<1>2. Cardinality(Index) = Slots
  BY ClientAssumption, FS_Interval DEF Index
<1>3. /\ IsFiniteSet(Socket \ {s}) /\ Cardinality(Socket \ {s}) = Cardinality(Socket) - 1
  BY ClientAssumption, FS_RemoveElement
<1>4. Clients \in SUBSET (Socket \ {s})
  BY DEF Clients
<1>5. Cardinality(Clients) <= Cardinality(Socket) - 1
  BY <1>3, <1>4, FS_Subset
<1>6. Slots <= Cardinality(Clients) + lost
  BY <1>1, <1>2 DEF Counted
<1> QED
  BY <1>5, <1>6, Finite, ClientAssumption DEF Small, TableTypes

LEMMA SmallStays == lost \in Nat /\ lost' \in Nat /\ lost <= lost' /\ Small => Small'
BY Finite, ClientAssumption DEF Small

(***************************************************************************)
(* Steps                                                                   *)
(***************************************************************************)
\* A socket is put into a free slot, or finds none.
LEMMA AcceptKeeps ==
    ASSUME Inv, NEW s \in Socket, NEW kind \in Kind, conn[s] = Free,
           conn' = [conn EXCEPT ![s] = kind], Accepted(s, kind),
           UNCHANGED <<estId, wild, lost>>,
           IF s = estId
           THEN /\ Fails("stale")
                /\ slotLeft' = slotLeft \cup {s} /\ outputLeft' = outputLeft \cup {s}
           ELSE UNCHANGED <<left, trouble>>
    PROVE  Promised'
<1> USE ClientAssumption
<1>1. TableTypes
  BY DEF Inv, Promised
<1>0. /\ faults' \in 0..MaxFaults /\ seen' \subseteq FaultKinds
      /\ \A f \in {"send", "orphan"} : f \in seen' <=> f \in seen
      /\ slotLeft \subseteq slotLeft' /\ slotLeft' \subseteq slotLeft \cup {s}
      /\ outputLeft \subseteq outputLeft' /\ outputLeft' \subseteq outputLeft \cup {s}
      /\ s = estId => s \in slotLeft' \cap outputLeft'
  <2>1. CASE s = estId
    <3>1. /\ Fails("stale")
          /\ slotLeft' = slotLeft \cup {s} /\ outputLeft' = outputLeft \cup {s}
      BY <2>1
    <3>2. faults' \in 0..MaxFaults
      BY <1>1, <3>1 DEF Fails, TableTypes
    <3>3. seen' = seen \cup {"stale"} /\ seen' \subseteq FaultKinds
      BY <1>1, <3>1 DEF Fails, TableTypes, FaultKinds
    <3>4. \A f \in {"send", "orphan"} : f \in seen' <=> f \in seen
      BY <3>3
    <3> QED
      BY <3>1, <3>2, <3>3, <3>4
  <2>2. CASE s # estId
    BY <1>1, <2>2 DEF left, trouble, TableTypes
  <2> QED
    BY <2>1, <2>2
<1>2. /\ conn' \in [Socket -> Kind \cup {"EST", Free}] /\ conn'[s] = kind
      /\ \A t \in Socket : t # s => conn'[t] = conn[t]
  BY <1>1 DEF TableTypes
<1>3. \/ UNCHANGED <<slotId, slotType>> /\ ~ Known(Free)
      \/ \E k \in Index : /\ slotId[k] = Free
                          /\ slotId' = [slotId EXCEPT ![k] = s]
                          /\ slotType' = [slotType EXCEPT ![k] = kind]
  BY Inserts DEF Accepted
<1>4. s \in slotLeft \/ ~ Known(s)
  BY <1>1 DEF Inv, Promised, DataIsReadAsSent, TableTypes, Known
<1>5. /\ remote' = (IF kind = "DBG" THEN TRUE ELSE remote)
      /\ remDbg' = (IF kind = "DBG" THEN s ELSE remDbg)
      /\ remTh' = (IF kind = "THROUGH" THEN s ELSE remTh)
  BY DEF Accepted
<1>6. slotId' \in [Index -> Socket \cup {Free, Failed}] /\ slotType' \in [Index -> Kind \cup {"NONE"}]
  BY <1>1, <1>3 DEF TableTypes
<1>7. TableTypes'
  <2>1. remote' \in BOOLEAN
    BY <1>1, <1>5 DEF TableTypes
  <2>2. slotLeft' \subseteq Socket /\ outputLeft' \subseteq Socket
    BY <1>0, <1>1 DEF TableTypes
  <2> QED
    BY <1>0, <1>1, <1>2, <1>5, <1>6, <2>1, <2>2 DEF TableTypes
<1>8. Counted'
  <2> SUFFICES ASSUME "send" \notin seen PROVE Cardinality(Taken') <= Cardinality(Clients') + lost'
    BY <1>0 DEF Counted
  <2>0. Cardinality(Taken) <= Cardinality(Clients) + lost /\ s \notin Clients /\ lost \in Nat
    BY <1>1 DEF Inv, Promised, Counted, Clients, Kind, TableTypes
  <2>1. CASE UNCHANGED <<slotId, slotType>>
    <3>1. Taken' = Taken
      BY <2>1 DEF Taken
    <3>2. Clients' = Clients \/ Clients' = Clients \cup {s}
      BY <1>2, <2>1 DEF Clients, Known
    <3> QED
      BY <2>0, <3>1, <3>2, OneMore, Finite
  <2>2. CASE \E k \in Index : /\ slotId[k] = Free
                              /\ slotId' = [slotId EXCEPT ![k] = s]
    <3>1. PICK k \in Index : slotId[k] = Free /\ slotId' = [slotId EXCEPT ![k] = s]
      BY <2>2
    <3>2. Taken' = Taken \cup {k} /\ k \notin Taken
      BY <1>1, <3>1 DEF Taken, TableTypes
    <3>3. Clients' = Clients \cup {s}
      BY <1>1, <1>2, <3>1 DEF Clients, Known, TableTypes
    <3> QED
      BY <2>0, <3>2, <3>3, OneMore, Finite
  <2> QED
    BY <1>3, <2>1, <2>2
<1>9. OneLink'
  <2>1. ASSUME NEW t \in Socket, conn'[t] = "EST" PROVE t = estId' \/ "orphan" \in seen'
    BY <1>0, <1>2, <2>1 DEF Inv, Promised, OneLink, Kind
  <2>2. ASSUME NEW t \in Socket, t = estId', conn'[t] \in Kind PROVE t \in slotLeft' \cap outputLeft'
    BY <1>0, <1>2, <2>2 DEF Inv, Promised, OneLink
  <2> QED
    BY <2>1, <2>2 DEF OneLink
<1>10. StaysInTable'
  BY <1>0 DEF Inv, Promised, StaysInTable, Small
<1>11. DataIsReadAsSent'
  <2>1. ASSUME NEW i \in Index, slotId'[i] \in Socket \ slotLeft'
        PROVE  /\ conn'[slotId'[i]] = slotType'[i]
               /\ \A j \in Index : slotId'[j] = slotId'[i] => i = j
    <3>1. s \in slotLeft \/ \A j \in Index : slotId[j] # s
      BY <1>4 DEF Known
    <3>2. s \notin slotLeft => \A j \in Index : slotId[j] # s
      BY <3>1
    <3> QED
      BY <1>0, <1>1, <1>2, <1>3, <2>1, <3>2 DEF Inv, Promised, DataIsReadAsSent, TableTypes
  <2>2. ASSUME NEW t \in Socket \ slotLeft', t = estId' PROVE conn'[t] \in {"EST", Free}
    BY <1>0, <1>2, <2>2 DEF Inv, Promised, DataIsReadAsSent
  <2> QED
    BY <2>1, <2>2 DEF DataIsReadAsSent
<1>12. RoomForClients'
  <2> SUFFICES ASSUME "send" \notin seen, NEW t \in Socket, conn'[t] \in Kind, ~ Known(t)'
               PROVE  Small
    BY <1>0 DEF RoomForClients, Small
  <2>0. ~ Known(t)
    BY <1>1, <1>3 DEF Known, TableTypes
  <2>1. CASE t = s
    <3>1. ~ Known(Free)
      BY <1>1, <1>3, <2>1 DEF Known, TableTypes
    <3> QED
      BY <1>1, <2>0, <3>1, FullTable DEF Inv, Promised
  <2>2. CASE t # s
    BY <1>2, <2>0, <2>2 DEF Inv, Promised, RoomForClients
  <2> QED
    BY <2>1, <2>2
<1>13. OutputReachesItsClient'
  <2>1. /\ remote <=> remDbg # None
        /\ remDbg \in Socket \ outputLeft => conn[remDbg] = "DBG"
        /\ remTh \in Socket \ outputLeft => conn[remTh] = "THROUGH"
    BY DEF Inv, Promised, OutputReachesItsClient
  <2>2. remote' <=> remDbg' # None
    BY <1>5, <2>1
  <2>3. remDbg' \in Socket \ outputLeft' => conn'[remDbg'] = "DBG"
    BY <1>0, <1>2, <1>5, <2>1 DEF Kind
  <2>4. remTh' \in Socket \ outputLeft' => conn'[remTh'] = "THROUGH"
    BY <1>0, <1>2, <1>5, <2>1 DEF Kind
  <2> QED
    BY <2>2, <2>3, <2>4 DEF OutputReachesItsClient
<1> QED
  BY <1>7, <1>8, <1>9, <1>10, <1>11, <1>12, <1>13 DEF Promised

\* A failed accept takes a slot like a socket, and is counted as lost.
LEMMA AcceptFailsKeeps ==
    ASSUME Inv, AcceptFails
    PROVE  Promised'
<1> USE ClientAssumption
<1>0. /\ UNCHANGED <<conn, estId, wild, slotLeft, outputLeft>> /\ lost' = lost + 1
      /\ faults' \in 0..MaxFaults /\ seen' = seen \cup {"accept"} /\ seen' \subseteq FaultKinds
  BY DEF AcceptFails, Fails, Inv, Promised, TableTypes, FaultKinds, left
<1>1. TableTypes /\ lost \in Nat
  BY DEF Inv, Promised, TableTypes
<1>2. PICK kind \in Kind : Accepted(Failed, kind)
  BY DEF AcceptFails
<1>3. \/ UNCHANGED <<slotId, slotType>>
      \/ \E k \in Index : /\ slotId[k] = Free
                          /\ slotId' = [slotId EXCEPT ![k] = Failed]
                          /\ slotType' = [slotType EXCEPT ![k] = kind]
  BY <1>2, Inserts DEF Accepted
<1>4. TableTypes'
  <2>1. slotId' \in [Index -> Socket \cup {Free, Failed}] /\ slotType' \in [Index -> Kind \cup {"NONE"}]
    BY <1>1, <1>3 DEF TableTypes
  <2>2. remote' \in BOOLEAN
    BY <1>1, <1>2 DEF TableTypes, Accepted
  <2>3. remDbg' \in Socket \cup {Failed, None} /\ remTh' \in Socket \cup {Failed, None}
    BY <1>1, <1>2 DEF TableTypes, Accepted
  <2> QED
    BY <1>0, <1>1, <2>1, <2>2, <2>3 DEF TableTypes
<1>5. \A t \in Socket : Known(t)' <=> Known(t)
  BY <1>1, <1>3 DEF Known, TableTypes
<1>6. Counted'
  <2> SUFFICES ASSUME "send" \notin seen PROVE Cardinality(Taken') <= Cardinality(Clients') + lost'
    BY <1>0 DEF Counted
  <2>1. Clients' = Clients
    BY <1>0, <1>5 DEF Clients
  <2>2. Taken' = Taken \/ \E k \in Index : Taken' = Taken \cup {k} /\ k \notin Taken
    BY <1>1, <1>3 DEF Taken, TableTypes
  <2>3. Cardinality(Taken') <= Cardinality(Taken) + 1
    BY <2>2, OneMore, Finite
  <2>4. Cardinality(Taken') \in Nat
    BY <2>2, Finite, OneMore
  <2> QED
    BY <1>0, <1>1, <2>1, <2>3, <2>4, Finite DEF Inv, Promised, Counted
<1>7. Small => Small'
  BY <1>0, <1>1, SmallStays
<1>8. OneLink' /\ StaysInTable'
  BY <1>0, <1>7 DEF Inv, Promised, OneLink, StaysInTable
<1>9. DataIsReadAsSent'
  BY <1>0, <1>1, <1>3 DEF Inv, Promised, DataIsReadAsSent, TableTypes
<1>10. RoomForClients'
  BY <1>0, <1>5, <1>7 DEF Inv, Promised, RoomForClients
<1>11. OutputReachesItsClient'
  BY <1>0, <1>2 DEF Inv, Promised, OutputReachesItsClient, Accepted
<1> QED
  BY <1>4, <1>6, <1>8, <1>9, <1>10, <1>11 DEF Promised

\* A slot is freed when its socket is gone; whoever was remembered by it is not
\* touched.
LEMMA FreedTable ==
    ASSUME TableTypes, NEW s \in Socket, Known(s), Uninit(Find(s))
    PROVE  /\ slotId' \in [Index -> Socket \cup {Free, Failed}]
           /\ slotType' \in [Index -> Kind \cup {"NONE"}]
           /\ Cardinality(Taken') = Cardinality(Taken) - 1
           /\ \A t \in Socket : t # s => (Known(t)' <=> Known(t))
           /\ \A i \in Index : slotId'[i] \in Socket =>
                 slotId'[i] = slotId[i] /\ slotType'[i] = slotType[i] /\ i # Find(s)
<1> USE ClientAssumption
<1>1. Find(s) \in Index /\ slotId[Find(s)] = s
  BY Finds
<1> DEFINE k == Find(s)
<1> HIDE DEF k
<1>2. /\ k \in Index /\ slotId[k] = s
      /\ slotId' = [slotId EXCEPT ![k] = Free] /\ slotType' = [slotType EXCEPT ![k] = "NONE"]
  BY <1>1 DEF Uninit, k
<1>3. \A i \in Index : slotId'[i] \in Socket =>
          slotId'[i] = slotId[i] /\ slotType'[i] = slotType[i] /\ i # k
  BY <1>2 DEF TableTypes
<1>4. /\ slotId' \in [Index -> Socket \cup {Free, Failed}]
      /\ slotType' \in [Index -> Kind \cup {"NONE"}]
  BY <1>2 DEF TableTypes
<1>5. \A t \in Socket : t # s => (Known(t)' <=> Known(t))
  BY <1>2 DEF TableTypes, Known
<1>6. Taken' = Taken \ {k} /\ k \in Taken
  BY <1>2 DEF TableTypes, Taken
<1>7. Cardinality(Taken') = Cardinality(Taken) - 1
  BY <1>6, OneLess, Finite
<1> QED
  BY <1>3, <1>4, <1>5, <1>7 DEF k

\* The socket goes and its slot with it.
LEMMA FreeingKeeps ==
    ASSUME Inv, NEW s \in Socket, Gone(s), Known(s), Uninit(Find(s)),
           UNCHANGED <<estId, lost, slotLeft>>, outputLeft \subseteq outputLeft',
           seen \subseteq seen', seen' \subseteq FaultKinds
    PROVE  /\ conn' \in [Socket -> Kind \cup {"EST", Free}]
           /\ slotId' \in [Index -> Socket \cup {Free, Failed}]
           /\ slotType' \in [Index -> Kind \cup {"NONE"}]
           /\ Counted' /\ OneLink' /\ DataIsReadAsSent' /\ RoomForClients'
<1> USE ClientAssumption
<1>1. TableTypes /\ Find(s) \in Index /\ slotId[Find(s)] = s
  BY Finds DEF Inv, Promised
<1>2. /\ conn' \in [Socket -> Kind \cup {"EST", Free}] /\ conn'[s] = Free
      /\ \A t \in Socket : t # s => conn'[t] = conn[t]
  BY <1>1 DEF Gone, TableTypes
<1>3. /\ Cardinality(Taken') = Cardinality(Taken) - 1
      /\ \A t \in Socket : t # s => (Known(t)' <=> Known(t))
  BY <1>1, FreedTable
<1>4. Counted'
  <2> SUFFICES ASSUME "send" \notin seen PROVE Cardinality(Taken') <= Cardinality(Clients') + lost'
    BY DEF Counted
  <2>1. Clients' = Clients \ {s}
    BY <1>2, <1>3 DEF Clients, Kind
  <2>2. Cardinality(Clients') >= Cardinality(Clients) - 1
    <3>1. CASE s \in Clients
      BY <2>1, <3>1, OneLess, Finite
    <3>2. CASE s \notin Clients
      <4>1. Clients' = Clients
        BY <2>1, <3>2
      <4> QED
        BY <4>1, Finite
    <3> QED
      BY <3>1, <3>2
  <2>3. Cardinality(Clients') \in Nat
    BY <2>1, Finite, FS_RemoveElement, FS_CardinalityType, FS_Difference
  <2> QED
    BY <1>1, <1>3, <2>2, <2>3, Finite DEF Inv, Promised, Counted, TableTypes
<1>5. DataIsReadAsSent'
  <2>1. ASSUME NEW i \in Index, slotId'[i] \in Socket \ slotLeft
        PROVE  /\ conn'[slotId'[i]] = slotType'[i]
               /\ \A j \in Index : slotId'[j] = slotId'[i] => i = j
    <3>1. slotId'[i] = slotId[i] /\ slotType'[i] = slotType[i] /\ i # Find(s)
      BY <1>1, <2>1, FreedTable
    <3>2. slotId[i] # s /\ conn[slotId[i]] = slotType[i]
      BY <1>1, <2>1, <3>1 DEF Inv, Promised, DataIsReadAsSent
    <3>3. ASSUME NEW j \in Index, slotId'[j] = slotId'[i] PROVE i = j
      <4>1. slotId[j] = slotId[i]
        BY <1>1, <2>1, <3>1, <3>3, FreedTable
      <4> QED
        BY <2>1, <3>1, <4>1 DEF Inv, Promised, DataIsReadAsSent
    <3> QED
      BY <1>2, <2>1, <3>1, <3>2, <3>3
  <2>2. ASSUME NEW t \in Socket \ slotLeft, t = estId PROVE conn'[t] \in {"EST", Free}
    BY <1>2, <2>2 DEF Inv, Promised, DataIsReadAsSent
  <2> QED
    BY <2>1, <2>2 DEF DataIsReadAsSent
<1>6. RoomForClients'
  <2> SUFFICES ASSUME "send" \notin seen, NEW t \in Socket, conn'[t] \in Kind, ~ Known(t)'
               PROVE  Small
    BY DEF RoomForClients, Small
  <2>1. t # s
    BY <1>2 DEF Kind
  <2>2. ~ Known(t) /\ conn[t] \in Kind
    BY <1>2, <1>3, <2>1
  <2> QED
    BY <2>2 DEF Inv, Promised, RoomForClients, Small
<1>7. OneLink'
  BY <1>2 DEF Inv, Promised, OneLink, Kind
<1> QED
  BY <1>1, <1>2, <1>4, <1>5, <1>6, <1>7, FreedTable

\* A socket goes that has the identifier of the EST link: the table is not told,
\* and if it was a client's, the slot is counted as lost.
LEMMA LinkClosesKeeps ==
    ASSUME Inv, estId \in Socket, Gone(estId), LosesSlot(estId), estId' \in {estId, None},
           UNCHANGED <<slotId, slotType, remote, remDbg, remTh, wild, slotLeft, outputLeft,
                       faults, seen>>
    PROVE  Promised'
<1> USE ClientAssumption
<1>1. TableTypes
  BY DEF Inv, Promised
<1>2. /\ conn' \in [Socket -> Kind \cup {"EST", Free}] /\ conn'[estId] = Free
      /\ \A t \in Socket : t # estId => conn'[t] = conn[t]
  BY <1>1 DEF Gone, TableTypes
<1>3. /\ lost' = IF estId \in Clients THEN lost + 1 ELSE lost
      /\ lost \in Nat /\ lost' \in Nat /\ lost <= lost'
  BY <1>1 DEF LosesSlot, Clients, TableTypes
<1>4. \A t \in Socket : Known(t)' <=> Known(t)
  BY DEF Known
<1>5. TableTypes'
  BY <1>1, <1>2, <1>3 DEF TableTypes
<1>6. Counted'
  <2> SUFFICES ASSUME "send" \notin seen PROVE Cardinality(Taken') <= Cardinality(Clients') + lost'
    BY DEF Counted
  <2>1. Taken' = Taken /\ Clients' = Clients \ {estId}
    BY <1>2, <1>4 DEF Taken, Clients, Kind
  <2>2. Cardinality(Taken) <= Cardinality(Clients) + lost
    BY DEF Inv, Promised, Counted
  <2>3. CASE estId \in Clients
    BY <1>3, <2>1, <2>2, <2>3, OneLess, Finite
  <2>4. CASE estId \notin Clients
    <3>1. Clients' = Clients
      BY <2>1, <2>4
    <3> QED
      BY <1>3, <2>1, <2>2, <2>4, <3>1
  <2> QED
    BY <2>3, <2>4
<1>7. OneLink'
  BY <1>1, <1>2 DEF Inv, Promised, OneLink, Kind
<1>8. StaysInTable'
  BY <1>3, SmallStays DEF Inv, Promised, StaysInTable
<1>9. conn[estId] \in Kind => estId \in slotLeft /\ estId \in outputLeft
  BY DEF Inv, Promised, OneLink
<1>10. DataIsReadAsSent'
  <2>1. ASSUME NEW i \in Index, slotId[i] \in Socket \ slotLeft
        PROVE  /\ conn'[slotId[i]] = slotType[i]
               /\ \A j \in Index : slotId[j] = slotId[i] => i = j
    <3>1. conn[slotId[i]] = slotType[i]
      BY <2>1 DEF Inv, Promised, DataIsReadAsSent
    <3>2. conn[slotId[i]] \in Kind
      BY <1>1, <2>1, <3>1 DEF TableTypes, Kind
    <3> QED
      BY <1>2, <1>9, <2>1, <3>1, <3>2 DEF Inv, Promised, DataIsReadAsSent
  <2>2. ASSUME NEW t \in Socket \ slotLeft, t = estId' PROVE conn'[t] \in {"EST", Free}
    BY <1>2, <2>2
  <2> QED
    BY <2>1, <2>2 DEF DataIsReadAsSent
<1>11. RoomForClients'
  <2>1. Small => Small'
    BY <1>3, SmallStays
  <2>2. \A t \in Socket : conn'[t] \in Kind => conn[t] \in Kind
    BY <1>2 DEF Kind
  <2> QED
    BY <1>4, <2>1, <2>2 DEF Inv, Promised, RoomForClients
<1>12. OutputReachesItsClient'
  BY <1>2, <1>9 DEF Inv, Promised, OutputReachesItsClient, Kind
<1> QED
  BY <1>5, <1>6, <1>7, <1>8, <1>10, <1>11, <1>12 DEF Promised

\* The peer closes: the socket, its slot and its output are gone.  A socket with
\* no slot is one the EST link left, or a client that found no room.
LEMMA ClientClosesKeeps ==
    ASSUME Inv, NEW s \in Socket, s # estId, conn[s] # Free, Gone(s), Forgets(s),
           UninitAt(IF Known(s) THEN Find(s) ELSE 0),
           UNCHANGED <<estId, lost, slotLeft, outputLeft, faults, seen>>
    PROVE  Promised'
<1> USE ClientAssumption
<1>1. TableTypes
  BY DEF Inv, Promised
<1>2. /\ conn' \in [Socket -> Kind \cup {"EST", Free}] /\ conn'[s] = Free
      /\ \A t \in Socket : t # s => conn'[t] = conn[t]
  BY <1>1 DEF Gone, TableTypes
<1>3. /\ remote <=> remDbg # None
      /\ remDbg \in Socket \ outputLeft => conn[remDbg] = "DBG"
      /\ remTh \in Socket \ outputLeft => conn[remTh] = "THROUGH"
  BY DEF Inv, Promised, OutputReachesItsClient
<1>4. OutputReachesItsClient'
  <2>1. CASE s = remDbg
    <3>1. remote' = FALSE /\ remDbg' = None /\ remTh' = remTh
      BY <2>1 DEF Forgets
    <3>2. s \notin outputLeft => remTh # s
      BY <1>3, <2>1
    <3> QED
      BY <1>2, <1>3, <3>1, <3>2 DEF OutputReachesItsClient
  <2>2. CASE s # remDbg
    <3>1. /\ remote' = remote /\ remDbg' = remDbg
          /\ (remTh' = None \/ (remTh' = remTh /\ remTh # s))
      BY <2>2 DEF Forgets
    <3>2. remTh' \in Socket \ outputLeft => conn'[remTh'] = "THROUGH"
      BY <1>2, <1>3, <3>1
    <3>3. remDbg' \in Socket \ outputLeft => conn'[remDbg'] = "DBG"
      BY <1>2, <1>3, <2>2, <3>1
    <3> QED
      BY <1>3, <3>1, <3>2, <3>3 DEF OutputReachesItsClient
  <2> QED
    BY <2>1, <2>2
<1>5. /\ remote' \in BOOLEAN
      /\ remDbg' \in Socket \cup {Failed, None} /\ remTh' \in Socket \cup {Failed, None}
  <2>1. /\ remDbg' \in {None, remDbg} /\ remTh' \in {None, remTh}
        /\ remote' = FALSE \/ remote' = remote
    BY DEF Forgets
  <2>2. remote' \in BOOLEAN
    BY <1>1, <2>1 DEF TableTypes
  <2> QED
    BY <1>1, <2>1, <2>2 DEF TableTypes
<1>6. CASE Known(s)
  <2>1. Uninit(Find(s)) /\ wild' = wild
    BY <1>6, Finds DEF UninitAt
  <2>2. /\ slotId' \in [Index -> Socket \cup {Free, Failed}]
        /\ slotType' \in [Index -> Kind \cup {"NONE"}]
        /\ Counted' /\ OneLink' /\ DataIsReadAsSent' /\ RoomForClients'
    BY <1>1, <1>6, <2>1, FreeingKeeps DEF TableTypes
  <2>3. TableTypes'
    BY <1>1, <1>2, <1>5, <2>1, <2>2 DEF TableTypes
  <2>4. StaysInTable'
    BY <2>1 DEF Inv, Promised, StaysInTable, Small
  <2> QED
    BY <1>4, <2>2, <2>3, <2>4 DEF Promised
<1>7. CASE ~ Known(s)
  <2>1. UNCHANGED <<slotId, slotType>> /\ wild' = TRUE
    BY <1>7 DEF UninitAt, Index, table
  <2>2. "send" \in seen \/ "orphan" \in seen \/ Small
    <3>1. conn[s] = "EST" \/ conn[s] \in Kind
      BY <1>1 DEF TableTypes
    <3> QED
      BY <1>7, <3>1 DEF Inv, Promised, OneLink, RoomForClients, Small
  <2>3. TableTypes'
    BY <1>1, <1>2, <1>5, <2>1 DEF TableTypes
  <2>4. Taken' = Taken /\ Clients' = Clients
    BY <1>2, <1>7, <2>1 DEF Taken, Clients, Known, Kind
  <2>5. Counted' /\ StaysInTable'
    BY <2>2, <2>4 DEF Inv, Promised, Counted, StaysInTable, Small
  <2>6. OneLink'
    BY <1>2 DEF Inv, Promised, OneLink, Kind
  <2>7. DataIsReadAsSent'
    <3>1. \A i \in Index : slotId[i] # s
      BY <1>7 DEF Known
    <3> QED
      BY <1>2, <2>1, <3>1 DEF Inv, Promised, DataIsReadAsSent
  <2>8. RoomForClients'
    BY <1>2, <2>1 DEF Inv, Promised, RoomForClients, Known, Kind, Small
  <2> QED
    BY <1>4, <2>3, <2>5, <2>6, <2>7, <2>8 DEF Promised
<1> QED
  BY <1>6, <1>7

LEMMA PeerClosesKeeps ==
    ASSUME Inv, PeerCloses
    PROVE  Promised'
<1>0. UNCHANGED <<estId, slotLeft, outputLeft, faults, seen>>
  BY DEF PeerCloses, left, trouble
<1>1. PICK s \in Socket :
        /\ conn[s] # Free /\ Gone(s)
        /\ IF s = estId
           THEN LosesSlot(s) /\ UNCHANGED <<table, outputs, wild>>
           ELSE /\ Forgets(s)
                /\ UninitAt(IF Known(s) THEN Find(s) ELSE 0)
                /\ UNCHANGED lost
  BY DEF PeerCloses
<1>2. CASE s = estId
  BY <1>0, <1>1, <1>2, LinkClosesKeeps DEF table, outputs
<1>3. CASE s # estId
  BY <1>0, <1>1, <1>3, ClientClosesKeeps
<1> QED
  BY <1>2, <1>3

\* What leaves the sockets, the table and the outputs alone
LEMMA TableStays ==
    ASSUME Inv, UNCHANGED <<conn, estId, slotId, slotType, remote, remDbg, remTh, wild, lost,
                            slotLeft, outputLeft, faults, seen>>
    PROVE  Promised'
<1>1. Taken' = Taken /\ Clients' = Clients
  BY DEF Taken, Clients, Known
<1> QED
  BY <1>1 DEF Inv, Promised, TableTypes, Counted, OneLink, StaysInTable, Small,
              DataIsReadAsSent, RoomForClients, Known, OutputReachesItsClient

\* The EST link gets a socket nobody has, or none.
LEMMA EstConnectsKeeps ==
    ASSUME Inv, EstConnects
    PROVE  Promised'
<1> USE ClientAssumption
<1>1. TableTypes
  BY DEF Inv, Promised
<1>0. /\ UNCHANGED <<slotId, slotType, remote, remDbg, remTh, wild, lost, slotLeft, outputLeft>>
      /\ faults' \in 0..MaxFaults /\ seen' \subseteq FaultKinds /\ seen \subseteq seen'
      /\ "send" \in seen' => "send" \in seen
      /\ \A s \in Socket : conn[s] = "EST" => "orphan" \in seen'
  <2>0. UNCHANGED <<slotId, slotType, remote, remDbg, remTh, wild, lost, slotLeft, outputLeft>>
    BY DEF EstConnects, table, outputs, left
  <2>1. CASE estId # None /\ conn[estId] = "EST"
    <3>1. Fails("orphan")
      BY <2>1 DEF EstConnects
    <3> QED
      BY <1>1, <2>0, <3>1 DEF Fails, TableTypes, FaultKinds
  <2>2. CASE ~ (estId # None /\ conn[estId] = "EST")
    <3>1. UNCHANGED <<faults, seen>>
      BY <2>2 DEF EstConnects, trouble
    <3>2. \A s \in Socket : conn[s] = "EST" => "orphan" \in seen
      BY <2>2 DEF Inv, Promised, OneLink
    <3> QED
      BY <1>1, <2>0, <3>1, <3>2 DEF TableTypes
  <2> QED
    BY <2>1, <2>2
<1>2. \/ \E s \in Socket : conn[s] = Free /\ conn' = [conn EXCEPT ![s] = "EST"] /\ estId' = s
      \/ estId' = None /\ conn' = conn
  BY DEF EstConnects
<1>3. /\ conn' \in [Socket -> Kind \cup {"EST", Free}] /\ estId' \in Socket \cup {None}
      /\ \A t \in Socket : conn[t] \in Kind <=> conn'[t] \in Kind
      /\ \A t \in Socket : conn[t] \in Kind => conn'[t] = conn[t]
      /\ \A t \in Socket : t = estId' => conn'[t] = "EST"
      /\ \A t \in Socket : conn'[t] = "EST" => conn[t] = "EST" \/ t = estId'
  BY <1>1, <1>2 DEF TableTypes, Kind
<1>4. TableTypes'
  BY <1>0, <1>1, <1>3 DEF TableTypes
<1>5. Taken' = Taken /\ Clients' = Clients /\ \A t \in Socket : Known(t)' <=> Known(t)
  BY <1>0, <1>3 DEF Taken, Clients, Known
<1>6. Counted' /\ StaysInTable'
  BY <1>0, <1>5 DEF Inv, Promised, Counted, StaysInTable, Small
<1>7. OneLink'
  BY <1>0, <1>3 DEF OneLink, Kind
<1>8. DataIsReadAsSent'
  <2>1. ASSUME NEW i \in Index, slotId[i] \in Socket \ slotLeft
        PROVE  /\ conn'[slotId[i]] = slotType[i]
               /\ \A j \in Index : slotId[j] = slotId[i] => i = j
    <3>1. conn[slotId[i]] = slotType[i]
      BY <2>1 DEF Inv, Promised, DataIsReadAsSent
    <3>2. conn[slotId[i]] \in Kind
      BY <1>1, <2>1, <3>1 DEF TableTypes, Kind
    <3> QED
      BY <1>3, <2>1, <3>1, <3>2 DEF Inv, Promised, DataIsReadAsSent
  <2> QED
    BY <1>0, <1>3, <2>1 DEF DataIsReadAsSent
<1>9. RoomForClients'
  BY <1>0, <1>3, <1>5 DEF Inv, Promised, RoomForClients, Small
<1>10. OutputReachesItsClient'
  <2>1. /\ remote <=> remDbg # None
        /\ remDbg \in Socket \ outputLeft => conn[remDbg] = "DBG" /\ conn[remDbg] \in Kind
        /\ remTh \in Socket \ outputLeft => conn[remTh] = "THROUGH" /\ conn[remTh] \in Kind
    BY DEF Inv, Promised, OutputReachesItsClient, Kind
  <2> QED
    BY <1>0, <1>3, <2>1 DEF OutputReachesItsClient
<1> QED
  BY <1>4, <1>6, <1>7, <1>8, <1>9, <1>10 DEF Promised

\* The link closes what it has, if it has an identifier, and forgets it or not.
LEMMA EstEndsKeeps ==
    ASSUME Inv, CloseEst, estId' \in {estId, None},
           UNCHANGED <<table, outputs, wild, left, trouble>>
    PROVE  Promised'
<1> USE ClientAssumption
<1>0. UNCHANGED <<slotId, slotType, remote, remDbg, remTh, wild, slotLeft, outputLeft, faults, seen>>
  BY DEF table, outputs, left, trouble
<1>1. CASE estId = None
  <2>1. UNCHANGED <<conn, lost, estId>>
    BY <1>1 DEF CloseEst
  <2> QED
    BY <1>0, <2>1, TableStays
<1>2. CASE estId # None
  <2>1. estId \in Socket /\ Gone(estId) /\ LosesSlot(estId)
    BY <1>2 DEF CloseEst, Inv, Promised, TableTypes
  <2> QED
    BY <1>0, <2>1, LinkClosesKeeps
<1> QED
  BY <1>1, <1>2

\* A read fails: the slot is freed, and the outputs may point at nobody.
LEMMA ReadFailsKeeps ==
    ASSUME Inv, ReadFails
    PROVE  Promised'
<1> USE ClientAssumption
<1>0. /\ UNCHANGED <<estId, remote, remDbg, remTh, wild, lost, slotLeft>>
      /\ faults' \in 0..MaxFaults /\ seen' = seen \cup {"read"} /\ seen' \subseteq FaultKinds
  BY DEF ReadFails, Fails, Inv, Promised, TableTypes, FaultKinds, outputs
<1>1. PICK s \in Socket : InTable(s) /\ Gone(s) /\ Uninit(Find(s)) /\ outputLeft' = outputLeft \cup {s}
  BY DEF ReadFails
<1>2. TableTypes /\ Known(s)
  BY <1>1 DEF Inv, Promised, InTable
<1>3. seen \subseteq seen'
  BY <1>0
<1>4. /\ conn' \in [Socket -> Kind \cup {"EST", Free}]
      /\ slotId' \in [Index -> Socket \cup {Free, Failed}]
      /\ slotType' \in [Index -> Kind \cup {"NONE"}]
      /\ Counted' /\ OneLink' /\ DataIsReadAsSent' /\ RoomForClients'
  BY <1>0, <1>1, <1>2, <1>3, FreeingKeeps
<1>5. TableTypes'
  BY <1>0, <1>1, <1>2, <1>4 DEF TableTypes
<1>6. StaysInTable'
  BY <1>0 DEF Inv, Promised, StaysInTable, Small
<1>7. OutputReachesItsClient'
  BY <1>0, <1>1, <1>2 DEF Inv, Promised, OutputReachesItsClient, Gone, TableTypes
<1> QED
  BY <1>4, <1>5, <1>6, <1>7 DEF Promised

\* A send fails: client_uninit may free any slot, or none, or memory behind the
\* table; the socket's own slot may stay.
LEMMA ReadWebFailsKeeps ==
    ASSUME Inv, ReadWebFails
    PROVE  Promised'
<1> USE ClientAssumption
<1>0. /\ UNCHANGED <<estId, remote, remDbg, remTh, lost>>
      /\ faults' \in 0..MaxFaults /\ seen' = seen \cup {"send"} /\ seen' \subseteq FaultKinds
  BY DEF ReadWebFails, Fails, Inv, Promised, TableTypes, FaultKinds, outputs
<1>1. PICK s \in Socket : /\ Gone(s)
                          /\ slotLeft' = slotLeft \cup {s} /\ outputLeft' = outputLeft \cup {s}
  BY DEF ReadWebFails
<1>2. PICK i \in 0..Slots : UninitAt(i)
  BY DEF ReadWebFails
<1>3. TableTypes
  BY DEF Inv, Promised
<1>4. /\ conn' \in [Socket -> Kind \cup {"EST", Free}] /\ conn'[s] = Free
      /\ \A t \in Socket : t # s => conn'[t] = conn[t]
  BY <1>1, <1>3 DEF Gone, TableTypes
<1>5. /\ slotId' \in [Index -> Socket \cup {Free, Failed}]
      /\ slotType' \in [Index -> Kind \cup {"NONE"}]
      /\ \A j \in Index : slotId'[j] \in Socket => slotId'[j] = slotId[j] /\ slotType'[j] = slotType[j]
  BY <1>2, <1>3 DEF UninitAt, Uninit, TableTypes, table
<1>6. wild' \in BOOLEAN
  BY <1>2, <1>3 DEF UninitAt, TableTypes
<1>7. TableTypes'
  BY <1>0, <1>1, <1>3, <1>4, <1>5, <1>6 DEF TableTypes
<1>8. OneLink'
  BY <1>0, <1>1, <1>4 DEF Inv, Promised, OneLink, Kind
<1>9. DataIsReadAsSent'
  BY <1>0, <1>1, <1>4, <1>5 DEF Inv, Promised, DataIsReadAsSent
<1>10. OutputReachesItsClient'
  BY <1>0, <1>1, <1>4 DEF Inv, Promised, OutputReachesItsClient
<1>11. Counted' /\ StaysInTable' /\ RoomForClients'
  BY <1>0 DEF Counted, StaysInTable, RoomForClients
<1> QED
  BY <1>7, <1>8, <1>9, <1>10, <1>11 DEF Promised

\* An empty table, at the first boot and after a reset
Empty ==
    /\ conn = [s \in Socket |-> Free] /\ estId = None
    /\ slotId = [i \in Index |-> Free] /\ slotType = [i \in Index |-> "NONE"]
    /\ remote = FALSE /\ remDbg = None /\ remTh = None
    /\ wild = FALSE /\ lost = 0 /\ slotLeft = {} /\ outputLeft = {}
    /\ faults = 0 /\ seen = {}

LEMMA EmptyTable == Empty => Promised
<1> USE ClientAssumption
<1> SUFFICES ASSUME Empty PROVE Promised
  OBVIOUS
<1>1. Taken = {}
  BY DEF Taken, Empty
<1>2. Cardinality(Taken) = 0
  BY <1>1, FS_EmptySet
<1>3. TableTypes
  <2>1. remote \in BOOLEAN /\ wild \in BOOLEAN
    BY DEF Empty
  <2>2. /\ conn \in [Socket -> Kind \cup {"EST", Free}] /\ estId \in Socket \cup {None}
        /\ slotId \in [Index -> Socket \cup {Free, Failed}]
        /\ slotType \in [Index -> Kind \cup {"NONE"}]
    BY DEF Empty
  <2>3. /\ remDbg \in Socket \cup {Failed, None} /\ remTh \in Socket \cup {Failed, None}
        /\ lost \in Nat /\ slotLeft \subseteq Socket /\ outputLeft \subseteq Socket
        /\ faults \in 0..MaxFaults /\ seen \subseteq FaultKinds
    BY DEF Empty
  <2> QED
    BY <2>1, <2>2, <2>3 DEF TableTypes
<1>4. Counted
  BY <1>2, Finite DEF Counted, Empty
<1>5. OneLink /\ StaysInTable /\ DataIsReadAsSent
  BY DEF OneLink, StaysInTable, DataIsReadAsSent, Empty, Kind
<1>6. RoomForClients
  BY DEF RoomForClients, Kind, Empty
<1>7. OutputReachesItsClient
  <2>1. ~ remote /\ remDbg = None /\ remTh = None
    BY DEF Empty
  <2> QED
    BY <2>1 DEF OutputReachesItsClient
<1> QED
  BY <1>3, <1>4, <1>5, <1>6, <1>7 DEF Promised

LEMMA StepKeeps == Inv /\ [Next]_vars => Inv'
<1> SUFFICES ASSUME Inv, [Next]_vars PROVE Inv'
  OBVIOUS
<1>0. ConsoleInv /\ (ConsoleInv' /\ Promised' => Inv')
  BY DEF Inv
<1>1. CASE Accept
  BY <1>0, <1>1, AcceptKeeps, ConsoleStays DEF Accept
<1>2. CASE AcceptFails
  BY <1>0, <1>2, AcceptFailsKeeps, ConsoleStays DEF AcceptFails
<1>3. CASE PeerCloses
  BY <1>0, <1>3, PeerClosesKeeps, ConsoleStays DEF PeerCloses
<1>4. CASE EstConnects
  BY <1>0, <1>4, EstConnectsKeeps, ConsoleStays DEF EstConnects
<1>11. CASE EstRefused \/ EstStops
  <2>1. /\ UNCHANGED console /\ CloseEst /\ estId' \in {estId, None}
        /\ UNCHANGED <<table, outputs, wild, left, trouble>>
    BY <1>11 DEF EstRefused, EstStops
  <2> QED
    BY <1>0, <2>1, EstEndsKeeps, ConsoleStays
<1>5. CASE ReadFails
  BY <1>0, <1>5, ReadFailsKeeps, ConsoleStays DEF ReadFails
<1>6. CASE ReadDbg \/ UartReads
  <2>1. ConsoleReads /\ UNCHANGED <<conn, estId, table, outputs, history>>
    BY <1>6 DEF ReadDbg, UartReads
  <2> QED
    BY <1>0, <2>1, ConsoleSteps, TableStays DEF table, outputs, history, left, trouble
<1>7. CASE ReadWeb
  <2>1. PageResponse /\ UNCHANGED <<conn, estId, table, outputs, history>>
    BY <1>7 DEF ReadWeb
  <2> QED
    BY <1>0, <2>1, WebFormKeeps, ConsoleStays, TableStays
    DEF PageResponse, table, outputs, history, left, trouble
<1>8. CASE ReadWebFails
  <2>1. PageResponse
    BY <1>8 DEF ReadWebFails
  <2> QED
    BY <1>0, <1>8, <2>1, WebFormKeeps, ConsoleStays, ReadWebFailsKeeps DEF PageResponse
<1>9. CASE Reset
  <2>1. ConsoleInv'
    BY <1>0, <1>9, ConsoleReboots DEF Reset
  <2>2. Empty'
    BY <1>9 DEF Reset, Empty
  <2>3. Promised'
    BY <2>2, EmptyTable, PTL
  <2> QED
    BY <1>0, <2>1, <2>3
<1>10. CASE UNCHANGED vars
  BY <1>0, <1>10, ConsoleStays, TableStays DEF vars, table, outputs, history, left, trouble
<1> QED
  BY <1>1, <1>2, <1>3, <1>4, <1>5, <1>6, <1>7, <1>8, <1>9, <1>10, <1>11 DEF Next

LEMMA InitKeeps == Init => Inv
<1>1. Init => ConsoleInit /\ Empty
  BY DEF Init, Empty
<1> QED
  BY <1>1, ConsoleStarts, EmptyTable DEF Inv

(***************************************************************************)
(* What Inv gives                                                          *)
(***************************************************************************)
\* client_uninit leaves the table only by an index that was never set, for a
\* client that found no room, or for a socket of the EST link.
THEOREM ClientTypeCorrect == Spec => []TypeOK
<1>1. Inv => TypeOK
  BY DEF Inv, Promised, TableTypes, StaysInTable, ConsoleInv, TypeOK
<1> QED
  BY InitKeeps, StepKeeps, <1>1, PTL DEF Spec

\* A question is open only while the menu is, whoever types or sends a web form.
THEOREM ConsoleAsksInTurn == Spec => []QuestionsNeedMenu
<1>1. Inv => QuestionsNeedMenu
  BY DEF Inv, ConsoleInv
<1> QED
  BY InitKeeps, StepKeeps, <1>1, PTL DEF Spec

\* What answers a question was typed after it was asked, whoever types: nothing
\* typed before it is taken for an answer.
THEOREM AnswersWereAskedFor == Spec => []AnswersFollowQuestion
<1>1. Inv => AnswersFollowQuestion
  BY DEF Inv, ConsoleInv
<1> QED
  BY InitKeeps, StepKeeps, <1>1, PTL DEF Spec

\* However identifiers are used again, data is read as what it was sent for, but for
\* identifiers that were given out while stale or whose client ended with a failed send.
THEOREM ReadAsSent == Spec => []DataIsReadAsSent
<1>1. Inv => DataIsReadAsSent
  BY DEF Inv, Promised
<1> QED
  BY InitKeeps, StepKeeps, <1>1, PTL DEF Spec

\* The table has room for every client, if it has a slot for each socket, for each
\* accept that failed and for each client that ended under a stale identifier.
THEOREM RoomForEveryClient == Spec => []RoomForClients
<1>1. Inv => RoomForClients
  BY DEF Inv, Promised
<1> QED
  BY InitKeeps, StepKeeps, <1>1, PTL DEF Spec

\* Output goes to a client of its kind, or nowhere, but for identifiers that were given
\* out while stale or whose client ended with a failed read or send.
THEOREM OutputFindsItsClient == Spec => []OutputReachesItsClient
<1>1. Inv => OutputReachesItsClient
  BY DEF Inv, Promised
<1> QED
  BY InitKeeps, StepKeeps, <1>1, PTL DEF Spec
=============================================================================
