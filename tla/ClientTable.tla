---------------------------- MODULE ClientTable -----------------------------
(***************************************************************************)
(* The clients of the device: sockets accepted on its ports for the        *)
(* board's serial line (THROUGH), the web page (WEB), the console (DBG)    *)
(* and updates (UPGRADE).                                                  *)
(*                                                                         *)
(* m_client maps the identifier of a socket to what its data means; the    *)
(* output of the board and of the console goes to the last client of its   *)
(* kind, remembered apart from the table.  Identifiers are used again.     *)
(*                                                                         *)
(* Both socket callbacks ask first if the socket is __socket_est_id.  That *)
(* identifier outlives its socket: whoever gets it next is taken for the   *)
(* EST link.                                                               *)
(*                                                                         *)
(* Ql_SOC_Close is taken to end a socket without a callback, as in         *)
(* EstLink: the close callback reports what the peer or the network did.   *)
(***************************************************************************)
EXTENDS Console, FiniteSets

CONSTANTS
    Socket,     \* identifiers the modem core gives out
    Slots,      \* MAX_CLIENT_COUNT
    Free,       \* 0x7F: no socket
    Failed,     \* a negative result of Ql_SOC_Accept
    None,       \* -1
    Faults,     \* subset of FaultKinds
    MaxFaults   \* bound

Kind == {"THROUGH", "WEB", "DBG", "UPGRADE"}

\* Accepting, reading or sending fails; a socket of the EST link is left
\* behind (EstLink has its ways); a client gets the identifier of a closed one.
FaultKinds == {"accept", "read", "send", "orphan", "stale"}

ASSUME ClientAssumption ==
    /\ Slots \in Nat \ {0} /\ MaxFaults \in Nat /\ Faults \subseteq FaultKinds
    /\ IsFiniteSet(Socket)
    /\ Free # Failed /\ Free # None /\ Failed # None
    /\ {Free, Failed, None} \cap Socket = {}
    /\ Free \notin Kind \cup {"EST", "NONE"}

VARIABLES
    conn,      \* the modem core: the port a socket was accepted on, or EST
    estId,     \* __socket_est_id
    slotId,    \* m_client[i].socketId
    slotType,  \* m_client[i].en_sock_type
    remote,    \* __remote_dbg
    remDbg,    \* __rem_socket_dbg_id
    remTh,     \* __rem_socket_th_id
    wild,      \* history: client_uninit wrote outside the table
    lost,      \* history: slots taken without a client, or that outlive theirs
    slotLeft,  \* history: identifiers whose slot may outlive their client
    outputLeft, \* history: those that may stay in remDbg or remTh without it
    faults, seen  \* number and kinds of the faults that happened

table   == <<slotId, slotType>>
outputs == <<remote, remDbg, remTh>>
left    == <<slotLeft, outputLeft>>
trouble == <<faults, seen>>
history == <<wild, lost, left, trouble>>
vars    == <<console, conn, estId, table, outputs, history>>

Index == 1..Slots
Fails(kind) ==
    /\ kind \in Faults /\ faults < MaxFaults
    /\ faults' = faults + 1 /\ seen' = seen \cup {kind}
-----------------------------------------------------------------------------
(* tcp_clients.c                                                           *)

\* find_client_by_sockid: the first slot with this identifier, or none
IsFirst(i, id) == slotId[i] = id /\ \A j \in 1..(i - 1) : slotId[j] # id
Known(id) == \E i \in Index : slotId[i] = id
Find(id)  == CHOOSE i \in Index : IsFirst(i, id)

\* Mutant: the last slot is never used.
InsertButLast(id, kind) ==
    IF Known(Free) /\ Find(Free) < Slots
    THEN /\ slotId' = [slotId EXCEPT ![Find(Free)] = id]
         /\ slotType' = [slotType EXCEPT ![Find(Free)] = kind]
    ELSE UNCHANGED table

\* insert_socket: the first free slot, if there is one
Insert(id, kind) ==
    IF Known(Free)
    THEN /\ slotId' = [slotId EXCEPT ![Find(Free)] = id]
         /\ slotType' = [slotType EXCEPT ![Find(Free)] = kind]
    ELSE UNCHANGED table

Uninit(i) ==
    /\ slotId' = [slotId EXCEPT ![i] = Free]
    /\ slotType' = [slotType EXCEPT ![i] = "NONE"]

\* client_uninit with whatever index holds: a slot, or memory outside the table
UninitAt(i) ==
    IF i \in Index THEN Uninit(i) /\ UNCHANGED wild ELSE wild' = TRUE /\ UNCHANGED table

\* client_socket_id_init
Init ==
    /\ ConsoleInit
    /\ conn = [s \in Socket |-> Free] /\ estId = None
    /\ slotId = [i \in Index |-> Free] /\ slotType = [i \in Index |-> "NONE"]
    /\ remote = FALSE /\ remDbg = None /\ remTh = None
    /\ wild = FALSE /\ lost = 0 /\ slotLeft = {} /\ outputLeft = {}
    /\ faults = 0 /\ seen = {}
-----------------------------------------------------------------------------
(* socket_th.c                                                             *)

\* What socket_th_accept does with the result of Ql_SOC_Accept
Accepted(id, kind) ==
    /\ Insert(id, kind)
    /\ IF kind = "DBG" THEN remote' = TRUE /\ remDbg' = id ELSE UNCHANGED <<remote, remDbg>>
    /\ remTh' = IF kind = "THROUGH" THEN id ELSE remTh

Accept ==
    \E s \in Socket, kind \in Kind :
        /\ conn[s] = Free
        /\ conn' = [conn EXCEPT ![s] = kind]
        /\ Accepted(s, kind)
        /\ IF s = estId
           THEN /\ Fails("stale")
                /\ slotLeft' = slotLeft \cup {s} /\ outputLeft' = outputLeft \cup {s}
           ELSE UNCHANGED <<left, trouble>>
        /\ UNCHANGED <<console, estId, wild, lost>>

\* The error is not looked at: it is stored like a socket.
AcceptFails ==
    \E kind \in Kind :
        /\ Fails("accept") /\ lost' = lost + 1
        /\ Accepted(Failed, kind)
        /\ UNCHANGED <<console, conn, estId, wild, left>>

Gone(s) == conn' = [conn EXCEPT ![s] = Free]

\* The slot of a client that ends without the table being told
LosesSlot(s) == lost' = IF conn[s] \in Kind /\ Known(s) THEN lost + 1 ELSE lost

\* Mutant: the console's client becomes 0x7F, as in the table.
ForgetsAsFree(s) ==
    IF s = remDbg THEN remote' = FALSE /\ remDbg' = Free /\ UNCHANGED remTh
    ELSE remTh' = (IF s = remTh THEN None ELSE remTh) /\ UNCHANGED <<remote, remDbg>>

\* Mutant: only the console's client is forgotten.
ForgetsDbgOnly(s) ==
    IF s = remDbg THEN remote' = FALSE /\ remDbg' = None /\ UNCHANGED remTh
    ELSE UNCHANGED outputs

Forgets(s) ==
    IF s = remDbg THEN remote' = FALSE /\ remDbg' = None /\ UNCHANGED remTh
    ELSE remTh' = (IF s = remTh THEN None ELSE remTh) /\ UNCHANGED <<remote, remDbg>>

\* socket_th_close.  For __socket_est_id, whoever has it now, it only runs the
\* timers of the EST link; else the socket is a client's, or an orphan of that link.
PeerCloses ==
    \E s \in Socket :
        /\ conn[s] # Free /\ Gone(s)
        /\ IF s = estId
           THEN LosesSlot(s) /\ UNCHANGED <<table, outputs, wild>>
           ELSE /\ Forgets(s)
                /\ UninitAt(IF Known(s) THEN Find(s) ELSE 0)
                /\ UNCHANGED lost
        /\ UNCHANGED <<console, estId, left, trouble>>
-----------------------------------------------------------------------------
(* What the EST link does to the sockets, at any time.                     *)

\* Ql_SOC_Close(__socket_est_id): whoever has that identifier now
CloseEst ==
    IF estId = None THEN UNCHANGED <<conn, lost>> ELSE Gone(estId) /\ LosesSlot(estId)

\* est_socket_connect: a new socket, or none.  One that was open is left behind.
EstConnects ==
    /\ IF estId # None /\ conn[estId] = "EST" THEN Fails("orphan") ELSE UNCHANGED trouble
    /\ \/ \E s \in Socket :
            conn[s] = Free /\ conn' = [conn EXCEPT ![s] = "EST"] /\ estId' = s
       \/ estId' = None /\ UNCHANGED conn
    /\ UNCHANGED <<console, table, outputs, wild, lost, left>>

\* socket_th_connect with an error, for that socket or one left behind
EstRefused ==
    /\ \E s \in Socket : conn[s] = "EST"
    /\ CloseEst /\ estId' = None
    /\ UNCHANGED <<console, table, outputs, wild, left, trouble>>

\* STATE_EST_STOP, and the web page's stop: the identifier is kept.
EstStops ==
    /\ estId # None
    /\ CloseEst
    /\ UNCHANGED <<console, estId, table, outputs, wild, left, trouble>>
-----------------------------------------------------------------------------
\* socket_th_read looks in the table, unless the socket is __socket_est_id: what a
\* client sends under that identifier is unstuffed as packets of the EST server.
InTable(s) == s # estId /\ conn[s] \in Kind /\ Known(s)

Reads(s, kind) == InTable(s) /\ slotType[Find(s)] = kind

\* Mutant: the socket is closed and its slot kept.
ReadFailsKeepsSlot ==
    /\ Fails("read")
    /\ \E s \in Socket : InTable(s) /\ Gone(s) /\ outputLeft' = outputLeft \cup {s}
    /\ UNCHANGED <<console, estId, table, outputs, wild, lost, slotLeft>>

\* func_read_handle_callback closes the socket on an error, and frees its slot.
\* __rem_socket_dbg_id and __rem_socket_th_id are left as they are.
ReadFails ==
    /\ Fails("read")
    /\ \E s \in Socket :
         /\ InTable(s) /\ Gone(s)
         /\ Uninit(Find(s))
         /\ outputLeft' = outputLeft \cup {s}
    /\ UNCHANGED <<console, estId, outputs, wild, lost, slotLeft>>

ReadDbg ==
    /\ \E s \in Socket : Reads(s, "DBG")
    /\ ConsoleReads
    /\ UNCHANGED <<conn, estId, table, outputs, history>>

\* parse_header and page_response, but for what they do to other components, and
\* reboot: a GET is answered, a POST or half a request is not.
PageResponse == WebForm \/ UNCHANGED console

\* func_send_handle: all is sent, in parts if need be, or the stack takes no more:
\* then the rest waits for socket_th_write, which does nothing.
ReadWeb ==
    /\ \E s \in Socket : Reads(s, "WEB")
    /\ PageResponse
    /\ UNCHANGED <<conn, estId, table, outputs, history>>

\* The socket is closed, and client_uninit gets an index that was never set.
ReadWebFails ==
    /\ Fails("send")
    /\ \E s \in Socket :
         /\ Reads(s, "WEB") /\ Gone(s)
         /\ slotLeft' = slotLeft \cup {s} /\ outputLeft' = outputLeft \cup {s}
    /\ PageResponse
    /\ \E i \in 0..Slots : UninitAt(i)
    /\ UNCHANGED <<estId, outputs, lost>>

\* callback_debug_port
UartReads == ConsoleReads /\ UNCHANGED <<conn, estId, table, outputs, history>>

\* Ql_Reset: the sockets are gone, and everything in RAM.
Reset ==
    /\ ConsoleBoots
    /\ conn' = [s \in Socket |-> Free] /\ estId' = None
    /\ slotId' = [i \in Index |-> Free] /\ slotType' = [i \in Index |-> "NONE"]
    /\ remote' = FALSE /\ remDbg' = None /\ remTh' = None /\ wild' = FALSE
    /\ lost' = 0 /\ slotLeft' = {} /\ outputLeft' = {} /\ faults' = 0 /\ seen' = {}
-----------------------------------------------------------------------------
Next ==
    \/ Accept \/ AcceptFails \/ PeerCloses \/ EstConnects \/ EstRefused \/ EstStops
    \/ ReadFails \/ ReadDbg \/ ReadWeb \/ ReadWebFails \/ UartReads \/ Reset

Spec == Init /\ [][Next]_vars
-----------------------------------------------------------------------------
\* There are not enough slots for what may take them.
Small == Cardinality(Socket) + lost > Slots

\* Types, and: client_uninit stays in the table unless an index was never set, a
\* client found no room, or a socket of the EST link was left behind.
TypeOK ==
    /\ ConsoleTypeOK
    /\ conn \in [Socket -> Kind \cup {"EST", Free}] /\ estId \in Socket \cup {None}
    /\ slotId \in [Index -> Socket \cup {Free, Failed}]
    /\ slotType \in [Index -> Kind \cup {"NONE"}]
    /\ remote \in BOOLEAN
    /\ remDbg \in Socket \cup {Failed, None} /\ remTh \in Socket \cup {Failed, None}
    /\ wild \in BOOLEAN /\ lost \in Nat
    /\ slotLeft \subseteq Socket /\ outputLeft \subseteq Socket
    /\ faults \in 0..MaxFaults /\ seen \subseteq FaultKinds
    /\ wild => "send" \in seen \/ "orphan" \in seen \/ Small

\* Data is read as what its client sent it for: a slot in use belongs to an open
\* socket of its kind and to no other slot's, and no client is taken for the EST
\* server.  This leaves out the identifiers that, since the last boot, a client was
\* given while __socket_est_id still held them, or whose client ended with a failed
\* send: what their slots say may be of an earlier client.
DataIsReadAsSent ==
    /\ \A i \in Index : slotId[i] \in Socket \ slotLeft =>
          /\ conn[slotId[i]] = slotType[i]
          /\ \A j \in Index : slotId[j] = slotId[i] => i = j
    /\ \A s \in Socket \ slotLeft : s = estId => conn[s] \in {"EST", Free}

\* A client finds no room (its data is never read, and it is not told) only if
\* the table is smaller than the sockets there can be and the slots that were lost:
\* one for each accept that failed and each client that ended under the identifier
\* in __socket_est_id.  A failed send may free any client's slot.
RoomForClients ==
    (\E s \in Socket : conn[s] \in Kind /\ ~Known(s)) => "send" \in seen \/ Small

\* Output of the board and of the console goes to a client that asked for it, or
\* nowhere.  This leaves out the identifiers that, since the last boot, a client was
\* given while __socket_est_id still held them, or whose client ended with a failed
\* read or send: nothing then clears __rem_socket_dbg_id and __rem_socket_th_id.
OutputReachesItsClient ==
    /\ remote <=> remDbg # None
    /\ remDbg \in Socket \ outputLeft => conn[remDbg] = "DBG"
    /\ remTh \in Socket \ outputLeft => conn[remTh] = "THROUGH"
=============================================================================
