----------------------------- MODULE ClientsMC ------------------------------
(* ClientTable with interchangeable identifiers of sockets.  What is typed  *)
(* and the table hardly meet, so a behaviour exercises one of them: texts   *)
(* of the UART and one client at a time, or all else on a quiet console.    *)
EXTENDS ClientTable, TLC

VARIABLE typing

Sockets == Permutations(Socket)

OneClient == estId = None /\ Cardinality({s \in Socket : conn[s] # Free}) <= 1

MCInit == Init /\ typing \in BOOLEAN /\ (typing \/ log)

MCNext ==
    /\ Next
    /\ IF typing THEN OneClient' /\ seen' = {} ELSE UNCHANGED console
    /\ UNCHANGED typing

MCSpec == MCInit /\ [][MCNext]_<<vars, typing>>
=============================================================================
