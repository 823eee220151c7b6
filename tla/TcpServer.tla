----------------------------- MODULE TcpServer ------------------------------
(***************************************************************************)
(* The TCP shutter (tcp_server.c:68-124) and clients like tcp_send.py,     *)
(* which connect, send a message, wait for the reply and close.  The       *)
(* server talks to one client at a time until that client hangs up; one    *)
(* more may be connected and wait in the listen backlog.                   *)
(***************************************************************************)
EXTENDS Triggers, FiniteSets

CONSTANTS
    Clients,    \* hosts that may connect
    Nobody,     \* no connection
    Resets      \* a client may die while connected

ASSUME ClientsAssumption ==
    /\ IsFiniteSet(Clients)
    /\ Nobody \notin Clients
    /\ Resets \in BOOLEAN

VARIABLES
    client,    \* what each client is doing
    conn,      \* the client of the accepted socket
    tcpPc      \* "accept", "recv" or "reply"

tcpVars == <<client, conn, tcpPc>>

ClientStates == {"away", "connected", "asked", "heard", "answered", "closed"}

Backlog == 1

TcpBoot ==
    /\ client = [c \in Clients |-> "away"]
    /\ conn = Nobody
    /\ tcpPc = "accept"

TcpTypeOK ==
    /\ client \in [Clients -> ClientStates]
    /\ conn \in Clients \cup {Nobody}
    /\ tcpPc \in {"accept", "recv", "reply"}

-----------------------------------------------------------------------------
(* tcp_send.py                                                             *)

Waiting == {c \in Clients : client[c] # "away" /\ c # conn}

ClientConnects(c) ==
    /\ shutter = "tcp"
    /\ client[c] = "away"
    /\ c # conn
    /\ Cardinality(Waiting) < Backlog
    /\ client' = [client EXCEPT ![c] = "connected"]
    /\ UNCHANGED <<triggerVars, conn, tcpPc>>

ClientSends(c) ==
    /\ client[c] = "connected"
    /\ client' = [client EXCEPT ![c] = "asked"]
    /\ Ask
    /\ UNCHANGED <<shutter, cmdQ, conn, tcpPc>>

ClientCloses(c) ==
    /\ client[c] = "answered"
    /\ client' = [client EXCEPT ![c] = "closed"]
    /\ UNCHANGED <<triggerVars, conn, tcpPc>>

\* The connection is reset: what the server does not know yet is lost.
ClientDies(c) ==
    /\ Resets
    /\ client[c] \in {"connected", "asked", "heard", "answered"}
    /\ client' = [client EXCEPT ![c] = "closed"]
    /\ asked' = IF client[c] = "asked" THEN asked - 1 ELSE asked
    /\ UNCHANGED <<shutter, cmdQ, conn, tcpPc>>

ClientStep == \E c \in Clients :
    ClientConnects(c) \/ ClientSends(c) \/ ClientCloses(c) \/ ClientDies(c)

-----------------------------------------------------------------------------
(* tcp_server                                                              *)

Accept ==
    /\ tcpPc = "accept"
    /\ \E c \in Waiting : conn' = c
    /\ tcpPc' = "recv"
    /\ UNCHANGED <<triggerVars, client>>

Recv ==
    /\ tcpPc = "recv"
    /\ client[conn] = "asked"
    /\ client' = [client EXCEPT ![conn] = "heard"]
    /\ tcpPc' = "reply"
    /\ UNCHANGED <<triggerVars, conn>>

\* recv returns 0 or an error: close the socket, accept the next.
RecvClosed ==
    /\ tcpPc = "recv"
    /\ client[conn] = "closed"
    /\ client' = [client EXCEPT ![conn] = "away"]
    /\ conn' = Nobody
    /\ tcpPc' = "accept"
    /\ UNCHANGED triggerVars

\* Mutant: a refused trigger is not answered.
RepliesIfQueued == QueueHasRoom(cmdQ, CmdQueueLen)

\* "OK" or "FAIL"
Replies == TRUE

\* A send that fails closes the socket, as the receive after it would.
Reply ==
    /\ tcpPc = "reply"
    /\ SendCommand
    /\ client' = [client EXCEPT ![conn] =
                    IF client[conn] = "heard" /\ Replies THEN "answered" ELSE @]
    /\ tcpPc' = "recv"
    /\ UNCHANGED <<shutter, conn>>

TcpTask == Accept \/ Recv \/ RecvClosed \/ Reply
=============================================================================
