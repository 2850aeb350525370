------------------------------- MODULE CopyPair -------------------------------
(***************************************************************************)
(* src/Code/Ch10-networking: the clients and servers that copy lines from  *)
(* standard input to standard output, over TCP (TCPclient.c, TCPserver.c)  *)
(* and over UDP (UDPclient.c, UDPserver.c).  transport says which pair.    *)
(*                                                                         *)
(* A unit is a part of a line over TCP, whose boundaries the receiver does *)
(* not see, and a line, which is a datagram, over UDP.  The units of a     *)
(* client are numbered as it sends them; what is on its way is a set, as   *)
(* the numbers tell the order.                                             *)
(***************************************************************************)
EXTENDS Integers, FiniteSets

CONSTANTS
  Clients, NoClient,
  NLINES,   \* the lines of each client's input
  LineLen,  \* the units of a line over TCP
  BufSz,    \* the units that fit into the TCP server's buffer
  Window,   \* the units that TCP takes from a client the server does not read
  Backlog,  \* the connections that wait to be accepted
  Scenarios \* the transports, with the faults to expect: [transport, faults]

ASSUME PairAssumption ==
  /\ NoClient \notin Clients
  /\ {NLINES, LineLen, BufSz, Window, Backlog} \subseteq Nat \ {0}
  /\ \A s \in Scenarios : s.transport \in {"tcp", "udp"}

VARIABLES
  transport, faults, \* the scenario
  cpc,               \* cpc[c]: where the client's main is
  goal,              \* goal[c]: the unit at which its current line ends
  sent,              \* sent[c]: the units it has handed to its socket
  conn,              \* conn[c]: its TCP connection
  net,               \* net[c]: its units that the server has not received
  spc,               \* where the server's main is
  peer,              \* whose units are in buf; over TCP the client on cfd
  buf,               \* what recv or recvfrom has stored
  printed            \* printed[c]: its units that were passed to fputs

clientVars == <<cpc, goal, sent>>
serverVars == <<spc, peer, buf, printed>>
vars == <<transport, faults, clientVars, conn, net, serverVars>>

LineUnits == IF transport = "tcp" THEN LineLen ELSE 1

TypeOK ==
  /\ transport \in {"tcp", "udp"}
  /\ cpc \in [Clients -> {"socket", "connect", "read", "send", "closed", "failed"}]
  /\ goal \in [Clients -> Nat]
  /\ sent \in [Clients -> Nat]
  /\ conn \in [Clients -> {"none", "pending", "accepted", "shut", "reset"}]
  /\ net \in [Clients -> SUBSET Nat]
  /\ spc \in {"setup", "accept", "recv", "print", "closed", "failed", "wild"}
  /\ peer \in Clients \cup {NoClient}
  /\ buf \in SUBSET Nat
  /\ printed \in [Clients -> SUBSET Nat]

Init ==
  /\ \E s \in Scenarios : transport = s.transport /\ faults = s.faults
  /\ cpc = [c \in Clients |-> "socket"]
  /\ goal = [c \in Clients |-> 0]
  /\ sent = [c \in Clients |-> 0]
  /\ conn = [c \in Clients |-> "none"]
  /\ net = [c \in Clients |-> {}]
  /\ spc = "setup" /\ peer = NoClient /\ buf = {}
  /\ printed = [c \in Clients |-> {}]

(***************************************************************************)
(* The socket layer.                                                       *)
(***************************************************************************)
\* sfd is open; TCP takes connections before and while one is served.
Bound == spc \notin {"setup", "closed", "failed"}

Pending == {c \in Clients : conn[c] = "pending"}

\* The server's process is gone or has closed its sockets: what it has not read
\* is dropped, and connections with unread units or that it has not accepted
\* are reset.
CloseAll ==
  /\ conn' = [c \in Clients |-> IF conn[c] = "accepted" /\ net[c] = {} THEN "shut"
                               ELSE IF conn[c] = "none" THEN "none" ELSE "reset"]
  /\ net' = [c \in Clients |-> {}]

\* A datagram is lost.
Lose(c) ==
  /\ transport = "udp" /\ "loss" \in faults
  /\ \E k \in net[c] : net' = [net EXCEPT ![c] = @ \ {k}]
  /\ UNCHANGED <<transport, faults, clientVars, conn, serverVars>>

(***************************************************************************)
(* The client.                                                             *)
(***************************************************************************)
\* socket; over UDP also bind.
OpenSocket(c) ==
  /\ cpc[c] = "socket"
  /\ cpc' = [cpc EXCEPT ![c] = IF transport = "tcp" THEN "connect" ELSE "read"]
  /\ UNCHANGED <<transport, faults, goal, sent, conn, net, serverVars>>

OpenFails(c) ==
  /\ "client" \in faults
  /\ cpc[c] = "socket"
  /\ cpc' = [cpc EXCEPT ![c] = "failed"]
  /\ UNCHANGED <<transport, faults, goal, sent, conn, net, serverVars>>

Connect(c) ==
  /\ cpc[c] = "connect"
  /\ Bound /\ Cardinality(Pending) < Backlog
  /\ conn' = [conn EXCEPT ![c] = "pending"]
  /\ cpc' = [cpc EXCEPT ![c] = "read"]
  /\ UNCHANGED <<transport, faults, goal, sent, net, serverVars>>

\* No server listens, or the backlog stays full until connect gives up.
ConnectFails(c) ==
  /\ cpc[c] = "connect"
  /\ ~(Bound /\ Cardinality(Pending) < Backlog)
  /\ cpc' = [cpc EXCEPT ![c] = "failed"]
  /\ UNCHANGED <<transport, faults, goal, sent, conn, net, serverVars>>

\* fgets reads the next line.
ReadLine(c) ==
  /\ cpc[c] = "read"
  /\ goal[c] < NLINES * LineUnits
  /\ goal' = [goal EXCEPT ![c] = @ + LineUnits]
  /\ cpc' = [cpc EXCEPT ![c] = "send"]
  /\ UNCHANGED <<transport, faults, sent, conn, net, serverVars>>

\* fgets returns NULL: close, and main ends with 0.
EndOfInput(c) ==
  /\ cpc[c] = "read"
  /\ goal[c] = NLINES * LineUnits
  /\ cpc' = [cpc EXCEPT ![c] = "closed"]
  /\ UNCHANGED <<transport, faults, goal, sent, conn, net, serverVars>>

\* Mutant: what is left of a line is sent from its start.
SendRestarts(c) ==
  /\ transport = "tcp" /\ cpc[c] = "send" /\ conn[c] \in {"pending", "accepted"}
  /\ \E n \in sent[c] + 1 .. goal[c] :
       /\ Cardinality(net[c]) + n - sent[c] <= Window
       /\ sent' = [sent EXCEPT ![c] = n]
       /\ net' = [net EXCEPT ![c] = @ \cup (goal[c] - LineUnits + 1 .. n)]
       /\ cpc' = IF n = goal[c] THEN [cpc EXCEPT ![c] = "read"] ELSE cpc
  /\ UNCHANGED <<transport, faults, goal, conn, serverVars>>

\* TCP: send returns when TCP has taken the whole line, piece by piece.
Send(c) ==
  /\ transport = "tcp" /\ cpc[c] = "send" /\ conn[c] \in {"pending", "accepted"}
  /\ \E n \in sent[c] + 1 .. goal[c] :
       /\ Cardinality(net[c]) + n - sent[c] <= Window
       /\ sent' = [sent EXCEPT ![c] = n]
       /\ net' = [net EXCEPT ![c] = @ \cup (sent[c] + 1 .. n)]
       /\ cpc' = IF n = goal[c] THEN [cpc EXCEPT ![c] = "read"] ELSE cpc
  /\ UNCHANGED <<transport, faults, goal, conn, serverVars>>

\* TCP has not yet heard that nobody reads: it takes the line, which is lost,
\* and is answered with a reset.
SendToClosed(c) ==
  /\ cpc[c] = "send" /\ conn[c] = "shut"
  /\ sent' = [sent EXCEPT ![c] = goal[c]]
  /\ conn' = [conn EXCEPT ![c] = "reset"]
  /\ cpc' = [cpc EXCEPT ![c] = "read"]
  /\ UNCHANGED <<transport, faults, goal, net, serverVars>>

\* send fails or returns less than the line: close, and main ends with -1.
SendFails(c) ==
  /\ cpc[c] = "send" /\ conn[c] = "reset"
  /\ cpc' = [cpc EXCEPT ![c] = "failed"]
  /\ UNCHANGED <<transport, faults, goal, sent, conn, net, serverVars>>

\* UDP: sendto, the result of which is not looked at.
SendTo(c) ==
  /\ transport = "udp" /\ cpc[c] = "send"
  /\ sent' = [sent EXCEPT ![c] = goal[c]]
  /\ net' = IF Bound THEN [net EXCEPT ![c] = @ \cup {goal[c]}] ELSE net
  /\ cpc' = [cpc EXCEPT ![c] = "read"]
  /\ UNCHANGED <<transport, faults, goal, conn, serverVars>>

Client(c) ==
  \/ OpenSocket(c) \/ Connect(c) \/ ConnectFails(c)
  \/ ReadLine(c) \/ EndOfInput(c)
  \/ Send(c) \/ SendToClosed(c) \/ SendFails(c) \/ SendTo(c)

(***************************************************************************)
(* The server.                                                             *)
(***************************************************************************)
\* socket, bind; over TCP also setsockopt and listen.
Setup ==
  /\ spc = "setup"
  /\ spc' = IF transport = "tcp" THEN "accept" ELSE "recv"
  /\ UNCHANGED <<transport, faults, clientVars, conn, net, peer, buf, printed>>

SetupFails ==
  /\ "server" \in faults
  /\ spc = "setup"
  /\ spc' = "failed"
  /\ UNCHANGED <<transport, faults, clientVars, conn, net, peer, buf, printed>>

\* accept, once: the connections behind the first one are never accepted.
Accept ==
  /\ spc = "accept"
  /\ \E c \in Pending :
       /\ conn' = [conn EXCEPT ![c] = "accepted"]
       /\ peer' = c
  /\ spc' = "recv"
  /\ UNCHANGED <<transport, faults, clientVars, net, buf, printed>>

AcceptFails ==
  /\ "server" \in faults
  /\ spc = "accept"
  /\ spc' = "failed"
  /\ CloseAll
  /\ UNCHANGED <<transport, faults, clientVars, peer, buf, printed>>

\* TCP: recv returns the next 1 to BufSz units.  If it fills buf, the zero
\* that terminates the text goes behind it, and what happens then is open.
Recv ==
  /\ transport = "tcp" /\ spc = "recv"
  /\ \E last \in net[peer] :
       /\ buf' = {k \in net[peer] : k <= last}
       /\ Cardinality(buf') <= BufSz
  /\ net' = [net EXCEPT ![peer] = @ \ buf']
  /\ \/ spc' = "print"
     \/ Cardinality(buf') = BufSz /\ spc' = "wild"
  /\ UNCHANGED <<transport, faults, clientVars, conn, peer, printed>>

\* Mutant: the loop goes on while recv does not return an error.
RecvEofIgnored ==
  /\ transport = "tcp" /\ spc = "recv"
  /\ net[peer] = {} /\ cpc[peer] \in {"closed", "failed"}
  /\ buf' = {} /\ spc' = "print"
  /\ UNCHANGED <<transport, faults, clientVars, conn, net, peer, printed>>

\* TCP: recv returns 0, as the client has closed: close both, main ends with 0.
RecvEof ==
  /\ transport = "tcp" /\ spc = "recv"
  /\ net[peer] = {} /\ cpc[peer] \in {"closed", "failed"}
  /\ spc' = "closed"
  /\ CloseAll
  /\ UNCHANGED <<transport, faults, clientVars, peer, buf, printed>>

\* TCP: recv returns -1, which is not told from 0.
RecvFails ==
  /\ "recv" \in faults
  /\ transport = "tcp" /\ spc = "recv"
  /\ spc' = "closed"
  /\ CloseAll
  /\ UNCHANGED <<transport, faults, clientVars, peer, buf, printed>>

\* UDP: recvfrom takes a datagram, whoever has sent it.
RecvFrom ==
  /\ transport = "udp" /\ spc = "recv"
  /\ \E c \in Clients : \E k \in net[c] :
       /\ "reorder" \in faults \/ \A j \in net[c] : k <= j
       /\ peer' = c /\ buf' = {k}
       /\ net' = [net EXCEPT ![c] = @ \ {k}]
  /\ spc' = "print"
  /\ UNCHANGED <<transport, faults, clientVars, conn, printed>>

\* UDP: main ends with -1.
RecvFromFails ==
  /\ "recv" \in faults
  /\ transport = "udp" /\ spc = "recv"
  /\ spc' = "failed"
  /\ CloseAll
  /\ UNCHANGED <<transport, faults, clientVars, peer, buf, printed>>

\* Mutant: a text shorter than the buffer is taken for the last one.
FputsUntilShort ==
  /\ spc = "print"
  /\ printed' = [printed EXCEPT ![peer] = @ \cup buf]
  /\ buf' = {}
  /\ IF transport = "tcp" /\ Cardinality(buf) < BufSz
       THEN spc' = "closed" /\ CloseAll
       ELSE spc' = "recv" /\ UNCHANGED <<conn, net>>
  /\ UNCHANGED <<transport, faults, clientVars, peer>>

\* fputs; over UDP also fflush.
Fputs ==
  /\ spc = "print"
  /\ printed' = [printed EXCEPT ![peer] = @ \cup buf]
  /\ buf' = {}
  /\ spc' = "recv"
  /\ UNCHANGED <<transport, faults, clientVars, conn, net, peer>>

Server == Setup \/ Accept \/ Recv \/ RecvEof \/ RecvFrom \/ Fputs

Fault ==
  \/ SetupFails \/ AcceptFails \/ RecvFails \/ RecvFromFails
  \/ \E c \in Clients : OpenFails(c) \/ Lose(c)

Next == Server \/ (\E c \in Clients : Client(c)) \/ Fault

Spec == Init /\ [][Next]_vars

\* Clients and servers go on where they can; no fault has to happen.
FairSpec == Spec /\ WF_vars(Server) /\ \A c \in Clients : WF_vars(Client(c))

-----------------------------------------------------------------------------
(* Properties *)

Service == INSTANCE CopyService
             WITH due <- [c \in Clients |-> net[c] \cup (IF c = peer THEN buf ELSE {})]

\* Nothing is printed twice or without having been sent, whatever fails; over
\* TCP one client's stream is printed in order and without gaps, up to where
\* it stops.
ImplementsCopy == Service!Spec

Ended(c) == cpc[c] \in {"closed", "failed"}

\* A client ends, also one that TCPserver never accepts and whose send blocks:
\* it is reset when the server has reached the end of its one client.
ClientsEnd == \A c \in Clients : <>(Ended(c) \/ spc = "wild")

\* What is on its way to a server that serves its sender is printed, unless it
\* is lost or the server ends by an error.
SentIsPrinted ==
  \A c \in Clients : \A k \in 1 .. NLINES * LineLen :
    k \in net[c] /\ (transport = "tcp" => peer = c) ~>
      \/ k \in printed[c]
      \/ "loss" \in faults \/ spc = "wild"
      \/ "recv" \in faults /\ spc \in {"closed", "failed"}
=============================================================================
