------------------------------- MODULE UdpAck --------------------------------
(***************************************************************************)
(* src/Code/Ch10-networking/UDPACKclient.c, UDPACKserver.c and udp_ack.h:  *)
(* clients that send the lines of their stdin one at a time, waiting for   *)
(* an acknowledgement of each and resending on a timeout, and one server   *)
(* that prints every frame it receives and acknowledges it.                *)
(*                                                                         *)
(* A frame is abstracted to its mseqn, which is the number of the line it  *)
(* carries.  The network is a sequence of frames in flight per client and  *)
(* direction; faults says what it and the operating system may do:         *)
(*   "loss"     a frame disappears (a full socket buffer, a failed sendto) *)
(*   "reorder"  frames overtake each other                                 *)
(*   "server"   the server is started late, or its recvfrom fails          *)
(*   "socket"   socket() or bind() fails                                   *)
(***************************************************************************)
EXTENDS Naturals, Sequences, SequencesExt

CONSTANTS Clients,    \* the client processes
          MaxLines,   \* a bound on the lines of each stdin
          NRETRIES,   \* udp_ack.h: retransmissions before giving up (10)
          Scenarios,  \* records [faults, started]: what may go wrong, and
                      \* the clients that are started
          NoClient    \* the zeroed c_addr: no sender

ASSUME ConstantsAssumption ==
  /\ MaxLines \in Nat
  /\ NRETRIES \in Nat \ {0}
  /\ Scenarios \subseteq [faults : SUBSET {"loss", "reorder", "server", "socket"},
                         started : SUBSET Clients]
  /\ NoClient \notin Clients

VARIABLES
  faults,     \* what may go wrong in this behaviour
  cpc,        \* cpc[c]: where client c is
  seqno,      \* seqno[c]: the line last taken from stdin
  remaining,  \* remaining[c]: selects left for this line
  spc,        \* where the server is
  c_addr,     \* the server's sender address of the frame in hand
  msg,        \* the server's frame in hand
  dataNet,    \* dataNet[c]: data frames of c on their way to the server
  ackNet,     \* ackNet[c]: acks on their way to c
  printed,    \* printed[c]: the lines of c on the server's stdout
  copies      \* history: copies[c][k] counts the sendto of line k

clientVars == <<cpc, seqno, remaining, copies>>
serverVars == <<spc, c_addr, msg, printed>>
vars == <<clientVars, serverVars, dataNet, ackNet, faults>>

Line == 1..MaxLines

(***************************************************************************)
(* Type invariant.                                                         *)
(***************************************************************************)
TypeOK ==
  /\ faults \in {s.faults : s \in Scenarios}
  /\ cpc \in [Clients -> {"absent", "socket", "read", "wait", "closed", "failed", "gaveup"}]
  /\ seqno \in [Clients -> 0..MaxLines]
  /\ remaining \in [Clients -> 0..NRETRIES]
  /\ spc \in {"socket", "recv", "print", "ack", "stopped"}
  /\ c_addr \in Clients \cup {NoClient}
  /\ spc \in {"print", "ack"} => c_addr \in Clients
  /\ msg \in 0..MaxLines
  /\ dataNet \in [Clients -> Seq(Line)]
  /\ ackNet \in [Clients -> Seq(Line)]
  /\ printed \in [Clients -> Seq(Line)]
  /\ copies \in [Clients -> [Line -> Nat]]

Init ==
  /\ \E s \in Scenarios :
       /\ faults = s.faults
       /\ cpc = [c \in Clients |-> IF c \in s.started THEN "socket" ELSE "absent"]
  /\ seqno = [c \in Clients |-> 0]
  /\ remaining = [c \in Clients |-> 0]
  /\ spc = IF "server" \in faults THEN "socket" ELSE "recv"
  /\ c_addr = NoClient
  /\ msg = 0
  /\ dataNet = [c \in Clients |-> << >>]
  /\ ackNet = [c \in Clients |-> << >>]
  /\ printed = [c \in Clients |-> << >>]
  /\ copies = [c \in Clients |-> [k \in Line |-> 0]]

(***************************************************************************)
(* The sockets.  A frame for a port nobody is bound to is dropped, and the *)
(* frames queued at a socket go away with it.                              *)
(***************************************************************************)
ServerBound == spc \notin {"socket", "stopped"}
ClientBound(c) == cpc[c] \in {"read", "wait"}

\* The positions of a queue that its reader may be handed next.
Deliverable(q) == IF "reorder" \in faults THEN DOMAIN q ELSE DOMAIN q \cap {1}

SendData(c, k) ==
  /\ dataNet' = IF ServerBound THEN [dataNet EXCEPT ![c] = Append(@, k)]
                               ELSE dataNet
  /\ copies' = [copies EXCEPT ![c][k] = @ + 1]

SendAck(c, k) ==
  ackNet' = IF ClientBound(c) THEN [ackNet EXCEPT ![c] = Append(@, k)]
                              ELSE ackNet

(***************************************************************************)
(* The client.                                                             *)
(***************************************************************************)

\* socket() and bind(): on failure main returns -1.
OpenSocket(c) ==
  /\ cpc[c] = "socket"
  /\ \/ cpc' = [cpc EXCEPT ![c] = "read"]
     \/ "socket" \in faults /\ cpc' = [cpc EXCEPT ![c] = "failed"]
  /\ UNCHANGED <<seqno, remaining, copies, serverVars, dataNet, ackNet, faults>>

\* Mutant: NRETRIES counts the transmissions after the first resend.
SendLineOneMoreRetry(c) ==
  /\ cpc[c] = "read"
  /\ seqno[c] < MaxLines
  /\ seqno' = [seqno EXCEPT ![c] = @ + 1]
  /\ SendData(c, seqno[c] + 1)
  /\ remaining' = [remaining EXCEPT ![c] = NRETRIES + 1]
  /\ cpc' = [cpc EXCEPT ![c] = "wait"]
  /\ UNCHANGED <<serverVars, ackNet, faults>>

\* fgets returns a line: number it, send it, enter the retry loop.
SendLine(c) ==
  /\ cpc[c] = "read"
  /\ seqno[c] < MaxLines
  /\ seqno' = [seqno EXCEPT ![c] = @ + 1]
  /\ SendData(c, seqno[c] + 1)
  /\ remaining' = [remaining EXCEPT ![c] = NRETRIES]
  /\ cpc' = [cpc EXCEPT ![c] = "wait"]
  /\ UNCHANGED <<serverVars, ackNet, faults>>

\* Mutant: select is called with a NULL timeout and only returns for an ack.
ResendNever(c) ==
  /\ cpc[c] = "wait"
  /\ ackNet[c] # << >>
  /\ UNCHANGED vars

\* Mutant: the resend finds the previous line in the buffer.
ResendPreviousLine(c) ==
  /\ cpc[c] = "wait"
  /\ SendData(c, IF seqno[c] > 1 THEN seqno[c] - 1 ELSE 1)
  /\ remaining' = [remaining EXCEPT ![c] = @ - 1]
  /\ IF remaining[c] = 1
       THEN /\ cpc' = [cpc EXCEPT ![c] = "gaveup"]
            /\ ackNet' = [ackNet EXCEPT ![c] = << >>]
       ELSE UNCHANGED <<cpc, ackNet>>
  /\ UNCHANGED <<seqno, serverVars, faults>>

\* select times out: resend.  After the last resend the loop ends at once,
\* remaining is 0 and main returns -1.
Resend(c) ==
  /\ cpc[c] = "wait"
  /\ SendData(c, seqno[c])
  /\ remaining' = [remaining EXCEPT ![c] = @ - 1]
  /\ IF remaining[c] = 1
       THEN /\ cpc' = [cpc EXCEPT ![c] = "gaveup"]
            /\ ackNet' = [ackNet EXCEPT ![c] = << >>]
       ELSE UNCHANGED <<cpc, ackNet>>
  /\ UNCHANGED <<seqno, serverVars, faults>>

\* Mutant: the loop is left on a timeout as on an ack (select != 1 unchecked).
ReceiveNothing(c) ==
  /\ cpc[c] = "wait"
  /\ cpc' = [cpc EXCEPT ![c] = "read"]
  /\ UNCHANGED <<seqno, remaining, copies, serverVars, dataNet, ackNet, faults>>

\* select > 0: recv takes one ack, whatever line it names.
ReceiveAck(c) ==
  /\ cpc[c] = "wait"
  /\ \E i \in Deliverable(ackNet[c]) :
       ackNet' = [ackNet EXCEPT ![c] = RemoveAt(@, i)]
  /\ cpc' = [cpc EXCEPT ![c] = "read"]
  /\ UNCHANGED <<seqno, remaining, copies, serverVars, dataNet, faults>>

\* fgets returns NULL: close the socket.
EndOfInput(c) ==
  /\ cpc[c] = "read"
  /\ cpc' = [cpc EXCEPT ![c] = "closed"]
  /\ ackNet' = [ackNet EXCEPT ![c] = << >>]
  /\ UNCHANGED <<seqno, remaining, copies, serverVars, dataNet, faults>>

Client(c) ==
  OpenSocket(c) \/ SendLine(c) \/ Resend(c) \/ ReceiveAck(c) \/ EndOfInput(c)

(***************************************************************************)
(* The server.                                                             *)
(***************************************************************************)

\* socket() and bind(): on failure main returns -1.
BindServer ==
  /\ spc = "socket"
  /\ \/ spc' = "recv"
     \/ "socket" \in faults /\ spc' = "stopped"
  /\ UNCHANGED <<c_addr, msg, printed, clientVars, dataNet, ackNet, faults>>

\* Mutant: the frame is acknowledged before it is printed.
ReceiveAckingFirst(c) ==
  /\ spc = "recv"
  /\ \E i \in Deliverable(dataNet[c]) :
       /\ msg' = dataNet[c][i]
       /\ dataNet' = [dataNet EXCEPT ![c] = RemoveAt(@, i)]
       /\ SendAck(c, dataNet[c][i])
  /\ c_addr' = c
  /\ spc' = "print"
  /\ UNCHANGED <<printed, clientVars, faults>>

\* Mutant: the frame stays in the socket's queue (MSG_PEEK).
ReceivePeeking(c) ==
  /\ spc = "recv"
  /\ \E i \in Deliverable(dataNet[c]) : msg' = dataNet[c][i]
  /\ c_addr' = c
  /\ spc' = "print"
  /\ UNCHANGED <<printed, clientVars, dataNet, ackNet, faults>>

\* recvfrom hands over one frame and the address of its sender.
Receive(c) ==
  /\ spc = "recv"
  /\ \E i \in Deliverable(dataNet[c]) :
       /\ msg' = dataNet[c][i]
       /\ dataNet' = [dataNet EXCEPT ![c] = RemoveAt(@, i)]
  /\ c_addr' = c
  /\ spc' = "print"
  /\ UNCHANGED <<printed, clientVars, ackNet, faults>>

\* recvfrom fails: main returns -1.
ReceiveFails ==
  /\ "server" \in faults
  /\ spc = "recv"
  /\ spc' = "stopped"
  /\ dataNet' = [c \in Clients |-> << >>]
  /\ UNCHANGED <<c_addr, msg, printed, clientVars, ackNet, faults>>

\* fputs, fflush: every frame is printed, one already printed too.
PrintLine ==
  /\ spc = "print"
  /\ printed' = [printed EXCEPT ![c_addr] = Append(@, msg)]
  /\ spc' = "ack"
  /\ UNCHANGED <<c_addr, msg, clientVars, dataNet, ackNet, faults>>

\* Mutant: the ack is sent twice, to be on the safe side.
AcknowledgeTwice ==
  /\ spc = "ack"
  /\ ackNet' = IF ClientBound(c_addr)
                 THEN [ackNet EXCEPT ![c_addr] = @ \o <<msg, msg>>]
                 ELSE ackNet
  /\ c_addr' = NoClient
  /\ spc' = "recv"
  /\ UNCHANGED <<msg, printed, clientVars, dataNet, faults>>

\* Mutant: one ack address for every client, the last that sent something.
AcknowledgeAnyone ==
  /\ spc = "ack"
  /\ \E c \in Clients : SendAck(c, msg)
  /\ c_addr' = NoClient
  /\ spc' = "recv"
  /\ UNCHANGED <<msg, printed, clientVars, dataNet, faults>>

\* Mutant: the server serves one frame and returns.
AcknowledgeAndStop ==
  /\ spc = "ack"
  /\ SendAck(c_addr, msg)
  /\ c_addr' = NoClient
  /\ spc' = "stopped"
  /\ UNCHANGED <<msg, printed, clientVars, dataNet, faults>>

\* sendto of the ack, then memset(&c_addr) at the top of the loop.
Acknowledge ==
  /\ spc = "ack"
  /\ SendAck(c_addr, msg)
  /\ c_addr' = NoClient
  /\ spc' = "recv"
  /\ UNCHANGED <<msg, printed, clientVars, dataNet, faults>>

Server ==
  BindServer \/ (\E c \in Clients : Receive(c)) \/ PrintLine \/ Acknowledge

(***************************************************************************)
(* The network.                                                            *)
(***************************************************************************)
LoseData(c) ==
  /\ "loss" \in faults
  /\ \E i \in DOMAIN dataNet[c] :
       dataNet' = [dataNet EXCEPT ![c] = RemoveAt(@, i)]
  /\ UNCHANGED <<clientVars, serverVars, ackNet, faults>>

LoseAck(c) ==
  /\ "loss" \in faults
  /\ \E i \in DOMAIN ackNet[c] :
       ackNet' = [ackNet EXCEPT ![c] = RemoveAt(@, i)]
  /\ UNCHANGED <<clientVars, serverVars, dataNet, faults>>

Next ==
  \/ \E c \in Clients : Client(c) \/ LoseData(c) \/ LoseAck(c)
  \/ Server
  \/ ReceiveFails

Spec == Init /\ [][Next]_vars

(***************************************************************************)
(* Fairness.  A client never stops on its own: fgets returns (stdin is a   *)
(* file or a user who types), select returns within MSEC_TMO.  The server  *)
(* is one loop whose only blocking call is recvfrom.  The faults are never *)
(* forced to happen.                                                       *)
(***************************************************************************)
FairSpec == Spec /\ (\A c \in Clients : WF_vars(Client(c))) /\ WF_vars(Server)

-----------------------------------------------------------------------------
(***************************************************************************)
(* Properties.                                                             *)
(***************************************************************************)

\* The lines client c considers acknowledged.
Completed(c) ==
  IF cpc[c] \in {"wait", "gaveup"} THEN seqno[c] - 1 ELSE seqno[c]

\* A frame of c that the server has printed and not yet acknowledged.
OwedAcks(c) == IF spc = "ack" /\ c_addr = c THEN 1 ELSE 0

\* The frames of c in the network or in the server's hands.
InFlight(c) ==
  ToSet(dataNet[c]) \cup ToSet(ackNet[c])
    \cup (IF c_addr = c THEN {msg} ELSE {})

Count(s, k) == Cardinality({i \in DOMAIN s : s[i] = k})

\* The resends client c has made so far: of each line, all copies but the first.
Resent(c) == UNION {{k} \X (2..copies[c][k]) : k \in 1..seqno[c]}
Resends(c) == Cardinality(Resent(c))

\* Every line a client considers acknowledged, and every ack still to reach
\* it, was paid for by one printed copy of a line of that client: acks are
\* neither invented, nor counted twice, nor delivered to another client.
CreditCovered ==
  \A c \in Clients :
    Completed(c) + Len(ackNet[c]) + OwedAcks(c) <= Len(printed[c])

\* An ack names a line that was printed: the server prints before it acks,
\* and copies mseqn from the frame it printed.
AcksArePrinted ==
  \A c \in Clients : \A i \in DOMAIN ackNet[c] :
    \E j \in DOMAIN printed[c] : printed[c][j] = ackNet[c][i]

\* No line is printed more often than it was sent, nor sent more often than
\* once plus NRETRIES ("number of retransmission before giving up").
BoundedCopies ==
  \A c \in Clients : \A k \in Line :
    /\ Count(printed[c], k) <= copies[c][k]
    /\ copies[c][k] <= NRETRIES + 1

\* As long as no timeout has fired, stop-and-wait delivery is exact: the
\* printed lines are the lines sent, once each and in order, and no line
\* is considered acknowledged before it is printed.
ExactWithoutResends ==
  \A c \in Clients :
    (\A k \in 1..seqno[c] : copies[c][k] = 1) =>
      /\ printed[c] = [k \in 1..Len(printed[c]) |-> k]
      /\ Len(printed[c]) \in {Completed(c), seqno[c]}

\* A line can be taken for acknowledged and not be printed only at the price
\* of a resend: at most as many such lines as there were resends.
SkippedBounded ==
  \A c \in Clients :
    Cardinality((1..Completed(c)) \ ToSet(printed[c])) <= Resends(c)

\* When frames keep their order, the copies of a client are printed in the
\* order of their lines.
PrintedInOrder ==
  "reorder" \notin faults =>
    \A c \in Clients : \A i, j \in DOMAIN printed[c] :
      i <= j => printed[c][i] <= printed[c][j]

\* When frames keep their order, the ack a client takes for its line can be
\* stale by no more lines than it has made resends: each surplus ack in the
\* pipeline comes from a resend.
AckLagBounded ==
  "reorder" \notin faults =>
    \A c \in Clients : ClientBound(c) =>
      \A k \in InFlight(c) : seqno[c] <= k + Resends(c)

\* A client that is started ends, whatever the network and the server do:
\* each line costs at most NRETRIES selects.
ClientsTerminate ==
  \A c \in Clients : <>(cpc[c] \in {"absent", "closed", "failed", "gaveup"})

\* With a server that is up and a network that loses nothing, every line that
\* was sent is printed, even when its client has gone on or given up.
EveryLinePrinted ==
  faults = {} =>
    \A c \in Clients : \A k \in Line :
      (seqno[c] >= k) ~> (k \in ToSet(printed[c]))

\* What the header of UDPACKclient.c leads a reader to expect ("a UDP socket
\* client that expects Acks for sent messages"): when a client closes with
\* every line acknowledged, no line has vanished: each one is printed or
\* still on its way to the server's stdout.
ClosedIsDelivered ==
  \A c \in Clients : cpc[c] = "closed" =>
    \A k \in 1..seqno[c] :
      \/ k \in ToSet(printed[c])
      \/ k \in ToSet(dataNet[c])
      \/ spc = "print" /\ c_addr = c /\ msg = k

\* The inductive invariant: besides the properties above, every data frame
\* in flight or in hand carries a line its client has taken from stdin, the
\* server acknowledges what it has printed, and a waiting client has a line
\* to wait for and a select left.
InductiveInv ==
  /\ TypeOK
  /\ CreditCovered
  /\ AcksArePrinted
  /\ \A c \in Clients :
       /\ cpc[c] \in {"wait", "gaveup"} => seqno[c] > 0
       /\ cpc[c] = "wait" => remaining[c] > 0
       /\ \A i \in DOMAIN dataNet[c] : dataNet[c][i] <= seqno[c]
  /\ spc \in {"print", "ack"} => msg \in 1..seqno[c_addr]
  /\ spc = "ack" => \E j \in DOMAIN printed[c_addr] : printed[c_addr][j] = msg

\* How a client appears from outside.
Status(c) ==
  IF cpc[c] = "closed" THEN "closed"
  ELSE IF cpc[c] \in {"failed", "gaveup"} THEN "failed" ELSE "open"

\* The delivery service seen in the variables of this module.
Delivery == INSTANCE UdpDelivery WITH
  read <- seqno,
  status <- [c \in Clients |-> Status(c)]

\* The pair implements the delivery service: a client takes another line, or
\* closes, only on a credit, and only lines it has taken are ever printed.
ImplementsDelivery == Delivery!Spec
=============================================================================
