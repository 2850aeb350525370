---------------------------- MODULE CopyPair_proofs ----------------------------
(***************************************************************************)
(* CopyPair implements CopyService for any clients, lines, buffer and      *)
(* window.  The inductive invariant says where a unit that was sent can be *)
(* (printed, in buf, on its way), never in two places, and, for the client *)
(* that TCPserver has accepted, that it is in one of them and in order.    *)
(***************************************************************************)
EXTENDS CopyPair, TLAPS

-----------------------------------------------------------------------------
(* The invariant *)

\* A client sends the units up to its goal; units are sent before they are on
\* their way or printed, and they are in one place.
UnitsInv ==
  \A c \in Clients :
    /\ sent[c] <= goal[c]
    /\ cpc[c] = "send" => sent[c] < goal[c]
    /\ \A k \in net[c] \cup printed[c] : 1 <= k /\ k <= sent[c]
    /\ \A k \in printed[c] : k \notin net[c]

\* What the server has taken from the socket and not yet printed.
BufInv ==
  /\ spc \in {"setup", "accept", "recv"} => buf = {}
  /\ spc = "print" => /\ peer \in Clients /\ buf # {}
                      /\ transport = "udp" => \E k \in buf : buf = {k}
                      /\ \A k \in buf : /\ 1 <= k /\ k <= sent[peer]
                                        /\ k \notin net[peer] /\ k \notin printed[peer]

\* A connection is one of: not there, waiting with all that was sent on it, or
\* the one that was accepted.
ConnInv ==
  /\ \A c \in Clients :
       /\ conn[c] = "none" => net[c] = {} /\ sent[c] = 0
       /\ conn[c] = "pending" => /\ \A k \in 1 .. sent[c] : k \in net[c]
                                 /\ c # peer
       /\ cpc[c] \in {"socket", "connect"} => conn[c] = "none"
       /\ c # peer => printed[c] = {}
  /\ spc \in {"setup", "accept"} => peer = NoClient
  /\ spc \in {"recv", "print", "wild"} => peer \in Clients /\ conn[peer] = "accepted"

\* The stream of the accepted client: what is printed, then what is in buf,
\* then what is on its way.
StreamInv ==
  /\ \A c \in Clients : \A i \in printed[c] : \A j \in 1 .. i : j \in printed[c]
  /\ spc \in {"recv", "print"} =>
       /\ \A k \in 1 .. sent[peer] : k \in printed[peer] \/ k \in buf \/ k \in net[peer]
       /\ \A i \in printed[peer], j \in buf : i < j
       /\ \A i \in printed[peer], j \in net[peer] : i < j
       /\ \A i \in buf, j \in net[peer] : i < j

PairInv ==
  /\ TypeOK /\ UnitsInv /\ BufInv
  /\ transport = "tcp" => ConnInv /\ StreamInv

-----------------------------------------------------------------------------

LEMMA InitInv == Init => PairInv
<1> SUFFICES ASSUME Init PROVE PairInv
  OBVIOUS
<1> USE PairAssumption DEF Init
<1>1. TypeOK
  BY DEF TypeOK
<1>2. UnitsInv /\ BufInv
  BY DEF UnitsInv, BufInv
<1>3. ConnInv /\ StreamInv
  BY DEF ConnInv, StreamInv
<1>4. QED
  BY <1>1, <1>2, <1>3 DEF PairInv

LEMMA LineUnitsNat == LineUnits \in Nat /\ LineUnits > 0
BY PairAssumption DEF LineUnits

-----------------------------------------------------------------------------
(* The client's steps *)

LEMMA ClientStep ==
  ASSUME PairInv, NEW c \in Clients, Client(c) \/ OpenFails(c)
  PROVE PairInv'
<1> USE DEF PairInv, clientVars, serverVars
<1>1. CASE OpenSocket(c) \/ OpenFails(c) \/ ConnectFails(c) \/ EndOfInput(c) \/ SendFails(c)
  <2> USE DEF OpenSocket, OpenFails, ConnectFails, EndOfInput, SendFails
  <2>1. TypeOK'
    BY <1>1 DEF TypeOK
  <2>2. UnitsInv' /\ BufInv'
    BY <1>1 DEF TypeOK, UnitsInv, BufInv
  <2>3. transport = "tcp" => ConnInv'
    BY <1>1 DEF TypeOK, ConnInv
  <2>4. transport = "tcp" => StreamInv'
    BY <1>1 DEF StreamInv
  <2>5. QED
    BY <1>1, <2>1, <2>2, <2>3, <2>4
<1>2. CASE Connect(c)
  <2> USE DEF Connect
  <2>1. TypeOK'
    BY <1>2 DEF TypeOK
  <2>2. UnitsInv' /\ BufInv'
    BY <1>2 DEF TypeOK, UnitsInv, BufInv
  <2>3. transport = "tcp" => ConnInv' /\ StreamInv'
    <3>1. transport = "tcp" => c # peer
      BY <1>2, PairAssumption DEF TypeOK, ConnInv, Bound
    <3>2. transport = "tcp" => ConnInv'
      BY <1>2, <3>1 DEF TypeOK, ConnInv
    <3>3. transport = "tcp" => StreamInv'
      BY <1>2 DEF StreamInv
    <3>4. QED
      BY <3>2, <3>3
  <2>4. QED
    BY <1>2, <2>1, <2>2, <2>3
<1>3. CASE ReadLine(c)
  <2> USE DEF ReadLine
  <2>1. TypeOK'
    BY <1>3, LineUnitsNat DEF TypeOK
  <2>2. UnitsInv' /\ BufInv'
    BY <1>3, LineUnitsNat DEF TypeOK, UnitsInv, BufInv
  <2>3. transport = "tcp" => ConnInv' /\ StreamInv'
    BY <1>3 DEF TypeOK, ConnInv, StreamInv
  <2>4. QED
    BY <1>3, <2>1, <2>2, <2>3
<1>4. CASE Send(c)
  <2> USE DEF Send
  <2>1. PICK n \in sent[c] + 1 .. goal[c] :
          /\ sent' = [sent EXCEPT ![c] = n]
          /\ net' = [net EXCEPT ![c] = @ \cup (sent[c] + 1 .. n)]
          /\ cpc' = IF n = goal[c] THEN [cpc EXCEPT ![c] = "read"] ELSE cpc
    BY <1>4
  <2>2. n \in Nat /\ sent[c] < n /\ n <= goal[c]
    BY DEF TypeOK
  <2>3. TypeOK'
    BY <1>4, <2>1, <2>2 DEF TypeOK
  <2>8. /\ net'[c] = net[c] \cup (sent[c] + 1 .. n) /\ sent'[c] = n
        /\ \A d \in Clients \ {c} : net'[d] = net[d] /\ sent'[d] = sent[d]
    BY <2>1 DEF TypeOK
  <2>9. UNCHANGED <<transport, goal, spc, peer, buf, printed>>
    BY <1>4
  <2>10. cpc'[c] = "send" => n < goal[c]
    BY <1>4, <2>1, <2>2 DEF TypeOK
  <2>11. \A d \in Clients \ {c} : cpc'[d] = cpc[d]
    BY <1>4, <2>1 DEF TypeOK
  <2>4. UnitsInv' /\ BufInv'
    <3> HIDE DEF Send
    <3>1. sent[c] \in Nat /\ goal[c] \in Nat /\ \A d \in Clients : net[d] \subseteq Nat /\ printed[d] \subseteq Nat
      BY DEF TypeOK
    <3>2. UnitsInv'
      BY <2>2, <2>8, <2>9, <2>10, <2>11, <3>1 DEF UnitsInv
    <3>3. BufInv'
      BY <2>2, <2>8, <2>9, <3>1 DEF BufInv, TypeOK
    <3>4. QED
      BY <3>2, <3>3
  <2>5. transport = "tcp" => ConnInv'
    BY <1>4, <2>1, <2>2 DEF TypeOK, ConnInv
  <2>6. transport = "tcp" => StreamInv'
    BY <1>4, <2>1, <2>2 DEF TypeOK, StreamInv, UnitsInv, BufInv
  <2>7. QED
    BY <1>4, <2>3, <2>4, <2>5, <2>6
<1>5. CASE SendToClosed(c)
  <2> USE DEF SendToClosed
  <2>1. TypeOK'
    BY <1>5 DEF TypeOK
  <2>2. UnitsInv' /\ BufInv'
    BY <1>5 DEF TypeOK, UnitsInv, BufInv
  <2>3. transport = "tcp" => ConnInv' /\ StreamInv'
    BY <1>5 DEF TypeOK, ConnInv, StreamInv
  <2>4. QED
    BY <1>5, <2>1, <2>2, <2>3
<1>6. CASE SendTo(c)
  <2> USE DEF SendTo
  <2>1. TypeOK'
    BY <1>6 DEF TypeOK
  <2>2. UnitsInv' /\ BufInv'
    BY <1>6 DEF TypeOK, UnitsInv, BufInv
  <2>3. transport' = "udp"
    BY <1>6
  <2>4. QED
    BY <2>1, <2>2, <2>3
<1>7. QED
  BY <1>1, <1>2, <1>3, <1>4, <1>5, <1>6 DEF Client

-----------------------------------------------------------------------------
(* The server's steps, and what happens between *)

\* The end of the server empties the sockets and keeps what was printed.
LEMMA CloseStep ==
  ASSUME PairInv, CloseAll, spc' \in {"closed", "failed"}, spc # "setup",
         UNCHANGED <<transport, clientVars, peer, buf, printed>>
  PROVE PairInv'
<1> USE DEF PairInv, clientVars, CloseAll
<1>1. TypeOK'
  BY DEF TypeOK
<1>2. UnitsInv' /\ BufInv'
  BY DEF TypeOK, UnitsInv, BufInv
<1>3. transport = "tcp" => ConnInv' /\ StreamInv'
  BY DEF TypeOK, ConnInv, StreamInv
<1>4. QED
  BY <1>1, <1>2, <1>3

LEMMA ServerStep == ASSUME PairInv, Server PROVE PairInv'
<1> USE DEF PairInv, clientVars
<1>1. CASE Setup
  <2> USE DEF Setup
  <2>1. TypeOK' /\ UnitsInv' /\ BufInv'
    BY <1>1 DEF TypeOK, UnitsInv, BufInv
  <2>2. transport = "tcp" => ConnInv' /\ StreamInv'
    BY <1>1 DEF ConnInv, StreamInv
  <2>3. QED
    BY <1>1, <2>1, <2>2
<1>2. CASE Accept
  <2>1. PICK c \in Pending : conn' = [conn EXCEPT ![c] = "accepted"] /\ peer' = c
    BY <1>2 DEF Accept
  <2>2. c \in Clients /\ conn[c] = "pending" /\ spc = "accept" /\ spc' = "recv"
    BY <1>2, <2>1 DEF Accept, Pending
  <2>3. UNCHANGED <<transport, faults, clientVars, net, buf, printed>>
    BY <1>2 DEF Accept
  <2>4. TypeOK'
    BY <2>1, <2>2, <2>3 DEF TypeOK
  <2>5. UnitsInv' /\ BufInv'
    BY <2>2, <2>3 DEF UnitsInv, BufInv
  <2>6. transport = "tcp" => \A d \in Clients : printed[d] = {}
    BY <2>2, PairAssumption DEF ConnInv
  <2>7. transport = "tcp" => ConnInv'
    BY <2>1, <2>2, <2>3, <2>6 DEF ConnInv, TypeOK
  <2>8. transport = "tcp" => StreamInv'
    BY <2>1, <2>2, <2>3, <2>6 DEF StreamInv, ConnInv, BufInv
  <2>9. QED
    BY <2>3, <2>4, <2>5, <2>7, <2>8
<1>3. CASE Recv
  <2>1. PICK last \in net[peer] : buf' = {k \in net[peer] : k <= last}
    BY <1>3 DEF Recv
  <2>2. /\ transport = "tcp" /\ spc = "recv" /\ spc' \in {"print", "wild"}
        /\ net' = [net EXCEPT ![peer] = @ \ buf']
        /\ UNCHANGED <<transport, faults, clientVars, conn, peer, printed>>
    BY <1>3 DEF Recv
  <2>3. peer \in Clients /\ net[peer] \subseteq Nat
    BY <2>2 DEF ConnInv, TypeOK
  <2>4. /\ net'[peer] = {k \in net[peer] : ~(k <= last)}
        /\ \A c \in Clients \ {peer} : net'[c] = net[c]
    BY <2>1, <2>2, <2>3 DEF TypeOK
  <2>5. buf' \subseteq net[peer] /\ last \in buf' /\ last \in Nat
    BY <2>1, <2>3
  <2>6. TypeOK'
    BY <2>1, <2>2, <2>3, <2>5 DEF TypeOK
  <2>7. UnitsInv'
    <3>1. \A c \in Clients : net'[c] \subseteq net[c]
      BY <2>4
    <3>2. QED
      BY <2>2, <3>1 DEF UnitsInv
  <2>8. BufInv'
    BY <2>1, <2>2, <2>3, <2>4, <2>5 DEF BufInv, UnitsInv
  <2>9. ConnInv'
    <3>1. \A c \in Clients : conn[c] # "accepted" => net'[c] = net[c]
      BY <2>2, <2>4 DEF ConnInv
    <3>2. QED
      BY <2>2, <3>1 DEF ConnInv
  <2>10. StreamInv'
    <3>1. \A i \in buf', j \in net'[peer] : i < j
      BY <2>1, <2>3, <2>4, <2>5
    <3>2. \A k \in net[peer] : k \in buf' \/ k \in net'[peer]
      BY <2>1, <2>4
    <3>3. \A k \in 1 .. sent[peer] : k \in printed[peer] \/ k \in net[peer]
      BY <2>2 DEF StreamInv, BufInv
    <3>4. \A i \in printed[peer], j \in net[peer] : i < j
      BY <2>2 DEF StreamInv
    <3>5. QED
      BY <2>2, <2>4, <2>5, <3>1, <3>2, <3>3, <3>4 DEF StreamInv
  <2>11. QED
    BY <2>6, <2>7, <2>8, <2>9, <2>10
<1>4. CASE RecvEof
  BY <1>4, CloseStep DEF RecvEof
<1>5. CASE RecvFrom
  <2>6. PICK c \in Clients : \E k \in net[c] :
          peer' = c /\ buf' = {k} /\ net' = [net EXCEPT ![c] = @ \ {k}]
    BY <1>5 DEF RecvFrom
  <2>1. PICK k \in net[c] :
          peer' = c /\ buf' = {k} /\ net' = [net EXCEPT ![c] = @ \ {k}]
    BY <2>6
  <2>2. /\ transport = "udp" /\ spc = "recv" /\ spc' = "print"
        /\ UNCHANGED <<transport, faults, clientVars, conn, printed>>
    BY <1>5 DEF RecvFrom
  <2>3. TypeOK'
    BY <2>1, <2>2 DEF TypeOK
  <2>4. UnitsInv' /\ BufInv'
    BY <2>1, <2>2 DEF TypeOK, UnitsInv, BufInv
  <2>5. QED
    BY <2>2, <2>3, <2>4
<1>6. CASE Fputs
  <2>1. /\ spc = "print" /\ spc' = "recv" /\ buf' = {}
        /\ printed' = [printed EXCEPT ![peer] = @ \cup buf]
        /\ UNCHANGED <<transport, faults, clientVars, conn, net, peer>>
    BY <1>6 DEF Fputs
  <2>2. peer \in Clients
    BY <2>1 DEF BufInv
  <2>3. /\ printed'[peer] = printed[peer] \cup buf
        /\ \A c \in Clients \ {peer} : printed'[c] = printed[c]
    BY <2>1, <2>2 DEF TypeOK
  <2>4. TypeOK'
    BY <2>1, <2>2 DEF TypeOK
  <2>5. UnitsInv' /\ BufInv'
    BY <2>1, <2>2, <2>3 DEF UnitsInv, BufInv
  <2>6. transport = "tcp" => ConnInv'
    BY <2>1, <2>2, <2>3 DEF ConnInv
  <2>7. ASSUME transport = "tcp" PROVE StreamInv'
    <3>1. ASSUME NEW i \in printed'[peer], NEW j \in 1 .. i PROVE j \in printed'[peer]
      <4>1. i <= sent[peer] /\ i \in Nat /\ sent[peer] \in Nat
        BY <2>1, <2>2, <2>3 DEF UnitsInv, BufInv, TypeOK
      <4>2. j \in printed[peer] \/ j \in buf \/ j \in net[peer]
        BY <2>1, <2>7, <4>1 DEF StreamInv
      <4>3. j \in net[peer] => i < j
        BY <2>1, <2>3, <2>7 DEF StreamInv
      <4>4. QED
        BY <2>3, <4>1, <4>2, <4>3
    <3>2. \A c \in Clients : \A i \in printed'[c] : \A j \in 1 .. i : j \in printed'[c]
      BY <2>3, <2>7, <3>1 DEF StreamInv
    <3>3. QED
      BY <2>1, <2>2, <2>3, <2>7, <3>2 DEF StreamInv
  <2>8. QED
    BY <2>1, <2>4, <2>5, <2>6, <2>7
<1>7. QED
  BY <1>1, <1>2, <1>3, <1>4, <1>5, <1>6 DEF Server

LEMMA FaultStep == ASSUME PairInv, Fault PROVE PairInv'
<1> USE DEF PairInv, clientVars, serverVars
<1>1. CASE SetupFails
  <2> USE DEF SetupFails
  <2>1. TypeOK' /\ UnitsInv' /\ BufInv'
    BY <1>1 DEF TypeOK, UnitsInv, BufInv
  <2>2. transport = "tcp" => ConnInv' /\ StreamInv'
    BY <1>1 DEF ConnInv, StreamInv
  <2>3. QED
    BY <1>1, <2>1, <2>2
<1>2. CASE AcceptFails \/ RecvFails \/ RecvFromFails
  BY <1>2, CloseStep DEF AcceptFails, RecvFails, RecvFromFails
<1>3. ASSUME NEW c \in Clients, OpenFails(c) PROVE PairInv'
  BY <1>3, ClientStep
<1>4. ASSUME NEW c \in Clients, Lose(c) PROVE PairInv'
  <2>1. PICK k \in net[c] : net' = [net EXCEPT ![c] = @ \ {k}]
    BY <1>4 DEF Lose
  <2>2. transport = "udp" /\ UNCHANGED <<transport, faults, clientVars, conn, serverVars>>
    BY <1>4 DEF Lose
  <2>3. TypeOK'
    BY <2>1, <2>2 DEF TypeOK
  <2>4. UnitsInv' /\ BufInv'
    BY <2>1, <2>2 DEF TypeOK, UnitsInv, BufInv
  <2>5. QED
    BY <2>2, <2>3, <2>4
<1>5. QED
  BY <1>1, <1>2, <1>3, <1>4 DEF Fault

LEMMA InvStep == PairInv /\ [Next]_vars => PairInv'
<1> SUFFICES ASSUME PairInv, [Next]_vars PROVE PairInv'
  OBVIOUS
<1>1. CASE UNCHANGED vars
  BY <1>1 DEF vars, clientVars, serverVars, PairInv, TypeOK, UnitsInv, BufInv, ConnInv, StreamInv
<1>2. CASE Next
  BY <1>2, ClientStep, ServerStep, FaultStep DEF Next
<1>3. QED
  BY <1>1, <1>2

LEMMA InvAlways == Spec => []PairInv
BY InitInv, InvStep, PTL DEF Spec

\* The variables keep their types for any number of clients, lines and units.
THEOREM TypeCorrect == Spec => []TypeOK
<1>1. PairInv => TypeOK
  BY DEF PairInv
<1>2. QED
  BY <1>1, InvAlways, PTL

-----------------------------------------------------------------------------
(* The refinement *)

Due == [c \in Clients |-> net[c] \cup (IF c = peer THEN buf ELSE {})]

\* A step that sends and prints nothing makes nothing due again.
LEMMA QuietStep ==
  ASSUME UNCHANGED <<transport, sent, printed>>,
         \A c \in Clients : Due'[c] \subseteq Due[c]
  PROVE Service!Next
<1>1. /\ Due' = [c \in Clients |-> Due'[c]]
      /\ Due = [c \in Clients |-> Due[c]]
  BY DEF Due
<1>2. Service!Drop
  BY <1>1 DEF Service!Drop, Due
<1>3. QED
  BY <1>2 DEF Service!Next

LEMMA SendStep ==
  ASSUME PairInv, NEW c \in Clients, Send(c) \/ SendToClosed(c) \/ SendTo(c)
  PROVE Service!Next
<1>1. sent[c] < sent'[c] /\ sent' = [sent EXCEPT ![c] = sent'[c]]
  BY DEF Send, SendToClosed, SendTo, PairInv, UnitsInv, TypeOK
<1>2. UNCHANGED <<transport, peer, buf, printed>>
  BY DEF Send, SendToClosed, SendTo, serverVars
<1>3. /\ \A d \in Clients \ {c} : net'[d] = net[d]
      /\ net[c] \subseteq net'[c]
      /\ \A k \in net'[c] \ net[c] : k \in sent[c] + 1 .. sent'[c]
  <2>1. CASE Send(c)
    <3>1. PICK n \in sent[c] + 1 .. goal[c] :
            sent' = [sent EXCEPT ![c] = n] /\ net' = [net EXCEPT ![c] = @ \cup (sent[c] + 1 .. n)]
      BY <2>1 DEF Send
    <3>2. QED
      BY <3>1 DEF PairInv, TypeOK
  <2>2. CASE SendToClosed(c)
    BY <2>2 DEF SendToClosed
  <2>3. CASE SendTo(c)
    <3>1. sent[c] \in Nat /\ goal[c] \in Nat /\ sent[c] < goal[c] /\ sent'[c] = goal[c]
      BY <2>3 DEF SendTo, PairInv, TypeOK, UnitsInv
    <3>2. net' = net \/ net' = [net EXCEPT ![c] = @ \cup {goal[c]}]
      BY <2>3 DEF SendTo
    <3>3. QED
      BY <3>1, <3>2 DEF PairInv, TypeOK
  <2>4. QED
    BY <2>1, <2>2, <2>3
<1>4. /\ Due[c] \subseteq Due'[c]
      /\ Due' = [Due EXCEPT ![c] = Due'[c]]
      /\ Due'[c] \ Due[c] \subseteq sent[c] + 1 .. sent'[c]
  BY <1>2, <1>3 DEF Due
<1>5. Service!Send(c)
  BY <1>1, <1>2, <1>4 DEF Service!Send, Due
<1>6. QED
  BY <1>5 DEF Service!Next

LEMMA PrintStep == ASSUME PairInv, Fputs PROVE Service!Next
<1>1. /\ spc = "print" /\ printed' = [printed EXCEPT ![peer] = @ \cup buf] /\ buf' = {}
      /\ UNCHANGED <<transport, sent, net, peer>>
  BY DEF Fputs, clientVars
<1>2. peer \in Clients /\ buf # {} /\ buf \subseteq Nat
  BY <1>1 DEF PairInv, BufInv, TypeOK
<1>3. buf \in SUBSET Due[peer]
  BY <1>2 DEF Due
<1>4. Due' = [Due EXCEPT ![peer] = @ \ buf]
  <2>1. \A k \in buf : k \notin net[peer]
    BY <1>1 DEF PairInv, BufInv
  <2>2. Due'[peer] = Due[peer] \ buf
    BY <1>1, <1>2, <2>1 DEF Due
  <2>3. \A c \in Clients \ {peer} : Due'[c] = Due[c]
    BY <1>1 DEF Due
  <2>4. /\ Due' = [c \in Clients |-> Due'[c]]
        /\ Due = [c \in Clients |-> Due[c]]
    BY DEF Due
  <2>5. QED
    BY <1>2, <2>2, <2>3, <2>4
<1>5. transport = "udp" => \E k \in buf : buf = {k}
  BY <1>1 DEF PairInv, BufInv
<1>6. PairInv' /\ transport' = transport
  BY <1>1, InvStep DEF Next, Server
<1>7. transport = "tcp" => Service!NoGap(printed'[peer])
  BY <1>2, <1>6 DEF PairInv, StreamInv, Service!NoGap
<1>8. transport = "tcp" => \A d \in Clients \ {peer} : printed[d] = {}
  BY DEF PairInv, ConnInv
<1>9. PICK c \in Clients : c = peer
  BY <1>2
<1>10. \E block \in SUBSET Due[c] :
         /\ block # {}
         /\ printed' = [printed EXCEPT ![c] = @ \cup block]
         /\ Due' = [Due EXCEPT ![c] = @ \ block]
         /\ transport = "udp" => \E k \in block : block = {k}
  BY <1>1, <1>2, <1>3, <1>4, <1>5, <1>9
<1>11. Service!PrintLine(c)
  BY <1>1, <1>7, <1>8, <1>9, <1>10 DEF Service!PrintLine, Due
<1>12. QED
  BY <1>11 DEF Service!Next

LEMMA ReceiveStep ==
  ASSUME PairInv, Setup \/ Accept \/ Recv \/ RecvEof \/ RecvFrom
  PROVE Service!Next
<1>1. UNCHANGED <<transport, sent, printed>>
  BY DEF Setup, Accept, Recv, RecvEof, RecvFrom, clientVars
<1>2. \A c \in Clients : Due'[c] \subseteq Due[c]
  <2>1. CASE Setup \/ RecvEof
    BY <2>1 DEF Setup, RecvEof, CloseAll, Due
  <2>2. CASE Accept
    BY <2>2 DEF Accept, PairInv, BufInv, Due
  <2>3. CASE Recv
    <3>1. buf' \subseteq net[peer] /\ net' = [net EXCEPT ![peer] = @ \ buf'] /\ peer' = peer
      BY <2>3 DEF Recv
    <3>2. QED
      BY <3>1 DEF PairInv, TypeOK, Due
  <2>4. CASE RecvFrom
    <3>1. PICK c \in Clients : \E k \in net[c] :
            peer' = c /\ buf' = {k} /\ net' = [net EXCEPT ![c] = @ \ {k}]
      BY <2>4 DEF RecvFrom
    <3>2. QED
      BY <3>1 DEF PairInv, TypeOK, Due
  <2>5. QED
    BY <2>1, <2>2, <2>3, <2>4
<1>3. QED
  BY <1>1, <1>2, QuietStep

LEMMA FaultImplements == ASSUME PairInv, Fault PROVE Service!Next
<1>1. UNCHANGED <<transport, sent, printed>>
  BY DEF Fault, SetupFails, AcceptFails, RecvFails, RecvFromFails, OpenFails, Lose,
         clientVars, serverVars
<1>2. /\ UNCHANGED <<peer, buf>>
      /\ \A c \in Clients : net'[c] \subseteq net[c]
  <2>1. CASE SetupFails \/ AcceptFails \/ RecvFails \/ RecvFromFails
    BY <2>1 DEF SetupFails, AcceptFails, RecvFails, RecvFromFails, CloseAll
  <2>2. ASSUME NEW c \in Clients, OpenFails(c) \/ Lose(c)
        PROVE UNCHANGED <<peer, buf>> /\ \A d \in Clients : net'[d] \subseteq net[d]
    BY <2>2 DEF OpenFails, Lose, serverVars, PairInv, TypeOK
  <2>3. QED
    BY <2>1, <2>2 DEF Fault
<1>3. \A c \in Clients : Due'[c] \subseteq Due[c]
  BY <1>2 DEF Due
<1>4. QED
  BY <1>1, <1>3, QuietStep

LEMMA ClientImplements ==
  ASSUME NEW c \in Clients, Client(c), ~(Send(c) \/ SendToClosed(c) \/ SendTo(c))
  PROVE UNCHANGED <<transport, sent, Due, printed>>
BY DEF Client, OpenSocket, Connect, ConnectFails, ReadLine, EndOfInput, SendFails,
       clientVars, serverVars, Due

\* Each step sends, prints, or makes nothing due.
LEMMA StepImplements == PairInv /\ [Next]_vars => [Service!Next]_(Service!vars)
<1> SUFFICES ASSUME PairInv, [Next]_vars
             PROVE Service!Next \/ UNCHANGED <<transport, sent, Due, printed>>
  BY DEF Service!vars, Due
<1>1. CASE UNCHANGED vars
  BY <1>1 DEF vars, clientVars, serverVars, Due
<1>2. ASSUME NEW c \in Clients, Client(c)
      PROVE Service!Next \/ UNCHANGED <<transport, sent, Due, printed>>
  BY <1>2, SendStep, ClientImplements
<1>3. CASE Server
  BY <1>3, PrintStep, ReceiveStep DEF Server
<1>4. CASE Fault
  BY <1>4, FaultImplements
<1>5. QED
  BY <1>1, <1>2, <1>3, <1>4 DEF Next

LEMMA InitImplements == Init => Service!Init
BY PairAssumption DEF Init, Service!Init, Due

\* Both pairs implement the copy service, whatever fails: nothing is printed
\* twice or out of nothing, and over TCP one stream without gaps.
THEOREM Refinement == Spec => ImplementsCopy
<1>1. PairInv /\ PairInv' /\ [Next]_vars => [Service!Next]_(Service!vars)
  BY StepImplements
<1>2. Spec => Service!Init /\ [][Service!Next]_(Service!vars)
  BY <1>1, InitImplements, InvAlways, PTL DEF Spec
<1>3. QED
  BY <1>2 DEF ImplementsCopy, Service!Spec
=============================================================================
