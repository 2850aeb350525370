-------------------------- MODULE SelectServer_proofs --------------------------
(***************************************************************************)
(* Proofs about SelectServer for any clients, descriptor table, backlog    *)
(* and faults: the bookkeeping of master and fdmax; and, for as long as    *)
(* accept has not failed, that the server only ever reads from a client    *)
(* that has sent something.                                                *)
(***************************************************************************)
EXTENDS SelectServer, SequenceTheorems, TLAPS

-----------------------------------------------------------------------------
(* Types and the master set. *)

\* TypeOK and MasterCovers with what Setup and CloseClient need: no client
\* is served before the server listens, and the loop reads at client
\* descriptors.
SelectInv ==
  /\ TypeOK
  /\ MasterCovers
  /\ ~Listening => Open = {}
  /\ spc \in {"read", "spin"} => i \in ClientFd

LEMMA FdFacts ==
  /\ s_fd \in Nat /\ MaxFd \in Nat /\ BadFd \in ClientFd
  /\ \A f \in ClientFd : f \in Nat /\ f > s_fd /\ f <= MaxFd
BY ServerAssumption DEF ClientFd

LEMMA InitSelectInv == Init => SelectInv
<1> SUFFICES ASSUME Init PROVE SelectInv
  OBVIOUS
<1>1. owner \in [ClientFd -> Conns \cup {NoConn}]
  BY DEF Init
<1>2. /\ input \in [Conns -> {"none", "idle", "part", "line", "eof", "empty"}]
      /\ backlog \in Seq(Conns)
  BY EmptySeq DEF Init
<1>3. /\ master \subseteq ClientFd \cup {s_fd}
      /\ read_fds \subseteq ClientFd \cup {s_fd}
      /\ fdmax \in ClientFd \cup {s_fd}
      /\ i = 0 /\ spc = "setup" /\ failed = FALSE
  BY DEF Init
<1>4. TypeOK
  <2>1. MaxFd \in Nat
    BY FdFacts
  <2>2. i \in 0..MaxFd + 1
    BY <1>3, <2>1
  <2>3. failed \in BOOLEAN
    BY <1>3
  <2> QED
    BY <1>1, <1>2, <1>3, <2>2, <2>3, Zenon DEF TypeOK
<1>5. spc = "setup" /\ Open = {}
  BY DEF Init, Open
<1> QED
  BY <1>4, <1>5 DEF SelectInv, MasterCovers, Listening

LEMMA CloseClientInv ==
  ASSUME SelectInv, spc = "read", CloseClient
  PROVE  SelectInv'
<1>1. /\ TypeOK /\ MasterCovers /\ i \in ClientFd
  BY DEF SelectInv
<1>2. /\ master \subseteq ClientFd \cup {s_fd}
      /\ fdmax \in ClientFd \cup {s_fd}
      /\ owner \in [ClientFd -> Conns \cup {NoConn}]
      /\ input \in [Conns -> {"none", "idle", "part", "line", "eof", "empty"}]
  BY <1>1 DEF TypeOK
<1>3. /\ master' = master \ {i}
      /\ \/ /\ i = fdmax
            /\ \E f \in master' : /\ f <= fdmax
                                  /\ \A g \in master' : g <= fdmax => g <= f
                                  /\ fdmax' = f
         \/ i # fdmax /\ fdmax' = fdmax
      /\ owner' = [owner EXCEPT ![i] = NoConn]
      /\ input' = IF i \in Open THEN [input EXCEPT ![owner[i]] = "none"] ELSE input
      /\ i' = i + 1
      /\ spc' = "scan"
      /\ UNCHANGED <<read_fds, backlog, failed>>
  BY DEF CloseClient
<1>4. Open' = Open \ {i}
  BY <1>2, <1>3 DEF Open
<1>5. /\ s_fd \in master /\ s_fd <= fdmax
      /\ \A f \in Open : f \in master /\ f <= fdmax
      /\ master \subseteq {s_fd, BadFd} \cup Open
      /\ fdmax \in master
  BY <1>1 DEF MasterCovers, Listening, Watched
<1>6. /\ s_fd \in master' /\ s_fd <= fdmax'
      /\ \A f \in Open' : f \in master' /\ f <= fdmax'
      /\ fdmax' \in master'
  <2>1. s_fd \in master' /\ \A f \in Open' : f \in master'
    BY <1>1, <1>3, <1>4, <1>5, FdFacts
  <2>2. CASE i = fdmax
    BY <1>3, <1>4, <1>5, <2>1, <2>2
  <2>3. CASE i # fdmax
    BY <1>3, <1>4, <1>5, <2>1, <2>3
  <2> QED BY <2>1, <2>2, <2>3
<1>7. TypeOK'
  <2>1. owner' \in [ClientFd -> Conns \cup {NoConn}]
    BY <1>2, <1>3
  <2>2. input' \in [Conns -> {"none", "idle", "part", "line", "eof", "empty"}]
    BY <1>2, <1>3
  <2>3. i' \in 0..MaxFd + 1 /\ fdmax' \in ClientFd \cup {s_fd}
        /\ master' \subseteq ClientFd \cup {s_fd}
    BY <1>1, <1>2, <1>3, <1>6, FdFacts
  <2> QED
    BY <1>1, <1>3, <2>1, <2>2, <2>3 DEF TypeOK
<1>8. MasterCovers'
  <2>1. master' \subseteq {s_fd, BadFd} \cup Open'
    BY <1>3, <1>4, <1>5
  <2> QED
    BY <1>6, <2>1 DEF MasterCovers, Watched
<1> QED
  BY <1>3, <1>7, <1>8 DEF SelectInv, Listening

LEMMA EnvironmentInv ==
  ASSUME SelectInv, NEW c \in Conns, Environment(c)
  PROVE  SelectInv'
<1>1. TypeOK /\ MasterCovers
  BY DEF SelectInv
<1>2. UNCHANGED <<master, read_fds, fdmax, i, spc, owner, failed>>
  BY Zenon DEF Environment, Connect, SendPart, SendRest, HangUp, serverVars
<1>3. /\ input' \in [Conns -> {"none", "idle", "part", "line", "eof", "empty"}]
      /\ backlog' \in Seq(Conns)
  <2>1. /\ input \in [Conns -> {"none", "idle", "part", "line", "eof", "empty"}]
        /\ backlog \in Seq(Conns)
    BY <1>1 DEF TypeOK
  <2>2. CASE Connect(c)
    BY <2>1, <2>2, AppendProperties DEF Connect
  <2>3. CASE SendPart(c)
    BY <2>1, <2>3 DEF SendPart
  <2>4. CASE SendRest(c)
    BY <2>1, <2>4 DEF SendRest
  <2>5. CASE HangUp(c)
    BY <2>1, <2>5 DEF HangUp
  <2> QED
    BY <2>2, <2>3, <2>4, <2>5 DEF Environment
<1>4. TypeOK'
  BY <1>1, <1>2, <1>3 DEF TypeOK
<1>5. MasterCovers'
  BY <1>1, <1>2 DEF MasterCovers, Listening, Watched, Open
<1> QED
  BY <1>2, <1>4, <1>5 DEF SelectInv, Listening, Open

LEMMA AcceptInv ==
  ASSUME SelectInv, Accept
  PROVE  SelectInv'
<1>1. TypeOK /\ MasterCovers
  BY DEF SelectInv
<1>2. PICK newfd \in ClientFd \ Open :
        /\ owner' = [owner EXCEPT ![newfd] = Head(backlog)]
        /\ master' = master \cup {newfd}
        /\ fdmax' = IF newfd > fdmax THEN newfd ELSE fdmax
  BY DEF Accept
<1>3. /\ spc = "scan" /\ backlog # << >>
      /\ backlog' = Tail(backlog) /\ i' = s_fd + 1
      /\ UNCHANGED <<spc, read_fds, input, failed>>
  BY DEF Accept
<1>4. /\ Head(backlog) \in Conns
      /\ backlog' \in Seq(Conns)
  BY <1>1, <1>3, HeadTailProperties DEF TypeOK
<1>5. /\ owner \in [ClientFd -> Conns \cup {NoConn}]
      /\ master \subseteq ClientFd \cup {s_fd}
      /\ fdmax \in ClientFd \cup {s_fd}
  BY <1>1 DEF TypeOK
<1>6. Open' = Open \cup {newfd}
  BY <1>2, <1>4, <1>5, ServerAssumption DEF Open
<1>7. TypeOK'
  <2>1. owner' \in [ClientFd -> Conns \cup {NoConn}]
    BY <1>2, <1>4, <1>5
  <2>2. /\ master' \subseteq ClientFd \cup {s_fd}
        /\ fdmax' \in ClientFd \cup {s_fd}
        /\ i' \in 0..MaxFd + 1
    BY <1>2, <1>3, <1>5, FdFacts, ServerAssumption
  <2> QED
    BY <1>1, <1>3, <1>4, <2>1, <2>2 DEF TypeOK
<1>8. MasterCovers'
  <2>1. /\ s_fd \in master /\ s_fd <= fdmax
        /\ \A f \in Open : f \in master /\ f <= fdmax
        /\ master \subseteq {s_fd, BadFd} \cup Open
        /\ fdmax \in master
    BY <1>1, <1>3 DEF MasterCovers, Listening, Watched
  <2>2. fdmax' \in master' /\ fdmax <= fdmax' /\ newfd <= fdmax'
    BY <1>2, <1>5, <2>1, FdFacts
  <2>3. /\ s_fd \in master' /\ s_fd <= fdmax'
        /\ \A f \in Open' : f \in master' /\ f <= fdmax'
    <3>1. \A f \in ClientFd \cup {s_fd} : f <= fdmax => f <= fdmax'
      BY <1>2, <1>5, <2>2, FdFacts
    <3>2. Open \subseteq ClientFd
      BY DEF Open
    <3> QED
      BY <1>2, <1>6, <2>1, <2>2, <3>1, <3>2
  <2>4. master' \subseteq {s_fd, BadFd} \cup Open'
    BY <1>2, <1>6, <2>1
  <2> QED
    BY <2>2, <2>3, <2>4 DEF MasterCovers, Watched
<1> QED
  BY <1>3, <1>7, <1>8 DEF SelectInv, Listening

LEMMA AcceptFailsInv ==
  ASSUME SelectInv, AcceptFails
  PROVE  SelectInv'
<1>1. TypeOK /\ MasterCovers
  BY DEF SelectInv
<1>2. /\ spc = "scan"
      /\ master' = master \cup {BadFd}
      /\ i' = s_fd + 1
      /\ failed' = TRUE
      /\ UNCHANGED <<spc, read_fds, fdmax, owner, backlog, input>>
  BY DEF AcceptFails
<1>3. TypeOK'
  BY <1>1, <1>2, FdFacts, ServerAssumption DEF TypeOK
<1>4. MasterCovers'
  BY <1>1, <1>2 DEF MasterCovers, Listening, Watched, Open
<1> QED
  BY <1>2, <1>3, <1>4 DEF SelectInv, Listening

LEMMA SetupInv ==
  ASSUME SelectInv, Setup
  PROVE  SelectInv'
<1>1. TypeOK /\ Open = {} /\ spc = "setup"
  BY DEF SelectInv, Setup, Listening
<1>2. /\ \/ spc' = "select" /\ master' = {s_fd} /\ fdmax' = s_fd
         \/ spc' = "stopped" /\ UNCHANGED <<master, fdmax>>
      /\ UNCHANGED <<read_fds, i, owner, backlog, input, failed>>
  BY DEF Setup
<1>3. Open' = {}
  BY <1>1, <1>2 DEF Open
<1>4. TypeOK'
  BY <1>1, <1>2 DEF TypeOK
<1>5. MasterCovers'
  BY <1>2, <1>3, FdFacts DEF MasterCovers, Listening, Watched
<1> QED
  BY <1>2, <1>3, <1>4, <1>5 DEF SelectInv

LEMMA LoopInv ==
  ASSUME SelectInv,
         \/ Select \/ StartReading \/ EndRound
         \/ ReadNothing /\ spc' = "spin"
         \/ UNCHANGED vars
  PROVE  SelectInv'
<1>1. TypeOK /\ MasterCovers /\ (~Listening => Open = {})
  BY DEF SelectInv
<1>2. UNCHANGED <<master, fdmax, owner, backlog, input, failed>>
  BY DEF Select, StartReading, EndRound, ReadNothing, CloseClient, vars, serverVars
<1>3. CASE Select
  <2>1. /\ spc = "select" /\ spc' = "scan" /\ i' = 0
        /\ read_fds' \subseteq master
    BY <1>3 DEF Select, Watched
  <2>2. TypeOK'
    BY <1>1, <1>2, <2>1, FdFacts DEF TypeOK
  <2> QED
    BY <1>1, <1>2, <2>1, <2>2 DEF SelectInv, MasterCovers, Listening, Watched, Open
<1>4. CASE StartReading
  <2>1. /\ spc = "scan" /\ spc' = "read" /\ i' \in ClientFd
        /\ read_fds' = read_fds
    BY <1>4 DEF StartReading
  <2>2. TypeOK'
    BY <1>1, <1>2, <2>1, FdFacts DEF TypeOK
  <2> QED
    BY <1>1, <1>2, <2>1, <2>2 DEF SelectInv, MasterCovers, Listening, Watched, Open
<1>5. CASE EndRound \/ UNCHANGED vars \/ (ReadNothing /\ spc' = "spin")
  <2>1. /\ UNCHANGED <<read_fds, i>>
        /\ \/ spc = "scan" /\ spc' = "select"
           \/ spc' = spc
           \/ spc = "read" /\ spc' = "spin"
    BY <1>5 DEF EndRound, vars, serverVars, ReadNothing, CloseClient
  <2>2. TypeOK'
    BY <1>1, <1>2, <2>1 DEF TypeOK
  <2>3. spc' \in {"read", "spin"} => i' \in ClientFd
    BY <2>1 DEF SelectInv
  <2> QED
    BY <1>1, <1>2, <2>1, <2>2, <2>3 DEF SelectInv, MasterCovers, Listening, Watched, Open
<1> QED
  BY <1>3, <1>4, <1>5, Zenon

LEMMA NextSelectInv == SelectInv /\ [Next]_vars => SelectInv'
<1> SUFFICES ASSUME SelectInv, [Next]_vars PROVE SelectInv'
  OBVIOUS
<1>1. ASSUME NEW c \in Conns, Environment(c) PROVE SelectInv'
  BY <1>1, EnvironmentInv
<1>2. CASE Setup
  BY <1>2, SetupInv
<1>3. CASE Accept
  BY <1>3, AcceptInv
<1>4. CASE AcceptFails
  BY <1>4, AcceptFailsInv
<1>5. CASE FinishLine
  BY <1>5, CloseClientInv DEF FinishLine
<1>6. CASE ReadNothing
  BY <1>6, CloseClientInv, LoopInv, Zenon DEF ReadNothing
<1>7. CASE Select \/ StartReading \/ EndRound \/ UNCHANGED vars
  BY <1>7, LoopInv, Zenon
<1> QED
  BY <1>1, <1>2, <1>3, <1>4, <1>5, <1>6, <1>7, Zenon DEF Next, Server

LEMMA SelectInvariant == Spec => []SelectInv
  BY InitSelectInv, NextSelectInv, PTL DEF Spec

\* The variables of the server, the kernel and the clients keep their types.
THEOREM TypeCorrect == Spec => []TypeOK
<1>1. SelectInv => TypeOK
  BY DEF SelectInv
<1> QED BY <1>1, SelectInvariant, PTL

\* Whatever fails, select is asked about the listening socket and every open
\* client, and fdmax is a member of master.
THEOREM MasterCoversAlways == Spec => []MasterCovers
<1>1. SelectInv => MasterCovers
  BY DEF SelectInv
<1> QED BY <1>1, SelectInvariant, PTL

-----------------------------------------------------------------------------
(* As long as accept does not fail. *)

LEMMA InitServing == Init => Serving
  BY DEF Init, Serving, ExactSets, Listening, Open

LEMMA CloseClientServing ==
  ASSUME SelectInv, Serving, spc = "read", CloseClient
  PROVE  Serving'
<1>1. /\ owner \in [ClientFd -> Conns \cup {NoConn}]
      /\ input \in [Conns -> {"none", "idle", "part", "line", "eof", "empty"}]
      /\ backlog \in Seq(Conns)
      /\ read_fds \subseteq ClientFd \cup {s_fd}
      /\ i \in ClientFd
      /\ fdmax \in ClientFd \cup {s_fd}
  BY DEF SelectInv, TypeOK
<1>2. /\ master' = master \ {i}
      /\ \/ /\ i = fdmax
            /\ \E f \in master' : /\ f <= fdmax
                                  /\ \A g \in master' : g <= fdmax => g <= f
                                  /\ fdmax' = f
         \/ i # fdmax /\ fdmax' = fdmax
      /\ owner' = [owner EXCEPT ![i] = NoConn]
      /\ input' = IF i \in Open THEN [input EXCEPT ![owner[i]] = "none"] ELSE input
      /\ i' = i + 1
      /\ spc' = "scan"
      /\ UNCHANGED <<read_fds, backlog>>
  BY DEF CloseClient
<1>3. Open' = Open \ {i} /\ \A f \in Open' : owner'[f] = owner[f]
  BY <1>1, <1>2 DEF Open
<1>4. /\ master = {s_fd} \cup Open
      /\ fdmax \in master
      /\ \A f \in master : f <= fdmax
  BY DEF Serving, ExactSets, Listening
<1>5. i \in Open /\ owner[i] \in Conns
  <2>1. i \in Open
    BY <1>1, FdFacts DEF Serving
  <2> QED
    BY <1>1, <2>1 DEF Open
<1>6. \A c \in Conns : c # owner[i] => input'[c] = input[c]
  BY <1>1, <1>2
<1>7. ExactSets'
  <2>1. master' = {s_fd} \cup Open'
    BY <1>1, <1>2, <1>3, <1>4, FdFacts
  <2>2. fdmax' \in master' /\ \A f \in master' : f <= fdmax'
    <3>1. CASE i = fdmax
      BY <1>2, <1>4, <3>1
    <3>2. CASE i # fdmax
      BY <1>2, <1>4, <3>2
    <3> QED BY <3>1, <3>2
  <2> QED
    BY <2>1, <2>2 DEF ExactSets
<1>8. \A f \in Open' : owner[f] \in Conns /\ owner[f] # owner[i]
  BY <1>1, <1>3, <1>5 DEF Serving, Open
<1>9. \A f \in Open' : /\ input'[owner'[f]] # "none"
                       /\ \A g \in Open' : owner'[f] = owner'[g] => f = g
  BY <1>3, <1>6, <1>8 DEF Serving
<1>10. \A k \in DOMAIN backlog' :
         /\ input'[backlog'[k]] # "none"
         /\ \A f \in Open' : owner'[f] # backlog'[k]
         /\ \A l \in DOMAIN backlog' : backlog'[k] = backlog'[l] => k = l
  <2> SUFFICES ASSUME NEW k \in DOMAIN backlog
               PROVE  /\ input'[backlog[k]] # "none"
                      /\ \A f \in Open' : owner'[f] # backlog[k]
                      /\ \A l \in DOMAIN backlog : backlog[k] = backlog[l] => k = l
    BY <1>2
  <2>1. backlog[k] \in Conns
    BY <1>1, ElementOfSeq, LenProperties
  <2>2. backlog[k] # owner[i] /\ input[backlog[k]] # "none"
    BY <1>5 DEF Serving
  <2> QED
    BY <1>3, <1>6, <2>1, <2>2 DEF Serving
<1>11. \A f \in read_fds' :
         f >= i' => f = s_fd \/ (f \in Open' /\ input'[owner'[f]] # "idle")
  <2> SUFFICES ASSUME NEW f \in read_fds, f >= i + 1, f # s_fd
               PROVE  f \in Open' /\ input'[owner'[f]] # "idle"
    BY <1>2
  <2>1. f >= i /\ f # i
    BY <1>1, FdFacts
  <2>2. f \in Open /\ input[owner[f]] # "idle"
    BY <2>1 DEF Serving
  <2> QED
    BY <1>3, <1>6, <1>8, <2>1, <2>2
<1> QED
  BY <1>2, <1>7, <1>9, <1>10, <1>11 DEF Serving

LEMMA AcceptServing ==
  ASSUME SelectInv, Serving, Accept
  PROVE  /\ Serving'
         /\ \A f \in ClientFd : owner[f] = NoConn /\ owner'[f] # NoConn
              => f \notin read_fds'
<1>1. /\ owner \in [ClientFd -> Conns \cup {NoConn}]
      /\ input \in [Conns -> {"none", "idle", "part", "line", "eof", "empty"}]
      /\ backlog \in Seq(Conns)
      /\ fdmax \in ClientFd \cup {s_fd}
      /\ read_fds \subseteq ClientFd \cup {s_fd}
  BY DEF SelectInv, TypeOK
<1>2. PICK newfd \in ClientFd \ Open :
        /\ owner' = [owner EXCEPT ![newfd] = Head(backlog)]
        /\ master' = master \cup {newfd}
        /\ fdmax' = IF newfd > fdmax THEN newfd ELSE fdmax
  BY DEF Accept
<1>3. /\ spc = "scan" /\ backlog # << >> /\ i <= s_fd
      /\ backlog' = Tail(backlog) /\ i' = s_fd + 1
      /\ UNCHANGED <<spc, read_fds, input>>
  BY DEF Accept, IsNext, Pending
<1>4. /\ Head(backlog) = backlog[1] /\ Head(backlog) \in Conns
      /\ 1 \in DOMAIN backlog
      /\ \A k \in DOMAIN backlog' : k + 1 \in DOMAIN backlog
                                    /\ backlog'[k] = backlog[k + 1]
      /\ \A k \in DOMAIN backlog' : k \in Nat /\ k > 0
  <2>1. /\ Head(backlog) \in Conns /\ Len(backlog) \in Nat /\ Len(backlog) > 0
        /\ Tail(backlog) \in Seq(Conns)
        /\ Len(Tail(backlog)) = Len(backlog) - 1
        /\ \A k \in 1..Len(Tail(backlog)) : Tail(backlog)[k] = backlog[k + 1]
    BY <1>1, <1>3, HeadTailProperties, EmptySeq, LenProperties
  <2>2. DOMAIN backlog = 1..Len(backlog) /\ DOMAIN backlog' = 1..(Len(backlog) - 1)
    BY <1>1, <1>3, <2>1, LenProperties
  <2>3. Head(backlog) = backlog[1]
    BY <1>1, <1>3
  <2>4. 1 \in DOMAIN backlog /\ \A k \in DOMAIN backlog' : k \in Nat /\ k > 0
    BY <2>1, <2>2
  <2>5. \A k \in DOMAIN backlog' : k \in 1..Len(Tail(backlog)) /\ k + 1 \in DOMAIN backlog
    BY <2>1, <2>2
  <2>6. \A k \in DOMAIN backlog' : backlog'[k] = backlog[k + 1]
    BY <1>3, <2>1, <2>5
  <2> QED
    BY <2>1, <2>3, <2>4, <2>5, <2>6
<1>5. Open' = Open \cup {newfd} /\ owner'[newfd] = backlog[1]
  BY <1>1, <1>2, <1>4, ServerAssumption DEF Open
<1>6. \A f \in Open : f # newfd /\ owner'[f] = owner[f] /\ owner[f] # backlog[1]
  <2>1. \A f \in Open : f # newfd /\ f \in ClientFd
    BY <1>2 DEF Open
  <2>2. \A f \in Open : owner'[f] = owner[f]
    BY <1>1, <1>2, <2>1
  <2>3. \A f \in Open : owner[f] # backlog[1]
    BY <1>4 DEF Serving
  <2> QED
    BY <2>1, <2>2, <2>3
<1>7. newfd \notin read_fds
  <2>1. i \in Int
    BY DEF SelectInv, TypeOK
  <2>2. newfd >= i /\ newfd # s_fd
    BY <1>2, <1>3, <2>1, FdFacts
  <2> QED
    BY <1>2, <1>3, <2>2 DEF Serving
<1>8. ExactSets'
  <2>1. /\ master = {s_fd} \cup Open
        /\ fdmax \in master
        /\ \A f \in master : f <= fdmax
    BY <1>3 DEF Serving, ExactSets, Listening
  <2>2. master' = {s_fd} \cup Open'
    BY <1>2, <1>5, <2>1
  <2>3. fdmax' \in master' /\ fdmax <= fdmax' /\ newfd <= fdmax'
    BY <1>1, <1>2, <2>1, FdFacts
  <2>4. \A f \in ClientFd \cup {s_fd} : f <= fdmax => f <= fdmax'
    BY <1>1, <1>2, <2>3, FdFacts
  <2>5. master \subseteq ClientFd \cup {s_fd}
    BY DEF SelectInv, TypeOK
  <2>6. \A f \in master' : f <= fdmax'
    BY <1>2, <2>1, <2>3, <2>4, <2>5
  <2> QED
    BY <2>2, <2>3, <2>6 DEF ExactSets
<1>9. \A f \in Open' : /\ input'[owner'[f]] # "none"
                       /\ \A g \in Open' : owner'[f] = owner'[g] => f = g
  <2>1. input[backlog[1]] # "none"
    BY <1>4 DEF Serving
  <2> QED
    BY <1>3, <1>5, <1>6, <2>1 DEF Serving
<1>10. \A k \in DOMAIN backlog' :
         /\ input'[backlog'[k]] # "none"
         /\ \A f \in Open' : owner'[f] # backlog'[k]
         /\ \A l \in DOMAIN backlog' : backlog'[k] = backlog'[l] => k = l
  <2> TAKE k \in DOMAIN backlog'
  <2>1. /\ k + 1 \in DOMAIN backlog /\ backlog'[k] = backlog[k + 1] /\ k + 1 # 1
        /\ k \in Nat
    BY <1>4
  <2>2. input'[backlog'[k]] # "none"
    BY <1>3, <2>1 DEF Serving
  <2>3. backlog[k + 1] # backlog[1]
    BY <1>4, <2>1 DEF Serving
  <2>4. \A f \in Open' : owner'[f] # backlog'[k]
    BY <1>5, <1>6, <2>1, <2>3 DEF Serving
  <2>5. \A l \in DOMAIN backlog' : backlog'[k] = backlog'[l] => k = l
    <3> TAKE l \in DOMAIN backlog'
    <3>1. l + 1 \in DOMAIN backlog /\ backlog'[l] = backlog[l + 1] /\ l \in Nat
      BY <1>4
    <3>2. backlog[k + 1] = backlog[l + 1] => k + 1 = l + 1
      BY <2>1, <3>1 DEF Serving
    <3> QED BY <2>1, <3>1, <3>2
  <2> QED BY <2>2, <2>4, <2>5
<1>11. \A f \in read_fds' :
         f >= i' => f = s_fd \/ (f \in Open' /\ input'[owner'[f]] # "idle")
  <2> SUFFICES ASSUME NEW f \in read_fds, f >= s_fd + 1, f # s_fd
               PROVE  f \in Open' /\ input[owner'[f]] # "idle"
    BY <1>3
  <2>1. f >= i
    <3>1. i \in Int
      BY DEF SelectInv, TypeOK
    <3> QED BY <1>1, <1>3, <3>1, FdFacts
  <2>2. f \in Open /\ input[owner[f]] # "idle"
    BY <1>3, <2>1 DEF Serving
  <2> QED
    BY <1>5, <1>6, <2>2
<1>12. \A f \in ClientFd : owner[f] = NoConn /\ owner'[f] # NoConn
         => f \notin read_fds'
  BY <1>1, <1>2, <1>3, <1>7
<1> QED
  BY <1>3, <1>8, <1>9, <1>10, <1>11, <1>12 DEF Serving

LEMMA EnvironmentServing ==
  ASSUME SelectInv, Serving, NEW c \in Conns, Environment(c)
  PROVE  Serving'
<1>1. /\ owner \in [ClientFd -> Conns \cup {NoConn}]
      /\ input \in [Conns -> {"none", "idle", "part", "line", "eof", "empty"}]
      /\ backlog \in Seq(Conns)
  BY DEF SelectInv, TypeOK
<1>2. UNCHANGED <<master, read_fds, fdmax, i, spc, owner>>
  BY Zenon DEF Environment, Connect, SendPart, SendRest, HangUp, serverVars
<1>3. Open' = Open /\ ExactSets'
  BY <1>2 DEF Open, ExactSets, Listening, Serving
<1>4. \A f \in Open : owner[f] \in Conns
  BY <1>1 DEF Open
<1>5. \A k \in DOMAIN backlog : backlog[k] \in Conns
  BY <1>1, ElementOfSeq, LenProperties
<1>6. CASE input[c] # "none"
  <2>1. backlog' = backlog
    BY <1>6 DEF Environment, Connect, SendPart, SendRest, HangUp
  <2>2. \A d \in Conns : /\ input[d] # "none" => input'[d] # "none"
                         /\ input[d] # "idle" => input'[d] # "idle"
    BY <1>1, <1>6 DEF Environment, Connect, SendPart, SendRest, HangUp
  <2> QED
    BY <1>2, <1>3, <1>4, <1>5, <2>1, <2>2 DEF Serving
<1>7. CASE input[c] = "none"
  <2>1. /\ input' = [input EXCEPT ![c] = "idle"]
        /\ backlog' = Append(backlog, c)
    BY <1>7 DEF Environment, Connect, SendPart, SendRest, HangUp
  <2>2. /\ \A f \in Open : owner[f] # c
        /\ \A k \in DOMAIN backlog : backlog[k] # c
    BY <1>7 DEF Serving
  <2>3. \A d \in Conns : d # c => input'[d] = input[d]
    BY <1>1, <2>1
  <2>4. input'[c] = "idle"
    BY <1>1, <2>1
  <2>5. \A k \in DOMAIN backlog' :
          \/ k \in DOMAIN backlog /\ backlog'[k] = backlog[k]
          \/ k = Len(backlog) + 1 /\ backlog'[k] = c
    <3>1. /\ Len(backlog') = Len(backlog) + 1 /\ backlog' \in Seq(Conns)
          /\ \A k \in 1..Len(backlog) : backlog'[k] = backlog[k]
          /\ backlog'[Len(backlog) + 1] = c
      BY <1>1, <2>1, AppendProperties
    <3>2. /\ Len(backlog) \in Nat
          /\ DOMAIN backlog = 1..Len(backlog)
          /\ DOMAIN backlog' = 1..(Len(backlog) + 1)
      BY <1>1, <3>1, LenProperties
    <3> QED
      BY <3>1, <3>2
  <2>6. \A f \in Open' : /\ input'[owner'[f]] # "none"
                         /\ \A g \in Open' : owner'[f] = owner'[g] => f = g
    BY <1>2, <1>3, <1>4, <2>2, <2>3 DEF Serving
  <2>7. \A k \in DOMAIN backlog' :
          /\ input'[backlog'[k]] # "none"
          /\ \A f \in Open' : owner'[f] # backlog'[k]
          /\ \A l \in DOMAIN backlog' : backlog'[k] = backlog'[l] => k = l
    <3> TAKE k \in DOMAIN backlog'
    <3>1. CASE k \in DOMAIN backlog /\ backlog'[k] = backlog[k]
      <4>1. input'[backlog'[k]] # "none" /\ \A f \in Open' : owner'[f] # backlog'[k]
        BY <1>2, <1>3, <1>5, <2>2, <2>3, <3>1 DEF Serving
      <4>2. \A l \in DOMAIN backlog' : backlog'[k] = backlog'[l] => k = l
        BY <2>2, <2>5, <3>1 DEF Serving
      <4> QED BY <4>1, <4>2
    <3>2. CASE k = Len(backlog) + 1 /\ backlog'[k] = c
      <4>1. input'[backlog'[k]] # "none" /\ \A f \in Open' : owner'[f] # backlog'[k]
        BY <1>2, <1>3, <2>2, <2>4, <3>2
      <4>2. \A l \in DOMAIN backlog' : backlog'[k] = backlog'[l] => k = l
        BY <2>2, <2>5, <3>2
      <4> QED BY <4>1, <4>2
    <3> QED BY <2>5, <3>1, <3>2
  <2>8. spc' \in {"scan", "read"} =>
          \A f \in read_fds' :
            f >= i' => f = s_fd \/ (f \in Open' /\ input'[owner'[f]] # "idle")
    BY <1>2, <1>3, <1>4, <2>2, <2>3 DEF Serving
  <2> QED
    BY <1>2, <1>3, <2>6, <2>7, <2>8 DEF Serving
<1> QED BY <1>6, <1>7

LEMMA SetupServing ==
  ASSUME SelectInv, Serving, Setup
  PROVE  Serving'
<1>1. Open = {} /\ spc = "setup"
  BY DEF SelectInv, Setup, Listening
<1>2. /\ \/ spc' = "select" /\ master' = {s_fd} /\ fdmax' = s_fd
         \/ spc' = "stopped" /\ UNCHANGED <<master, fdmax>>
      /\ UNCHANGED <<read_fds, i, owner, backlog, input>>
  BY DEF Setup
<1>3. Open' = {}
  BY <1>1, <1>2 DEF Open
<1>4. ExactSets'
  BY <1>2, <1>3, FdFacts DEF ExactSets, Listening
<1> QED
  BY <1>1, <1>2, <1>3, <1>4 DEF Serving

LEMMA LoopServing ==
  ASSUME SelectInv, Serving,
         \/ Select \/ StartReading \/ EndRound
         \/ (ReadNothing /\ spc' = "spin")
         \/ UNCHANGED vars
  PROVE  Serving'
<1>1. UNCHANGED <<master, fdmax, owner, backlog, input>>
  BY DEF Select, StartReading, EndRound, ReadNothing, CloseClient, vars, serverVars
<1>2. Open' = Open
  BY <1>1 DEF Open
<1>3. CASE Select
  <2>1. /\ spc = "select" /\ spc' = "scan"
        /\ \/ read_fds' = Watched \cap Ready
           \/ ~(Watched \subseteq Open \cup {s_fd})
    BY <1>3 DEF Select
  <2>2. Watched \subseteq Open \cup {s_fd}
    BY <2>1 DEF Watched, Serving, ExactSets, Listening
  <2>3. \A f \in read_fds' : f = s_fd \/ (f \in Open' /\ input'[owner'[f]] # "idle")
    BY <1>1, <1>2, <2>1, <2>2 DEF Ready
  <2>4. ExactSets'
    BY <1>1, <1>2, <2>1 DEF Serving, ExactSets, Listening
  <2> QED
    BY <1>1, <1>2, <2>1, <2>3, <2>4 DEF Serving
<1>4. CASE StartReading
  <2>1. /\ spc = "scan" /\ spc' = "read" /\ read_fds' = read_fds
        /\ i' \in read_fds /\ i <= i' /\ i' \in ClientFd
    BY <1>4 DEF StartReading, IsNext, Pending
  <2>2. \A f \in read_fds : f >= i' => f >= i
    BY <2>1, FdFacts DEF SelectInv, TypeOK
  <2>3. ExactSets'
    BY <1>1, <1>2, <2>1 DEF Serving, ExactSets, Listening
  <2> QED
    BY <1>1, <1>2, <2>1, <2>2, <2>3 DEF Serving
<1>5. CASE EndRound \/ UNCHANGED vars \/ (ReadNothing /\ spc' = "spin")
  <2>1. /\ UNCHANGED <<read_fds, i>>
        /\ \/ spc = "scan" /\ spc' = "select"
           \/ spc' = spc
           \/ spc = "read" /\ spc' = "spin"
    BY <1>5 DEF EndRound, vars, serverVars, ReadNothing, CloseClient
  <2>2. ExactSets'
    BY <1>1, <1>2, <2>1 DEF Serving, ExactSets, Listening
  <2> QED
    BY <1>1, <1>2, <2>1, <2>2 DEF Serving
<1> QED
  BY <1>3, <1>4, <1>5, Zenon

LEMMA NextServing ==
  ASSUME SelectInv, Serving, [Next]_vars, ~failed'
  PROVE  Serving'
<1>1. ASSUME NEW c \in Conns, Environment(c) PROVE Serving'
  BY <1>1, EnvironmentServing
<1>2. CASE Setup
  BY <1>2, SetupServing
<1>3. CASE Accept
  BY <1>3, AcceptServing
<1>4. CASE FinishLine
  BY <1>4, CloseClientServing DEF FinishLine
<1>5. CASE ReadNothing
  BY <1>5, CloseClientServing, LoopServing, Zenon DEF ReadNothing
<1>6. CASE Select \/ StartReading \/ EndRound \/ UNCHANGED vars
  BY <1>6, LoopServing, Zenon
<1>7. ~AcceptFails
  BY DEF AcceptFails
<1> QED
  BY <1>1, <1>2, <1>3, <1>4, <1>5, <1>6, <1>7, Zenon DEF Next, Server

\* No step forgets that an accept has failed.
LEMMA FailedStays == [Next]_vars /\ failed => failed'
  BY Zenon DEF Next, Server, Setup, Select, Accept, AcceptFails, StartReading,
               FinishLine, ReadNothing, CloseClient, EndRound, Environment,
               Connect, SendPart, SendRest, HangUp, vars

\* The bookkeeping of connections, master and read_fds is exact for as long
\* as accept does not fail.
THEOREM ServingInvariant == Spec => []ServingInv
<1>1. Init => ServingInv
  BY InitServing DEF ServingInv
<1>2. SelectInv /\ ServingInv /\ [Next]_vars => ServingInv'
  BY NextServing, FailedStays, Zenon DEF ServingInv
<1> QED
  BY <1>1, <1>2, SelectInvariant, PTL DEF Spec

\* Then select watches the listening socket and the open clients, no more,
\* no less, and fdmax is the largest of them.
THEOREM MasterExactAlways == Spec => []MasterExact
<1>1. ServingInv => MasterExact
  BY DEF ServingInv, Serving, MasterExact
<1> QED BY <1>1, ServingInvariant, PTL

\* And the server only enters the read loop on a client that has sent
\* something or hung up.
THEOREM ReadsReadyAlways == Spec => []ReadsReady
<1>1. SelectInv /\ ServingInv => ReadsReady
  BY FdFacts DEF SelectInv, TypeOK, ServingInv, Serving, ReadsReady, ReadsReadyOnly
<1> QED BY <1>1, SelectInvariant, ServingInvariant, PTL

\* Only Accept gives a descriptor an owner.
LEMMA OnlyAcceptOpens ==
  ASSUME SelectInv, [Next]_vars, ~Accept, NEW f \in ClientFd, owner[f] = NoConn
  PROVE  owner'[f] = NoConn
<1>1. owner \in [ClientFd -> Conns \cup {NoConn}]
  BY DEF SelectInv, TypeOK
<1>2. CASE CloseClient
  <2>1. owner' = [owner EXCEPT ![i] = NoConn]
    BY <1>2 DEF CloseClient
  <2> QED BY <1>1, <2>1
<1>3. CASE UNCHANGED owner
  BY <1>3
<1>4. CloseClient \/ UNCHANGED owner
  BY Zenon DEF Next, Server, Setup, Select, AcceptFails, StartReading, FinishLine,
               ReadNothing, EndRound, Environment, Connect, SendPart, SendRest,
               HangUp, vars
<1> QED BY <1>2, <1>3, <1>4, Zenon

\* No connection is served on a ready bit of an earlier owner of its
\* descriptor number.
THEOREM NoInheritance == Spec => NoInheritedReadiness
<1>1. ASSUME SelectInv, ServingInv, [Next]_vars, ~failed, NEW f \in ClientFd,
             owner[f] = NoConn, owner'[f] # NoConn
      PROVE  f \notin read_fds'
  BY <1>1, AcceptServing, OnlyAcceptOpens DEF ServingInv
<1>2. SelectInv /\ ServingInv /\ [Next]_vars
        => [~failed => \A f \in ClientFd : owner[f] = NoConn /\ owner'[f] # NoConn
              => f \notin read_fds']_vars
  BY <1>1, Zenon
<1> QED
  BY <1>2, SelectInvariant, ServingInvariant, PTL DEF Spec, NoInheritedReadiness
=============================================================================
