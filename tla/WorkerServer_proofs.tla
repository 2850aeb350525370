-------------------------- MODULE WorkerServer_proofs --------------------------
(***************************************************************************)
(* Proofs about WorkerServer for any clients, descriptors, backlog and     *)
(* faults, and for both servers: the types, when the handler can wait in   *)
(* vain, the owners of the descriptors, and the refinement of           *)
(* LineService.                                                            *)
(***************************************************************************)
EXTENDS WorkerServer, SequenceTheorems, FiniteSetTheorems, TLAPS

-----------------------------------------------------------------------------
(* Types. *)

LEMMA InitTypes == Init => TypeOK
<1> SUFFICES ASSUME Init PROVE TypeOK
  OBVIOUS
<1>1. << >> \in Seq(Conns)
  OBVIOUS
<1>2. stops \in 0 .. MaxStops
  BY WorkerAssumption DEF Init
<1> QED
  BY <1>1, <1>2 DEF Init, TypeOK, Using

\* A client joins the backlog.
LEMMA ConnectTypes ==
  ASSUME TypeOK, NEW c \in Conns, Connect(c)
  PROVE  TypeOK'
<1>1. backlog' \in Seq(Conns)
  BY AppendProperties DEF TypeOK, Connect
<1>2. input' \in [Conns -> {"none", "idle", "line", "eof", "empty"}]
  BY DEF TypeOK, Connect
<1> QED
  BY <1>1, <1>2 DEF TypeOK, Connect, Using, workerVars, signalVars

LEMMA FinishTypes ==
  ASSUME TypeOK, NEW c \in Conns, Finish(c)
  PROVE  TypeOK'
<1>1. input' \in [Conns -> {"none", "idle", "line", "eof", "empty"}]
  BY DEF TypeOK, Finish
<1> QED
  BY <1>1 DEF TypeOK, Finish, Using, mainVars, workerVars, signalVars

LEMMA AcceptTypes ==
  ASSUME TypeOK, Accept
  PROVE  TypeOK'
<1>1. PICK f \in ClientFd \ Open :
        newfd' = f /\ owner' = [owner EXCEPT ![f] = Head(backlog)]
  BY DEF Accept
<1>2. Head(backlog) \in Conns /\ Tail(backlog) \in Seq(Conns)
  BY HeadTailProperties DEF TypeOK, Accept
<1>3. owner' \in [ClientFd -> Conns \cup {NoConn}]
  BY <1>1, <1>2 DEF TypeOK
<1> QED
  BY <1>1, <1>2, <1>3 DEF TypeOK, Accept, Using, workerVars, signalVars

\* The other steps of main.
LEMMA MainTypes ==
  ASSUME TypeOK, Main
  PROVE  TypeOK'
<1>1. CASE Setup
  BY <1>1 DEF TypeOK, Setup, Using, workerVars, signalVars
<1>2. CASE Accept
  BY <1>2, AcceptTypes
<1>3. CASE AcceptFails
  BY <1>3 DEF TypeOK, AcceptFails, vars, Using, mainVars, workerVars, signalVars
<1>4. CASE Spawn
  <2>1. PICK c \in Conns : /\ wpc' = [wpc EXCEPT ![c] = "start"]
                           /\ c_fd' = [c_fd EXCEPT ![c] = newfd]
    BY <1>4 DEF Spawn
  <2>2. c_fd' \in [Conns -> ClientFd \cup {-1}]
    BY <2>1 DEF TypeOK
  <2>3. wpc' \in [Conns -> {"none", "start", "read", "spin", "print", "close",
                            "exit", "zombie", "gone"}]
    BY <2>1 DEF TypeOK
  <2> QED
    BY <1>4, <2>2, <2>3 DEF TypeOK, Spawn, Using, signalVars
<1>5. CASE SpawnFails
  BY <1>5 DEF TypeOK, SpawnFails, Using, workerVars, signalVars
<1> QED
  BY <1>1, <1>2, <1>3, <1>4, <1>5 DEF Main

\* The connection a worker looks at is one of the table.
LEMMA PeerType ==
  ASSUME TypeOK, NEW c \in Conns, Using(c)
  PROVE  Peer(c) \in Conns \cup {NoConn}
BY DEF TypeOK, Peer

LEMMA WorkerTypes ==
  ASSUME TypeOK, DescriptorOwned, NEW c \in Conns, Worker(c)
  PROVE  TypeOK'
<1>1. CASE StartWorker(c)
  BY <1>1 DEF TypeOK, StartWorker, Using, mainVars, signalVars
<1>2. CASE ReadLine(c)
  <2>1. Peer(c) \in Conns \cup {NoConn}
    BY <1>2, PeerType DEF ReadLine, Using
  <2>2. line' \in [Conns -> Conns \cup {NoConn}]
    BY <1>2, <2>1 DEF TypeOK, ReadLine
  <2> QED
    BY <1>2, <2>2 DEF TypeOK, ReadLine, Using, mainVars, signalVars
<1>3. CASE ReadNothing(c)
  <2>1. Peer(c) \in Conns \cup {NoConn}
    BY <1>3, PeerType DEF ReadNothing, Using
  <2>2. line' \in [Conns -> Conns \cup {NoConn}]
    BY <1>3, <2>1 DEF TypeOK, ReadNothing
  <2>3. PICK s \in {"print", "spin"} : wpc' = [wpc EXCEPT ![c] = s]
    BY <1>3 DEF ReadNothing
  <2> QED
    BY <1>3, <2>2, <2>3 DEF TypeOK, ReadNothing, Using, mainVars, signalVars
<1>4. CASE PrintLine(c)
  <2>1. printed' \in Seq(Conns)
    BY <1>4, AppendProperties DEF TypeOK, PrintLine
  <2>2. wpc' \in [Conns -> {"none", "start", "read", "spin", "print", "close",
                            "exit", "zombie", "gone"}]
    BY <1>4 DEF TypeOK, PrintLine
  <2>3. (\A d \in Conns : Using(d) => c_fd[d] \in ClientFd)'
    BY <1>4 DEF TypeOK, PrintLine, Using
  <2>4. (\A d \in Conns : wpc[d] = "print" => line[d] \in Conns)'
    BY <1>4 DEF TypeOK, PrintLine
  <2> QED
    BY <1>4, <2>1, <2>2, <2>3, <2>4 DEF TypeOK, PrintLine, mainVars, signalVars
<1>5. CASE Shutdown(c)
  BY <1>5 DEF TypeOK, Shutdown, Using, mainVars, signalVars
<1>6. CASE CloseFd(c)
  <2>1. c_fd[c] \in ClientFd /\ owner[c_fd[c]] = c
    BY <1>6 DEF TypeOK, CloseFd, DescriptorOwned, Using
  <2> QED
    BY <1>6, <2>1 DEF TypeOK, CloseFd, Using, signalVars
<1>7. CASE ExitProcess(c)
  BY <1>7 DEF TypeOK, ExitProcess, Using, mainVars
<1>8. CASE ExitThread(c)
  BY <1>8 DEF TypeOK, ExitThread, Using, mainVars, signalVars
<1> QED
  BY <1>1, <1>2, <1>3, <1>4, <1>5, <1>6, <1>7, <1>8 DEF Worker

LEMMA HandlerTypes ==
  ASSUME TypeOK, SignalHandler
  PROVE  TypeOK'
<1>1. CASE HandleSignal
  BY <1>1 DEF TypeOK, HandleSignal, Using, mainVars, workerVars
<1>2. ASSUME NEW c \in Conns, Reap(c) PROVE TypeOK'
  BY <1>2 DEF TypeOK, Reap, Using, mainVars
<1>3. CASE ReapNone
  BY <1>3 DEF TypeOK, ReapNone, Using, mainVars, workerVars
<1> QED
  BY <1>1, <1>2, <1>3 DEF SignalHandler

LEMMA StopTypes ==
  ASSUME TypeOK, NEW c \in Conns, StopOrContinue(c)
  PROVE  TypeOK'
<1>1. halted' \subseteq Conns /\ stops' \in 0 .. MaxStops
  BY WorkerAssumption DEF TypeOK, StopOrContinue
<1> QED
  BY <1>1 DEF TypeOK, StopOrContinue, Using, mainVars, workerVars

LEMMA NextTypes == TypeOK /\ DescriptorOwned /\ [Next]_vars => TypeOK'
<1> SUFFICES ASSUME TypeOK, DescriptorOwned, [Next]_vars PROVE TypeOK'
  OBVIOUS
<1>1. CASE Main
  BY <1>1, MainTypes
<1>2. CASE SignalHandler
  BY <1>2, HandlerTypes
<1>3. ASSUME NEW c \in Conns, Connect(c) \/ Finish(c) \/ Worker(c) \/ StopOrContinue(c)
      PROVE  TypeOK'
  BY <1>3, ConnectTypes, FinishTypes, WorkerTypes, StopTypes
<1>4. CASE UNCHANGED vars
  BY <1>4 DEF TypeOK, Using, vars, mainVars, workerVars, signalVars
<1> QED
  BY <1>1, <1>2, <1>3, <1>4 DEF Next

-----------------------------------------------------------------------------
(* Connections and descriptors. *)

\* printed as a set.
LEMMA PrintedAppend ==
  ASSUME NEW q \in Seq(Conns), NEW c \in Conns
  PROVE  ToSet(Append(q, c)) = ToSet(q) \cup {c}
BY AppendProperties, LenProperties DEF ToSet

LEMMA InitInv == Init => WorkerInv
<1> SUFFICES ASSUME Init PROVE WorkerInv
  OBVIOUS
<1>1. ToSet(printed) = {} /\ DOMAIN backlog = {}
  BY DEF Init, ToSet
<1>2. Open = {}
  BY DEF Init, Open
<1>3. DescriptorOwned /\ OneDescriptor /\ BacklogWaits /\ AcceptedWaits
  BY <1>1, <1>2 DEF Init, DescriptorOwned, OneDescriptor, BacklogWaits,
                    AcceptedWaits, Using
<1>4. \A c \in Conns : ProgressKnown(c)
  BY <1>1, WorkerAssumption DEF Init, ProgressKnown
<1> QED
  BY <1>3, <1>4 DEF WorkerInv

\* A new connection is the last of the backlog and nowhere else.
LEMMA ConnectInv ==
  ASSUME TypeOK, WorkerInv, NEW c \in Conns, Connect(c)
  PROVE  WorkerInv'
<1>1. /\ UNCHANGED <<spc, newfd, owner, wpc, c_fd, line, printed, ended>>
      /\ input[c] = "none"
      /\ input' = [input EXCEPT ![c] = "idle"]
      /\ backlog' = Append(backlog, c)
  BY Zenon DEF Connect, workerVars
<1>2. Open' = Open
  BY <1>1 DEF Open
<1>3. wpc[c] = "none" /\ \A f \in ClientFd : owner[f] # c
  BY <1>1 DEF WorkerInv, ProgressKnown
<1>4. \A d \in Conns : Waiting(d) => Waiting(d)'
  BY <1>1 DEF Waiting, TypeOK
<1>5. DescriptorOwned' /\ OneDescriptor'
  BY <1>1, <1>2 DEF WorkerInv, DescriptorOwned, OneDescriptor, Using
<1>6. BacklogWaits'
  <2>1. /\ DOMAIN backlog = 1..Len(backlog) /\ Len(backlog) \in Nat
        /\ DOMAIN backlog' = 1..(Len(backlog) + 1)
        /\ \A i \in 1..Len(backlog) : backlog[i] \in Conns /\ backlog'[i] = backlog[i]
        /\ backlog'[Len(backlog) + 1] = c
    BY <1>1, AppendProperties, LenProperties, ElementOfSeq DEF TypeOK
  <2>2. \A i \in 1..Len(backlog) : backlog[i] # c
    BY <1>1, <2>1 DEF WorkerInv, BacklogWaits, Waiting
  <2>3. Waiting(c)'
    BY <1>1, <1>3 DEF Waiting, TypeOK
  <2>4. (\A i \in DOMAIN backlog : Waiting(backlog[i]))'
    BY <1>4, <2>1, <2>3 DEF WorkerInv, BacklogWaits
  <2>5. (\A i, j \in DOMAIN backlog : backlog[i] = backlog[j] => i = j)'
    BY <2>1, <2>2 DEF WorkerInv, BacklogWaits
  <2>6. (\A i \in DOMAIN backlog, f \in ClientFd : owner[f] # backlog[i])'
    BY <1>1, <1>3, <2>1 DEF WorkerInv, BacklogWaits
  <2> QED
    BY <2>4, <2>5, <2>6 DEF BacklogWaits
<1>7. AcceptedWaits'
  BY <1>1, <1>2, <1>4 DEF WorkerInv, AcceptedWaits, TypeOK, Open
<1>8. ASSUME NEW d \in Conns PROVE ProgressKnown(d)'
  BY <1>1 DEF WorkerInv, ProgressKnown, TypeOK
<1> QED
  BY <1>5, <1>6, <1>7, <1>8 DEF WorkerInv

LEMMA FinishInv ==
  ASSUME TypeOK, WorkerInv, NEW c \in Conns, Finish(c)
  PROVE  WorkerInv'
<1>1. /\ UNCHANGED <<spc, newfd, owner, backlog, wpc, c_fd, line, printed, ended>>
      /\ \E s \in {"line", "eof", "empty"} : input' = [input EXCEPT ![c] = s]
      /\ input[c] # "none"
  BY Zenon DEF Finish, mainVars, workerVars
<1>2. Open' = Open
  BY <1>1 DEF Open
<1>3. \A d \in Conns : (input'[d] = "none") <=> (input[d] = "none")
  BY <1>1 DEF TypeOK
<1>4. \A d \in Conns : Waiting(d) => Waiting(d)'
  BY <1>1, <1>3 DEF Waiting
<1>5. DescriptorOwned' /\ OneDescriptor'
  BY <1>1, <1>2 DEF WorkerInv, DescriptorOwned, OneDescriptor, Using
<1>6. BacklogWaits'
  <2>1. \A i \in DOMAIN backlog : backlog[i] \in Conns
    BY ElementOfSeq, LenProperties DEF TypeOK
  <2> QED
    BY <1>1, <1>4, <2>1 DEF WorkerInv, BacklogWaits
<1>7. AcceptedWaits'
  BY <1>1, <1>2, <1>4 DEF WorkerInv, AcceptedWaits, TypeOK, Open
<1>8. ASSUME NEW d \in Conns PROVE ProgressKnown(d)'
  BY <1>1, <1>3 DEF WorkerInv, ProgressKnown
<1> QED
  BY <1>5, <1>6, <1>7, <1>8 DEF WorkerInv

\* The head of the backlog moves to a free descriptor and into main's hands.
LEMMA AcceptInv ==
  ASSUME TypeOK, WorkerInv, Accept
  PROVE  WorkerInv'
<1>1. PICK f \in ClientFd \ Open :
        newfd' = f /\ owner' = [owner EXCEPT ![f] = Head(backlog)]
  BY DEF Accept
<1> DEFINE h == Head(backlog)
<1>2. /\ UNCHANGED <<input, wpc, c_fd, line, printed, ended>>
      /\ backlog' = Tail(backlog) /\ backlog # << >>
      /\ spc' = "spawn"
  BY Zenon DEF Accept, workerVars
<1>3. /\ Len(backlog) \in Nat /\ DOMAIN backlog = 1..Len(backlog)
      /\ 1 \in DOMAIN backlog /\ h = backlog[1] /\ h \in Conns
      /\ DOMAIN backlog' = 1..(Len(backlog) - 1)
      /\ \A i \in 1..(Len(backlog) - 1) :
           i + 1 \in DOMAIN backlog /\ backlog'[i] = backlog[i + 1]
  BY <1>2, HeadTailProperties, EmptySeq, LenProperties, ElementOfSeq DEF TypeOK
<1>4. h # NoConn /\ Waiting(h) /\ \A g \in ClientFd : owner[g] # h
  BY <1>3, WorkerAssumption DEF WorkerInv, BacklogWaits
<1>5. /\ owner[f] = NoConn
      /\ owner'[f] = h
      /\ \A g \in ClientFd : g # f => owner'[g] = owner[g]
      /\ Open' = Open \cup {f}
  BY <1>1, <1>4 DEF TypeOK, Open
<1>6. \A d \in Conns : Waiting(d)' <=> Waiting(d)
  BY <1>2 DEF Waiting
<1>7. DescriptorOwned'
  <2> SUFFICES ASSUME NEW d \in Conns, Using(d)' PROVE owner'[c_fd'[d]] = d
    BY DEF DescriptorOwned
  <2>1. Using(d) /\ c_fd'[d] = c_fd[d]
    BY <1>2 DEF Using
  <2>2. owner[c_fd[d]] = d /\ c_fd[d] \in ClientFd
    BY <2>1 DEF WorkerInv, DescriptorOwned, TypeOK
  <2>3. c_fd[d] # f
    BY <1>5, <2>2, WorkerAssumption
  <2> QED
    BY <1>5, <2>1, <2>2, <2>3
<1>8. OneDescriptor'
  BY <1>4, <1>5 DEF WorkerInv, OneDescriptor, Open
<1>9. BacklogWaits'
  <2>1. \A i \in 1..(Len(backlog) - 1) : backlog'[i] # h
    BY <1>3 DEF WorkerInv, BacklogWaits
  <2>2. (\A i, j \in DOMAIN backlog : backlog[i] = backlog[j] => i = j)'
    <3> SUFFICES ASSUME NEW i \in 1..(Len(backlog) - 1),
                        NEW j \in 1..(Len(backlog) - 1), backlog'[i] = backlog'[j]
                 PROVE  i = j
      BY <1>3
    <3>1. backlog[i + 1] = backlog[j + 1]
      BY <1>3
    <3>2. i + 1 = j + 1
      BY <1>3, <3>1, Zenon DEF WorkerInv, BacklogWaits
    <3> QED
      BY <3>2
  <2>3. (\A i \in DOMAIN backlog : Waiting(backlog[i]))'
    <3>1. \A i \in DOMAIN backlog : backlog[i] \in Conns /\ Waiting(backlog[i])
      BY <1>3, ElementOfSeq DEF TypeOK, WorkerInv, BacklogWaits
    <3> QED
      BY <1>3, <1>6, <3>1
  <2>4. (\A i \in DOMAIN backlog, g \in ClientFd : owner[g] # backlog[i])'
    BY <1>3, <1>5, <2>1 DEF WorkerInv, BacklogWaits
  <2> QED
    BY <2>2, <2>3, <2>4 DEF BacklogWaits
<1>10. AcceptedWaits'
  BY <1>1, <1>3, <1>4, <1>5, <1>6 DEF AcceptedWaits
<1>11. ASSUME NEW d \in Conns PROVE ProgressKnown(d)'
  BY <1>2, <1>4, <1>5 DEF WorkerInv, ProgressKnown, Waiting
<1> QED
  BY <1>7, <1>8, <1>9, <1>10, <1>11 DEF WorkerInv

\* What main holds becomes a worker's.
LEMMA SpawnInv ==
  ASSUME TypeOK, WorkerInv, Spawn
  PROVE  WorkerInv'
<1>1. PICK c \in Conns : /\ owner[newfd] = c
                         /\ wpc' = [wpc EXCEPT ![c] = "start"]
                         /\ c_fd' = [c_fd EXCEPT ![c] = newfd]
  BY DEF Spawn
<1>2. /\ UNCHANGED <<owner, backlog, input, line, printed, ended>>
      /\ spc = "spawn" /\ spc' = "accept"
  BY Zenon DEF Spawn
<1>3. newfd \in ClientFd /\ wpc[c] = "none" /\ input[c] # "none"
  BY <1>1, <1>2 DEF WorkerInv, AcceptedWaits, Waiting, Open
<1>4. Open' = Open
  BY <1>2 DEF Open
<1>5. /\ wpc'[c] = "start" /\ c_fd'[c] = newfd
      /\ \A d \in Conns : d # c => wpc'[d] = wpc[d] /\ c_fd'[d] = c_fd[d]
  BY <1>1 DEF TypeOK
<1>6. DescriptorOwned'
  BY <1>1, <1>2, <1>5 DEF WorkerInv, DescriptorOwned, Using
<1>7. OneDescriptor'
  BY <1>2, <1>4 DEF WorkerInv, OneDescriptor
<1>8. BacklogWaits'
  <2>1. \A i \in DOMAIN backlog : backlog[i] \in Conns /\ backlog[i] # c
    BY <1>1, <1>3, ElementOfSeq, LenProperties DEF WorkerInv, BacklogWaits, TypeOK
  <2>2. \A i \in DOMAIN backlog : Waiting(backlog[i])'
    BY <1>2, <1>5, <2>1 DEF WorkerInv, BacklogWaits, Waiting
  <2> QED
    BY <1>2, <2>2 DEF WorkerInv, BacklogWaits
<1>9. AcceptedWaits'
  BY <1>2 DEF AcceptedWaits
<1>10. ASSUME NEW d \in Conns PROVE ProgressKnown(d)'
  BY <1>2, <1>3, <1>5 DEF WorkerInv, ProgressKnown
<1> QED
  BY <1>6, <1>7, <1>8, <1>9, <1>10 DEF WorkerInv

\* Steps that leave the connections alone and start no worker.
LEMMA QuietInv ==
  ASSUME TypeOK, WorkerInv,
         UNCHANGED <<owner, backlog, input, c_fd, newfd>>,
         spc' = "spawn" => spc = "spawn",
         \A c \in Conns : wpc'[c] = "none" <=> wpc[c] = "none",
         \A c \in Conns : Using(c)' => Using(c),
         \A c \in Conns : ProgressKnown(c)'
  PROVE  WorkerInv'
<1>1. Open' = Open
  BY DEF Open
<1>2. \A c \in Conns : Waiting(c)' <=> Waiting(c)
  BY DEF Waiting
<1>3. DescriptorOwned' /\ OneDescriptor'
  BY <1>1 DEF WorkerInv, DescriptorOwned, OneDescriptor
<1>4. BacklogWaits'
  <2>1. \A i \in DOMAIN backlog : backlog[i] \in Conns
    BY ElementOfSeq, LenProperties DEF TypeOK
  <2> QED
    BY <1>2, <2>1 DEF WorkerInv, BacklogWaits
<1>5. AcceptedWaits'
  <2>1. \A f \in Open : owner[f] \in Conns
    BY DEF TypeOK, Open
  <2> QED
    BY <1>1, <1>2, <2>1 DEF WorkerInv, AcceptedWaits
<1> QED
  BY <1>3, <1>4, <1>5 DEF WorkerInv

LEMMA MainInv ==
  ASSUME TypeOK, WorkerInv, Main
  PROVE  WorkerInv'
<1>1. CASE Accept
  BY <1>1, AcceptInv
<1>2. CASE Spawn
  BY <1>2, SpawnInv
<1>3. CASE Setup \/ AcceptFails \/ SpawnFails
  <2>1. /\ UNCHANGED <<owner, backlog, input, c_fd, newfd, wpc, line, printed, ended>>
        /\ spc' = "spawn" => spc = "spawn"
    BY <1>3 DEF Setup, AcceptFails, SpawnFails, vars, mainVars, workerVars
  <2>2. \A c \in Conns : ProgressKnown(c)'
    BY <2>1 DEF WorkerInv, ProgressKnown
  <2>3. \A c \in Conns : Using(c)' => Using(c)
    BY <2>1 DEF Using
  <2> QED
    BY <2>1, <2>2, <2>3, QuietInv
<1> QED
  BY <1>1, <1>2, <1>3 DEF Main

\* A worker's step that leaves the connections and what was printed alone.
LEMMA WorkerQuiet ==
  ASSUME TypeOK, WorkerInv, NEW c \in Conns,
         UNCHANGED <<owner, backlog, input, c_fd, newfd, spc, printed, ended>>,
         NEW s \in {"read", "spin", "print"}, wpc' = [wpc EXCEPT ![c] = s],
         wpc[c] \in {"start", "read"},
         line' \in [Conns -> Conns \cup {NoConn}],
         \A d \in Conns : d # c => line'[d] = line[d],
         s = "print" => line'[c] = c
  PROVE  WorkerInv'
<1>1. wpc'[c] = s /\ \A d \in Conns : d # c => wpc'[d] = wpc[d]
  BY DEF TypeOK
<1>2. \A d \in Conns : wpc'[d] = "none" <=> wpc[d] = "none"
  BY <1>1
<1>3. \A d \in Conns : Using(d)' => Using(d)
  BY <1>1 DEF Using
<1>4. ASSUME NEW d \in Conns PROVE ProgressKnown(d)'
  BY <1>1 DEF WorkerInv, ProgressKnown
<1> QED
  BY <1>2, <1>3, <1>4, QuietInv

\* The connection a worker at work looks at is its own client's.
LEMMA PeerOwn ==
  ASSUME TypeOK, WorkerInv, NEW c \in Conns, Using(c)
  PROVE  Peer(c) = c
BY DEF WorkerInv, DescriptorOwned, Peer

LEMMA CloseFdInv ==
  ASSUME TypeOK, WorkerInv, NEW c \in Conns, CloseFd(c)
  PROVE  WorkerInv'
<1> DEFINE f == c_fd[c]
<1>1. /\ UNCHANGED <<backlog, input, c_fd, newfd, spc, line, printed>>
      /\ wpc[c] = "close"
      /\ ended' = ended \cup {owner[f]}
      /\ owner' = [owner EXCEPT ![f] = NoConn]
      /\ wpc' = [wpc EXCEPT ![c] = "exit"]
  BY Zenon DEF CloseFd
<1>2. f \in ClientFd /\ owner[f] = c
  BY <1>1 DEF TypeOK, WorkerInv, DescriptorOwned, Using
<1>3. /\ owner'[f] = NoConn
      /\ \A g \in ClientFd : g # f => owner'[g] = owner[g]
      /\ Open' = Open \ {f}
  BY <1>1, <1>2 DEF TypeOK, Open
<1>4. wpc'[c] = "exit" /\ \A d \in Conns : d # c => wpc'[d] = wpc[d]
  BY <1>1 DEF TypeOK
<1>5. \A d \in Conns : Waiting(d)' <=> Waiting(d)
  BY <1>1, <1>4 DEF Waiting
<1>6. DescriptorOwned'
  <2> SUFFICES ASSUME NEW d \in Conns, Using(d)' PROVE owner'[c_fd[d]] = d
    BY <1>1 DEF DescriptorOwned
  <2>1. d # c /\ Using(d)
    BY <1>4 DEF Using
  <2>2. owner[c_fd[d]] = d /\ c_fd[d] \in ClientFd
    BY <2>1 DEF WorkerInv, DescriptorOwned, TypeOK
  <2> QED
    BY <1>2, <1>3, <2>1, <2>2
<1>7. OneDescriptor'
  BY <1>3 DEF WorkerInv, OneDescriptor, Open
<1>8. BacklogWaits'
  <2>1. \A i \in DOMAIN backlog : backlog[i] \in Conns
    BY ElementOfSeq, LenProperties DEF TypeOK
  <2>2. (\A i \in DOMAIN backlog, g \in ClientFd : owner[g] # backlog[i])'
    BY <1>1, <1>2, <1>3, <2>1, WorkerAssumption DEF WorkerInv, BacklogWaits
  <2>3. (\A i \in DOMAIN backlog : Waiting(backlog[i]))'
    BY <1>1, <1>5, <2>1 DEF WorkerInv, BacklogWaits
  <2> QED
    BY <1>1, <2>2, <2>3 DEF WorkerInv, BacklogWaits
<1>9. AcceptedWaits'
  <2> SUFFICES ASSUME spc = "spawn" PROVE newfd \in Open' /\ Waiting(owner[newfd])'
    BY <1>1 DEF AcceptedWaits
  <2>1. newfd \in Open /\ Waiting(owner[newfd]) /\ owner[newfd] \in Conns
    BY DEF WorkerInv, AcceptedWaits, TypeOK, Open
  <2>2. newfd # f
    BY <1>1, <1>2, <2>1 DEF Waiting
  <2>3. newfd \in Open' /\ owner'[newfd] = owner[newfd]
    BY <1>3, <2>1, <2>2 DEF Open
  <2>4. owner'[newfd'] = owner[newfd]
    BY <1>1, <2>3
  <2> QED
    BY <1>5, <2>1, <2>3, <2>4 DEF Waiting
<1>10. ASSUME NEW d \in Conns PROVE ProgressKnown(d)'
  BY <1>1, <1>2, <1>3, <1>4, WorkerAssumption DEF WorkerInv, ProgressKnown
<1> QED
  BY <1>6, <1>7, <1>8, <1>9, <1>10 DEF WorkerInv

\* printf: the only step that adds to printed.
LEMMA PrintLineInv ==
  ASSUME TypeOK, WorkerInv, NEW c \in Conns, PrintLine(c)
  PROVE  WorkerInv'
<1>1. /\ UNCHANGED <<owner, backlog, input, c_fd, newfd, spc, line, ended>>
      /\ wpc[c] = "print" /\ wpc' = [wpc EXCEPT ![c] = "close"]
      /\ printed' = Append(printed, line[c])
  BY Zenon DEF PrintLine, mainVars
<1>2. wpc'[c] = "close" /\ \A d \in Conns : d # c => wpc'[d] = wpc[d]
  BY <1>1 DEF TypeOK
<1>3. ToSet(printed') = ToSet(printed) \cup {c}
  BY <1>1, PrintedAppend DEF TypeOK, WorkerInv, ProgressKnown
<1>4. \A d \in Conns : wpc'[d] = "none" <=> wpc[d] = "none"
  BY <1>1, <1>2
<1>5. \A d \in Conns : Using(d)' => Using(d)
  BY <1>1, <1>2 DEF Using
<1>6. ASSUME NEW d \in Conns PROVE ProgressKnown(d)'
  <2>1. d \in ToSet(printed') <=> d = c \/ d \in ToSet(printed)
    BY <1>3
  <2> QED
    BY <1>1, <1>2, <2>1 DEF WorkerInv, ProgressKnown
<1> QED
  BY <1>1, <1>4, <1>5, <1>6, QuietInv

\* The end of a worker that no longer uses its descriptor.
LEMMA ExitInv ==
  ASSUME TypeOK, WorkerInv, NEW c \in Conns,
         UNCHANGED <<owner, backlog, input, c_fd, newfd, spc, line, printed, ended>>,
         wpc[c] \in {"exit", "zombie"},
         NEW s \in {"zombie", "gone"}, wpc' = [wpc EXCEPT ![c] = s]
  PROVE  WorkerInv'
<1>1. wpc'[c] = s /\ \A d \in Conns : d # c => wpc'[d] = wpc[d]
  BY DEF TypeOK
<1>2. \A d \in Conns : wpc'[d] = "none" <=> wpc[d] = "none"
  BY <1>1
<1>3. \A d \in Conns : Using(d)' => Using(d)
  BY <1>1 DEF Using
<1>4. ASSUME NEW d \in Conns PROVE ProgressKnown(d)'
  BY <1>1 DEF WorkerInv, ProgressKnown
<1> QED
  BY <1>2, <1>3, <1>4, QuietInv

LEMMA WorkerKeepsInv ==
  ASSUME TypeOK, WorkerInv, NEW c \in Conns, Worker(c)
  PROVE  WorkerInv'
<1>1. CASE StartWorker(c)
  <2>1. /\ UNCHANGED <<owner, backlog, input, c_fd, newfd, spc, line, printed, ended>>
        /\ wpc[c] = "start" /\ wpc' = [wpc EXCEPT ![c] = "read"]
    BY <1>1, Zenon DEF StartWorker, mainVars
  <2> QED
    BY <2>1, WorkerQuiet DEF TypeOK
<1>2. CASE ReadLine(c) \/ ReadNothing(c)
  <2>1. /\ UNCHANGED <<owner, backlog, input, c_fd, newfd, spc, printed, ended>>
        /\ wpc[c] = "read"
    BY <1>2, Zenon DEF ReadLine, ReadNothing, mainVars
  <2>2. Peer(c) = c
    BY <2>1, PeerOwn DEF Using
  <2>3. CASE line' = [line EXCEPT ![c] = Peer(c)] /\ wpc' = [wpc EXCEPT ![c] = "print"]
    <3>1. /\ line' \in [Conns -> Conns \cup {NoConn}] /\ line'[c] = c
          /\ \A d \in Conns : d # c => line'[d] = line[d]
      BY <2>2, <2>3 DEF TypeOK
    <3> QED
      BY <2>1, <2>3, <3>1, WorkerQuiet
  <2>4. CASE UNCHANGED line /\ wpc' = [wpc EXCEPT ![c] = "spin"]
    BY <2>1, <2>4, WorkerQuiet DEF TypeOK
  <2> QED
    BY <1>2, <2>3, <2>4 DEF ReadLine, ReadNothing
<1>3. CASE PrintLine(c)
  BY <1>3, PrintLineInv
<1>4. CASE Shutdown(c)
  <2>1. /\ UNCHANGED <<owner, backlog, input, c_fd, newfd, spc, line, printed>>
        /\ wpc[c] = "close" /\ wpc' = [wpc EXCEPT ![c] = "exit"]
        /\ ended' = ended \cup {c}
    BY <1>4, Zenon DEF Shutdown, mainVars
  <2>2. wpc'[c] = "exit" /\ \A d \in Conns : d # c => wpc'[d] = wpc[d]
    BY <2>1 DEF TypeOK
  <2>3. \A d \in Conns : wpc'[d] = "none" <=> wpc[d] = "none"
    BY <2>1, <2>2
  <2>4. \A d \in Conns : Using(d)' => Using(d)
    BY <2>2 DEF Using
  <2>5. ASSUME NEW d \in Conns PROVE ProgressKnown(d)'
    BY <2>1, <2>2 DEF WorkerInv, ProgressKnown
  <2> QED
    BY <2>1, <2>3, <2>4, <2>5, QuietInv
<1>5. CASE CloseFd(c)
  BY <1>5, CloseFdInv
<1>6. CASE ExitProcess(c)
  <2>1. /\ UNCHANGED <<owner, backlog, input, c_fd, newfd, spc, line, printed, ended>>
        /\ wpc[c] = "exit" /\ wpc' = [wpc EXCEPT ![c] = "zombie"]
    BY <1>6, Zenon DEF ExitProcess, mainVars
  <2> QED
    BY <2>1, ExitInv
<1>7. CASE ExitThread(c)
  <2>1. /\ UNCHANGED <<owner, backlog, input, c_fd, newfd, spc, line, printed, ended>>
        /\ wpc[c] = "exit" /\ wpc' = [wpc EXCEPT ![c] = "gone"]
    BY <1>7, Zenon DEF ExitThread, mainVars
  <2> QED
    BY <2>1, ExitInv
<1> QED
  BY <1>1, <1>2, <1>3, <1>4, <1>5, <1>6, <1>7 DEF Worker

LEMMA UnchangedInv ==
  ASSUME TypeOK, WorkerInv,
         UNCHANGED <<owner, backlog, input, c_fd, newfd, spc, wpc, line, printed, ended>>
  PROVE  WorkerInv'
<1>1. \A c \in Conns : ProgressKnown(c)'
  BY DEF WorkerInv, ProgressKnown
<1>2. \A c \in Conns : Using(c)' => Using(c)
  BY DEF Using
<1> QED
  BY <1>1, <1>2, QuietInv

LEMMA NextInv == TypeOK /\ WorkerInv /\ [Next]_vars => WorkerInv'
<1> SUFFICES ASSUME TypeOK, WorkerInv, [Next]_vars PROVE WorkerInv'
  OBVIOUS
<1>1. CASE Main
  BY <1>1, MainInv
<1>2. CASE HandleSignal \/ ReapNone
  BY <1>2, UnchangedInv DEF HandleSignal, ReapNone, mainVars, workerVars
<1>3. ASSUME NEW c \in Conns, Reap(c) PROVE WorkerInv'
  <2>1. /\ UNCHANGED <<owner, backlog, input, c_fd, newfd, spc, line, printed, ended>>
        /\ wpc[c] = "zombie" /\ wpc' = [wpc EXCEPT ![c] = "gone"]
    BY <1>3, Zenon DEF Reap, mainVars
  <2> QED
    BY <2>1, ExitInv
<1>4. ASSUME NEW c \in Conns, Connect(c) \/ Finish(c) \/ Worker(c) \/ StopOrContinue(c)
      PROVE  WorkerInv'
  <2>1. CASE StopOrContinue(c)
    BY <2>1, UnchangedInv DEF StopOrContinue, mainVars, workerVars
  <2> QED
    BY <1>4, <2>1, ConnectInv, FinishInv, WorkerKeepsInv
<1>5. CASE UNCHANGED vars
  BY <1>5, UnchangedInv DEF vars, mainVars, workerVars
<1> QED
  BY <1>1, <1>2, <1>3, <1>4, <1>5 DEF Next, SignalHandler

LEMMA Invariant == Spec => [](TypeOK /\ WorkerInv)
<1>1. TypeOK /\ WorkerInv => DescriptorOwned
  BY DEF WorkerInv
<1> QED
  BY <1>1, InitTypes, InitInv, NextTypes, NextInv, PTL DEF Spec

\* The variables of server, workers and kernel keep their types, whatever
\* fails; a worker at work has been given a descriptor of the table.
THEOREM TypeCorrect == Spec => []TypeOK
BY Invariant, PTL

\* For any number of clients and descriptors a connection is in one place until
\* its worker ends it, and what was printed is the workers' own clients' lines.
THEOREM WorkerInvariant == Spec => []WorkerInv
BY Invariant, PTL

\* No two workers ever share a descriptor, and none is reused under a worker:
\* main passes newfd by value and leaves closing to the worker.
THEOREM DescriptorOwnedAlways == Spec => []DescriptorOwned
<1>1. WorkerInv => DescriptorOwned
  BY DEF WorkerInv
<1> QED
  BY <1>1, WorkerInvariant, PTL

\* A descriptor that is open again leads to a client whose worker is at work or
\* was never started.
LEMMA NextReturns ==
  TypeOK /\ WorkerInv /\ DescriptorsReturned /\ [Next]_vars => DescriptorsReturned'
<1> SUFFICES ASSUME TypeOK, WorkerInv, DescriptorsReturned, [Next]_vars,
                    worker' = "thread", NEW f \in Open'
             PROVE  (Using(owner[f]) \/ wpc[owner[f]] = "none")'
  BY DEF DescriptorsReturned
<1> DEFINE Kept == wpc'[owner'[f]] = "none" \/ Using(owner[f])'
<1>0. /\ f \in ClientFd /\ worker' = worker
      /\ f \in Open => owner[f] \in Conns /\ (Using(owner[f]) \/ wpc[owner[f]] = "none")
  <2>1. f \in ClientFd
    BY DEF Open
  <2>2. worker' = worker
    BY DEF Next, Main, Setup, Accept, AcceptFails, Spawn, SpawnFails, SignalHandler,
           HandleSignal, Reap, ReapNone, Connect, Finish, StopOrContinue, Worker,
           StartWorker, ReadLine, ReadNothing, PrintLine, Shutdown, CloseFd,
           ExitProcess, ExitThread, mainVars, vars
  <2>3. worker = "thread"
    BY <2>2
  <2>4. f \in Open => owner[f] \in Conns
    BY DEF TypeOK, Open
  <2> QED
    BY <2>1, <2>2, <2>3, <2>4 DEF DescriptorsReturned
<1>1. ASSUME UNCHANGED <<owner, wpc>> PROVE Kept
  BY <1>0, <1>1 DEF Open, Using
<1>2. CASE Accept
  <2>1. PICK g \in ClientFd \ Open : owner' = [owner EXCEPT ![g] = Head(backlog)]
    BY <1>2 DEF Accept
  <2>2. wpc' = wpc /\ backlog # << >>
    BY <1>2 DEF Accept, workerVars
  <2>3. wpc[Head(backlog)] = "none"
    <3>1. 1 \in DOMAIN backlog /\ Head(backlog) = backlog[1]
      BY <2>2, EmptySeq, LenProperties, HeadTailProperties DEF TypeOK
    <3> QED
      BY <3>1 DEF WorkerInv, BacklogWaits, Waiting
  <2>4. CASE f = g
    BY <1>0, <2>1, <2>2, <2>3, <2>4 DEF TypeOK
  <2>5. CASE f # g
    <3>1. owner'[f] = owner[f] /\ f \in Open
      BY <1>0, <2>1, <2>5 DEF TypeOK, Open
    <3> QED
      BY <1>0, <2>2, <3>1 DEF Using
  <2> QED
    BY <2>4, <2>5
<1>3. CASE Spawn
  <2>1. PICK c \in Conns : wpc' = [wpc EXCEPT ![c] = "start"]
    BY <1>3 DEF Spawn
  <2>2. owner' = owner /\ f \in Open
    BY <1>3 DEF Spawn, Open
  <2> QED
    BY <1>0, <2>1, <2>2 DEF TypeOK, Using
<1>4. ASSUME NEW c \in Conns, CloseFd(c) PROVE Kept
  <2>1. /\ c_fd[c] \in ClientFd /\ owner[c_fd[c]] = c
        /\ owner' = [owner EXCEPT ![c_fd[c]] = NoConn]
        /\ wpc' = [wpc EXCEPT ![c] = "exit"]
    BY <1>4 DEF CloseFd, WorkerInv, DescriptorOwned, Using, TypeOK
  <2>2. f # c_fd[c] /\ f \in Open /\ owner'[f] = owner[f]
    BY <1>0, <2>1 DEF Open, TypeOK
  <2>3. owner[f] # c
    BY <2>1, <2>2, WorkerAssumption DEF WorkerInv, OneDescriptor, Open
  <2> QED
    BY <1>0, <2>1, <2>2, <2>3 DEF TypeOK, Using
<1>5. ASSUME NEW c \in Conns, Worker(c), ~CloseFd(c) PROVE Kept
  <2>1. owner' = owner /\ f \in Open
    BY <1>5 DEF Worker, StartWorker, ReadLine, ReadNothing, PrintLine, Shutdown,
                ExitProcess, ExitThread, mainVars, Open
  <2>2. ~ExitProcess(c) /\ ~Shutdown(c)
    BY <1>0 DEF ExitProcess, Shutdown
  <2>3. CASE ExitThread(c)
    BY <1>0, <2>1, <2>3 DEF TypeOK, ExitThread, Using
  <2>4. CASE ~ExitThread(c)
    <3>1. PICK s \in {"read", "spin", "print", "close"} : wpc' = [wpc EXCEPT ![c] = s]
      BY <1>5, <2>2, <2>4 DEF Worker, StartWorker, ReadLine, ReadNothing, PrintLine
    <3> QED
      BY <1>0, <2>1, <3>1 DEF TypeOK, Using
  <2> QED
    BY <2>3, <2>4
<1>6. ASSUME NEW c \in Conns, Reap(c) PROVE Kept
  BY <1>0, <1>6 DEF Reap, mainVars, TypeOK, Using, Open
<1>7. ASSUME NEW c \in Conns, Connect(c) \/ Finish(c) \/ StopOrContinue(c) PROVE Kept
  BY <1>1, <1>7 DEF Connect, Finish, StopOrContinue, mainVars, workerVars
<1>8. CASE Setup \/ AcceptFails \/ SpawnFails \/ HandleSignal \/ ReapNone \/ UNCHANGED vars
  BY <1>1, <1>8 DEF Setup, AcceptFails, SpawnFails, HandleSignal, ReapNone, vars,
                   mainVars, workerVars
<1>9. Kept
  BY <1>2, <1>3, <1>4, <1>5, <1>6, <1>7, <1>8 DEF Next, Main, SignalHandler
<1> QED
  BY <1>9

\* In the thread server no descriptor is lost with a worker: one that is open is
\* in use, or no worker was started for its client.
THEOREM DescriptorsReturnedAlways == Spec => []DescriptorsReturned
<1>1. Init => DescriptorsReturned
  BY DEF Init, DescriptorsReturned, Open
<1> QED
  BY <1>1, NextReturns, Invariant, PTL DEF Spec

-----------------------------------------------------------------------------
(* The signal handler. *)

\* A step after which the same children are zombies and the same signals are
\* pending.
LEMMA SignalsStay ==
  ASSUME WaitBlocksPerStop, UNCHANGED signalVars,
         \A c \in Conns : wpc'[c] = "zombie" <=> wpc[c] = "zombie"
  PROVE  WaitBlocksPerStop'
<1>1. Zombies' = Zombies
  BY DEF Zombies
<1> QED
  BY <1>1 DEF WaitBlocksPerStop, signalVars

LEMMA NextWaits ==
  TypeOK /\ WorkerInv /\ WaitBlocksPerStop /\ [Next]_vars => WaitBlocksPerStop'
<1> SUFFICES ASSUME TypeOK, WorkerInv, WaitBlocksPerStop, [Next]_vars
             PROVE  WaitBlocksPerStop'
  OBVIOUS
<1>0. IsFiniteSet(Zombies) /\ Cardinality(Zombies) \in Nat /\ stops \in Nat
  BY WorkerAssumption, FS_Subset, FS_CardinalityType DEF WorkerAssumption, Zombies, TypeOK
<1>1. CASE HandleSignal
  <2>1. Zombies' = Zombies
    BY <1>1 DEF HandleSignal, Zombies, workerVars
  <2> QED
    BY <1>0, <1>1, <2>1 DEF TypeOK, HandleSignal, WaitBlocksPerStop
<1>2. ASSUME NEW c \in Conns, Reap(c) PROVE WaitBlocksPerStop'
  <2>1. c \in Zombies /\ Zombies' = Zombies \ {c}
    BY <1>2 DEF TypeOK, Reap, Zombies
  <2>2. Cardinality(Zombies') = Cardinality(Zombies) - 1
    BY <1>0, <2>1, FS_RemoveElement
  <2> QED
    BY <1>0, <1>2, <2>2 DEF TypeOK, Reap, WaitBlocksPerStop
<1>3. ASSUME NEW c \in Conns, ExitProcess(c) PROVE WaitBlocksPerStop'
  <2>1. c \notin Zombies /\ Zombies' = Zombies \cup {c}
    BY <1>3 DEF TypeOK, ExitProcess, Zombies
  <2>2. Cardinality(Zombies') = Cardinality(Zombies) + 1
    BY <1>0, <2>1, FS_AddElement
  <2> QED
    BY <1>0, <1>3, <2>2 DEF TypeOK, ExitProcess, WaitBlocksPerStop
<1>4. CASE Spawn
  <2>1. PICK c \in Conns : owner[newfd] = c /\ wpc' = [wpc EXCEPT ![c] = "start"]
    BY <1>4 DEF Spawn
  <2>2. wpc[c] = "none"
    BY <1>4, <2>1 DEF Spawn, WorkerInv, AcceptedWaits, Waiting
  <2>3. \A d \in Conns : wpc'[d] = "zombie" <=> wpc[d] = "zombie"
    BY <2>1, <2>2 DEF TypeOK
  <2> QED
    BY <1>4, <2>3, SignalsStay DEF Spawn
<1>5. CASE Setup \/ Accept \/ AcceptFails \/ SpawnFails
  BY <1>5, SignalsStay
     DEF Setup, Accept, AcceptFails, SpawnFails, vars, workerVars
<1>6. ASSUME NEW c \in Conns, Connect(c) \/ Finish(c) PROVE WaitBlocksPerStop'
  BY <1>6, SignalsStay DEF Connect, Finish, workerVars
<1>7. ASSUME NEW c \in Conns, Worker(c), ~ExitProcess(c) PROVE WaitBlocksPerStop'
  <2>1. /\ UNCHANGED signalVars
        /\ wpc[c] # "zombie"
        /\ \E s \in {"read", "spin", "print", "close", "exit", "gone"} :
             wpc' = [wpc EXCEPT ![c] = s]
    BY <1>7 DEF Worker, StartWorker, ReadLine, ReadNothing, PrintLine, Shutdown,
                CloseFd, ExitThread
  <2>2. \A d \in Conns : wpc'[d] = "zombie" <=> wpc[d] = "zombie"
    BY <2>1 DEF TypeOK
  <2> QED
    BY <2>1, <2>2, SignalsStay
<1>8. CASE UNCHANGED vars
  BY <1>8, SignalsStay DEF vars, workerVars
<1>9. CASE ReapNone
  <2>1. Zombies' = Zombies
    BY <1>9 DEF ReapNone, Zombies, workerVars
  <2> QED
    BY <1>0, <1>9, <2>1 DEF TypeOK, ReapNone, WaitBlocksPerStop
<1>10. ASSUME NEW c \in Conns, StopOrContinue(c) PROVE WaitBlocksPerStop'
  <2>1. Zombies' = Zombies
    BY <1>10 DEF StopOrContinue, Zombies, workerVars
  <2> QED
    BY <1>0, <1>10, <2>1 DEF TypeOK, StopOrContinue, WaitBlocksPerStop
<1> QED
  BY <1>1, <1>2, <1>3, <1>4, <1>5, <1>6, <1>7, <1>8, <1>9, <1>10 DEF Next, Main, SignalHandler

\* However many children end at once, and whenever the signal is delivered,
\* wait(NULL) in sigchld_handler finds as many children that have ended as there
\* are deliveries, less one for each time a child was stopped or continued.  A
\* server whose children are only ever left to end is never held up.
THEOREM WaitBlocksPerStopAlways == Spec => []WaitBlocksPerStop
<1>1. Init => WaitBlocksPerStop
  <2> SUFFICES ASSUME Init PROVE WaitBlocksPerStop
    OBVIOUS
  <2>1. Zombies = {}
    BY DEF Init, Zombies
  <2> QED
    BY <2>1, FS_EmptySet DEF Init, WaitBlocksPerStop
<1> QED
  BY <1>1, NextWaits, Invariant, PTL DEF Spec

-----------------------------------------------------------------------------
(* Both servers implement LineService. *)

LEMMA InitImplements == Init => Service!Init
<1> SUFFICES ASSUME Init PROVE Service!Init
  OBVIOUS
<1>1. ToSet(printed) = {} /\ ended = {}
  BY DEF Init, ToSet
<1>2. \A c \in Conns : Status(c) = "out"
  BY <1>1 DEF Init, Status
<1> QED
  BY <1>2 DEF Init, Service!Init

LEMMA StepImplements ==
  ASSUME TypeOK, WorkerInv, [Next]_vars
  PROVE  [Service!Next]_(Service!vars)
<1> DEFINE stat == [d \in Conns |-> Status(d)]
<1>1. ASSUME UNCHANGED <<printed, ended>>,
             \A d \in Conns : input'[d] = "none" <=> input[d] = "none"
      PROVE  UNCHANGED Service!vars
  <2>1. \A d \in Conns : Status(d)' = Status(d)
    BY <1>1 DEF Status
  <2> QED
    BY <1>1, <2>1 DEF Service!vars
<1>2. ASSUME NEW c \in Conns, Connect(c) PROVE Service!Connect(c)
  <2>1. /\ input[c] = "none" /\ input' = [input EXCEPT ![c] = "idle"]
        /\ UNCHANGED <<printed, ended, wpc>>
    BY <1>2 DEF Connect, workerVars
  <2>2. c \notin ToSet(printed) /\ c \notin ended
    BY <2>1 DEF WorkerInv, ProgressKnown
  <2>3. stat[c] = "out" /\ stat' = [stat EXCEPT ![c] = "in"]
    BY <2>1, <2>2 DEF Status, TypeOK
  <2> QED
    BY <2>1, <2>3 DEF Service!Connect
<1>3. ASSUME NEW c \in Conns, PrintLine(c) PROVE Service!PrintLine(c)
  <2>1. /\ wpc[c] = "print" /\ line[c] = c
        /\ printed' = Append(printed, c)
        /\ UNCHANGED <<input, ended>>
    BY <1>3 DEF PrintLine, WorkerInv, ProgressKnown
  <2>2. ToSet(printed') = ToSet(printed) \cup {c}
    BY <2>1, PrintedAppend DEF TypeOK
  <2>3. c \notin ToSet(printed) /\ c \notin ended /\ input[c] # "none"
    BY <2>1 DEF WorkerInv, ProgressKnown
  <2>4. stat[c] = "in" /\ stat' = [stat EXCEPT ![c] = "printed"]
    BY <2>1, <2>2, <2>3 DEF Status
  <2> QED
    BY <2>1, <2>4 DEF Service!PrintLine
<1>4. ASSUME NEW c \in Conns, Shutdown(c) \/ CloseFd(c) PROVE Service!Disconnect(c)
  <2>1. wpc[c] = "close" /\ UNCHANGED <<input, printed>>
    BY <1>4 DEF Shutdown, CloseFd
  <2>2. ended' = ended \cup {c}
    BY <1>4, <2>1 DEF Shutdown, CloseFd, WorkerInv, DescriptorOwned, Using
  <2>3. c \in ToSet(printed) /\ c \notin ended
    BY <2>1 DEF WorkerInv, ProgressKnown
  <2>4. stat[c] = "printed" /\ stat' = [stat EXCEPT ![c] = "ended"]
    BY <2>1, <2>2, <2>3 DEF Status
  <2> QED
    BY <2>1, <2>4 DEF Service!Disconnect
<1>5. ASSUME NEW c \in Conns, Finish(c) PROVE UNCHANGED Service!vars
  <2>1. UNCHANGED <<printed, ended>>
    BY <1>5 DEF Finish, workerVars
  <2>2. \A d \in Conns : input'[d] = "none" <=> input[d] = "none"
    BY <1>5 DEF Finish, TypeOK
  <2> QED
    BY <1>1, <2>1, <2>2
<1>6. ASSUME NEW c \in Conns, Worker(c), ~PrintLine(c), ~Shutdown(c), ~CloseFd(c)
      PROVE  UNCHANGED Service!vars
  <2>1. UNCHANGED <<input, printed, ended>>
    BY <1>6 DEF Worker, StartWorker, ReadLine, ReadNothing, ExitProcess, ExitThread
  <2> QED
    BY <1>1, <2>1
<1>7. CASE Main \/ SignalHandler \/ UNCHANGED vars \/ \E c \in Conns : StopOrContinue(c)
  <2>1. UNCHANGED <<input, printed, ended>>
    BY <1>7 DEF Main, Setup, Accept, AcceptFails, Spawn, SpawnFails, SignalHandler,
                HandleSignal, Reap, ReapNone, StopOrContinue, vars, workerVars
  <2> QED
    BY <1>1, <2>1
<1> QED
  BY <1>2, <1>3, <1>4, <1>5, <1>6, <1>7 DEF Next, Service!Next

\* The fork server and the thread server implement the line service for any
\* number of clients: each line is printed at most once, and a client is
\* disconnected only after its own line was printed.
THEOREM Refinement == Spec => ImplementsService
<1>1. TypeOK /\ WorkerInv /\ [Next]_vars => [Service!Next]_(Service!vars)
  BY StepImplements
<1> QED
  BY <1>1, InitImplements, Invariant, PTL DEF Spec, ImplementsService, Service!Spec
=============================================================================
