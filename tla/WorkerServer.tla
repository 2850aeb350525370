---------------------------- MODULE WorkerServer -----------------------------
(***************************************************************************)
(* src/Code/Ch10-networking/TCPserverForkHi.c and TCPserverPthreadsHi.c:   *)
(* a server that hands every accepted connection to a worker, a forked     *)
(* child process or a detached thread.  The two programs share the accept  *)
(* loop and the code that reads the line; they differ in how the worker is *)
(* started and what is left of it when it ends.  worker says which one     *)
(* runs.                                                                   *)
(*                                                                         *)
(* A worker is named after the client it was started for.  The kernel's    *)
(* part (the server's descriptor table, the backlog, SIGCHLD and wait) is  *)
(* modelled from its use here.                                             *)
(***************************************************************************)
EXTENDS Integers, Sequences, SequencesExt

CONSTANTS Conns,         \* the client processes, one connection each
          NoConn,        \* a descriptor nobody uses
          ClientFd,      \* the descriptors of the server's table
          MAX_NCLIENTS,  \* the length of the backlog
          Workers,       \* the servers considered: "process", "thread"
          Faults,        \* "spawn": fork or pthread_create may fail
          MaxStops       \* how often children are stopped or continued

ASSUME WorkerAssumption ==
  /\ IsFiniteSet(Conns) /\ NoConn \notin Conns
  /\ ClientFd \subseteq Nat
  /\ MAX_NCLIENTS \in Nat
  /\ Workers \subseteq {"process", "thread"}
  /\ Faults \subseteq {"spawn"}
  /\ MaxStops \in Nat

VARIABLES
  worker,   \* which server this is
  spc,      \* where main is
  newfd,    \* the descriptor main has accepted last
  owner,    \* owner[f]: the client behind descriptor f of the server
  backlog,  \* connections nobody has accepted yet
  input,    \* input[c]: what client c has sent
  ended,    \* the clients whose connection the server has ended
  wpc,      \* wpc[c]: where the worker of client c is
  c_fd,     \* c_fd[c]: the descriptor that worker was given
  line,     \* line[c]: whose line that worker has read
  printed,  \* the clients whose line printf was called for, in that order
  sigchld,  \* SIGCHLD is pending for the server
  handler,  \* sigchld_handler: "idle", or "wait" inside wait(NULL)
  halted,   \* the clients whose child process is stopped
  stops     \* how often a child was stopped or continued

mainVars == <<worker, spc, newfd, owner, backlog>>
workerVars == <<wpc, c_fd, line, printed, ended>>
signalVars == <<sigchld, handler, halted, stops>>
vars == <<mainVars, input, workerVars, signalVars>>

Open == {f \in ClientFd : owner[f] # NoConn}

\* The workers that still use their descriptor.
Using(c) == wpc[c] \in {"start", "read", "spin", "print", "close"}

\* "idle" is a connection without a newline so far, "eof" one that ended
\* after a piece of a line, "empty" one that ended before any character.
TypeOK ==
  /\ worker \in Workers
  /\ spc \in {"setup", "accept", "spawn", "stopped"}
  /\ newfd \in ClientFd \cup {-1}
  /\ spc = "spawn" => newfd \in ClientFd
  /\ owner \in [ClientFd -> Conns \cup {NoConn}]
  /\ backlog \in Seq(Conns)
  /\ input \in [Conns -> {"none", "idle", "line", "eof", "empty"}]
  /\ ended \subseteq Conns
  /\ wpc \in [Conns -> {"none", "start", "read", "spin", "print", "close",
                        "exit", "zombie", "gone"}]
  /\ c_fd \in [Conns -> ClientFd \cup {-1}]
  /\ \A c \in Conns : Using(c) => c_fd[c] \in ClientFd
  /\ line \in [Conns -> Conns \cup {NoConn}]
  /\ \A c \in Conns : wpc[c] = "print" => line[c] \in Conns
  /\ printed \in Seq(Conns)
  /\ sigchld \in BOOLEAN
  /\ handler \in {"idle", "wait"}
  /\ halted \subseteq Conns
  /\ stops \in 0 .. MaxStops

Init ==
  /\ worker \in Workers
  /\ spc = "setup"
  /\ newfd = -1
  /\ owner = [f \in ClientFd |-> NoConn]
  /\ backlog = << >>
  /\ input = [c \in Conns |-> "none"]
  /\ ended = {}
  /\ wpc = [c \in Conns |-> "none"]
  /\ c_fd = [c \in Conns |-> -1]
  /\ line = [c \in Conns |-> NoConn]
  /\ printed = << >>
  /\ sigchld = FALSE
  /\ handler = "idle"
  /\ halted = {}
  /\ stops = 0

(***************************************************************************)
(* The clients.                                                            *)
(***************************************************************************)
Connect(c) ==
  /\ spc \in {"accept", "spawn"}
  /\ input[c] = "none"
  /\ Len(backlog) < MAX_NCLIENTS
  /\ input' = [input EXCEPT ![c] = "idle"]
  /\ backlog' = Append(backlog, c)
  /\ UNCHANGED <<worker, spc, newfd, owner, workerVars, signalVars>>

\* The rest of the line, or an end of file.
Finish(c) ==
  /\ input[c] = "idle"
  /\ \E s \in {"line", "eof", "empty"} : input' = [input EXCEPT ![c] = s]
  /\ UNCHANGED <<mainVars, workerVars, signalVars>>

(***************************************************************************)
(* main.  A signal handler runs in its place.                              *)
(***************************************************************************)
MainRuns == handler = "idle"

\* sigaction, socket, setsockopt, bind: on failure main returns -1.
Setup ==
  /\ spc = "setup"
  /\ spc' \in {"accept", "stopped"}
  /\ UNCHANGED <<worker, newfd, owner, backlog, input, workerVars, signalVars>>

\* accept returns the first connection on the lowest free descriptor.
Accept ==
  /\ MainRuns /\ spc = "accept"
  /\ backlog # << >>
  /\ \E f \in ClientFd \ Open :
       /\ \A g \in ClientFd \ Open : f <= g
       /\ newfd' = f
       /\ owner' = [owner EXCEPT ![f] = Head(backlog)]
  /\ backlog' = Tail(backlog)
  /\ spc' = "spawn"
  /\ UNCHANGED <<worker, input, workerVars, signalVars>>

\* The table is full: accept returns -1, the error is printed, the loop tries
\* again, and the connection stays where it is.
AcceptFails ==
  /\ MainRuns /\ spc = "accept"
  /\ backlog # << >> /\ ClientFd \subseteq Open
  /\ UNCHANGED vars

\* fork or pthread_create: the worker gets newfd by value.  main leaves the
\* descriptor open in both servers.
Spawn ==
  /\ MainRuns /\ spc = "spawn"
  /\ \E c \in Conns :
       /\ owner[newfd] = c
       /\ wpc' = [wpc EXCEPT ![c] = "start"]
       /\ c_fd' = [c_fd EXCEPT ![c] = newfd]
  /\ spc' = "accept"
  /\ UNCHANGED <<worker, newfd, owner, backlog, input, line, printed, ended, signalVars>>

\* fork returns -1, which is reported, or pthread_create an error, which is
\* not looked at: nobody serves the connection and its descriptor stays open.
SpawnFails ==
  /\ "spawn" \in Faults
  /\ MainRuns /\ spc = "spawn"
  /\ spc' = "accept"
  /\ UNCHANGED <<worker, newfd, owner, backlog, input, workerVars, signalVars>>

Main == Setup \/ Accept \/ AcceptFails \/ Spawn \/ SpawnFails

(***************************************************************************)
(* The workers.                                                            *)
(***************************************************************************)

\* The client a worker's descriptor refers to.  A child has a copy of the
\* table made when it was forked, a thread looks into the common one.
Peer(c) == IF worker = "process" THEN c ELSE owner[c_fd[c]]

\* Mutant: the thread is passed &newfd and looks there when it starts.
StartWorkerByAddress(c) ==
  /\ wpc[c] = "start"
  /\ c_fd' = [c_fd EXCEPT ![c] = newfd]
  /\ wpc' = [wpc EXCEPT ![c] = "read"]
  /\ UNCHANGED <<mainVars, input, line, printed, ended, signalVars>>

\* The worker starts, on the descriptor it was given.
StartWorker(c) ==
  /\ wpc[c] = "start"
  /\ wpc' = [wpc EXCEPT ![c] = "read"]
  /\ UNCHANGED <<mainVars, input, c_fd, line, printed, ended, signalVars>>

\* read returns a newline, or the last character of a piece fills the line.
ReadLine(c) ==
  /\ wpc[c] = "read"
  /\ Peer(c) # NoConn /\ input[Peer(c)] \in {"line", "eof"}
  /\ line' = [line EXCEPT ![c] = Peer(c)]
  /\ wpc' = [wpc EXCEPT ![c] = "print"]
  /\ UNCHANGED <<mainVars, input, c_fd, printed, ended, signalVars>>

\* Nothing was ever read: tmpchar is uninitialised.  NUL is appended without
\* effect for ever, any other value fills the line.
ReadNothing(c) ==
  /\ wpc[c] = "read"
  /\ Peer(c) # NoConn /\ input[Peer(c)] = "empty"
  /\ \/ /\ line' = [line EXCEPT ![c] = Peer(c)]
        /\ wpc' = [wpc EXCEPT ![c] = "print"]
     \/ /\ wpc' = [wpc EXCEPT ![c] = "spin"]
        /\ UNCHANGED line
  /\ UNCHANGED <<mainVars, input, c_fd, printed, ended, signalVars>>

PrintLine(c) ==
  /\ wpc[c] = "print"
  /\ printed' = Append(printed, line[c])
  /\ wpc' = [wpc EXCEPT ![c] = "close"]
  /\ UNCHANGED <<mainVars, input, c_fd, line, ended, signalVars>>

\* The child: shutdown(newfd, 2).  The parent's descriptor stays open.
Shutdown(c) ==
  /\ worker = "process" /\ wpc[c] = "close"
  /\ ended' = ended \cup {c}
  /\ wpc' = [wpc EXCEPT ![c] = "exit"]
  /\ UNCHANGED <<mainVars, input, c_fd, line, printed, signalVars>>

\* Mutant: the thread leaves its descriptor open.
CloseFdNot(c) ==
  /\ worker = "thread" /\ wpc[c] = "close"
  /\ wpc' = [wpc EXCEPT ![c] = "exit"]
  /\ UNCHANGED <<mainVars, input, c_fd, line, printed, ended, signalVars>>

\* The thread: close(c_fd).
CloseFd(c) ==
  /\ worker = "thread" /\ wpc[c] = "close"
  /\ ended' = ended \cup {owner[c_fd[c]]}
  /\ owner' = [owner EXCEPT ![c_fd[c]] = NoConn]
  /\ wpc' = [wpc EXCEPT ![c] = "exit"]
  /\ UNCHANGED <<worker, spc, newfd, backlog, input, c_fd, line, printed, signalVars>>

\* exit: the child is a zombie and SIGCHLD is pending, once however many
\* children have ended since the handler last ran.
ExitProcess(c) ==
  /\ worker = "process" /\ wpc[c] = "exit"
  /\ wpc' = [wpc EXCEPT ![c] = "zombie"]
  /\ sigchld' = TRUE
  /\ UNCHANGED <<mainVars, input, c_fd, line, printed, ended, handler, halted, stops>>

\* pthread_exit of a detached thread.
ExitThread(c) ==
  /\ worker = "thread" /\ wpc[c] = "exit"
  /\ wpc' = [wpc EXCEPT ![c] = "gone"]
  /\ UNCHANGED <<mainVars, input, c_fd, line, printed, ended, signalVars>>

Worker(c) ==
  /\ c \notin halted
  /\ \/ StartWorker(c) \/ ReadLine(c) \/ ReadNothing(c) \/ PrintLine(c)
     \/ Shutdown(c) \/ CloseFd(c) \/ ExitProcess(c) \/ ExitThread(c)

\* Job control (Ctrl-Z, fg, kill): a child process that has not ended is stopped
\* or continued.  sa_flags has no SA_NOCLDSTOP, so SIGCHLD is raised for that too.
StopOrContinue(c) ==
  /\ worker = "process" /\ stops < MaxStops
  /\ wpc[c] \notin {"none", "zombie", "gone"}
  /\ halted' = IF c \in halted THEN halted \ {c} ELSE halted \cup {c}
  /\ stops' = stops + 1
  /\ sigchld' = TRUE
  /\ UNCHANGED <<mainVars, input, workerVars, handler>>

(***************************************************************************)
(* sigchld_handler.                                                        *)
(***************************************************************************)

\* SIGCHLD is delivered; it is blocked until the handler returns.
HandleSignal ==
  /\ sigchld /\ handler = "idle"
  /\ sigchld' = FALSE
  /\ handler' = "wait"
  /\ UNCHANGED <<mainVars, input, workerVars, halted, stops>>

\* Mutant: the handler waits for as long as there are children.
ReapMany(c) ==
  /\ handler = "wait"
  /\ wpc[c] = "zombie"
  /\ wpc' = [wpc EXCEPT ![c] = "gone"]
  /\ handler' = IF \A d \in Conns : wpc'[d] \in {"none", "gone"}
                  THEN "idle" ELSE "wait"
  /\ UNCHANGED <<mainVars, input, c_fd, line, printed, ended, sigchld, halted, stops>>

\* wait(NULL) returns one child that has ended; there is no other call.
Reap(c) ==
  /\ handler = "wait"
  /\ wpc[c] = "zombie"
  /\ wpc' = [wpc EXCEPT ![c] = "gone"]
  /\ handler' = "idle"
  /\ UNCHANGED <<mainVars, input, c_fd, line, printed, ended, sigchld, halted, stops>>

\* There is no child any more: wait returns -1, which is not looked at.
ReapNone ==
  /\ handler = "wait"
  /\ \A c \in Conns : wpc[c] \in {"none", "gone"}
  /\ handler' = "idle"
  /\ UNCHANGED <<mainVars, input, workerVars, sigchld, halted, stops>>

SignalHandler == HandleSignal \/ ReapNone \/ \E c \in Conns : Reap(c)

Next ==
  \/ Main
  \/ SignalHandler
  \/ \E c \in Conns : Connect(c) \/ Finish(c) \/ Worker(c) \/ StopOrContinue(c)

Spec == Init /\ [][Next]_vars

\* main, the handler and each worker that is not stopped are scheduled; a client
\* need not finish, and who has stopped a child need not continue it.
FairSpec ==
  /\ Spec
  /\ WF_vars(Main) /\ WF_vars(SignalHandler)
  /\ \A c \in Conns : WF_vars(Worker(c))

-----------------------------------------------------------------------------
(***************************************************************************)
(* Properties.                                                             *)
(***************************************************************************)

\* A worker's descriptor is its client's until the worker closes it itself,
\* whatever main and the other workers accept and close: no two workers
\* share a connection, and no number is reused under a worker.
DescriptorOwned == \A c \in Conns : Using(c) => owner[c_fd[c]] = c

\* A client nobody has started a worker for yet, and nobody else will.
Waiting(c) == wpc[c] = "none" /\ input[c] # "none"

OneDescriptor == \A f, g \in Open : owner[f] = owner[g] => f = g

BacklogWaits ==
  /\ \A i, j \in DOMAIN backlog : backlog[i] = backlog[j] => i = j
  /\ \A i \in DOMAIN backlog : Waiting(backlog[i])
  /\ \A i \in DOMAIN backlog, f \in ClientFd : owner[f] # backlog[i]

AcceptedWaits == spc = "spawn" => newfd \in Open /\ Waiting(owner[newfd])

\* How far the worker of c is, seen from outside.
ProgressKnown(c) ==
  /\ input[c] = "none" => wpc[c] = "none" /\ \A f \in ClientFd : owner[f] # c
  /\ wpc[c] = "print" => line[c] = c
  /\ c \in ToSet(printed) <=> wpc[c] \in {"close", "exit", "zombie", "gone"}
  /\ c \in ended <=> wpc[c] \in {"exit", "zombie", "gone"}

\* What is behind DescriptorOwned and the line service: a connection is in one
\* place, the backlog, main's hands or one descriptor, until its worker ends it,
\* and a worker is past its printf exactly if its own client's line was printed.
WorkerInv ==
  /\ DescriptorOwned
  /\ OneDescriptor
  /\ BacklogWaits
  /\ AcceptedWaits
  /\ \A c \in Conns : ProgressKnown(c)

Zombies == {c \in Conns : wpc[c] = "zombie"}

\* A delivery of SIGCHLD, pending or under way, that finds no child to reap is
\* one for a child that was stopped or continued: the end of children alone never
\* holds the server up in wait(NULL), however many end at once and whenever the
\* signal is delivered.  Each stop or continuation can hold it up once.
WaitBlocksPerStop ==
  (IF sigchld THEN 1 ELSE 0) + (IF handler = "wait" THEN 1 ELSE 0)
    <= Cardinality(Zombies) + stops

\* In the thread server a descriptor comes back with the end of its worker: one
\* that is open is in use, in main's hands, or was never given to a worker.  (In
\* the fork server the parent keeps all of them.)
DescriptorsReturned ==
  worker = "thread" =>
    \A f \in Open : Using(owner[f]) \/ wpc[owner[f]] = "none"

\* SpawnFails happened to c.
Abandoned(c) ==
  /\ wpc[c] = "none"
  /\ \E f \in Open : owner[f] = c /\ (spc = "spawn" => f # newfd)

\* The handler waits for children of which none has ended.
HeldUp == handler = "wait" /\ Zombies = {} /\ \E c \in Conns : wpc[c] \notin {"none", "gone"}

\* A client that has sent its line is printed and disconnected, however many
\* others stall or make their workers spin, unless no worker could be started
\* for it, its child is stopped, it is still in the backlog and the table is
\* full, or the handler holds the server up.
LineServed ==
  \A c \in Conns : (input[c] = "line") ~>
    \/ c \in ended
    \/ Abandoned(c) \/ c \in halted
    \/ c \in ToSet(backlog) /\ ClientFd \subseteq Open
    \/ HeldUp

Status(c) ==
  IF c \in ended THEN "ended"
  ELSE IF c \in ToSet(printed) THEN "printed"
  ELSE IF input[c] = "none" THEN "out" ELSE "in"

Service == INSTANCE LineService WITH
  status <- [c \in Conns |-> Status(c)]

\* Both servers implement the line service: every client is disconnected
\* only after its own line was printed, and no line is printed twice.
ImplementsService == Service!Spec
=============================================================================
