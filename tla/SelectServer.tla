---------------------------- MODULE SelectServer -----------------------------
(***************************************************************************)
(* src/Code/Ch10-networking/TCPserverSelectHi.c: one process that serves   *)
(* many TCP clients with select().  Each round it takes a copy of the      *)
(* master descriptor set, waits for some descriptor to be ready and walks  *)
(* through the ready ones: on the listening socket it accepts, on a client *)
(* it reads one line, closes the connection and trims fdmax.               *)
(*                                                                         *)
(* A client process connects, sends a line and is disconnected by the      *)
(* server; what it has sent so far is abstracted to what the read loop can *)
(* tell apart.  The kernel's part (descriptor table, backlog, readiness)   *)
(* is modelled from its use here: descriptors are handed out lowest first. *)
(***************************************************************************)
EXTENDS Integers, FiniteSets, Sequences

CONSTANTS Conns,         \* the client processes
          NoConn,        \* a descriptor nobody uses
          s_fd,          \* the descriptor of the listening socket
          MaxFd,         \* the last descriptor of the table
          BadFd,         \* the bit that FD_SET(-1, ...) sets in the master set
          MAX_NCLIENTS,  \* the length of the backlog
          Faults         \* "accept": accept may fail; "eof": clients hang up

ASSUME ServerAssumption ==
  /\ NoConn \notin Conns
  /\ s_fd \in Nat /\ MaxFd \in Nat /\ s_fd < MaxFd
  /\ BadFd \in s_fd + 1 .. MaxFd
  /\ MAX_NCLIENTS \in Nat
  /\ Faults \subseteq {"accept", "eof"}

ClientFd == s_fd + 1 .. MaxFd

VARIABLES
  master,    \* the set of descriptors to watch
  read_fds,  \* the result of the last select
  fdmax,     \* the highest descriptor in the master set
  i,         \* the descriptor the for loop has reached
  spc,       \* where the server is
  owner,     \* owner[f]: the client behind descriptor f
  backlog,   \* connections the kernel has completed and nobody accepted yet
  input,     \* input[c]: what client c has sent
  failed     \* history: some accept has failed

serverVars == <<master, read_fds, fdmax, i, spc>>
vars == <<serverVars, owner, backlog, input, failed>>

Open == {f \in ClientFd : owner[f] # NoConn}

\* What the read loop can find in a connection: "idle" nothing yet, "part" a
\* piece of a line, "line" a whole one (or 128 characters), "eof" an end of
\* file after a piece, "empty" an end of file before any character.
TypeOK ==
  /\ master \subseteq ClientFd \cup {s_fd}
  /\ read_fds \subseteq ClientFd \cup {s_fd}
  /\ fdmax \in ClientFd \cup {s_fd}
  /\ i \in 0..MaxFd + 1
  /\ spc \in {"setup", "select", "scan", "read", "spin", "stopped"}
  /\ owner \in [ClientFd -> Conns \cup {NoConn}]
  /\ backlog \in Seq(Conns)
  /\ input \in [Conns -> {"none", "idle", "part", "line", "eof", "empty"}]
  /\ failed \in BOOLEAN

\* fdmax = getdtablesize() is overwritten before it is used.
Init ==
  /\ master = {}
  /\ read_fds = {}
  /\ fdmax = s_fd
  /\ i = 0
  /\ spc = "setup"
  /\ owner = [f \in ClientFd |-> NoConn]
  /\ backlog = << >>
  /\ input = [c \in Conns |-> "none"]
  /\ failed = FALSE

(***************************************************************************)
(* The clients and the kernel.                                             *)
(***************************************************************************)
Listening == spc \notin {"setup", "stopped"}

Connect(c) ==
  /\ Listening
  /\ input[c] = "none"
  /\ Len(backlog) < MAX_NCLIENTS
  /\ input' = [input EXCEPT ![c] = "idle"]
  /\ backlog' = Append(backlog, c)
  /\ UNCHANGED <<serverVars, owner, failed>>

SendPart(c) ==
  /\ input[c] = "idle"
  /\ input' = [input EXCEPT ![c] = "part"]
  /\ UNCHANGED <<serverVars, owner, backlog, failed>>

SendRest(c) ==
  /\ input[c] \in {"idle", "part"}
  /\ input' = [input EXCEPT ![c] = "line"]
  /\ UNCHANGED <<serverVars, owner, backlog, failed>>

HangUp(c) ==
  /\ "eof" \in Faults
  /\ input[c] \in {"idle", "part"}
  /\ input' = [input EXCEPT ![c] = IF @ = "part" THEN "eof" ELSE "empty"]
  /\ UNCHANGED <<serverVars, owner, backlog, failed>>

Environment(c) == Connect(c) \/ SendPart(c) \/ SendRest(c) \/ HangUp(c)

\* The descriptors a read or an accept would not block on.
Ready ==
  {f \in ClientFd : owner[f] # NoConn /\ input[owner[f]] # "idle"}
    \cup (IF backlog # << >> THEN {s_fd} ELSE {})

(***************************************************************************)
(* The server.                                                             *)
(***************************************************************************)

\* socket, setsockopt, bind, listen; any of the first three may fail.
Setup ==
  /\ spc = "setup"
  /\ \/ /\ spc' = "select"
        /\ master' = {s_fd}
        /\ fdmax' = s_fd
     \/ /\ spc' = "stopped"
        /\ UNCHANGED <<master, fdmax>>
  /\ UNCHANGED <<read_fds, i, owner, backlog, input, failed>>

\* The descriptors select is asked about.
Watched == {f \in master : f <= fdmax}

\* Mutant: the loop asks master, not the copy that select has filtered.
SelectKeepsAll ==
  /\ spc = "select"
  /\ Watched \cap Ready # {}
  /\ read_fds' = master
  /\ i' = 0
  /\ spc' = "scan"
  /\ UNCHANGED <<master, fdmax, owner, backlog, input, failed>>

\* read_fds = master; select without a timeout.  The result is unchecked: on
\* a descriptor that is not open select fails and read_fds stays master.
Select ==
  /\ spc = "select"
  /\ IF Watched \subseteq Open \cup {s_fd}
       THEN /\ Watched \cap Ready # {}
            /\ read_fds' = Watched \cap Ready
       ELSE read_fds' = master
  /\ i' = 0
  /\ spc' = "scan"
  /\ UNCHANGED <<master, fdmax, owner, backlog, input, failed>>

\* The descriptors the for loop still has to visit.
Pending == {f \in read_fds : i <= f /\ f <= fdmax}

IsNext(f) == f \in Pending /\ \A g \in Pending : f <= g

\* Mutant: fdmax is not raised to the new descriptor.
AcceptKeepsFdmax ==
  /\ spc = "scan"
  /\ IsNext(s_fd)
  /\ backlog # << >>
  /\ \E newfd \in ClientFd \ Open :
       /\ \A g \in ClientFd \ Open : newfd <= g
       /\ owner' = [owner EXCEPT ![newfd] = Head(backlog)]
       /\ master' = master \cup {newfd}
  /\ backlog' = Tail(backlog)
  /\ i' = s_fd + 1
  /\ UNCHANGED <<spc, read_fds, fdmax, input, failed>>

\* Mutant: the new client is served in the same round.
AcceptAndServe ==
  /\ spc = "scan"
  /\ IsNext(s_fd)
  /\ backlog # << >>
  /\ \E newfd \in ClientFd \ Open :
       /\ \A g \in ClientFd \ Open : newfd <= g
       /\ owner' = [owner EXCEPT ![newfd] = Head(backlog)]
       /\ master' = master \cup {newfd}
       /\ read_fds' = read_fds \cup {newfd}
       /\ fdmax' = IF newfd > fdmax THEN newfd ELSE fdmax
  /\ backlog' = Tail(backlog)
  /\ i' = s_fd + 1
  /\ UNCHANGED <<spc, input, failed>>

\* The loop reaches the listening socket and accept returns the first
\* connection on the lowest free descriptor.
Accept ==
  /\ spc = "scan"
  /\ IsNext(s_fd)
  /\ backlog # << >>
  /\ \E newfd \in ClientFd \ Open :
       /\ \A g \in ClientFd \ Open : newfd <= g
       /\ owner' = [owner EXCEPT ![newfd] = Head(backlog)]
       /\ master' = master \cup {newfd}
       /\ fdmax' = IF newfd > fdmax THEN newfd ELSE fdmax
  /\ backlog' = Tail(backlog)
  /\ i' = s_fd + 1
  /\ UNCHANGED <<spc, read_fds, input, failed>>

\* accept returns -1: the error is reported and FD_SET(-1, &master) executed
\* all the same, which sets bit BadFd (-1 modulo the bits of a word).
AcceptFails ==
  /\ spc = "scan"
  /\ IsNext(s_fd)
  /\ "accept" \in Faults \/ ClientFd \subseteq Open
  /\ master' = master \cup {BadFd}
  /\ i' = s_fd + 1
  /\ failed' = TRUE
  /\ UNCHANGED <<spc, read_fds, fdmax, owner, backlog, input>>

\* The loop reaches a client: it enters the read loop.
StartReading ==
  /\ spc = "scan"
  /\ \E f \in ClientFd :
       /\ IsNext(f)
       /\ i' = f
  /\ spc' = "read"
  /\ UNCHANGED <<master, read_fds, fdmax, owner, backlog, input, failed>>

\* Mutant: fdmax is lowered by one instead of down to a member of master.
CloseClientStepDown ==
  /\ master' = master \ {i}
  /\ fdmax' = IF i = fdmax THEN fdmax - 1 ELSE fdmax
  /\ owner' = [owner EXCEPT ![i] = NoConn]
  /\ input' = IF i \in Open THEN [input EXCEPT ![owner[i]] = "none"] ELSE input
  /\ i' = i + 1
  /\ spc' = "scan"
  /\ UNCHANGED <<read_fds, backlog, failed>>

\* Mutant: fdmax is lowered whichever client is closed.
CloseClientAlwaysDown ==
  /\ master' = master \ {i}
  /\ \E f \in master' :
       /\ f < fdmax
       /\ \A g \in master' : g < fdmax => g <= f
       /\ fdmax' = f
  /\ owner' = [owner EXCEPT ![i] = NoConn]
  /\ input' = IF i \in Open THEN [input EXCEPT ![owner[i]] = "none"] ELSE input
  /\ i' = i + 1
  /\ spc' = "scan"
  /\ UNCHANGED <<read_fds, backlog, failed>>

\* close, FD_CLR and the loop that lowers fdmax to a member of master.
CloseClient ==
  /\ master' = master \ {i}
  /\ IF i = fdmax
       THEN \E f \in master' :
              /\ f <= fdmax
              /\ \A g \in master' : g <= fdmax => g <= f
              /\ fdmax' = f
       ELSE fdmax' = fdmax
  /\ owner' = [owner EXCEPT ![i] = NoConn]
  /\ input' = IF i \in Open THEN [input EXCEPT ![owner[i]] = "none"] ELSE input
  /\ i' = i + 1
  /\ spc' = "scan"
  /\ UNCHANGED <<read_fds, backlog, failed>>

\* The line is complete.  At an end of file read leaves tmpchar alone and its
\* last value fills the line.
FinishLine ==
  /\ spc = "read"
  /\ i \in Open /\ input[owner[i]] \in {"line", "eof"}
  /\ CloseClient

\* Nothing was ever read (end of file, or the descriptor is not open):
\* tmpchar is uninitialised.  Any value but NUL ends the loop sooner or
\* later; NUL is appended without effect for ever.
ReadNothing ==
  /\ spc = "read"
  /\ i \in Open => input[owner[i]] = "empty"
  /\ \/ CloseClient
     \/ /\ spc' = "spin"
        /\ UNCHANGED <<master, read_fds, fdmax, i, owner, backlog, input, failed>>

\* The for loop ends.
EndRound ==
  /\ spc = "scan"
  /\ Pending = {}
  /\ spc' = "select"
  /\ UNCHANGED <<master, read_fds, fdmax, i, owner, backlog, input, failed>>

Server ==
  \/ Setup \/ Select \/ Accept \/ AcceptFails
  \/ StartReading \/ FinishLine \/ ReadNothing \/ EndRound

Next == Server \/ \E c \in Conns : Environment(c)

Spec == Init /\ [][Next]_vars

\* The server is one loop that blocks only in select, accept and read.
FairSpec == Spec /\ WF_vars(Server)

-----------------------------------------------------------------------------
(***************************************************************************)
(* Properties.                                                             *)
(***************************************************************************)

\* While the server runs, select is asked about the listening socket and
\* about every open client, and about nothing else than these and the bit a
\* failed accept may have set; fdmax is a member of master.
MasterCovers ==
  Listening =>
    /\ {s_fd} \cup Open \subseteq Watched
    /\ master \subseteq {s_fd, BadFd} \cup Open
    /\ fdmax \in master

\* Master is exactly the open descriptors and fdmax the largest of them.
ExactSets ==
  Listening =>
    /\ master = {s_fd} \cup Open
    /\ fdmax \in master
    /\ \A f \in master : f <= fdmax

\* As long as accept has not failed the descriptor sets are exact, over any
\* sequence of accepts and closes.
MasterExact == ~failed => ExactSets

\* The server reads only from a client that has sent something or hung up
\* ("looking for data to read"): no stale bit of read_fds, no descriptor
\* reused since select, leads it to block on a client that is silent.
ReadsReadyOnly ==
  spc = "read" => i \in Open /\ input[owner[i]] # "idle"

\* That is so for as long as accept has not failed.
ReadsReady == ~failed => ReadsReadyOnly

\* A connection accepted in a round does not inherit a ready bit from an
\* earlier owner of its descriptor number.
NoInheritedReadiness ==
  [][~failed => \A f \in ClientFd : owner[f] = NoConn /\ owner'[f] # NoConn
       => f \notin read_fds']_vars

\* The server is stuck in the read loop: its client has not finished its
\* line, or the loop appends NUL for ever.
Stuck ==
  \/ spc = "spin"
  \/ spc = "read" /\ i \in Open /\ input[owner[i]] \in {"idle", "part"}

\* Every client that has sent a line is answered and disconnected, unless an
\* accept fails or the server is stuck for good on a client that does not
\* finish its own.
LineServed ==
  []~failed /\ ([]<>~Stuck)
    => \A c \in Conns : (input[c] = "line") ~> (input[c] = "none")

\* Master is exact; every connection is known under one descriptor or waits
\* once in the backlog; and what is left of read_fds to visit still is open
\* and ready.
Serving ==
  /\ ExactSets
  /\ \A f \in Open : /\ input[owner[f]] # "none"
                     /\ \A g \in Open : owner[f] = owner[g] => f = g
  /\ \A k \in DOMAIN backlog :
       /\ input[backlog[k]] # "none"
       /\ \A f \in Open : owner[f] # backlog[k]
       /\ \A l \in DOMAIN backlog : backlog[k] = backlog[l] => k = l
  /\ spc \in {"scan", "read"} =>
       \A f \in read_fds :
         f >= i => f = s_fd \/ (f \in Open /\ input[owner[f]] # "idle")
  /\ spc = "read" => i \in read_fds

\* The invariant behind these for as long as accept does not fail.
ServingInv == ~failed => Serving
=============================================================================
