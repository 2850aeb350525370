----------------------------- MODULE LineService -----------------------------
(***************************************************************************)
(* What the servers of Ch10-networking that start a worker per client      *)
(* promise: a client connects, its line is printed, once, and only then is *)
(* it disconnected.  How many are served at a time, and in which order, is *)
(* left open.                                                              *)
(***************************************************************************)
EXTENDS Sequences

CONSTANT Conns   \* the clients, one connection each

VARIABLES
  status,   \* status[c]: "out", "in", "printed" or "ended"
  printed   \* the clients whose line was printed, in that order

vars == <<status, printed>>

Init ==
  /\ status = [c \in Conns |-> "out"]
  /\ printed = << >>

Connect(c) ==
  /\ status[c] = "out"
  /\ status' = [status EXCEPT ![c] = "in"]
  /\ UNCHANGED printed

PrintLine(c) ==
  /\ status[c] = "in"
  /\ status' = [status EXCEPT ![c] = "printed"]
  /\ printed' = Append(printed, c)

Disconnect(c) ==
  /\ status[c] = "printed"
  /\ status' = [status EXCEPT ![c] = "ended"]
  /\ UNCHANGED printed

Next == \E c \in Conns : Connect(c) \/ PrintLine(c) \/ Disconnect(c)

Spec == Init /\ [][Next]_vars
=============================================================================
