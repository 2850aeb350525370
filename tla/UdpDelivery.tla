----------------------------- MODULE UdpDelivery -----------------------------
(***************************************************************************)
(* What UDPACKclient.c and UDPACKserver.c promise together, seen from      *)
(* outside: the lines a client has taken from its stdin, the copies the    *)
(* server has printed on its stdout, and whether the client has ended.     *)
(* The promise is one of CREDIT: a client goes on to its next line only    *)
(* when at least as many copies as it has lines have been printed.  WHICH  *)
(* lines were printed is left open: the client never looks at the number   *)
(* inside an acknowledgement.                                              *)
(***************************************************************************)
EXTENDS Naturals, Sequences

CONSTANTS Clients,   \* the client processes
          MaxLines   \* a bound on the lines of each stdin

VARIABLES read,      \* read[c]: lines taken from the stdin of c
          printed,   \* printed[c]: the lines of c on the server's stdout
          status     \* status[c]: "open", "closed" (exit 0) or "failed" (-1)

vars == <<read, printed, status>>

Init ==
  /\ read = [c \in Clients |-> 0]
  /\ printed = [c \in Clients |-> << >>]
  /\ status = [c \in Clients |-> "open"]

\* Every line taken so far has been paid for by a printed copy.
Paid(c) == read[c] <= Len(printed[c])

TakeLine(c) ==
  /\ status[c] = "open"
  /\ read[c] < MaxLines
  /\ Paid(c)
  /\ read' = [read EXCEPT ![c] = @ + 1]
  /\ UNCHANGED <<printed, status>>

\* Any line ever taken may be printed, again or late, even after the end.
PrintCopy(c) ==
  /\ \E k \in 1..read[c] : printed' = [printed EXCEPT ![c] = Append(@, k)]
  /\ UNCHANGED <<read, status>>

Close(c) ==
  /\ status[c] = "open"
  /\ Paid(c)
  /\ status' = [status EXCEPT ![c] = "closed"]
  /\ UNCHANGED <<read, printed>>

Fail(c) ==
  /\ status[c] = "open"
  /\ status' = [status EXCEPT ![c] = "failed"]
  /\ UNCHANGED <<read, printed>>

Next == \E c \in Clients : TakeLine(c) \/ PrintCopy(c) \/ Close(c) \/ Fail(c)

Spec == Init /\ [][Next]_vars
=============================================================================
