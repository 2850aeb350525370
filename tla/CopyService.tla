------------------------------ MODULE CopyService -----------------------------
(***************************************************************************)
(* What a pair of client and server of Ch10-networking without             *)
(* acknowledgements promises: the server copies to its output what clients *)
(* hand over, nothing twice and nothing that was not sent.  Over TCP it    *)
(* copies one client only, without gaps; over UDP a datagram at a time.    *)
(*                                                                         *)
(* Units are the numbers 1, 2, ... of a client: pieces of its byte stream  *)
(* over TCP, datagrams over UDP.                                           *)
(***************************************************************************)
EXTENDS Integers

CONSTANT Clients

VARIABLES transport, \* "tcp" or "udp"
          sent,      \* sent[c]: how many units c has handed to its socket
          due,       \* due[c]: those that can still come to be printed
          printed    \* printed[c]: the units of c on the server's output

vars == <<transport, sent, due, printed>>

Init ==
  /\ transport \in {"tcp", "udp"}
  /\ sent = [c \in Clients |-> 0]
  /\ due = [c \in Clients |-> {}]
  /\ printed = [c \in Clients |-> {}]

\* New units are due, or some of them are lost at once.
Send(c) ==
  /\ sent[c] < sent'[c] /\ sent' = [sent EXCEPT ![c] = sent'[c]]
  /\ due[c] \subseteq due'[c] /\ due' = [due EXCEPT ![c] = due'[c]]
  /\ due'[c] \ due[c] \subseteq sent[c] + 1 .. sent'[c]
  /\ UNCHANGED <<transport, printed>>

NoGap(units) == \A i \in units : \A j \in 1 .. i : j \in units

\* What is printed is due no longer, so that nothing is printed twice.
PrintLine(c) ==
  /\ \E block \in SUBSET due[c] :
       /\ block # {}
       /\ printed' = [printed EXCEPT ![c] = @ \cup block]
       /\ due' = [due EXCEPT ![c] = @ \ block]
       /\ transport = "udp" => \E k \in block : block = {k}
  /\ transport = "tcp" => /\ NoGap(printed'[c])
                          /\ \A d \in Clients \ {c} : printed[d] = {}
  /\ UNCHANGED <<transport, sent>>

Drop ==
  /\ due' = [c \in Clients |-> due'[c]]
  /\ \A c \in Clients : due'[c] \subseteq due[c]
  /\ UNCHANGED <<transport, sent, printed>>

Next == Drop \/ \E c \in Clients : Send(c) \/ PrintLine(c)

Spec == Init /\ [][Next]_vars
=============================================================================
