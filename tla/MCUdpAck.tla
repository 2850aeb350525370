------------------------------ MODULE MCUdpAck -------------------------------
(***************************************************************************)
(* Scenarios of UdpAck for TLC.                                            *)
(***************************************************************************)
EXTENDS UdpAck

CONSTANTS c1, c2

\* One client over a network that only loses.
LossOnly == {[faults |-> {"loss"}, started |-> {c1}]}

\* That, one client under every fault, and two clients without any.
AllScenarios ==
  LossOnly \cup
  {[faults |-> {"loss", "reorder", "server", "socket"}, started |-> {c1}],
   [faults |-> {}, started |-> {c1, c2}]}
=============================================================================
