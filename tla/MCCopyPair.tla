------------------------------ MODULE MCCopyPair ------------------------------
(***************************************************************************)
(* Instances of CopyPair for TLC: both transports with their faults, and   *)
(* both without any, where liveness asks for most.                         *)
(***************************************************************************)
EXTENDS CopyPair

BothPairs ==
  { [transport |-> "tcp", faults |-> {"client", "server", "recv"}],
    [transport |-> "tcp", faults |-> {}],
    [transport |-> "udp", faults |-> {"client", "server", "recv", "loss", "reorder"}],
    [transport |-> "udp", faults |-> {"reorder"}] }
=============================================================================
