---------------------------- MODULE TaskContexts -----------------------------
(***************************************************************************)
(* What a context switch promises to two tasks: each has its registers for *)
(* itself.  Only the current task changes its registers, and a switch      *)
(* changes nobody's.                                                       *)
(***************************************************************************)
EXTENDS Integers

CONSTANTS Saved, \* the registers a task may count on
          Word   \* what a register can hold

VARIABLES current, \* the task that runs, 0 or 1
          context  \* context[t][r]: register r of task t

taskVars == <<current, context>>

Init ==
  /\ current \in {0, 1}
  /\ context \in [{0, 1} -> [Saved -> Word]]

Run ==
  /\ \E own \in [Saved -> Word] : context' = [context EXCEPT ![current] = own]
  /\ UNCHANGED current

Switch ==
  /\ current' = 1 - current
  /\ UNCHANGED context

Next == Run \/ Switch

Spec == Init /\ [][Next]_taskVars
=============================================================================
