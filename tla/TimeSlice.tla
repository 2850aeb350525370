------------------------------ MODULE TimeSlice ------------------------------
(***************************************************************************)
(* src/Code/Ch1-memory-centric-system-model/basic-OS-concepts/             *)
(* time_slice.py: the context switch between two tasks.  The registers go  *)
(* to the stack, from there to the control block of the task that ran; the *)
(* control block of the other task goes to the stack, and from there to    *)
(* the registers.  Each round of one of the four loops is a step.          *)
(*                                                                         *)
(* No file defines PID, TCB_OFFSET and TCB_SZ; here they are constants.    *)
(* What happens between two calls of time_slice is the task's doing.       *)
(***************************************************************************)
EXTENDS Integers

CONSTANTS
  NREGS_CONTEXT,      \* the registers that are switched
  Word,               \* what a register or a word of memory can hold
  PID,                \* the address of the number of the running task
  TCB_OFFSET, TCB_SZ, \* the address of the two control blocks, and their size
  StackBase           \* the stack pointer when time_slice is called

Regs == 0 .. NREGS_CONTEXT - 1
Tcbs == TCB_OFFSET .. TCB_OFFSET + 2 * TCB_SZ - 1

\* The context, and the word above it, which the code reads as well.
Stack == StackBase .. StackBase + NREGS_CONTEXT

Address == {PID} \cup Tcbs \cup Stack

ASSUME SliceAssumption ==
  /\ NREGS_CONTEXT \in Nat \ {0}
  /\ {0, 1} \subseteq Word
  /\ {PID, TCB_OFFSET, TCB_SZ, StackBase} \subseteq Nat
  /\ TCB_SZ >= NREGS_CONTEXT
  /\ PID \notin Tcbs \cup Stack
  /\ Tcbs \cap Stack = {}

VARIABLES
  phase,       \* "run", while a task runs, or the part of time_slice
  r,           \* the loop counter
  systemState, \* the words at Address
  registers,   \* the registers that are switched
  msp          \* registers[MSP], the stack pointer, which is not among them

vars == <<phase, r, systemState, registers, msp>>

TypeOK ==
  /\ phase \in {"run", "push", "swap", "save", "load", "pop"}
  /\ r \in Regs
  /\ systemState \in [Address -> Word]
  /\ systemState[PID] \in {0, 1}
  /\ registers \in [Regs -> Word]
  /\ msp \in Stack

\* A task has run before, or the control block was filled in by hand.
Init ==
  /\ phase = "run"
  /\ r = 0
  /\ systemState \in [Address -> Word]
  /\ systemState[PID] \in {0, 1}
  /\ registers \in [Regs -> Word]
  /\ msp = StackBase

\* The next round of a loop, or what follows it.
NextRound(after) ==
  IF r + 1 < NREGS_CONTEXT THEN r' = r + 1 /\ UNCHANGED phase
                           ELSE r' = 0 /\ phase' = after

Tcb(pid) == TCB_OFFSET + pid * TCB_SZ

\* The running task: any values in its registers, and in the word above the
\* stack.
RunTask ==
  /\ phase = "run"
  /\ registers' \in [Regs -> Word]
  /\ \E w \in Word :
       systemState' = [systemState EXCEPT ![StackBase + NREGS_CONTEXT] = w]
  /\ UNCHANGED <<phase, r, msp>>

\* The timer's interrupt: time_slice is called.
TimerTick ==
  /\ phase = "run"
  /\ phase' = "push"
  /\ UNCHANGED <<r, systemState, registers, msp>>

PushRegister ==
  /\ phase = "push"
  /\ systemState' = [systemState EXCEPT ![msp] = registers[r]]
  /\ msp' = msp + 1
  /\ NextRound("swap")
  /\ UNCHANGED registers

GetNextTask ==
  /\ phase = "swap"
  /\ systemState' = [systemState EXCEPT ![PID] = 1 - @]
  /\ phase' = "save"
  /\ UNCHANGED <<r, registers, msp>>

\* Mutant: the pointer is moved before the word is read.
SaveToTcbPredecrement ==
  /\ phase = "save"
  /\ systemState' = [systemState EXCEPT ![Tcb(1 - systemState[PID]) + r] =
                       systemState[msp - 1]]
  /\ msp' = msp - 1
  /\ NextRound("load")
  /\ UNCHANGED registers

\* The stack pointer is at the first free word: the first word read is the one
\* above the context, and the registers follow from the last one down.
SaveToTcb ==
  /\ phase = "save"
  /\ systemState' = [systemState EXCEPT ![Tcb(1 - systemState[PID]) + r] = systemState[msp]]
  /\ msp' = msp - 1
  /\ NextRound("load")
  /\ UNCHANGED registers

LoadFromTcb ==
  /\ phase = "load"
  /\ systemState' = [systemState EXCEPT ![msp] = systemState[Tcb(systemState[PID]) + r]]
  /\ msp' = msp + 1
  /\ NextRound("pop")
  /\ UNCHANGED registers

\* Mutant: the stack pointer stays where it is.
PopRegisterLeaving ==
  /\ phase = "pop"
  /\ registers' = [registers EXCEPT ![r] = systemState[msp]]
  /\ NextRound("run")
  /\ UNCHANGED <<systemState, msp>>

PopRegister ==
  /\ phase = "pop"
  /\ registers' = [registers EXCEPT ![r] = systemState[msp]]
  /\ msp' = msp - 1
  /\ NextRound("run")
  /\ UNCHANGED systemState

Next ==
  \/ RunTask \/ TimerTick
  \/ PushRegister \/ GetNextTask \/ SaveToTcb \/ LoadFromTcb \/ PopRegister

Spec == Init /\ [][Next]_vars

-----------------------------------------------------------------------------
(* Properties *)

\* Register 0 is not among the registers a task may count on: its place is
\* taken by the word above the context.
Saved == 1 .. NREGS_CONTEXT - 1

\* The task that counts as current: the switch has happened when the last
\* register is in the control block.
CurrentTask == IF phase = "save" THEN 1 - systemState[PID] ELSE systemState[PID]

\* The registers a control block holds: they are stored in the opposite order,
\* one place further.
InTcb(pid) == [k \in Saved |-> systemState[Tcb(pid) + NREGS_CONTEXT - k]]

InRegisters == [k \in Saved |-> registers[k]]

Tasks == INSTANCE TaskContexts WITH
  current <- CurrentTask,
  context <- [t \in {0, 1} |->
                IF t = CurrentTask /\ phase \notin {"load", "pop"}
                  THEN InRegisters ELSE InTcb(t)]

\* Both tasks find their registers, but for register 0, as they left them,
\* however often they are switched: the two reads of a word too high cancel
\* out (time_slice).
KeepsContexts == Tasks!Spec

\* A switch leaves the stack pointer where it was; inside, it follows the
\* loops.  The context on the stack is complete when it is read.
StackDiscipline ==
  LET here == StackBase + r  up == StackBase + NREGS_CONTEXT - r
      top == StackBase + NREGS_CONTEXT
      pid == systemState[PID]
      Pushed(n) == \A k \in 0 .. n - 1 : systemState[StackBase + k] = registers[k]
      Loaded(n) == \A k \in 0 .. n - 1 :
                     systemState[StackBase + k] = systemState[Tcb(pid) + k]
  IN  /\ phase = "run"  => msp = StackBase /\ r = 0
      /\ phase = "push" => msp = here /\ Pushed(r)
      /\ phase = "swap" => msp = top /\ r = 0 /\ Pushed(NREGS_CONTEXT)
      /\ phase = "save" => /\ msp = up /\ Pushed(NREGS_CONTEXT)
                           /\ \A k \in 1 .. r - 1 :
                                systemState[Tcb(1 - pid) + k] = registers[NREGS_CONTEXT - k]
      /\ phase = "load" => msp = here /\ Loaded(r)
      /\ phase = "pop"  => /\ msp = up /\ Loaded(NREGS_CONTEXT)
                           /\ \A k \in 1 .. r - 1 : registers[k] = InTcb(pid)[k]
=============================================================================
