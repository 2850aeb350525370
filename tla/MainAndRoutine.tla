--------------------------- MODULE MainAndRoutine ---------------------------
(***************************************************************************)
(* A program of the abstract system with an interrupt service routine: the *)
(* code in front of the routine is the main program, which is interrupted  *)
(* between any two instructions (abstract_system_cpu_irqs.py) and shall    *)
(* not notice.  What it may rely on is MainProgram; Cooperate says what it *)
(* and the routine owe each other for that.                                *)
(***************************************************************************)
EXTENDS AbstractSystem

CONSTANTS Own,       \* the registers that the main program uses
          Ram,       \* the words of RAM that it uses
          RoutineLen \* the length of the routine, in instructions

ASSUME MainAssumption ==
  /\ Own \subseteq Reg \ {LR, PC} /\ Ram \subseteq 0 .. MEMTOP - 1
  /\ RoutineLen \in 1 .. MAX_NCYCLES + 1

\* the address of the next instruction to execute, that of the routine, and
\* that of the next instruction of the main program
NextPC == IF phase \in {"execute", "executeError"} THEN registers[PC] - 1 ELSE registers[PC]
Routine == systemState[IVT + TimerIrq]
InRoutine == peripherals /\ NextPC >= Routine
MainPC == IF InRoutine THEN registers[LR] ELSE NextPC

MainStarts ==
  {[registers |-> [r \in Own |-> 0], ram |-> [a \in Ram |-> LoadCode(p)[a]]] : p \in Programs}

Main == INSTANCE MainProgram
          WITH Starts <- MainStarts, pc <- MainPC,
               registers <- [r \in Own |-> registers[r]],
               ram <- [a \in Ram |-> systemState[a]]

-----------------------------------------------------------------------------
(* Properties *)

\* What an instruction reads
RegistersRead(op, args) ==
  CASE op \in {LDR, SET, NOP, WFI, HLI, B, BL} -> {}
    [] op \in {CBZ, CBNZ, BX}                  -> {args[1]}
    [] op = MOV                                -> {args[2]}
    [] op = STR                                -> {args[1], args[2]}
    [] op = PUSH                               -> {args[1], SP}
    [] op = POP                                -> {SP}
    [] OTHER                                   -> {args[2], args[3]}

WordsRead(op, args) ==
  CASE op = LDR -> {args[2]}
    [] op = POP -> {registers[SP]}
    [] OTHER    -> {}

\* the registers and the words after the instruction that is executed next
After == RegistersAfter(Opcode(ir), Operands(ir), registers, systemState)
MemoryNext == MemoryAfter(Opcode(ir), Operands(ir), registers, systemState)

\* An instruction of the main program lies in its words, reads nothing else,
\* and neither runs into the routine nor changes its vector.
MainKeeps ==
  /\ NextPC \in Ram
  /\ RegistersRead(Opcode(ir), Operands(ir)) \subseteq Own \cup {PC}
  /\ WordsRead(Opcode(ir), Operands(ir)) \subseteq Ram
  /\ peripherals => After[PC] < Routine /\ MemoryNext[IVT + TimerIrq] = Routine

\* An instruction of the routine leaves everything to the main program, and
\* the timer alone.  It goes on within the routine and keeps the return
\* address, or returns.
RoutineKeeps ==
  /\ \A r \in Own : After[r] = registers[r]
  /\ \A a \in Ram \cup {IVT + TimerIrq, TIMER} : MemoryNext[a] = systemState[a]
  /\ \/ After[PC] \in NextPC + 1 .. Routine + RoutineLen - 1 /\ After[LR] = registers[LR]
     \/ After[PC] < Routine /\ After[PC] = registers[LR]

\* Both leave the DMA alone and do not make the processor wait, and the period
\* of the timer is no shorter than the routine.
BothKeep ==
  /\ After[SCR] = 0
  /\ peripherals => MemoryNext[DMA + DCR] = 0 /\ MemoryNext[TIMER + 1] >= RoutineLen

\* Main program and routine keep to themselves, instruction by instruction.
Cooperate ==
  /\ phase = "devices" /\ ncycles = 0 => ~InRoutine
  /\ phase = "execute" /\ ~InstructionRaises =>
       BothKeep /\ IF InRoutine THEN RoutineKeeps ELSE MainKeeps

\* Interrupts are invisible to the main program: it executes its own
\* instructions, each once and in order (checkIrqs saves PC in LR).
ImplementsMain == Main!Spec
=============================================================================
