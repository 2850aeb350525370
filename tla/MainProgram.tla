----------------------------- MODULE MainProgram -----------------------------
(***************************************************************************)
(* What a program of the abstract system may rely on: its instructions are *)
(* executed one after the other, as if there were no interrupts.  It sees  *)
(* its own registers (Own) and the words of RAM that the interrupt service *)
(* routine does not use (Ram); a store to a peripheral changes neither.    *)
(***************************************************************************)
EXTENDS MemoryMap, Sequences

CONSTANTS Starts, Own, Ram \* Starts: the states [registers, ram] to start in

VARIABLES pc, registers, ram

mainVars == <<pc, registers, ram>>

Init == /\ pc = CODE
        /\ [registers |-> registers, ram |-> ram] \in Starts

\* the whole register file, and the whole memory, as the instruction sees them
RegisterFile == [r \in Reg |-> IF r \in Own THEN registers[r]
                               ELSE IF r = PC THEN pc + 1 ELSE 0]
Memory == [a \in 0 .. STATETOP - 1 |-> IF a \in Ram THEN ram[a] ELSE 0]

Step ==
  LET op == Opcode(ram[pc])
      args == Operands(ram[pc])
      after == RegistersAfter(op, args, RegisterFile, Memory)
      memory == MemoryAfter(op, args, RegisterFile, Memory)
  IN  /\ pc \in Ram
      /\ ~Raises(op, args, RegisterFile, Memory)
      /\ pc' = after[PC]
      /\ registers' = [r \in Own |-> after[r]]
      /\ ram' = [a \in Ram |-> memory[a]]

Spec == Init /\ [][Step]_mainVars
=============================================================================
