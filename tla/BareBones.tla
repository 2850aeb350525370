------------------------------ MODULE BareBones ------------------------------
(***************************************************************************)
(* The first version of the abstract system (bare-bones-model/*.py): no    *)
(* interrupts, peripherals that do nothing, and of the instructions only   *)
(* the ALU's, loads, stores and two branches.  Opcodes, registers and the  *)
(* parts of a word are those of InstructionSet.                            *)
(*                                                                         *)
(* Its words are Python integers of any size.  An exception ends the run   *)
(* (phase "raised"); so does a division, whose quotient is a floating      *)
(* point number that is not followed further (phase "float").              *)
(***************************************************************************)
EXTENDS InstructionSet, Sequences

CONSTANTS IVTsz, heapSz, stackSz, codeSz, deviceSz, \* sizes of the regions
          MAX_NCYCLES, \* the flag -N
          Sources      \* the programs: sequences of lines [op, args, label]

\* The RAM is allocated without the table that the map counts in.
CODE       == IVTsz + heapSz + stackSz
MEMTOP     == CODE + codeSz
ramStateSz == heapSz + stackSz + codeSz

VARIABLES
  phase,       \* "cycle", "raised" or "float"
  ncycles,     \* the loop counter
  systemState, \* the list of all words, RAM first
  registers,
  timerState   \* the first two words of the timer, which nothing changes

vars == <<phase, ncycles, systemState, registers, timerState>>

BareReg == 0 .. 15

-----------------------------------------------------------------------------
(* The encoder and load_code *)

\* The line of a label that the dictionary has when line i is encoded.
LineOf(p, i, label) == Max({j \in 1..i : p[j].label = label}) - 1

EncodeInstruction(p, i) ==
  LET op == p[i].op  args == p[i].args
  IN  CASE op \in {B, BL} -> op + 256 * (LineOf(p, i, args[1]) + CODE)
        [] op \in {CBZ, CBNZ, ADR} ->
             op + 256 * args[1] + 65536 * (LineOf(p, i, args[2]) + CODE)
        [] op \in {MOV, SET, LDR, STR} -> op + 256 * args[1] + 65536 * args[2]
        [] op \in {NOP, WFI} -> op
        [] OTHER -> op + 256 * args[1] + 65536 * args[2] + 16777216 * args[3]

\* The states of the peripherals, one behind the other, the timer's first.
Peripherals(i) == IF i \in 0..1 THEN timerState[i + 1] ELSE 0

LoadCode(p) ==
  [a \in 0 .. ramStateSz + deviceSz - 1 |->
     IF a - CODE \in 0 .. Len(p) - 1 THEN EncodeInstruction(p, a - CODE + 1)
     ELSE IF a >= ramStateSz THEN Peripherals(a - ramStateSz)
     ELSE 0]

Init ==
  /\ phase = "cycle"
  /\ ncycles = 0
  /\ timerState = <<MAX_NCYCLES + 1, MAX_NCYCLES + 1>>
  /\ \E p \in Sources : systemState = LoadCode(p)
  /\ registers = [r \in BareReg |-> CASE r = PC -> CODE [] r = 1 -> 6 [] r = 2 -> 7
                                      [] OTHER -> 0]

-----------------------------------------------------------------------------
(* Decode and execute *)

DecodeInstruction(ir) ==
  CASE Opcode(ir) \in RegAddrOps  -> DecodeRegAddrArgs(ir)
    [] Opcode(ir) \in {B, BL, BX} -> DecodeAddrArg(ir)
    [] Opcode(ir) \in {NOP, WFI}  -> <<None, None, None>>
    [] OTHER                      -> Decode3RegArgs(ir)

\* Bitwise operations work on any integer: a sign, and bits below it.
Bitwise(op, x, y) ==
  LET Negative == CASE op = AND -> x < 0 /\ y < 0
                    [] op = ORR -> x < 0 \/ y < 0
                    [] OTHER    -> (x < 0) # (y < 0)
  IN  Alu(op, x, y) - (IF Negative THEN W ELSE 0)

BareAlu(op, x, y) ==
  CASE op = ADD -> x + y
    [] op = SUB -> x - y
    [] op = MUL -> x * y
    [] op \in {AND, ORR, EOR} -> Bitwise(op, x, y)
    [] op = ASR -> x \div 2^y
    [] op = ASL -> x * 2^y

\* doLDR is called with its arguments in another order and always fails; an
\* opcode above ASL is not in the list alu; an index is out of range; a divisor
\* is zero; a shift is by a negative number.
ExecuteRaises(op, args, regs, mem) ==
  CASE op = LDR -> TRUE
    [] op = STR -> args[1] \notin BareReg \/ args[2] \notin DOMAIN mem
    [] op = B   -> FALSE
    [] op = CBZ -> args[1] \notin BareReg
    [] OTHER -> \/ op > ASL
                \/ \E i \in 1..3 : args[i] \notin BareReg
                \/ op = DIV /\ regs[args[3]] = 0
                \/ op \in {ASR, ASL} /\ regs[args[3]] < 0

\* B takes its target from the second operand, where the decoder has put None;
\* CBZ goes to its target when the register is not zero, and to None otherwise.
ExecuteRegisters(op, args, regs) ==
  CASE op = STR -> regs
    [] op = B   -> [regs EXCEPT ![PC] = args[2]]
    [] op = CBZ -> [regs EXCEPT ![PC] = IF regs[args[1]] # 0 THEN args[2] ELSE args[3]]
    [] OTHER    -> [regs EXCEPT ![args[1]] = BareAlu(op, regs[args[2]], regs[args[3]])]

\* STR stores at the address in the word.
ExecuteMemory(op, args, regs, mem) ==
  IF op = STR THEN [mem EXCEPT ![args[2]] = regs[args[1]]] ELSE mem

-----------------------------------------------------------------------------
(* The main loop *)

\* The words below MEMTOP are kept, the peripherals' come from their states.
\* In the first cycle the former end with words of the peripherals.
Concatenate(s) ==
  [a \in 0 .. MEMTOP + deviceSz - 1 |->
     IF a < MEMTOP THEN s[a] ELSE Peripherals(a - MEMTOP)]

\* The index of a list; from its end when it is negative.
Index(i, s) == IF i = None THEN None ELSE IF i < 0 THEN i + Cardinality(DOMAIN s) ELSE i

words   == Concatenate(systemState)
pcr     == Index(registers[PC], words)
ir      == words[pcr]
fetched == [registers EXCEPT ![PC] = @ + 1]

CycleRaises ==
  \/ pcr \notin DOMAIN words
  \/ ExecuteRaises(Opcode(ir), DecodeInstruction(ir), fetched, words)

\* processorAction.
Cycle ==
  /\ phase = "cycle" /\ ncycles < MAX_NCYCLES
  /\ ~CycleRaises
  /\ Opcode(ir) # DIV
  /\ registers' = ExecuteRegisters(Opcode(ir), DecodeInstruction(ir), fetched)
  /\ systemState' = ExecuteMemory(Opcode(ir), DecodeInstruction(ir), fetched, words)
  /\ ncycles' = ncycles + 1
  /\ UNCHANGED <<phase, timerState>>

Stop ==
  /\ phase = "cycle" /\ ncycles < MAX_NCYCLES
  /\ CycleRaises \/ Opcode(ir) = DIV
  /\ phase' = IF CycleRaises THEN "raised" ELSE "float"
  /\ UNCHANGED <<ncycles, systemState, registers, timerState>>

Next == Cycle \/ Stop

Spec == Init /\ [][Next]_vars
=============================================================================
