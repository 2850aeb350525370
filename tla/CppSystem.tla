------------------------------ MODULE CppSystem ------------------------------
(***************************************************************************)
(* The C++ version of the abstract system (cpp-code/*.cc): the encoder,    *)
(* the main loop, the timer, the interrupt check, and fetch, decode and    *)
(* execute.  It has its own memory map, in which the vector table comes on *)
(* top of the heap, its own ALU, and no exceptions: what raises one in     *)
(* Python is undefined here, and the run is not followed any further       *)
(* (phase "wild"); so is a label for which the encoder has no place.       *)
(*                                                                         *)
(* A cycle is two steps: the peripherals, which only a build with          *)
(* PERIPHERALS has, and the processor.  A word is a number below W, where  *)
(* the code has uint64_t.                                                  *)
(***************************************************************************)
EXTENDS InstructionSet, Sequences

CONSTANTS IVTsz, heapSz, stackSz, codeSz, deviceSz, \* sizes of the regions
          MAX_NCYCLES,   \* the cycles of a run
          Sources        \* the programs: sequences of lines [op, args, label]

ASSUME CppAssumption ==
  /\ {IVTsz, heapSz, stackSz, codeSz, deviceSz, MAX_NCYCLES} \subseteq Nat
  /\ IVTsz >= 5 /\ heapSz >= IVTsz /\ codeSz > IVTsz /\ deviceSz >= 2
  /\ IVTsz + heapSz + stackSz + codeSz + deviceSz < W
  /\ MAX_NCYCLES + 1 < W
  /\ \A p \in Sources : Len(p) <= codeSz - IVTsz

\* The vector has no room for the table that the map counts in.
CODE       == IVTsz + heapSz + stackSz
ramStateSz == heapSz + stackSz + codeSz

VARIABLES
  phase,       \* "devices", "processor", or "wild"
  ncycles,     \* the loop counter
  systemState, \* all words, RAM first
  registers,
  timerState,  \* <<count, period>>
  timerIrq,    \* the timer's request
  peripherals  \* whether PERIPHERALS is defined

vars == <<phase, ncycles, systemState, registers, timerState, timerIrq, peripherals>>

CppReg == 0 .. 15

-----------------------------------------------------------------------------
(* The encoder *)

\* Mutant: the labels are entered after the line is encoded, behind pc += 1.
LabelLate(p, i, label) ==
  LET at == {j \in 1..i : p[j].label = label}
  IN  IF label = 0 \/ at = {} THEN 0 ELSE Max(at)

\* The vector of labels as it is when line i is encoded: 0 where no label has
\* been entered, the storage that clear() leaves behind.  Label 0 is no label.
Label(p, i, label) ==
  LET at == {j \in 1..i : p[j].label = label}
  IN  IF label = 0 \/ at = {} THEN 0 ELSE Max(at) - 1

\* Every line is padded with zeros.
Padded(args) == [k \in 1..3 |-> IF k \in DOMAIN args THEN args[k] ELSE 0]

\* The vector has a place for as many labels as there are lines: a label from
\* there on is written to, or read from, memory that is not its own.
LabelsOutside(p) ==
  \E i \in 1..Len(p) :
    \/ p[i].label # None /\ p[i].label >= Len(p)
    \/ p[i].op \in {BL, B} /\ Padded(p[i].args)[1] >= Len(p)
    \/ p[i].op \in {CBZ, CBNZ, ADR} /\ Padded(p[i].args)[2] >= Len(p)

\* The parts of a line's word, one behind the other.
Parts(p, i) ==
  LET op == p[i].op
      arg == Padded(p[i].args)
  IN  CASE op \in {BL, B} -> op + 256 * (Label(p, i, arg[1]) + CODE)
        [] op \in {CBZ, CBNZ, ADR} ->
             op + 256 * arg[1] + 65536 * (Label(p, i, arg[2]) + CODE)
        [] op \in {MOV, SET, LDR, STR} -> op + 256 * arg[1] + 65536 * arg[2]
        [] op \in {NOP, WFI} -> op
        [] op = BX -> op + 256 * arg[1]
        [] OTHER -> op + 256 * arg[1] + 65536 * arg[2] + 16777216 * arg[3]

\* They are shifted and added as uint64_t: what does not fit is lost.
EncodeInstruction(p, i) == Parts(p, i) % W

EncodeProgram(p) == [i \in 1..Len(p) |-> EncodeInstruction(p, i)]

-----------------------------------------------------------------------------
(* Decode and execute.  None is 0. *)

DecodeInstruction(ir) ==
  CASE Opcode(ir) \in RegAddrOps  -> <<(ir \div 256) % 256, ir \div 65536, 0>>
    [] Opcode(ir) \in {B, BL, BX} -> <<ir \div 256, 0, 0>>
    [] Opcode(ir) \in {NOP, WFI}  -> <<0, 0, 0>>
    [] OTHER                      -> Decode3RegArgs(ir)

Flag(b) == IF b THEN 1 ELSE 0

\* The array of functions: "and", "or" and "exclusive or" are the logical
\* ones, and a shift is by y modulo the width of the word.
CppAlu(op, x, y) ==
  CASE op = ADD -> (x + y) % W
    [] op = SUB -> (x - y) % W
    [] op = MUL -> (x * y) % W
    [] op = DIV -> x \div y
    [] op = AND -> Flag(x # 0 /\ y # 0)
    [] op = ORR -> Flag(x # 0 \/ y # 0)
    [] op = EOR -> Flag((x = 0) # (y = 0))
    [] OTHER    -> Alu(op, x, y % WordBits)

\* An index out of range, a function the array does not have (B is one of
\* these), a division by zero.
Undefined(op, args, regs, mem) ==
  CASE op = LDR -> args[1] \notin CppReg \/ args[2] \notin DOMAIN mem
    [] op = STR -> \/ args[1] \notin CppReg \/ args[2] \notin CppReg
                   \/ regs[args[2]] \notin DOMAIN mem
    [] op \in {PUSH, POP} -> args[1] \notin CppReg \/ regs[SP] \notin DOMAIN mem
    [] op = MOV -> args[1] \notin CppReg \/ args[2] \notin CppReg
    [] op \in {CBZ, CBNZ, SET, BX} -> args[1] \notin CppReg
    [] op \in {BL, NOP, WFI} -> FALSE
    [] OTHER -> \/ op > ASL
                \/ \E k \in 1..3 : args[k] \notin CppReg
                \/ op = DIV /\ regs[args[3]] = 0

\* The registers after executeInstruction.
ExecuteRegisters(op, args, regs, mem) ==
  LET r1 == args[1]  v2 == args[2]
  IN  CASE op = LDR  -> [regs EXCEPT ![r1] = mem[v2]]
        [] op = PUSH -> [regs EXCEPT ![SP] = (@ + 1) % W]
        [] op = POP  -> [[regs EXCEPT ![r1] = mem[regs[SP]]] EXCEPT ![SP] = (@ - 1) % W]
        [] op = CBNZ -> IF regs[r1] # 0 THEN [regs EXCEPT ![PC] = v2] ELSE regs
        [] op = CBZ  -> IF regs[r1] = 0 THEN [regs EXCEPT ![PC] = v2] ELSE regs
        [] op = BL   -> [regs EXCEPT ![LR] = regs[PC], ![PC] = v2]
        [] op = BX   -> [regs EXCEPT ![PC] = regs[r1]]
        [] op = MOV  -> [regs EXCEPT ![r1] = regs[v2]]
        [] op = SET  -> [regs EXCEPT ![r1] = v2]
        [] op \in {STR, NOP, WFI} -> regs
        [] OTHER -> [regs EXCEPT ![r1] = CppAlu(op, regs[v2], regs[args[3]])]

\* The words after executeInstruction.
ExecuteMemory(op, args, regs, mem) ==
  CASE op = STR  -> [mem EXCEPT ![regs[args[2]]] = regs[args[1]]]
    [] op = PUSH -> [mem EXCEPT ![regs[SP]] = regs[args[1]]]
    [] OTHER     -> mem

-----------------------------------------------------------------------------
(* The main loop *)

\* Every vector points to CODE; the code is written behind it.
LoadCode(p) ==
  [a \in 0 .. ramStateSz + deviceSz - 1 |->
     IF a < IVTsz THEN CODE
     ELSE IF a - CODE \in 0 .. Len(p) - 1 THEN EncodeProgram(p)[a - CODE + 1]
     ELSE IF a \in {ramStateSz, ramStateSz + 1} THEN MAX_NCYCLES + 1
     ELSE 0]

Init ==
  /\ ncycles = 0
  /\ \E p \in Sources : /\ systemState = LoadCode(p)
                        /\ phase = IF LabelsOutside(p) THEN "wild" ELSE "devices"
  /\ registers = [r \in CppReg |-> IF r = PC THEN CODE ELSE 0]
  /\ timerState = <<MAX_NCYCLES + 1, MAX_NCYCLES + 1>>
  /\ timerIrq = FALSE
  /\ peripherals \in BOOLEAN

\* timerAction, on a timerState that is no part of systemState: keyboard,
\* network, disk and graphics never raise a request.
RunPeripherals ==
  LET count == IF timerState[1] > 0 THEN timerState[1] - 1 ELSE 0
  IN  /\ timerIrq' = (count = 0)
      /\ timerState' = [timerState EXCEPT ![1] = IF count = 0 THEN timerState[2] ELSE count]

RunDevices ==
  /\ phase = "devices" /\ ncycles < MAX_NCYCLES
  /\ phase' = "processor"
  /\ IF peripherals THEN RunPeripherals ELSE UNCHANGED <<timerState, timerIrq>>
  /\ UNCHANGED <<ncycles, systemState, registers, peripherals>>

\* The registers after checkIrqs: the timer's request is the fifth.
CheckIrqs ==
  IF timerIrq THEN [registers EXCEPT ![LR] = registers[PC], ![PC] = systemState[4]]
  ELSE registers

\* processorAction: the interrupt check, then fetch, decode and execute.
ProcessorAction ==
  /\ phase = "processor"
  /\ CheckIrqs[PC] \in DOMAIN systemState
  /\ LET ir   == systemState[CheckIrqs[PC]]
         regs == [CheckIrqs EXCEPT ![PC] = (@ + 1) % W]
         op   == Opcode(ir)
         args == DecodeInstruction(ir)
     IN  IF Undefined(op, args, regs, systemState)
           THEN /\ phase' = "wild"
                /\ UNCHANGED <<ncycles, systemState, registers>>
           ELSE /\ registers' = ExecuteRegisters(op, args, regs, systemState)
                /\ systemState' = ExecuteMemory(op, args, regs, systemState)
                /\ phase' = "devices"
                /\ ncycles' = ncycles + 1
  /\ timerIrq' = FALSE
  /\ UNCHANGED <<timerState, peripherals>>

\* The program counter has left the vector.
FetchOutside ==
  /\ phase = "processor"
  /\ CheckIrqs[PC] \notin DOMAIN systemState
  /\ phase' = "wild"
  /\ UNCHANGED <<ncycles, systemState, registers, timerState, timerIrq, peripherals>>

Next == RunDevices \/ ProcessorAction \/ FetchOutside

Spec == Init /\ [][Next]_vars

-----------------------------------------------------------------------------
(***************************************************************************)
(* Properties.                                                             *)
(***************************************************************************)
TypeOK ==
  /\ phase \in {"devices", "processor", "wild"}
  /\ ncycles \in 0 .. MAX_NCYCLES
  /\ systemState \in [0 .. ramStateSz + deviceSz - 1 -> Word]
  /\ registers \in [CppReg -> Word]
  /\ timerState \in (Word \X Word)
  /\ timerIrq \in BOOLEAN
  /\ peripherals \in BOOLEAN

\* What the next instruction must avoid to mean the same as in Python: BL, which
\* Python cannot execute, words behind RAM, and operands of the ALU for which
\* the two ALUs differ.  What is undefined here is no matter.
AsInPython ==
  phase = "processor" /\ registers[PC] \in DOMAIN systemState =>
    LET ir   == systemState[registers[PC]]
        regs == [registers EXCEPT ![PC] = (@ + 1) % W]
        op   == Opcode(ir)
        args == DecodeInstruction(ir)
    IN  \/ Undefined(op, args, regs, systemState)
        \/ /\ registers[PC] < ramStateSz
           /\ op # BL
           /\ op = LDR => args[2] < ramStateSz
           /\ op = POP => regs[SP] < ramStateSz
           /\ op > ASL \/ LET x == regs[args[2]]  y == regs[args[3]]
                          IN  CppAlu(op, x, y) = Alu(op, x, y)
=============================================================================
