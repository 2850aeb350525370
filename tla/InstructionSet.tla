--------------------------- MODULE InstructionSet ---------------------------
(***************************************************************************)
(* The instruction set of the abstract system: opcodes and registers       *)
(* (abstract_system_constants.py), how an instruction word is decoded      *)
(* (abstract_system_cpu_decode.py), what the ALU computes                  *)
(* (abstract_system_alu.py) and what an instruction does to registers and  *)
(* memory (abstract_system_cpu_execute.py).                                *)
(*                                                                         *)
(* A word is a number below W; the code has W = 2^64 (numpy.uint64).  A    *)
(* Python exception ends the program, so an instruction that raises one    *)
(* has no effect: Raises says when that is.  Quotients are floating point  *)
(* numbers on their way to a word: FloatExact and DivisionRaises say what  *)
(* that does to them.                                                      *)
(***************************************************************************)
EXTENDS Integers, FiniteSetsExt

CONSTANTS W,        \* number of different words
          WordBits, \* their width: W = 2^WordBits
          None,     \* Python's None, an operand that is not there
          FloatExact,    \* a float64 holds every integer up to it: 2^53
          DivisionRaises \* whether NumPy raises an exception when an infinite
                         \* quotient is stored in a word: newer versions warn

ASSUME WordAssumption == W \in Nat /\ W > 65536 /\ WordBits \in Nat
ASSUME NoneAssumption == None \notin Int
ASSUME QuotientAssumption == FloatExact \in Nat /\ DivisionRaises \in BOOLEAN

Word == 0 .. W - 1

\* opcodes; 0..8 are the operations of the ALU
ADD == 0
SUB == 1
MUL == 2
DIV == 3
AND == 4
ORR == 5
EOR == 6
ASR == 7
ASL == 8
LDR == 16
STR == 17
BL == 18
BX == 19
PUSH == 20
POP == 21
MOV == 22
SET == 23
NOP == 24
CBZ == 25
CBNZ == 26
B == 27
ADR == 28
WFI == 29
HLI == 30

\* registers
NREGS == 24
Reg == 0 .. NREGS - 1
SP == 13
LR == 14
PC == 15
SCR == 23   \* nonzero while the processor waits for an interrupt

-----------------------------------------------------------------------------
(* Decode *)

Opcode(ir) == ir % 256

DecodeAddrArg(ir)     == <<ir \div 256, None, None>>
DecodeRegAddrArgs(ir) == <<(ir \div 256) % 256, ir \div 65536, None>>
Decode3RegArgs(ir)    ==
  <<(ir \div 256) % 256, (ir \div 65536) % 256, (ir \div 16777216) % 256>>

RegAddrOps == {LDR, STR, MOV, SET, CBZ, CBNZ}

Operands(ir) ==
  CASE Opcode(ir) \in RegAddrOps   -> DecodeRegAddrArgs(ir)
    [] Opcode(ir) \in {B, BL, BX}  -> DecodeAddrArg(ir)
    [] Opcode(ir) \in {NOP, WFI, HLI} -> <<None, None, None>>
    [] OTHER                       -> Decode3RegArgs(ir)

-----------------------------------------------------------------------------
(* The ALU: unsigned arithmetic modulo W, and operations on the bits *)

Bit(x, b) == (x \div 2^b) % 2 = 1

\* a sum of different powers of two below W is a word
FromBits(bits) ==
  LET n == MapThenSumSet(LAMBDA b : 2^b, bits)
  IN  IF n \in Word THEN n ELSE 0

\* What else a quotient may become: some word for every pair of operands, of
\* which nothing is known.
Rounded(x, y) == (CHOOSE f \in [Word \X Word -> Word] : TRUE)[<<x, y>>]

\* truediv leaves a float64, the assignment to a register cuts its fraction off:
\* of a dividend below FloatExact that is the integer quotient, of a larger one
\* rounding may have changed it, and by zero it is infinite.
Quotient(x, y) == IF x < FloatExact /\ y # 0 THEN x \div y ELSE Rounded(x, y)

Alu(op, x, y) ==
  LET bits == 0 .. WordBits - 1
  IN  CASE op = ADD -> (x + y) % W
        [] op = SUB -> (x - y) % W
        [] op = MUL -> (x * y) % W
        [] op = DIV -> Quotient(x, y)
        [] op = AND -> FromBits({b \in bits : Bit(x, b) /\ Bit(y, b)})
        [] op = ORR -> FromBits({b \in bits : Bit(x, b) \/ Bit(y, b)})
        [] op = EOR -> FromBits({b \in bits : Bit(x, b) # Bit(y, b)})
        [] op = ASR -> FromBits({b \in bits : b + y < WordBits /\ Bit(x, b + y)})
        [] op = ASL -> FromBits({b \in bits : b >= y /\ Bit(x, b - y)})
        [] OTHER    -> 0

-----------------------------------------------------------------------------
(* Execute.  The operands <<a, b, c>> are those of the word; registers is a *)
(* function on Reg and memory a function on 0 .. n.                         *)

\* An index out of range, a division by zero where NumPy does not convert the
\* infinite quotient to a word, an opcode the ALU has no entry for, and B and BL,
\* which read the branch target from the second operand while the decoder put it
\* in the first.
Raises(op, args, registers, memory) ==
  CASE op = LDR -> args[1] \notin Reg \/ args[2] \notin DOMAIN memory
    [] op = STR -> \/ args[1] \notin Reg \/ args[2] \notin Reg
                   \/ registers[args[2]] \notin DOMAIN memory
    [] op \in {PUSH, POP} -> \/ args[1] \notin Reg
                             \/ registers[SP] \notin DOMAIN memory
    [] op \in {B, BL}     -> args[2] = None
    [] op = MOV           -> args[1] \notin Reg \/ args[2] \notin Reg
    [] op \in {CBZ, CBNZ, SET, BX} -> args[1] \notin Reg
    [] op \in {NOP, WFI, HLI}      -> FALSE
    [] OTHER -> \/ op > ASL
                \/ \E i \in 1..3 : args[i] \notin Reg
                \/ op = DIV /\ registers[args[3]] = 0 /\ DivisionRaises

\* the registers after an instruction that does not raise
RegistersAfter(op, args, registers, memory) ==
  LET r1 == args[1]  r2 == args[2]
  IN  CASE op = LDR  -> [registers EXCEPT ![r1] = memory[r2]]
        [] op = PUSH -> [registers EXCEPT ![SP] = (@ + 1) % W]
        [] op = POP  -> [[registers EXCEPT ![r1] = memory[registers[SP]]]
                          EXCEPT ![SP] = (@ - 1) % W]
        [] op = CBNZ -> IF registers[r1] # 0
                        THEN [registers EXCEPT ![PC] = r2] ELSE registers
        [] op = CBZ  -> IF registers[r1] = 0
                        THEN [registers EXCEPT ![PC] = r2] ELSE registers
        [] op = BX   -> [registers EXCEPT ![PC] = registers[r1]]
        [] op = MOV  -> [registers EXCEPT ![r1] = registers[r2]]
        [] op = SET  -> [registers EXCEPT ![r1] = r2]
        \* the branch for WFI that sets SCR is never reached: the one for
        \* NOP before it takes WFI as well
        [] op \in {STR, NOP, WFI, HLI, B, BL} -> registers
        [] OTHER -> [registers EXCEPT
                       ![r1] = Alu(op, registers[r2], registers[args[3]])]

\* the memory after an instruction that does not raise
MemoryAfter(op, args, registers, memory) ==
  CASE op = STR  -> [memory EXCEPT ![registers[args[2]]] = registers[args[1]]]
    [] op = PUSH -> [memory EXCEPT ![registers[SP]] = registers[args[1]]]
    [] OTHER     -> memory
=============================================================================
