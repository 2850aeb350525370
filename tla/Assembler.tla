------------------------------ MODULE Assembler ------------------------------
(***************************************************************************)
(* The encoder of abstract_system_encoder.py.  A program is a sequence of  *)
(* lines [op, args, label]; a label is None or a number.  Labels are       *)
(* entered into the dictionary as their lines are reached, so a branch     *)
(* finds only labels at or before its own line.                            *)
(***************************************************************************)
EXTENDS MemoryMap, Sequences

\* (mutant: lines counted from one)
LabelLineFromOne(instrs, i, label) == Max({j \in 1..i : instrs[j].label = label})

\* the line of a label as the dictionary has it when line i is encoded
LabelLine(instrs, i, label) ==
  Max({j \in 1..i : instrs[j].label = label}) - 1

\* the encoder raises an exception: an unknown label, or an operand missing
EncodeRaises(instrs, i) ==
  LET op == instrs[i].op  n == Len(instrs[i].args)
      Unknown(label) == \A j \in 1..i : instrs[j].label # label
  IN  CASE op \in {B, BL} -> n < 1 \/ Unknown(instrs[i].args[1])
        [] op \in {CBZ, CBNZ} -> n < 2 \/ Unknown(instrs[i].args[2])
        [] op = BX -> TRUE   \* falls through to the three-register form
        [] op = ADR -> n < 3 \/ Unknown(instrs[i].args[2])
        [] op \in {MOV, SET, LDR, STR} -> n < 2
        [] op \in {NOP, WFI, HLI} -> FALSE
        [] OTHER -> n < 3

\* the word of line i; for HLI the word is the opcode, the function is kept
\* in hlCode
EncodeInstruction(instrs, i) ==
  LET op == instrs[i].op  args == instrs[i].args
  IN  CASE op \in {B, BL} -> op + 256 * (LabelLine(instrs, i, args[1]) + CODE)
        [] op \in {CBZ, CBNZ, ADR} ->
             op + 256 * args[1] + 65536 * (LabelLine(instrs, i, args[2]) + CODE)
        [] op \in {MOV, SET, LDR, STR} -> op + 256 * args[1] + 65536 * args[2]
        [] op \in {NOP, WFI, HLI} -> op
        [] OTHER -> op + 256 * args[1] + 65536 * args[2] + 16777216 * args[3]

\* the encoded program: its words and the lines that are high-level functions
EncodeProgram(instrs) ==
  [words |-> [i \in 1..Len(instrs) |-> EncodeInstruction(instrs, i)],
   hlCode |-> {i - 1 : i \in {j \in 1..Len(instrs) : instrs[j].op = HLI}}]
=============================================================================
