--------------------------- MODULE MCOtherVersions ---------------------------
(***************************************************************************)
(* Programs for OtherVersions: those on which the versions can be expected *)
(* to agree.  For the port they contain no branch but CBZ and CBNZ, which  *)
(* the Python encoder or processor rejects, no high-level code, which the  *)
(* port does not have, no register above PC, no address outside RAM and no *)
(* label 0; and "and", "or" and "exclusive or" are applied to the truth    *)
(* values 0 and 1.  For the predecessor they contain instructions of the   *)
(* ALU, of which the division comes last and a shift to the right has      *)
(* nothing negative to shift; its stores and branches have another meaning. *)
(***************************************************************************)
EXTENDS OtherVersions

L(op, args) == [op |-> op, args |-> args, label |-> None]
At(label, op, args) == [op |-> op, args |-> args, label |-> label]

\* load_code of the port, for tables of several sizes.
Fibonacci(max) ==
  << L(SET, <<1, 1>>), L(SET, <<2, 1>>), L(SET, <<3, 0>>), L(SET, <<4, max>>),
     L(SET, <<5, 1>>),
     At(1, ADD, <<3, 1, 2>>), L(MOV, <<1, 2>>), L(MOV, <<2, 3>>),
     L(SUB, <<4, 4, 5>>), L(STR, <<3, 4>>), L(CBNZ, <<4, 1>>), L(WFI, <<>>) >>

\* Two instructions in a row, behind a prologue that gives them something to
\* work on: 6 and 3, the truth values, a stack pointer and an address in the code.
Prologue ==
  << L(SET, <<1, 6>>), L(SET, <<2, 3>>), L(SET, <<5, 1>>), L(SET, <<SP, IVTsz>>),
     L(SET, <<7, CODE + 6>>) >>

Steps ==
  {L(op, <<4, 1, 2>>) : op \in {ADD, SUB, MUL, DIV, ASR, ASL}}
    \cup {L(op, <<6, r, 5>>) : op \in {AND, ORR, EOR}, r \in {0, 5}}
    \cup {L(SUB, <<4, 2, 1>>), L(DIV, <<4, 1, 0>>), L(LDR, <<1, 0>>),
          L(STR, <<1, 2>>), L(PUSH, <<1, 0, 0>>), L(POP, <<4, 0, 0>>),
          L(MOV, <<SP, 4>>), L(MOV, <<PC, 7>>),
          L(SET, <<PC, ramStateSz + deviceSz>>), L(NOP, <<>>), L(WFI, <<>>),
          At(1, CBZ, <<4, 1>>), At(2, CBNZ, <<4, 2>>)}

Portable ==
  {Fibonacci(max) : max \in 1..IVTsz}
    \cup {Prologue \o <<s, t>> : s, t \in Steps}

\* Two instructions in a row: R1 is 6 and R2 is 7, so that R3 becomes -1 or 1,
\* the exponent of the last shift.  MUL comes first, where no factor is negative
\* (their product as words does not fit into TLC's integers).
AluSteps ==
  {L(op, <<d, s, 2>>) : op \in {ADD, SUB, AND, ORR, EOR, ASL}, d, s \in {1, 3}}
    \cup {L(SUB, <<3, 2, 1>>), L(ADD, <<4, PC, 3>>), L(ADD, <<PC, PC, 2>>)}

FirstSteps == AluSteps \cup {L(MUL, <<3, 1, 2>>), L(ASR, <<3, 2, 0>>), L(ASR, <<3, 2, 2>>)}

LastSteps ==
  AluSteps \cup {L(op, <<4, 1, r>>) : op \in {DIV, LDR, PUSH, MOV}, r \in {0, 2}}

AluPrograms ==
  {<<s, t>> : s \in FirstSteps, t \in LastSteps}
    \cup {<<s, L(ASL, <<4, 1, 3>>)>> : s \in {L(SUB, <<3, 1, 2>>), L(SUB, <<3, 2, 1>>)}}
    \cup {<<L(MUL, <<3, 1, 2>>)>>}
=============================================================================
