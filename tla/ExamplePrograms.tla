--------------------------- MODULE ExamplePrograms ---------------------------
(***************************************************************************)
(* Two programs of the abstract system: the example of load_code, which    *)
(* runs without peripherals, and a program with a service routine that     *)
(* returns, which the timer interrupts.                                    *)
(***************************************************************************)
EXTENDS Assembler, MainAndRoutine

CONSTANT TableSz \* the words that the interrupted program fills

ASSUME TableAssumption == TableSz \in Nat \ {0} /\ IVTsz + TableSz < CODE

L(op, args) == [op |-> op, args |-> args, label |-> None]
At(label, op, args) == [op |-> op, args |-> args, label |-> label]

Load(instrs, isr, flag) ==
  [words |-> EncodeProgram(instrs).words, hlCode |-> EncodeProgram(instrs).hlCode,
   isr |-> isr, peripherals |-> flag]

-----------------------------------------------------------------------------
(* The example of load_code: the table of Fibonacci numbers from FIB_MAX - 1 *)
(* down to 0, behind the set-up of the timer.                               *)

Fibonacci(max) ==
  << L(SET, <<1, 10>>), L(SET, <<2, 10>>),
     L(SET, <<3, TIMER>>), L(STR, <<1, 3>>),
     L(SET, <<3, TIMER + 1>>), L(STR, <<2, 3>>),
     L(SET, <<1, 1>>), L(SET, <<2, 1>>), L(SET, <<3, 0>>), L(SET, <<4, max>>),
     L(SET, <<5, 1>>),
     At(1, ADD, <<3, 1, 2>>), L(MOV, <<1, 2>>), L(MOV, <<2, 3>>),
     L(SUB, <<4, 4, 5>>), L(STR, <<3, 4>>), L(CBNZ, <<4, 1>>),
     L(WFI, <<>>), L(HLI, <<>>) >>

FibonacciProgram(max) == Load(Fibonacci(max), 18, FALSE)

\* The size of the table, from the program in memory, and its words: behind
\* the end of the table are the two numbers that the loop starts with.
FibMax == systemState[CODE + 9] \div 65536
Entry(k) == IF k < FibMax THEN systemState[k] ELSE 1

TableFrom(first) ==
  \A k \in first .. FibMax - 1 : systemState[k] = (Entry(k + 1) + Entry(k + 2)) % W

\* At the head of the loop the table is complete from R4 upwards, and when the
\* loop has ended it is complete from word 0: each word is the sum of the two
\* behind it (what load_code's high-level version fib_hl computes), modulo W.
FibTable ==
  ~peripherals /\ phase = "devices" =>
    /\ registers[PC] = CODE + 11 => TableFrom(registers[4])
    /\ registers[PC] = CODE + 17 => TableFrom(0)

-----------------------------------------------------------------------------
(* A program with a service routine that returns.  It leaves the vector     *)
(* table alone and fills words of the heap; the routine counts its calls in *)
(* one more word and uses registers of its own.                             *)

Calls == IVTsz + TableSz
IsrLen == 6
MainLen == 19

Interrupted(first, period) ==
  << L(SET, <<1, first>>), L(SET, <<2, period>>),
     L(SET, <<3, TIMER>>), L(STR, <<1, 3>>),
     L(SET, <<3, TIMER + 1>>), L(STR, <<2, 3>>),
     L(SET, <<1, 1>>), L(SET, <<2, 1>>),
     L(SET, <<4, IVTsz + TableSz>>), L(SET, <<6, TableSz>>), L(SET, <<5, 1>>),
     At(1, ADD, <<3, 1, 2>>), L(MOV, <<1, 2>>), L(MOV, <<2, 3>>),
     L(SUB, <<4, 4, 5>>), L(STR, <<3, 4>>), L(SUB, <<6, 6, 5>>),
     L(CBNZ, <<6, 1>>),
     At(2, CBNZ, <<5, 2>>),
     L(LDR, <<10, Calls>>), L(SET, <<11, 1>>), L(ADD, <<10, 10, 11>>),
     L(SET, <<12, Calls>>), L(STR, <<10, 12>>),
     L(MOV, <<PC, LR>>) >>

InterruptedProgram(first, period) == Load(Interrupted(first, period), MainLen, TRUE)

MainRegs == Reg \ {10, 11, 12, LR, PC}
MainRam == 0 .. MEMTOP - 1 \ {Calls}

\* With a period longer than the routine the main program comes to its end.
Period == systemState[CODE + 1] \div 65536
MainFinishes == Period > IsrLen => <>(MainPC = CODE + MainLen - 1)

-----------------------------------------------------------------------------

\* What runs are these two programs, the example with a table that ends below
\* its code, the other with any first delay and a period no shorter than its
\* routine, and the main program owns what the routine does not use.
Examples(sizes, firsts, periods) ==
  {FibonacciProgram(max) : max \in sizes}
    \cup {InterruptedProgram(first, period) : first \in firsts, period \in periods}

ExampleSetting(sizes, firsts, periods) ==
  /\ sizes \subseteq 1 .. CODE /\ firsts \subseteq Nat /\ periods \subseteq Nat \ 0 .. IsrLen - 1
  /\ Programs \subseteq Examples(sizes, firsts, periods)
  /\ Own = MainRegs /\ Ram = MainRam /\ RoutineLen = IsrLen
=============================================================================
