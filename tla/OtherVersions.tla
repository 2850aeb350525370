---------------------------- MODULE OtherVersions ----------------------------
(***************************************************************************)
(* The abstract system exists in three versions: the Python program of     *)
(* advanced-model, its C++ port (CppSystem) and its predecessor of         *)
(* bare-bones-model (BareBones).  Here one of the other two runs, and is   *)
(* compared with what the first makes of the same program.                 *)
(***************************************************************************)
EXTENDS CppSystem

CONSTANT BareSources \* the programs for the predecessor

VARIABLE version \* "C++" or "bare bones"

Bare == INSTANCE BareBones WITH Sources <- BareSources

\* Two words of the table that the predecessor finds above RAM in its first
\* cycle belong to the timer; the others are there, too.
ASSUME VersionsAssumption == deviceSz >= IVTsz

versionVars == <<vars, version>>

VersionInit ==
  \/ version = "C++" /\ Init
  \/ version = "bare bones" /\ Bare!Init /\ timerIrq = FALSE /\ peripherals = FALSE

VersionNext ==
  /\ \/ version = "C++" /\ Next
     \/ version = "bare bones" /\ Bare!Next /\ UNCHANGED <<timerIrq, peripherals>>
  /\ UNCHANGED version

VersionSpec == VersionInit /\ [][VersionNext]_versionVars

-----------------------------------------------------------------------------
(* Properties *)

\* The registers but PC, and the words of RAM, that all versions have.
Own == CppReg \ {PC}
Ram == 0 .. ramStateSz - 1

\* The Python model's assembler, in a memory map with the code at the same
\* address.
Python == INSTANCE Assembler WITH
  heapSz <- heapSz + IVTsz, timerStateSz <- 3, deviceStateSz <- deviceSz, dmaStateSz <- 5

\* The states in which the Python model starts a program: the port sets all
\* vectors to CODE, the predecessor has none and sets two registers.
Start(p, vector, file) ==
  LET code == Python!EncodeProgram(p).words
  IN  [registers |-> [r \in Own |-> IF r \in DOMAIN file THEN file[r] ELSE 0],
       ram |-> [a \in Ram |-> IF a < IVTsz THEN vector
                              ELSE IF a - CODE \in 0 .. Len(p) - 1 THEN code[a - CODE + 1]
                              ELSE 0]]

PythonStarts ==
  {Start(p, CODE, << >>) : p \in Sources} \cup {Start(p, 0, <<6, 7>>) : p \in BareSources}

\* The integers of the predecessor are compared as the words they stand for.
PythonMachine == INSTANCE MainProgram WITH
  heapSz <- heapSz + IVTsz, timerStateSz <- 3, deviceStateSz <- deviceSz, dmaStateSz <- 5,
  Starts <- PythonStarts, pc <- registers[PC],
  registers <- [r \in Own |-> registers[r] % W],
  ram <- [a \in Ram |-> systemState[a] % W]

\* The other versions are the Python model in another language, or without its
\* interrupts ("a C++ version of the Python code", README.md of the port's
\* directory): each encodes a program to the same words and executes it to the
\* same registers and RAM.  The port does so with or without PERIPHERALS, whose
\* timer never comes to interrupt it; the predecessor although its first cycle
\* makes the vector longer and its numbers have a sign.  The programs avoid what
\* differs; for those of the port that is checked (AsInPython, the premise of
\* PortImplementsPython).
ImplementsPython ==
  [](version = "C++" => AsInPython) /\ PythonMachine!Spec

=============================================================================
