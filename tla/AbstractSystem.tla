--------------------------- MODULE AbstractSystem ---------------------------
(***************************************************************************)
(* The processor-based system of the advanced model: one loop that steps   *)
(* the peripherals, rebuilds the system state from their parts, lets the   *)
(* processor check for interrupts, fetch, decode and execute               *)
(* (abstract_system_model.py, abstract_system_peripherals.py,              *)
(* abstract_system_processor.py, abstract_system_cpu_*.py).                *)
(*                                                                         *)
(* A cycle is three steps: the peripherals, the interrupt check with the   *)
(* fetch, and the execution.  An exception ends the run.                   *)
(***************************************************************************)
EXTENDS MemoryMap, Sequences

CONSTANTS MAX_NCYCLES, \* the flag -N: the cycles of a run
          Programs     \* records [words, hlCode, isr, peripherals]: the code,
                       \* the offsets of its high-level functions, the offset
                       \* of its ISR, and the flag -P it is run with

ASSUME SystemAssumption ==
  /\ MAX_NCYCLES \in Nat /\ MAX_NCYCLES + 1 < W
  /\ \A p \in Programs : /\ p.words \in Seq(Word) /\ Len(p.words) <= codeSz
                         /\ p.isr \in 0 .. codeSz - 1
                         /\ p.hlCode \subseteq 0 .. codeSz - 1
                         /\ p.peripherals \in BOOLEAN

VARIABLES phase,       \* "devices", "fetch", "execute", or where an exception came
          ncycles,     \* the loop counter
          systemState, \* all words, RAM first; timerState is a view of it
          timerLen,    \* the length of timerState
          registers,
          irqs,        \* the indices of the raised interrupt requests
          ir,          \* the word fetched last
          hlCode,      \* the offsets in the code that are HLI instructions
          peripherals  \* PERIPHERALS

cfg == <<hlCode, peripherals>>
vars == <<phase, ncycles, systemState, timerLen, registers, irqs, ir, cfg>>

-----------------------------------------------------------------------------
(* Loading *)

\* load_code writes the words at CODE; every vector points to the one ISR
LoadCode(p) ==
  [a \in 0 .. STATETOP - 1 |->
     IF a < IVTsz THEN CODE + p.isr
     ELSE IF a - CODE \in 0 .. Len(p.words) - 1 THEN p.words[a - CODE + 1]
     ELSE IF a \in {TIMER, TIMER + 1} THEN MAX_NCYCLES + 1
     ELSE 0]

Init == /\ phase = "devices"
        /\ ncycles = 0
        /\ \E p \in Programs : /\ systemState = LoadCode(p)
                               /\ hlCode = p.hlCode
                               /\ peripherals = p.peripherals
        /\ timerLen = timerStateSz
        /\ registers = [r \in Reg |-> IF r = PC THEN CODE ELSE 0]
        /\ irqs = {}
        /\ ir = 0

-----------------------------------------------------------------------------
(* Peripherals *)

\* positions in the list of requests: kbd, nic, ssd and gpu never raise one
TimerIrq == 4
DmaIrq == 5

TimerCount(s) == IF s[TIMER] > 0 THEN s[TIMER] - 1 ELSE 0

\* (mutant: the counter is not reloaded)
TimerActionNoReload(s) == [s EXCEPT ![TIMER] = TimerCount(s)]

TimerAction(s) ==
  [s EXCEPT ![TIMER] = IF TimerCount(s) = 0 THEN s[TIMER + 1] ELSE TimerCount(s)]

DmaCopies(s) == s[DMA + DCR] # 0 /\ s[DMA + DCO] # 0
DmaFrom(s) == (s[DMA + DSR] + s[DMA + DCO]) % W
DmaTo(s) == (s[DMA + DDR] + s[DMA + DCO]) % W

\* (an address out of range would raise an exception, but the copy is never
\* reached: AbstractSystem_proofs, DmaNeverCopies)
DmaAction(s) ==
  LET copied == IF DmaCopies(s) /\ {DmaTo(s), DmaFrom(s)} \subseteq DOMAIN s
                THEN [s EXCEPT ![DmaTo(s)] = s[DmaFrom(s)], ![DMA + DCO] = W - 1]
                ELSE s
  IN  [copied EXCEPT ![DMA + DCR] = 0]

\* (mutant: the state of the DMA is left out)
ConcatenateWithoutDma(s) ==
  [a \in 0 .. DMA - timerStateSz + timerLen - 1 |->
     IF a < TIMER + timerLen THEN s[a] ELSE 0]

\* The vector is rebuilt from RAM, timerState and the states of the other
\* peripherals, which nothing ever writes: only RAM and timer survive.
Concatenate(s) ==
  [a \in 0 .. STATETOP - timerStateSz + timerLen - 1 |->
     IF a < TIMER + timerLen THEN s[a] ELSE 0]

StepPeripherals(s) == Concatenate(DmaAction(TimerAction(s)))

RaisedIrqs(s) == {i \in {TimerIrq, DmaIrq} :
                    \/ i = TimerIrq /\ TimerCount(s) = 0
                    \/ i = DmaIrq /\ s[DMA + DCR] # 0}

RunDevices ==
  /\ phase = "devices" /\ ncycles < MAX_NCYCLES
  /\ IF peripherals
     THEN /\ systemState' = StepPeripherals(systemState)
          /\ irqs' = RaisedIrqs(systemState)
          \* the new view of the timer is one word short
          /\ timerLen' = timerStateSz - 1
     ELSE irqs' = {} /\ UNCHANGED <<systemState, timerLen>>
  /\ phase' = "fetch"
  /\ UNCHANGED <<ncycles, registers, ir, cfg>>

-----------------------------------------------------------------------------
(* Processor *)

ServedIrq == CHOOSE i \in irqs : \A j \in irqs : i <= j

\* (mutant: the return address is that of the instruction after the next one)
CheckIrqsSkips ==
  IF irqs = {} THEN registers
  ELSE [registers EXCEPT ![SCR] = 0,
                         ![LR] = registers[PC] + 1,
                         ![PC] = systemState[IVT + ServedIrq]]

CheckIrqs ==
  IF irqs = {} THEN registers
  ELSE [registers EXCEPT ![SCR] = 0,
                         ![LR] = registers[PC],
                         ![PC] = systemState[IVT + ServedIrq]]

Waiting == CheckIrqs[SCR] # 0

\* the check for interrupts, then the fetch, which moves PC even while waiting
Fetch ==
  /\ phase = "fetch"
  /\ CheckIrqs[PC] \in DOMAIN systemState
  /\ registers' = [CheckIrqs EXCEPT ![PC] = (@ + 1) % W]
  /\ ir' = systemState[CheckIrqs[PC]]
  /\ irqs' = IF irqs = {} THEN {} ELSE irqs \ {ServedIrq}
  /\ IF Waiting THEN phase' = "devices" /\ ncycles' = ncycles + 1
                ELSE phase' = "execute" /\ UNCHANGED ncycles
  /\ UNCHANGED <<systemState, timerLen, cfg>>

\* an HLI word is an instruction only where load_code has put a function
BadHli == Opcode(ir) = HLI /\ ~(ir = HLI /\ registers[PC] - 1 - CODE \in hlCode)

InstructionRaises ==
  BadHli \/ Raises(Opcode(ir), Operands(ir), registers, systemState)

Execute ==
  /\ phase = "execute"
  /\ ~InstructionRaises
  /\ registers' = RegistersAfter(Opcode(ir), Operands(ir), registers, systemState)
  /\ systemState' = MemoryAfter(Opcode(ir), Operands(ir), registers, systemState)
  /\ phase' = "devices" /\ ncycles' = ncycles + 1
  /\ UNCHANGED <<timerLen, irqs, ir, cfg>>

\* the traceback of an uncaught exception
Stop == /\ \/ phase = "fetch" /\ CheckIrqs[PC] \notin DOMAIN systemState
           \/ phase = "execute" /\ InstructionRaises
        /\ phase' = IF phase = "fetch" THEN "fetchError" ELSE "executeError"
        /\ UNCHANGED <<ncycles, systemState, timerLen, registers, irqs, ir, cfg>>

Next == RunDevices \/ Fetch \/ Execute \/ Stop

Spec == Init /\ [][Next]_vars
FairSpec == Spec /\ WF_vars(Next)

-----------------------------------------------------------------------------
(* Properties *)

\* The variables keep their types; the vector has its full length or, once
\* the timer's view has been cut, one word less.
TypeOK ==
  /\ phase \in {"devices", "fetch", "execute", "fetchError", "executeError"}
  /\ ncycles \in 0 .. MAX_NCYCLES
  /\ phase # "devices" => ncycles < MAX_NCYCLES
  /\ \E top \in {STATETOP - 1, STATETOP - 2} : systemState \in [0 .. top -> Word]
  /\ timerLen \in {timerStateSz, timerStateSz - 1}
  /\ registers \in [Reg -> Word]
  /\ irqs \subseteq {TimerIrq, DmaIrq}
  /\ ir \in Word
  /\ hlCode \in SUBSET (0 .. codeSz - 1)
  /\ peripherals \in BOOLEAN

\* The words of the peripherals behind the timer
DeviceWords == {a \in DOMAIN systemState : a >= KBD}

\* Between two rebuilds of the vector the processor can have stored at most
\* one word in the peripherals behind the timer: what it stored in an earlier
\* cycle is gone (the concatenation in the main loop).
AtMostOneDeviceWord ==
  peripherals =>
    /\ phase \in {"fetch", "execute"} => \A a \in DeviceWords : systemState[a] = 0
    /\ \A a, b \in DeviceWords : systemState[a] # 0 /\ systemState[b] # 0 => a = b

\* A request of the timer is served in the cycle that raises it: what the
\* check leaves behind, and the next cycle overwrites, is only the DMA's.
TimerNeverLost == phase = "execute" => TimerIrq \notin irqs
=============================================================================
