------------------------------ MODULE MemoryMap ------------------------------
(***************************************************************************)
(* The layout of the one vector of words that holds the state of the       *)
(* system: RAM (interrupt vector table and heap, stack, code), then the    *)
(* timer, then the words of keyboard, network, disk and graphics, which    *)
(* have no behaviour and are one area here, then the DMA registers         *)
(* (abstract_system_constants.py).                                         *)
(***************************************************************************)
EXTENDS InstructionSet

CONSTANTS IVTsz, heapSz, stackSz, codeSz, timerStateSz, deviceStateSz, dmaStateSz

ASSUME LayoutAssumption ==
  /\ {IVTsz, heapSz, stackSz, codeSz, timerStateSz, deviceStateSz, dmaStateSz} \subseteq Nat
  /\ IVTsz >= 6 /\ heapSz >= IVTsz /\ codeSz >= 1
  /\ timerStateSz >= 3 /\ deviceStateSz >= 1 /\ dmaStateSz >= 5
  /\ heapSz + stackSz + codeSz + timerStateSz + deviceStateSz + dmaStateSz < W

IVT      == 0
HEAP     == IVT + IVTsz
STACK    == HEAP + heapSz - IVTsz
CODE     == STACK + stackSz
MEMTOP   == CODE + codeSz
TIMER    == MEMTOP
KBD      == TIMER + timerStateSz
DMA      == KBD + deviceStateSz
STATETOP == DMA + dmaStateSz

\* the DMA registers: source, destination, counter, control
DSR == 0
DDR == 1
DCO == 2
DCR == 3
=============================================================================
