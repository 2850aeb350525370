-------------------------- MODULE MCAbstractSystem --------------------------
(* A small memory map and the programs that TLC runs on it. *)
EXTENDS ExamplePrograms

CONSTANT Workload \* the set of programs of a run

-----------------------------------------------------------------------------
\* A transfer of one word of the heap to the next: source, destination and counter
\* are stored, then the control register.  The addresses are relative to the
\* counter.
Transfer ==
  << L(SET, <<1, DMA + DSR>>), L(SET, <<2, DMA + DDR>>),
     L(SET, <<3, DMA + DCO>>), L(SET, <<4, DMA + DCR>>),
     L(SET, <<5, IVTsz>>), L(SET, <<6, IVTsz + 1>>), L(SET, <<7, 1>>),
     L(STR, <<4, 6>>),
     L(STR, <<5, 1>>), L(STR, <<6, 2>>), L(STR, <<7, 3>>), L(STR, <<7, 4>>),
     L(NOP, <<>>) >>

TransferPrograms == {Load(Transfer, 12, TRUE)}

\* In the cycle after the control register has been set the word is copied ("DCR
\* values: 1 = do transfer", dmaAction).
TransferDone ==
  phase = "fetch" /\ registers[PC] = CODE + 12 =>
    systemState[IVTsz + 2] = systemState[IVTsz + 1]

-----------------------------------------------------------------------------

\* tables of 6 to 20 words; first delays and periods of the timer
Sizes == 6 .. 20
Firsts == 0 .. 10
Periods == IsrLen .. IsrLen + 2

MCPrograms ==
  CASE Workload = "programs" -> Examples(Sizes, Firsts, Periods)
    [] Workload = "transfer" -> TransferPrograms

\* the run of the two programs is an instance of the setting of the proofs
ASSUME Workload = "programs" => ExampleSetting(Sizes, Firsts, Periods)

\* every program of a run is one the encoder accepts
ASSUME \A i \in 1 .. Len(Interrupted(1, 1)) : ~EncodeRaises(Interrupted(1, 1), i)
ASSUME \A i \in 1 .. Len(Fibonacci(1)) : ~EncodeRaises(Fibonacci(1), i)
ASSUME \A i \in 1 .. Len(Transfer) : ~EncodeRaises(Transfer, i)
=============================================================================
