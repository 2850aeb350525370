------------------------ MODULE AbstractSystem_proofs ------------------------
(***************************************************************************)
(* Theorems about the abstract system, for every word size, memory map and *)
(* set of programs: the variables keep their types, the processor can have *)
(* left at most one word in the devices when their turn comes, so the DMA  *)
(* never moves a word of RAM, and interrupts are invisible to every main   *)
(* program that cooperates with its interrupt service routine.             *)
(*                                                                         *)
(* From there to two programs: the decoder inverts the encoder, so what    *)
(* each line of ExamplePrograms does is known, both programs cooperate,    *)
(* and the example of load_code leaves a table of Fibonacci numbers,       *)
(* whatever its length.                                                    *)
(*                                                                         *)
(* Last, the C++ port: its encoder makes the same words, its timer never   *)
(* interrupts, and it executes the main program as the Python model does.  *)
(***************************************************************************)
EXTENDS ExamplePrograms, TLAPS, WellFoundedInduction

-----------------------------------------------------------------------------
(* Words and layout *)

\* The arithmetic of the ALU and of the program counter stays in Word.
LEMMA WordArithmetic ==
  ASSUME NEW x \in Word, NEW y \in Word
  PROVE  /\ (x + y) % W \in Word
         /\ (x - y) % W \in Word
         /\ (x * y) % W \in Word
         /\ (x + 1) % W \in Word
         /\ (x - 1) % W \in Word
         /\ y # 0 => x \div y \in Word
<1>1. W \in Nat /\ W > 0 /\ x \in Int /\ y \in Int
  BY WordAssumption DEF Word
<1>2. \A z \in Int : z % W \in Word
  BY <1>1 DEF Word
<1>3. x + y \in Int /\ x - y \in Int /\ x * y \in Int /\ x + 1 \in Int /\ x - 1 \in Int
  BY <1>1
<1>4. ASSUME y # 0 PROVE x \div y \in Word
  <2>1. x \in Nat /\ y \in Nat /\ y > 0 /\ x < W
    BY <1>1, <1>4 DEF Word
  <2>2. x \div y \in Nat /\ x \div y <= x
    BY <2>1
  <2> QED BY <2>1, <2>2, <1>1 DEF Word
<1> QED BY <1>2, <1>3, <1>4

\* A quotient is stored as a word, whatever it has become.
LEMMA QuotientWord ==
  ASSUME NEW x \in Word, NEW y \in Word
  PROVE  Quotient(x, y) \in Word
<1>1. Rounded(x, y) \in Word
  <2> DEFINE f == CHOOSE f \in [Word \X Word -> Word] : TRUE
  <2>1. 0 \in Word
    BY WordAssumption DEF Word
  <2>2. [pair \in Word \X Word |-> 0] \in [Word \X Word -> Word]
    BY <2>1
  <2>3. f \in [Word \X Word -> Word]
    BY <2>2, Zenon
  <2> HIDE DEF f
  <2>4. f[<<x, y>>] \in Word
    BY <2>3
  <2> QED BY <2>4 DEF Rounded, f
<1> QED BY <1>1, WordArithmetic DEF Quotient

\* What the ALU returns is a word.
LEMMA AluWord ==
  ASSUME NEW op \in Int, NEW x \in Word, NEW y \in Word
  PROVE  Alu(op, x, y) \in Word
<1>1. 0 \in Word
  BY WordAssumption DEF Word
<1>2. \A bits : FromBits(bits) \in Word
  BY <1>1, Zenon DEF FromBits
<1>3. /\ (x + y) % W \in Word
      /\ (x - y) % W \in Word
      /\ (x * y) % W \in Word
      /\ Quotient(x, y) \in Word
  BY WordArithmetic, QuotientWord
<1> QED
  BY <1>1, <1>2, <1>3, Zenon DEF Alu

\* The memory map: the parts follow each other.
LEMMA Layout ==
  /\ IVT = 0 /\ IVTsz \in Nat /\ IVTsz >= 6
  /\ CODE \in Nat /\ MEMTOP \in Nat /\ TIMER = MEMTOP /\ CODE < MEMTOP
  /\ IVTsz <= CODE /\ CODE + codeSz = MEMTOP /\ codeSz \in Nat
  /\ KBD = TIMER + timerStateSz /\ timerStateSz \in Nat /\ timerStateSz >= 3
  /\ DMA \in Nat /\ DMA > KBD
  /\ STATETOP \in Nat /\ STATETOP >= DMA + 5 /\ STATETOP < W
  /\ KBD \in Nat
BY LayoutAssumption, WordAssumption
   DEF IVT, HEAP, STACK, CODE, MEMTOP, TIMER, KBD, DMA, STATETOP

-----------------------------------------------------------------------------
(* Decoding and execution *)

\* The register fields of a word are numbers below 256, an address field is a
\* word.
LEMMA Fields ==
  ASSUME NEW w \in Word
  PROVE  /\ Opcode(w) \in Int
         /\ (w \div 256) % 256 \in Int
         /\ w \div 65536 \in Word
<1>1. W \in Nat /\ w \in Nat /\ w < W
  BY WordAssumption DEF Word
<1>2. w \div 65536 \in Nat /\ w \div 65536 <= w
  BY <1>1
<1> QED BY <1>1, <1>2 DEF Opcode, Word

\* An instruction that raises no exception leaves words in the registers and
\* in the memory.
LEMMA ExecutionTypes ==
  ASSUME NEW op \in Int, NEW args,
         NEW regs \in [Reg -> Word],
         NEW top \in Nat, NEW mem \in [0 .. top -> Word],
         ~Raises(op, args, regs, mem),
         op \in {LDR, STR, MOV, SET, CBZ, CBNZ} => args[2] \in Word
  PROVE  /\ RegistersAfter(op, args, regs, mem) \in [Reg -> Word]
         /\ MemoryAfter(op, args, regs, mem) \in [0 .. top -> Word]
<1> USE DEF LDR, STR, BL, BX, PUSH, POP, MOV, SET, NOP, CBZ, CBNZ, B, WFI, HLI
<1>0. /\ SP \in Reg /\ PC \in Reg /\ DOMAIN mem = 0 .. top
  BY DEF SP, PC, Reg, NREGS
<1>2. \A r \in Reg, v \in Word : [regs EXCEPT ![r] = v] \in [Reg -> Word]
  OBVIOUS
<1>3. \A a \in 0 .. top, v \in Word : [mem EXCEPT ![a] = v] \in [0 .. top -> Word]
  OBVIOUS
<1>4. ASSUME NEW r \in Reg PROVE regs[r] \in Word
  OBVIOUS
<1>5. ASSUME NEW a \in DOMAIN mem PROVE mem[a] \in Word
  BY <1>0, <1>5
<1>6. op \in {LDR, STR, MOV, SET, CBZ, CBNZ} => args[2] \in Word
  OBVIOUS
<1>7. ~Raises(op, args, regs, mem)
  OBVIOUS
<1>10. CASE op = LDR
  <2>1. args[1] \in Reg /\ args[2] \in DOMAIN mem
    BY <1>10, <1>7 DEF Raises
  <2>2. RegistersAfter(op, args, regs, mem) = [regs EXCEPT ![args[1]] = mem[args[2]]]
    BY <1>10 DEF RegistersAfter
  <2>3. MemoryAfter(op, args, regs, mem) = mem
    BY <1>10 DEF MemoryAfter
  <2> QED BY <2>1, <2>2, <2>3, <1>2, <1>5
<1>11. CASE op = STR
  <2>1. args[1] \in Reg /\ args[2] \in Reg /\ regs[args[2]] \in 0 .. top
    BY <1>11, <1>7, <1>0 DEF Raises
  <2>2. RegistersAfter(op, args, regs, mem) = regs
    BY <1>11 DEF RegistersAfter
  <2>3. MemoryAfter(op, args, regs, mem) = [mem EXCEPT ![regs[args[2]]] = regs[args[1]]]
    BY <1>11 DEF MemoryAfter
  <2> QED BY <2>1, <2>2, <2>3, <1>3, <1>4
<1>12. CASE op = PUSH
  <2>1. args[1] \in Reg /\ regs[SP] \in 0 .. top
    BY <1>12, <1>7, <1>0 DEF Raises
  <2>2. RegistersAfter(op, args, regs, mem) = [regs EXCEPT ![SP] = (regs[SP] + 1) % W]
    BY <1>12 DEF RegistersAfter
  <2>3. MemoryAfter(op, args, regs, mem) = [mem EXCEPT ![regs[SP]] = regs[args[1]]]
    BY <1>12 DEF MemoryAfter
  <2>4. (regs[SP] + 1) % W \in Word
    BY <1>0, <1>4, WordArithmetic
  <2> QED BY <2>1, <2>2, <2>3, <2>4, <1>0, <1>2, <1>3, <1>4
<1>13. CASE op = POP
  <2>1. args[1] \in Reg /\ regs[SP] \in DOMAIN mem
    BY <1>13, <1>7 DEF Raises
  <2> DEFINE loaded == [regs EXCEPT ![args[1]] = mem[regs[SP]]]
  <2>2. loaded \in [Reg -> Word]
    BY <2>1, <1>2, <1>5
  <2>3. loaded[SP] \in Word
    BY <2>2, <1>0
  <2>4. (loaded[SP] - 1) % W \in Word
    BY <2>3, WordArithmetic
  <2>5. RegistersAfter(op, args, regs, mem) = [loaded EXCEPT ![SP] = (loaded[SP] - 1) % W]
    BY <1>13 DEF RegistersAfter
  <2>6. MemoryAfter(op, args, regs, mem) = mem
    BY <1>13 DEF MemoryAfter
  <2> HIDE DEF loaded
  <2> QED BY <2>2, <2>4, <2>5, <2>6, <1>0
<1>14. CASE op \in {CBNZ, CBZ}
  <2>1. \/ RegistersAfter(op, args, regs, mem) = [regs EXCEPT ![PC] = args[2]]
        \/ RegistersAfter(op, args, regs, mem) = regs
    <3>1. CASE op = CBNZ
      BY <3>1 DEF RegistersAfter
    <3>2. CASE op = CBZ
      BY <3>2 DEF RegistersAfter
    <3> QED BY <1>14, <3>1, <3>2
  <2>2. MemoryAfter(op, args, regs, mem) = mem
    BY <1>14 DEF MemoryAfter
  <2>3. args[2] \in Word
    BY <1>14, <1>6
  <2> QED BY <2>1, <2>2, <2>3, <1>0, <1>2
<1>15. CASE op \in {BX, MOV, SET}
  <2>1. args[1] \in Reg /\ (op = MOV => args[2] \in Reg)
    BY <1>15, <1>7 DEF Raises
  <2>2. CASE op = BX
    <3>1. RegistersAfter(op, args, regs, mem) = [regs EXCEPT ![PC] = regs[args[1]]]
      BY <2>2 DEF RegistersAfter
    <3>2. MemoryAfter(op, args, regs, mem) = mem
      BY <2>2 DEF MemoryAfter
    <3> QED BY <2>1, <3>1, <3>2, <1>0, <1>2, <1>4
  <2>3. CASE op = MOV
    <3>1. RegistersAfter(op, args, regs, mem) = [regs EXCEPT ![args[1]] = regs[args[2]]]
      BY <2>3 DEF RegistersAfter
    <3>2. MemoryAfter(op, args, regs, mem) = mem
      BY <2>3 DEF MemoryAfter
    <3> QED BY <2>1, <2>3, <3>1, <3>2, <1>2, <1>4
  <2>4. CASE op = SET
    <3>1. RegistersAfter(op, args, regs, mem) = [regs EXCEPT ![args[1]] = args[2]]
      BY <2>4 DEF RegistersAfter
    <3>2. MemoryAfter(op, args, regs, mem) = mem
      BY <2>4 DEF MemoryAfter
    <3> QED BY <2>1, <2>4, <3>1, <3>2, <1>2, <1>6
  <2> QED BY <1>15, <2>2, <2>3, <2>4
<1>16. CASE op \in {NOP, WFI, HLI, B, BL}
  <2>1. RegistersAfter(op, args, regs, mem) = regs
    BY <1>16 DEF RegistersAfter
  <2>2. MemoryAfter(op, args, regs, mem) = mem
    BY <1>16 DEF MemoryAfter
  <2> QED BY <2>1, <2>2
<1>17. CASE op \notin {LDR, STR, PUSH, POP, CBNZ, CBZ, BX, MOV, SET, NOP, WFI,
                      HLI, B, BL}
  <2>1. \A i \in 1..3 : args[i] \in Reg
    BY <1>17, <1>7 DEF Raises
  <2>2. args[1] \in Reg /\ args[2] \in Reg /\ args[3] \in Reg
    BY <2>1
  <2>3. Alu(op, regs[args[2]], regs[args[3]]) \in Word
    BY <2>2, <1>4, AluWord
  <2>4. RegistersAfter(op, args, regs, mem)
          = [regs EXCEPT ![args[1]] = Alu(op, regs[args[2]], regs[args[3]])]
    BY <1>17, Zenon DEF RegistersAfter
  <2>5. MemoryAfter(op, args, regs, mem) = mem
    BY <1>17, Zenon DEF MemoryAfter
  <2> QED BY <2>2, <2>3, <2>4, <2>5, <1>2
<1> QED
  BY <1>10, <1>11, <1>12, <1>13, <1>14, <1>15, <1>16, <1>17

\* The operand that an address or a constant is taken from is a word.
LEMMA AddressOperand ==
  ASSUME NEW w \in Word, Opcode(w) \in {LDR, STR, MOV, SET, CBZ, CBNZ}
  PROVE  Operands(w)[2] \in Word
<1>1. Operands(w) = DecodeRegAddrArgs(w)
  BY DEF Operands, RegAddrOps, LDR, STR, MOV, SET, CBZ, CBNZ, B, BL, BX, NOP, WFI, HLI
<1> QED BY <1>1, Fields DEF DecodeRegAddrArgs

-----------------------------------------------------------------------------
(* The peripherals *)

\* The possible vectors
Vector == [0 .. STATETOP - 1 -> Word] \cup [0 .. STATETOP - 2 -> Word]

\* The timer changes one word.
LEMMA TimerTypes ==
  ASSUME NEW top \in {STATETOP - 1, STATETOP - 2}, NEW s \in [0 .. top -> Word]
  PROVE  /\ TimerAction(s) \in [0 .. top -> Word]
         /\ \A a \in 0 .. top : a # TIMER => TimerAction(s)[a] = s[a]
<1>1. TIMER \in 0 .. top /\ TIMER + 1 \in 0 .. top
  BY Layout
<1>2. s[TIMER] \in Word /\ s[TIMER + 1] \in Word
  BY <1>1
<1>3. TimerCount(s) \in Word
  BY <1>2, WordAssumption DEF TimerCount, Word
<1> DEFINE v == IF TimerCount(s) = 0 THEN s[TIMER + 1] ELSE TimerCount(s)
<1>4. v \in Word
  BY <1>2, <1>3
<1>5. TimerAction(s) = [s EXCEPT ![TIMER] = v]
  BY DEF TimerAction
<1> HIDE DEF v
<1> QED BY <1>1, <1>4, <1>5

\* When counter and control register are not both set, the DMA only clears its
\* control register.
LEMMA DmaIdle ==
  ASSUME NEW top \in {STATETOP - 1, STATETOP - 2}, NEW s \in [0 .. top -> Word],
         ~DmaCopies(s)
  PROVE  /\ DmaAction(s) \in [0 .. top -> Word]
         /\ \A a \in 0 .. top : a # DMA + DCR => DmaAction(s)[a] = s[a]
<1>1. DmaAction(s) = [s EXCEPT ![DMA + DCR] = 0]
  BY DEF DmaAction
<1>2. 0 \in Word /\ DMA + DCR \in Int
  BY WordAssumption, Layout DEF Word, DCR
<1> QED BY <1>1, <1>2

\* The new vector consists of words; RAM is that of the old one, and behind
\* the timer all words are zero.
LEMMA RebuiltVector ==
  ASSUME NEW top \in {STATETOP - 1, STATETOP - 2}, NEW s \in [0 .. top -> Word],
         timerLen \in {timerStateSz, timerStateSz - 1}
  PROVE  /\ Concatenate(s) \in Vector
         /\ \A a \in 0 .. MEMTOP - 1 : Concatenate(s)[a] = s[a]
         /\ \A a \in DOMAIN Concatenate(s) : a >= KBD => Concatenate(s)[a] = 0
<1> DEFINE last == STATETOP - timerStateSz + timerLen - 1
<1>1. last \in {STATETOP - 1, STATETOP - 2} /\ timerLen \in Int /\ timerLen >= 2
  BY Layout
<1>2. Concatenate(s) = [a \in 0 .. last |-> IF a < TIMER + timerLen THEN s[a] ELSE 0]
  BY DEF Concatenate
<1>3. 0 \in Word
  BY WordAssumption DEF Word
<1>4. ASSUME NEW a \in 0 .. last, a < TIMER + timerLen PROVE s[a] \in Word
  <2>1. a \in 0 .. top
    BY <1>1, <1>4, Layout
  <2> QED BY <2>1
<1>5. \A a \in 0 .. MEMTOP - 1 : a \in 0 .. last /\ a < TIMER + timerLen
  BY <1>1, Layout
<1>6. \A a \in 0 .. last : a >= KBD => ~(a < TIMER + timerLen)
  BY <1>1, Layout
<1> HIDE DEF last
<1>7. Concatenate(s) \in [0 .. last -> Word]
  BY <1>2, <1>3, <1>4
<1>8. \A a \in 0 .. MEMTOP - 1 : Concatenate(s)[a] = s[a]
  BY <1>2, <1>5
<1>9. \A a \in DOMAIN Concatenate(s) : a >= KBD => Concatenate(s)[a] = 0
  BY <1>2, <1>6
<1> QED BY <1>1, <1>7, <1>8, <1>9 DEF Vector

-----------------------------------------------------------------------------
(* The invariant *)

IInv == TypeOK /\ AtMostOneDeviceWord

\* The two device registers a copy needs are not both set when it is the turn
\* of the devices.
LEMMA NoCopy ==
  ASSUME IInv, peripherals, NEW top \in {STATETOP - 1, STATETOP - 2},
         systemState \in [0 .. top -> Word]
  PROVE  ~DmaCopies(TimerAction(systemState))
<1>1. /\ DMA + DCR \in 0 .. top /\ DMA + DCO \in 0 .. top
      /\ DMA + DCR >= KBD /\ DMA + DCO >= KBD
      /\ DMA + DCR # TIMER /\ DMA + DCO # TIMER /\ DMA + DCR # DMA + DCO
  BY Layout DEF DCR, DCO
<1>2. DOMAIN systemState = 0 .. top
  OBVIOUS
<1>3. DMA + DCR \in DeviceWords /\ DMA + DCO \in DeviceWords
  BY <1>1, <1>2 DEF DeviceWords
<1>4. ~(systemState[DMA + DCR] # 0 /\ systemState[DMA + DCO] # 0)
  BY <1>1, <1>3, Zenon DEF IInv, AtMostOneDeviceWord
<1>5. /\ TimerAction(systemState)[DMA + DCR] = systemState[DMA + DCR]
      /\ TimerAction(systemState)[DMA + DCO] = systemState[DMA + DCO]
  BY <1>1, TimerTypes
<1> QED BY <1>4, <1>5 DEF DmaCopies

\* What the step of the peripherals does to the vector.
LEMMA PeripheralStep ==
  ASSUME IInv, peripherals
  PROVE  /\ StepPeripherals(systemState) \in Vector
         /\ \A a \in 0 .. MEMTOP - 1 : StepPeripherals(systemState)[a] = systemState[a]
         /\ \A a \in DOMAIN StepPeripherals(systemState) :
              a >= KBD => StepPeripherals(systemState)[a] = 0
<1>1. PICK top \in {STATETOP - 1, STATETOP - 2} : systemState \in [0 .. top -> Word]
  BY DEF IInv, TypeOK
<1> DEFINE ticked == TimerAction(systemState)
           moved == DmaAction(ticked)
<1>2. /\ ticked \in [0 .. top -> Word]
      /\ \A a \in 0 .. top : a # TIMER => ticked[a] = systemState[a]
  BY <1>1, TimerTypes
<1>3. ~DmaCopies(ticked)
  BY <1>1, NoCopy
<1> HIDE DEF ticked
<1>4. /\ moved \in [0 .. top -> Word]
      /\ \A a \in 0 .. top : a # DMA + DCR => moved[a] = ticked[a]
  BY <1>2, <1>3, DmaIdle
<1>5. timerLen \in {timerStateSz, timerStateSz - 1}
  BY DEF IInv, TypeOK
<1> HIDE DEF moved
<1>6. /\ Concatenate(moved) \in Vector
      /\ \A a \in 0 .. MEMTOP - 1 : Concatenate(moved)[a] = moved[a]
      /\ \A a \in DOMAIN Concatenate(moved) : a >= KBD => Concatenate(moved)[a] = 0
  BY <1>4, <1>5, RebuiltVector
<1>7. ASSUME NEW a \in 0 .. MEMTOP - 1
      PROVE  a \in 0 .. top /\ a # TIMER /\ a # DMA + DCR
  BY Layout DEF DCR
<1>8. \A a \in 0 .. MEMTOP - 1 : Concatenate(moved)[a] = systemState[a]
  BY <1>2, <1>4, <1>6, <1>7
<1>9. StepPeripherals(systemState) = Concatenate(moved)
  BY DEF StepPeripherals, moved, ticked
<1> QED BY <1>6, <1>8, <1>9

\* A loaded system satisfies the invariant: no device register is set yet.
LEMMA InitIInv == Init => IInv
<1> SUFFICES ASSUME Init PROVE IInv
  OBVIOUS
<1>1. PICK p \in Programs : /\ systemState = LoadCode(p)
                            /\ hlCode = p.hlCode
                            /\ peripherals = p.peripherals
  BY DEF Init
<1>2. /\ p.words \in Seq(Word) /\ Len(p.words) <= codeSz
      /\ p.isr \in 0 .. codeSz - 1 /\ p.hlCode \subseteq 0 .. codeSz - 1
      /\ p.peripherals \in BOOLEAN
      /\ MAX_NCYCLES \in Nat /\ MAX_NCYCLES + 1 < W
      /\ Len(p.words) \in Nat
  BY SystemAssumption
<1>3. 0 \in Word /\ CODE \in Word /\ CODE + p.isr \in Word /\ MAX_NCYCLES + 1 \in Word
  BY <1>2, Layout, WordAssumption DEF Word
<1>4. ASSUME NEW a \in Int, a - CODE \in 0 .. Len(p.words) - 1
      PROVE  p.words[a - CODE + 1] \in Word
  <2>1. a - CODE + 1 \in 1 .. Len(p.words)
    BY <1>4, <1>2, Layout
  <2> QED BY <2>1, <1>2
<1>5. systemState \in [0 .. STATETOP - 1 -> Word]
  <2>1. \A a \in 0 .. STATETOP - 1 : a \in Int
    OBVIOUS
  <2>2. \A a \in 0 .. STATETOP - 1 :
          a - CODE \in 0 .. Len(p.words) - 1 => p.words[a - CODE + 1] \in Word
    BY <1>4, <2>1
  <2> QED BY <1>1, <1>3, <2>2 DEF LoadCode
<1>6. \A a \in 0 .. STATETOP - 1 :
        a >= KBD => ~(a < IVTsz) /\ a - CODE \notin 0 .. Len(p.words) - 1
                    /\ a \notin {TIMER, TIMER + 1}
  BY <1>2, Layout
<1>7. \A a \in DeviceWords : systemState[a] = 0
  BY <1>1, <1>6 DEF LoadCode, DeviceWords
<1>8. AtMostOneDeviceWord
  BY <1>7 DEF AtMostOneDeviceWord
<1>9. registers \in [Reg -> Word]
  BY <1>3 DEF Init
<1>10. TypeOK
  BY <1>1, <1>2, <1>3, <1>5, <1>9 DEF Init, TypeOK
<1> QED BY <1>8, <1>10 DEF IInv

\* The step of the peripherals clears every device register.
LEMMA RunDevicesIInv == IInv /\ RunDevices => IInv'
<1> SUFFICES ASSUME IInv, RunDevices PROVE IInv'
  OBVIOUS
<1>1. /\ phase' = "fetch" /\ ncycles < MAX_NCYCLES
      /\ ncycles' = ncycles /\ registers' = registers /\ ir' = ir
      /\ hlCode' = hlCode /\ peripherals' = peripherals
  BY DEF RunDevices, cfg
<1>2. TypeOK
  BY DEF IInv
<1>3. CASE peripherals
  <2>1. /\ systemState' = StepPeripherals(systemState)
        /\ irqs' = RaisedIrqs(systemState)
        /\ timerLen' = timerStateSz - 1
    BY <1>3 DEF RunDevices
  <2>2. /\ systemState' \in Vector
        /\ \A a \in DOMAIN systemState' : a >= KBD => systemState'[a] = 0
    BY <1>3, <2>1, PeripheralStep
  <2>3. RaisedIrqs(systemState) \subseteq {TimerIrq, DmaIrq}
    BY DEF RaisedIrqs
  <2>4. \E top \in {STATETOP - 1, STATETOP - 2} : systemState' \in [0 .. top -> Word]
    BY <2>2 DEF Vector
  <2>5. TypeOK'
    BY <1>1, <1>2, <2>1, <2>3, <2>4 DEF TypeOK
  <2>6. AtMostOneDeviceWord'
    BY <2>2 DEF AtMostOneDeviceWord, DeviceWords
  <2> QED BY <2>5, <2>6 DEF IInv
<1>4. CASE ~peripherals
  <2>1. irqs' = {} /\ systemState' = systemState /\ timerLen' = timerLen
    BY <1>4 DEF RunDevices
  <2>2. TypeOK'
    BY <1>1, <1>2, <2>1 DEF TypeOK
  <2>3. AtMostOneDeviceWord'
    BY <1>1, <1>4 DEF AtMostOneDeviceWord
  <2> QED BY <2>2, <2>3 DEF IInv
<1> QED BY <1>3, <1>4

\* The interrupt check leaves words in the registers.
LEMMA CheckIrqsType == TypeOK => CheckIrqs \in [Reg -> Word]
<1> SUFFICES ASSUME TypeOK PROVE CheckIrqs \in [Reg -> Word]
  OBVIOUS
<1>1. registers \in [Reg -> Word] /\ irqs \subseteq {4, 5}
  BY DEF TypeOK, TimerIrq, DmaIrq
<1>2. SCR \in Reg /\ LR \in Reg /\ PC \in Reg
  BY DEF SCR, LR, PC, Reg, NREGS
<1>3. CASE irqs = {}
  BY <1>1, <1>3 DEF CheckIrqs
<1>4. CASE irqs # {}
  <2>1. \E i \in irqs : \A j \in irqs : i <= j
    <3>1. CASE 4 \in irqs
      BY <1>1, <3>1
    <3>2. CASE 4 \notin irqs
      <4>1. irqs = {5}
        BY <1>1, <1>4, <3>2
      <4> QED BY <4>1
    <3> QED BY <3>1, <3>2
  <2>2. ServedIrq \in {4, 5}
    BY <1>1, <2>1, Zenon DEF ServedIrq
  <2>3. PICK top \in {STATETOP - 1, STATETOP - 2} : systemState \in [0 .. top -> Word]
    BY DEF TypeOK
  <2>4. IVT + ServedIrq \in 0 .. top
    BY <2>2, <2>3, Layout
  <2>5. systemState[IVT + ServedIrq] \in Word /\ 0 \in Word /\ registers[PC] \in Word
    BY <2>3, <2>4, <1>1, <1>2, WordAssumption DEF Word
  <2>6. CheckIrqs = [registers EXCEPT ![SCR] = 0, ![LR] = registers[PC],
                                      ![PC] = systemState[IVT + ServedIrq]]
    BY <1>4 DEF CheckIrqs
  <2> HIDE DEF ServedIrq
  <2> QED BY <1>1, <1>2, <2>5, <2>6
<1> QED BY <1>3, <1>4

\* The fetch does not touch the vector.
LEMMA FetchIInv == IInv /\ Fetch => IInv'
<1> SUFFICES ASSUME IInv, Fetch PROVE IInv'
  OBVIOUS
<1>1. /\ phase = "fetch" /\ CheckIrqs[PC] \in DOMAIN systemState
      /\ registers' = [CheckIrqs EXCEPT ![PC] = (CheckIrqs[PC] + 1) % W]
      /\ ir' = systemState[CheckIrqs[PC]]
      /\ irqs' \subseteq irqs
      /\ \/ phase' = "devices" /\ ncycles' = ncycles + 1
         \/ phase' = "execute" /\ ncycles' = ncycles
      /\ systemState' = systemState /\ timerLen' = timerLen
      /\ hlCode' = hlCode /\ peripherals' = peripherals
  BY DEF Fetch, cfg
<1>2. TypeOK
  BY DEF IInv
<1>3. ncycles \in 0 .. MAX_NCYCLES /\ ncycles < MAX_NCYCLES /\ MAX_NCYCLES \in Nat
  BY <1>1, <1>2, SystemAssumption DEF TypeOK
<1>4. PC \in Reg /\ CheckIrqs \in [Reg -> Word]
  BY <1>2, CheckIrqsType DEF PC, Reg, NREGS
<1>5. (CheckIrqs[PC] + 1) % W \in Word
  BY <1>4, WordArithmetic
<1>6. registers' \in [Reg -> Word]
  BY <1>1, <1>4, <1>5
<1>7. PICK top \in {STATETOP - 1, STATETOP - 2} : systemState \in [0 .. top -> Word]
  BY <1>2 DEF TypeOK
<1>8. ir' \in Word
  BY <1>1, <1>7
<1>9. TypeOK'
  BY <1>1, <1>2, <1>3, <1>6, <1>8 DEF TypeOK
<1>10. AtMostOneDeviceWord'
  <2>1. \A a \in DeviceWords : peripherals => systemState[a] = 0
    BY <1>1 DEF IInv, AtMostOneDeviceWord
  <2>2. \A a \in DeviceWords' : peripherals' => systemState'[a] = 0
    BY <1>1, <2>1 DEF DeviceWords
  <2> QED BY <2>2 DEF AtMostOneDeviceWord
<1> QED BY <1>9, <1>10 DEF IInv

\* Only STR and PUSH change the memory, and they change one word.
LEMMA OneWordStored ==
  ASSUME NEW op, NEW args, NEW regs, NEW mem
  PROVE  \E x : /\ DOMAIN MemoryAfter(op, args, regs, mem) = DOMAIN mem
                /\ \A a \in DOMAIN mem \ {x} :
                     MemoryAfter(op, args, regs, mem)[a] = mem[a]
<1>1. \A x, v : /\ DOMAIN [mem EXCEPT ![x] = v] = DOMAIN mem
                /\ \A a \in DOMAIN mem \ {x} : [mem EXCEPT ![x] = v][a] = mem[a]
  OBVIOUS
<1>2. CASE op = STR
  <2>1. MemoryAfter(op, args, regs, mem) = [mem EXCEPT ![regs[args[2]]] = regs[args[1]]]
    BY <1>2 DEF MemoryAfter, STR, PUSH
  <2> QED BY <1>1, <2>1
<1>3. CASE op = PUSH
  <2>1. MemoryAfter(op, args, regs, mem) = [mem EXCEPT ![regs[SP]] = regs[args[1]]]
    BY <1>3 DEF MemoryAfter, STR, PUSH
  <2> QED BY <1>1, <2>1
<1>4. CASE op # STR /\ op # PUSH
  <2>1. MemoryAfter(op, args, regs, mem) = mem
    BY <1>4, Zenon DEF MemoryAfter
  <2> QED BY <2>1
<1> QED BY <1>2, <1>3, <1>4

\* An instruction stores at most one word, and finds all device registers zero.
LEMMA ExecuteIInv == IInv /\ Execute => IInv'
<1> SUFFICES ASSUME IInv, Execute PROVE IInv'
  OBVIOUS
<1> DEFINE op == Opcode(ir)
           args == Operands(ir)
           regs2 == RegistersAfter(op, args, registers, systemState)
           mem2 == MemoryAfter(op, args, registers, systemState)
<1>1. /\ phase = "execute" /\ ~InstructionRaises
      /\ registers' = regs2 /\ systemState' = mem2
      /\ phase' = "devices" /\ ncycles' = ncycles + 1
      /\ timerLen' = timerLen /\ irqs' = irqs /\ ir' = ir
      /\ hlCode' = hlCode /\ peripherals' = peripherals
  BY DEF Execute, cfg
<1>2. TypeOK
  BY DEF IInv
<1>3. ~Raises(op, args, registers, systemState)
  BY <1>1 DEF InstructionRaises
<1>4. PICK top \in {STATETOP - 1, STATETOP - 2} : systemState \in [0 .. top -> Word]
  BY <1>2 DEF TypeOK
<1>5. op \in Int /\ top \in Nat /\ ir \in Word /\ registers \in [Reg -> Word]
  BY <1>2, Layout, Fields DEF TypeOK
<1>6. op \in {LDR, STR, MOV, SET, CBZ, CBNZ} => args[2] \in Word
  BY <1>5, AddressOperand
<1> HIDE DEF op, args
<1>7. regs2 \in [Reg -> Word] /\ mem2 \in [0 .. top -> Word]
  BY <1>3, <1>4, <1>5, <1>6, ExecutionTypes
<1>8. PICK x : /\ DOMAIN mem2 = DOMAIN systemState
               /\ \A a \in DOMAIN systemState \ {x} : mem2[a] = systemState[a]
  BY OneWordStored
<1> HIDE DEF regs2, mem2
<1>9. ncycles + 1 \in 0 .. MAX_NCYCLES
  BY <1>1, <1>2, SystemAssumption DEF TypeOK
<1>10. TypeOK'
  BY <1>1, <1>2, <1>4, <1>7, <1>9 DEF TypeOK
<1>11. AtMostOneDeviceWord'
  <2>1. ASSUME peripherals', NEW a \in DeviceWords', systemState'[a] # 0
        PROVE  a = x
    <3>1. a \in DOMAIN systemState /\ a >= KBD
      BY <1>1, <1>8, <2>1 DEF DeviceWords
    <3>2. systemState[a] = 0
      BY <1>1, <2>1, <3>1 DEF DeviceWords, IInv, AtMostOneDeviceWord
    <3> QED BY <1>1, <1>8, <2>1, <3>1, <3>2
  <2> QED BY <1>1, <2>1 DEF AtMostOneDeviceWord
<1> QED BY <1>10, <1>11 DEF IInv

\* After an exception nothing changes any more.
LEMMA StopIInv == IInv /\ Stop => IInv'
<1> SUFFICES ASSUME IInv, Stop PROVE IInv'
  OBVIOUS
<1>1. /\ phase \in {"fetch", "execute"} /\ phase' \in {"fetchError", "executeError"}
      /\ ncycles' = ncycles /\ systemState' = systemState /\ timerLen' = timerLen
      /\ registers' = registers /\ irqs' = irqs /\ ir' = ir
      /\ hlCode' = hlCode /\ peripherals' = peripherals
  BY DEF Stop, cfg
<1>2. TypeOK'
  BY <1>1 DEF IInv, TypeOK
<1>3. DeviceWords' = DeviceWords
  BY <1>1 DEF DeviceWords
<1>4. AtMostOneDeviceWord'
  BY <1>1, <1>3 DEF IInv, AtMostOneDeviceWord
<1> QED BY <1>2, <1>4 DEF IInv

LEMMA StutterIInv == IInv /\ UNCHANGED vars => IInv'
<1> SUFFICES ASSUME IInv, UNCHANGED vars PROVE IInv'
  OBVIOUS
<1>1. /\ phase' = phase /\ ncycles' = ncycles /\ systemState' = systemState
      /\ timerLen' = timerLen /\ registers' = registers /\ irqs' = irqs
      /\ ir' = ir /\ hlCode' = hlCode /\ peripherals' = peripherals
  BY DEF vars, cfg
<1>2. DeviceWords' = DeviceWords
  BY <1>1 DEF DeviceWords
<1> QED BY <1>1, <1>2 DEF IInv, TypeOK, AtMostOneDeviceWord

-----------------------------------------------------------------------------
(* Theorems *)

\* The invariant holds in every reachable state of every program, under every
\* memory map.
THEOREM Invariance == Spec => []IInv
<1>1. Init => IInv
  BY InitIInv
<1>2. IInv /\ [Next]_vars => IInv'
  BY RunDevicesIInv, FetchIInv, ExecuteIInv, StopIInv, StutterIInv DEF Next
<1> QED BY <1>1, <1>2, PTL DEF Spec

\* The variables keep their types: every register and every word of the vector
\* stays below W, and the vector is at most one word shorter than the map.
THEOREM TypeCorrect == Spec => []TypeOK
<1>1. IInv => TypeOK
  BY DEF IInv
<1> QED BY <1>1, Invariance, PTL

\* A program never has more than one device register set when the devices take
\* their turn (the concatenation in the main loop forgets the others).
THEOREM DevicesForget == Spec => []AtMostOneDeviceWord
<1>1. IInv => AtMostOneDeviceWord
  BY DEF IInv
<1> QED BY <1>1, Invariance, PTL

\* The DMA is dead: whatever the program stores in its registers, in whatever
\* order, no step of the peripherals changes a word of RAM (the concatenation in
\* the main loop takes all but the last store away, dmaAction needs two).
THEOREM DmaNeverCopies ==
  Spec => [][phase = "devices" =>
               \A a \in 0 .. MEMTOP - 1 : systemState'[a] = systemState[a]]_vars
<1> DEFINE Same == phase = "devices" =>
                     \A a \in 0 .. MEMTOP - 1 : systemState'[a] = systemState[a]
<1>1. IInv /\ [Next]_vars => [Same]_vars
  <2> SUFFICES ASSUME IInv, Next, phase = "devices" PROVE Same
    OBVIOUS
  <2>1. RunDevices
    BY DEF Next, Fetch, Execute, Stop
  <2>2. CASE peripherals
    BY <2>1, <2>2, PeripheralStep DEF RunDevices
  <2>3. CASE ~peripherals
    BY <2>1, <2>3 DEF RunDevices
  <2> QED BY <2>2, <2>3
<1> QED BY <1>1, Invariance, PTL DEF Spec

\* The interrupt of the timer is served in the cycle that raises it.
THEOREM TimerServed == Spec => []TimerNeverLost
<1>1. Init => TimerNeverLost
  BY DEF Init, TimerNeverLost
<1>2. IInv /\ TimerNeverLost /\ [Next]_vars => TimerNeverLost'
  <2> SUFFICES ASSUME IInv, TimerNeverLost, [Next]_vars PROVE TimerNeverLost'
    OBVIOUS
  <2>1. CASE Fetch
    <3>1. irqs \subseteq {4, 5}
      BY DEF IInv, TypeOK, TimerIrq, DmaIrq
    <3>2. CASE TimerIrq \in irqs
      <4>1. 4 \in irqs /\ \A j \in irqs : 4 <= j
        BY <3>1, <3>2 DEF TimerIrq
      <4>2. \A i \in irqs : (\A j \in irqs : i <= j) => i = 4
        BY <3>1, <4>1
      <4>3. ServedIrq = 4
        BY <4>1, <4>2, Zenon DEF ServedIrq
      <4>4. irqs' = irqs \ {4}
        BY <2>1, <3>2, <4>3 DEF Fetch
      <4> QED BY <4>4 DEF TimerNeverLost, TimerIrq
    <3>3. CASE TimerIrq \notin irqs
      <4>1. irqs' \subseteq irqs
        BY <2>1 DEF Fetch
      <4> QED BY <3>3, <4>1 DEF TimerNeverLost, TimerIrq
    <3> QED BY <3>2, <3>3
  <2>2. CASE RunDevices \/ Execute \/ Stop
    <3>1. phase' # "execute"
      BY <2>2 DEF RunDevices, Execute, Stop
    <3> QED BY <3>1 DEF TimerNeverLost
  <2>3. CASE UNCHANGED vars
    BY <2>3 DEF vars, TimerNeverLost, TimerIrq
  <2> QED BY <2>1, <2>2, <2>3 DEF Next
<1> QED BY <1>1, <1>2, Invariance, PTL DEF Spec

-----------------------------------------------------------------------------
(* The instruction set of the main program is that of the system *)

LEMMA SameConstants ==
  /\ Main!PC = PC /\ Main!SP = SP /\ Main!LR = LR /\ Main!Reg = Reg
  /\ Main!CODE = CODE /\ Main!STATETOP = STATETOP
BY DEF Main!PC, PC, Main!SP, SP, Main!LR, LR, Main!Reg, Reg, Main!NREGS, NREGS,
       Main!IVT, IVT, Main!HEAP, HEAP, Main!STACK, STACK, Main!CODE, CODE,
       Main!MEMTOP, MEMTOP, Main!TIMER, TIMER, Main!KBD, KBD, Main!DMA, DMA,
       Main!STATETOP, STATETOP

LEMMA SameOpcodes ==
  /\ Main!ADD = ADD /\ Main!SUB = SUB /\ Main!MUL = MUL /\ Main!DIV = DIV
  /\ Main!AND = AND /\ Main!ORR = ORR /\ Main!EOR = EOR /\ Main!ASR = ASR
  /\ Main!ASL = ASL /\ Main!LDR = LDR /\ Main!STR = STR /\ Main!BL = BL
  /\ Main!BX = BX /\ Main!PUSH = PUSH /\ Main!POP = POP /\ Main!MOV = MOV
  /\ Main!SET = SET /\ Main!NOP = NOP /\ Main!CBZ = CBZ /\ Main!CBNZ = CBNZ
  /\ Main!B = B /\ Main!WFI = WFI /\ Main!HLI = HLI
BY DEF Main!ADD, ADD, Main!SUB, SUB, Main!MUL, MUL, Main!DIV, DIV, Main!AND, AND,
       Main!ORR, ORR, Main!EOR, EOR, Main!ASR, ASR, Main!ASL, ASL, Main!LDR, LDR,
       Main!STR, STR, Main!BL, BL, Main!BX, BX, Main!PUSH, PUSH, Main!POP, POP,
       Main!MOV, MOV, Main!SET, SET, Main!NOP, NOP, Main!CBZ, CBZ, Main!CBNZ, CBNZ,
       Main!B, B, Main!WFI, WFI, Main!HLI, HLI

LEMMA SameDecoding ==
  \A w : Main!Opcode(w) = Opcode(w) /\ Main!Operands(w) = Operands(w)
<1> TAKE w
<1>1. Main!Opcode(w) = Opcode(w) /\ Main!RegAddrOps = RegAddrOps
  BY SameOpcodes DEF Main!Opcode, Opcode, Main!RegAddrOps, RegAddrOps
<1>2. /\ Main!DecodeAddrArg(w) = DecodeAddrArg(w)
      /\ Main!DecodeRegAddrArgs(w) = DecodeRegAddrArgs(w)
      /\ Main!Decode3RegArgs(w) = Decode3RegArgs(w)
  BY DEF Main!DecodeAddrArg, DecodeAddrArg, Main!DecodeRegAddrArgs, DecodeRegAddrArgs,
         Main!Decode3RegArgs, Decode3RegArgs
<1>3. Main!Operands(w) = Operands(w)
  BY <1>1, <1>2, SameOpcodes, Zenon DEF Main!Operands, Operands
<1> QED BY <1>1, <1>3

LEMMA SameAlu == \A op, x, y : Main!Alu(op, x, y) = Alu(op, x, y)
BY DEF Main!Alu, Alu, Main!Quotient, Quotient, Main!Rounded, Rounded, Main!Bit, Bit, Main!FromBits, FromBits, Main!MapThenSumSet,
       MapThenSumSet, Main!MapThenFoldSet, MapThenFoldSet, Main!Word, Word,
       Main!ADD, ADD, Main!SUB, SUB, Main!MUL, MUL, Main!DIV, DIV, Main!AND, AND,
       Main!ORR, ORR, Main!EOR, EOR, Main!ASR, ASR, Main!ASL, ASL

LEMMA SameEffects ==
  \A op, args, regs, mem :
    /\ Main!Raises(op, args, regs, mem) <=> Raises(op, args, regs, mem)
    /\ Main!RegistersAfter(op, args, regs, mem) = RegistersAfter(op, args, regs, mem)
    /\ Main!MemoryAfter(op, args, regs, mem) = MemoryAfter(op, args, regs, mem)
<1> TAKE op, args, regs, mem
<1>1. Main!Raises(op, args, regs, mem) <=> Raises(op, args, regs, mem)
  BY SameOpcodes, SameConstants, Zenon DEF Main!Raises, Raises
<1>2. Main!RegistersAfter(op, args, regs, mem) = RegistersAfter(op, args, regs, mem)
  BY SameOpcodes, SameConstants, SameAlu, Zenon DEF Main!RegistersAfter, RegistersAfter
<1>3. Main!MemoryAfter(op, args, regs, mem) = MemoryAfter(op, args, regs, mem)
  BY SameOpcodes, SameConstants, Zenon DEF Main!MemoryAfter, MemoryAfter
<1> QED BY <1>1, <1>2, <1>3

-----------------------------------------------------------------------------
(* What an instruction does depends on what it reads only *)

LEMMA AgreeExcept ==
  ASSUME NEW S, NEW f, NEW g, S \subseteq DOMAIN f, S \subseteq DOMAIN g,
         \A x \in S : f[x] = g[x], NEW k, NEW v
  PROVE  /\ \A x \in S : [f EXCEPT ![k] = v][x] = [g EXCEPT ![k] = v][x]
         /\ DOMAIN [f EXCEPT ![k] = v] = DOMAIN f
         /\ DOMAIN [g EXCEPT ![k] = v] = DOMAIN g
OBVIOUS

\* An instruction reads only what the main program uses.
ReadsOwn(op, args) ==
  RegistersRead(op, args) \subseteq Own \cup {PC} /\ WordsRead(op, args) \subseteq Ram

\* A register file and a memory that agree with those of the system on what
\* the main program uses, and that do so after an instruction.
Agree(file, memory) ==
  /\ DOMAIN file = Reg /\ \A r \in Own \cup {PC} : file[r] = registers[r]
  /\ DOMAIN memory = 0 .. STATETOP - 1 /\ \A a \in Ram : memory[a] = systemState[a]

AgreeAfter(op, args, file, memory) ==
  /\ ~Raises(op, args, file, memory)
  /\ \A r \in Own \cup {PC} :
       RegistersAfter(op, args, file, memory)[r]
         = RegistersAfter(op, args, registers, systemState)[r]
  /\ \A a \in Ram :
       MemoryAfter(op, args, file, memory)[a]
         = MemoryAfter(op, args, registers, systemState)[a]

LEMMA Footprint ==
  ASSUME NEW op \in Int, NEW args, TypeOK,
         ~Raises(op, args, registers, systemState), ReadsOwn(op, args),
         NEW file, NEW memory, Agree(file, memory)
  PROVE  AgreeAfter(op, args, file, memory)
<1> USE DEF LDR, STR, BL, BX, PUSH, POP, MOV, SET, NOP, CBZ, CBNZ, B, WFI, HLI
<1> DEFINE uses == Own \cup {PC}
           after == RegistersAfter(op, args, registers, systemState)
           words == MemoryAfter(op, args, registers, systemState)
           fileAfter == RegistersAfter(op, args, file, memory)
           memoryAfter == MemoryAfter(op, args, file, memory)
<1>1. /\ DOMAIN registers = Reg /\ SP \in Reg /\ PC \in Reg
      /\ uses \subseteq Reg
      /\ \A r \in uses : file[r] = registers[r]
  <2>1. DOMAIN registers = Reg
    BY Zenon DEF TypeOK
  <2>2. SP \in Reg /\ PC \in Reg
    BY DEF SP, PC, Reg, NREGS
  <2>3. \A r \in Own \cup {PC} : file[r] = registers[r]
    BY Zenon DEF Agree
  <2> QED BY <2>1, <2>2, <2>3, MainAssumption
<1>2. /\ DOMAIN systemState \subseteq DOMAIN memory
      /\ Ram \subseteq DOMAIN systemState /\ Ram \subseteq DOMAIN memory
  <2>1. PICK top \in {STATETOP - 1, STATETOP - 2} : systemState \in [0 .. top -> Word]
    BY DEF TypeOK
  <2>2. DOMAIN systemState = 0 .. top
    BY <2>1
  <2>3. /\ 0 .. top \subseteq 0 .. STATETOP - 1
        /\ 0 .. MEMTOP - 1 \subseteq 0 .. top
    BY <2>1, Layout
  <2> QED BY <2>2, <2>3, MainAssumption DEF Agree
<1>5. /\ ~Raises(op, args, registers, systemState)
      /\ RegistersRead(op, args) \subseteq uses /\ WordsRead(op, args) \subseteq Ram
      /\ \A a \in Ram : memory[a] = systemState[a]
      /\ DOMAIN file = Reg
  <2>1. ~Raises(op, args, registers, systemState)
    OBVIOUS
  <2>2. RegistersRead(op, args) \subseteq uses /\ WordsRead(op, args) \subseteq Ram
    BY Zenon DEF ReadsOwn
  <2>3. (\A a \in Ram : memory[a] = systemState[a]) /\ DOMAIN file = Reg
    BY Zenon DEF Agree
  <2> QED BY <2>1, <2>2, <2>3
<1> SUFFICES /\ ~Raises(op, args, file, memory)
             /\ \A r \in uses : fileAfter[r] = after[r]
             /\ \A a \in Ram : memoryAfter[a] = words[a]
  BY DEF AgreeAfter
<1> HIDE DEF uses
<1>10. CASE op = LDR
  <2>1. args[1] \in Reg /\ args[2] \in DOMAIN systemState
    BY <1>5, <1>10 DEF Raises
  <2>2. args[2] \in Ram
    BY <1>5, <1>10 DEF WordsRead
  <2>3. memory[args[2]] = systemState[args[2]] /\ args[2] \in DOMAIN memory
    BY <1>2, <1>5, <2>2
  <2>4. ~Raises(op, args, file, memory)
    BY <1>10, <2>1, <2>3 DEF Raises
  <2>5. /\ fileAfter = [file EXCEPT ![args[1]] = memory[args[2]]]
        /\ after = [registers EXCEPT ![args[1]] = systemState[args[2]]]
        /\ memoryAfter = memory /\ words = systemState
    BY <1>10 DEF RegistersAfter, MemoryAfter
  <2> HIDE DEF after, words, fileAfter, memoryAfter
  <2>6. \A r \in uses : fileAfter[r] = after[r]
    BY <1>1, <1>5, <2>3, <2>5, AgreeExcept
  <2> QED BY <1>5, <2>4, <2>5, <2>6
<1>11. CASE op = STR
  <2>1. /\ args[1] \in Reg /\ args[2] \in Reg
        /\ registers[args[2]] \in DOMAIN systemState
    BY <1>5, <1>11 DEF Raises
  <2>2. args[1] \in uses /\ args[2] \in uses
    BY <1>5, <1>11 DEF RegistersRead
  <2>3. /\ file[args[1]] = registers[args[1]] /\ file[args[2]] = registers[args[2]]
        /\ file[args[2]] \in DOMAIN memory
    BY <1>1, <1>2, <2>1, <2>2
  <2>4. ~Raises(op, args, file, memory)
    BY <1>11, <2>1, <2>3 DEF Raises
  <2>5. /\ memoryAfter = [memory EXCEPT ![file[args[2]]] = file[args[1]]]
        /\ words = [systemState EXCEPT ![registers[args[2]]] = registers[args[1]]]
        /\ fileAfter = file /\ after = registers
    BY <1>11 DEF RegistersAfter, MemoryAfter
  <2> HIDE DEF after, words, fileAfter, memoryAfter
  <2>6. \A a \in Ram : memoryAfter[a] = words[a]
    BY <1>2, <1>5, <2>3, <2>5, AgreeExcept
  <2> QED BY <1>1, <2>4, <2>5, <2>6
<1>12. CASE op = PUSH
  <2>1. args[1] \in Reg /\ registers[SP] \in DOMAIN systemState
    BY <1>5, <1>12 DEF Raises
  <2>2. args[1] \in uses /\ SP \in uses
    BY <1>5, <1>12 DEF RegistersRead
  <2>3. /\ file[args[1]] = registers[args[1]] /\ file[SP] = registers[SP]
        /\ file[SP] \in DOMAIN memory
    BY <1>1, <1>2, <2>1, <2>2
  <2>4. ~Raises(op, args, file, memory)
    BY <1>12, <2>1, <2>3 DEF Raises
  <2>5. /\ memoryAfter = [memory EXCEPT ![file[SP]] = file[args[1]]]
        /\ words = [systemState EXCEPT ![registers[SP]] = registers[args[1]]]
        /\ fileAfter = [file EXCEPT ![SP] = (file[SP] + 1) % W]
        /\ after = [registers EXCEPT ![SP] = (registers[SP] + 1) % W]
    BY <1>12 DEF RegistersAfter, MemoryAfter
  <2> HIDE DEF after, words, fileAfter, memoryAfter
  <2>6. \A a \in Ram : memoryAfter[a] = words[a]
    BY <1>2, <1>5, <2>3, <2>5, AgreeExcept
  <2>7. \A r \in uses : fileAfter[r] = after[r]
    BY <1>1, <1>5, <2>3, <2>5, AgreeExcept
  <2> QED BY <2>4, <2>6, <2>7
<1>13. CASE op = POP
  <2>1. args[1] \in Reg /\ registers[SP] \in DOMAIN systemState
    BY <1>5, <1>13 DEF Raises
  <2>2. SP \in uses
    BY <1>5, <1>13 DEF RegistersRead
  <2>3. registers[SP] \in Ram
    BY <1>5, <1>13 DEF WordsRead
  <2>4. /\ file[SP] = registers[SP] /\ file[SP] \in DOMAIN memory
        /\ memory[file[SP]] = systemState[registers[SP]]
    BY <1>1, <1>2, <1>5, <2>2, <2>3
  <2>5. ~Raises(op, args, file, memory)
    BY <1>13, <2>1, <2>4 DEF Raises
  <2> DEFINE popped == [file EXCEPT ![args[1]] = memory[file[SP]]]
             loaded == [registers EXCEPT ![args[1]] = systemState[registers[SP]]]
  <2>6. /\ \A r \in uses : popped[r] = loaded[r]
        /\ uses \subseteq DOMAIN popped /\ uses \subseteq DOMAIN loaded
    BY <1>1, <1>5, <2>4, AgreeExcept
  <2>7. /\ fileAfter = [popped EXCEPT ![SP] = (popped[SP] - 1) % W]
        /\ after = [loaded EXCEPT ![SP] = (loaded[SP] - 1) % W]
        /\ memoryAfter = memory /\ words = systemState
    BY <1>13 DEF RegistersAfter, MemoryAfter
  <2> HIDE DEF after, words, fileAfter, memoryAfter, popped, loaded
  <2>8. popped[SP] = loaded[SP]
    BY <2>2, <2>6
  <2>9. \A r \in uses : fileAfter[r] = after[r]
    BY <2>6, <2>7, <2>8, AgreeExcept
  <2> QED BY <1>5, <2>5, <2>7, <2>9
<1>14. CASE op \in {CBNZ, CBZ}
  <2>1. args[1] \in Reg
    BY <1>5, <1>14 DEF Raises
  <2>2. args[1] \in uses
    BY <1>5, <1>14 DEF RegistersRead
  <2>3. file[args[1]] = registers[args[1]]
    BY <1>1, <2>2
  <2>4. ~Raises(op, args, file, memory)
    BY <1>14, <2>1 DEF Raises
  <2>5. \/ /\ fileAfter = [file EXCEPT ![PC] = args[2]]
           /\ after = [registers EXCEPT ![PC] = args[2]]
        \/ fileAfter = file /\ after = registers
    <3>1. CASE op = CBNZ
      BY <2>3, <3>1 DEF RegistersAfter
    <3>2. CASE op = CBZ
      BY <2>3, <3>2 DEF RegistersAfter
    <3> QED BY <1>14, <3>1, <3>2
  <2>6. memoryAfter = memory /\ words = systemState
    BY <1>14 DEF MemoryAfter
  <2> HIDE DEF after, words, fileAfter, memoryAfter
  <2>7. \A r \in uses : fileAfter[r] = after[r]
    BY <1>1, <1>5, <2>5, AgreeExcept
  <2> QED BY <1>5, <2>4, <2>6, <2>7
<1>15. CASE op \in {BX, MOV, SET}
  <2>1. args[1] \in Reg /\ (op = MOV => args[2] \in Reg)
    BY <1>5, <1>15 DEF Raises
  <2>2. /\ op = BX => file[args[1]] = registers[args[1]]
        /\ op = MOV => file[args[2]] = registers[args[2]]
    <3>1. op = BX => args[1] \in uses
      BY <1>5 DEF RegistersRead
    <3>2. op = MOV => args[2] \in uses
      BY <1>5 DEF RegistersRead
    <3> QED BY <1>1, <3>1, <3>2
  <2>3. ~Raises(op, args, file, memory)
    BY <1>15, <2>1 DEF Raises
  <2>4. ASSUME op = BX PROVE \A r \in uses : fileAfter[r] = after[r]
    <3>1. /\ fileAfter = [file EXCEPT ![PC] = file[args[1]]]
          /\ after = [registers EXCEPT ![PC] = registers[args[1]]]
      BY <2>4 DEF RegistersAfter
    <3> HIDE DEF after, fileAfter
    <3> QED BY <1>1, <1>5, <2>2, <2>4, <3>1, AgreeExcept
  <2>5. ASSUME op = MOV PROVE \A r \in uses : fileAfter[r] = after[r]
    <3>1. /\ fileAfter = [file EXCEPT ![args[1]] = file[args[2]]]
          /\ after = [registers EXCEPT ![args[1]] = registers[args[2]]]
      BY <2>5 DEF RegistersAfter
    <3> HIDE DEF after, fileAfter
    <3> QED BY <1>1, <1>5, <2>2, <2>5, <3>1, AgreeExcept
  <2>6. ASSUME op = SET PROVE \A r \in uses : fileAfter[r] = after[r]
    <3>1. /\ fileAfter = [file EXCEPT ![args[1]] = args[2]]
          /\ after = [registers EXCEPT ![args[1]] = args[2]]
      BY <2>6 DEF RegistersAfter
    <3> HIDE DEF after, fileAfter
    <3> QED BY <1>1, <1>5, <3>1, AgreeExcept
  <2>7. memoryAfter = memory /\ words = systemState
    BY <1>15 DEF MemoryAfter
  <2> HIDE DEF after, words, fileAfter, memoryAfter
  <2> QED BY <1>5, <1>15, <2>3, <2>4, <2>5, <2>6, <2>7
<1>16. CASE op \in {NOP, WFI, HLI, B, BL}
  <2>1. ~Raises(op, args, file, memory)
    BY <1>5, <1>16 DEF Raises
  <2>2. /\ fileAfter = file /\ after = registers
        /\ memoryAfter = memory /\ words = systemState
    BY <1>16 DEF RegistersAfter, MemoryAfter
  <2> HIDE DEF after, words, fileAfter, memoryAfter
  <2> QED BY <1>1, <1>5, <2>1, <2>2
<1>17. CASE op \notin {LDR, STR, PUSH, POP, CBNZ, CBZ, BX, MOV, SET, NOP, WFI,
                      HLI, B, BL}
  <2>1. /\ op <= ASL
        /\ \A i \in 1..3 : args[i] \in Reg
        /\ op = DIV /\ DivisionRaises => registers[args[3]] # 0
    BY <1>5, <1>17 DEF Raises, ASL
  <2>2. args[2] \in uses /\ args[3] \in uses
    BY <1>5, <1>17, Zenon DEF RegistersRead
  <2>3. file[args[2]] = registers[args[2]] /\ file[args[3]] = registers[args[3]]
    BY <1>1, <2>2
  <2>4. ~Raises(op, args, file, memory)
    BY <1>17, <2>1, <2>3 DEF Raises, ASL
  <2>5. /\ fileAfter = [file EXCEPT ![args[1]] = Alu(op, file[args[2]], file[args[3]])]
        /\ after = [registers EXCEPT
                      ![args[1]] = Alu(op, registers[args[2]], registers[args[3]])]
        /\ memoryAfter = memory /\ words = systemState
    BY <1>17, Zenon DEF RegistersAfter, MemoryAfter
  <2> HIDE DEF after, words, fileAfter, memoryAfter
  <2>6. \A r \in uses : fileAfter[r] = after[r]
    BY <1>1, <1>5, <2>3, <2>5, AgreeExcept
  <2> QED BY <1>5, <2>4, <2>5, <2>6
<1> QED
  BY <1>10, <1>11, <1>12, <1>13, <1>14, <1>15, <1>16, <1>17

-----------------------------------------------------------------------------
(* Fetching *)

\* The word that is executed is the one in front of PC, and only peripherals
\* interrupt.
Fetched ==
  /\ phase = "execute" =>
       /\ registers[PC] - 1 \in DOMAIN systemState
       /\ ir = systemState[registers[PC] - 1]
  /\ irqs # {} => peripherals

LEMMA FetchNext ==
  ASSUME IInv, Fetch
  PROVE  /\ registers'[PC] - 1 = CheckIrqs[PC]
         /\ \A r \in Reg \ {PC} : registers'[r] = CheckIrqs[r]
<1>1. PICK top \in {STATETOP - 1, STATETOP - 2} : systemState \in [0 .. top -> Word]
  BY DEF IInv, TypeOK
<1>2. /\ CheckIrqs[PC] \in 0 .. top
      /\ registers' = [CheckIrqs EXCEPT ![PC] = (CheckIrqs[PC] + 1) % W]
  BY <1>1 DEF Fetch
<1>3. CheckIrqs \in [Reg -> Word] /\ PC \in Reg
  BY CheckIrqsType DEF IInv, PC, Reg, NREGS
<1> DEFINE a == CheckIrqs[PC]
<1>4. (a + 1) % W = a + 1 /\ a \in Nat
  <2> HIDE DEF a
  <2>1. a \in Nat /\ a + 1 \in 0 .. W - 1 /\ W \in Nat \ {0}
    BY <1>1, <1>2, Layout, WordAssumption DEF a
  <2>2. \A n \in 0 .. W - 1 : n % W = n
    BY <2>1
  <2> QED BY <2>1, <2>2
<1>5. registers'[PC] = (a + 1) % W /\ \A r \in Reg \ {PC} : registers'[r] = CheckIrqs[r]
  BY <1>2, <1>3
<1> HIDE DEF a
<1>6. registers'[PC] - 1 = a
  BY <1>4, <1>5
<1> QED BY <1>5, <1>6 DEF a

LEMMA FetchedInvariant == Spec => []Fetched
<1>1. Init => Fetched
  BY DEF Init, Fetched
<1>2. IInv /\ Fetched /\ [Next]_vars => Fetched'
  <2> SUFFICES ASSUME IInv, Fetched, [Next]_vars PROVE Fetched'
    OBVIOUS
  <2>1. CASE RunDevices
    BY <2>1 DEF RunDevices, Fetched, cfg
  <2>2. CASE Fetch
    <3>1. /\ CheckIrqs[PC] \in DOMAIN systemState /\ ir' = systemState[CheckIrqs[PC]]
          /\ systemState' = systemState /\ irqs' \subseteq irqs /\ peripherals' = peripherals
      BY <2>2 DEF Fetch, cfg
    <3>2. registers'[PC] - 1 = CheckIrqs[PC]
      BY <2>2, FetchNext
    <3> QED BY <3>1, <3>2 DEF Fetched
  <2>3. CASE Execute \/ Stop
    BY <2>3 DEF Execute, Stop, Fetched, cfg
  <2>4. CASE UNCHANGED vars
    BY <2>4 DEF vars, cfg, Fetched
  <2> QED BY <2>1, <2>2, <2>3, <2>4 DEF Next
<1> QED BY <1>1, <1>2, Invariance, PTL DEF Spec

-----------------------------------------------------------------------------
(* No request comes before the routine has returned *)

\* The vector of the timer is a word of RAM.
LEMMA VectorInRam == IVT + TimerIrq \in 0 .. MEMTOP - 1
BY Layout DEF TimerIrq

\* The instructions of the routine that are still to be executed
Left == Routine + RoutineLen - NextPC

\* The period of the timer covers the routine, and while the routine runs the
\* count covers what is left of it.  A request finds the main program, with a
\* whole period before the next one.
Paced ==
  /\ registers[SCR] = 0
  /\ irqs \subseteq {TimerIrq}
  /\ peripherals =>
       /\ systemState[DMA + DCR] = 0
       /\ systemState[TIMER + 1] >= RoutineLen
       /\ phase = "fetch" /\ irqs # {} => ~InRoutine /\ systemState[TIMER] >= RoutineLen
       /\ InRoutine =>
            /\ Left >= 1
            /\ systemState[TIMER] >= IF phase = "devices" THEN Left + 1 ELSE Left

\* What the state is made of: words, and numbers of instructions.
LEMMA PacedTypes ==
  ASSUME TypeOK
  PROVE  /\ NextPC \in Int /\ Routine \in Int /\ RoutineLen \in Nat /\ RoutineLen >= 1
         /\ systemState[TIMER] \in Nat /\ systemState[TIMER + 1] \in Nat
         /\ Left = Routine + RoutineLen - NextPC
<1>1. PICK top \in {STATETOP - 1, STATETOP - 2} : systemState \in [0 .. top -> Word]
  BY DEF TypeOK
<1>2. /\ IVT + TimerIrq \in 0 .. top /\ TIMER \in 0 .. top /\ TIMER + 1 \in 0 .. top
  BY <1>1, VectorInRam, Layout
<1>3. PC \in Reg
  BY DEF PC, Reg, NREGS
<1>4. registers[PC] \in Word
  BY <1>3 DEF TypeOK
<1>5. Routine \in Word /\ systemState[TIMER] \in Word /\ systemState[TIMER + 1] \in Word
  BY <1>1, <1>2 DEF Routine
<1>6. \A x \in Word : x \in Nat
  BY WordAssumption DEF Word
<1>7. RoutineLen \in Nat /\ RoutineLen >= 1
  BY MainAssumption, SystemAssumption
<1> QED BY <1>4, <1>5, <1>6, <1>7 DEF NextPC, Left

LEMMA InitPaced == Init /\ Cooperate => Paced
<1> SUFFICES ASSUME Init, Cooperate PROVE Paced
  OBVIOUS
<1>1. PICK p \in Programs : systemState = LoadCode(p)
  BY DEF Init
<1>2. Len(p.words) \in Nat /\ Len(p.words) <= codeSz
  BY SystemAssumption
<1>3. systemState[TIMER + 1] = MAX_NCYCLES + 1 /\ systemState[DMA + DCR] = 0
  <2>1. /\ ~(TIMER + 1 < IVTsz) /\ (TIMER + 1) - CODE \notin 0 .. Len(p.words) - 1
        /\ ~(DMA + DCR < IVTsz) /\ (DMA + DCR) - CODE \notin 0 .. Len(p.words) - 1
        /\ DMA + DCR \notin {TIMER, TIMER + 1}
        /\ TIMER + 1 \in 0 .. STATETOP - 1 /\ DMA + DCR \in 0 .. STATETOP - 1
    BY <1>2, Layout DEF DCR
  <2>2. \A a \in 0 .. STATETOP - 1 :
          ~(a < IVTsz) /\ a - CODE \notin 0 .. Len(p.words) - 1 =>
            /\ a \in {TIMER, TIMER + 1} => systemState[a] = MAX_NCYCLES + 1
            /\ a \notin {TIMER, TIMER + 1} => systemState[a] = 0
    BY <1>1 DEF LoadCode
  <2>3. systemState[TIMER + 1] = MAX_NCYCLES + 1
    <3>1. TIMER + 1 \in {TIMER, TIMER + 1}
      OBVIOUS
    <3> QED BY <2>1, <2>2, <3>1, Zenon
  <2>4. systemState[DMA + DCR] = 0
    BY <2>1, <2>2, Zenon
  <2> QED BY <2>3, <2>4
<1>4. systemState[TIMER + 1] >= RoutineLen
  BY <1>3, MainAssumption, SystemAssumption
<1>5. ~InRoutine /\ irqs = {} /\ registers[SCR] = 0
  <2>1. registers[SCR] = 0
    BY DEF Init, SCR, PC, Reg, NREGS
  <2> QED BY <2>1 DEF Init, Cooperate
<1> QED BY <1>3, <1>4, <1>5 DEF Paced

\* The timer counts down, and starts again from the period when it raises its
\* request; the devices leave the period alone.
LEMMA TimerStep ==
  ASSUME IInv, peripherals
  PROVE  /\ StepPeripherals(systemState)[TIMER]
              = IF TimerCount(systemState) = 0 THEN systemState[TIMER + 1]
                                               ELSE TimerCount(systemState)
         /\ StepPeripherals(systemState)[TIMER + 1] = systemState[TIMER + 1]
         /\ StepPeripherals(systemState)[DMA + DCR] = 0
<1>1. PICK top \in {STATETOP - 1, STATETOP - 2} : systemState \in [0 .. top -> Word]
  BY DEF IInv, TypeOK
<1> DEFINE ticked == TimerAction(systemState)
           moved == DmaAction(ticked)
           last == STATETOP - timerStateSz + timerLen - 1
<1>2. /\ ticked \in [0 .. top -> Word]
      /\ \A a \in 0 .. top : a # TIMER => ticked[a] = systemState[a]
  BY <1>1, TimerTypes
<1>3. ~DmaCopies(ticked)
  BY <1>1, NoCopy
<1>4. TIMER \in 0 .. top /\ TIMER + 1 \in 0 .. top /\ TIMER \in Int
  BY Layout
<1>5. ticked[TIMER] = IF TimerCount(systemState) = 0 THEN systemState[TIMER + 1]
                                                     ELSE TimerCount(systemState)
  BY <1>1, <1>4 DEF TimerAction
<1> HIDE DEF ticked
<1>6. \A a \in 0 .. top : a # DMA + DCR => moved[a] = ticked[a]
  BY <1>2, <1>3, DmaIdle
<1>7. moved[TIMER] = ticked[TIMER] /\ moved[TIMER + 1] = systemState[TIMER + 1]
  <2>1. TIMER # DMA + DCR /\ TIMER + 1 # DMA + DCR /\ TIMER + 1 # TIMER
    BY Layout DEF DCR
  <2> QED BY <1>2, <1>4, <1>6, <2>1
<1> HIDE DEF moved
<1>8. /\ TIMER \in 0 .. last /\ TIMER < TIMER + timerLen
      /\ TIMER + 1 \in 0 .. last /\ TIMER + 1 < TIMER + timerLen
      /\ DMA + DCR \in 0 .. last /\ ~(DMA + DCR < TIMER + timerLen)
  <2>1. timerLen \in {timerStateSz, timerStateSz - 1}
    BY DEF IInv, TypeOK
  <2> QED BY <2>1, Layout DEF DCR
<1>9. StepPeripherals(systemState)
        = [a \in 0 .. last |-> IF a < TIMER + timerLen THEN moved[a] ELSE 0]
  BY DEF StepPeripherals, Concatenate, moved, ticked
<1> HIDE DEF last
<1> QED BY <1>5, <1>7, <1>8, <1>9

LEMMA DevicesPaced ==
  ASSUME IInv, Paced, RunDevices
  PROVE  Paced'
<1>1. /\ phase = "devices" /\ phase' = "fetch"
      /\ registers' = registers /\ peripherals' = peripherals
  BY DEF RunDevices, cfg
<1>2. CASE ~peripherals
  <2>1. irqs' = {}
    BY <1>2 DEF RunDevices
  <2> QED BY <1>1, <1>2, <2>1 DEF Paced
<1>3. CASE peripherals
  <2>1. systemState' = StepPeripherals(systemState) /\ irqs' = RaisedIrqs(systemState)
    BY <1>3 DEF RunDevices
  <2>2. /\ systemState'[TIMER]
             = IF TimerCount(systemState) = 0 THEN systemState[TIMER + 1]
                                              ELSE TimerCount(systemState)
        /\ systemState'[TIMER + 1] = systemState[TIMER + 1]
        /\ systemState'[DMA + DCR] = 0
    BY <1>3, <2>1, TimerStep
  <2>3. NextPC' = NextPC /\ Routine' = Routine
    <3>1. systemState'[IVT + TimerIrq] = systemState[IVT + TimerIrq]
      BY <1>3, <2>1, PeripheralStep, VectorInRam
    <3> QED BY <1>1, <3>1 DEF NextPC, Routine
  <2>4. InRoutine' = InRoutine /\ Left' = Left
    BY <1>1, <2>3 DEF InRoutine, Left
  <2>5. irqs' \subseteq {TimerIrq} /\ (irqs' # {} => TimerCount(systemState) = 0)
    <3>1. systemState[DMA + DCR] = 0
      BY <1>3 DEF Paced
    <3> QED BY <2>1, <3>1, Zenon DEF RaisedIrqs
  <2>6. /\ systemState[TIMER + 1] >= RoutineLen
        /\ InRoutine => Left >= 1 /\ systemState[TIMER] >= Left + 1
    BY <1>1, <1>3 DEF Paced
  <2>7. /\ systemState[TIMER] \in Nat /\ systemState[TIMER + 1] \in Nat
        /\ RoutineLen \in Nat /\ Left \in Int
    <3>1. TypeOK
      BY DEF IInv
    <3> QED BY <3>1, PacedTypes
  <2>8. InRoutine => TimerCount(systemState) >= Left /\ TimerCount(systemState) # 0
    BY <2>6, <2>7 DEF TimerCount
  <2>9. InRoutine => irqs' = {} /\ systemState'[TIMER] >= Left
    BY <2>2, <2>5, <2>8
  <2>10. irqs' # {} => ~InRoutine /\ systemState'[TIMER] >= RoutineLen
    BY <2>2, <2>5, <2>6, <2>8
  <2>11. registers'[SCR] = 0
    BY <1>1 DEF Paced
  <2> QED BY <1>1, <2>2, <2>4, <2>5, <2>6, <2>9, <2>10, <2>11 DEF Paced
<1> QED BY <1>2, <1>3

\* The processor never waits, and what it serves is the timer's request.
LEMMA FetchServes ==
  ASSUME IInv, Paced, Fetch
  PROVE  /\ phase' = "execute" /\ CheckIrqs[SCR] = 0
         /\ \A r \in Reg \ {LR, PC} : CheckIrqs[r] = registers[r]
         /\ irqs = {} => CheckIrqs[PC] = registers[PC] /\ CheckIrqs[LR] = registers[LR]
         /\ irqs # {} => CheckIrqs[LR] = registers[PC] /\ CheckIrqs[PC] = Routine
<1>1. registers \in [Reg -> Word] /\ SCR \in Reg /\ LR \in Reg /\ PC \in Reg
      /\ SCR # LR /\ SCR # PC /\ LR # PC
  BY DEF IInv, TypeOK, SCR, LR, PC, Reg, NREGS
<1>2. registers[SCR] = 0
  BY DEF Paced
<1>3. irqs # {} => ServedIrq = TimerIrq
  <2> SUFFICES ASSUME irqs # {} PROVE ServedIrq = TimerIrq
    OBVIOUS
  <2>1. irqs = {TimerIrq}
    BY DEF Paced
  <2>2. TimerIrq <= TimerIrq
    BY DEF TimerIrq
  <2>3. \E i \in irqs : \A j \in irqs : i <= j
    BY <2>1, <2>2
  <2>4. ServedIrq \in irqs
    BY <2>3, Zenon DEF ServedIrq
  <2> QED BY <2>1, <2>4
<1>4. /\ \A r \in Reg \ {LR, PC} : CheckIrqs[r] = registers[r]
      /\ irqs = {} => CheckIrqs[PC] = registers[PC] /\ CheckIrqs[LR] = registers[LR]
      /\ irqs # {} => CheckIrqs[LR] = registers[PC] /\ CheckIrqs[PC] = Routine
  BY <1>1, <1>2, <1>3 DEF CheckIrqs, Routine
<1>5. CheckIrqs[SCR] = 0
  BY <1>1, <1>2, <1>4
<1>6. phase' = "execute"
  BY <1>5 DEF Fetch, Waiting
<1> QED BY <1>4, <1>5, <1>6

LEMMA FetchPaced ==
  ASSUME IInv, Paced, Fetch
  PROVE  Paced'
<1>1. /\ phase = "fetch" /\ phase' = "execute"
      /\ systemState' = systemState /\ peripherals' = peripherals
      /\ irqs' \subseteq irqs
  BY FetchServes DEF Fetch, cfg
<1>2. /\ registers'[PC] - 1 = CheckIrqs[PC]
      /\ \A r \in Reg \ {PC} : registers'[r] = CheckIrqs[r]
  BY FetchNext
<1>3. registers'[SCR] = 0
  <2>1. SCR \in Reg \ {PC}
    BY DEF SCR, PC, Reg, NREGS
  <2> QED BY <1>2, <2>1, FetchServes
<1>4. NextPC' = CheckIrqs[PC] /\ NextPC = registers[PC] /\ Routine' = Routine
  BY <1>1, <1>2 DEF NextPC, Routine
<1>5. /\ NextPC \in Int /\ Routine \in Int /\ RoutineLen \in Nat /\ RoutineLen >= 1
      /\ systemState[TIMER] \in Nat
  <2>1. TypeOK
    BY DEF IInv
  <2> QED BY <2>1, PacedTypes
<1>6. peripherals /\ InRoutine' => Left' >= 1 /\ systemState[TIMER] >= Left'
  <2>1. CASE irqs = {}
    <3>1. NextPC' = NextPC
      BY <1>4, <2>1, FetchServes
    <3>2. InRoutine' = InRoutine /\ Left' = Left
      BY <1>1, <1>4, <3>1 DEF InRoutine, Left
    <3>3. peripherals /\ InRoutine => Left >= 1 /\ systemState[TIMER] >= Left
      BY <1>1 DEF Paced
    <3> QED BY <3>2, <3>3
  <2>2. CASE irqs # {}
    <3>1. NextPC' = Routine
      BY <1>4, <2>2, FetchServes
    <3>2. Left' = RoutineLen
      BY <1>4, <1>5, <3>1 DEF Left
    <3>3. peripherals => systemState[TIMER] >= RoutineLen
      BY <1>1, <2>2 DEF Paced
    <3> QED BY <1>5, <3>2, <3>3
  <2> QED BY <2>1, <2>2
<1>7. irqs \subseteq {TimerIrq}
      /\ (peripherals => systemState[DMA + DCR] = 0 /\ systemState[TIMER + 1] >= RoutineLen)
  BY DEF Paced
<1> QED BY <1>1, <1>3, <1>6, <1>7 DEF Paced

LEMMA ExecutePaced ==
  ASSUME IInv, Cooperate, Paced, Execute
  PROVE  Paced'
<1>1. /\ phase = "execute" /\ ~InstructionRaises /\ phase' = "devices"
      /\ registers' = After /\ systemState' = MemoryNext /\ peripherals' = peripherals
      /\ irqs' = irqs
  BY DEF Execute, After, MemoryNext, cfg
<1>2. /\ registers'[SCR] = 0
      /\ peripherals => systemState'[DMA + DCR] = 0 /\ systemState'[TIMER + 1] >= RoutineLen
      /\ IF InRoutine THEN RoutineKeeps ELSE MainKeeps
  BY <1>1 DEF Cooperate, BothKeep
<1>3. NextPC' = registers'[PC]
  BY <1>1 DEF NextPC
<1>4. NextPC \in Int /\ Routine \in Int /\ RoutineLen \in Nat /\ systemState[TIMER] \in Nat
  <2>1. TypeOK
    BY DEF IInv
  <2> QED BY <2>1, PacedTypes
<1>5. NextPC' \in Int /\ Routine' \in Int /\ Left' = Routine' + RoutineLen - NextPC'
  <2>1. TypeOK'
    <3>1. IInv'
      BY ExecuteIInv
    <3> QED BY <3>1 DEF IInv
  <2>2. PC \in Reg
    BY DEF PC, Reg, NREGS
  <2>3. registers'[PC] \in Word
    BY <2>1, <2>2 DEF TypeOK
  <2>4. PICK top \in {STATETOP - 1, STATETOP - 2} : systemState' \in [0 .. top -> Word]
    BY <2>1 DEF TypeOK
  <2>5. IVT + TimerIrq \in 0 .. top
    BY <2>4, VectorInRam, Layout
  <2> QED BY <1>3, <2>3, <2>4, <2>5, WordAssumption DEF Word, Routine, Left
<1>6. peripherals /\ InRoutine' => Left' >= 1 /\ systemState'[TIMER] >= Left' + 1
  <2> SUFFICES ASSUME peripherals, InRoutine'
               PROVE  Left' >= 1 /\ systemState'[TIMER] >= Left' + 1
    OBVIOUS
  <2>1. NextPC' >= Routine'
    BY DEF InRoutine
  <2>2. CASE ~InRoutine
    <3>1. registers'[PC] < Routine /\ Routine' = Routine
      BY <1>1, <1>2, <2>2 DEF MainKeeps, Routine
    <3> QED BY <1>3, <1>4, <1>5, <2>1, <3>1
  <2>3. CASE InRoutine
    <3>1. /\ systemState'[TIMER] = systemState[TIMER] /\ Routine' = Routine
          /\ \/ NextPC' \in NextPC + 1 .. Routine + RoutineLen - 1
             \/ NextPC' < Routine
      BY <1>1, <1>2, <1>3, <2>3 DEF RoutineKeeps, Routine
    <3>2. systemState[TIMER] >= Routine + RoutineLen - NextPC
      BY <1>1, <2>3 DEF Paced, Left
    <3>3. PICK next \in Int : NextPC' = next
      BY <1>5
    <3>4. PICK left \in Int : Left' = left /\ left = Routine + RoutineLen - next
      BY <1>4, <1>5, <3>1, <3>3
    <3>5. next \in NextPC + 1 .. Routine + RoutineLen - 1
      BY <1>4, <1>5, <2>1, <3>1, <3>3
    <3>6. left >= 1 /\ systemState[TIMER] >= left + 1
      BY <1>4, <3>2, <3>4, <3>5
    <3> QED BY <3>1, <3>4, <3>6
  <2> QED BY <2>2, <2>3
<1>7. irqs' \subseteq {TimerIrq}
  BY <1>1 DEF Paced
<1> QED BY <1>1, <1>2, <1>6, <1>7 DEF Paced

LEMMA PacedStep == IInv /\ Cooperate /\ Paced /\ [Next]_vars => Paced'
<1> SUFFICES ASSUME IInv, Cooperate, Paced, [Next]_vars PROVE Paced'
  OBVIOUS
<1>1. CASE Stop \/ UNCHANGED vars
  <2>1. /\ registers' = registers /\ systemState' = systemState /\ irqs' = irqs
        /\ peripherals' = peripherals
        /\ phase' \in {"execute", "executeError"} <=> phase \in {"execute", "executeError"}
        /\ phase' = "devices" <=> phase = "devices"
        /\ phase' = "fetch" => phase = "fetch"
    BY <1>1 DEF Stop, vars, cfg
  <2>2. InRoutine' = InRoutine /\ Left' = Left
    BY <2>1 DEF InRoutine, Left, NextPC, Routine
  <2> QED BY <2>1, <2>2 DEF Paced
<1> QED BY <1>1, DevicesPaced, FetchPaced, ExecutePaced DEF Next

\* As long as main program and routine cooperate, no request of the timer comes
\* before the routine has returned, and the processor never waits: the return
\* address in LR is never overwritten (checkIrqs).
THEOREM NoRequestInRoutine ==
  Spec /\ []Cooperate => [](phase = "fetch" /\ irqs # {} => ~InRoutine)
<1>1. Paced /\ IInv => (phase = "fetch" /\ irqs # {} => ~InRoutine)
  BY DEF Paced, InRoutine
<1> QED BY <1>1, InitPaced, PacedStep, Invariance, PTL DEF Spec

-----------------------------------------------------------------------------
(* Interrupts are invisible to a main program that cooperates *)

LEMMA MainInit == Init /\ Cooperate => Main!Init
<1> SUFFICES ASSUME Init, Cooperate PROVE Main!Init
  OBVIOUS
<1>1. PICK p \in Programs : systemState = LoadCode(p)
  BY DEF Init
<1>2. phase = "devices" /\ ncycles = 0 /\ registers = [r \in Reg |-> IF r = PC THEN CODE ELSE 0]
  BY DEF Init
<1>3. MainPC = CODE
  <2>1. ~InRoutine
    BY <1>2 DEF Cooperate
  <2>2. NextPC = CODE
    BY <1>2 DEF NextPC, PC, Reg, NREGS
  <2> QED BY <2>1, <2>2 DEF MainPC
<1>4. \A r \in Own : registers[r] = 0
  BY <1>2, MainAssumption
<1>5. [r \in Own |-> registers[r]] = [r \in Own |-> 0]
  BY <1>4
<1>6. [a \in Ram |-> systemState[a]] = [a \in Ram |-> LoadCode(p)[a]]
  BY <1>1
<1>7. [registers |-> [r \in Own |-> registers[r]], ram |-> [a \in Ram |-> systemState[a]]]
        \in MainStarts
  BY <1>5, <1>6 DEF MainStarts
<1> QED BY <1>3, <1>7, SameConstants DEF Main!Init

LEMMA DevicesHidden ==
  ASSUME IInv, RunDevices
  PROVE  UNCHANGED Main!mainVars
<1>1. /\ phase = "devices" /\ phase' = "fetch"
      /\ registers' = registers /\ peripherals' = peripherals
  BY DEF RunDevices, cfg
<1>2. \A a \in 0 .. MEMTOP - 1 : systemState'[a] = systemState[a]
  <2>1. CASE peripherals
    BY <2>1, PeripheralStep DEF RunDevices
  <2>2. CASE ~peripherals
    BY <2>2 DEF RunDevices
  <2> QED BY <2>1, <2>2
<1>3. NextPC' = NextPC /\ Routine' = Routine
  BY <1>1, <1>2, VectorInRam DEF NextPC, Routine
<1>4. MainPC' = MainPC
  BY <1>1, <1>3 DEF MainPC, InRoutine
<1>5. [a \in Ram |-> systemState'[a]] = [a \in Ram |-> systemState[a]]
  BY <1>2, MainAssumption
<1> QED BY <1>1, <1>4, <1>5 DEF Main!mainVars

LEMMA FetchHidden ==
  ASSUME IInv, Fetched, Paced, Fetch
  PROVE  UNCHANGED Main!mainVars
<1>1. /\ phase = "fetch" /\ phase' = "execute"
      /\ systemState' = systemState /\ peripherals' = peripherals
  BY FetchServes DEF Fetch, cfg
<1>2. LR \in Reg /\ LR # PC
  BY DEF LR, PC, Reg, NREGS
<1>3. /\ registers'[PC] - 1 = CheckIrqs[PC]
      /\ \A r \in Reg \ {PC} : registers'[r] = CheckIrqs[r]
  BY FetchNext
<1>4. \A r \in Own : registers'[r] = registers[r]
  BY <1>3, FetchServes, MainAssumption
<1>5. /\ NextPC' = CheckIrqs[PC] /\ NextPC = registers[PC] /\ Routine' = Routine
      /\ registers'[LR] = CheckIrqs[LR]
  BY <1>1, <1>2, <1>3 DEF NextPC, Routine
<1>6. MainPC' = MainPC
  <2>1. CASE irqs = {}
    BY <1>1, <1>5, <2>1, FetchServes DEF MainPC, InRoutine
  <2>2. CASE irqs # {}
    <3>1. ~InRoutine /\ peripherals
      BY <1>1, <2>2 DEF Paced, Fetched
    <3>2. CheckIrqs[LR] = registers[PC] /\ CheckIrqs[PC] = Routine
      BY <2>2, FetchServes
    <3>3. Routine >= Routine
      <4>1. TypeOK
        BY DEF IInv
      <4> QED BY <4>1, PacedTypes
    <3>4. InRoutine'
      BY <1>1, <1>5, <3>1, <3>2, <3>3 DEF InRoutine
    <3> QED BY <1>5, <3>1, <3>2, <3>4 DEF MainPC
  <2> QED BY <2>1, <2>2
<1> QED BY <1>1, <1>4, <1>6 DEF Main!mainVars

LEMMA RoutineHidden ==
  ASSUME IInv, Cooperate, Execute, InRoutine
  PROVE  UNCHANGED Main!mainVars
<1>1. /\ phase = "execute" /\ ~InstructionRaises /\ phase' = "devices"
      /\ registers' = After /\ systemState' = MemoryNext /\ peripherals' = peripherals
  BY DEF Execute, After, MemoryNext, cfg
<1>2. RoutineKeeps
  BY <1>1 DEF Cooperate
<1>3. /\ \A r \in Own : registers'[r] = registers[r]
      /\ \A a \in Ram : systemState'[a] = systemState[a]
      /\ Routine' = Routine
      /\ \/ registers'[PC] \in NextPC + 1 .. Routine + RoutineLen - 1
            /\ registers'[LR] = registers[LR]
         \/ registers'[PC] < Routine /\ registers'[PC] = registers[LR]
  BY <1>1, <1>2 DEF RoutineKeeps, Routine
<1>4. NextPC' = registers'[PC] /\ MainPC = registers[LR] /\ peripherals
  BY <1>1 DEF NextPC, MainPC, InRoutine
<1>5. registers'[PC] \in Int /\ Routine \in Int /\ NextPC \in Int /\ NextPC >= Routine
      /\ RoutineLen \in Nat
  <2>1. registers' \in [Reg -> Word] /\ PC \in Reg
    <3>1. IInv'
      BY ExecuteIInv
    <3> QED BY <3>1 DEF IInv, TypeOK, PC, Reg, NREGS
  <2>2. PICK top \in {STATETOP - 1, STATETOP - 2} : systemState \in [0 .. top -> Word]
    BY DEF IInv, TypeOK
  <2>3. IVT + TimerIrq \in 0 .. top
    BY <2>2, VectorInRam, Layout
  <2>4. TypeOK
    BY DEF IInv
  <2> QED BY <2>1, <2>2, <2>3, <2>4, PacedTypes, WordAssumption DEF Word, Routine, InRoutine
<1>6. MainPC' = MainPC
  <2>1. CASE registers'[PC] >= Routine
    <3>1. InRoutine' /\ registers'[LR] = registers[LR]
      BY <1>1, <1>3, <1>4, <1>5, <2>1 DEF InRoutine
    <3> QED BY <1>4, <3>1 DEF MainPC
  <2>2. CASE registers'[PC] < Routine
    <3>1. ~InRoutine' /\ registers'[PC] = registers[LR]
      BY <1>1, <1>3, <1>4, <1>5, <2>2 DEF InRoutine
    <3> QED BY <1>4, <3>1 DEF MainPC
  <2> QED BY <1>5, <2>1, <2>2
<1> QED BY <1>3, <1>6 DEF Main!mainVars

LEMMA MainExecutes ==
  ASSUME IInv, Fetched, Cooperate, Execute, ~InRoutine
  PROVE  Main!Step
<1> DEFINE op == Opcode(ir)
           args == Operands(ir)
           file == Main!RegisterFile
           memory == Main!Memory
<1>1. /\ phase = "execute" /\ ~InstructionRaises /\ phase' = "devices"
      /\ registers' = After /\ systemState' = MemoryNext /\ peripherals' = peripherals
  BY DEF Execute, After, MemoryNext, cfg
<1>2. /\ NextPC \in Ram /\ RegistersRead(op, args) \subseteq Own \cup {PC}
      /\ WordsRead(op, args) \subseteq Ram
      /\ peripherals => After[PC] < Routine /\ MemoryNext[IVT + TimerIrq] = Routine
  BY <1>1 DEF Cooperate, MainKeeps
<1>3. MainPC = registers[PC] - 1 /\ NextPC = registers[PC] - 1
      /\ ir = systemState[MainPC]
  BY <1>1 DEF MainPC, NextPC, Fetched
<1>4. TypeOK /\ PC \in Reg /\ registers[PC] \in Int
  <2>1. TypeOK
    BY DEF IInv
  <2>2. PC \in Reg
    BY DEF PC, Reg, NREGS
  <2>3. registers[PC] \in Word
    BY <2>1, <2>2 DEF TypeOK
  <2> QED BY <2>1, <2>2, <2>3, WordAssumption DEF Word
<1>5. /\ file = [r \in Reg |-> IF r \in Own THEN [q \in Own |-> registers[q]][r]
                               ELSE IF r = PC THEN MainPC + 1 ELSE 0]
      /\ memory = [a \in 0 .. STATETOP - 1 |->
                     IF a \in Ram THEN [b \in Ram |-> systemState[b]][a] ELSE 0]
  BY SameConstants DEF Main!RegisterFile, Main!Memory
<1>6. MainPC + 1 = registers[PC]
  BY <1>3, <1>4
<1>7. DOMAIN file = Reg /\ \A r \in Own \cup {PC} : file[r] = registers[r]
  <2> HIDE DEF file
  <2> QED BY <1>4, <1>5, <1>6, MainAssumption
<1>8. DOMAIN memory = 0 .. STATETOP - 1 /\ \A a \in Ram : memory[a] = systemState[a]
  <2>1. \A a \in Ram : a \in 0 .. STATETOP - 1
    BY MainAssumption, Layout
  <2> HIDE DEF memory
  <2> QED BY <1>5, <2>1
<1>9. ~Raises(op, args, registers, systemState)
  BY <1>1 DEF InstructionRaises
<1>10. op \in Int
  BY <1>4, Fields DEF TypeOK
<1> HIDE DEF op, args, file, memory
<1>11. AgreeAfter(op, args, file, memory)
  <2>1. ReadsOwn(op, args) /\ Agree(file, memory)
    BY <1>2, <1>7, <1>8 DEF ReadsOwn, Agree
  <2> QED BY <1>4, <1>9, <1>10, <2>1, Footprint
<1> DEFINE after == Main!RegistersAfter(op, args, file, memory)
           words == Main!MemoryAfter(op, args, file, memory)
<1>12. /\ ~Main!Raises(op, args, file, memory)
       /\ \A r \in Own \cup {PC} : after[r] = registers'[r]
       /\ \A a \in Ram : words[a] = systemState'[a]
  BY <1>1, <1>11, SameEffects DEF AgreeAfter, After, MemoryNext, op, args
<1> HIDE DEF after, words
<1>13. MainPC' = registers'[PC]
  <2>1. NextPC' = registers'[PC]
    BY <1>1 DEF NextPC
  <2>2. ~InRoutine'
    <3>1. CASE peripherals
      <4>1. registers'[PC] < Routine /\ Routine' = Routine
        BY <1>1, <1>2, <3>1 DEF Routine
      <4>2. registers'[PC] \in Int /\ Routine \in Int
        <5>1. registers' \in [Reg -> Word]
          <6>1. IInv'
            BY ExecuteIInv
          <6> QED BY <6>1 DEF IInv, TypeOK
        <5>2. PICK top \in {STATETOP - 1, STATETOP - 2} : systemState \in [0 .. top -> Word]
          BY DEF IInv, TypeOK
        <5>3. IVT + TimerIrq \in 0 .. top
          BY <5>2, VectorInRam, Layout
        <5> QED BY <1>4, <5>1, <5>2, <5>3, WordAssumption DEF Word, Routine
      <4> QED BY <2>1, <4>1, <4>2 DEF InRoutine
    <3>2. CASE ~peripherals
      BY <1>1, <3>2 DEF InRoutine
    <3> QED BY <3>1, <3>2
  <2> QED BY <2>1, <2>2 DEF MainPC
<1>14. [a \in Ram |-> systemState[a]][MainPC] = ir
  BY <1>2, <1>3
<1>15. /\ MainPC \in Ram
       /\ MainPC' = after[PC]
       /\ [r \in Own |-> registers'[r]] = [r \in Own |-> after[r]]
       /\ [a \in Ram |-> systemState'[a]] = [a \in Ram |-> words[a]]
  BY <1>2, <1>3, <1>12, <1>13
<1>16. /\ Main!Opcode([a \in Ram |-> systemState[a]][MainPC]) = op
       /\ Main!Operands([a \in Ram |-> systemState[a]][MainPC]) = args
  BY <1>14, SameDecoding DEF op, args
<1> QED BY <1>12, <1>15, <1>16, SameConstants DEF Main!Step, after, words, file, memory

\* Whatever the program, its interrupt service routine, the memory map and the
\* timer: as long as the two cooperate, interrupts are invisible to the main
\* program, which executes its own instructions, each once and in order.
THEOREM InterruptsInvisible == Spec /\ []Cooperate => ImplementsMain
<1>1. IInv /\ Fetched /\ Paced /\ Cooperate /\ [Next]_vars => [Main!Step]_(Main!mainVars)
  <2> SUFFICES ASSUME IInv, Fetched, Paced, Cooperate, [Next]_vars
               PROVE  Main!Step \/ UNCHANGED Main!mainVars
    OBVIOUS
  <2>1. CASE RunDevices
    BY <2>1, DevicesHidden
  <2>2. CASE Fetch
    BY <2>2, FetchHidden
  <2>3. CASE Execute
    BY <2>3, RoutineHidden, MainExecutes
  <2>4. CASE Stop \/ UNCHANGED vars
    <3>1. /\ registers' = registers /\ systemState' = systemState /\ peripherals' = peripherals
          /\ phase' \in {"execute", "executeError"} <=> phase \in {"execute", "executeError"}
      BY <2>4 DEF Stop, vars, cfg
    <3> QED BY <3>1 DEF Main!mainVars, MainPC, InRoutine, NextPC, Routine
  <2> QED BY <2>1, <2>2, <2>3, <2>4 DEF Next
<1> QED BY <1>1, MainInit, FetchedInvariant, InitPaced, PacedStep, Invariance, PTL
       DEF Spec, ImplementsMain, Main!Spec

-----------------------------------------------------------------------------
(* The decoder takes apart what the encoder has put together *)

Byte == 0 .. 255

Decoded(w, op, args) == Opcode(w) = op /\ Operands(w) = args

\* The fields of a word, one next to the other
Packed(w, op, a, b) ==
  /\ w \in Nat /\ op \in Byte /\ a \in Byte /\ b \in Nat
  /\ w = op + 256 * a + 65536 * b

\* A word put together from its fields
LEMMA Packs ==
  ASSUME NEW w, NEW op \in Byte, NEW a \in Byte, NEW b \in Nat,
         w = op + 256 * a + 65536 * b
  PROVE  Packed(w, op, a, b)
BY DEF Packed, Byte

\* Division takes the fields apart again.
LEMMA FieldArithmetic ==
  ASSUME NEW op, NEW a, NEW b, NEW w, Packed(w, op, a, b)
  PROVE  w % 256 = op /\ (w \div 256) % 256 = a /\ w \div 65536 = b
<1>1. PICK q \in Nat : q = a + 256 * b
  BY DEF Packed, Byte
<1>2. w = op + 256 * q
  BY <1>1 DEF Packed, Byte
<1>3. w % 256 = op /\ w \div 256 = q
  BY <1>2 DEF Packed, Byte
<1>4. q % 256 = a
  BY <1>1 DEF Packed, Byte
<1>5. w \div 65536 = b
  BY DEF Packed, Byte
<1> QED BY <1>3, <1>4, <1>5

\* An opcode fits into its field.
LEMMA OpcodeField ==
  /\ RegAddrOps \subseteq Byte
  /\ ADD .. ASL \cup {PUSH, POP} \subseteq Byte
BY DEF RegAddrOps, LDR, STR, MOV, SET, CBZ, CBNZ, ADD, ASL, PUSH, POP, Byte

\* A third register field on top of the second.
ThreeFields(w, op, a, b, c) == w = op + 256 * a + 65536 * b + 16777216 * c

\* Two register fields are one address field.
LEMMA PacksThree ==
  ASSUME NEW w, NEW op \in Byte, NEW a \in Byte, NEW b \in Byte, NEW c \in Byte,
         ThreeFields(w, op, a, b, c)
  PROVE  \E bc \in Nat : bc = b + 256 * c /\ Packed(w, op, a, bc)
<1>1. PICK bc \in Nat : bc = b + 256 * c
  BY DEF Byte
<1>2. Packed(w, op, a, bc)
  <2>1. w = op + 256 * a + 65536 * bc
    BY <1>1 DEF Byte, ThreeFields
  <2> QED BY <2>1, Packs
<1> QED BY <1>1, <1>2

\* A register and an address
LEMMA DecodesRegAddr ==
  ASSUME NEW op \in RegAddrOps, NEW a, NEW b, NEW w, Packed(w, op, a, b)
  PROVE  Decoded(w, op, <<a, b, None>>)
<1>1. w % 256 = op /\ (w \div 256) % 256 = a /\ w \div 65536 = b
  BY FieldArithmetic
<1>2. Opcode(w) = op
  BY <1>1 DEF Opcode
<1>3. Operands(w) = DecodeRegAddrArgs(w)
  <2>1. op \notin {B, BL, BX} /\ op \notin {NOP, WFI, HLI}
    BY DEF RegAddrOps, LDR, STR, MOV, SET, CBZ, CBNZ, B, BL, BX, NOP, WFI, HLI
  <2> QED BY <1>2, <2>1, Zenon DEF Operands
<1>4. DecodeRegAddrArgs(w) = <<a, b, None>>
  BY <1>1 DEF DecodeRegAddrArgs
<1> QED BY <1>2, <1>3, <1>4 DEF Decoded

\* Three registers
LEMMA Decodes3Reg ==
  ASSUME NEW op, op \notin RegAddrOps \cup {B, BL, BX, NOP, WFI, HLI},
         NEW a, NEW b \in Byte, NEW c \in Byte,
         NEW w, NEW bc, bc = b + 256 * c, Packed(w, op, a, bc)
  PROVE  Decoded(w, op, <<a, b, c>>)
<1>1. w % 256 = op /\ (w \div 256) % 256 = a /\ w \div 65536 = bc
  BY FieldArithmetic
<1>2. (w \div 65536) % 256 = b
  BY <1>1 DEF Byte
<1>3. (w \div 16777216) % 256 = c
  <2>1. w \div 16777216 = c
    BY SMT DEF Packed, Byte
  <2> QED BY <2>1, SMT DEF Byte
<1>4. Opcode(w) = op
  BY <1>1 DEF Opcode
<1>5. Operands(w) = Decode3RegArgs(w)
  BY <1>4, Zenon DEF Operands
<1>6. Decode3RegArgs(w) = <<a, b, c>>
  BY <1>1, <1>2, <1>3 DEF Decode3RegArgs
<1> QED BY <1>4, <1>5, <1>6 DEF Decoded

\* An address only
LEMMA DecodesAddress ==
  ASSUME NEW op \in {B, BL}, NEW b \in Nat, NEW w, w = op + 256 * b
  PROVE  Decoded(w, op, <<b, None, None>>)
<1>1. op \in Byte
  BY DEF B, BL, Byte
<1>2. w % 256 = op /\ w \div 256 = b
  BY <1>1 DEF Byte
<1>3. Opcode(w) = op
  BY <1>2 DEF Opcode
<1>4. Operands(w) = DecodeAddrArg(w)
  <2>1. op \notin RegAddrOps /\ op \in {B, BL, BX} /\ op \notin {NOP, WFI, HLI}
    BY DEF RegAddrOps, LDR, STR, MOV, SET, CBZ, CBNZ, B, BL, BX, NOP, WFI, HLI
  <2> QED BY <1>3, <2>1, SMT DEF Operands
<1>5. DecodeAddrArg(w) = <<b, None, None>>
  BY <1>2 DEF DecodeAddrArg
<1> QED BY <1>3, <1>4, <1>5 DEF Decoded

\* No operand at all
LEMMA DecodesNothing ==
  ASSUME NEW op \in {NOP, WFI, HLI}
  PROVE  Decoded(op, op, <<None, None, None>>)
<1>1. Opcode(op) = op
  BY DEF NOP, WFI, HLI, Opcode
<1>2. op \notin RegAddrOps /\ op \notin {B, BL, BX}
  BY DEF RegAddrOps, LDR, STR, MOV, SET, CBZ, CBNZ, B, BL, BX, NOP, WFI, HLI
<1>3. Operands(op) = <<None, None, None>>
  BY <1>1, <1>2, Zenon DEF Operands
<1> QED BY <1>1, <1>3 DEF Decoded

-----------------------------------------------------------------------------
(* Labels *)

\* Every set of natural numbers has a least element: "less" is well-founded.
LEMMA LeastElement ==
  ASSUME NEW S, S \subseteq Nat, S # {}
  PROVE  \E x \in S : \A y \in S : x <= y
<1>1. PICK R : R = {pair \in Nat \X Nat : pair[1] < pair[2]}
  OBVIOUS
<1>2. R = OpToRel(<, Nat)
  BY <1>1 DEF OpToRel
<1>3. IsWellFoundedOn(R, Nat)
  BY <1>2, NatLessThanWellFounded, Zenon
<1>4. \A x, y \in Nat : y < x => <<y, x>> \in R
  BY <1>1
<1>5. PICK x \in S : \A y \in S : <<y, x>> \notin R
  BY <1>3, WFMin
<1>6. ASSUME NEW y \in S PROVE x <= y
  <2>1. x \in Nat /\ y \in Nat
    OBVIOUS
  <2>2. ~(y < x)
    BY <1>4, <1>5, <2>1
  <2> QED BY <2>1, <2>2
<1> QED BY <1>5, <1>6

\* The largest of some numbers of lines.
LEMMA LargestLine ==
  ASSUME NEW n \in Nat, NEW S, S \subseteq 1 .. n, S # {}
  PROVE  Max(S) \in S /\ \A y \in S : Max(S) >= y
<1> DEFINE T == {n - y : y \in S}
<1>1. T \subseteq Nat /\ T # {}
  <2>1. \A y \in S : n - y \in Nat
    <3> TAKE y \in S
    <3>1. y \in 1 .. n
      OBVIOUS
    <3> QED BY <3>1
  <2> QED BY <2>1
<1> HIDE DEF T
<1>2. PICK t \in T : \A u \in T : t <= u
  BY <1>1, LeastElement
<1>3. PICK x \in S : t = n - x
  BY DEF T
<1>4. \A y \in S : x >= y
  <2> TAKE y \in S
  <2>1. n - x <= n - y
    BY <1>2, <1>3 DEF T
  <2> QED BY <2>1
<1>5. \E z \in S : \A y \in S : z >= y
  BY <1>4
<1> QED BY <1>5, Zenon DEF Max

\* A branch the encoder accepts goes to a line at or before its own that has
\* the label.
LEMMA LabelFound ==
  ASSUME NEW p, NEW i \in Nat, NEW label, NEW k \in 1 .. i, p[k].label = label
  PROVE  /\ LabelLine(p, i, label) + 1 \in {j \in 1 .. i : p[j].label = label}
         /\ LabelLine(p, i, label) \in Nat
<1> DEFINE S == {j \in 1 .. i : p[j].label = label}
<1>1. S \subseteq 1 .. i /\ S # {}
  OBVIOUS
<1>2. Max(S) \in S
  BY <1>1, LargestLine
<1>3. LabelLine(p, i, label) = Max(S) - 1
  BY DEF LabelLine
<1>4. PICK m \in 1 .. i : m = Max(S)
  BY <1>2
<1> HIDE DEF S
<1>5. LabelLine(p, i, label) + 1 = Max(S) /\ LabelLine(p, i, label) \in Nat
  BY <1>3, <1>4
<1> QED BY <1>2, <1>5 DEF S

-----------------------------------------------------------------------------
(* The encoder *)

\* A conditional branch
LEMMA DecodesBranch ==
  ASSUME NEW p, NEW i \in Nat, ~EncodeRaises(p, i),
         NEW op \in {CBZ, CBNZ}, op = p[i].op, NEW args, args = p[i].args, args[1] \in Byte,
         NEW w, w = EncodeInstruction(p, i)
  PROVE  /\ Decoded(w, op, <<args[1], LabelLine(p, i, args[2]) + CODE, None>>)
         /\ LabelLine(p, i, args[2]) + 1 \in {j \in 1 .. i : p[j].label = args[2]}
<1>1. op \in RegAddrOps /\ op \notin {B, BL} /\ op \in {CBZ, CBNZ, ADR} /\ op # BX
  BY DEF RegAddrOps, B, BL, BX, CBZ, CBNZ, ADR
<1>2. \E k \in 1 .. i : p[k].label = args[2]
  <2>1. op # ADR /\ op \notin {MOV, SET, LDR, STR} /\ op \notin {NOP, WFI, HLI}
    BY DEF NOP, WFI, HLI, B, BL, BX, CBZ, CBNZ, ADR, MOV, SET, LDR, STR
  <2> QED BY <1>1, <2>1, Zenon DEF EncodeRaises
<1>3. /\ LabelLine(p, i, args[2]) + 1 \in {j \in 1 .. i : p[j].label = args[2]}
      /\ LabelLine(p, i, args[2]) \in Nat
  BY <1>2, LabelFound
<1>4. w = op + 256 * args[1] + 65536 * (LabelLine(p, i, args[2]) + CODE)
  BY <1>1, SMT DEF EncodeInstruction,
       ADD, ASL, PUSH, POP, NOP, WFI, HLI, B, BL, CBZ, CBNZ, ADR, MOV, SET, LDR, STR
<1>5. PICK b \in Nat : b = LabelLine(p, i, args[2]) + CODE
  BY <1>3, Layout
<1>6. PICK a \in Byte : a = args[1]
  OBVIOUS
<1>7. op \in Byte
  BY <1>1, OpcodeField
<1>8. Packed(w, op, a, b)
  BY <1>4, <1>5, <1>6, <1>7, Packs
<1>9. Decoded(w, op, <<a, b, None>>)
  BY <1>1, <1>8, DecodesRegAddr
<1> QED BY <1>3, <1>5, <1>6, <1>9

\* Whatever line the encoder accepts (encodeInstruction), with registers and
\* constants that fit into their fields, the decoder (decodeInstruction) finds
\* its opcode and operands in the word; a branch gets the address of a line
\* that has its label.
THEOREM DecoderInvertsEncoder ==
  ASSUME NEW p, NEW i \in Nat, ~EncodeRaises(p, i),
         NEW op, op = p[i].op, NEW args, args = p[i].args,
         NEW w, w = EncodeInstruction(p, i)
  PROVE  /\ op \in {MOV, SET, LDR, STR} /\ args[1] \in Byte /\ args[2] \in Nat =>
              Decoded(w, op, <<args[1], args[2], None>>)
         /\ op \in {CBZ, CBNZ} /\ args[1] \in Byte =>
              /\ Decoded(w, op, <<args[1], LabelLine(p, i, args[2]) + CODE, None>>)
              /\ LabelLine(p, i, args[2]) + 1 \in {j \in 1 .. i : p[j].label = args[2]}
         /\ op \in {B, BL} =>
              /\ Decoded(w, op, <<LabelLine(p, i, args[1]) + CODE, None, None>>)
              /\ LabelLine(p, i, args[1]) + 1 \in {j \in 1 .. i : p[j].label = args[1]}
         /\ op \in {NOP, WFI, HLI} => Decoded(w, op, <<None, None, None>>)
         /\ op \in ADD .. ASL \cup {PUSH, POP} /\ (\A k \in 1 .. 3 : args[k] \in Byte) =>
              Decoded(w, op, <<args[1], args[2], args[3]>>)
<1>1. ASSUME op \in {MOV, SET, LDR, STR}, args[1] \in Byte, args[2] \in Nat
      PROVE  Decoded(w, op, <<args[1], args[2], None>>)
  <2>1. op \in RegAddrOps /\ op \notin {B, BL} /\ op \notin {CBZ, CBNZ, ADR}
    BY <1>1 DEF RegAddrOps, MOV, SET, LDR, STR, B, BL, CBZ, CBNZ, ADR
  <2>2. w = op + 256 * args[1] + 65536 * args[2]
    BY <1>1, <2>1, SMT DEF EncodeInstruction,
         ADD, ASL, PUSH, POP, NOP, WFI, HLI, B, BL, CBZ, CBNZ, ADR, MOV, SET, LDR, STR
  <2>3. op \in Byte
    BY <2>1, OpcodeField
  <2>4. PICK a \in Byte, b \in Nat : a = args[1] /\ b = args[2]
    BY <1>1
  <2>5. Packed(w, op, a, b)
    BY <2>2, <2>3, <2>4, Packs
  <2>6. Decoded(w, op, <<a, b, None>>)
    BY <2>1, <2>5, DecodesRegAddr
  <2> QED BY <2>4, <2>6
<1>2. ASSUME op \in {CBZ, CBNZ}, args[1] \in Byte
      PROVE  /\ Decoded(w, op, <<args[1], LabelLine(p, i, args[2]) + CODE, None>>)
             /\ LabelLine(p, i, args[2]) + 1 \in {j \in 1 .. i : p[j].label = args[2]}
  <2>1. PICK branch \in {CBZ, CBNZ} : branch = op
    BY <1>2
  <2> QED BY <1>2, <2>1, DecodesBranch
<1>3. ASSUME op \in {B, BL}
      PROVE  /\ Decoded(w, op, <<LabelLine(p, i, args[1]) + CODE, None, None>>)
             /\ LabelLine(p, i, args[1]) + 1 \in {j \in 1 .. i : p[j].label = args[1]}
  <2>2. \E k \in 1 .. i : p[k].label = args[1]
    <3>1. /\ op \notin {CBZ, CBNZ} /\ op # BX /\ op # ADR
          /\ op \notin {MOV, SET, LDR, STR} /\ op \notin {NOP, WFI, HLI}
      BY <1>3 DEF NOP, WFI, HLI, B, BL, BX, CBZ, CBNZ, ADR, MOV, SET, LDR, STR
    <3> QED BY <1>3, <3>1, Zenon DEF EncodeRaises
  <2>3. /\ LabelLine(p, i, args[1]) + 1 \in {j \in 1 .. i : p[j].label = args[1]}
        /\ LabelLine(p, i, args[1]) \in Nat
    BY <2>2, LabelFound
  <2>4. w = op + 256 * (LabelLine(p, i, args[1]) + CODE)
    BY <1>3, SMT DEF EncodeInstruction,
         ADD, ASL, PUSH, POP, NOP, WFI, HLI, B, BL, CBZ, CBNZ, ADR, MOV, SET, LDR, STR
  <2>5. PICK b \in Nat : b = LabelLine(p, i, args[1]) + CODE
    BY <2>3, Layout
  <2>6. Decoded(w, op, <<b, None, None>>)
    BY <1>3, <2>4, <2>5, DecodesAddress
  <2> QED BY <2>3, <2>5, <2>6
<1>4. ASSUME op \in {NOP, WFI, HLI}
      PROVE  Decoded(w, op, <<None, None, None>>)
  <2>1. /\ op \notin {B, BL} /\ op \notin {CBZ, CBNZ, ADR} /\ op \notin {MOV, SET, LDR, STR}
    BY <1>4 DEF NOP, WFI, HLI, B, BL, CBZ, CBNZ, ADR, MOV, SET, LDR, STR
  <2>2. w = op
    BY <1>4, <2>1, SMT DEF EncodeInstruction,
         ADD, ASL, PUSH, POP, NOP, WFI, HLI, B, BL, CBZ, CBNZ, ADR, MOV, SET, LDR, STR
  <2> QED BY <1>4, <2>2, DecodesNothing
<1>5. ASSUME op \in ADD .. ASL \cup {PUSH, POP}, \A k \in 1 .. 3 : args[k] \in Byte
      PROVE  Decoded(w, op, <<args[1], args[2], args[3]>>)
  <2>1. /\ op \notin {B, BL} /\ op \notin {CBZ, CBNZ, ADR} /\ op \notin {MOV, SET, LDR, STR}
        /\ op \notin {NOP, WFI, HLI} /\ op \notin RegAddrOps \cup {B, BL, BX, NOP, WFI, HLI}
    BY <1>5 DEF ADD, ASL, PUSH, POP, NOP, WFI, HLI, B, BL, BX, CBZ, CBNZ, ADR, MOV, SET, LDR,
                STR, RegAddrOps
  <2>2. ThreeFields(w, op, args[1], args[2], args[3])
    BY <2>1, SMT DEF ThreeFields, EncodeInstruction,
         ADD, ASL, PUSH, POP, NOP, WFI, HLI, B, BL, CBZ, CBNZ, ADR, MOV, SET, LDR, STR
  <2>3. PICK a, b, c \in Byte : a = args[1] /\ b = args[2] /\ c = args[3]
    BY <1>5
  <2>4. op \in Byte
    BY <1>5, OpcodeField
  <2>5. PICK bc \in Nat : bc = b + 256 * c /\ Packed(w, op, a, bc)
    BY <2>2, <2>3, <2>4, PacksThree
  <2>6. Decoded(w, op, <<a, b, c>>)
    BY <2>1, <2>5, Decodes3Reg
  <2> QED BY <2>3, <2>6
<1> QED BY <1>1, <1>2, <1>3, <1>4, <1>5, Zenon

-----------------------------------------------------------------------------
(* The lines of the two programs *)

\* A program in memory
Coded(p, memory) ==
  /\ Len(p) <= codeSz
  /\ \A i \in 1 .. Len(p) : memory[CODE + i - 1] = EncodeInstruction(p, i)

\* A line with a register and a number
LEMMA LineRegAddr ==
  ASSUME NEW p, NEW i \in Nat, NEW op \in {MOV, SET, LDR, STR}, NEW a \in Byte, NEW b \in Nat,
         p[i] = L(op, <<a, b>>)
  PROVE  Decoded(EncodeInstruction(p, i), op, <<a, b, None>>)
<1>1. p[i].op = op /\ p[i].args = <<a, b>>
  BY DEF L
<1>2. ~EncodeRaises(p, i)
  <2>1. Len(p[i].args) = 2
    BY <1>1
  <2>2. /\ op \notin {B, BL} /\ op \notin {CBZ, CBNZ} /\ op # BX /\ op # ADR
        /\ op \notin {NOP, WFI, HLI}
    BY DEF NOP, WFI, HLI, B, BL, BX, CBZ, CBNZ, ADR, MOV, SET, LDR, STR
  <2>3. ~(Len(p[i].args) < 2)
    <3>1. ~(2 < 2)
      OBVIOUS
    <3> QED BY <2>1, <3>1, Zenon
  <2> QED BY <1>1, <2>2, <2>3, Zenon DEF EncodeRaises
<1>3. PICK args : args = <<a, b>>
  OBVIOUS
<1>4. args[1] = a /\ args[2] = b
  BY <1>3
<1>5. Decoded(EncodeInstruction(p, i), op, <<args[1], args[2], None>>)
  BY <1>1, <1>2, <1>3, <1>4, DecoderInvertsEncoder
<1> QED BY <1>4, <1>5

\* A line with three registers
LEMMA Line3Reg ==
  ASSUME NEW p, NEW i \in Nat, NEW op \in ADD .. ASL,
         NEW a \in Byte, NEW b \in Byte, NEW c \in Byte, NEW label,
         p[i] = At(label, op, <<a, b, c>>)
  PROVE  Decoded(EncodeInstruction(p, i), op, <<a, b, c>>)
<1>1. p[i].op = op /\ p[i].args = <<a, b, c>>
  BY DEF At
<1>2. ~EncodeRaises(p, i)
  <2>1. Len(p[i].args) = 3
    BY <1>1
  <2>2. /\ op \notin {B, BL} /\ op \notin {CBZ, CBNZ} /\ op # BX /\ op # ADR
        /\ op \notin {NOP, WFI, HLI} /\ op \notin {MOV, SET, LDR, STR}
    BY DEF ADD, ASL, NOP, WFI, HLI, B, BL, BX, CBZ, CBNZ, ADR, MOV, SET, LDR, STR
  <2>3. ~(Len(p[i].args) < 3)
    <3>1. ~(3 < 3)
      OBVIOUS
    <3> QED BY <2>1, <3>1, Zenon
  <2> QED BY <1>1, <2>2, <2>3, Zenon DEF EncodeRaises
<1>3. PICK args : args = <<a, b, c>>
  OBVIOUS
<1>4. args[1] = a /\ args[2] = b /\ args[3] = c
  BY <1>3
<1>5. \A k \in 1 .. 3 : args[k] \in Byte
  BY <1>4
<1>6. Decoded(EncodeInstruction(p, i), op, <<args[1], args[2], args[3]>>)
  BY <1>1, <1>2, <1>3, <1>5, DecoderInvertsEncoder
<1> QED BY <1>4, <1>6

\* A line without operands
LEMMA LineNothing ==
  ASSUME NEW p, NEW i \in Nat, NEW op \in {NOP, WFI, HLI}, p[i] = L(op, <<>>)
  PROVE  Decoded(EncodeInstruction(p, i), op, <<None, None, None>>)
<1>1. p[i].op = op
  BY DEF L
<1>2. ~EncodeRaises(p, i)
  BY <1>1, SMT DEF EncodeRaises, NOP, WFI, HLI, B, BL, BX, CBZ, CBNZ, ADR, MOV, SET, LDR, STR
<1> QED BY <1>1, <1>2, DecoderInvertsEncoder

\* A branch back to the only line that has its label
LEMMA LineBranch ==
  ASSUME NEW p, NEW i \in Nat, NEW a \in Byte, NEW label, NEW source,
         p[i] = At(source, CBNZ, <<a, label>>),
         NEW k \in 1 .. i, p[k].label = label, \A j \in 1 .. i : p[j].label = label => j = k
  PROVE  Decoded(EncodeInstruction(p, i), CBNZ, <<a, CODE + k - 1, None>>)
<1>1. p[i].op = CBNZ /\ p[i].args = <<a, label>>
  BY DEF At
<1>2. ~EncodeRaises(p, i)
  <2>1. Len(p[i].args) = 2 /\ p[i].args[2] = label
    BY <1>1
  <2>2. /\ CBNZ \in {CBZ, CBNZ} /\ CBNZ \notin {B, BL} /\ CBNZ # BX /\ CBNZ # ADR
        /\ CBNZ \notin {MOV, SET, LDR, STR} /\ CBNZ \notin {NOP, WFI, HLI}
    BY DEF NOP, WFI, HLI, B, BL, BX, CBZ, CBNZ, ADR, MOV, SET, LDR, STR
  <2>3. ~(Len(p[i].args) < 2)
    <3>1. ~(2 < 2)
      OBVIOUS
    <3> QED BY <2>1, <3>1, Zenon
  <2> QED BY <1>1, <2>1, <2>2, <2>3, Zenon DEF EncodeRaises
<1>3. PICK args : args = <<a, label>>
  OBVIOUS
<1>4. args[1] = a /\ args[2] = label /\ args = p[i].args
  BY <1>1, <1>3
<1>5. /\ Decoded(EncodeInstruction(p, i), CBNZ, <<a, LabelLine(p, i, label) + CODE, None>>)
      /\ LabelLine(p, i, label) + 1 \in {j \in 1 .. i : p[j].label = label}
  <2>1. PICK op \in {CBZ, CBNZ} : op = CBNZ /\ op = p[i].op
    BY <1>1
  <2> QED BY <1>2, <1>4, <2>1, DecodesBranch
<1>6. LabelLine(p, i, label) \in Nat
  BY LabelFound
<1>7. LabelLine(p, i, label) + CODE = CODE + k - 1
  BY <1>5, <1>6, Layout
<1> QED BY <1>5, <1>7

\* What the decoder finds where the example of load_code lies
LEMMA FibonacciLines ==
  ASSUME NEW max \in Nat, NEW memory, Coded(Fibonacci(max), memory)
  PROVE  /\ 19 <= codeSz
         /\ Decoded(memory[CODE + 0], SET, <<1, 10, None>>)
         /\ Decoded(memory[CODE + 1], SET, <<2, 10, None>>)
         /\ Decoded(memory[CODE + 2], SET, <<3, TIMER, None>>)
         /\ Decoded(memory[CODE + 3], STR, <<1, 3, None>>)
         /\ Decoded(memory[CODE + 4], SET, <<3, TIMER + 1, None>>)
         /\ Decoded(memory[CODE + 5], STR, <<2, 3, None>>)
         /\ Decoded(memory[CODE + 6], SET, <<1, 1, None>>)
         /\ Decoded(memory[CODE + 7], SET, <<2, 1, None>>)
         /\ Decoded(memory[CODE + 8], SET, <<3, 0, None>>)
         /\ Decoded(memory[CODE + 9], SET, <<4, max, None>>)
         /\ Decoded(memory[CODE + 10], SET, <<5, 1, None>>)
         /\ Decoded(memory[CODE + 11], ADD, <<3, 1, 2>>)
         /\ Decoded(memory[CODE + 12], MOV, <<1, 2, None>>)
         /\ Decoded(memory[CODE + 13], MOV, <<2, 3, None>>)
         /\ Decoded(memory[CODE + 14], SUB, <<4, 4, 5>>)
         /\ Decoded(memory[CODE + 15], STR, <<3, 4, None>>)
         /\ Decoded(memory[CODE + 16], CBNZ, <<4, CODE + 11, None>>)
         /\ Decoded(memory[CODE + 17], WFI, <<None, None, None>>)
         /\ Decoded(memory[CODE + 18], HLI, <<None, None, None>>)
<1> DEFINE p == Fibonacci(max)
<1>1. Len(p) = 19
  BY DEF Fibonacci
<1>2. /\ p[1] = L(SET, <<1, 10>>)
      /\ p[2] = L(SET, <<2, 10>>)
      /\ p[3] = L(SET, <<3, TIMER>>)
      /\ p[4] = L(STR, <<1, 3>>)
      /\ p[5] = L(SET, <<3, TIMER + 1>>)
      /\ p[6] = L(STR, <<2, 3>>)
      /\ p[7] = L(SET, <<1, 1>>)
      /\ p[8] = L(SET, <<2, 1>>)
      /\ p[9] = L(SET, <<3, 0>>)
      /\ p[10] = L(SET, <<4, max>>)
      /\ p[11] = L(SET, <<5, 1>>)
      /\ p[12] = At(1, ADD, <<3, 1, 2>>)
      /\ p[13] = L(MOV, <<1, 2>>)
      /\ p[14] = L(MOV, <<2, 3>>)
      /\ p[15] = L(SUB, <<4, 4, 5>>)
      /\ p[16] = L(STR, <<3, 4>>)
      /\ p[17] = L(CBNZ, <<4, 1>>)
      /\ p[18] = L(WFI, <<>>)
      /\ p[19] = L(HLI, <<>>)
  BY DEF Fibonacci
<1> HIDE DEF p
<1>3. 19 <= codeSz
  BY <1>1 DEF Coded, p
<1>4. \A k \in 0 .. 18 : memory[CODE + k] = EncodeInstruction(p, k + 1)
  <2> TAKE k \in 0 .. 18
  <2>1. k + 1 \in 1 .. 19 /\ CODE + (k + 1) - 1 = CODE + k
    BY Layout
  <2> QED BY <1>1, <2>1 DEF Coded, p
<1>5. /\ memory[CODE + 0] = EncodeInstruction(p, 1)
      /\ memory[CODE + 1] = EncodeInstruction(p, 2)
      /\ memory[CODE + 2] = EncodeInstruction(p, 3)
      /\ memory[CODE + 3] = EncodeInstruction(p, 4)
      /\ memory[CODE + 4] = EncodeInstruction(p, 5)
      /\ memory[CODE + 5] = EncodeInstruction(p, 6)
      /\ memory[CODE + 6] = EncodeInstruction(p, 7)
      /\ memory[CODE + 7] = EncodeInstruction(p, 8)
      /\ memory[CODE + 8] = EncodeInstruction(p, 9)
      /\ memory[CODE + 9] = EncodeInstruction(p, 10)
      /\ memory[CODE + 10] = EncodeInstruction(p, 11)
      /\ memory[CODE + 11] = EncodeInstruction(p, 12)
      /\ memory[CODE + 12] = EncodeInstruction(p, 13)
      /\ memory[CODE + 13] = EncodeInstruction(p, 14)
      /\ memory[CODE + 14] = EncodeInstruction(p, 15)
      /\ memory[CODE + 15] = EncodeInstruction(p, 16)
      /\ memory[CODE + 16] = EncodeInstruction(p, 17)
      /\ memory[CODE + 17] = EncodeInstruction(p, 18)
      /\ memory[CODE + 18] = EncodeInstruction(p, 19)
  BY <1>4
<1>6. TIMER \in Nat /\ TIMER + 1 \in Nat
  BY Layout
<1>7. 1 \in Byte /\ 2 \in Byte /\ 3 \in Byte /\ 4 \in Byte /\ 5 \in Byte
  BY DEF Byte
<1>8. /\ Decoded(EncodeInstruction(p, 1), SET, <<1, 10, None>>)
      /\ Decoded(EncodeInstruction(p, 2), SET, <<2, 10, None>>)
      /\ Decoded(EncodeInstruction(p, 3), SET, <<3, TIMER, None>>)
      /\ Decoded(EncodeInstruction(p, 4), STR, <<1, 3, None>>)
      /\ Decoded(EncodeInstruction(p, 5), SET, <<3, TIMER + 1, None>>)
      /\ Decoded(EncodeInstruction(p, 6), STR, <<2, 3, None>>)
      /\ Decoded(EncodeInstruction(p, 7), SET, <<1, 1, None>>)
      /\ Decoded(EncodeInstruction(p, 8), SET, <<2, 1, None>>)
      /\ Decoded(EncodeInstruction(p, 9), SET, <<3, 0, None>>)
      /\ Decoded(EncodeInstruction(p, 10), SET, <<4, max, None>>)
      /\ Decoded(EncodeInstruction(p, 11), SET, <<5, 1, None>>)
      /\ Decoded(EncodeInstruction(p, 13), MOV, <<1, 2, None>>)
      /\ Decoded(EncodeInstruction(p, 14), MOV, <<2, 3, None>>)
      /\ Decoded(EncodeInstruction(p, 16), STR, <<3, 4, None>>)
  BY <1>2, <1>6, <1>7, LineRegAddr, ZenonT(40)
<1>9. /\ Decoded(EncodeInstruction(p, 18), WFI, <<None, None, None>>)
      /\ Decoded(EncodeInstruction(p, 19), HLI, <<None, None, None>>)
  BY <1>2, LineNothing, Zenon
<1>10. /\ Decoded(EncodeInstruction(p, 12), ADD, <<3, 1, 2>>)
      /\ Decoded(EncodeInstruction(p, 15), SUB, <<4, 4, 5>>)
  <2>1. ADD \in ADD .. ASL /\ SUB \in ADD .. ASL
    BY DEF ADD, SUB, ASL
  <2>2. /\ p[12] = At(1, ADD, <<3, 1, 2>>)
        /\ p[15] = At(None, SUB, <<4, 4, 5>>)
    BY <1>2 DEF L, At
  <2> QED BY <1>7, <2>1, <2>2, Line3Reg, Zenon
<1>11. Decoded(EncodeInstruction(p, 17), CBNZ, <<4, CODE + 11, None>>)
  <2>1. p[17] = At(None, CBNZ, <<4, 1>>) /\ p[12].label = 1
    BY <1>2 DEF L, At
  <2>2. \A j \in 1 .. 17 : p[j].label = 1 => j = 12
    BY <1>2, NoneAssumption, SMTT(30) DEF L, At
  <2>3. PICK source : p[17] = At(source, CBNZ, <<4, 1>>)
    BY <2>1
  <2>4. PICK target \in 1 .. 17 :
          /\ CODE + target - 1 = CODE + 11 /\ p[target].label = 1
          /\ \A j \in 1 .. 17 : p[j].label = 1 => j = target
    BY <2>1, <2>2, Layout
  <2>5. Decoded(EncodeInstruction(p, 17), CBNZ, <<4, CODE + target - 1, None>>)
    BY <1>7, <2>3, <2>4, LineBranch, Zenon
  <2> QED BY <2>4, <2>5
<1> QED BY <1>3, <1>5, <1>8, <1>9, <1>10, <1>11, ZenonT(40)

\* What the decoder finds where the interrupted program and its routine lie
LEMMA InterruptedLines ==
  ASSUME NEW first \in Nat, NEW period \in Nat, NEW memory,
         Coded(Interrupted(first, period), memory)
  PROVE  /\ 25 <= codeSz
         /\ Decoded(memory[CODE + 0], SET, <<1, first, None>>)
         /\ Decoded(memory[CODE + 1], SET, <<2, period, None>>)
         /\ Decoded(memory[CODE + 2], SET, <<3, TIMER, None>>)
         /\ Decoded(memory[CODE + 3], STR, <<1, 3, None>>)
         /\ Decoded(memory[CODE + 4], SET, <<3, TIMER + 1, None>>)
         /\ Decoded(memory[CODE + 5], STR, <<2, 3, None>>)
         /\ Decoded(memory[CODE + 6], SET, <<1, 1, None>>)
         /\ Decoded(memory[CODE + 7], SET, <<2, 1, None>>)
         /\ Decoded(memory[CODE + 8], SET, <<4, IVTsz + TableSz, None>>)
         /\ Decoded(memory[CODE + 9], SET, <<6, TableSz, None>>)
         /\ Decoded(memory[CODE + 10], SET, <<5, 1, None>>)
         /\ Decoded(memory[CODE + 11], ADD, <<3, 1, 2>>)
         /\ Decoded(memory[CODE + 12], MOV, <<1, 2, None>>)
         /\ Decoded(memory[CODE + 13], MOV, <<2, 3, None>>)
         /\ Decoded(memory[CODE + 14], SUB, <<4, 4, 5>>)
         /\ Decoded(memory[CODE + 15], STR, <<3, 4, None>>)
         /\ Decoded(memory[CODE + 16], SUB, <<6, 6, 5>>)
         /\ Decoded(memory[CODE + 17], CBNZ, <<6, CODE + 11, None>>)
         /\ Decoded(memory[CODE + 18], CBNZ, <<5, CODE + 18, None>>)
         /\ Decoded(memory[CODE + 19], LDR, <<10, Calls, None>>)
         /\ Decoded(memory[CODE + 20], SET, <<11, 1, None>>)
         /\ Decoded(memory[CODE + 21], ADD, <<10, 10, 11>>)
         /\ Decoded(memory[CODE + 22], SET, <<12, Calls, None>>)
         /\ Decoded(memory[CODE + 23], STR, <<10, 12, None>>)
         /\ Decoded(memory[CODE + 24], MOV, <<PC, LR, None>>)
<1> DEFINE p == Interrupted(first, period)
<1>1. Len(p) = 25
  BY DEF Interrupted
<1>2. /\ p[1] = L(SET, <<1, first>>)
      /\ p[2] = L(SET, <<2, period>>)
      /\ p[3] = L(SET, <<3, TIMER>>)
      /\ p[4] = L(STR, <<1, 3>>)
      /\ p[5] = L(SET, <<3, TIMER + 1>>)
      /\ p[6] = L(STR, <<2, 3>>)
      /\ p[7] = L(SET, <<1, 1>>)
      /\ p[8] = L(SET, <<2, 1>>)
      /\ p[9] = L(SET, <<4, IVTsz + TableSz>>)
      /\ p[10] = L(SET, <<6, TableSz>>)
      /\ p[11] = L(SET, <<5, 1>>)
      /\ p[12] = At(1, ADD, <<3, 1, 2>>)
      /\ p[13] = L(MOV, <<1, 2>>)
      /\ p[14] = L(MOV, <<2, 3>>)
      /\ p[15] = L(SUB, <<4, 4, 5>>)
      /\ p[16] = L(STR, <<3, 4>>)
      /\ p[17] = L(SUB, <<6, 6, 5>>)
      /\ p[18] = L(CBNZ, <<6, 1>>)
      /\ p[19] = At(2, CBNZ, <<5, 2>>)
      /\ p[20] = L(LDR, <<10, Calls>>)
      /\ p[21] = L(SET, <<11, 1>>)
      /\ p[22] = L(ADD, <<10, 10, 11>>)
      /\ p[23] = L(SET, <<12, Calls>>)
      /\ p[24] = L(STR, <<10, 12>>)
      /\ p[25] = L(MOV, <<PC, LR>>)
  BY DEF Interrupted
<1> HIDE DEF p
<1>3. 25 <= codeSz
  BY <1>1 DEF Coded, p
<1>4. \A k \in 0 .. 24 : memory[CODE + k] = EncodeInstruction(p, k + 1)
  <2> TAKE k \in 0 .. 24
  <2>1. k + 1 \in 1 .. 25 /\ CODE + (k + 1) - 1 = CODE + k
    BY Layout
  <2> QED BY <1>1, <2>1 DEF Coded, p
<1>5. /\ memory[CODE + 0] = EncodeInstruction(p, 1)
      /\ memory[CODE + 1] = EncodeInstruction(p, 2)
      /\ memory[CODE + 2] = EncodeInstruction(p, 3)
      /\ memory[CODE + 3] = EncodeInstruction(p, 4)
      /\ memory[CODE + 4] = EncodeInstruction(p, 5)
      /\ memory[CODE + 5] = EncodeInstruction(p, 6)
      /\ memory[CODE + 6] = EncodeInstruction(p, 7)
      /\ memory[CODE + 7] = EncodeInstruction(p, 8)
      /\ memory[CODE + 8] = EncodeInstruction(p, 9)
      /\ memory[CODE + 9] = EncodeInstruction(p, 10)
      /\ memory[CODE + 10] = EncodeInstruction(p, 11)
      /\ memory[CODE + 11] = EncodeInstruction(p, 12)
      /\ memory[CODE + 12] = EncodeInstruction(p, 13)
      /\ memory[CODE + 13] = EncodeInstruction(p, 14)
      /\ memory[CODE + 14] = EncodeInstruction(p, 15)
      /\ memory[CODE + 15] = EncodeInstruction(p, 16)
      /\ memory[CODE + 16] = EncodeInstruction(p, 17)
      /\ memory[CODE + 17] = EncodeInstruction(p, 18)
      /\ memory[CODE + 18] = EncodeInstruction(p, 19)
      /\ memory[CODE + 19] = EncodeInstruction(p, 20)
      /\ memory[CODE + 20] = EncodeInstruction(p, 21)
      /\ memory[CODE + 21] = EncodeInstruction(p, 22)
      /\ memory[CODE + 22] = EncodeInstruction(p, 23)
      /\ memory[CODE + 23] = EncodeInstruction(p, 24)
      /\ memory[CODE + 24] = EncodeInstruction(p, 25)
  BY <1>4
<1>6. /\ TIMER \in Nat /\ TIMER + 1 \in Nat /\ TableSz \in Nat
      /\ IVTsz + TableSz \in Nat /\ Calls \in Nat
  BY Layout, TableAssumption DEF Calls
<1>7. /\ PC \in Byte /\ LR \in Byte /\ 1 \in Byte /\ 2 \in Byte
      /\ 3 \in Byte /\ 4 \in Byte /\ 5 \in Byte /\ 6 \in Byte
      /\ 10 \in Byte /\ 11 \in Byte /\ 12 \in Byte /\ LR \in Nat
  BY DEF PC, LR, Byte
<1>8. /\ Decoded(EncodeInstruction(p, 1), SET, <<1, first, None>>)
      /\ Decoded(EncodeInstruction(p, 2), SET, <<2, period, None>>)
      /\ Decoded(EncodeInstruction(p, 3), SET, <<3, TIMER, None>>)
      /\ Decoded(EncodeInstruction(p, 4), STR, <<1, 3, None>>)
      /\ Decoded(EncodeInstruction(p, 5), SET, <<3, TIMER + 1, None>>)
      /\ Decoded(EncodeInstruction(p, 6), STR, <<2, 3, None>>)
      /\ Decoded(EncodeInstruction(p, 7), SET, <<1, 1, None>>)
      /\ Decoded(EncodeInstruction(p, 8), SET, <<2, 1, None>>)
      /\ Decoded(EncodeInstruction(p, 9), SET, <<4, IVTsz + TableSz, None>>)
      /\ Decoded(EncodeInstruction(p, 10), SET, <<6, TableSz, None>>)
      /\ Decoded(EncodeInstruction(p, 11), SET, <<5, 1, None>>)
      /\ Decoded(EncodeInstruction(p, 13), MOV, <<1, 2, None>>)
      /\ Decoded(EncodeInstruction(p, 14), MOV, <<2, 3, None>>)
      /\ Decoded(EncodeInstruction(p, 16), STR, <<3, 4, None>>)
      /\ Decoded(EncodeInstruction(p, 20), LDR, <<10, Calls, None>>)
      /\ Decoded(EncodeInstruction(p, 21), SET, <<11, 1, None>>)
      /\ Decoded(EncodeInstruction(p, 23), SET, <<12, Calls, None>>)
      /\ Decoded(EncodeInstruction(p, 24), STR, <<10, 12, None>>)
      /\ Decoded(EncodeInstruction(p, 25), MOV, <<PC, LR, None>>)
  BY <1>2, <1>6, <1>7, LineRegAddr, ZenonT(40)
<1>9. /\ Decoded(EncodeInstruction(p, 12), ADD, <<3, 1, 2>>)
      /\ Decoded(EncodeInstruction(p, 15), SUB, <<4, 4, 5>>)
      /\ Decoded(EncodeInstruction(p, 17), SUB, <<6, 6, 5>>)
      /\ Decoded(EncodeInstruction(p, 22), ADD, <<10, 10, 11>>)
  <2>1. ADD \in ADD .. ASL /\ SUB \in ADD .. ASL
    BY DEF ADD, SUB, ASL
  <2>2. /\ p[12] = At(1, ADD, <<3, 1, 2>>)
        /\ p[15] = At(None, SUB, <<4, 4, 5>>)
        /\ p[17] = At(None, SUB, <<6, 6, 5>>)
        /\ p[22] = At(None, ADD, <<10, 10, 11>>)
    BY <1>2 DEF L, At
  <2> QED BY <1>7, <2>1, <2>2, Line3Reg, Zenon
<1>10. Decoded(EncodeInstruction(p, 18), CBNZ, <<6, CODE + 11, None>>)
  <2>1. p[18] = At(None, CBNZ, <<6, 1>>) /\ p[12].label = 1
    BY <1>2 DEF L, At
  <2>2. \A j \in 1 .. 18 : p[j].label = 1 => j = 12
    BY <1>2, NoneAssumption, SMTT(30) DEF L, At
  <2>3. PICK source : p[18] = At(source, CBNZ, <<6, 1>>)
    BY <2>1
  <2>4. PICK target \in 1 .. 18 :
          /\ CODE + target - 1 = CODE + 11 /\ p[target].label = 1
          /\ \A j \in 1 .. 18 : p[j].label = 1 => j = target
    BY <2>1, <2>2, Layout
  <2>5. Decoded(EncodeInstruction(p, 18), CBNZ, <<6, CODE + target - 1, None>>)
    BY <1>7, <2>3, <2>4, LineBranch, Zenon
  <2> QED BY <2>4, <2>5
<1>11. Decoded(EncodeInstruction(p, 19), CBNZ, <<5, CODE + 18, None>>)
  <2>1. p[19] = At(2, CBNZ, <<5, 2>>) /\ p[19].label = 2
    BY <1>2 DEF L, At
  <2>2. \A j \in 1 .. 19 : p[j].label = 2 => j = 19
    BY <1>2, NoneAssumption, SMTT(30) DEF L, At
  <2>3. PICK source : p[19] = At(source, CBNZ, <<5, 2>>)
    BY <2>1
  <2>4. PICK target \in 1 .. 19 :
          /\ CODE + target - 1 = CODE + 18 /\ p[target].label = 2
          /\ \A j \in 1 .. 19 : p[j].label = 2 => j = target
    BY <2>1, <2>2, Layout
  <2>5. Decoded(EncodeInstruction(p, 19), CBNZ, <<5, CODE + target - 1, None>>)
    BY <1>7, <2>3, <2>4, LineBranch, Zenon
  <2> QED BY <2>4, <2>5
<1> QED BY <1>3, <1>5, <1>8, <1>9, <1>10, <1>11, ZenonT(40)

-----------------------------------------------------------------------------
(* What an instruction does *)

\* The word w takes the registers and the memory to new ones, and reads these
\* registers and words of memory.
Effect(w, file, memory, newFile, newMemory, reads, words) ==
  /\ RegistersAfter(Opcode(w), Operands(w), file, memory) = newFile
  /\ MemoryAfter(Opcode(w), Operands(w), file, memory) = newMemory
  /\ RegistersRead(Opcode(w), Operands(w)) = reads
  /\ WordsRead(Opcode(w), Operands(w)) = words

\* The two operations of the ALU that the programs use
LEMMA AddsAndSubtracts ==
  ASSUME NEW op, NEW x, NEW y
  PROVE  /\ op = ADD => Alu(op, x, y) = (x + y) % W
         /\ op = SUB => Alu(op, x, y) = (x - y) % W
BY SMT DEF Alu, ADD, SUB, MUL, DIV, AND, ORR, EOR, ASR, ASL

\* The instructions that the programs use
LEMMA Effects ==
  ASSUME NEW w, NEW a, NEW b, NEW c, NEW file, NEW memory
  PROVE  /\ Decoded(w, SET, <<a, b, None>>) =>
              Effect(w, file, memory, [file EXCEPT ![a] = b], memory, {}, {})
         /\ Decoded(w, STR, <<a, b, None>>) =>
              Effect(w, file, memory, file, [memory EXCEPT ![file[b]] = file[a]], {a, b}, {})
         /\ Decoded(w, LDR, <<a, b, None>>) =>
              Effect(w, file, memory, [file EXCEPT ![a] = memory[b]], memory, {}, {b})
         /\ Decoded(w, MOV, <<a, b, None>>) =>
              Effect(w, file, memory, [file EXCEPT ![a] = file[b]], memory, {b}, {})
         /\ Decoded(w, ADD, <<a, b, c>>) =>
              Effect(w, file, memory, [file EXCEPT ![a] = (file[b] + file[c]) % W], memory,
                     {b, c}, {})
         /\ Decoded(w, SUB, <<a, b, c>>) =>
              Effect(w, file, memory, [file EXCEPT ![a] = (file[b] - file[c]) % W], memory,
                     {b, c}, {})
         /\ Decoded(w, CBNZ, <<a, b, None>>) =>
              Effect(w, file, memory,
                     IF file[a] # 0 THEN [file EXCEPT ![PC] = b] ELSE file, memory, {a}, {})
         /\ Decoded(w, WFI, <<None, None, None>>) \/ Decoded(w, HLI, <<None, None, None>>) =>
              Effect(w, file, memory, file, memory, {}, {})
<1> USE DEF ADD, SUB, MUL, DIV, LDR, STR, BL, BX, PUSH, POP, MOV, SET, NOP, CBZ, CBNZ, B, WFI, HLI
<1> USE DEF Effect, Decoded, RegistersAfter, MemoryAfter, RegistersRead, WordsRead
<1>1. Decoded(w, SET, <<a, b, None>>) =>
        Effect(w, file, memory, [file EXCEPT ![a] = b], memory, {}, {})
  BY SMT
<1>2. Decoded(w, STR, <<a, b, None>>) =>
        Effect(w, file, memory, file, [memory EXCEPT ![file[b]] = file[a]], {a, b}, {})
  BY SMT
<1>3. Decoded(w, LDR, <<a, b, None>>) =>
        Effect(w, file, memory, [file EXCEPT ![a] = memory[b]], memory, {}, {b})
  BY SMT
<1>4. Decoded(w, MOV, <<a, b, None>>) =>
        Effect(w, file, memory, [file EXCEPT ![a] = file[b]], memory, {b}, {})
  BY SMT
<1>5. Decoded(w, ADD, <<a, b, c>>) =>
        Effect(w, file, memory, [file EXCEPT ![a] = (file[b] + file[c]) % W], memory, {b, c}, {})
  <2> SUFFICES ASSUME Opcode(w) = ADD, Operands(w) = <<a, b, c>>
               PROVE  Effect(w, file, memory, [file EXCEPT ![a] = (file[b] + file[c]) % W],
                             memory, {b, c}, {})
    OBVIOUS
  <2>1. Alu(Opcode(w), file[b], file[c]) = (file[b] + file[c]) % W
    BY AddsAndSubtracts
  <2>2. RegistersAfter(Opcode(w), Operands(w), file, memory)
          = [file EXCEPT ![a] = Alu(Opcode(w), file[b], file[c])]
    BY SMT
  <2>3. /\ MemoryAfter(Opcode(w), Operands(w), file, memory) = memory
        /\ RegistersRead(Opcode(w), Operands(w)) = {b, c}
        /\ WordsRead(Opcode(w), Operands(w)) = {}
    BY SMT
  <2> HIDE DEF RegistersAfter, MemoryAfter, RegistersRead, WordsRead
  <2> QED BY <2>1, <2>2, <2>3
<1>6. Decoded(w, SUB, <<a, b, c>>) =>
        Effect(w, file, memory, [file EXCEPT ![a] = (file[b] - file[c]) % W], memory, {b, c}, {})
  <2> SUFFICES ASSUME Opcode(w) = SUB, Operands(w) = <<a, b, c>>
               PROVE  Effect(w, file, memory, [file EXCEPT ![a] = (file[b] - file[c]) % W],
                             memory, {b, c}, {})
    OBVIOUS
  <2>1. Alu(Opcode(w), file[b], file[c]) = (file[b] - file[c]) % W
    BY AddsAndSubtracts
  <2>2. RegistersAfter(Opcode(w), Operands(w), file, memory)
          = [file EXCEPT ![a] = Alu(Opcode(w), file[b], file[c])]
    BY SMT
  <2>3. /\ MemoryAfter(Opcode(w), Operands(w), file, memory) = memory
        /\ RegistersRead(Opcode(w), Operands(w)) = {b, c}
        /\ WordsRead(Opcode(w), Operands(w)) = {}
    BY SMT
  <2> HIDE DEF RegistersAfter, MemoryAfter, RegistersRead, WordsRead
  <2> QED BY <2>1, <2>2, <2>3
<1>7. Decoded(w, CBNZ, <<a, b, None>>) =>
        Effect(w, file, memory,
               IF file[a] # 0 THEN [file EXCEPT ![PC] = b] ELSE file, memory, {a}, {})
  BY SMT
<1>8. Decoded(w, WFI, <<None, None, None>>) \/ Decoded(w, HLI, <<None, None, None>>) =>
        Effect(w, file, memory, file, memory, {}, {})
  BY SMT
<1> HIDE DEF Effect, Decoded
<1> QED BY <1>1, <1>2, <1>3, <1>4, <1>5, <1>6, <1>7, <1>8

-----------------------------------------------------------------------------
(* The example of load_code *)

\* The word of the table at k: behind its end are the two numbers that the
\* loop starts with.  From first on each word is the sum of the two behind it.
Behind(max, memory, k) == IF k < max THEN memory[k] ELSE 1
TableIn(first, max, memory) ==
  \A k \in first .. max - 1 :
    memory[k] = (Behind(max, memory, k + 1) + Behind(max, memory, k + 2)) % W

\* What is known in front of line at: R4 is the next word to write, R1 and R2
\* are the two behind it, R3 is their sum.
FibKnown(max, at, file, memory) ==
  LET n == file[4]
      word(k) == Behind(max, memory, k)
      sum == (word(n) + word(n + 1)) % W
  IN  /\ at \in 0 .. codeSz
      /\ at \in 1 .. 5 => file[1] = 10
      /\ at = 3 => file[3] = TIMER
      /\ at = 5 => file[3] = TIMER + 1
      /\ at >= 4 => memory[TIMER] = 10
      /\ at \in 7 .. 10 => file[1] = 1
      /\ at \in 8 .. 10 => file[2] = 1
      /\ at = 10 => n = max
      /\ at \in 11 .. 16 => file[5] = 1
      /\ at \in 11 .. 14 => n \in 1 .. max /\ TableIn(n, max, memory)
      /\ at \in {15, 16} => n \in 0 .. max - 1
      /\ at \in {11, 15, 16} => file[1] = word(n + 1)
      /\ at \in {11, 12, 16} => file[2] = word(n)
      /\ at \in {12, 13, 14} => file[3] = sum
      /\ at \in {13, 14} => file[1] = word(n)
      /\ at = 14 => file[2] = sum
      /\ at = 15 => /\ TableIn(n + 1, max, memory)
                    /\ file[3] = (word(n + 1) + word(n + 2)) % W /\ file[2] = file[3]
      /\ at = 16 => TableIn(n, max, memory)
      /\ at >= 17 => TableIn(0, max, memory)

\* In front of line at, the word there is about to be executed.
FibAt(max, at, file, memory) ==
  /\ file \in [Reg -> Word]
  /\ memory \in [0 .. STATETOP - 1 -> Word] \cup [0 .. STATETOP - 2 -> Word]
  /\ at \in 0 .. codeSz - 1 /\ file[PC] = CODE + at + 1
  /\ Coded(Fibonacci(max), memory)
  /\ \A a \in CODE + 19 .. MEMTOP - 1 : memory[a] = 0
  /\ FibKnown(max, at, file, memory)

\* It leads to line next, reads registers of the program only and leaves the
\* code alone.
FibLeads(max, next, file, memory, newFile, newMemory, reads, words) ==
  /\ FibKnown(max, next, newFile, newMemory)
  /\ newFile[PC] = CODE + next /\ newFile[SCR] = file[SCR]
  /\ \A a \in CODE .. MEMTOP - 1 : newMemory[a] = memory[a]
  /\ reads \subseteq 0 .. 5 /\ words = {}

\* Words are their own remainders
LEMMA Modulo == \A n \in Word : n % W = n
BY WordAssumption DEF Word

\* A word that nothing was loaded to
LEMMA DecodesZero == Decoded(0, ADD, <<0, 0, 0>>)
<1>1. ADD \notin RegAddrOps \cup {B, BL, BX, NOP, WFI, HLI} /\ ADD = 0
  BY DEF ADD, RegAddrOps, LDR, STR, MOV, SET, CBZ, CBNZ, B, BL, BX, NOP, WFI, HLI
<1>2. Packed(0, 0, 0, 0)
  BY DEF Packed, Byte
<1>3. PICK zero \in Byte : zero = 0
  BY DEF Byte
<1>4. Decoded(zero, ADD, <<zero, zero, zero>>)
  <2>1. zero = zero + 256 * zero
    BY <1>3
  <2>2. Packed(zero, ADD, zero, zero)
    BY <1>1, <1>2, <1>3
  <2> QED BY <1>1, <2>1, <2>2, Decodes3Reg
<1> QED BY <1>3, <1>4

\* What the lines of the example do
LEMMA FibonacciEffects ==
  ASSUME NEW max \in Nat, NEW file, NEW memory, Coded(Fibonacci(max), memory)
  PROVE  /\ Effect(memory[CODE + 0], file, memory, [file EXCEPT ![1] = 10], memory, {}, {})
         /\ Effect(memory[CODE + 1], file, memory, [file EXCEPT ![2] = 10], memory, {}, {})
         /\ Effect(memory[CODE + 2], file, memory, [file EXCEPT ![3] = TIMER], memory, {}, {})
         /\ Effect(memory[CODE + 3], file, memory, file, [memory EXCEPT ![file[3]] = file[1]],
                   {1, 3}, {})
         /\ Effect(memory[CODE + 4], file, memory, [file EXCEPT ![3] = TIMER + 1], memory, {}, {})
         /\ Effect(memory[CODE + 5], file, memory, file, [memory EXCEPT ![file[3]] = file[2]],
                   {2, 3}, {})
         /\ Effect(memory[CODE + 6], file, memory, [file EXCEPT ![1] = 1], memory, {}, {})
         /\ Effect(memory[CODE + 7], file, memory, [file EXCEPT ![2] = 1], memory, {}, {})
         /\ Effect(memory[CODE + 8], file, memory, [file EXCEPT ![3] = 0], memory, {}, {})
         /\ Effect(memory[CODE + 9], file, memory, [file EXCEPT ![4] = max], memory, {}, {})
         /\ Effect(memory[CODE + 10], file, memory, [file EXCEPT ![5] = 1], memory, {}, {})
         /\ Effect(memory[CODE + 11], file, memory, [file EXCEPT ![3] = (file[1] + file[2]) % W],
                   memory, {1, 2}, {})
         /\ Effect(memory[CODE + 12], file, memory, [file EXCEPT ![1] = file[2]], memory, {2}, {})
         /\ Effect(memory[CODE + 13], file, memory, [file EXCEPT ![2] = file[3]], memory, {3}, {})
         /\ Effect(memory[CODE + 14], file, memory, [file EXCEPT ![4] = (file[4] - file[5]) % W],
                   memory, {4, 5}, {})
         /\ Effect(memory[CODE + 15], file, memory, file, [memory EXCEPT ![file[4]] = file[3]],
                   {3, 4}, {})
         /\ Effect(memory[CODE + 16], file, memory,
                   IF file[4] # 0 THEN [file EXCEPT ![PC] = CODE + 11] ELSE file, memory, {4}, {})
         /\ Effect(memory[CODE + 17], file, memory, file, memory, {}, {})
         /\ Effect(memory[CODE + 18], file, memory, file, memory, {}, {})
BY FibonacciLines, Effects, ZenonT(40)

\* Each line of the program leads to the next, or back to the head of the loop.
LEMMA FibonacciStep ==
  ASSUME NEW max \in 1 .. CODE, NEW file, NEW memory, NEW at, FibAt(max, at, file, memory),
         NEW newFile, NEW newMemory, NEW reads, NEW words,
         Effect(memory[CODE + at], file, memory, newFile, newMemory, reads, words)
  PROVE  \E next : FibLeads(max, next, file, memory, newFile, newMemory, reads, words)
<1>1. /\ max \in Nat /\ CODE \in Nat /\ W \in Nat /\ CODE < W /\ codeSz \in Nat
      /\ DOMAIN file = Reg /\ at + 1 \in 0 .. codeSz
      /\ PC \in Reg /\ SCR \in Reg /\ SCR # PC
      /\ \A r \in 0 .. 12 : r \in Reg /\ file[r] \in Word
      /\ 1 \in 0 .. 12 /\ 2 \in 0 .. 12 /\ 3 \in 0 .. 12 /\ 4 \in 0 .. 12 /\ 5 \in 0 .. 12
  BY Layout, WordAssumption DEF FibAt, PC, SCR, Reg, NREGS
<1>2. Coded(Fibonacci(max), memory) /\ 19 <= codeSz
  BY <1>1, FibonacciLines DEF FibAt
<1>3. /\ memory \in [0 .. STATETOP - 1 -> Word] \cup [0 .. STATETOP - 2 -> Word]
      /\ FibKnown(max, at, file, memory) /\ file[PC] = CODE + at + 1
      /\ \A a \in CODE + 19 .. MEMTOP - 1 : memory[a] = 0
  BY DEF FibAt
<1>pc. file[PC] = CODE + at + 1 /\ CODE \in Int
  BY <1>1, <1>3
<1>known. FibKnown(max, at, file, memory) /\ codeSz \in Nat /\ 19 <= codeSz
  BY <1>1, <1>2, <1>3
<1>4. CASE at = 0
  <2>1. /\ newFile = [file EXCEPT ![1] = 10] /\ newMemory = memory
        /\ reads = {} /\ words = {}
    <3>1. Effect(memory[CODE + 0], file, memory, [file EXCEPT ![1] = 10], memory, {}, {})
      BY <1>1, <1>2, FibonacciEffects, Zenon
    <3> QED BY <1>4, <3>1 DEF Effect
  <2>2. /\ newFile[1] = 10 /\ \A r \in 0 .. 12 \ {1} : newFile[r] = file[r]
        /\ newFile[PC] = file[PC] /\ newFile[SCR] = file[SCR]
    BY <1>1, <2>1 DEF PC, SCR
  <2>3. FibKnown(max, 1, newFile, newMemory)
    BY <1>known, <1>4, <2>1, <2>2 DEF FibKnown
  <2> QED BY <1>pc, <1>4, <2>1, <2>2, <2>3 DEF FibLeads
<1>5. CASE at = 1
  <2>1. /\ newFile = [file EXCEPT ![2] = 10] /\ newMemory = memory
        /\ reads = {} /\ words = {}
    <3>1. Effect(memory[CODE + 1], file, memory, [file EXCEPT ![2] = 10], memory, {}, {})
      BY <1>1, <1>2, FibonacciEffects, Zenon
    <3> QED BY <1>5, <3>1 DEF Effect
  <2>2. /\ newFile[2] = 10 /\ \A r \in 0 .. 12 \ {2} : newFile[r] = file[r]
        /\ newFile[PC] = file[PC] /\ newFile[SCR] = file[SCR]
    BY <1>1, <2>1 DEF PC, SCR
  <2>3. FibKnown(max, 2, newFile, newMemory)
    BY <1>known, <1>5, <2>1, <2>2 DEF FibKnown
  <2> QED BY <1>pc, <1>5, <2>1, <2>2, <2>3 DEF FibLeads
<1>6. CASE at = 2
  <2>1. /\ newFile = [file EXCEPT ![3] = TIMER] /\ newMemory = memory
        /\ reads = {} /\ words = {}
    <3>1. Effect(memory[CODE + 2], file, memory, [file EXCEPT ![3] = TIMER], memory, {}, {})
      BY <1>1, <1>2, FibonacciEffects, Zenon
    <3> QED BY <1>6, <3>1 DEF Effect
  <2>2. /\ newFile[3] = TIMER /\ \A r \in 0 .. 12 \ {3} : newFile[r] = file[r]
        /\ newFile[PC] = file[PC] /\ newFile[SCR] = file[SCR]
    BY <1>1, <2>1 DEF PC, SCR
  <2>3. FibKnown(max, 3, newFile, newMemory)
    BY <1>known, <1>6, <2>1, <2>2 DEF FibKnown
  <2> QED BY <1>pc, <1>6, <2>1, <2>2, <2>3 DEF FibLeads
<1>7. CASE at = 3
  <2>1. /\ newFile = file /\ newMemory = [memory EXCEPT ![file[3]] = file[1]]
        /\ reads = {1, 3} /\ words = {}
    <3>1. Effect(memory[CODE + 3], file, memory,
                 file, [memory EXCEPT ![file[3]] = file[1]], {1, 3}, {})
      BY <1>1, <1>2, FibonacciEffects, Zenon
    <3> QED BY <1>7, <3>1 DEF Effect
  <2>2. file[3] = TIMER /\ file[1] = 10
    BY <1>3, <1>7 DEF FibKnown
  <2>3. /\ newMemory[TIMER] = 10
        /\ \A a \in CODE .. MEMTOP - 1 : newMemory[a] = memory[a]
    BY <1>3, <2>1, <2>2, Layout
  <2>4. FibKnown(max, 4, newFile, newMemory)
    BY <1>1, <1>2, <1>7, <2>1, <2>2, <2>3 DEF FibKnown
  <2> QED BY <1>pc, <1>7, <2>1, <2>3, <2>4 DEF FibLeads
<1>8. CASE at = 4
  <2>1. /\ newFile = [file EXCEPT ![3] = TIMER + 1] /\ newMemory = memory
        /\ reads = {} /\ words = {}
    <3>1. Effect(memory[CODE + 4], file, memory, [file EXCEPT ![3] = TIMER + 1], memory, {}, {})
      BY <1>1, <1>2, FibonacciEffects, Zenon
    <3> QED BY <1>8, <3>1 DEF Effect
  <2>2. /\ newFile[3] = TIMER + 1 /\ \A r \in 0 .. 12 \ {3} : newFile[r] = file[r]
        /\ newFile[PC] = file[PC] /\ newFile[SCR] = file[SCR]
    BY <1>1, <2>1 DEF PC, SCR
  <2>3. FibKnown(max, 5, newFile, newMemory)
    BY <1>known, <1>8, <2>1, <2>2 DEF FibKnown
  <2> QED BY <1>pc, <1>8, <2>1, <2>2, <2>3 DEF FibLeads
<1>9. CASE at = 5
  <2>1. /\ newFile = file /\ newMemory = [memory EXCEPT ![file[3]] = file[2]]
        /\ reads = {2, 3} /\ words = {}
    <3>1. Effect(memory[CODE + 5], file, memory,
                 file, [memory EXCEPT ![file[3]] = file[2]], {2, 3}, {})
      BY <1>1, <1>2, FibonacciEffects, Zenon
    <3> QED BY <1>9, <3>1 DEF Effect
  <2>2. file[3] = TIMER + 1 /\ memory[TIMER] = 10
    BY <1>3, <1>9 DEF FibKnown
  <2>3. /\ newMemory[TIMER] = 10
        /\ \A a \in CODE .. MEMTOP - 1 : newMemory[a] = memory[a]
    BY <1>3, <2>1, <2>2, Layout
  <2>4. FibKnown(max, 6, newFile, newMemory)
    BY <1>1, <1>2, <1>9, <2>1, <2>3 DEF FibKnown
  <2> QED BY <1>pc, <1>9, <2>1, <2>3, <2>4 DEF FibLeads
<1>10. CASE at = 6
  <2>1. /\ newFile = [file EXCEPT ![1] = 1] /\ newMemory = memory
        /\ reads = {} /\ words = {}
    <3>1. Effect(memory[CODE + 6], file, memory, [file EXCEPT ![1] = 1], memory, {}, {})
      BY <1>1, <1>2, FibonacciEffects, Zenon
    <3> QED BY <1>10, <3>1 DEF Effect
  <2>2. /\ newFile[1] = 1 /\ \A r \in 0 .. 12 \ {1} : newFile[r] = file[r]
        /\ newFile[PC] = file[PC] /\ newFile[SCR] = file[SCR]
    BY <1>1, <2>1 DEF PC, SCR
  <2>3. FibKnown(max, 7, newFile, newMemory)
    BY <1>known, <1>10, <2>1, <2>2 DEF FibKnown
  <2> QED BY <1>pc, <1>10, <2>1, <2>2, <2>3 DEF FibLeads
<1>11. CASE at = 7
  <2>1. /\ newFile = [file EXCEPT ![2] = 1] /\ newMemory = memory
        /\ reads = {} /\ words = {}
    <3>1. Effect(memory[CODE + 7], file, memory, [file EXCEPT ![2] = 1], memory, {}, {})
      BY <1>1, <1>2, FibonacciEffects, Zenon
    <3> QED BY <1>11, <3>1 DEF Effect
  <2>2. /\ newFile[2] = 1 /\ \A r \in 0 .. 12 \ {2} : newFile[r] = file[r]
        /\ newFile[PC] = file[PC] /\ newFile[SCR] = file[SCR]
    BY <1>1, <2>1 DEF PC, SCR
  <2>3. FibKnown(max, 8, newFile, newMemory)
    BY <1>known, <1>11, <2>1, <2>2 DEF FibKnown
  <2> QED BY <1>pc, <1>11, <2>1, <2>2, <2>3 DEF FibLeads
<1>12. CASE at = 8
  <2>1. /\ newFile = [file EXCEPT ![3] = 0] /\ newMemory = memory
        /\ reads = {} /\ words = {}
    <3>1. Effect(memory[CODE + 8], file, memory, [file EXCEPT ![3] = 0], memory, {}, {})
      BY <1>1, <1>2, FibonacciEffects, Zenon
    <3> QED BY <1>12, <3>1 DEF Effect
  <2>2. /\ newFile[3] = 0 /\ \A r \in 0 .. 12 \ {3} : newFile[r] = file[r]
        /\ newFile[PC] = file[PC] /\ newFile[SCR] = file[SCR]
    BY <1>1, <2>1 DEF PC, SCR
  <2>3. FibKnown(max, 9, newFile, newMemory)
    BY <1>known, <1>12, <2>1, <2>2 DEF FibKnown
  <2> QED BY <1>pc, <1>12, <2>1, <2>2, <2>3 DEF FibLeads
<1>13. CASE at = 9
  <2>1. /\ newFile = [file EXCEPT ![4] = max] /\ newMemory = memory
        /\ reads = {} /\ words = {}
    <3>1. Effect(memory[CODE + 9], file, memory, [file EXCEPT ![4] = max], memory, {}, {})
      BY <1>1, <1>2, FibonacciEffects, Zenon
    <3> QED BY <1>13, <3>1 DEF Effect
  <2>2. /\ newFile[4] = max /\ \A r \in 0 .. 12 \ {4} : newFile[r] = file[r]
        /\ newFile[PC] = file[PC] /\ newFile[SCR] = file[SCR]
    BY <1>1, <2>1 DEF PC, SCR
  <2>3. FibKnown(max, 10, newFile, newMemory)
    BY <1>known, <1>13, <2>1, <2>2 DEF FibKnown
  <2> QED BY <1>pc, <1>13, <2>1, <2>2, <2>3 DEF FibLeads
<1>14. CASE at = 10
  <2>1. /\ newFile = [file EXCEPT ![5] = 1] /\ newMemory = memory
        /\ reads = {} /\ words = {}
    <3>1. Effect(memory[CODE + 10], file, memory, [file EXCEPT ![5] = 1], memory, {}, {})
      BY <1>1, <1>2, FibonacciEffects, Zenon
    <3> QED BY <1>14, <3>1 DEF Effect
  <2>2. /\ newFile[5] = 1 /\ \A r \in 0 .. 12 \ {5} : newFile[r] = file[r]
        /\ newFile[PC] = file[PC] /\ newFile[SCR] = file[SCR]
    BY <1>1, <2>1 DEF PC, SCR
  <2>3. FibKnown(max, 11, newFile, newMemory)
    <3>1. file[4] = max /\ file[1] = 1 /\ file[2] = 1 /\ memory[TIMER] = 10
      BY <1>3, <1>14 DEF FibKnown
    <3>2. Behind(max, memory, max) = 1 /\ Behind(max, memory, max + 1) = 1
      BY DEF Behind
    <3>3. TableIn(max, max, memory)
      BY DEF TableIn
    <3>4. /\ newFile[4] = max /\ newFile[4] \in 1 .. max /\ newFile[5] = 1
          /\ newFile[1] = 1 /\ newFile[2] = 1
      BY <2>2, <3>1
    <3>5. /\ newFile[1] = Behind(max, newMemory, newFile[4] + 1)
          /\ newFile[2] = Behind(max, newMemory, newFile[4])
          /\ TableIn(newFile[4], max, newMemory)
      BY <2>1, <3>2, <3>3, <3>4
    <3> QED BY <1>1, <1>2, <2>1, <3>1, <3>4, <3>5 DEF FibKnown
  <2> QED BY <1>pc, <1>14, <2>1, <2>2, <2>3 DEF FibLeads
<1>15. CASE at = 11
  <2>1. /\ newFile = [file EXCEPT ![3] = (file[1] + file[2]) % W] /\ newMemory = memory
        /\ reads = {1, 2} /\ words = {}
    <3>1. Effect(memory[CODE + 11], file, memory,
                 [file EXCEPT ![3] = (file[1] + file[2]) % W], memory, {1, 2}, {})
      BY <1>1, <1>2, FibonacciEffects, Zenon
    <3> QED BY <1>15, <3>1 DEF Effect
  <2>2. /\ newFile[3] = (file[1] + file[2]) % W /\ \A r \in 0 .. 12 \ {3} : newFile[r] = file[r]
        /\ newFile[PC] = file[PC] /\ newFile[SCR] = file[SCR]
    BY <1>1, <2>1 DEF PC, SCR
  <2>3. FibKnown(max, 12, newFile, newMemory)
    <3>1. PICK x \in Int, y \in Int :
            /\ x = Behind(max, memory, file[4] + 1) /\ file[1] = x
            /\ y = Behind(max, memory, file[4]) /\ file[2] = y
      <4>1. file[1] \in Int /\ file[2] \in Int
        BY <1>1 DEF Word
      <4>2. /\ file[1] = Behind(max, memory, file[4] + 1)
            /\ file[2] = Behind(max, memory, file[4])
        BY <1>3, <1>15 DEF FibKnown
      <4> QED BY <4>1, <4>2
    <3>2. newFile[3] = (y + x) % W
      <4>1. x + y = y + x
        OBVIOUS
      <4> QED BY <2>2, <3>1, <4>1
    <3>3. newFile[3] = (Behind(max, memory, file[4]) + Behind(max, memory, file[4] + 1)) % W
      BY <3>1, <3>2
    <3> QED BY <1>1, <1>2, <1>3, <1>15, <2>1, <2>2, <3>3 DEF FibKnown
  <2> QED BY <1>pc, <1>15, <2>1, <2>2, <2>3 DEF FibLeads
<1>16. CASE at = 12
  <2>1. /\ newFile = [file EXCEPT ![1] = file[2]] /\ newMemory = memory
        /\ reads = {2} /\ words = {}
    <3>1. Effect(memory[CODE + 12], file, memory, [file EXCEPT ![1] = file[2]], memory, {2}, {})
      BY <1>1, <1>2, FibonacciEffects, Zenon
    <3> QED BY <1>16, <3>1 DEF Effect
  <2>2. /\ newFile[1] = file[2] /\ \A r \in 0 .. 12 \ {1} : newFile[r] = file[r]
        /\ newFile[PC] = file[PC] /\ newFile[SCR] = file[SCR]
    BY <1>1, <2>1 DEF PC, SCR
  <2>3. FibKnown(max, 13, newFile, newMemory)
    BY <1>known, <1>16, <2>1, <2>2 DEF FibKnown
  <2> QED BY <1>pc, <1>16, <2>1, <2>2, <2>3 DEF FibLeads
<1>17. CASE at = 13
  <2>1. /\ newFile = [file EXCEPT ![2] = file[3]] /\ newMemory = memory
        /\ reads = {3} /\ words = {}
    <3>1. Effect(memory[CODE + 13], file, memory, [file EXCEPT ![2] = file[3]], memory, {3}, {})
      BY <1>1, <1>2, FibonacciEffects, Zenon
    <3> QED BY <1>17, <3>1 DEF Effect
  <2>2. /\ newFile[2] = file[3] /\ \A r \in 0 .. 12 \ {2} : newFile[r] = file[r]
        /\ newFile[PC] = file[PC] /\ newFile[SCR] = file[SCR]
    BY <1>1, <2>1 DEF PC, SCR
  <2>3. FibKnown(max, 14, newFile, newMemory)
    BY <1>known, <1>17, <2>1, <2>2 DEF FibKnown
  <2> QED BY <1>pc, <1>17, <2>1, <2>2, <2>3 DEF FibLeads
<1>18. CASE at = 14
  <2>1. /\ newFile = [file EXCEPT ![4] = (file[4] - file[5]) % W] /\ newMemory = memory
        /\ reads = {4, 5} /\ words = {}
    <3>1. Effect(memory[CODE + 14], file, memory,
                 [file EXCEPT ![4] = (file[4] - file[5]) % W], memory, {4, 5}, {})
      BY <1>1, <1>2, FibonacciEffects, Zenon
    <3> QED BY <1>18, <3>1 DEF Effect
  <2>2. /\ newFile[4] = (file[4] - file[5]) % W /\ \A r \in 0 .. 12 \ {4} : newFile[r] = file[r]
        /\ newFile[PC] = file[PC] /\ newFile[SCR] = file[SCR]
    BY <1>1, <2>1 DEF PC, SCR
  <2>3. FibKnown(max, 15, newFile, newMemory)
    <3>1. PICK n \in 1 .. max : n = file[4] /\ file[5] = 1
      BY <1>3, <1>18 DEF FibKnown
    <3>2. newFile[4] = n - 1
      <4>1. n - 1 \in Word
        BY <1>1, <3>1 DEF Word
      <4> QED BY <2>2, <3>1, <4>1, Modulo
    <3>3. /\ TableIn(n, max, memory)
          /\ file[3] = (Behind(max, memory, n) + Behind(max, memory, n + 1)) % W
          /\ file[2] = file[3] /\ file[1] = Behind(max, memory, n) /\ memory[TIMER] = 10
      BY <1>3, <1>18, <3>1 DEF FibKnown
    <3>4. n - 1 \in 0 .. max - 1 /\ (n - 1) + 1 = n /\ (n - 1) + 2 = n + 1
      OBVIOUS
    <3>5. /\ newFile[4] = n - 1 /\ newFile[5] = 1 /\ newFile[1] = Behind(max, newMemory, n)
          /\ newFile[3] = (Behind(max, newMemory, n) + Behind(max, newMemory, n + 1)) % W
          /\ newFile[2] = newFile[3] /\ TableIn(n, max, newMemory) /\ newMemory[TIMER] = 10
      BY <2>1, <2>2, <3>1, <3>2, <3>3
    <3>6. newFile[4] + 1 = n /\ newFile[4] + 2 = n + 1 /\ newFile[4] \in 0 .. max - 1
      BY <3>4, <3>5
    <3> QED BY <1>1, <1>2, <3>5, <3>6 DEF FibKnown
  <2> QED BY <1>pc, <1>18, <2>1, <2>2, <2>3 DEF FibLeads
<1>19. CASE at = 15
  <2>1. /\ newFile = file /\ newMemory = [memory EXCEPT ![file[4]] = file[3]]
        /\ reads = {3, 4} /\ words = {}
    <3>1. Effect(memory[CODE + 15], file, memory,
                 file, [memory EXCEPT ![file[4]] = file[3]], {3, 4}, {})
      BY <1>1, <1>2, FibonacciEffects, Zenon
    <3> QED BY <1>19, <3>1 DEF Effect
  <2>2. PICK n \in 0 .. max - 1 : n = file[4]
    BY <1>3, <1>19 DEF FibKnown
  <2>3. /\ file[5] = 1 /\ file[1] = Behind(max, memory, n + 1) /\ file[2] = file[3]
        /\ TableIn(n + 1, max, memory) /\ memory[TIMER] = 10
        /\ file[3] = (Behind(max, memory, n + 1) + Behind(max, memory, n + 2)) % W
    BY <1>3, <1>19, <2>2 DEF FibKnown
  <2>4. /\ newMemory[n] = file[3] /\ newMemory[TIMER] = 10
        /\ \A a \in CODE .. MEMTOP - 1 : newMemory[a] = memory[a]
        /\ \A k \in n + 1 .. max - 1 : newMemory[k] = memory[k]
    <3>1. /\ n \in 0 .. STATETOP - 2 /\ TIMER \in 0 .. STATETOP - 2 \ {n}
          /\ CODE .. MEMTOP - 1 \subseteq 0 .. STATETOP - 2 \ {n}
          /\ n + 1 .. max - 1 \subseteq 0 .. STATETOP - 2 \ {n}
      BY <1>1, <2>2, Layout
    <3>2. newMemory = [memory EXCEPT ![n] = file[3]]
      BY <2>1, <2>2
    <3>3. /\ newMemory[n] = file[3]
          /\ \A k \in 0 .. STATETOP - 2 \ {n} : newMemory[k] = memory[k]
      BY <1>3, <3>1, <3>2, Layout
    <3> QED BY <2>3, <3>1, <3>3
  <2>5. \A k \in Nat : k > n => Behind(max, newMemory, k) = Behind(max, memory, k)
    BY <1>1, <2>4 DEF Behind
  <2>6. Behind(max, newMemory, n) = file[3]
    BY <1>1, <2>4 DEF Behind
  <2>7. TableIn(n, max, newMemory)
    <3> SUFFICES ASSUME NEW k \in n .. max - 1
                 PROVE  newMemory[k] = (Behind(max, newMemory, k + 1)
                                          + Behind(max, newMemory, k + 2)) % W
      BY DEF TableIn
    <3>1. /\ Behind(max, newMemory, k + 1) = Behind(max, memory, k + 1)
          /\ Behind(max, newMemory, k + 2) = Behind(max, memory, k + 2)
      BY <2>5
    <3>2. CASE k = n
      BY <2>3, <2>4, <3>1, <3>2
    <3>3. CASE k \in n + 1 .. max - 1
      BY <2>3, <2>4, <3>1, <3>3 DEF TableIn
    <3> QED BY <3>2, <3>3
  <2>8. newFile[1] = Behind(max, newMemory, n + 1) /\ newFile[2] = Behind(max, newMemory, n)
    <3>1. n + 1 \in Nat /\ n + 1 > n
      OBVIOUS
    <3> QED BY <2>1, <2>3, <2>5, <2>6, <3>1
  <2>9. FibKnown(max, 16, newFile, newMemory)
    <3>1. newFile[4] = n /\ newFile[5] = 1
      BY <2>1, <2>2, <2>3
    <3> QED BY <1>1, <1>2, <2>4, <2>7, <2>8, <3>1 DEF FibKnown
  <2> QED BY <1>pc, <1>19, <2>1, <2>4, <2>9 DEF FibLeads
<1>20. CASE at = 16
  <2>1. /\ newFile = IF file[4] # 0 THEN [file EXCEPT ![PC] = CODE + 11] ELSE file
        /\ newMemory = memory /\ reads = {4} /\ words = {}
    <3>1. Effect(memory[CODE + 16], file, memory,
                 IF file[4] # 0 THEN [file EXCEPT ![PC] = CODE + 11] ELSE file, memory, {4}, {})
      BY <1>1, <1>2, FibonacciEffects, Zenon
    <3> QED BY <1>20, <3>1 DEF Effect
  <2>2. CASE file[4] = 0
    <3>1. FibKnown(max, 17, newFile, newMemory)
      BY <1>known, <1>20, <2>1, <2>2 DEF FibKnown
    <3> QED BY <1>pc, <1>20, <2>1, <2>2, <3>1 DEF FibLeads
  <2>3. CASE file[4] # 0
    <3>1. newFile[PC] = CODE + 11 /\ newFile[SCR] = file[SCR]
          /\ \A r \in 0 .. 12 : newFile[r] = file[r]
      BY <1>1, <2>1, <2>3 DEF PC, SCR
    <3>2. FibKnown(max, 11, newFile, newMemory)
      BY <1>1, <1>known, <1>20, <2>1, <2>3, <3>1 DEF FibKnown
    <3> QED BY <1>pc, <1>20, <2>1, <3>1, <3>2 DEF FibLeads
  <2> QED BY <2>2, <2>3
<1>21. CASE at = 17
  <2>1. newFile = file /\ newMemory = memory /\ reads = {} /\ words = {}
    <3>1. Effect(memory[CODE + 17], file, memory, file, memory, {}, {})
      BY <1>1, <1>2, FibonacciEffects, Zenon
    <3> QED BY <1>21, <3>1 DEF Effect
  <2>2. FibKnown(max, 18, newFile, newMemory)
    BY <1>1, <1>2, <1>3, <1>21, <2>1 DEF FibKnown
  <2> QED BY <1>pc, <1>21, <2>1, <2>2 DEF FibLeads
<1>22. CASE at = 18
  <2>1. newFile = file /\ newMemory = memory /\ reads = {} /\ words = {}
    <3>1. Effect(memory[CODE + 18], file, memory, file, memory, {}, {})
      BY <1>1, <1>2, FibonacciEffects, Zenon
    <3> QED BY <1>22, <3>1 DEF Effect
  <2>2. FibKnown(max, 19, newFile, newMemory)
    BY <1>1, <1>2, <1>3, <1>22, <2>1 DEF FibKnown
  <2> QED BY <1>pc, <1>22, <2>1, <2>2 DEF FibLeads
<1>23. CASE at >= 19
  <2>1. Effect(memory[CODE + at], file, memory, [file EXCEPT ![0] = (file[0] + file[0]) % W],
               memory, {0, 0}, {})
    <3>1. memory[CODE + at] = 0
      BY <1>1, <1>3, <1>23, Layout DEF FibAt
    <3>2. Decoded(0, ADD, <<0, 0, 0>>)
      BY DecodesZero
    <3> QED BY <3>1, <3>2, Effects, Zenon
  <2>2. newFile = [file EXCEPT ![0] = (file[0] + file[0]) % W] /\ newMemory = memory
        /\ reads = {0} /\ words = {}
    BY <2>1 DEF Effect
  <2>3. /\ \A r \in 0 .. 12 \ {0} : newFile[r] = file[r]
        /\ newFile[PC] = file[PC] /\ newFile[SCR] = file[SCR]
    BY <1>1, <2>2 DEF PC, SCR
  <2>4. FibKnown(max, at + 1, newFile, newMemory)
    BY <1>1, <1>2, <1>3, <1>23, <2>2, <2>3 DEF FibAt, FibKnown
  <2> QED BY <1>1, <1>3, <1>23, <2>2, <2>3, <2>4 DEF FibAt, FibLeads
<1>24. at \in 0 .. 18 \/ at >= 19
  BY <1>1 DEF FibAt
<1> QED
  BY <1>4, <1>5, <1>6, <1>7, <1>8, <1>9, <1>10, <1>11, <1>12, <1>13, <1>14, <1>15, <1>16, <1>17,
     <1>18, <1>19, <1>20, <1>21, <1>22, <1>23, <1>24

-----------------------------------------------------------------------------
(* The program with a service routine *)

\* What is known in front of line at of the main program: R4 is the word of
\* the heap that was written last, R6 how many are left.
MainKnown(period, at, file) ==
  /\ at \in 0 .. MainLen - 1
  /\ at \in 2 .. 5 => file[2] = period
  /\ at = 3 => file[3] = TIMER
  /\ at = 5 => file[3] = TIMER + 1
  /\ at \in {9, 10} => file[4] = IVTsz + TableSz
  /\ at = 10 => file[6] = TableSz
  /\ at \in 11 .. 18 => file[5] = 1
  /\ at \in 11 .. 14 => file[4] \in IVTsz + 1 .. IVTsz + TableSz /\ file[6] = file[4] - IVTsz
  /\ at \in 15 .. 17 => file[4] \in IVTsz .. IVTsz + TableSz - 1
  /\ at \in {15, 16} => file[6] = file[4] - IVTsz + 1
  /\ at = 17 => file[6] = file[4] - IVTsz

\* In front of line at, the word there is about to be executed.
LineAt(first, period, at, file, memory) ==
  /\ first \in Nat /\ period \in Nat
  /\ file \in [Reg -> Word]
  /\ memory \in [0 .. STATETOP - 1 -> Word] \cup [0 .. STATETOP - 2 -> Word]
  /\ file[PC] = CODE + at + 1
  /\ Coded(Interrupted(first, period), memory)

\* A line of the main program leads to the next one, or back to the head of
\* a loop.  It reads registers of the main program only, keeps the code, the
\* vector and the DMA, and lets the period of the timer be or sets it.
MainLeads(period, next, file, memory, newFile, newMemory, reads, words) ==
  /\ MainKnown(period, next, newFile)
  /\ newFile[PC] = CODE + next /\ newFile[SCR] = file[SCR]
  /\ \A a \in CODE .. MEMTOP - 1 \cup {IVT + TimerIrq, DMA + DCR} : newMemory[a] = memory[a]
  /\ newMemory[TIMER + 1] \in {memory[TIMER + 1], period}
  /\ reads \subseteq 0 .. 6 /\ words = {}

\* What the lines of the main program and of the routine do
LEMMA InterruptedEffects ==
  ASSUME NEW first \in Nat, NEW period \in Nat, NEW file, NEW memory,
         Coded(Interrupted(first, period), memory)
  PROVE  /\ Effect(memory[CODE + 0], file, memory, [file EXCEPT ![1] = first], memory, {}, {})
         /\ Effect(memory[CODE + 1], file, memory, [file EXCEPT ![2] = period], memory, {}, {})
         /\ Effect(memory[CODE + 2], file, memory, [file EXCEPT ![3] = TIMER], memory, {}, {})
         /\ Effect(memory[CODE + 3], file, memory, file, [memory EXCEPT ![file[3]] = file[1]],
                   {1, 3}, {})
         /\ Effect(memory[CODE + 4], file, memory, [file EXCEPT ![3] = TIMER + 1], memory, {}, {})
         /\ Effect(memory[CODE + 5], file, memory, file, [memory EXCEPT ![file[3]] = file[2]],
                   {2, 3}, {})
         /\ Effect(memory[CODE + 6], file, memory, [file EXCEPT ![1] = 1], memory, {}, {})
         /\ Effect(memory[CODE + 7], file, memory, [file EXCEPT ![2] = 1], memory, {}, {})
         /\ Effect(memory[CODE + 8], file, memory, [file EXCEPT ![4] = IVTsz + TableSz], memory, {},
                   {})
         /\ Effect(memory[CODE + 9], file, memory, [file EXCEPT ![6] = TableSz], memory, {}, {})
         /\ Effect(memory[CODE + 10], file, memory, [file EXCEPT ![5] = 1], memory, {}, {})
         /\ Effect(memory[CODE + 11], file, memory, [file EXCEPT ![3] = (file[1] + file[2]) % W],
                   memory, {1, 2}, {})
         /\ Effect(memory[CODE + 12], file, memory, [file EXCEPT ![1] = file[2]], memory, {2}, {})
         /\ Effect(memory[CODE + 13], file, memory, [file EXCEPT ![2] = file[3]], memory, {3}, {})
         /\ Effect(memory[CODE + 14], file, memory, [file EXCEPT ![4] = (file[4] - file[5]) % W],
                   memory, {4, 5}, {})
         /\ Effect(memory[CODE + 15], file, memory, file, [memory EXCEPT ![file[4]] = file[3]],
                   {3, 4}, {})
         /\ Effect(memory[CODE + 16], file, memory, [file EXCEPT ![6] = (file[6] - file[5]) % W],
                   memory, {6, 5}, {})
         /\ Effect(memory[CODE + 17], file, memory,
                   IF file[6] # 0 THEN [file EXCEPT ![PC] = CODE + 11] ELSE file, memory, {6}, {})
         /\ Effect(memory[CODE + 18], file, memory,
                   IF file[5] # 0 THEN [file EXCEPT ![PC] = CODE + 18] ELSE file, memory, {5}, {})
         /\ Effect(memory[CODE + 19], file, memory, [file EXCEPT ![10] = memory[Calls]], memory, {},
                   {Calls})
         /\ Effect(memory[CODE + 20], file, memory, [file EXCEPT ![11] = 1], memory, {}, {})
         /\ Effect(memory[CODE + 21], file, memory, [file EXCEPT ![10] = (file[10] + file[11]) % W],
                   memory, {10, 11}, {})
         /\ Effect(memory[CODE + 22], file, memory, [file EXCEPT ![12] = Calls], memory, {}, {})
         /\ Effect(memory[CODE + 23], file, memory, file, [memory EXCEPT ![file[12]] = file[10]],
                   {10, 12}, {})
         /\ Effect(memory[CODE + 24], file, memory, [file EXCEPT ![PC] = file[LR]], memory, {LR},
                   {})
BY InterruptedLines, Effects, ZenonT(60)

\* Each line of the main program leads to the next, or back to the head of a loop.
LEMMA MainStep ==
  ASSUME NEW first, NEW period, NEW at, NEW file, NEW memory,
         LineAt(first, period, at, file, memory), MainKnown(period, at, file),
         NEW newFile, NEW newMemory, NEW reads, NEW words,
         Effect(memory[CODE + at], file, memory, newFile, newMemory, reads, words)
  PROVE  \E next : MainLeads(period, next, file, memory, newFile, newMemory, reads, words)
<1>1. /\ first \in Nat /\ period \in Nat /\ CODE \in Nat /\ W \in Nat /\ CODE < W
      /\ IVTsz \in Nat /\ TableSz \in Nat \ {0} /\ IVTsz + TableSz < CODE
      /\ DOMAIN file = Reg /\ PC \in Reg /\ SCR \in Reg /\ SCR # PC
      /\ \A r \in 0 .. 12 : r \in Reg /\ file[r] \in Word
  BY Layout, WordAssumption, TableAssumption DEF LineAt, PC, SCR, Reg, NREGS
<1>2. Coded(Interrupted(first, period), memory) /\ 25 <= codeSz
  BY <1>1, InterruptedLines DEF LineAt
<1>3. /\ memory \in [0 .. STATETOP - 1 -> Word] \cup [0 .. STATETOP - 2 -> Word]
      /\ file[PC] = CODE + at + 1 /\ MainKnown(period, at, file) /\ at \in 0 .. 18
  BY DEF LineAt, MainKnown, MainLen
<1>pc. file[PC] = CODE + at + 1 /\ CODE \in Int
  BY <1>1, <1>3
<1>known. MainKnown(period, at, file)
  BY <1>3
<1>4. CASE at = 0
  <2>1. /\ newFile = [file EXCEPT ![1] = first] /\ newMemory = memory
        /\ reads = {} /\ words = {}
    <3>1. Effect(memory[CODE + 0], file, memory, [file EXCEPT ![1] = first], memory, {}, {})
      BY <1>1, <1>2, InterruptedEffects, Zenon
    <3> QED BY <1>4, <3>1 DEF Effect
  <2>2. /\ newFile[1] = first /\ \A r \in 0 .. 12 \ {1} : newFile[r] = file[r]
        /\ newFile[PC] = file[PC] /\ newFile[SCR] = file[SCR]
    BY <1>1, <2>1 DEF PC, SCR
  <2>3. MainKnown(period, 1, newFile)
    BY <1>known, <1>4, <2>2 DEF MainKnown, MainLen
  <2> QED BY <1>pc, <1>4, <2>1, <2>2, <2>3 DEF MainLeads
<1>5. CASE at = 1
  <2>1. /\ newFile = [file EXCEPT ![2] = period] /\ newMemory = memory
        /\ reads = {} /\ words = {}
    <3>1. Effect(memory[CODE + 1], file, memory, [file EXCEPT ![2] = period], memory, {}, {})
      BY <1>1, <1>2, InterruptedEffects, Zenon
    <3> QED BY <1>5, <3>1 DEF Effect
  <2>2. /\ newFile[2] = period /\ \A r \in 0 .. 12 \ {2} : newFile[r] = file[r]
        /\ newFile[PC] = file[PC] /\ newFile[SCR] = file[SCR]
    BY <1>1, <2>1 DEF PC, SCR
  <2>3. MainKnown(period, 2, newFile)
    BY <1>known, <1>5, <2>2 DEF MainKnown, MainLen
  <2> QED BY <1>pc, <1>5, <2>1, <2>2, <2>3 DEF MainLeads
<1>6. CASE at = 2
  <2>1. /\ newFile = [file EXCEPT ![3] = TIMER] /\ newMemory = memory
        /\ reads = {} /\ words = {}
    <3>1. Effect(memory[CODE + 2], file, memory, [file EXCEPT ![3] = TIMER], memory, {}, {})
      BY <1>1, <1>2, InterruptedEffects, Zenon
    <3> QED BY <1>6, <3>1 DEF Effect
  <2>2. /\ newFile[3] = TIMER /\ \A r \in 0 .. 12 \ {3} : newFile[r] = file[r]
        /\ newFile[PC] = file[PC] /\ newFile[SCR] = file[SCR]
    BY <1>1, <2>1 DEF PC, SCR
  <2>3. MainKnown(period, 3, newFile)
    BY <1>known, <1>6, <2>2 DEF MainKnown, MainLen
  <2> QED BY <1>pc, <1>6, <2>1, <2>2, <2>3 DEF MainLeads
<1>7. CASE at = 3
  <2>1. /\ newFile = file /\ newMemory = [memory EXCEPT ![file[3]] = file[1]]
        /\ reads = {1, 3} /\ words = {}
    <3>1. Effect(memory[CODE + 3], file, memory,
                 file, [memory EXCEPT ![file[3]] = file[1]], {1, 3}, {})
      BY <1>1, <1>2, InterruptedEffects, Zenon
    <3> QED BY <1>7, <3>1 DEF Effect
  <2>2. file[3] = TIMER
    BY <1>3, <1>7 DEF MainKnown
  <2>3. /\ \A a \in CODE .. MEMTOP - 1 \cup {IVT + TimerIrq, DMA + DCR} :
             newMemory[a] = memory[a]
        /\ newMemory[TIMER + 1] \in {memory[TIMER + 1], period}
    <3>1. newMemory = [memory EXCEPT ![TIMER] = file[1]]
      BY <2>1, <2>2
    <3>2. TIMER \notin CODE .. MEMTOP - 1 \cup {IVT + TimerIrq, DMA + DCR}
      BY Layout DEF TimerIrq, DCR
    <3>3. CODE .. MEMTOP - 1 \cup {IVT + TimerIrq, DMA + DCR, TIMER, TIMER + 1}
            \subseteq DOMAIN memory
      BY <1>3, Layout DEF TimerIrq, DCR
    <3>4. TIMER # TIMER + 1
      BY Layout
    <3> QED BY <2>2, <3>1, <3>2, <3>3, <3>4
  <2>4. MainKnown(period, 4, newFile)
    BY <1>1, <1>3, <1>7, <2>1 DEF MainKnown, MainLen
  <2> QED BY <1>pc, <1>7, <2>1, <2>3, <2>4 DEF MainLeads
<1>8. CASE at = 4
  <2>1. /\ newFile = [file EXCEPT ![3] = TIMER + 1] /\ newMemory = memory
        /\ reads = {} /\ words = {}
    <3>1. Effect(memory[CODE + 4], file, memory, [file EXCEPT ![3] = TIMER + 1], memory, {}, {})
      BY <1>1, <1>2, InterruptedEffects, Zenon
    <3> QED BY <1>8, <3>1 DEF Effect
  <2>2. /\ newFile[3] = TIMER + 1 /\ \A r \in 0 .. 12 \ {3} : newFile[r] = file[r]
        /\ newFile[PC] = file[PC] /\ newFile[SCR] = file[SCR]
    BY <1>1, <2>1 DEF PC, SCR
  <2>3. MainKnown(period, 5, newFile)
    BY <1>known, <1>8, <2>2 DEF MainKnown, MainLen
  <2> QED BY <1>pc, <1>8, <2>1, <2>2, <2>3 DEF MainLeads
<1>9. CASE at = 5
  <2>1. /\ newFile = file /\ newMemory = [memory EXCEPT ![file[3]] = file[2]]
        /\ reads = {2, 3} /\ words = {}
    <3>1. Effect(memory[CODE + 5], file, memory,
                 file, [memory EXCEPT ![file[3]] = file[2]], {2, 3}, {})
      BY <1>1, <1>2, InterruptedEffects, Zenon
    <3> QED BY <1>9, <3>1 DEF Effect
  <2>2. file[3] = TIMER + 1 /\ file[2] = period
    BY <1>3, <1>9 DEF MainKnown
  <2>3. /\ \A a \in CODE .. MEMTOP - 1 \cup {IVT + TimerIrq, DMA + DCR} :
             newMemory[a] = memory[a]
        /\ newMemory[TIMER + 1] \in {memory[TIMER + 1], period}
    <3>1. newMemory = [memory EXCEPT ![TIMER + 1] = file[2]]
      BY <2>1, <2>2
    <3>2. TIMER + 1 \notin CODE .. MEMTOP - 1 \cup {IVT + TimerIrq, DMA + DCR}
      BY Layout DEF TimerIrq, DCR
    <3>3. CODE .. MEMTOP - 1 \cup {IVT + TimerIrq, DMA + DCR, TIMER, TIMER + 1}
            \subseteq DOMAIN memory
      BY <1>3, Layout DEF TimerIrq, DCR
    <3>4. TIMER # TIMER + 1
      BY Layout
    <3> QED BY <2>2, <3>1, <3>2, <3>3, <3>4
  <2>4. MainKnown(period, 6, newFile)
    BY <1>1, <1>3, <1>9, <2>1 DEF MainKnown, MainLen
  <2> QED BY <1>pc, <1>9, <2>1, <2>3, <2>4 DEF MainLeads
<1>10. CASE at = 6
  <2>1. /\ newFile = [file EXCEPT ![1] = 1] /\ newMemory = memory
        /\ reads = {} /\ words = {}
    <3>1. Effect(memory[CODE + 6], file, memory, [file EXCEPT ![1] = 1], memory, {}, {})
      BY <1>1, <1>2, InterruptedEffects, Zenon
    <3> QED BY <1>10, <3>1 DEF Effect
  <2>2. /\ newFile[1] = 1 /\ \A r \in 0 .. 12 \ {1} : newFile[r] = file[r]
        /\ newFile[PC] = file[PC] /\ newFile[SCR] = file[SCR]
    BY <1>1, <2>1 DEF PC, SCR
  <2>3. MainKnown(period, 7, newFile)
    BY <1>known, <1>10, <2>2 DEF MainKnown, MainLen
  <2> QED BY <1>pc, <1>10, <2>1, <2>2, <2>3 DEF MainLeads
<1>11. CASE at = 7
  <2>1. /\ newFile = [file EXCEPT ![2] = 1] /\ newMemory = memory
        /\ reads = {} /\ words = {}
    <3>1. Effect(memory[CODE + 7], file, memory, [file EXCEPT ![2] = 1], memory, {}, {})
      BY <1>1, <1>2, InterruptedEffects, Zenon
    <3> QED BY <1>11, <3>1 DEF Effect
  <2>2. /\ newFile[2] = 1 /\ \A r \in 0 .. 12 \ {2} : newFile[r] = file[r]
        /\ newFile[PC] = file[PC] /\ newFile[SCR] = file[SCR]
    BY <1>1, <2>1 DEF PC, SCR
  <2>3. MainKnown(period, 8, newFile)
    BY <1>known, <1>11, <2>2 DEF MainKnown, MainLen
  <2> QED BY <1>pc, <1>11, <2>1, <2>2, <2>3 DEF MainLeads
<1>12. CASE at = 8
  <2>1. /\ newFile = [file EXCEPT ![4] = IVTsz + TableSz] /\ newMemory = memory
        /\ reads = {} /\ words = {}
    <3>1. Effect(memory[CODE + 8], file, memory,
                 [file EXCEPT ![4] = IVTsz + TableSz], memory, {}, {})
      BY <1>1, <1>2, InterruptedEffects, Zenon
    <3> QED BY <1>12, <3>1 DEF Effect
  <2>2. /\ newFile[4] = IVTsz + TableSz /\ \A r \in 0 .. 12 \ {4} : newFile[r] = file[r]
        /\ newFile[PC] = file[PC] /\ newFile[SCR] = file[SCR]
    BY <1>1, <2>1 DEF PC, SCR
  <2>3. MainKnown(period, 9, newFile)
    BY <1>known, <1>12, <2>2 DEF MainKnown, MainLen
  <2> QED BY <1>pc, <1>12, <2>1, <2>2, <2>3 DEF MainLeads
<1>13. CASE at = 9
  <2>1. /\ newFile = [file EXCEPT ![6] = TableSz] /\ newMemory = memory
        /\ reads = {} /\ words = {}
    <3>1. Effect(memory[CODE + 9], file, memory, [file EXCEPT ![6] = TableSz], memory, {}, {})
      BY <1>1, <1>2, InterruptedEffects, Zenon
    <3> QED BY <1>13, <3>1 DEF Effect
  <2>2. /\ newFile[6] = TableSz /\ \A r \in 0 .. 12 \ {6} : newFile[r] = file[r]
        /\ newFile[PC] = file[PC] /\ newFile[SCR] = file[SCR]
    BY <1>1, <2>1 DEF PC, SCR
  <2>3. MainKnown(period, 10, newFile)
    BY <1>known, <1>13, <2>2 DEF MainKnown, MainLen
  <2> QED BY <1>pc, <1>13, <2>1, <2>2, <2>3 DEF MainLeads
<1>14. CASE at = 10
  <2>1. /\ newFile = [file EXCEPT ![5] = 1] /\ newMemory = memory
        /\ reads = {} /\ words = {}
    <3>1. Effect(memory[CODE + 10], file, memory, [file EXCEPT ![5] = 1], memory, {}, {})
      BY <1>1, <1>2, InterruptedEffects, Zenon
    <3> QED BY <1>14, <3>1 DEF Effect
  <2>2. /\ newFile[5] = 1 /\ \A r \in 0 .. 12 \ {5} : newFile[r] = file[r]
        /\ newFile[PC] = file[PC] /\ newFile[SCR] = file[SCR]
    BY <1>1, <2>1 DEF PC, SCR
  <2>3. MainKnown(period, 11, newFile)
    BY <1>1, <1>known, <1>14, <2>2 DEF MainKnown, MainLen
  <2> QED BY <1>pc, <1>14, <2>1, <2>2, <2>3 DEF MainLeads
<1>15. CASE at = 11
  <2>1. /\ newFile = [file EXCEPT ![3] = (file[1] + file[2]) % W] /\ newMemory = memory
        /\ reads = {1, 2} /\ words = {}
    <3>1. Effect(memory[CODE + 11], file, memory,
                 [file EXCEPT ![3] = (file[1] + file[2]) % W], memory, {1, 2}, {})
      BY <1>1, <1>2, InterruptedEffects, Zenon
    <3> QED BY <1>15, <3>1 DEF Effect
  <2>2. /\ newFile[3] = (file[1] + file[2]) % W /\ \A r \in 0 .. 12 \ {3} : newFile[r] = file[r]
        /\ newFile[PC] = file[PC] /\ newFile[SCR] = file[SCR]
    BY <1>1, <2>1 DEF PC, SCR
  <2>3. MainKnown(period, 12, newFile)
    BY <1>known, <1>15, <2>2 DEF MainKnown, MainLen
  <2> QED BY <1>pc, <1>15, <2>1, <2>2, <2>3 DEF MainLeads
<1>16. CASE at = 12
  <2>1. /\ newFile = [file EXCEPT ![1] = file[2]] /\ newMemory = memory
        /\ reads = {2} /\ words = {}
    <3>1. Effect(memory[CODE + 12], file, memory, [file EXCEPT ![1] = file[2]], memory, {2}, {})
      BY <1>1, <1>2, InterruptedEffects, Zenon
    <3> QED BY <1>16, <3>1 DEF Effect
  <2>2. /\ newFile[1] = file[2] /\ \A r \in 0 .. 12 \ {1} : newFile[r] = file[r]
        /\ newFile[PC] = file[PC] /\ newFile[SCR] = file[SCR]
    BY <1>1, <2>1 DEF PC, SCR
  <2>3. MainKnown(period, 13, newFile)
    BY <1>known, <1>16, <2>2 DEF MainKnown, MainLen
  <2> QED BY <1>pc, <1>16, <2>1, <2>2, <2>3 DEF MainLeads
<1>17. CASE at = 13
  <2>1. /\ newFile = [file EXCEPT ![2] = file[3]] /\ newMemory = memory
        /\ reads = {3} /\ words = {}
    <3>1. Effect(memory[CODE + 13], file, memory, [file EXCEPT ![2] = file[3]], memory, {3}, {})
      BY <1>1, <1>2, InterruptedEffects, Zenon
    <3> QED BY <1>17, <3>1 DEF Effect
  <2>2. /\ newFile[2] = file[3] /\ \A r \in 0 .. 12 \ {2} : newFile[r] = file[r]
        /\ newFile[PC] = file[PC] /\ newFile[SCR] = file[SCR]
    BY <1>1, <2>1 DEF PC, SCR
  <2>3. MainKnown(period, 14, newFile)
    BY <1>known, <1>17, <2>2 DEF MainKnown, MainLen
  <2> QED BY <1>pc, <1>17, <2>1, <2>2, <2>3 DEF MainLeads
<1>18. CASE at = 14
  <2>1. /\ newFile = [file EXCEPT ![4] = (file[4] - file[5]) % W] /\ newMemory = memory
        /\ reads = {4, 5} /\ words = {}
    <3>1. Effect(memory[CODE + 14], file, memory,
                 [file EXCEPT ![4] = (file[4] - file[5]) % W], memory, {4, 5}, {})
      BY <1>1, <1>2, InterruptedEffects, Zenon
    <3> QED BY <1>18, <3>1 DEF Effect
  <2>2. /\ newFile[4] = (file[4] - file[5]) % W /\ \A r \in 0 .. 12 \ {4} : newFile[r] = file[r]
        /\ newFile[PC] = file[PC] /\ newFile[SCR] = file[SCR]
    BY <1>1, <2>1 DEF PC, SCR
  <2>3. MainKnown(period, 15, newFile)
    <3>1. PICK n \in IVTsz + 1 .. IVTsz + TableSz :
            n = file[4] /\ file[5] = 1 /\ file[6] = n - IVTsz
      BY <1>3, <1>18 DEF MainKnown
    <3>2. n - 1 \in Word /\ n - 1 \in IVTsz .. IVTsz + TableSz - 1
      BY <1>1, <3>1 DEF Word
    <3>3. newFile[4] = n - 1 /\ newFile[5] = 1 /\ newFile[6] = n - IVTsz
      BY <2>2, <3>1, <3>2, Modulo
    <3> QED BY <1>1, <3>1, <3>2, <3>3 DEF MainKnown, MainLen
  <2> QED BY <1>pc, <1>18, <2>1, <2>2, <2>3 DEF MainLeads
<1>19. CASE at = 15
  <2>1. /\ newFile = file /\ newMemory = [memory EXCEPT ![file[4]] = file[3]]
        /\ reads = {3, 4} /\ words = {}
    <3>1. Effect(memory[CODE + 15], file, memory,
                 file, [memory EXCEPT ![file[4]] = file[3]], {3, 4}, {})
      BY <1>1, <1>2, InterruptedEffects, Zenon
    <3> QED BY <1>19, <3>1 DEF Effect
  <2>2. file[4] \in IVTsz .. IVTsz + TableSz - 1
    BY <1>3, <1>19 DEF MainKnown
  <2>3. /\ \A a \in CODE .. MEMTOP - 1 \cup {IVT + TimerIrq, DMA + DCR} :
             newMemory[a] = memory[a]
        /\ newMemory[TIMER + 1] \in {memory[TIMER + 1], period}
    <3>1. PICK n \in IVTsz .. IVTsz + TableSz - 1 : n = file[4]
      BY <2>2
    <3>2. newMemory = [memory EXCEPT ![n] = file[3]]
      BY <2>1, <3>1
    <3>3. n \notin CODE .. MEMTOP - 1 \cup {IVT + TimerIrq, DMA + DCR, TIMER + 1}
      BY <1>1, Layout DEF TimerIrq, DCR
    <3>4. CODE .. MEMTOP - 1 \cup {IVT + TimerIrq, DMA + DCR, TIMER + 1} \subseteq DOMAIN memory
      BY <1>3, Layout DEF TimerIrq, DCR
    <3> QED BY <3>2, <3>3, <3>4
  <2>4. MainKnown(period, 16, newFile)
    BY <1>1, <1>3, <1>19, <2>1 DEF MainKnown, MainLen
  <2> QED BY <1>pc, <1>19, <2>1, <2>3, <2>4 DEF MainLeads
<1>20. CASE at = 16
  <2>1. /\ newFile = [file EXCEPT ![6] = (file[6] - file[5]) % W] /\ newMemory = memory
        /\ reads = {6, 5} /\ words = {}
    <3>1. Effect(memory[CODE + 16], file, memory,
                 [file EXCEPT ![6] = (file[6] - file[5]) % W], memory, {6, 5}, {})
      BY <1>1, <1>2, InterruptedEffects, Zenon
    <3> QED BY <1>20, <3>1 DEF Effect
  <2>2. /\ newFile[6] = (file[6] - file[5]) % W /\ \A r \in 0 .. 12 \ {6} : newFile[r] = file[r]
        /\ newFile[PC] = file[PC] /\ newFile[SCR] = file[SCR]
    BY <1>1, <2>1 DEF PC, SCR
  <2>3. MainKnown(period, 17, newFile)
    <3>1. PICK n \in IVTsz .. IVTsz + TableSz - 1 :
            n = file[4] /\ file[5] = 1 /\ file[6] = n - IVTsz + 1
      BY <1>3, <1>20 DEF MainKnown
    <3>2. (n - IVTsz + 1) - 1 \in Word /\ (n - IVTsz + 1) - 1 = n - IVTsz
      BY <1>1, <3>1 DEF Word
    <3>3. newFile[4] = n /\ newFile[5] = 1 /\ newFile[6] = n - IVTsz
      BY <2>2, <3>1, <3>2, Modulo
    <3> QED BY <1>1, <3>1, <3>3 DEF MainKnown, MainLen
  <2> QED BY <1>pc, <1>20, <2>1, <2>2, <2>3 DEF MainLeads
<1>21. CASE at = 17
  <2>1. /\ newFile = IF file[6] # 0 THEN [file EXCEPT ![PC] = CODE + 11] ELSE file
        /\ newMemory = memory /\ reads = {6} /\ words = {}
    <3>1. Effect(memory[CODE + 17], file, memory,
                 IF file[6] # 0 THEN [file EXCEPT ![PC] = CODE + 11] ELSE file, memory, {6}, {})
      BY <1>1, <1>2, InterruptedEffects, Zenon
    <3> QED BY <1>21, <3>1 DEF Effect
  <2>2. CASE file[6] = 0
    <3>1. MainKnown(period, 18, newFile)
      BY <1>1, <1>3, <1>21, <2>1, <2>2 DEF MainKnown, MainLen
    <3> QED BY <1>pc, <1>21, <2>1, <2>2, <3>1 DEF MainLeads
  <2>3. CASE file[6] # 0
    <3>1. newFile[PC] = CODE + 11 /\ newFile[SCR] = file[SCR]
          /\ \A r \in 0 .. 12 : newFile[r] = file[r]
      BY <1>1, <2>1, <2>3 DEF PC, SCR
    <3>2. PICK n \in IVTsz .. IVTsz + TableSz - 1 :
            n = file[4] /\ file[5] = 1 /\ file[6] = n - IVTsz
      BY <1>3, <1>21 DEF MainKnown
    <3>3. n \in IVTsz + 1 .. IVTsz + TableSz
      BY <1>1, <2>3, <3>2
    <3>4. newFile[4] = n /\ newFile[5] = 1 /\ newFile[6] = n - IVTsz
      BY <3>1, <3>2
    <3>5. MainKnown(period, 11, newFile)
      BY <1>1, <3>3, <3>4 DEF MainKnown, MainLen
    <3> QED BY <1>pc, <1>21, <2>1, <3>1, <3>5 DEF MainLeads
  <2> QED BY <2>2, <2>3
<1>22. CASE at = 18
  <2>1. /\ newFile = IF file[5] # 0 THEN [file EXCEPT ![PC] = CODE + 18] ELSE file
        /\ newMemory = memory /\ reads = {5} /\ words = {}
    <3>1. Effect(memory[CODE + 18], file, memory,
                 IF file[5] # 0 THEN [file EXCEPT ![PC] = CODE + 18] ELSE file, memory, {5}, {})
      BY <1>1, <1>2, InterruptedEffects, Zenon
    <3> QED BY <1>22, <3>1 DEF Effect
  <2>2. file[5] = 1
    BY <1>3, <1>22 DEF MainKnown
  <2>3. newFile[PC] = CODE + 18 /\ newFile[SCR] = file[SCR]
        /\ \A r \in 0 .. 12 : newFile[r] = file[r]
    BY <1>1, <2>1, <2>2 DEF PC, SCR
  <2>4. MainKnown(period, 18, newFile)
    BY <1>1, <1>3, <1>22, <2>3 DEF MainKnown, MainLen
  <2> QED BY <1>pc, <1>22, <2>1, <2>3, <2>4 DEF MainLeads
<1> QED
  BY <1>3, <1>4, <1>5, <1>6, <1>7, <1>8, <1>9, <1>10, <1>11, <1>12, <1>13, <1>14, <1>15, <1>16,
     <1>17, <1>18, <1>19, <1>20, <1>21, <1>22

\* A line of the routine leads to the next one, the last returns.
RoutineLeads(at, file, memory, newFile, newMemory) ==
  /\ \A r \in MainRegs : newFile[r] = file[r]
  /\ \A a \in DOMAIN memory \ {Calls} : newMemory[a] = memory[a]
  /\ IF at < MainLen + IsrLen - 1
     THEN /\ newFile[PC] = CODE + at + 1 /\ newFile[LR] = file[LR]
          /\ at + 1 = 23 => newFile[12] = Calls
     ELSE newFile[PC] = file[LR]

\* Each line of the routine leads to the next, and the last to the main program.
LEMMA RoutineStep ==
  ASSUME NEW first, NEW period, NEW at, NEW file, NEW memory,
         LineAt(first, period, at, file, memory),
         at \in MainLen .. MainLen + IsrLen - 1, at = 23 => file[12] = Calls,
         NEW newFile, NEW newMemory, NEW reads, NEW words,
         Effect(memory[CODE + at], file, memory, newFile, newMemory, reads, words)
  PROVE  RoutineLeads(at, file, memory, newFile, newMemory)
<1>1. /\ first \in Nat /\ period \in Nat /\ CODE \in Nat /\ DOMAIN file = Reg /\ at \in 19 .. 24
      /\ file[PC] = CODE + at + 1
  BY Layout DEF LineAt, MainLen, IsrLen
<1>2. Coded(Interrupted(first, period), memory)
  BY DEF LineAt
<1>3. MainRegs \subseteq Reg \ {10, 11, 12, LR, PC} /\ {10, 11, 12, LR, PC} \subseteq Reg
      /\ {10, 11, 12} \cap {LR, PC} = {} /\ LR # PC
  BY DEF MainRegs, PC, LR, Reg, NREGS
<1>4. CASE at = 19
  <2>1. newFile = [file EXCEPT ![10] = memory[Calls]] /\ newMemory = memory
    <3>1. Effect(memory[CODE + 19], file, memory,
                 [file EXCEPT ![10] = memory[Calls]], memory, {}, {Calls})
      BY <1>1, <1>2, InterruptedEffects, Zenon
    <3> QED BY <1>4, <3>1 DEF Effect
  <2>2. /\ \A r \in Reg \ {10} : newFile[r] = file[r]
        /\ newFile[10] = memory[Calls]
    BY <1>1, <1>3, <2>1
  <2>3. newFile[PC] = file[PC] /\ newFile[LR] = file[LR]
        /\ \A r \in MainRegs : newFile[r] = file[r]
    BY <1>3, <2>2
  <2> QED BY <1>1, <1>4, <2>1, <2>2, <2>3 DEF RoutineLeads, MainLen, IsrLen
<1>5. CASE at = 20
  <2>1. newFile = [file EXCEPT ![11] = 1] /\ newMemory = memory
    <3>1. Effect(memory[CODE + 20], file, memory, [file EXCEPT ![11] = 1], memory, {}, {})
      BY <1>1, <1>2, InterruptedEffects, Zenon
    <3> QED BY <1>5, <3>1 DEF Effect
  <2>2. /\ \A r \in Reg \ {11} : newFile[r] = file[r]
        /\ newFile[11] = 1
    BY <1>1, <1>3, <2>1
  <2>3. newFile[PC] = file[PC] /\ newFile[LR] = file[LR]
        /\ \A r \in MainRegs : newFile[r] = file[r]
    BY <1>3, <2>2
  <2> QED BY <1>1, <1>5, <2>1, <2>2, <2>3 DEF RoutineLeads, MainLen, IsrLen
<1>6. CASE at = 21
  <2>1. newFile = [file EXCEPT ![10] = (file[10] + file[11]) % W] /\ newMemory = memory
    <3>1. Effect(memory[CODE + 21], file, memory,
                 [file EXCEPT ![10] = (file[10] + file[11]) % W], memory, {10, 11}, {})
      BY <1>1, <1>2, InterruptedEffects, Zenon
    <3> QED BY <1>6, <3>1 DEF Effect
  <2>2. /\ \A r \in Reg \ {10} : newFile[r] = file[r]
        /\ newFile[10] = (file[10] + file[11]) % W
    BY <1>1, <1>3, <2>1
  <2>3. newFile[PC] = file[PC] /\ newFile[LR] = file[LR]
        /\ \A r \in MainRegs : newFile[r] = file[r]
    BY <1>3, <2>2
  <2> QED BY <1>1, <1>6, <2>1, <2>2, <2>3 DEF RoutineLeads, MainLen, IsrLen
<1>7. CASE at = 22
  <2>1. newFile = [file EXCEPT ![12] = Calls] /\ newMemory = memory
    <3>1. Effect(memory[CODE + 22], file, memory, [file EXCEPT ![12] = Calls], memory, {}, {})
      BY <1>1, <1>2, InterruptedEffects, Zenon
    <3> QED BY <1>7, <3>1 DEF Effect
  <2>2. /\ \A r \in Reg \ {12} : newFile[r] = file[r]
        /\ newFile[12] = Calls
    BY <1>1, <1>3, <2>1
  <2>3. newFile[PC] = file[PC] /\ newFile[LR] = file[LR]
        /\ \A r \in MainRegs : newFile[r] = file[r]
    BY <1>3, <2>2
  <2> QED BY <1>1, <1>7, <2>1, <2>2, <2>3 DEF RoutineLeads, MainLen, IsrLen
<1>8. CASE at = 23
  <2>1. newFile = file /\ newMemory = [memory EXCEPT ![file[12]] = file[10]]
    <3>1. Effect(memory[CODE + 23], file, memory,
                 file, [memory EXCEPT ![file[12]] = file[10]], {10, 12}, {})
      BY <1>1, <1>2, InterruptedEffects, Zenon
    <3> QED BY <1>8, <3>1 DEF Effect
  <2> QED BY <1>1, <1>3, <1>8, <2>1 DEF RoutineLeads, MainLen, IsrLen
<1>9. CASE at = 24
  <2>1. newFile = [file EXCEPT ![PC] = file[LR]] /\ newMemory = memory
    <3>1. Effect(memory[CODE + 24], file, memory, [file EXCEPT ![PC] = file[LR]], memory, {LR}, {})
      BY <1>1, <1>2, InterruptedEffects, Zenon
    <3> QED BY <1>9, <3>1 DEF Effect
  <2> QED BY <1>1, <1>3, <1>9, <2>1 DEF RoutineLeads, MainLen, IsrLen
<1> QED
  BY <1>1, <1>4, <1>5, <1>6, <1>7, <1>8, <1>9

-----------------------------------------------------------------------------
(* The inductive invariant of the two programs *)

\* One of the example programs is in memory, nothing behind it, and what is
\* known in front of its next line.
FibRuns(sizes) ==
  ~peripherals => \E max \in sizes :
    /\ Coded(Fibonacci(max), systemState)
    /\ \A a \in CODE + 19 .. MEMTOP - 1 : systemState[a] = 0
    /\ FibKnown(max, NextPC - CODE, registers, systemState)

\* A program with the routine is in memory, the vector leads to the routine,
\* and what is known in front of the next line of the main program, interrupted
\* or not.
RoutineRuns(firsts, periods) ==
  peripherals => \E first \in firsts, period \in periods :
    /\ Coded(Interrupted(first, period), systemState)
    /\ Routine = CODE + MainLen
    /\ NextPC \in CODE .. CODE + MainLen + IsrLen - 1
    /\ NextPC = CODE + 23 => registers[12] = Calls
    /\ MainKnown(period, MainPC - CODE, registers)

ExampleInv(sizes, firsts, periods) ==
  /\ FibRuns(sizes) /\ RoutineRuns(firsts, periods)
  /\ phase = "devices" /\ ncycles = 0 => registers[PC] = CODE

\* What is executed next.
Executes ==
  Effect(ir, registers, systemState, After, MemoryNext,
         RegistersRead(Opcode(ir), Operands(ir)), WordsRead(Opcode(ir), Operands(ir)))

\* That is what the word in ir does.
LEMMA ExecutesIr == Executes
BY Zenon DEF Executes, Effect, After, MemoryNext

\* There is no instruction with the opcode 10.
LEMMA TenRaises ==
  ASSUME NEW file, NEW memory
  PROVE  Raises(Opcode(10), Operands(10), file, memory)
<1>1. PICK op : op = Opcode(10) /\ op = 10
  BY DEF Opcode
<1>2. Raises(op, Operands(10), file, memory)
  BY <1>1, SMT DEF Raises, ASL, LDR, STR, PUSH, POP, B, BL, MOV, CBZ, CBNZ, SET, BX, NOP, WFI, HLI
<1> QED BY <1>1, <1>2

\* The state, as the lemmas about a line see it.
LEMMA StateTypes ==
  ASSUME IInv
  PROVE  /\ registers \in [Reg -> Word]
         /\ systemState \in [0 .. STATETOP - 1 -> Word] \cup [0 .. STATETOP - 2 -> Word]
         /\ PC \in Reg /\ registers[PC] \in Int
         /\ ncycles \in Nat
<1>1. /\ registers \in [Reg -> Word]
      /\ \E top \in {STATETOP - 1, STATETOP - 2} : systemState \in [0 .. top -> Word]
      /\ ncycles \in 0 .. MAX_NCYCLES
  BY DEF IInv, TypeOK
<1>2. systemState \in [0 .. STATETOP - 1 -> Word] \cup [0 .. STATETOP - 2 -> Word]
  BY <1>1
<1>3. PC \in Reg
  BY DEF PC, Reg, NREGS
<1>4. registers[PC] \in Int
  BY <1>1, <1>3, WordAssumption DEF Word
<1>5. ncycles \in Nat
  BY <1>1, SystemAssumption
<1> QED BY <1>1, <1>2, <1>3, <1>4, <1>5

\* What is executed is a line of the example.
LEMMA FibExecutes ==
  ASSUME NEW sizes, sizes \subseteq 1 .. CODE, FibRuns(sizes), ~peripherals,
         IInv, Fetched, phase = "execute", ~InstructionRaises
  PROVE  \E max \in sizes, next \in Int :
           /\ FibAt(max, NextPC - CODE, registers, systemState)
           /\ FibLeads(max, next, registers, systemState, After, MemoryNext,
                       RegistersRead(Opcode(ir), Operands(ir)),
                       WordsRead(Opcode(ir), Operands(ir)))
<1>1. PICK max \in sizes :
        /\ Coded(Fibonacci(max), systemState)
        /\ \A a \in CODE + 19 .. MEMTOP - 1 : systemState[a] = 0
        /\ FibKnown(max, NextPC - CODE, registers, systemState)
  BY Zenon DEF FibRuns
<1>2. max \in 1 .. CODE /\ CODE \in Nat /\ max \in Nat /\ CODE + codeSz = TIMER /\ codeSz \in Nat
  BY Layout
<1>3. NextPC = registers[PC] - 1 /\ ir = systemState[NextPC] /\ NextPC \in Int
  BY StateTypes DEF Fetched, NextPC
<1>4. PICK at \in 0 .. codeSz : at = NextPC - CODE /\ registers[PC] = CODE + at + 1
                                /\ NextPC = CODE + at
  <2>1. NextPC - CODE \in 0 .. codeSz
    BY <1>1 DEF FibKnown
  <2> QED BY <1>2, <1>3, <2>1, StateTypes
<1>5. FibKnown(max, at, registers, systemState)
  BY <1>1, <1>4
<1>6. at # codeSz
  <2> SUFFICES ASSUME at = codeSz PROVE FALSE
    OBVIOUS
  <2>1. 19 <= codeSz
    BY <1>1, <1>2, FibonacciLines
  <2>2. systemState[TIMER] = 10
    BY <1>2, <1>5, <2>1 DEF FibKnown
  <2>3. ir = 10
    BY <1>2, <1>3, <1>4, <2>2
  <2> QED BY <2>3, TenRaises DEF InstructionRaises
<1>7. FibAt(max, at, registers, systemState)
  BY <1>1, <1>2, <1>4, <1>5, <1>6, StateTypes DEF FibAt
<1>8. Effect(systemState[CODE + at], registers, systemState, After, MemoryNext,
             RegistersRead(Opcode(ir), Operands(ir)), WordsRead(Opcode(ir), Operands(ir)))
  BY <1>3, <1>4, ExecutesIr DEF Executes
<1>9. PICK next :
        FibLeads(max, next, registers, systemState, After, MemoryNext,
                 RegistersRead(Opcode(ir), Operands(ir)), WordsRead(Opcode(ir), Operands(ir)))
  BY <1>2, <1>7, <1>8, FibonacciStep, Zenon
<1>10. next \in Int
  BY <1>2, <1>9 DEF FibLeads, FibKnown
<1> QED BY <1>4, <1>7, <1>9, <1>10

\* The next instruction is a line of the program with the routine.
LEMMA NextLine ==
  ASSUME NEW first \in Nat, NEW period \in Nat, Coded(Interrupted(first, period), systemState),
         IInv, Fetched, phase = "execute"
  PROVE  /\ LineAt(first, period, NextPC - CODE, registers, systemState)
         /\ Effect(systemState[CODE + (NextPC - CODE)], registers, systemState, After, MemoryNext,
                   RegistersRead(Opcode(ir), Operands(ir)), WordsRead(Opcode(ir), Operands(ir)))
<1>1. NextPC = registers[PC] - 1 /\ ir = systemState[NextPC] /\ NextPC \in Int
  BY StateTypes DEF Fetched, NextPC
<1>2. registers[PC] = CODE + (NextPC - CODE) + 1 /\ CODE + (NextPC - CODE) = NextPC
  BY <1>1, StateTypes, Layout
<1>3. LineAt(first, period, NextPC - CODE, registers, systemState)
  BY <1>2, StateTypes DEF LineAt
<1>4. systemState[CODE + (NextPC - CODE)] = ir
  BY <1>1, <1>2
<1> QED BY <1>3, <1>4, ExecutesIr DEF Executes

\* What is executed outside the routine is a line of the main program.
LEMMA MainExecutesLine ==
  ASSUME NEW firsts, firsts \subseteq Nat, NEW periods, periods \subseteq Nat,
         RoutineRuns(firsts, periods), peripherals, ~InRoutine,
         IInv, Fetched, phase = "execute"
  PROVE  \E first \in firsts, period \in periods, next \in 0 .. MainLen - 1 :
           /\ Coded(Interrupted(first, period), systemState)
           /\ Routine = CODE + MainLen
           /\ NextPC \in CODE .. CODE + MainLen - 1
           /\ MainLeads(period, next, registers, systemState, After, MemoryNext,
                        RegistersRead(Opcode(ir), Operands(ir)),
                        WordsRead(Opcode(ir), Operands(ir)))
<1>1. PICK first \in firsts, period \in periods :
        /\ Coded(Interrupted(first, period), systemState)
        /\ Routine = CODE + MainLen
        /\ NextPC \in CODE .. CODE + MainLen + IsrLen - 1
        /\ MainKnown(period, MainPC - CODE, registers)
  BY Zenon DEF RoutineRuns
<1>2. MainPC = NextPC /\ NextPC \in CODE .. CODE + MainLen - 1
  BY <1>1, Layout DEF MainPC, InRoutine, MainLen, IsrLen
<1>3. /\ LineAt(first, period, NextPC - CODE, registers, systemState)
      /\ Effect(systemState[CODE + (NextPC - CODE)], registers, systemState, After, MemoryNext,
                RegistersRead(Opcode(ir), Operands(ir)), WordsRead(Opcode(ir), Operands(ir)))
  BY <1>1, NextLine
<1>4. PICK next :
        MainLeads(period, next, registers, systemState, After, MemoryNext,
                  RegistersRead(Opcode(ir), Operands(ir)), WordsRead(Opcode(ir), Operands(ir)))
  BY <1>1, <1>2, <1>3, MainStep, Zenon
<1>5. next \in 0 .. MainLen - 1
  BY <1>4 DEF MainLeads, MainKnown
<1> QED BY <1>1, <1>2, <1>4, <1>5

\* What is executed within the routine is one of its lines.
LEMMA RoutineExecutesLine ==
  ASSUME NEW firsts, firsts \subseteq Nat, NEW periods, periods \subseteq Nat,
         RoutineRuns(firsts, periods), peripherals, InRoutine,
         IInv, Fetched, phase = "execute"
  PROVE  \E first \in firsts, period \in periods :
           /\ Coded(Interrupted(first, period), systemState)
           /\ Routine = CODE + MainLen
           /\ NextPC \in CODE + MainLen .. CODE + MainLen + IsrLen - 1
           /\ MainKnown(period, registers[LR] - CODE, registers)
           /\ RoutineLeads(NextPC - CODE, registers, systemState, After, MemoryNext)
<1>1. PICK first \in firsts, period \in periods :
        /\ Coded(Interrupted(first, period), systemState)
        /\ Routine = CODE + MainLen
        /\ NextPC \in CODE .. CODE + MainLen + IsrLen - 1
        /\ NextPC = CODE + 23 => registers[12] = Calls
        /\ MainKnown(period, MainPC - CODE, registers)
  BY Zenon DEF RoutineRuns
<1>2. MainPC = registers[LR] /\ NextPC \in CODE + MainLen .. CODE + MainLen + IsrLen - 1
  BY <1>1, Layout DEF MainPC, InRoutine, MainLen, IsrLen
<1>3. PICK at : at = NextPC - CODE
  OBVIOUS
<1>4. at \in MainLen .. MainLen + IsrLen - 1 /\ (at = 23 => registers[12] = Calls)
  BY <1>1, <1>2, <1>3, Layout DEF MainLen, IsrLen
<1>5. /\ LineAt(first, period, at, registers, systemState)
      /\ Effect(systemState[CODE + at], registers, systemState, After, MemoryNext,
                RegistersRead(Opcode(ir), Operands(ir)), WordsRead(Opcode(ir), Operands(ir)))
  BY <1>1, <1>3, NextLine
<1>6. RoutineLeads(at, registers, systemState, After, MemoryNext)
  BY <1>4, <1>5, RoutineStep, Zenon
<1> QED BY <1>1, <1>2, <1>3, <1>6

-----------------------------------------------------------------------------
(* Loading *)

\* A program that is loaded is in memory, with nothing behind it.
LEMMA Loaded ==
  ASSUME NEW instrs, NEW n \in Nat, Len(instrs) = n, NEW isr, NEW flag,
         Load(instrs, isr, flag) \in Programs,
         systemState = LoadCode(Load(instrs, isr, flag))
  PROVE  /\ Coded(instrs, systemState)
         /\ \A a \in CODE + n .. MEMTOP - 1 : systemState[a] = 0
         /\ systemState[IVT + TimerIrq] = CODE + isr
<1> DEFINE p == Load(instrs, isr, flag)
<1>1. p.words = [i \in 1 .. n |-> EncodeInstruction(instrs, i)] /\ p.isr = isr
  BY DEF Load, EncodeProgram
<1>2. p.words \in Seq(Word) /\ Len(p.words) <= codeSz
  BY SystemAssumption
<1>3. Len(p.words) = n
  BY <1>1, <1>2
<1> HIDE DEF p
<1>4. systemState = [a \in 0 .. STATETOP - 1 |->
         IF a < IVTsz THEN CODE + p.isr
         ELSE IF a - CODE \in 0 .. n - 1 THEN p.words[a - CODE + 1]
         ELSE IF a \in {TIMER, TIMER + 1} THEN MAX_NCYCLES + 1
         ELSE 0]
  BY <1>3 DEF LoadCode, p
<1>5. ASSUME NEW i \in 1 .. n PROVE systemState[CODE + i - 1] = EncodeInstruction(instrs, i)
  <2>1. /\ CODE + i - 1 \in 0 .. STATETOP - 1 /\ ~(CODE + i - 1 < IVTsz)
        /\ (CODE + i - 1) - CODE \in 0 .. n - 1 /\ (CODE + i - 1) - CODE + 1 = i
    BY <1>2, <1>3, Layout
  <2>2. systemState[CODE + i - 1] = p.words[i]
    BY <1>4, <2>1
  <2> QED BY <1>1, <2>2
<1>6. ASSUME NEW a \in CODE + n .. MEMTOP - 1 PROVE systemState[a] = 0
  <2>1. /\ a \in 0 .. STATETOP - 1 /\ ~(a < IVTsz) /\ a - CODE \notin 0 .. n - 1
        /\ a \notin {TIMER, TIMER + 1}
    BY Layout
  <2> QED BY <1>4, <2>1
<1>7. systemState[IVT + TimerIrq] = CODE + isr
  <2>1. IVT + TimerIrq \in 0 .. STATETOP - 1 /\ IVT + TimerIrq < IVTsz
    BY Layout DEF TimerIrq
  <2> QED BY <1>1, <1>4, <2>1
<1> QED BY <1>2, <1>3, <1>5, <1>6, <1>7 DEF Coded

\* A system that has loaded one of the programs is in front of line 0.
LEMMA InitExampleInv ==
  ASSUME NEW sizes, NEW firsts, NEW periods, ExampleSetting(sizes, firsts, periods), Init
  PROVE  ExampleInv(sizes, firsts, periods) /\ ~InRoutine
<1>1. PICK p \in Programs : /\ systemState = LoadCode(p)
                            /\ peripherals = p.peripherals
  BY DEF Init
<1>2. registers[PC] = CODE /\ NextPC = CODE /\ phase = "devices"
  BY DEF Init, NextPC, PC, Reg, NREGS
<1>3. NextPC - CODE = 0
  BY <1>2, Layout
<1>4. p \in Examples(sizes, firsts, periods)
  BY DEF ExampleSetting
<1>5. CASE \E max \in sizes : p = FibonacciProgram(max)
  <2>1. PICK max \in sizes : p = FibonacciProgram(max)
    BY <1>5
  <2>2. Len(Fibonacci(max)) = 19
    BY DEF Fibonacci
  <2>3. /\ Coded(Fibonacci(max), systemState)
        /\ \A a \in CODE + 19 .. MEMTOP - 1 : systemState[a] = 0
    <3>1. Load(Fibonacci(max), 18, FALSE) \in Programs
          /\ systemState = LoadCode(Load(Fibonacci(max), 18, FALSE))
      BY <1>1, <2>1, Zenon DEF FibonacciProgram
    <3>2. 19 \in Nat
      OBVIOUS
    <3> QED BY <2>2, <3>1, <3>2, Loaded, Zenon
  <2>4. ~peripherals
    BY <1>1, <2>1 DEF FibonacciProgram, Load
  <2>5. FibKnown(max, 0, registers, systemState)
    BY Layout DEF FibKnown
  <2>6. FibRuns(sizes)
    BY <1>3, <2>3, <2>5 DEF FibRuns
  <2>7. RoutineRuns(firsts, periods)
    BY <2>4 DEF RoutineRuns
  <2> QED BY <1>2, <2>4, <2>6, <2>7 DEF ExampleInv, InRoutine
<1>6. CASE \E first \in firsts, period \in periods : p = InterruptedProgram(first, period)
  <2>1. PICK first \in firsts, period \in periods : p = InterruptedProgram(first, period)
    BY <1>6
  <2>2. Len(Interrupted(first, period)) = 25
    BY DEF Interrupted
  <2>3. /\ Coded(Interrupted(first, period), systemState)
        /\ Routine = CODE + MainLen
    <3>1. Load(Interrupted(first, period), MainLen, TRUE) \in Programs
          /\ systemState = LoadCode(Load(Interrupted(first, period), MainLen, TRUE))
      BY <1>1, <2>1, Zenon DEF InterruptedProgram
    <3>2. 25 \in Nat
      OBVIOUS
    <3> QED BY <2>2, <3>1, <3>2, Loaded, Zenon DEF Routine
  <2>4. peripherals
    BY <1>1, <2>1 DEF InterruptedProgram, Load
  <2>5. ~InRoutine /\ MainPC = NextPC /\ NextPC # CODE + 23
        /\ NextPC \in CODE .. CODE + MainLen + IsrLen - 1
    BY <1>2, <2>3, Layout DEF InRoutine, MainPC, MainLen, IsrLen
  <2>6. MainKnown(period, 0, registers)
    BY DEF MainKnown, MainLen
  <2>7. RoutineRuns(firsts, periods)
    BY <1>3, <2>3, <2>5, <2>6 DEF RoutineRuns
  <2>8. FibRuns(sizes)
    BY <2>4 DEF FibRuns
  <2> QED BY <1>2, <2>5, <2>7, <2>8 DEF ExampleInv
<1> QED BY <1>4, <1>5, <1>6 DEF Examples

-----------------------------------------------------------------------------
(* The two programs cooperate *)

\* What the setting says of the programs, and where the word of the routine is.
LEMMA Setting ==
  ASSUME NEW sizes, NEW firsts, NEW periods, ExampleSetting(sizes, firsts, periods)
  PROVE  /\ sizes \subseteq 1 .. CODE /\ firsts \subseteq Nat /\ periods \subseteq Nat
         /\ \A period \in periods : period >= RoutineLen
         /\ Own = MainRegs /\ Ram = MainRam /\ RoutineLen = IsrLen
         /\ Calls \in Nat /\ Calls < CODE
         /\ Calls \notin {IVT + TimerIrq, TIMER, TIMER + 1, DMA + DCR}
BY Layout, TableAssumption DEF ExampleSetting, IsrLen, Calls, TimerIrq, DCR

\* The run starts in the main program.
LEMMA BetweenCycles ==
  ASSUME NEW sizes, NEW firsts, NEW periods, ExampleInv(sizes, firsts, periods),
         phase = "devices", ncycles = 0
  PROVE  ~InRoutine
<1>1. NextPC = CODE
  BY DEF ExampleInv, NextPC
<1>2. peripherals => Routine = CODE + MainLen
  BY DEF ExampleInv, RoutineRuns
<1> QED BY <1>1, <1>2, Layout DEF InRoutine, MainLen

\* The example uses its own registers and no routine.
LEMMA FibonacciCooperates ==
  ASSUME NEW sizes, NEW firsts, NEW periods, ExampleSetting(sizes, firsts, periods),
         ExampleInv(sizes, firsts, periods), IInv, Fetched, Paced,
         phase = "execute", ~InstructionRaises, ~peripherals
  PROVE  BothKeep /\ MainKeeps
<1>1. sizes \subseteq 1 .. CODE /\ Own = MainRegs /\ Ram = MainRam /\ Calls < CODE /\ Calls \in Nat
  BY Setting
<1>2. PICK max \in sizes, next \in Int :
        /\ FibAt(max, NextPC - CODE, registers, systemState)
        /\ FibLeads(max, next, registers, systemState, After, MemoryNext,
                    RegistersRead(Opcode(ir), Operands(ir)), WordsRead(Opcode(ir), Operands(ir)))
  BY <1>1, FibExecutes DEF ExampleInv
<1>3. NextPC \in Int
  BY StateTypes DEF NextPC
<1>4. NextPC \in Ram
  <2>1. NextPC - CODE \in 0 .. codeSz - 1
    BY <1>2 DEF FibAt
  <2> QED BY <1>1, <1>3, <2>1, Layout DEF MainRam
<1>5. After[SCR] = 0 /\ WordsRead(Opcode(ir), Operands(ir)) = {}
  BY <1>2 DEF FibLeads, Paced
<1>6. RegistersRead(Opcode(ir), Operands(ir)) \subseteq Own \cup {PC}
  <2>1. RegistersRead(Opcode(ir), Operands(ir)) \subseteq 0 .. 5
    BY <1>2 DEF FibLeads
  <2> QED BY <1>1, <2>1 DEF MainRegs, Reg, NREGS, LR, PC
<1> QED BY <1>4, <1>5, <1>6 DEF BothKeep, MainKeeps

\* The main program uses its own registers and words, and keeps the vector.
LEMMA MainCooperates ==
  ASSUME NEW sizes, NEW firsts, NEW periods, ExampleSetting(sizes, firsts, periods),
         ExampleInv(sizes, firsts, periods), IInv, Fetched, Paced,
         phase = "execute", peripherals, ~InRoutine
  PROVE  BothKeep /\ MainKeeps
<1>1. /\ firsts \subseteq Nat /\ periods \subseteq Nat
      /\ \A period \in periods : period >= RoutineLen
      /\ Own = MainRegs /\ Ram = MainRam /\ Calls < CODE /\ Calls \in Nat
  BY Setting
<1>2. PICK first \in firsts, period \in periods, next \in 0 .. MainLen - 1 :
        /\ Routine = CODE + MainLen
        /\ Coded(Interrupted(first, period), systemState)
        /\ NextPC \in CODE .. CODE + MainLen - 1
        /\ MainLeads(period, next, registers, systemState, After, MemoryNext,
                     RegistersRead(Opcode(ir), Operands(ir)),
                     WordsRead(Opcode(ir), Operands(ir)))
  BY <1>1, MainExecutesLine DEF ExampleInv
<1>3. 25 <= codeSz
  BY <1>1, <1>2, InterruptedLines
<1>4. NextPC \in Ram
  BY <1>1, <1>2, <1>3, Layout DEF MainRam, MainLen
<1>5. /\ After[SCR] = 0 /\ WordsRead(Opcode(ir), Operands(ir)) = {}
      /\ MemoryNext[DMA + DCR] = 0 /\ MemoryNext[TIMER + 1] >= RoutineLen
      /\ MemoryNext[IVT + TimerIrq] = Routine
  BY <1>1, <1>2 DEF MainLeads, Paced, Routine
<1>6. RegistersRead(Opcode(ir), Operands(ir)) \subseteq Own \cup {PC}
  <2>1. RegistersRead(Opcode(ir), Operands(ir)) \subseteq 0 .. 6
    BY <1>2 DEF MainLeads
  <2> QED BY <1>1, <2>1 DEF MainRegs, Reg, NREGS, LR, PC
<1>7. After[PC] < Routine
  BY <1>2, Layout DEF MainLeads, MainLen
<1> QED BY <1>4, <1>5, <1>6, <1>7 DEF BothKeep, MainKeeps

\* The words that the system gives a meaning are words of the vector.
LEMMA KnownWords ==
  ASSUME IInv
  PROVE  /\ 0 .. MEMTOP - 1 \subseteq DOMAIN systemState
         /\ {IVT + TimerIrq, TIMER, TIMER + 1, DMA + DCR} \subseteq DOMAIN systemState
<1>1. PICK top \in {STATETOP - 1, STATETOP - 2} : systemState \in [0 .. top -> Word]
  BY DEF IInv, TypeOK
<1> QED BY <1>1, Layout DEF DCR, TimerIrq

\* The routine uses one word of its own, and ends where it was called from.
LEMMA RoutineCooperates ==
  ASSUME NEW sizes, NEW firsts, NEW periods, ExampleSetting(sizes, firsts, periods),
         ExampleInv(sizes, firsts, periods), IInv, Fetched, Paced,
         phase = "execute", peripherals, InRoutine
  PROVE  BothKeep /\ RoutineKeeps
<1>1. /\ firsts \subseteq Nat /\ periods \subseteq Nat
      /\ Own = MainRegs /\ Ram = MainRam /\ RoutineLen = IsrLen
      /\ Calls \notin {IVT + TimerIrq, TIMER, TIMER + 1, DMA + DCR}
  BY Setting
<1>2. PICK first \in firsts, period \in periods :
        /\ Routine = CODE + MainLen
        /\ NextPC \in CODE + MainLen .. CODE + MainLen + IsrLen - 1
        /\ MainKnown(period, registers[LR] - CODE, registers)
        /\ RoutineLeads(NextPC - CODE, registers, systemState, After, MemoryNext)
  BY <1>1, RoutineExecutesLine DEF ExampleInv
<1>3. \A r \in Own : After[r] = registers[r]
  BY <1>1, <1>2 DEF RoutineLeads
<1>4. \A a \in Ram \cup {IVT + TimerIrq, TIMER, TIMER + 1, DMA + DCR} :
        MemoryNext[a] = systemState[a]
  <2>1. Ram \cup {IVT + TimerIrq, TIMER, TIMER + 1, DMA + DCR}
          \subseteq DOMAIN systemState \ {Calls}
    BY <1>1, KnownWords, Zenon DEF MainRam
  <2> QED BY <1>2, <2>1 DEF RoutineLeads
<1>5. After[SCR] = 0
  <2>1. SCR \in Own
    BY <1>1 DEF MainRegs, SCR, LR, PC, Reg, NREGS
  <2> QED BY <1>3, <2>1 DEF Paced
<1>6. BothKeep
  BY <1>4, <1>5 DEF BothKeep, Paced
<1>7. registers[LR] \in Int
  <2>1. LR \in Reg
    BY DEF LR, Reg, NREGS
  <2> QED BY <2>1, StateTypes, WordAssumption DEF Word
<1>8. \/ After[PC] \in NextPC + 1 .. Routine + RoutineLen - 1 /\ After[LR] = registers[LR]
      \/ After[PC] < Routine /\ After[PC] = registers[LR]
  <2>1. CASE NextPC - CODE < MainLen + IsrLen - 1
    <3>1. After[PC] = CODE + (NextPC - CODE) + 1 /\ After[LR] = registers[LR]
      BY <1>2, <2>1 DEF RoutineLeads
    <3> QED BY <1>1, <1>2, <2>1, <3>1, Layout DEF MainLen, IsrLen
  <2>2. CASE ~(NextPC - CODE < MainLen + IsrLen - 1)
    <3>1. After[PC] = registers[LR]
      BY <1>2, <2>2 DEF RoutineLeads
    <3>2. registers[LR] - CODE \in 0 .. MainLen - 1
      BY <1>2 DEF MainKnown
    <3> QED BY <1>2, <1>7, <3>1, <3>2, Layout DEF MainLen
  <2> QED BY <2>1, <2>2
<1> QED BY <1>3, <1>4, <1>6, <1>8 DEF RoutineKeeps

\* So both programs cooperate.
LEMMA ExampleCooperates ==
  ASSUME NEW sizes, NEW firsts, NEW periods, ExampleSetting(sizes, firsts, periods),
         ExampleInv(sizes, firsts, periods), IInv, Fetched, Paced
  PROVE  Cooperate
<1>1. phase = "devices" /\ ncycles = 0 => ~InRoutine
  BY BetweenCycles
<1>2. ASSUME phase = "execute", ~InstructionRaises
      PROVE  BothKeep /\ IF InRoutine THEN RoutineKeeps ELSE MainKeeps
  <2>1. CASE ~peripherals
    BY <1>2, <2>1, FibonacciCooperates DEF InRoutine
  <2>2. CASE peripherals /\ InRoutine
    BY <1>2, <2>2, RoutineCooperates
  <2>3. CASE peripherals /\ ~InRoutine
    BY <1>2, <2>3, MainCooperates
  <2> QED BY <2>1, <2>2, <2>3
<1> QED BY <1>1, <1>2 DEF Cooperate

-----------------------------------------------------------------------------
(* The invariant is inductive *)

\* A program stays in memory as long as its words do.
LEMMA CodedKept ==
  ASSUME NEW p, NEW n \in Nat, Len(p) = n, NEW memory, Coded(p, memory),
         NEW newMemory, \A a \in CODE .. MEMTOP - 1 : newMemory[a] = memory[a]
  PROVE  Coded(p, newMemory)
<1>1. n <= codeSz /\ \A i \in 1 .. n : memory[CODE + i - 1] = EncodeInstruction(p, i)
  BY DEF Coded
<1>2. \A i \in 1 .. n : CODE + i - 1 \in CODE .. MEMTOP - 1
  BY <1>1, Layout
<1>3. \A i \in 1 .. n : newMemory[CODE + i - 1] = EncodeInstruction(p, i)
  BY <1>1, <1>2
<1> QED BY <1>1, <1>3 DEF Coded

\* The programs keep their code, whatever else changes.
LEMMA ProgramsKept ==
  ASSUME NEW memory, NEW newMemory, \A a \in CODE .. MEMTOP - 1 : newMemory[a] = memory[a]
  PROVE  /\ \A max : Coded(Fibonacci(max), memory) => Coded(Fibonacci(max), newMemory)
         /\ \A first, period : Coded(Interrupted(first, period), memory) =>
                                 Coded(Interrupted(first, period), newMemory)
<1>1. ASSUME NEW p, NEW n \in Nat, Len(p) = n, Coded(p, memory)
      PROVE  Coded(p, newMemory)
  BY <1>1, CodedKept
<1>2. ASSUME NEW max, Coded(Fibonacci(max), memory) PROVE Coded(Fibonacci(max), newMemory)
  <2>1. Len(Fibonacci(max)) = 19
    BY DEF Fibonacci
  <2>2. Len(Fibonacci(max)) \in Nat
    BY <2>1
  <2> QED BY <1>1, <1>2, <2>2, Zenon
<1>3. ASSUME NEW first, NEW period, Coded(Interrupted(first, period), memory)
      PROVE  Coded(Interrupted(first, period), newMemory)
  <2>1. Len(Interrupted(first, period)) = 25
    BY DEF Interrupted
  <2>2. Len(Interrupted(first, period)) \in Nat
    BY <2>1
  <2> QED BY <1>1, <1>3, <2>2, Zenon
<1> QED BY <1>2, <1>3

\* What is known depends on the registers below 13 only.
LEMMA SameKnown ==
  ASSUME NEW file, NEW newFile, \A r \in 1 .. 6 : newFile[r] = file[r]
  PROVE  /\ \A max, at, memory : FibKnown(max, at, file, memory) =>
                                   FibKnown(max, at, newFile, memory)
         /\ \A period, at : MainKnown(period, at, file) => MainKnown(period, at, newFile)
<1>1. /\ newFile[1] = file[1] /\ newFile[2] = file[2] /\ newFile[3] = file[3]
      /\ newFile[4] = file[4] /\ newFile[5] = file[5] /\ newFile[6] = file[6]
  OBVIOUS
<1>2. ASSUME NEW max, NEW at, NEW memory, FibKnown(max, at, file, memory)
      PROVE  FibKnown(max, at, newFile, memory)
  BY <1>1, <1>2 DEF FibKnown
<1>3. ASSUME NEW period, NEW at, MainKnown(period, at, file)
      PROVE  MainKnown(period, at, newFile)
  BY <1>1, <1>3, Zenon DEF MainKnown
<1> QED BY <1>2, <1>3

\* Nothing that the programs rely on changes.
LEMMA ExampleKept ==
  ASSUME NEW sizes, NEW firsts, NEW periods, ExampleInv(sizes, firsts, periods),
         peripherals' = peripherals, \A r \in 0 .. 12 : registers'[r] = registers[r],
         NextPC' = NextPC, MainPC' = MainPC,
         ~peripherals => systemState' = systemState,
         \A a \in 0 .. MEMTOP - 1 : systemState'[a] = systemState[a]
  PROVE  FibRuns(sizes)' /\ RoutineRuns(firsts, periods)'
<1>1. \A r \in 1 .. 6 : registers'[r] = registers[r]
  OBVIOUS
<1>2. ASSUME ~peripherals PROVE FibRuns(sizes)'
  <2>1. PICK max \in sizes :
          /\ Coded(Fibonacci(max), systemState)
          /\ \A a \in CODE + 19 .. MEMTOP - 1 : systemState[a] = 0
          /\ FibKnown(max, NextPC - CODE, registers, systemState)
    BY <1>2, Zenon DEF ExampleInv, FibRuns
  <2>2. FibKnown(max, NextPC - CODE, registers', systemState)
    BY <1>1, <2>1, SameKnown
  <2> QED BY <1>2, <2>1, <2>2 DEF FibRuns
<1>3. ASSUME peripherals PROVE RoutineRuns(firsts, periods)'
  <2>1. PICK first \in firsts, period \in periods :
          /\ Coded(Interrupted(first, period), systemState)
          /\ Routine = CODE + MainLen
          /\ NextPC \in CODE .. CODE + MainLen + IsrLen - 1
          /\ NextPC = CODE + 23 => registers[12] = Calls
          /\ MainKnown(period, MainPC - CODE, registers)
    BY <1>3, Zenon DEF ExampleInv, RoutineRuns
  <2>2. MainKnown(period, MainPC - CODE, registers')
    BY <1>1, <2>1, SameKnown
  <2>3. \A a \in CODE .. MEMTOP - 1 : systemState'[a] = systemState[a]
    BY Layout
  <2>4. Coded(Interrupted(first, period), systemState')
    BY <2>1, <2>3, ProgramsKept, Zenon
  <2>5. Routine' = Routine /\ registers'[12] = registers[12]
    BY VectorInRam DEF Routine
  <2> QED BY <2>1, <2>2, <2>4, <2>5 DEF RoutineRuns
<1> QED BY <1>2, <1>3 DEF FibRuns, RoutineRuns

\* The peripherals change nothing that a program relies on.
LEMMA DevicesExample ==
  ASSUME NEW sizes, NEW firsts, NEW periods, ExampleInv(sizes, firsts, periods), IInv, RunDevices
  PROVE  ExampleInv(sizes, firsts, periods)'
<1>1. /\ phase = "devices" /\ phase' = "fetch" /\ registers' = registers
      /\ peripherals' = peripherals /\ (~peripherals => systemState' = systemState)
  BY DEF RunDevices, cfg
<1>2. \A a \in 0 .. MEMTOP - 1 : systemState'[a] = systemState[a]
  <2>1. peripherals => systemState' = StepPeripherals(systemState)
    BY DEF RunDevices
  <2> QED BY <1>1, <2>1, PeripheralStep
<1>3. NextPC' = NextPC /\ Routine' = Routine
  BY <1>1, <1>2, VectorInRam DEF NextPC, Routine
<1>4. MainPC' = MainPC
  BY <1>1, <1>3 DEF MainPC, InRoutine
<1>5. FibRuns(sizes)' /\ RoutineRuns(firsts, periods)'
  BY <1>1, <1>2, <1>3, <1>4, ExampleKept
<1> QED BY <1>1, <1>5 DEF ExampleInv

\* A request leads from any line of the main program to the routine, with the
\* return address in LR.
LEMMA FetchExample ==
  ASSUME NEW sizes, NEW firsts, NEW periods, ExampleInv(sizes, firsts, periods),
         IInv, Fetched, Paced, Fetch
  PROVE  ExampleInv(sizes, firsts, periods)'
<1>1. /\ phase = "fetch" /\ phase' = "execute" /\ systemState' = systemState
      /\ peripherals' = peripherals /\ NextPC = registers[PC]
  BY FetchServes DEF Fetch, cfg, NextPC
<1>2. NextPC' = CheckIrqs[PC] /\ \A r \in Reg \ {PC} : registers'[r] = CheckIrqs[r]
  BY <1>1, FetchNext DEF NextPC
<1>3. /\ LR \in Reg \ {PC} /\ 0 .. 12 \subseteq Reg \ {LR, PC}
  BY DEF LR, PC, Reg, NREGS
<1>4. \A r \in 0 .. 12 : registers'[r] = registers[r]
  BY <1>2, <1>3, FetchServes
<1>5. CASE irqs = {}
  <2>1. NextPC' = NextPC /\ registers'[LR] = registers[LR] /\ Routine' = Routine
    BY <1>1, <1>2, <1>3, <1>5, FetchServes DEF Routine
  <2>2. MainPC' = MainPC
    BY <1>1, <2>1 DEF MainPC, InRoutine
  <2>3. FibRuns(sizes)' /\ RoutineRuns(firsts, periods)'
    BY <1>1, <1>4, <2>1, <2>2, ExampleKept
  <2> QED BY <1>1, <2>3 DEF ExampleInv
<1>6. CASE irqs # {}
  <2>1. peripherals /\ ~InRoutine
    BY <1>1, <1>6 DEF Fetched, Paced
  <2>2. NextPC' = Routine /\ registers'[LR] = NextPC /\ Routine' = Routine
    BY <1>1, <1>2, <1>3, <1>6, FetchServes DEF Routine
  <2>3. PICK first \in firsts, period \in periods :
          /\ Coded(Interrupted(first, period), systemState)
          /\ Routine = CODE + MainLen
          /\ NextPC \in CODE .. CODE + MainLen + IsrLen - 1
          /\ MainKnown(period, MainPC - CODE, registers)
    BY <2>1, Zenon DEF ExampleInv, RoutineRuns
  <2>4. MainPC' = MainPC
    BY <1>1, <2>1, <2>2, <2>3, Layout DEF MainPC, InRoutine, MainLen
  <2>5. MainKnown(period, MainPC - CODE, registers')
    <3>1. \A r \in 1 .. 6 : registers'[r] = registers[r]
      BY <1>4
    <3> QED BY <2>3, <3>1, SameKnown
  <2>6. /\ NextPC' \in CODE .. CODE + MainLen + IsrLen - 1
        /\ NextPC' # CODE + 23
    BY <2>2, <2>3, Layout DEF MainLen, IsrLen
  <2>7. RoutineRuns(firsts, periods)'
    BY <1>1, <2>2, <2>3, <2>4, <2>5, <2>6 DEF RoutineRuns
  <2> QED BY <1>1, <2>1, <2>7 DEF ExampleInv, FibRuns
<1> QED BY <1>5, <1>6

\* Each instruction leads to a line of its program.
LEMMA ExecuteExample ==
  ASSUME NEW sizes, NEW firsts, NEW periods, ExampleSetting(sizes, firsts, periods),
         ExampleInv(sizes, firsts, periods), IInv, Fetched, Execute
  PROVE  ExampleInv(sizes, firsts, periods)'
<1>1. /\ phase = "execute" /\ phase' = "devices" /\ ~InstructionRaises
      /\ registers' = After /\ systemState' = MemoryNext
      /\ peripherals' = peripherals /\ ncycles' = ncycles + 1 /\ NextPC' = After[PC]
  BY DEF Execute, After, MemoryNext, cfg, NextPC
<1>2. ncycles' # 0
  BY <1>1, StateTypes
<1>3. /\ sizes \subseteq 1 .. CODE /\ firsts \subseteq Nat /\ periods \subseteq Nat
      /\ Calls \in Nat /\ Calls < CODE /\ Calls # IVT + TimerIrq
  BY Setting
<1>4. CASE ~peripherals
  <2>1. PICK max \in sizes, next \in Int :
          /\ FibAt(max, NextPC - CODE, registers, systemState)
          /\ FibLeads(max, next, registers, systemState, After, MemoryNext,
                      RegistersRead(Opcode(ir), Operands(ir)),
                      WordsRead(Opcode(ir), Operands(ir)))
    BY <1>1, <1>3, <1>4, FibExecutes DEF ExampleInv
  <2>2. /\ Coded(Fibonacci(max), systemState)
        /\ \A a \in CODE + 19 .. MEMTOP - 1 : systemState[a] = 0
    BY <2>1 DEF FibAt
  <2>3. /\ FibKnown(max, next, registers', systemState') /\ NextPC' = CODE + next
        /\ \A a \in CODE .. MEMTOP - 1 : systemState'[a] = systemState[a]
    BY <1>1, <2>1 DEF FibLeads
  <2>4. NextPC' - CODE = next
    BY <2>3, Layout
  <2>5. Coded(Fibonacci(max), systemState')
    BY <2>2, <2>3, ProgramsKept, Zenon
  <2>6. \A a \in CODE + 19 .. MEMTOP - 1 : systemState'[a] = 0
    BY <2>2, <2>3, Layout
  <2>7. FibRuns(sizes)'
    BY <2>3, <2>4, <2>5, <2>6 DEF FibRuns
  <2> QED BY <1>1, <1>2, <1>4, <2>7 DEF ExampleInv, RoutineRuns
<1>5. CASE peripherals /\ ~InRoutine
  <2>1. PICK first \in firsts, period \in periods, next \in 0 .. MainLen - 1 :
          /\ Coded(Interrupted(first, period), systemState)
          /\ Routine = CODE + MainLen
          /\ MainLeads(period, next, registers, systemState, After, MemoryNext,
                       RegistersRead(Opcode(ir), Operands(ir)),
                       WordsRead(Opcode(ir), Operands(ir)))
    BY <1>1, <1>3, <1>5, MainExecutesLine DEF ExampleInv
  <2>2. /\ MainKnown(period, next, registers') /\ NextPC' = CODE + next
        /\ \A a \in CODE .. MEMTOP - 1 : systemState'[a] = systemState[a]
        /\ systemState'[IVT + TimerIrq] = systemState[IVT + TimerIrq]
    BY <1>1, <2>1 DEF MainLeads
  <2>3. Routine' = Routine
    BY <2>2 DEF Routine
  <2>4. /\ NextPC' \in CODE .. CODE + MainLen + IsrLen - 1 /\ NextPC' # CODE + 23
        /\ MainPC' = CODE + next
    BY <2>1, <2>2, <2>3, Layout DEF MainPC, InRoutine, MainLen, IsrLen
  <2>5. MainPC' - CODE = next
    BY <2>4, Layout
  <2>6. Coded(Interrupted(first, period), systemState')
    BY <2>1, <2>2, ProgramsKept, Zenon
  <2>7. RoutineRuns(firsts, periods)'
    BY <2>1, <2>2, <2>3, <2>4, <2>5, <2>6 DEF RoutineRuns
  <2> QED BY <1>1, <1>2, <1>5, <2>7 DEF ExampleInv, FibRuns
<1>6. CASE peripherals /\ InRoutine
  <2>1. PICK first \in firsts, period \in periods :
          /\ Coded(Interrupted(first, period), systemState)
          /\ Routine = CODE + MainLen
          /\ NextPC \in CODE + MainLen .. CODE + MainLen + IsrLen - 1
          /\ MainKnown(period, registers[LR] - CODE, registers)
          /\ RoutineLeads(NextPC - CODE, registers, systemState, After, MemoryNext)
    BY <1>1, <1>3, <1>6, RoutineExecutesLine DEF ExampleInv
  <2>2. /\ \A r \in MainRegs : registers'[r] = registers[r]
        /\ \A a \in DOMAIN systemState \ {Calls} : systemState'[a] = systemState[a]
    BY <1>1, <2>1 DEF RoutineLeads
  <2>3. MainKnown(period, registers[LR] - CODE, registers')
    <3>1. 1 .. 6 \subseteq MainRegs
      BY DEF MainRegs, Reg, NREGS, LR, PC
    <3>2. \A r \in 1 .. 6 : registers'[r] = registers[r]
      BY <2>2, <3>1
    <3> QED BY <2>1, <3>2, SameKnown
  <2>4. Routine' = Routine /\ \A a \in CODE .. MEMTOP - 1 : systemState'[a] = systemState[a]
    <3>1. CODE .. MEMTOP - 1 \subseteq DOMAIN systemState \ {Calls}
      BY <1>3, KnownWords, Layout
    <3>2. IVT + TimerIrq \in DOMAIN systemState \ {Calls}
      BY <1>3, KnownWords
    <3> QED BY <2>2, <3>1, <3>2 DEF Routine
  <2>5. Coded(Interrupted(first, period), systemState')
    BY <2>1, <2>4, ProgramsKept, Zenon
  <2>6. registers[LR] \in CODE .. CODE + MainLen - 1
    <3>1. registers[LR] - CODE \in 0 .. MainLen - 1
      BY <2>1 DEF MainKnown
    <3>2. registers[LR] \in Int
      <4>1. LR \in Reg
        BY DEF LR, Reg, NREGS
      <4> QED BY <4>1, StateTypes, WordAssumption DEF Word
    <3> QED BY <3>1, <3>2, Layout DEF MainLen
  <2>7. /\ NextPC' \in CODE .. CODE + MainLen + IsrLen - 1
        /\ NextPC' = CODE + 23 => registers'[12] = Calls
        /\ MainPC' = registers[LR]
    <3>1. CASE NextPC - CODE < MainLen + IsrLen - 1
      <4>1. /\ NextPC' = CODE + (NextPC - CODE) + 1 /\ registers'[LR] = registers[LR]
            /\ (NextPC - CODE) + 1 = 23 => registers'[12] = Calls
        BY <1>1, <2>1, <3>1 DEF RoutineLeads
      <4> QED BY <1>1, <1>6, <2>1, <2>4, <3>1, <4>1, Layout DEF MainPC, InRoutine, MainLen, IsrLen
    <3>2. CASE ~(NextPC - CODE < MainLen + IsrLen - 1)
      <4>1. NextPC' = registers[LR]
        BY <1>1, <2>1, <3>2 DEF RoutineLeads
      <4> QED BY <1>1, <1>6, <2>1, <2>4, <2>6, <4>1, Layout DEF MainPC, InRoutine, MainLen, IsrLen
    <3> QED BY <3>1, <3>2
  <2>8. RoutineRuns(firsts, periods)'
    BY <2>1, <2>3, <2>4, <2>5, <2>7 DEF RoutineRuns
  <2> QED BY <1>1, <1>2, <1>6, <2>8 DEF ExampleInv, FibRuns
<1> QED BY <1>4, <1>5, <1>6

\* Every step keeps the invariant.
LEMMA ExampleStep ==
  ASSUME NEW sizes, NEW firsts, NEW periods, ExampleSetting(sizes, firsts, periods),
         ExampleInv(sizes, firsts, periods), IInv, Fetched, Paced, [Next]_vars
  PROVE  ExampleInv(sizes, firsts, periods)'
<1>1. CASE Stop \/ UNCHANGED vars
  <2>1. /\ registers' = registers /\ systemState' = systemState /\ ncycles' = ncycles
        /\ peripherals' = peripherals /\ (phase' = "devices" => phase = "devices")
        /\ phase' \in {"execute", "executeError"} <=> phase \in {"execute", "executeError"}
    BY <1>1 DEF Stop, vars, cfg
  <2>2. NextPC' = NextPC /\ MainPC' = MainPC
    BY <2>1 DEF MainPC, InRoutine, NextPC, Routine
  <2>3. FibRuns(sizes)' /\ RoutineRuns(firsts, periods)'
    BY <2>1, <2>2, ExampleKept
  <2> QED BY <2>1, <2>3 DEF ExampleInv
<1> QED BY <1>1, DevicesExample, FetchExample, ExecuteExample DEF Next

-----------------------------------------------------------------------------
(* Theorems about the two programs *)

\* The initial states satisfy it.
LEMMA InitExamples ==
  ASSUME NEW sizes, NEW firsts, NEW periods, ExampleSetting(sizes, firsts, periods), Init, IInv
  PROVE  Paced /\ ExampleInv(sizes, firsts, periods)
<1>1. ExampleInv(sizes, firsts, periods) /\ ~InRoutine
  BY InitExampleInv
<1>2. Cooperate
  BY <1>1 DEF Cooperate, Init
<1> QED BY <1>1, <1>2, InitPaced

\* The inductive invariant, in every reachable state.
LEMMA ExampleInvariance ==
  ASSUME NEW CONSTANT sizes, NEW CONSTANT firsts, NEW CONSTANT periods,
         ExampleSetting(sizes, firsts, periods)
  PROVE  Spec => [](Paced /\ ExampleInv(sizes, firsts, periods))
<1>1. Init /\ IInv => Paced /\ ExampleInv(sizes, firsts, periods)
  BY InitExamples
<1>2. IInv /\ Fetched /\ Paced /\ ExampleInv(sizes, firsts, periods) /\ [Next]_vars =>
        Paced' /\ ExampleInv(sizes, firsts, periods)'
  BY ExampleCooperates, ExampleStep, PacedStep
<1> QED BY <1>1, <1>2, Invariance, FetchedInvariant, PTL DEF Spec

\* Main program and routine of the interrupted program keep to themselves,
\* wherever the timer interrupts (checkIrqs), with any first delay and any
\* period no shorter than the routine; the example of load_code, which has no
\* routine, does too.
THEOREM ExamplesCooperate ==
  ASSUME NEW CONSTANT sizes, NEW CONSTANT firsts, NEW CONSTANT periods,
         ExampleSetting(sizes, firsts, periods)
  PROVE  Spec => []Cooperate
<1>1. IInv /\ Fetched /\ Paced /\ ExampleInv(sizes, firsts, periods) => Cooperate
  BY ExampleCooperates
<1> QED BY <1>1, ExampleInvariance, Invariance, FetchedInvariant, PTL

\* So interrupts are invisible to the main program of either: it does what it
\* would do without them (checkIrqs saves PC in LR, the routine returns to it).
THEOREM ExamplesUninterrupted ==
  ASSUME NEW CONSTANT sizes, NEW CONSTANT firsts, NEW CONSTANT periods,
         ExampleSetting(sizes, firsts, periods)
  PROVE  Spec => ImplementsMain
BY ExamplesCooperate, InterruptsInvisible, PTL

\* At the head of the loop and behind it the table is as far as it should be.
LEMMA TableComplete ==
  ASSUME NEW sizes, NEW firsts, NEW periods, ExampleSetting(sizes, firsts, periods),
         ExampleInv(sizes, firsts, periods), IInv
  PROVE  FibTable
<1> SUFFICES ASSUME ~peripherals, phase = "devices" PROVE FibTable
  BY DEF FibTable
<1>1. PICK max \in sizes : /\ Coded(Fibonacci(max), systemState)
                           /\ FibKnown(max, NextPC - CODE, registers, systemState)
  BY Zenon DEF ExampleInv, FibRuns
<1>2. max \in 1 .. CODE /\ max \in Nat
  BY <1>1, Layout, Setting
<1>3. FibMax = max
  <2>1. Decoded(systemState[CODE + 9], SET, <<4, max, None>>)
    BY <1>1, <1>2, FibonacciLines, Zenon
  <2>2. SET \in RegAddrOps /\ SET \notin {B, BL, BX} /\ SET \notin {NOP, WFI, HLI}
    BY DEF RegAddrOps, SET, B, BL, BX, NOP, WFI, HLI
  <2>3. Operands(systemState[CODE + 9]) = DecodeRegAddrArgs(systemState[CODE + 9])
    BY <2>1, <2>2, Zenon DEF Decoded, Operands
  <2> QED BY <2>1, <2>3, SMT DEF Decoded, DecodeRegAddrArgs, FibMax
<1>4. \A first : TableIn(first, max, systemState) => TableFrom(first)
  BY <1>3 DEF TableIn, TableFrom, Behind, Entry
<1>5. NextPC = registers[PC]
  BY DEF NextPC
<1>6. registers[PC] = CODE + 11 => TableIn(registers[4], max, systemState)
  BY <1>1, <1>5, Layout DEF FibKnown
<1>7. registers[PC] = CODE + 17 => TableIn(0, max, systemState)
  BY <1>1, <1>5, Layout DEF FibKnown
<1> QED BY <1>4, <1>6, <1>7 DEF FibTable

\* The example of load_code (abstract_system_code.py) leaves the table that its
\* high-level version fib_hl computes, whatever the length of the table and the
\* memory map: each word is the sum of the two behind it, modulo the number of
\* words.
THEOREM FibonacciTable ==
  ASSUME NEW CONSTANT sizes, NEW CONSTANT firsts, NEW CONSTANT periods,
         ExampleSetting(sizes, firsts, periods)
  PROVE  Spec => []FibTable
<1>1. IInv /\ ExampleInv(sizes, firsts, periods) => FibTable
  BY TableComplete
<1> QED BY <1>1, ExampleInvariance, Invariance, PTL

-----------------------------------------------------------------------------
(* The C++ port (CppSystem) as an implementation of the same main program.  *)
(* Its state has the names of the Python model's, but for the timer, which  *)
(* is no part of systemState; the vector table comes on top of the heap.    *)

CONSTANT Sources \* the programs: sequences of lines [op, args, label]

VARIABLES timerState, timerIrq

Port == INSTANCE CppSystem WITH deviceSz <- deviceStateSz

PortOwn == Port!CppReg \ {PC}
PortRam == 0 .. Port!ramStateSz - 1

\* The encoder of the Python model, for code at the same address.
Python == INSTANCE Assembler WITH heapSz <- heapSz + IVTsz

\* The states in which the Python model starts the programs: the same table of
\* vectors, the words of its own encoder.
PortStarts ==
  {[registers |-> [r \in PortOwn |-> 0],
    ram |-> [a \in PortRam |->
               IF a < IVTsz THEN Python!CODE
               ELSE IF a - Python!CODE \in 0 .. Len(p) - 1
                 THEN Python!EncodeProgram(p).words[a - Python!CODE + 1]
               ELSE 0]] : p \in Sources}

PortMain == INSTANCE MainProgram
              WITH heapSz <- heapSz + IVTsz, Starts <- PortStarts,
                   Own <- PortOwn, Ram <- PortRam, pc <- registers[PC],
                   registers <- [r \in PortOwn |-> registers[r]],
                   ram <- [a \in PortRam |-> systemState[a]]

\* The label of a branch
Target(line) == IF line.op \in {B, BL} THEN line.args[1] ELSE line.args[2]

\* Lines that the Python encoder accepts, but for those that are high-level code,
\* with words that load_code can store; and labels for which the port has a place,
\* of which 0 is not one a branch can go to.
PortSources ==
  \A p \in Sources :
    /\ p \in Seq([op : Nat, args : Seq(Nat), label : Nat \cup {None}])
    /\ \A i \in 1 .. Len(p) : /\ ~Python!EncodeRaises(p, i) /\ p[i].op # HLI
                              /\ Python!EncodeInstruction(p, i) \in Word
    /\ ~Port!LabelsOutside(p)
    /\ \A i \in 1 .. Len(p) : p[i].op \in {B, BL, CBZ, CBNZ, ADR} => Target(p[i]) # 0

\* The opcodes and registers of the port are those of the Python model,
LEMMA PortOpcodes ==
  /\ Port!ADD = ADD /\ Port!SUB = SUB /\ Port!MUL = MUL /\ Port!DIV = DIV
  /\ Port!AND = AND /\ Port!ORR = ORR /\ Port!EOR = EOR /\ Port!ASR = ASR
  /\ Port!ASL = ASL /\ Port!LDR = LDR /\ Port!STR = STR /\ Port!BL = BL
  /\ Port!BX = BX /\ Port!PUSH = PUSH /\ Port!POP = POP /\ Port!MOV = MOV
  /\ Port!SET = SET /\ Port!NOP = NOP /\ Port!CBZ = CBZ /\ Port!CBNZ = CBNZ
  /\ Port!B = B /\ Port!ADR = ADR /\ Port!WFI = WFI /\ Port!HLI = HLI
  /\ Port!SP = SP /\ Port!LR = LR /\ Port!PC = PC
BY DEF Port!ADD, ADD, Port!SUB, SUB, Port!MUL, MUL, Port!DIV, DIV,
       Port!AND, AND, Port!ORR, ORR, Port!EOR, EOR, Port!ASR, ASR,
       Port!ASL, ASL, Port!LDR, LDR, Port!STR, STR, Port!BL, BL, Port!BX, BX,
       Port!PUSH, PUSH, Port!POP, POP, Port!MOV, MOV, Port!SET, SET,
       Port!NOP, NOP, Port!CBZ, CBZ, Port!CBNZ, CBNZ, Port!B, B,
       Port!ADR, ADR, Port!WFI, WFI, Port!HLI, HLI, Port!SP, SP, Port!LR, LR,
       Port!PC, PC

\* as those of the main program do
LEMMA PortMainOpcodes ==
  /\ PortMain!ADD = ADD /\ PortMain!SUB = SUB /\ PortMain!MUL = MUL
  /\ PortMain!DIV = DIV /\ PortMain!AND = AND /\ PortMain!ORR = ORR
  /\ PortMain!EOR = EOR /\ PortMain!ASR = ASR /\ PortMain!ASL = ASL
  /\ PortMain!LDR = LDR /\ PortMain!STR = STR /\ PortMain!BL = BL
  /\ PortMain!BX = BX /\ PortMain!PUSH = PUSH /\ PortMain!POP = POP
  /\ PortMain!MOV = MOV /\ PortMain!SET = SET /\ PortMain!NOP = NOP
  /\ PortMain!CBZ = CBZ /\ PortMain!CBNZ = CBNZ /\ PortMain!B = B
  /\ PortMain!ADR = ADR /\ PortMain!WFI = WFI /\ PortMain!HLI = HLI
  /\ PortMain!SP = SP /\ PortMain!LR = LR /\ PortMain!PC = PC
BY DEF PortMain!ADD, ADD, PortMain!SUB, SUB, PortMain!MUL, MUL,
       PortMain!DIV, DIV, PortMain!AND, AND, PortMain!ORR, ORR,
       PortMain!EOR, EOR, PortMain!ASR, ASR, PortMain!ASL, ASL,
       PortMain!LDR, LDR, PortMain!STR, STR, PortMain!BL, BL,
       PortMain!BX, BX, PortMain!PUSH, PUSH, PortMain!POP, POP,
       PortMain!MOV, MOV, PortMain!SET, SET, PortMain!NOP, NOP,
       PortMain!CBZ, CBZ, PortMain!CBNZ, CBNZ, PortMain!B, B,
       PortMain!ADR, ADR, PortMain!WFI, WFI, PortMain!HLI, HLI,
       PortMain!SP, SP, PortMain!LR, LR, PortMain!PC, PC

\* and those of the Python encoder for that memory map.
LEMMA PythonOpcodes ==
  /\ Python!ADD = ADD /\ Python!SUB = SUB /\ Python!MUL = MUL
  /\ Python!DIV = DIV /\ Python!AND = AND /\ Python!ORR = ORR
  /\ Python!EOR = EOR /\ Python!ASR = ASR /\ Python!ASL = ASL
  /\ Python!LDR = LDR /\ Python!STR = STR /\ Python!BL = BL
  /\ Python!BX = BX /\ Python!PUSH = PUSH /\ Python!POP = POP
  /\ Python!MOV = MOV /\ Python!SET = SET /\ Python!NOP = NOP
  /\ Python!CBZ = CBZ /\ Python!CBNZ = CBNZ /\ Python!B = B
  /\ Python!ADR = ADR /\ Python!WFI = WFI /\ Python!HLI = HLI
  /\ Python!SP = SP /\ Python!LR = LR /\ Python!PC = PC
BY DEF Python!ADD, ADD, Python!SUB, SUB, Python!MUL, MUL, Python!DIV, DIV,
       Python!AND, AND, Python!ORR, ORR, Python!EOR, EOR, Python!ASR, ASR,
       Python!ASL, ASL, Python!LDR, LDR, Python!STR, STR, Python!BL, BL,
       Python!BX, BX, Python!PUSH, PUSH, Python!POP, POP, Python!MOV, MOV,
       Python!SET, SET, Python!NOP, NOP, Python!CBZ, CBZ, Python!CBNZ, CBNZ,
       Python!B, B, Python!ADR, ADR, Python!WFI, WFI, Python!HLI, HLI,
       Python!SP, SP, Python!LR, LR, Python!PC, PC

\* The opcodes as numbers
LEMMA OpcodeValues ==
  /\ ADD = 0 /\ SUB = 1 /\ MUL = 2 /\ DIV = 3 /\ AND = 4 /\ ORR = 5
  /\ EOR = 6 /\ ASR = 7 /\ ASL = 8 /\ LDR = 16 /\ STR = 17 /\ BL = 18
  /\ BX = 19 /\ PUSH = 20 /\ POP = 21 /\ MOV = 22 /\ SET = 23 /\ NOP = 24
  /\ CBZ = 25 /\ CBNZ = 26 /\ B = 27 /\ ADR = 28 /\ WFI = 29 /\ HLI = 30
BY DEF ADD, SUB, MUL, DIV, AND, ORR, EOR, ASR, ASL, LDR, STR, BL, BX, PUSH, POP, MOV,
       SET, NOP, CBZ, CBNZ, B, ADR, WFI, HLI

\* The memory maps: the code is at the same address, and the port's words are
\* among those of the Python model.
LEMMA PortMap ==
  /\ Port!CODE \in Nat /\ Port!CODE = PortMain!CODE /\ Port!CODE = Python!CODE
  /\ Port!ramStateSz \in Nat /\ Port!ramStateSz + deviceStateSz < W
  /\ PortMain!STATETOP \in Nat /\ Port!ramStateSz + deviceStateSz <= PortMain!STATETOP
  /\ deviceStateSz \in Nat
  /\ PortMain!Reg = Reg /\ Port!CppReg = 0 .. 15
<1>1. PortMain!Reg = Reg /\ Port!CppReg = 0 .. 15
  BY DEF PortMain!Reg, PortMain!NREGS, Reg, NREGS, Port!CppReg
<1>2. /\ Port!CODE = IVTsz + heapSz + stackSz /\ Port!ramStateSz = heapSz + stackSz + codeSz
      /\ PortMain!CODE = 0 + IVTsz + (heapSz + IVTsz) - IVTsz + stackSz
      /\ Python!CODE = PortMain!CODE
      /\ PortMain!STATETOP = PortMain!CODE + codeSz + timerStateSz + deviceStateSz + dmaStateSz
  BY DEF Port!CODE, Port!ramStateSz, PortMain!CODE, PortMain!STACK, PortMain!HEAP,
         PortMain!IVT, Python!CODE, Python!STACK, Python!HEAP, Python!IVT, PortMain!STATETOP,
         PortMain!DMA, PortMain!KBD, PortMain!TIMER, PortMain!MEMTOP
<1>3. /\ IVTsz \in Nat /\ heapSz \in Nat /\ stackSz \in Nat /\ codeSz \in Nat
      /\ timerStateSz \in Nat /\ deviceStateSz \in Nat /\ dmaStateSz \in Nat /\ W \in Nat
      /\ heapSz + stackSz + codeSz + timerStateSz + deviceStateSz + dmaStateSz < W
  BY LayoutAssumption, WordAssumption
<1> QED BY <1>1, <1>2, <1>3

\* What an operation of the ALU leaves does not depend on whose definitions are
\* read.
LEMMA PortAlu ==
  \A op, x, y : Port!Alu(op, x, y) = Alu(op, x, y) /\ PortMain!Alu(op, x, y) = Alu(op, x, y)
<1> TAKE op, x, y
<1>1. Port!Alu(op, x, y) = Alu(op, x, y)
  BY DEF Port!Alu, Alu, Port!Bit, Bit, Port!FromBits, FromBits, Port!MapThenSumSet,
         MapThenSumSet, Port!MapThenFoldSet, MapThenFoldSet, Port!Word, Word,
         Port!Quotient, Quotient, Port!Rounded, Rounded,
         Port!ADD, ADD, Port!SUB, SUB, Port!MUL, MUL, Port!DIV, DIV, Port!AND, AND,
         Port!ORR, ORR, Port!EOR, EOR, Port!ASR, ASR, Port!ASL, ASL
<1>2. PortMain!Alu(op, x, y) = Alu(op, x, y)
  BY DEF PortMain!Alu, Alu, PortMain!Bit, Bit, PortMain!FromBits, FromBits,
         PortMain!MapThenSumSet, MapThenSumSet, PortMain!MapThenFoldSet, MapThenFoldSet,
         PortMain!Word, Word, PortMain!Quotient, Quotient, PortMain!Rounded, Rounded,
         PortMain!ADD, ADD, PortMain!SUB, SUB, PortMain!MUL, MUL,
         PortMain!DIV, DIV, PortMain!AND, AND, PortMain!ORR, ORR, PortMain!EOR, EOR,
         PortMain!ASR, ASR, PortMain!ASL, ASL
<1> QED BY <1>1, <1>2

\* The ALUs agree on sums, differences and products, on shifts by less than the
\* width of a word, and on quotients of a dividend that a float64 holds exactly:
\* Python divides floating point numbers, the port integers (alu of both).  For
\* "and", "or" and "exclusive or", which are logical in the port, it depends on
\* the operands.
THEOREM PortAluAgrees ==
  ASSUME NEW op, NEW x, NEW y,
         \/ op \in {ADD, SUB, MUL}
         \/ op = DIV /\ x < FloatExact /\ y # 0
         \/ op \in {ASR, ASL} /\ y \in 0 .. WordBits - 1
  PROVE  Port!CppAlu(op, x, y) = Alu(op, x, y)
<1>1. CASE op = ADD
  BY <1>1, OpcodeValues, PortOpcodes, SMT DEF Port!CppAlu, Alu
<1>2. CASE op = SUB
  BY <1>2, OpcodeValues, PortOpcodes, SMT DEF Port!CppAlu, Alu
<1>3. CASE op = MUL
  BY <1>3, OpcodeValues, PortOpcodes, SMT DEF Port!CppAlu, Alu
<1>4. CASE op = DIV /\ x < FloatExact /\ y # 0
  BY <1>4, OpcodeValues, PortOpcodes, SMT DEF Port!CppAlu, Alu, Quotient
<1>5. CASE op \in {ASR, ASL} /\ y \in 0 .. WordBits - 1
  <2>1. y % WordBits = y
    BY <1>5, WordAssumption
  <2>2. op \notin {ADD, SUB, MUL, DIV, AND, ORR, EOR}
    BY <1>5, OpcodeValues
  <2>3. Port!CppAlu(op, x, y) = Port!Alu(op, x, y % WordBits)
    BY <2>2, PortOpcodes, SMT DEF Port!CppAlu
  <2> QED BY <2>1, <2>3, PortAlu
<1> QED BY <1>1, <1>2, <1>3, <1>4, <1>5

\* What an instruction does does not depend on it either.
LEMMA PortMainEffects ==
  \A op, args, regs, mem :
    /\ PortMain!Raises(op, args, regs, mem) <=> Raises(op, args, regs, mem)
    /\ PortMain!RegistersAfter(op, args, regs, mem) = RegistersAfter(op, args, regs, mem)
    /\ PortMain!MemoryAfter(op, args, regs, mem) = MemoryAfter(op, args, regs, mem)
<1> TAKE op, args, regs, mem
<1>1. PortMain!Raises(op, args, regs, mem) <=> Raises(op, args, regs, mem)
  BY PortMainOpcodes, PortMap, Zenon DEF PortMain!Raises, Raises
<1>2. PortMain!RegistersAfter(op, args, regs, mem) = RegistersAfter(op, args, regs, mem)
  BY PortMainOpcodes, PortAlu, Zenon DEF PortMain!RegistersAfter, RegistersAfter
<1>3. PortMain!MemoryAfter(op, args, regs, mem) = MemoryAfter(op, args, regs, mem)
  BY PortMainOpcodes, Zenon DEF PortMain!MemoryAfter, MemoryAfter
<1> QED BY <1>1, <1>2, <1>3

\* Both decoders take the same operands out of a word; one the instruction does
\* not have is 0 in the port and None in Python.
LEMMA PortOperands ==
  ASSUME NEW w
  PROVE  /\ Port!Opcode(w) = Opcode(w) /\ PortMain!Opcode(w) = Opcode(w)
         /\ PortMain!Operands(w) = Operands(w)
         /\ Opcode(w) \notin {NOP, WFI, HLI} => Port!DecodeInstruction(w)[1] = Operands(w)[1]
         /\ Opcode(w) \notin {NOP, WFI, HLI, B, BL, BX} =>
              Port!DecodeInstruction(w)[2] = Operands(w)[2]
         /\ Opcode(w) \notin {NOP, WFI, HLI, B, BL, BX} \cup RegAddrOps =>
              Port!DecodeInstruction(w)[3] = Operands(w)[3]
<1>1. Port!Opcode(w) = Opcode(w) /\ PortMain!Opcode(w) = Opcode(w)
  BY DEF Port!Opcode, PortMain!Opcode, Opcode
<1>2. Port!RegAddrOps = RegAddrOps /\ PortMain!RegAddrOps = RegAddrOps
  BY PortOpcodes, PortMainOpcodes DEF Port!RegAddrOps, PortMain!RegAddrOps, RegAddrOps
<1>3. /\ PortMain!DecodeAddrArg(w) = DecodeAddrArg(w)
      /\ PortMain!DecodeRegAddrArgs(w) = DecodeRegAddrArgs(w)
      /\ PortMain!Decode3RegArgs(w) = Decode3RegArgs(w)
      /\ Port!Decode3RegArgs(w) = Decode3RegArgs(w)
  BY DEF PortMain!DecodeAddrArg, DecodeAddrArg, PortMain!DecodeRegAddrArgs, DecodeRegAddrArgs,
         PortMain!Decode3RegArgs, Port!Decode3RegArgs, Decode3RegArgs
<1>4. PortMain!Operands(w) = Operands(w)
  BY <1>1, <1>2, <1>3, PortMainOpcodes, Zenon DEF PortMain!Operands, Operands
<1>5. CASE Opcode(w) \in RegAddrOps
  <2>0. Opcode(w) \notin {B, BL, BX} \cup {NOP, WFI, HLI}
    BY <1>5 DEF RegAddrOps, B, BL, BX, NOP, WFI, HLI, LDR, STR, MOV, SET, CBZ, CBNZ
  <2>1. Port!DecodeInstruction(w) = <<(w \div 256) % 256, w \div 65536, 0>>
    BY <1>1, <1>2, <1>5, <2>0, PortOpcodes, SMT DEF Port!DecodeInstruction
  <2>2. Operands(w) = <<(w \div 256) % 256, w \div 65536, None>>
    BY <1>5, <2>0, SMT DEF Operands, DecodeRegAddrArgs
  <2> QED BY <1>1, <1>4, <1>5, <2>1, <2>2
<1>6. CASE Opcode(w) \in {B, BL, BX}
  <2>0. Opcode(w) \notin RegAddrOps \cup {NOP, WFI, HLI}
    BY <1>6 DEF NOP, WFI, HLI, RegAddrOps, B, BL, BX, LDR, STR, MOV, SET, CBZ, CBNZ
  <2>1. Port!DecodeInstruction(w) = <<w \div 256, 0, 0>>
    BY <1>1, <1>2, <1>6, <2>0, PortOpcodes, SMT DEF Port!DecodeInstruction
  <2>2. Operands(w) = <<w \div 256, None, None>>
    BY <1>6, <2>0, Zenon DEF Operands, DecodeAddrArg
  <2> QED BY <1>1, <1>4, <1>6, <2>1, <2>2
<1>7. CASE Opcode(w) \in {NOP, WFI, HLI}
  BY <1>1, <1>4, <1>7 DEF NOP, WFI, HLI
<1>8. CASE Opcode(w) \notin RegAddrOps \cup {B, BL, BX} \cup {NOP, WFI, HLI}
  <2>1. Port!DecodeInstruction(w) = Decode3RegArgs(w)
    BY <1>1, <1>2, <1>3, <1>8, PortOpcodes, SMT DEF Port!DecodeInstruction
  <2>2. Operands(w) = Decode3RegArgs(w)
    BY <1>8, Zenon DEF Operands
  <2> QED BY <1>1, <1>4, <1>8, <2>1, <2>2
<1> QED BY <1>5, <1>6, <1>7, <1>8

-----------------------------------------------------------------------------
(* The encoders agree *)

\* Where the label is known and not 0, both labels are the last line that has it.
LEMMA PortLabel ==
  ASSUME NEW p, NEW i, NEW label, label # 0, \E j \in 1 .. i : p[j].label = label
  PROVE  Port!Label(p, i, label) = Python!LabelLine(p, i, label)
<1> DEFINE at == {j \in 1 .. i : p[j].label = label}
<1>1. at # {}
  OBVIOUS
<1>2. Port!Max(at) = Python!Max(at)
  BY DEF Port!Max, Python!Max
<1>3. Port!Label(p, i, label) = Port!Max(at) - 1
  BY <1>1 DEF Port!Label
<1>4. Python!LabelLine(p, i, label) = Python!Max(at) - 1
  BY DEF Python!LabelLine
<1> QED BY <1>2, <1>3, <1>4

\* The port pads the operands of a line with zeros; those of a line that Python
\* accepts are there.
LEMMA PortPadding ==
  ASSUME NEW args \in Seq(Nat), NEW n \in 1 .. 3, Len(args) >= n,
         NEW arg, arg = [k \in 1 .. 3 |-> IF k \in DOMAIN args THEN args[k] ELSE 0]
  PROVE  \A k \in 1 .. n : arg[k] = args[k]
<1>1. DOMAIN args = 1 .. Len(args) /\ Len(args) \in Nat
  OBVIOUS
<1>2. \A k \in 1 .. n : k \in DOMAIN args /\ k \in 1 .. 3
  BY <1>1
<1>3. \A k \in 1 .. 3 : arg[k] = IF k \in DOMAIN args THEN args[k] ELSE 0
  BY Zenon
<1> QED BY <1>2, <1>3, Zenon

\* Every line that the Python encoder accepts, but for high-level code, has the
\* same word in the port (encodeInstruction of both), if its label is not 0 and its
\* word fits: label 0 is no label in the port, and it wraps where Python's numbers
\* grow.
THEOREM EncodersAgree ==
  ASSUME PortSources, NEW p \in Sources, NEW i \in 1 .. Len(p)
  PROVE  Port!EncodeInstruction(p, i) = Python!EncodeInstruction(p, i)
<1> DEFINE op == p[i].op
           args == p[i].args
           arg == [k \in 1 .. 3 |-> IF k \in DOMAIN args THEN args[k] ELSE 0]
<1>1. /\ args \in Seq(Nat) /\ Len(args) \in Nat
      /\ ~Python!EncodeRaises(p, i) /\ op # HLI
  <2> DEFINE Line == [op : Nat, args : Seq(Nat), label : Nat \cup {None}]
  <2>1. p \in Seq(Line)
    BY DEF PortSources
  <2>2. p[i] \in Line
    <3> HIDE DEF Line
    <3> QED BY <2>1
  <2>3. args \in Seq(Nat)
    BY <2>2
  <2>4. Len(args) \in Nat
    <3> HIDE DEF args
    <3> QED BY <2>3
  <2>5. ~Python!EncodeRaises(p, i) /\ p[i].op # HLI
    BY Zenon DEF PortSources
  <2> QED BY <2>3, <2>4, <2>5
<1>2. op \in {B, BL, CBZ, CBNZ, ADR} => Target(p[i]) # 0
  BY Zenon DEF PortSources
<1>3. Python!EncodeInstruction(p, i) \in Word
  BY Zenon DEF PortSources
<1> SUFFICES Port!Parts(p, i) = Python!EncodeInstruction(p, i)
  <2>1. Python!EncodeInstruction(p, i) % W = Python!EncodeInstruction(p, i)
    BY <1>3, Modulo, Zenon
  <2> QED BY <2>1, Zenon DEF Port!EncodeInstruction
<1>4. Python!CODE = Port!CODE
  BY PortMap
<1>5. arg = [k \in 1 .. 3 |-> IF k \in DOMAIN args THEN args[k] ELSE 0]
  OBVIOUS
<1> HIDE DEF op, args, arg
<1> DEFINE label(k) == Port!Label(p, i, arg[k])
           labelLine(k) == Python!LabelLine(p, i, args[k])
           one(a) == op + 256 * a
           two(a, b) == op + 256 * a + 65536 * b
           three(a, b, c) == op + 256 * a + 65536 * b + 16777216 * c
           known(k) == \E n \in 1 .. i : p[n].label = args[k]
<1>6. Python!EncodeRaises(p, i) <=>
        CASE op \in {B, BL} -> Len(args) < 1 \/ ~known(1)
          [] op \in {CBZ, CBNZ} -> Len(args) < 2 \/ ~known(2)
          [] op = BX -> TRUE
          [] op = ADR -> Len(args) < 3 \/ ~known(2)
          [] op \in {MOV, SET, LDR, STR} -> Len(args) < 2
          [] op \in {NOP, WFI, HLI} -> FALSE
          [] OTHER -> Len(args) < 3
  BY Zenon DEF Python!EncodeRaises, op, args,
         Python!B, B, Python!BL, BL, Python!BX, BX, Python!CBZ, CBZ,
         Python!CBNZ, CBNZ, Python!ADR, ADR, Python!MOV, MOV, Python!SET, SET,
         Python!LDR, LDR, Python!STR, STR, Python!NOP, NOP, Python!WFI, WFI,
         Python!HLI, HLI
<1>7. \A n \in 1 .. 3 : Len(args) >= n => \A k \in 1 .. n : arg[k] = args[k]
  BY <1>1, <1>5, PortPadding, SMTT(30)
<1>8. \A k \in 1 .. 3 :
        known(k) /\ arg[k] = args[k] /\ args[k] # 0 => label(k) = labelLine(k)
  BY PortLabel
<1> HIDE DEF label, labelLine, one, two, three, known
<1>9. CASE op \in {B, BL}
  <2>0. /\ op \notin {CBZ, CBNZ, ADR} /\ op \notin {CBZ, CBNZ} /\ op # BX /\ op # ADR
        /\ op \notin {MOV, SET, LDR, STR} /\ op \notin {NOP, WFI, HLI} /\ op \notin {NOP, WFI}
    BY <1>9, OpcodeValues
  <2>1. Len(args) >= 1 /\ known(1)
    BY <1>1, <1>6, <1>9, <2>0
  <2>2. arg[1] = args[1] /\ label(1) = labelLine(1)
    <3>1. args[1] # 0
      BY <1>2, <1>9 DEF Target, op, args
    <3> QED BY <1>7, <1>8, <2>1, <3>1
  <2>3. Python!EncodeInstruction(p, i) = one(labelLine(1) + Python!CODE)
    BY <1>9, <2>0, SMT
       DEF Python!EncodeInstruction, op, args, labelLine, one, two, three,
           Python!B, B, Python!BL, BL, Python!BX, BX, Python!CBZ, CBZ,
           Python!CBNZ, CBNZ, Python!ADR, ADR, Python!MOV, MOV, Python!SET, SET,
           Python!LDR, LDR, Python!STR, STR, Python!NOP, NOP, Python!WFI, WFI,
           Python!HLI, HLI
  <2>4. Port!Parts(p, i) = one(label(1) + Port!CODE)
    BY <1>9, <2>0, SMT
       DEF Port!Parts, Port!Padded, op, args, arg, label, one, two, three,
           Port!B, B, Port!BL, BL, Port!BX, BX, Port!CBZ, CBZ,
           Port!CBNZ, CBNZ, Port!ADR, ADR, Port!MOV, MOV, Port!SET, SET,
           Port!LDR, LDR, Port!STR, STR, Port!NOP, NOP, Port!WFI, WFI,
           Port!HLI, HLI
  <2> QED BY <1>4, <2>2, <2>3, <2>4
<1>10. CASE op \in {CBZ, CBNZ, ADR}
  <2>0. /\ op \notin {B, BL} /\ op \notin {BL, B} /\ op # BX
        /\ op \notin {MOV, SET, LDR, STR} /\ op \notin {NOP, WFI, HLI} /\ op \notin {NOP, WFI}
        /\ (op = ADR <=> op \notin {CBZ, CBNZ})
    BY <1>10, OpcodeValues
  <2>1. Len(args) >= 2 /\ known(2)
    <3>1. CASE op = ADR
      BY <1>1, <1>6, <2>0, <3>1
    <3>2. CASE op # ADR
      BY <1>1, <1>6, <1>10, <2>0, <3>2
    <3> QED BY <3>1, <3>2
  <2>2. arg[1] = args[1] /\ arg[2] = args[2] /\ label(2) = labelLine(2)
    <3>1. args[2] # 0
      BY <1>2, <1>10, <2>0 DEF Target, op, args
    <3> QED BY <1>1, <1>7, <1>8, <2>1, <3>1
  <2>3. Python!EncodeInstruction(p, i) = two(args[1], labelLine(2) + Python!CODE)
    BY <1>10, <2>0, SMT
       DEF Python!EncodeInstruction, op, args, labelLine, one, two, three,
           Python!B, B, Python!BL, BL, Python!BX, BX, Python!CBZ, CBZ,
           Python!CBNZ, CBNZ, Python!ADR, ADR, Python!MOV, MOV, Python!SET, SET,
           Python!LDR, LDR, Python!STR, STR, Python!NOP, NOP, Python!WFI, WFI,
           Python!HLI, HLI
  <2>4. Port!Parts(p, i) = two(arg[1], label(2) + Port!CODE)
    BY <1>10, <2>0, SMT
       DEF Port!Parts, Port!Padded, op, args, arg, label, one, two, three,
           Port!B, B, Port!BL, BL, Port!BX, BX, Port!CBZ, CBZ,
           Port!CBNZ, CBNZ, Port!ADR, ADR, Port!MOV, MOV, Port!SET, SET,
           Port!LDR, LDR, Port!STR, STR, Port!NOP, NOP, Port!WFI, WFI,
           Port!HLI, HLI
  <2> QED BY <1>4, <2>2, <2>3, <2>4
<1>11. CASE op \in {MOV, SET, LDR, STR}
  <2>0. /\ op \notin {B, BL} /\ op \notin {BL, B} /\ op \notin {CBZ, CBNZ, ADR}
        /\ op \notin {CBZ, CBNZ} /\ op # BX /\ op # ADR
        /\ op \notin {NOP, WFI, HLI} /\ op \notin {NOP, WFI}
    BY <1>11, OpcodeValues
  <2>1. Len(args) >= 2
    BY <1>1, <1>6, <1>11, <2>0
  <2>2. arg[1] = args[1] /\ arg[2] = args[2]
    BY <1>1, <1>7, <2>1
  <2>3. Python!EncodeInstruction(p, i) = two(args[1], args[2])
    BY <1>11, <2>0, SMT
       DEF Python!EncodeInstruction, op, args, labelLine, one, two, three,
           Python!B, B, Python!BL, BL, Python!BX, BX, Python!CBZ, CBZ,
           Python!CBNZ, CBNZ, Python!ADR, ADR, Python!MOV, MOV, Python!SET, SET,
           Python!LDR, LDR, Python!STR, STR, Python!NOP, NOP, Python!WFI, WFI,
           Python!HLI, HLI
  <2>4. Port!Parts(p, i) = two(arg[1], arg[2])
    BY <1>11, <2>0, SMT
       DEF Port!Parts, Port!Padded, op, args, arg, label, one, two, three,
           Port!B, B, Port!BL, BL, Port!BX, BX, Port!CBZ, CBZ,
           Port!CBNZ, CBNZ, Port!ADR, ADR, Port!MOV, MOV, Port!SET, SET,
           Port!LDR, LDR, Port!STR, STR, Port!NOP, NOP, Port!WFI, WFI,
           Port!HLI, HLI
  <2> QED BY <2>2, <2>3, <2>4
<1>12. CASE op \in {NOP, WFI}
  <2>0. /\ op \notin {B, BL} /\ op \notin {BL, B} /\ op \notin {CBZ, CBNZ, ADR} /\ op # BX
        /\ op \notin {MOV, SET, LDR, STR} /\ op \in {NOP, WFI, HLI}
    BY <1>12, OpcodeValues
  <2>1. Python!EncodeInstruction(p, i) = op
    BY <1>12, <2>0, SMT
       DEF Python!EncodeInstruction, op, args, labelLine, one, two, three,
           Python!B, B, Python!BL, BL, Python!BX, BX, Python!CBZ, CBZ,
           Python!CBNZ, CBNZ, Python!ADR, ADR, Python!MOV, MOV, Python!SET, SET,
           Python!LDR, LDR, Python!STR, STR, Python!NOP, NOP, Python!WFI, WFI,
           Python!HLI, HLI
  <2>2. Port!Parts(p, i) = op
    BY <1>12, <2>0, SMT
       DEF Port!Parts, Port!Padded, op, args, arg, label, one, two, three,
           Port!B, B, Port!BL, BL, Port!BX, BX, Port!CBZ, CBZ,
           Port!CBNZ, CBNZ, Port!ADR, ADR, Port!MOV, MOV, Port!SET, SET,
           Port!LDR, LDR, Port!STR, STR, Port!NOP, NOP, Port!WFI, WFI,
           Port!HLI, HLI
  <2> QED BY <2>1, <2>2
<1>13. CASE op \notin {B, BL} \cup {CBZ, CBNZ, ADR} \cup {MOV, SET, LDR, STR} \cup {NOP, WFI}
  <2>0. /\ op \notin {B, BL} /\ op \notin {BL, B} /\ op \notin {CBZ, CBNZ, ADR}
        /\ op \notin {CBZ, CBNZ} /\ op # ADR /\ op \notin {MOV, SET, LDR, STR}
        /\ op \notin {NOP, WFI, HLI} /\ op \notin {NOP, WFI}
    BY <1>1, <1>13
  <2>1. op # BX
    <3> SUFFICES ASSUME op = BX PROVE Python!EncodeRaises(p, i)
      BY <1>1
    <3> QED BY <1>6, <2>0
  <2>2. Len(args) >= 3
    BY <1>1, <1>6, <2>0, <2>1
  <2>3. arg[1] = args[1] /\ arg[2] = args[2] /\ arg[3] = args[3]
    BY <1>1, <1>7, <2>2
  <2>4. Python!EncodeInstruction(p, i) = three(args[1], args[2], args[3])
    BY <2>0, SMT
       DEF Python!EncodeInstruction, op, args, labelLine, one, two, three,
           Python!B, B, Python!BL, BL, Python!BX, BX, Python!CBZ, CBZ,
           Python!CBNZ, CBNZ, Python!ADR, ADR, Python!MOV, MOV, Python!SET, SET,
           Python!LDR, LDR, Python!STR, STR, Python!NOP, NOP, Python!WFI, WFI,
           Python!HLI, HLI
  <2>5. Port!Parts(p, i) = three(arg[1], arg[2], arg[3])
    BY <2>0, <2>1, SMT
       DEF Port!Parts, Port!Padded, op, args, arg, label, one, two, three,
           Port!B, B, Port!BL, BL, Port!BX, BX, Port!CBZ, CBZ,
           Port!CBNZ, CBNZ, Port!ADR, ADR, Port!MOV, MOV, Port!SET, SET,
           Port!LDR, LDR, Port!STR, STR, Port!NOP, NOP, Port!WFI, WFI,
           Port!HLI, HLI
  <2> QED BY <2>3, <2>4, <2>5
<1> QED BY <1>9, <1>10, <1>11, <1>12, <1>13

-----------------------------------------------------------------------------
(* The instructions agree *)

PortTop == Port!ramStateSz + deviceStateSz

\* A register file and a memory that agree on the port's registers and on RAM,
\* and an instruction that is defined in the port and as in Python
PortAgree(op, args, operands, regs, mem, file, memory) ==
  /\ DOMAIN regs = 0 .. 15 /\ DOMAIN mem = 0 .. PortTop - 1
  /\ DOMAIN file = Reg /\ DOMAIN memory = 0 .. PortMain!STATETOP - 1
  /\ \A r \in 0 .. 15 : file[r] = regs[r]
  /\ \A a \in PortRam : memory[a] = mem[a]
  /\ op \notin {NOP, WFI, HLI} => operands[1] = args[1]
  /\ op \notin {NOP, WFI, HLI, B, BL, BX} => operands[2] = args[2]
  /\ op \notin {NOP, WFI, HLI, B, BL, BX} \cup RegAddrOps => operands[3] = args[3]
  /\ ~Port!Undefined(op, args, regs, mem) /\ op # BL
  /\ op = LDR => args[2] \in PortRam
  /\ op = POP => regs[SP] \in PortRam
  /\ op > ASL \/ Port!CppAlu(op, regs[args[2]], regs[args[3]]) =
                   Alu(op, regs[args[2]], regs[args[3]])

\* Python does to them what the port does.
PortSame(op, args, operands, regs, mem, file, memory) ==
  /\ ~Raises(op, operands, file, memory)
  /\ \A r \in 0 .. 15 : RegistersAfter(op, operands, file, memory)[r] =
                          Port!ExecuteRegisters(op, args, regs, mem)[r]
  /\ \A a \in PortRam : MemoryAfter(op, operands, file, memory)[a] =
                          Port!ExecuteMemory(op, args, regs, mem)[a]

\* One case per instruction (executeInstruction of both)
LEMMA PortInstruction ==
  ASSUME NEW op, NEW args, NEW operands, NEW regs, NEW mem, NEW file, NEW memory,
         PortAgree(op, args, operands, regs, mem, file, memory)
  PROVE  PortSame(op, args, operands, regs, mem, file, memory)
<1>0. /\ DOMAIN regs = 0 .. 15 /\ DOMAIN mem = 0 .. PortTop - 1
      /\ DOMAIN file = Reg /\ DOMAIN memory = 0 .. PortMain!STATETOP - 1
      /\ \A r \in 0 .. 15 : file[r] = regs[r]
      /\ \A a \in PortRam : memory[a] = mem[a]
      /\ op \notin {NOP, WFI, HLI} => operands[1] = args[1]
      /\ op \notin {NOP, WFI, HLI, B, BL, BX} => operands[2] = args[2]
      /\ op \notin {NOP, WFI, HLI, B, BL, BX} \cup RegAddrOps => operands[3] = args[3]
      /\ ~Port!Undefined(op, args, regs, mem) /\ op # BL
      /\ op = LDR => args[2] \in PortRam
      /\ op = POP => regs[SP] \in PortRam
      /\ op > ASL \/ Port!CppAlu(op, regs[args[2]], regs[args[3]]) =
                       Alu(op, regs[args[2]], regs[args[3]])
  BY Zenon DEF PortAgree
<1> USE <1>0
<1>1. /\ \A a \in 0 .. PortTop - 1 : a \in DOMAIN memory
      /\ \A r \in 0 .. 15 : r \in Reg
      /\ Port!CppReg = 0 .. 15 /\ SP \in 0 .. 15 /\ PC \in 0 .. 15 /\ LR \in 0 .. 15
      /\ \A a \in PortRam : a \in 0 .. PortTop - 1
  BY PortMap, SMTT(30) DEF PortTop, PortRam, Reg, NREGS, SP, PC, LR
<1> DEFINE undefined == Port!Undefined(op, args, regs, mem)
           newRegs == Port!ExecuteRegisters(op, args, regs, mem)
           newMem == Port!ExecuteMemory(op, args, regs, mem)
           raises == Raises(op, operands, file, memory)
           newFile == RegistersAfter(op, operands, file, memory)
           newMemory == MemoryAfter(op, operands, file, memory)
           Goal == /\ ~raises
                   /\ \A r \in 0 .. 15 : newFile[r] = newRegs[r]
                   /\ \A a \in PortRam : newMemory[a] = newMem[a]
<1> SUFFICES Goal
  BY Zenon DEF PortSame
<1>2. CASE op = LDR
  <2>1. undefined <=> args[1] \notin 0 .. 15 \/ args[2] \notin DOMAIN mem
    BY <1>1, <1>2, OpcodeValues, PortOpcodes, SMT DEF Port!Undefined
  <2>2. newRegs = [regs EXCEPT ![args[1]] = mem[args[2]]] /\ newMem = mem
    BY <1>2, OpcodeValues, PortOpcodes, SMT DEF Port!ExecuteRegisters, Port!ExecuteMemory
  <2>3. raises <=> operands[1] \notin Reg \/ operands[2] \notin DOMAIN memory
    BY <1>2, OpcodeValues, SMT DEF Raises
  <2>4. newFile = [file EXCEPT ![operands[1]] = memory[operands[2]]] /\ newMemory = memory
    BY <1>2, OpcodeValues, SMT DEF RegistersAfter, MemoryAfter
  <2>5. operands[1] = args[1] /\ operands[2] = args[2] /\ args[2] \in PortRam
    BY <1>2, OpcodeValues DEF RegAddrOps
  <2> HIDE DEF undefined, newRegs, newMem, raises, newFile, newMemory
  <2> QED BY <1>1, <2>1, <2>2, <2>3, <2>4, <2>5, SMTT(30) DEF undefined
<1>3. CASE op = STR
  <2>1. undefined <=> \/ args[1] \notin 0 .. 15 \/ args[2] \notin 0 .. 15
                   \/ regs[args[2]] \notin DOMAIN mem
    BY <1>1, <1>3, OpcodeValues, PortOpcodes, SMT DEF Port!Undefined
  <2>2. /\ newRegs = regs
        /\ newMem = [mem EXCEPT ![regs[args[2]]] = regs[args[1]]]
    BY <1>3, OpcodeValues, PortOpcodes, SMT DEF Port!ExecuteRegisters, Port!ExecuteMemory
  <2>3. raises <=> \/ operands[1] \notin Reg \/ operands[2] \notin Reg
                   \/ file[operands[2]] \notin DOMAIN memory
    BY <1>3, OpcodeValues, SMT DEF Raises
  <2>4. /\ newFile = file
        /\ newMemory = [memory EXCEPT ![file[operands[2]]] = file[operands[1]]]
    BY <1>3, OpcodeValues, SMT DEF RegistersAfter, MemoryAfter
  <2>5. operands[1] = args[1] /\ operands[2] = args[2]
    BY <1>3, OpcodeValues DEF RegAddrOps
  <2> HIDE DEF undefined, newRegs, newMem, raises, newFile, newMemory
  <2>6. args[1] \in 0 .. 15 /\ args[2] \in 0 .. 15 /\ regs[args[2]] \in DOMAIN mem
    BY <2>1, Zenon DEF undefined
  <2>7. ~raises
    BY <1>1, <2>3, <2>5, <2>6
  <2>8. \A r \in 0 .. 15 : newFile[r] = newRegs[r]
    BY <1>1, <2>2, <2>4, <2>5, <2>6
  <2>9. \A a \in PortRam : newMemory[a] = newMem[a]
    BY <1>1, <2>2, <2>4, <2>5, <2>6
  <2> QED BY <2>7, <2>8, <2>9, Zenon
<1>4. CASE op = PUSH
  <2>1. undefined <=> args[1] \notin 0 .. 15 \/ regs[SP] \notin DOMAIN mem
    BY <1>1, <1>4, OpcodeValues, PortOpcodes, SMT DEF Port!Undefined
  <2>2. /\ newRegs = [regs EXCEPT ![SP] = (@ + 1) % W]
        /\ newMem = [mem EXCEPT ![regs[SP]] = regs[args[1]]]
    BY <1>4, OpcodeValues, PortOpcodes, SMT DEF Port!ExecuteRegisters, Port!ExecuteMemory
  <2>3. raises <=> operands[1] \notin Reg \/ file[SP] \notin DOMAIN memory
    BY <1>4, OpcodeValues, SMT DEF Raises
  <2>4. /\ newFile = [file EXCEPT ![SP] = (@ + 1) % W]
        /\ newMemory = [memory EXCEPT ![file[SP]] = file[operands[1]]]
    BY <1>4, OpcodeValues, SMT DEF RegistersAfter, MemoryAfter
  <2>5. operands[1] = args[1]
    BY <1>4, OpcodeValues DEF RegAddrOps
  <2> HIDE DEF undefined, newRegs, newMem, raises, newFile, newMemory
  <2>6. args[1] \in 0 .. 15 /\ regs[SP] \in DOMAIN mem
    BY <2>1, Zenon DEF undefined
  <2>7. ~raises
    BY <1>1, <2>3, <2>5, <2>6
  <2>8. \A r \in 0 .. 15 : newFile[r] = newRegs[r]
    BY <1>1, <2>2, <2>4, <2>5, <2>6
  <2>9. \A a \in PortRam : newMemory[a] = newMem[a]
    BY <1>1, <2>2, <2>4, <2>5, <2>6
  <2> QED BY <2>7, <2>8, <2>9, Zenon
<1>5. CASE op = POP
  <2>1. undefined <=> args[1] \notin 0 .. 15 \/ regs[SP] \notin DOMAIN mem
    BY <1>1, <1>5, OpcodeValues, PortOpcodes, SMT DEF Port!Undefined
  <2>2. /\ newRegs = [[regs EXCEPT ![args[1]] = mem[regs[SP]]] EXCEPT ![SP] = (@ - 1) % W]
        /\ newMem = mem
    BY <1>5, OpcodeValues, PortOpcodes, SMT DEF Port!ExecuteRegisters, Port!ExecuteMemory
  <2>3. raises <=> operands[1] \notin Reg \/ file[SP] \notin DOMAIN memory
    BY <1>5, OpcodeValues, SMT DEF Raises
  <2>4. /\ newFile = [[file EXCEPT ![operands[1]] = memory[file[SP]]] EXCEPT ![SP] = (@ - 1) % W]
        /\ newMemory = memory
    BY <1>5, OpcodeValues, SMT DEF RegistersAfter, MemoryAfter
  <2>5. operands[1] = args[1] /\ regs[SP] \in PortRam
    BY <1>5, OpcodeValues DEF RegAddrOps
  <2> HIDE DEF undefined, newRegs, newMem, raises, newFile, newMemory
  <2>6. args[1] \in 0 .. 15 /\ regs[SP] \in DOMAIN mem
    BY <2>1, Zenon DEF undefined
  <2>7. ~raises
    BY <1>1, <2>3, <2>5, <2>6
  <2>8. \A r \in 0 .. 15 : newFile[r] = newRegs[r]
    <3> DEFINE file1 == [file EXCEPT ![operands[1]] = memory[file[SP]]]
               regs1 == [regs EXCEPT ![args[1]] = mem[regs[SP]]]
    <3>1. memory[file[SP]] = mem[regs[SP]]
      BY <1>1, <2>5
    <3>2. /\ DOMAIN file1 = Reg /\ DOMAIN regs1 = 0 .. 15
          /\ \A r \in 0 .. 15 : file1[r] = regs1[r]
      BY <1>1, <2>5, <3>1
    <3>3. newFile = [file1 EXCEPT ![SP] = (@ - 1) % W] /\ newRegs = [regs1 EXCEPT ![SP] = (@ - 1) % W]
      BY <2>2, <2>4, Zenon
    <3> HIDE DEF file1, regs1
    <3> QED BY <1>1, <3>2, <3>3
  <2>9. \A a \in PortRam : newMemory[a] = newMem[a]
    BY <1>1, <2>2, <2>4, <2>5, <2>6
  <2> QED BY <2>7, <2>8, <2>9, Zenon
<1>6. CASE op = MOV
  <2>1. undefined <=> args[1] \notin 0 .. 15 \/ args[2] \notin 0 .. 15
    BY <1>1, <1>6, OpcodeValues, PortOpcodes, SMT DEF Port!Undefined
  <2>2. /\ newRegs = [regs EXCEPT ![args[1]] = regs[args[2]]]
        /\ newMem = mem
    BY <1>6, OpcodeValues, PortOpcodes, SMT DEF Port!ExecuteRegisters, Port!ExecuteMemory
  <2>3. raises <=> operands[1] \notin Reg \/ operands[2] \notin Reg
    BY <1>6, OpcodeValues, SMT DEF Raises
  <2>4. /\ newFile = [file EXCEPT ![operands[1]] = file[operands[2]]]
        /\ newMemory = memory
    BY <1>6, OpcodeValues, SMT DEF RegistersAfter, MemoryAfter
  <2>5. operands[1] = args[1] /\ operands[2] = args[2]
    BY <1>6, OpcodeValues DEF RegAddrOps
  <2> HIDE DEF undefined, newRegs, newMem, raises, newFile, newMemory
  <2> QED BY <1>1, <2>1, <2>2, <2>3, <2>4, <2>5, SMTT(30) DEF undefined
<1>7. CASE op = SET
  <2>1. undefined <=> args[1] \notin 0 .. 15
    BY <1>1, <1>7, OpcodeValues, PortOpcodes, SMT DEF Port!Undefined
  <2>2. /\ newRegs = [regs EXCEPT ![args[1]] = args[2]]
        /\ newMem = mem
    BY <1>7, OpcodeValues, PortOpcodes, SMT DEF Port!ExecuteRegisters, Port!ExecuteMemory
  <2>3. raises <=> operands[1] \notin Reg
    BY <1>7, OpcodeValues, SMT DEF Raises
  <2>4. /\ newFile = [file EXCEPT ![operands[1]] = operands[2]]
        /\ newMemory = memory
    BY <1>7, OpcodeValues, SMT DEF RegistersAfter, MemoryAfter
  <2>5. operands[1] = args[1] /\ operands[2] = args[2]
    BY <1>7, OpcodeValues DEF RegAddrOps
  <2> HIDE DEF undefined, newRegs, newMem, raises, newFile, newMemory
  <2> QED BY <1>1, <2>1, <2>2, <2>3, <2>4, <2>5, SMTT(30) DEF undefined
<1>8. CASE op = CBNZ
  <2>1. undefined <=> args[1] \notin 0 .. 15
    BY <1>1, <1>8, OpcodeValues, PortOpcodes, SMT DEF Port!Undefined
  <2>2. /\ newRegs = (IF regs[args[1]] # 0 THEN [regs EXCEPT ![PC] = args[2]] ELSE regs)
        /\ newMem = mem
    BY <1>8, OpcodeValues, PortOpcodes, SMT DEF Port!ExecuteRegisters, Port!ExecuteMemory
  <2>3. raises <=> operands[1] \notin Reg
    BY <1>8, OpcodeValues, SMT DEF Raises
  <2>4. /\ newFile = (IF file[operands[1]] # 0 THEN [file EXCEPT ![PC] = operands[2]] ELSE file)
        /\ newMemory = memory
    BY <1>8, OpcodeValues, SMT DEF RegistersAfter, MemoryAfter
  <2>5. operands[1] = args[1] /\ operands[2] = args[2]
    BY <1>8, OpcodeValues DEF RegAddrOps
  <2> HIDE DEF undefined, newRegs, newMem, raises, newFile, newMemory
  <2> QED BY <1>1, <2>1, <2>2, <2>3, <2>4, <2>5, SMTT(30) DEF undefined
<1>9. CASE op = CBZ
  <2>1. undefined <=> args[1] \notin 0 .. 15
    BY <1>1, <1>9, OpcodeValues, PortOpcodes, SMT DEF Port!Undefined
  <2>2. /\ newRegs = (IF regs[args[1]] = 0 THEN [regs EXCEPT ![PC] = args[2]] ELSE regs)
        /\ newMem = mem
    BY <1>9, OpcodeValues, PortOpcodes, SMT DEF Port!ExecuteRegisters, Port!ExecuteMemory
  <2>3. raises <=> operands[1] \notin Reg
    BY <1>9, OpcodeValues, SMT DEF Raises
  <2>4. /\ newFile = (IF file[operands[1]] = 0 THEN [file EXCEPT ![PC] = operands[2]] ELSE file)
        /\ newMemory = memory
    BY <1>9, OpcodeValues, SMT DEF RegistersAfter, MemoryAfter
  <2>5. operands[1] = args[1] /\ operands[2] = args[2]
    BY <1>9, OpcodeValues DEF RegAddrOps
  <2> HIDE DEF undefined, newRegs, newMem, raises, newFile, newMemory
  <2> QED BY <1>1, <2>1, <2>2, <2>3, <2>4, <2>5, SMTT(30) DEF undefined
<1>10. CASE op = BX
  <2>1. undefined <=> args[1] \notin 0 .. 15
    BY <1>1, <1>10, OpcodeValues, PortOpcodes, SMT DEF Port!Undefined
  <2>2. /\ newRegs = [regs EXCEPT ![PC] = regs[args[1]]]
        /\ newMem = mem
    BY <1>10, OpcodeValues, PortOpcodes, SMT DEF Port!ExecuteRegisters, Port!ExecuteMemory
  <2>3. raises <=> operands[1] \notin Reg
    BY <1>10, OpcodeValues, SMT DEF Raises
  <2>4. /\ newFile = [file EXCEPT ![PC] = file[operands[1]]]
        /\ newMemory = memory
    BY <1>10, OpcodeValues, SMT DEF RegistersAfter, MemoryAfter
  <2>5. operands[1] = args[1]
    BY <1>10, OpcodeValues DEF RegAddrOps
  <2> HIDE DEF undefined, newRegs, newMem, raises, newFile, newMemory
  <2> QED BY <1>1, <2>1, <2>2, <2>3, <2>4, <2>5, SMTT(30) DEF undefined
<1>11. CASE op = NOP
  <2>1. undefined <=> FALSE
    BY <1>1, <1>11, OpcodeValues, PortOpcodes, SMT DEF Port!Undefined
  <2>2. /\ newRegs = regs
        /\ newMem = mem
    BY <1>11, OpcodeValues, PortOpcodes, SMT DEF Port!ExecuteRegisters, Port!ExecuteMemory
  <2>3. raises <=> FALSE
    BY <1>11, OpcodeValues, SMT DEF Raises
  <2>4. /\ newFile = file
        /\ newMemory = memory
    BY <1>11, OpcodeValues, SMT DEF RegistersAfter, MemoryAfter
  <2> HIDE DEF undefined, newRegs, newMem, raises, newFile, newMemory
  <2> QED BY <1>1, <2>1, <2>2, <2>3, <2>4 DEF undefined
<1>12. CASE op = WFI
  <2>1. undefined <=> FALSE
    BY <1>1, <1>12, OpcodeValues, PortOpcodes, SMT DEF Port!Undefined
  <2>2. /\ newRegs = regs
        /\ newMem = mem
    BY <1>12, OpcodeValues, PortOpcodes, SMT DEF Port!ExecuteRegisters, Port!ExecuteMemory
  <2>3. raises <=> FALSE
    BY <1>12, OpcodeValues, SMT DEF Raises
  <2>4. /\ newFile = file
        /\ newMemory = memory
    BY <1>12, OpcodeValues, SMT DEF RegistersAfter, MemoryAfter
  <2> HIDE DEF undefined, newRegs, newMem, raises, newFile, newMemory
  <2> QED BY <1>1, <2>1, <2>2, <2>3, <2>4 DEF undefined
<1>13. CASE op \notin {LDR, STR, BL, BX, PUSH, POP, MOV, SET, NOP, CBZ, CBNZ, WFI}
  <2> DEFINE x == regs[args[2]]
             y == regs[args[3]]
  <2>1. undefined <=> \/ op > ASL \/ \E k \in 1 .. 3 : args[k] \notin 0 .. 15
                      \/ op = DIV /\ y = 0
    BY <1>1, <1>13, OpcodeValues, PortOpcodes, SMT DEF Port!Undefined
  <2>2. newRegs = [regs EXCEPT ![args[1]] = Port!CppAlu(op, x, y)] /\ newMem = mem
    BY <1>13, OpcodeValues, PortOpcodes, SMT DEF Port!ExecuteRegisters, Port!ExecuteMemory
  <2>3. op \notin {B, BL, HLI} /\ op \notin RegAddrOps
    BY <1>13, <2>1, OpcodeValues DEF RegAddrOps
  <2>4. /\ operands[1] = args[1] /\ operands[2] = args[2] /\ operands[3] = args[3]
        /\ \A k \in 1 .. 3 : operands[k] = args[k]
    BY <1>13, <2>3
  <2>5. raises <=> \/ op > ASL \/ \E k \in 1 .. 3 : operands[k] \notin Reg
                   \/ op = DIV /\ file[operands[3]] = 0 /\ DivisionRaises
    BY <1>13, <2>3, SMT DEF Raises
  <2>6. /\ newFile = [file EXCEPT ![operands[1]] = Alu(op, file[operands[2]], file[operands[3]])]
        /\ newMemory = memory
    BY <1>13, <2>3, SMT DEF RegistersAfter, MemoryAfter
  <2>7. ~undefined /\ Port!CppAlu(op, x, y) = Alu(op, x, y)
    BY <2>1
  <2>8. args[1] \in 0 .. 15 /\ args[2] \in 0 .. 15 /\ args[3] \in 0 .. 15
    BY <2>1, <2>7
  <2> HIDE DEF undefined, newRegs, newMem, raises, newFile, newMemory
  <2>9. file[args[2]] = x /\ file[args[3]] = y
    BY <2>8
  <2>10. ~raises
    BY <1>1, <2>1, <2>4, <2>5, <2>7, <2>9
  <2>11. newFile = [file EXCEPT ![args[1]] = Port!CppAlu(op, x, y)]
    BY <2>4, <2>6, <2>7, <2>9
  <2> HIDE DEF x, y
  <2> QED BY <1>1, <2>2, <2>6, <2>8, <2>10, <2>11
<1> QED BY <1>2, <1>3, <1>4, <1>5, <1>6, <1>7, <1>8, <1>9, <1>10, <1>11, <1>12, <1>13

-----------------------------------------------------------------------------
(* The port's behaviours *)

\* Registers and words are there, and the timer cannot come to 0 within the
\* cycles of a run: it is not read back from what a program stores in it.
PortInv ==
  /\ DOMAIN registers = 0 .. 15 /\ DOMAIN systemState = 0 .. PortTop - 1
  /\ ncycles \in Nat
  /\ 1 \in DOMAIN timerState /\ timerState[1] \in Nat
  /\ timerState[1] + ncycles >= MAX_NCYCLES + (IF phase = "devices" THEN 1 ELSE 0)
  /\ timerIrq = FALSE

\* The words that load_code leaves
PortLoaded(p, a) ==
  IF a < IVTsz THEN Port!CODE
  ELSE IF a - Port!CODE \in 0 .. Len(p) - 1 THEN Port!EncodeProgram(p)[a - Port!CODE + 1]
  ELSE IF a \in {Port!ramStateSz, Port!ramStateSz + 1} THEN MAX_NCYCLES + 1
  ELSE 0

\* They are there up to the last device.
LEMMA PortLoads ==
  ASSUME NEW p
  PROVE  /\ DOMAIN Port!LoadCode(p) = 0 .. PortTop - 1
         /\ \A a \in 0 .. PortTop - 1 : Port!LoadCode(p)[a] = PortLoaded(p, a)
<1>1. Port!LoadCode(p) = [a \in 0 .. Port!ramStateSz + deviceStateSz - 1 |-> PortLoaded(p, a)]
  BY Zenon DEF Port!LoadCode, PortLoaded
<1>2. Port!ramStateSz + deviceStateSz - 1 = PortTop - 1
  BY PortMap DEF PortTop
<1> QED BY <1>1, <1>2

\* The initial states satisfy it.
LEMMA PortStarting == Port!Init => PortInv
<1> SUFFICES ASSUME Port!Init PROVE PortInv
  OBVIOUS
<1>1. MAX_NCYCLES \in Nat
  BY SystemAssumption
<1>2. DOMAIN registers = 0 .. 15
  BY DEF Port!Init, Port!CppReg
<1>3. DOMAIN systemState = 0 .. PortTop - 1
  <2>1. PICK p \in Sources : systemState = Port!LoadCode(p)
    BY DEF Port!Init
  <2>2. DOMAIN Port!LoadCode(p) = 0 .. PortTop - 1
    BY PortLoads
  <2> QED BY <2>1, <2>2
<1>4. timerState = <<MAX_NCYCLES + 1, MAX_NCYCLES + 1>> /\ ncycles = 0 /\ timerIrq = FALSE
  BY DEF Port!Init
<1>5. 1 \in DOMAIN timerState /\ timerState[1] = MAX_NCYCLES + 1
  BY <1>4
<1> QED BY <1>1, <1>2, <1>3, <1>4, <1>5 DEF PortInv

\* An instruction leaves as many registers and words as there were.
LEMMA PortDomains ==
  ASSUME NEW op, NEW args, NEW regs, NEW mem
  PROVE  /\ DOMAIN Port!ExecuteRegisters(op, args, regs, mem) = DOMAIN regs
         /\ DOMAIN Port!ExecuteMemory(op, args, regs, mem) = DOMAIN mem
<1>1. DOMAIN Port!ExecuteMemory(op, args, regs, mem) = DOMAIN mem
  BY OpcodeValues, PortOpcodes, SMT DEF Port!ExecuteMemory
<1>2. DOMAIN Port!ExecuteRegisters(op, args, regs, mem) = DOMAIN regs
  BY OpcodeValues, PortOpcodes, SMT DEF Port!ExecuteRegisters
<1> QED BY <1>1, <1>2

\* A cycle leaves the timer, one nearer to its end.
LEMMA PortDevices ==
  ASSUME PortInv, Port!RunDevices
  PROVE  PortInv'
<1>1. /\ phase = "devices" /\ ncycles < MAX_NCYCLES /\ phase' = "processor"
      /\ ncycles' = ncycles /\ systemState' = systemState /\ registers' = registers
  BY DEF Port!RunDevices
<1>2. MAX_NCYCLES \in Nat
  BY SystemAssumption
<1>3. CASE ~peripherals
  <2>1. timerState' = timerState /\ timerIrq' = timerIrq
    BY <1>3, Zenon DEF Port!RunDevices
  <2> QED BY <1>1, <1>2, <2>1 DEF PortInv
<1>4. CASE peripherals
  <2> DEFINE count == IF timerState[1] > 0 THEN timerState[1] - 1 ELSE 0
  <2>1. /\ timerIrq' = (count = 0)
        /\ timerState' = [timerState EXCEPT ![1] = IF count = 0 THEN timerState[2] ELSE count]
    BY <1>4, Zenon DEF Port!RunDevices, Port!RunPeripherals
  <2>2. count = timerState[1] - 1 /\ count \in Nat /\ count > 0 /\ count + ncycles >= MAX_NCYCLES
    BY <1>1, <1>2 DEF PortInv
  <2> HIDE DEF count
  <2>3. timerState' = [timerState EXCEPT ![1] = count] /\ timerIrq' = FALSE
    <3>1. count # 0
      BY <2>2
    <3> QED BY <2>1, <3>1, Zenon
  <2>4. 1 \in DOMAIN timerState' /\ timerState'[1] = count
    <3>1. 1 \in DOMAIN timerState
      BY DEF PortInv
    <3> QED BY <2>3, <3>1
  <2> QED BY <1>1, <1>2, <2>2, <2>3, <2>4 DEF PortInv
<1> QED BY <1>3, <1>4

\* What the processor does when no request is up
PortWord == systemState[registers[PC]]
PortFile == [registers EXCEPT ![PC] = (@ + 1) % W]
PortArgs == Port!DecodeInstruction(PortWord)
PortUndefined == Port!Undefined(Opcode(PortWord), PortArgs, PortFile, systemState)

\* It executes the next instruction, or the run is not followed any further.
LEMMA PortProcessor ==
  ASSUME PortInv, Port!ProcessorAction
  PROVE  /\ phase = "processor" /\ registers[PC] \in DOMAIN systemState
         /\ timerIrq' = FALSE /\ timerState' = timerState
         /\ PortUndefined => /\ phase' = "wild" /\ UNCHANGED <<ncycles, systemState, registers>>
         /\ ~PortUndefined =>
              /\ phase' = "devices" /\ ncycles' = ncycles + 1
              /\ registers' = Port!ExecuteRegisters(Opcode(PortWord), PortArgs, PortFile, systemState)
              /\ systemState' = Port!ExecuteMemory(Opcode(PortWord), PortArgs, PortFile, systemState)
<1>1. Port!CheckIrqs = registers
  BY DEF PortInv, Port!CheckIrqs
<1>2. Port!PC = PC /\ \A w : Port!Opcode(w) = Opcode(w)
  BY PortOpcodes, PortOperands
<1> QED BY <1>1, <1>2, Zenon
       DEF Port!ProcessorAction, PortWord, PortFile, PortArgs, PortUndefined

\* The invariant is inductive.
LEMMA PortStep ==
  ASSUME PortInv, [Port!Next]_(Port!vars)
  PROVE  PortInv'
<1>0. MAX_NCYCLES \in Nat
  BY SystemAssumption
<1>1. CASE Port!RunDevices
  BY <1>1, PortDevices
<1>2. CASE Port!ProcessorAction
  <2>1. /\ phase = "processor" /\ phase' \in {"wild", "devices"} /\ timerIrq' = FALSE
        /\ timerState' = timerState
        /\ phase' = "wild" => UNCHANGED <<ncycles, systemState, registers>>
        /\ phase' = "devices" =>
             /\ ncycles' = ncycles + 1
             /\ registers' = Port!ExecuteRegisters(Opcode(PortWord), PortArgs, PortFile, systemState)
             /\ systemState' = Port!ExecuteMemory(Opcode(PortWord), PortArgs, PortFile, systemState)
    BY <1>2, PortProcessor
  <2>2. DOMAIN registers' = 0 .. 15 /\ DOMAIN systemState' = 0 .. PortTop - 1
    <3>1. DOMAIN PortFile = DOMAIN registers
      BY DEF PortFile
    <3> QED BY <2>1, <3>1, PortDomains DEF PortInv
  <2> QED BY <1>0, <2>1, <2>2 DEF PortInv
<1>3. CASE Port!FetchOutside \/ UNCHANGED Port!vars
  <2>1. /\ UNCHANGED <<ncycles, systemState, registers, timerState, timerIrq>>
        /\ phase' = "devices" => phase = "devices"
    BY <1>3 DEF Port!FetchOutside, Port!vars
  <2> QED BY <1>0, <2>1 DEF PortInv
<1> QED BY <1>1, <1>2, <1>3 DEF Port!Next

\* So it holds in every reachable state.
LEMMA PortInvariant == Port!Spec => []PortInv
<1>1. PortInv /\ [Port!Next]_(Port!vars) => PortInv'
  BY PortStep
<1> QED BY <1>1, PortStarting, PTL DEF Port!Spec

\* The timer of the port never interrupts a program, whatever it is: what a
\* program stores in the timer's words does not come back from systemState, and
\* the first delay is longer than the run (RunPeripherals, checkIrqs).
THEOREM PortNeverInterrupted == Port!Spec => []~timerIrq
<1>1. PortInv => ~timerIrq
  BY DEF PortInv
<1> QED BY <1>1, PortInvariant, PTL

\* Both start a program with the same registers and RAM.
LEMMA PortMainInit ==
  ASSUME PortSources, Port!Init
  PROVE  PortMain!Init
<1>1. PICK p \in Sources : systemState = Port!LoadCode(p)
  BY DEF Port!Init
<1>2. Port!CppReg = 0 .. 15 /\ Port!PC = PC /\ PC \in 0 .. 15
      /\ Port!CODE = PortMain!CODE /\ Port!CODE = Python!CODE /\ Port!CODE \in Nat
  BY PortMap, PortOpcodes DEF PC
<1>3. registers = [r \in 0 .. 15 |-> IF r = PC THEN Port!CODE ELSE 0]
  BY <1>2 DEF Port!Init
<1>4. registers[PC] = PortMain!CODE /\ [r \in PortOwn |-> registers[r]] = [r \in PortOwn |-> 0]
  BY <1>2, <1>3 DEF PortOwn
<1> DEFINE word(a) == IF a < IVTsz THEN Python!CODE
                      ELSE IF a - Python!CODE \in 0 .. Len(p) - 1
                        THEN Python!EncodeProgram(p).words[a - Python!CODE + 1]
                      ELSE 0
<1>5. ASSUME NEW a \in PortRam PROVE systemState[a] = word(a)
  <2>1. a \in Nat /\ a < Port!ramStateSz /\ a \in 0 .. PortTop - 1
    BY <1>5, PortMap DEF PortRam, PortTop
  <2>2. systemState[a] = PortLoaded(p, a)
    BY <1>1, <2>1, PortLoads
  <2>3. a \notin {Port!ramStateSz, Port!ramStateSz + 1}
    BY <2>1, PortMap
  <2>4. CASE a < IVTsz \/ a - Port!CODE \notin 0 .. Len(p) - 1
    BY <1>2, <2>2, <2>3, <2>4, Zenon DEF PortLoaded
  <2>5. CASE ~(a < IVTsz) /\ a - Port!CODE \in 0 .. Len(p) - 1
    <3>1. PICK i : i = a - Port!CODE + 1
      OBVIOUS
    <3>2. i \in 1 .. Len(p)
      <4>1. Len(p) \in Nat
        BY DEF PortSources
      <4> QED BY <1>2, <2>1, <2>5, <3>1, <4>1
    <3>3. /\ Port!EncodeProgram(p)[i] = Port!EncodeInstruction(p, i)
          /\ Python!EncodeProgram(p).words[i] = Python!EncodeInstruction(p, i)
      BY <3>2 DEF Port!EncodeProgram, Python!EncodeProgram
    <3>4. Port!EncodeProgram(p)[i] = Python!EncodeProgram(p).words[i]
      BY <3>2, <3>3, EncodersAgree
    <3> QED BY <1>2, <2>2, <2>5, <3>1, <3>4, Zenon DEF PortLoaded
  <2> QED BY <2>4, <2>5
<1>6. [a \in PortRam |-> systemState[a]] = [a \in PortRam |-> word(a)]
  <2> HIDE DEF word
  <2> QED BY <1>5
<1>7. [registers |-> [r \in PortOwn |-> 0], ram |-> [a \in PortRam |-> word(a)]] \in PortStarts
  BY Zenon DEF PortStarts
<1> HIDE DEF word
<1> QED BY <1>4, <1>6, <1>7 DEF PortMain!Init

\* What does not execute an instruction is a stutter.
LEMMA PortHidden ==
  ASSUME Port!RunDevices \/ Port!FetchOutside \/ UNCHANGED Port!vars
  PROVE  UNCHANGED PortMain!mainVars
<1>1. UNCHANGED <<systemState, registers>>
  BY DEF Port!RunDevices, Port!FetchOutside, Port!vars
<1>2. /\ registers'[PC] = registers[PC]
      /\ [r \in PortOwn |-> registers'[r]] = [r \in PortOwn |-> registers[r]]
      /\ [a \in PortRam |-> systemState'[a]] = [a \in PortRam |-> systemState[a]]
  BY <1>1
<1> QED BY <1>2 DEF PortMain!mainVars

\* A defined instruction that is as in Python is the next one of the machine
\* that the Python model implements.
LEMMA PortExecutes ==
  ASSUME PortInv, Port!AsInPython, Port!ProcessorAction, ~PortUndefined
  PROVE  PortMain!Step
<1> DEFINE op == Opcode(PortWord)
           operands == Operands(PortWord)
           file == PortMain!RegisterFile
           memory == PortMain!Memory
<1>1. /\ phase = "processor" /\ registers[PC] \in DOMAIN systemState
      /\ registers' = Port!ExecuteRegisters(op, PortArgs, PortFile, systemState)
      /\ systemState' = Port!ExecuteMemory(op, PortArgs, PortFile, systemState)
  BY PortProcessor
<1>2. /\ registers[PC] < Port!ramStateSz /\ op # BL
      /\ op = LDR => PortArgs[2] < Port!ramStateSz
      /\ op = POP => PortFile[SP] < Port!ramStateSz
      /\ op > ASL \/ Port!CppAlu(op, PortFile[PortArgs[2]], PortFile[PortArgs[3]]) =
                       Alu(op, PortFile[PortArgs[2]], PortFile[PortArgs[3]])
  <2>1. \A w : Port!Opcode(w) = Opcode(w)
    BY PortOperands
  <2> QED BY <1>1, <2>1, PortOpcodes, PortAlu, Zenon
          DEF Port!AsInPython, PortUndefined, PortWord, PortFile, PortArgs
<1>3. /\ DOMAIN registers = 0 .. 15 /\ DOMAIN systemState = 0 .. PortTop - 1
      /\ PortTop \in Nat /\ PortTop < W /\ W \in Nat /\ Port!ramStateSz \in Nat
      /\ PortTop <= PortMain!STATETOP /\ PortMain!STATETOP \in Nat
      /\ Port!ramStateSz <= PortTop
  BY PortMap, WordAssumption DEF PortInv, PortTop
<1>4. registers[PC] \in PortRam /\ registers[PC] + 1 \in Word
  <2>1. PICK n : n = registers[PC]
    OBVIOUS
  <2>2. n \in 0 .. PortTop - 1 /\ n < Port!ramStateSz
    BY <1>1, <1>2, <1>3, <2>1, Zenon
  <2>3. n \in 0 .. Port!ramStateSz - 1 /\ n + 1 \in 0 .. W - 1
    BY <1>3, <2>2
  <2> QED BY <2>1, <2>3 DEF PortRam, Word
<1>5. /\ PC \in 0 .. 15 /\ SP \in 0 .. 15 /\ PortMain!PC = PC /\ PortMain!Reg = Reg
      /\ \A r \in 0 .. 15 : r \in Reg
      /\ PortOwn = 0 .. 15 \ {PC}
  BY PortMap, PortMainOpcodes DEF PC, SP, Reg, NREGS, PortOwn
<1>6. /\ DOMAIN PortFile = 0 .. 15
      /\ PortFile[PC] = registers[PC] + 1
      /\ \A r \in PortOwn : PortFile[r] = registers[r]
  <2>1. (registers[PC] + 1) % W = registers[PC] + 1
    BY <1>4, Modulo
  <2> QED BY <1>3, <1>5, <2>1 DEF PortFile
<1>7. file = [r \in Reg |-> IF r \in PortOwn THEN [q \in PortOwn |-> registers[q]][r]
                            ELSE IF r = PC THEN registers[PC] + 1 ELSE 0]
  BY <1>5 DEF PortMain!RegisterFile
<1>8. memory = [a \in 0 .. PortMain!STATETOP - 1 |->
                  IF a \in PortRam THEN [b \in PortRam |-> systemState[b]][a] ELSE 0]
  BY DEF PortMain!Memory
<1> HIDE DEF op, operands, file, memory
<1>9. DOMAIN file = Reg /\ \A r \in 0 .. 15 : file[r] = PortFile[r]
  BY <1>5, <1>6, <1>7
<1>10. /\ DOMAIN memory = 0 .. PortMain!STATETOP - 1
       /\ \A a \in PortRam : memory[a] = systemState[a]
  <2>1. \A a \in PortRam : a \in 0 .. PortMain!STATETOP - 1
    BY <1>3 DEF PortRam
  <2> QED BY <1>8, <2>1
<1>11. /\ op \notin {NOP, WFI, HLI} => operands[1] = PortArgs[1]
       /\ op \notin {NOP, WFI, HLI, B, BL, BX} => operands[2] = PortArgs[2]
       /\ op \notin {NOP, WFI, HLI, B, BL, BX} \cup RegAddrOps => operands[3] = PortArgs[3]
  BY PortOperands DEF op, operands, PortArgs
<1>12. ~Port!Undefined(op, PortArgs, PortFile, systemState)
  BY DEF op, PortUndefined
<1>13. /\ op = LDR => PortArgs[2] \in PortRam
       /\ op = POP => PortFile[SP] \in PortRam
  <2>1. op = LDR => PortArgs[2] \in 0 .. PortTop - 1
    BY <1>3, <1>12, OpcodeValues, PortOpcodes, SMT DEF Port!Undefined
  <2>2. op = POP => PortFile[SP] \in 0 .. PortTop - 1
    BY <1>3, <1>12, OpcodeValues, PortOpcodes, SMT DEF Port!Undefined
  <2>3. /\ op = LDR => PortArgs[2] < Port!ramStateSz
        /\ op = POP => PortFile[SP] < Port!ramStateSz
    BY <1>2, Zenon
  <2> QED BY <1>3, <2>1, <2>2, <2>3 DEF PortRam
<1>14. /\ ~Raises(op, operands, file, memory)
       /\ \A r \in 0 .. 15 : RegistersAfter(op, operands, file, memory)[r] = registers'[r]
       /\ \A a \in PortRam : MemoryAfter(op, operands, file, memory)[a] = systemState'[a]
  <2>1. PortAgree(op, PortArgs, operands, PortFile, systemState, file, memory)
    BY <1>2, <1>3, <1>6, <1>9, <1>10, <1>11, <1>12, <1>13, Zenon DEF PortAgree
  <2>2. PortSame(op, PortArgs, operands, PortFile, systemState, file, memory)
    BY <2>1, PortInstruction
  <2> QED BY <1>1, <2>2, Zenon DEF PortSame, op
<1> DEFINE after == PortMain!RegistersAfter(op, operands, file, memory)
           words == PortMain!MemoryAfter(op, operands, file, memory)
<1>15. /\ ~PortMain!Raises(op, operands, file, memory)
       /\ \A r \in 0 .. 15 : after[r] = registers'[r]
       /\ \A a \in PortRam : words[a] = systemState'[a]
  BY <1>14, PortMainEffects
<1>16. /\ PortMain!Opcode([a \in PortRam |-> systemState[a]][registers[PC]]) = op
       /\ PortMain!Operands([a \in PortRam |-> systemState[a]][registers[PC]]) = operands
  <2>1. [a \in PortRam |-> systemState[a]][registers[PC]] = PortWord
    BY <1>4 DEF PortWord
  <2> QED BY <2>1, PortOperands DEF op, operands
<1> HIDE DEF after, words
<1>17. /\ registers'[PC] = after[PC]
       /\ [r \in PortOwn |-> registers'[r]] = [r \in PortOwn |-> after[r]]
       /\ [a \in PortRam |-> systemState'[a]] = [a \in PortRam |-> words[a]]
  BY <1>5, <1>15
<1> QED BY <1>4, <1>5, <1>15, <1>16, <1>17 DEF PortMain!Step, after, words, file, memory

\* A step of the port is a step of that machine or a stutter.
LEMMA PortRefines ==
  ASSUME PortInv, Port!AsInPython, [Port!Next]_(Port!vars)
  PROVE  [PortMain!Step]_(PortMain!mainVars)
<1>1. CASE Port!ProcessorAction
  <2>1. CASE PortUndefined
    <3>1. UNCHANGED <<ncycles, systemState, registers>>
      BY <1>1, <2>1, PortProcessor
    <3>2. /\ registers'[PC] = registers[PC]
          /\ [r \in PortOwn |-> registers'[r]] = [r \in PortOwn |-> registers[r]]
          /\ [a \in PortRam |-> systemState'[a]] = [a \in PortRam |-> systemState[a]]
      BY <3>1
    <3> QED BY <3>2 DEF PortMain!mainVars
  <2>2. CASE ~PortUndefined
    BY <1>1, <2>2, PortExecutes
  <2> QED BY <2>1, <2>2
<1>2. CASE Port!RunDevices \/ Port!FetchOutside \/ UNCHANGED Port!vars
  BY <1>2, PortHidden
<1> QED BY <1>1, <1>2 DEF Port!Next

\* The port executes a program as Python does ("a C++ version of the Python
\* code", README.md of its directory), in builds with and without PERIPHERALS:
\* the same words, the same registers, the same RAM, for programs that both
\* encoders take (PortSources), as long as their instructions avoid what differs
\* (AsInPython), and up to the first one that the port does not define.
THEOREM PortImplementsPython ==
  ASSUME PortSources
  PROVE  Port!Spec /\ []Port!AsInPython => PortMain!Spec
<1>1. Port!Init => PortMain!Init
  BY PortMainInit
<1>2. PortInv /\ Port!AsInPython /\ [Port!Next]_(Port!vars) => [PortMain!Step]_(PortMain!mainVars)
  BY PortRefines
<1> QED BY <1>1, <1>2, PortInvariant, PTL DEF Port!Spec, PortMain!Spec
=============================================================================
