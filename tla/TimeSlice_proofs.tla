-------------------------- MODULE TimeSlice_proofs ---------------------------
(***************************************************************************)
(* TimeSlice for any number of registers, any words and any place of stack *)
(* and control blocks: the types and the stack discipline are invariant,   *)
(* and the switch implements TaskContexts.                                 *)
(***************************************************************************)
EXTENDS TimeSlice, TLAPS

Inv == TypeOK /\ StackDiscipline

\* The control blocks are apart, and the words a switch uses are addresses.
LEMMA Layout ==
  /\ Tcb(0) = TCB_OFFSET
  /\ Tcb(1) = TCB_OFFSET + TCB_SZ
  /\ StackBase \in Nat /\ NREGS_CONTEXT \in Nat \ {0}
  /\ \A k \in 0 .. NREGS_CONTEXT :
       StackBase + k \in Stack /\ StackBase + k \in Address
  /\ \A t \in {0, 1}, k \in Regs : Tcb(t) + k \in Tcbs /\ Tcb(t) + k \in Address
  /\ \A t, u \in {0, 1}, j, k \in Regs : Tcb(t) + j = Tcb(u) + k => t = u /\ j = k
  /\ PID \in Address /\ PID \notin Tcbs /\ PID \notin Stack
  /\ \A a \in Tcbs : a \notin Stack
<1>1. /\ Tcb(0) = TCB_OFFSET
      /\ Tcb(1) = TCB_OFFSET + TCB_SZ
  BY SliceAssumption DEF Tcb
<1>2. /\ TCB_OFFSET \in Nat /\ TCB_SZ \in Nat /\ StackBase \in Nat
      /\ NREGS_CONTEXT \in Nat \ {0} /\ TCB_SZ >= NREGS_CONTEXT
  BY SliceAssumption
<1>3. ASSUME NEW t \in {0, 1}, NEW k \in Regs
      PROVE  Tcb(t) + k \in Tcbs
  BY <1>1, <1>2 DEF Regs, Tcbs
<1>4. ASSUME NEW t \in {0, 1}, NEW u \in {0, 1}, NEW j \in Regs, NEW k \in Regs,
             Tcb(t) + j = Tcb(u) + k
      PROVE  t = u /\ j = k
  BY <1>1, <1>2, <1>4 DEF Regs
<1>5. \A k \in 0 .. NREGS_CONTEXT : StackBase + k \in Stack
  BY <1>2 DEF Stack
<1>6. /\ \A k \in 0 .. NREGS_CONTEXT : StackBase + k \in Address
      /\ \A t \in {0, 1}, k \in Regs : Tcb(t) + k \in Address
      /\ PID \in Address
  BY <1>3, <1>5 DEF Address
<1>7. PID \notin Tcbs /\ PID \notin Stack /\ \A a \in Tcbs : a \notin Stack
  BY SliceAssumption
<1> QED
  BY <1>1, <1>2, <1>3, <1>4, <1>5, <1>6, <1>7

\* The stack pointer and the loop counter at every point of time_slice.
LEMMA Pointer ==
  ASSUME Inv
  PROVE  /\ r \in Nat /\ r < NREGS_CONTEXT /\ msp \in Nat
         /\ phase \in {"run", "push", "load"} => msp = StackBase + r
         /\ phase = "run" => msp = StackBase
         /\ phase = "swap" => msp = StackBase + NREGS_CONTEXT /\ r = 0
         /\ phase \in {"save", "pop"} => msp = StackBase + NREGS_CONTEXT - r
         /\ msp \in Stack /\ msp \in Address /\ msp # PID
<1>1. msp \in Stack
  BY DEF Inv, TypeOK
<1>2. msp \in Address /\ msp # PID
  BY <1>1, Layout DEF Address
<1> QED
  BY <1>1, <1>2, Layout DEF Inv, TypeOK, StackDiscipline, Regs, Stack

\* What a loop does to phase and counter.
LEMMA Rounds ==
  ASSUME NEW after, r \in Regs, NextRound(after)
  PROVE  \/ r + 1 < NREGS_CONTEXT /\ r' = r + 1 /\ phase' = phase
         \/ r + 1 = NREGS_CONTEXT /\ r' = 0 /\ phase' = after
BY Layout DEF NextRound, Regs

-----------------------------------------------------------------------------
(* The invariant *)

LEMMA InitInv == Init => Inv
<1> SUFFICES ASSUME Init PROVE Inv
  OBVIOUS
<1>1. 0 \in Regs /\ StackBase \in Stack
  BY Layout DEF Regs, Stack
<1> QED
  BY <1>1 DEF Init, Inv, TypeOK, StackDiscipline

LEMMA PushKeeps == Inv /\ PushRegister => Inv'
<1> SUFFICES ASSUME Inv, PushRegister PROVE Inv'
  OBVIOUS
<1>1. /\ phase = "push" /\ msp = StackBase + r /\ r \in Regs /\ r \in Nat
      /\ registers' = registers /\ registers \in [Regs -> Word]
      /\ systemState \in [Address -> Word]
      /\ msp \in Address /\ msp # PID
  BY Pointer DEF Inv, TypeOK, PushRegister, Regs
<1>2. /\ systemState' = [systemState EXCEPT ![msp] = registers[r]]
      /\ msp' = msp + 1 /\ NextRound("swap")
  BY DEF PushRegister
<1>3. systemState' \in [Address -> Word] /\ systemState'[PID] = systemState[PID]
  BY <1>1, <1>2, Layout
<1>4. \A k \in 0 .. r : systemState'[StackBase + k] = registers[k]
  <2> SUFFICES ASSUME NEW k \in 0 .. r PROVE systemState'[StackBase + k] = registers[k]
    OBVIOUS
  <2>1. StackBase + k \in Address
    BY <1>1, Layout DEF Regs
  <2>2. CASE k = r
    BY <1>1, <1>2, <2>1, <2>2
  <2>3. CASE k # r
    <3>1. k \in 0 .. r - 1 /\ StackBase + k # msp
      BY <1>1, <2>3, Layout
    <3>2. systemState[StackBase + k] = registers[k]
      BY <1>1, <3>1 DEF Inv, StackDiscipline
    <3> QED BY <1>1, <1>2, <2>1, <3>1, <3>2
  <2> QED BY <2>2, <2>3
<1>5. \/ r + 1 < NREGS_CONTEXT /\ r' = r + 1 /\ phase' = "push"
      \/ r + 1 = NREGS_CONTEXT /\ r' = 0 /\ phase' = "swap"
  BY <1>1, <1>2, Rounds
<1>6. TypeOK'
  BY <1>1, <1>2, <1>3, <1>5, Layout DEF Inv, TypeOK, Regs, Stack
<1>7. StackDiscipline'
  BY <1>1, <1>2, <1>4, <1>5, Layout DEF StackDiscipline
<1> QED BY <1>6, <1>7 DEF Inv

LEMMA SwapKeeps == Inv /\ GetNextTask => Inv'
<1> SUFFICES ASSUME Inv, GetNextTask PROVE Inv'
  OBVIOUS
<1>1. /\ phase = "swap" /\ r = 0 /\ phase' = "save" /\ r' = r
      /\ registers' = registers /\ msp' = msp
      /\ systemState' = [systemState EXCEPT ![PID] = 1 - @]
      /\ systemState \in [Address -> Word] /\ systemState[PID] \in {0, 1}
      /\ registers \in [Regs -> Word] /\ msp = StackBase + NREGS_CONTEXT
      /\ msp \in Stack /\ r \in Regs
  BY Pointer DEF Inv, TypeOK, GetNextTask
<1>2. systemState'[PID] \in {0, 1} /\ systemState' \in [Address -> Word]
  BY <1>1, Layout, SliceAssumption
<1>3. \A k \in 0 .. NREGS_CONTEXT - 1 : systemState'[StackBase + k] = registers[k]
  <2> SUFFICES ASSUME NEW k \in 0 .. NREGS_CONTEXT - 1
               PROVE  systemState'[StackBase + k] = registers[k]
    OBVIOUS
  <2>1. StackBase + k \in Address /\ StackBase + k # PID
    BY Layout
  <2>2. systemState[StackBase + k] = registers[k]
    BY <1>1 DEF Inv, StackDiscipline
  <2> QED BY <1>1, <2>1, <2>2
<1>4. TypeOK'
  BY <1>1, <1>2 DEF TypeOK
<1>5. StackDiscipline'
  BY <1>1, <1>3, Layout DEF StackDiscipline
<1> QED BY <1>4, <1>5 DEF Inv

\* A round of the third loop leaves the stack alone, and the registers it has
\* passed are in the control block, the last one first.
LEMMA SaveStores ==
  ASSUME Inv, SaveToTcb
  PROVE  /\ systemState' \in [Address -> Word] /\ systemState'[PID] = systemState[PID]
         /\ \A k \in 0 .. NREGS_CONTEXT - 1 : systemState'[StackBase + k] = registers[k]
         /\ \A k \in 1 .. r :
              systemState'[Tcb(1 - systemState[PID]) + k] = registers[NREGS_CONTEXT - k]
         /\ \A k \in Regs :
              systemState'[Tcb(systemState[PID]) + k] = systemState[Tcb(systemState[PID]) + k]
<1> DEFINE pid == systemState[PID]
           to == Tcb(1 - pid) + r
<1>1. /\ phase = "save" /\ msp = StackBase + NREGS_CONTEXT - r /\ r \in Regs
      /\ r \in Nat /\ r < NREGS_CONTEXT /\ msp \in Address
      /\ registers' = registers /\ registers \in [Regs -> Word]
      /\ systemState \in [Address -> Word] /\ pid \in {0, 1}
  BY Pointer DEF Inv, TypeOK, SaveToTcb
<1>2. /\ systemState' = [systemState EXCEPT ![to] = systemState[msp]]
      /\ msp' = msp - 1 /\ NextRound("load")
  BY DEF SaveToTcb
<1>3. 1 - pid \in {0, 1} /\ to \in Tcbs /\ to \in Address /\ to # PID /\ to \notin Stack
  BY <1>1, Layout
<1>4. systemState' \in [Address -> Word] /\ systemState'[PID] = pid
  BY <1>1, <1>2, <1>3, Layout
<1>5. \A k \in 0 .. NREGS_CONTEXT :
        systemState'[StackBase + k] = systemState[StackBase + k]
  BY <1>1, <1>2, <1>3, Layout
<1>6. \A k \in 0 .. NREGS_CONTEXT - 1 : systemState'[StackBase + k] = registers[k]
  BY <1>1, <1>5, Layout DEF Inv, StackDiscipline
<1>7. \A k \in 1 .. r :
        systemState'[Tcb(1 - pid) + k] = registers[NREGS_CONTEXT - k]
  <2> SUFFICES ASSUME NEW k \in 1 .. r
               PROVE  systemState'[Tcb(1 - pid) + k] = registers[NREGS_CONTEXT - k]
    OBVIOUS
  <2>1. k \in Regs /\ Tcb(1 - pid) + k \in Address
    BY <1>1, <1>3, Layout DEF Regs
  <2>2. CASE k = r
    <3>1. NREGS_CONTEXT - r \in 0 .. NREGS_CONTEXT - 1
          /\ StackBase + (NREGS_CONTEXT - r) = msp
      BY <1>1, <2>2, Layout
    <3>2. systemState[msp] = registers[NREGS_CONTEXT - r]
      BY <1>1, <3>1 DEF Inv, StackDiscipline
    <3> QED BY <1>1, <1>2, <1>3, <2>2, <3>2
  <2>3. CASE k # r
    <3>1. k \in 1 .. r - 1
      BY <1>1, <2>3
    <3>2. systemState[Tcb(1 - pid) + k] = registers[NREGS_CONTEXT - k]
      BY <1>1, <3>1 DEF Inv, StackDiscipline
    <3>3. Tcb(1 - pid) + k # to
      BY <1>1, <1>3, <2>1, <2>3, Layout
    <3> QED BY <1>1, <1>2, <2>1, <3>2, <3>3
  <2> QED BY <2>2, <2>3
<1>8. \A k \in Regs : systemState'[Tcb(pid) + k] = systemState[Tcb(pid) + k]
  <2> SUFFICES ASSUME NEW k \in Regs
               PROVE  systemState'[Tcb(pid) + k] = systemState[Tcb(pid) + k]
    OBVIOUS
  <2>1. Tcb(pid) + k \in Address /\ pid # 1 - pid
    BY <1>1, Layout
  <2>2. Tcb(pid) + k # to
    BY <1>1, <1>3, <2>1, Layout
  <2> QED BY <1>1, <1>2, <2>1, <2>2
<1> QED BY <1>4, <1>6, <1>7, <1>8

LEMMA SaveKeeps == Inv /\ SaveToTcb => Inv'
<1> SUFFICES ASSUME Inv, SaveToTcb PROVE Inv'
  OBVIOUS
<1> DEFINE pid == systemState[PID]
<1>1. /\ phase = "save" /\ msp = StackBase + NREGS_CONTEXT - r /\ r \in Regs
      /\ r \in Nat /\ r < NREGS_CONTEXT /\ msp \in Address
      /\ registers' = registers /\ registers \in [Regs -> Word]
      /\ systemState \in [Address -> Word] /\ pid \in {0, 1}
  BY Pointer DEF Inv, TypeOK, SaveToTcb
<1>2. msp' = msp - 1 /\ NextRound("load")
  BY DEF SaveToTcb
<1>4. systemState' \in [Address -> Word] /\ systemState'[PID] = pid
  BY SaveStores
<1>6. \A k \in 0 .. NREGS_CONTEXT - 1 : systemState'[StackBase + k] = registers[k]
  BY SaveStores
<1>7. \A k \in 1 .. r :
        systemState'[Tcb(1 - pid) + k] = registers[NREGS_CONTEXT - k]
  BY SaveStores
<1>8. \/ r + 1 < NREGS_CONTEXT /\ r' = r + 1 /\ phase' = "save"
      \/ r + 1 = NREGS_CONTEXT /\ r' = 0 /\ phase' = "load"
  BY <1>1, <1>2, Rounds
<1>9. TypeOK'
  <2>1. msp' \in Stack /\ r' \in Regs
    BY <1>1, <1>2, <1>8, Layout DEF Regs, Stack
  <2> QED BY <1>1, <1>2, <1>4, <1>8, <2>1 DEF TypeOK
<1>10. StackDiscipline'
  <2>1. CASE r + 1 < NREGS_CONTEXT
    <3>1. msp' = StackBase + NREGS_CONTEXT - r'
      BY <1>1, <1>2, <1>8, <2>1, Layout
    <3> QED BY <1>1, <1>4, <1>6, <1>7, <1>8, <2>1, <3>1 DEF StackDiscipline, Tcb
  <2>2. CASE r + 1 = NREGS_CONTEXT
    <3>1. msp' = StackBase
      BY <1>1, <1>2, <2>2, Layout
    <3> QED BY <1>1, <1>2, <1>8, <2>2, <3>1, Layout DEF StackDiscipline
  <2> QED BY <1>8, <2>1, <2>2
<1> QED BY <1>9, <1>10 DEF Inv

LEMMA LoadKeeps == Inv /\ LoadFromTcb => Inv'
<1> SUFFICES ASSUME Inv, LoadFromTcb PROVE Inv'
  OBVIOUS
<1> DEFINE pid == systemState[PID]
           from == Tcb(pid) + r
<1>1. /\ phase = "load" /\ msp = StackBase + r /\ r \in Regs
      /\ r \in Nat /\ r < NREGS_CONTEXT /\ msp \in Address /\ msp \in Stack /\ msp # PID
      /\ registers' = registers /\ registers \in [Regs -> Word]
      /\ systemState \in [Address -> Word] /\ pid \in {0, 1}
  BY Pointer DEF Inv, TypeOK, LoadFromTcb
<1>2. /\ systemState' = [systemState EXCEPT ![msp] = systemState[from]]
      /\ msp' = msp + 1 /\ NextRound("pop")
  BY DEF LoadFromTcb
<1>3. from \in Address
  BY <1>1, Layout
<1>4. systemState' \in [Address -> Word] /\ systemState'[PID] = pid
  BY <1>1, <1>2, <1>3, Layout
<1>5. \A k \in Regs : systemState'[Tcb(pid) + k] = systemState[Tcb(pid) + k]
  BY <1>1, <1>2, Layout
<1>6. \A k \in 0 .. r : systemState'[StackBase + k] = systemState'[Tcb(pid) + k]
  <2> SUFFICES ASSUME NEW k \in 0 .. r
               PROVE  systemState'[StackBase + k] = systemState[Tcb(pid) + k]
    <3>1. 0 .. r \subseteq Regs
      BY <1>1, Layout DEF Regs
    <3> QED BY <1>5, <3>1
  <2>1. StackBase + k \in Address
    BY <1>1, Layout
  <2>2. CASE k = r
    BY <1>1, <1>2, <2>1, <2>2
  <2>3. CASE k # r
    <3>1. k \in 0 .. r - 1 /\ StackBase + k # msp
      BY <1>1, <2>3, Layout
    <3>2. systemState[StackBase + k] = systemState[Tcb(pid) + k]
      BY <1>1, <3>1 DEF Inv, StackDiscipline
    <3> QED BY <1>1, <1>2, <2>1, <3>1, <3>2
  <2> QED BY <2>2, <2>3
<1>7. \/ r + 1 < NREGS_CONTEXT /\ r' = r + 1 /\ phase' = "load"
      \/ r + 1 = NREGS_CONTEXT /\ r' = 0 /\ phase' = "pop"
  BY <1>1, <1>2, Rounds
<1>8. TypeOK'
  <2>1. msp' \in Stack /\ r' \in Regs
    BY <1>1, <1>2, <1>7, Layout DEF Regs, Stack
  <2> QED BY <1>1, <1>4, <1>7, <2>1 DEF TypeOK
<1>9. StackDiscipline'
  <2>1. CASE r + 1 < NREGS_CONTEXT
    <3>1. msp' = StackBase + r'
      BY <1>1, <1>2, <1>7, <2>1, Layout
    <3> QED BY <1>1, <1>4, <1>6, <1>7, <2>1, <3>1 DEF StackDiscipline, Tcb
  <2>2. CASE r + 1 = NREGS_CONTEXT
    <3>1. msp' = StackBase + NREGS_CONTEXT - r' /\ r' = 0
      BY <1>1, <1>2, <1>7, <2>2, Layout
    <3>2. \A k \in 0 .. NREGS_CONTEXT - 1 :
            systemState'[StackBase + k] = systemState'[Tcb(pid) + k]
      BY <1>1, <1>6, <2>2
    <3> QED BY <1>1, <1>4, <1>7, <2>2, <3>1, <3>2 DEF StackDiscipline, Tcb
  <2> QED BY <1>7, <2>1, <2>2
<1> QED BY <1>8, <1>9 DEF Inv

\* A round of the last loop leaves the memory alone, and the registers it has
\* passed are those of the control block.
LEMMA PopFills ==
  ASSUME Inv, PopRegister
  PROVE  /\ systemState' = systemState
         /\ registers' \in [Regs -> Word]
         /\ \A k \in 1 .. r : registers'[k] = InTcb(systemState[PID])[k]
<1> DEFINE pid == systemState[PID]
<1>1. /\ phase = "pop" /\ msp = StackBase + NREGS_CONTEXT - r /\ r \in Regs
      /\ r \in Nat /\ r < NREGS_CONTEXT /\ msp \in Address
      /\ systemState' = systemState /\ registers \in [Regs -> Word]
      /\ systemState \in [Address -> Word] /\ pid \in {0, 1}
  BY Pointer DEF Inv, TypeOK, PopRegister
<1>2. /\ registers' = [registers EXCEPT ![r] = systemState[msp]]
      /\ msp' = msp - 1 /\ NextRound("run")
  BY DEF PopRegister
<1>3. \A k \in 0 .. NREGS_CONTEXT - 1 :
        systemState[StackBase + k] = systemState[Tcb(pid) + k]
  BY <1>1 DEF Inv, StackDiscipline
<1>4. \A k \in 1 .. r : registers'[k] = InTcb(pid)[k]
  <2> SUFFICES ASSUME NEW k \in 1 .. r PROVE registers'[k] = InTcb(pid)[k]
    OBVIOUS
  <2>1. k \in Regs /\ k \in Saved
    BY <1>1, Layout DEF Regs, Saved
  <2>2. CASE k = r
    <3>1. NREGS_CONTEXT - r \in 0 .. NREGS_CONTEXT - 1
          /\ StackBase + (NREGS_CONTEXT - r) = msp
      BY <1>1, <2>2, Layout
    <3>2. systemState[msp] = systemState[Tcb(pid) + (NREGS_CONTEXT - r)]
      BY <1>3, <3>1
    <3>3. Tcb(pid) + (NREGS_CONTEXT - r) = Tcb(pid) + NREGS_CONTEXT - r
      BY <1>1, Layout, SliceAssumption
    <3> QED BY <1>1, <1>2, <2>1, <2>2, <3>2, <3>3 DEF InTcb
  <2>3. CASE k # r
    <3>1. k \in 1 .. r - 1
      BY <1>1, <2>3
    <3>2. registers[k] = InTcb(pid)[k]
      BY <1>1, <3>1 DEF Inv, StackDiscipline
    <3> QED BY <1>1, <1>2, <2>1, <2>3, <3>2
  <2> QED BY <2>2, <2>3
<1> QED BY <1>1, <1>2, <1>4

LEMMA PopKeeps == Inv /\ PopRegister => Inv'
<1> SUFFICES ASSUME Inv, PopRegister PROVE Inv'
  OBVIOUS
<1> DEFINE pid == systemState[PID]
<1>1. /\ phase = "pop" /\ msp = StackBase + NREGS_CONTEXT - r /\ r \in Regs
      /\ r \in Nat /\ r < NREGS_CONTEXT /\ msp \in Address
      /\ systemState' = systemState /\ registers \in [Regs -> Word]
      /\ systemState \in [Address -> Word] /\ pid \in {0, 1}
  BY Pointer DEF Inv, TypeOK, PopRegister
<1>2. msp' = msp - 1 /\ NextRound("run")
  BY DEF PopRegister
<1>3. \A k \in 0 .. NREGS_CONTEXT - 1 :
        systemState[StackBase + k] = systemState[Tcb(pid) + k]
  BY <1>1 DEF Inv, StackDiscipline
<1>4. registers' \in [Regs -> Word] /\ \A k \in 1 .. r : registers'[k] = InTcb(pid)[k]
  BY PopFills
<1>5. \/ r + 1 < NREGS_CONTEXT /\ r' = r + 1 /\ phase' = "pop"
      \/ r + 1 = NREGS_CONTEXT /\ r' = 0 /\ phase' = "run"
  BY <1>1, <1>2, Rounds
<1>6. TypeOK'
  <2>1. msp' \in Stack /\ r' \in Regs
    BY <1>1, <1>2, <1>5, Layout DEF Regs, Stack
  <2> QED BY <1>1, <1>4, <1>5, <2>1 DEF TypeOK
<1>7. StackDiscipline'
  <2>1. CASE r + 1 < NREGS_CONTEXT
    <3>1. msp' = StackBase + NREGS_CONTEXT - r' /\ r' - 1 = r
      BY <1>1, <1>2, <1>5, <2>1, Layout
    <3>2. \A k \in 1 .. r' - 1 : registers'[k] = InTcb(pid)[k]
      BY <1>4, <3>1
    <3>3. (InTcb(pid))' = InTcb(pid)
      BY <1>1 DEF InTcb, Tcb
    <3> QED BY <1>1, <1>3, <1>5, <2>1, <3>1, <3>2, <3>3 DEF StackDiscipline, Tcb, InTcb
  <2>2. CASE r + 1 = NREGS_CONTEXT
    <3>1. msp' = StackBase
      BY <1>1, <1>2, <2>2, Layout
    <3> QED BY <1>1, <1>5, <2>2, <3>1 DEF StackDiscipline
  <2> QED BY <1>5, <2>1, <2>2
<1> QED BY <1>6, <1>7 DEF Inv

LEMMA OthersKeep ==
  Inv /\ (RunTask \/ TimerTick \/ UNCHANGED vars) => Inv'
<1> SUFFICES ASSUME Inv, RunTask \/ TimerTick \/ UNCHANGED vars PROVE Inv'
  OBVIOUS
<1>1. CASE RunTask
  <2>1. PICK w \in Word :
          systemState' = [systemState EXCEPT ![StackBase + NREGS_CONTEXT] = w]
    BY <1>1 DEF RunTask
  <2>2. systemState' \in [Address -> Word] /\ systemState'[PID] = systemState[PID]
    BY <2>1, Layout DEF Inv, TypeOK
  <2> QED BY <1>1, <2>2 DEF RunTask, Inv, TypeOK, StackDiscipline
<1>2. CASE TimerTick
  BY <1>2, Layout DEF TimerTick, Inv, TypeOK, StackDiscipline
<1>3. CASE UNCHANGED vars
  BY <1>3 DEF vars, Inv, TypeOK, StackDiscipline, Tcb, InTcb
<1> QED BY <1>1, <1>2, <1>3

LEMMA StepInv == Inv /\ [Next]_vars => Inv'
BY PushKeeps, SwapKeeps, SaveKeeps, LoadKeeps, PopKeeps, OthersKeep DEF Next

\* Types, and the stack discipline: a switch returns the stack pointer to where
\* it was, and what it reads is what it has written (time_slice), for any
\* number of registers and any layout that keeps stack and control blocks apart.
THEOREM TypeCorrect == Spec => []TypeOK
<1>1. Inv => TypeOK
  BY DEF Inv
<1> QED BY InitInv, StepInv, <1>1, PTL DEF Spec

\* The stack pointer returns, and the context on the stack is complete.
THEOREM StackKept == Spec => []StackDiscipline
<1>1. Inv => StackDiscipline
  BY DEF Inv
<1> QED BY InitInv, StepInv, <1>1, PTL DEF Spec

-----------------------------------------------------------------------------
(* The refinement *)

LEMMA ContextInTcb ==
  ASSUME Inv, NEW t \in {0, 1}
  PROVE  InTcb(t) \in [Saved -> Word]
<1> SUFFICES ASSUME NEW k \in Saved
             PROVE  systemState[Tcb(t) + NREGS_CONTEXT - k] \in Word
  BY DEF InTcb
<1>1. NREGS_CONTEXT - k \in Regs
  BY Layout DEF Saved, Regs
<1>2. Tcb(t) + (NREGS_CONTEXT - k) \in Address
  BY <1>1, Layout
<1>3. Tcb(t) + (NREGS_CONTEXT - k) = Tcb(t) + NREGS_CONTEXT - k
  BY <1>1, Layout, SliceAssumption DEF Saved
<1> QED BY <1>2, <1>3 DEF Inv, TypeOK

LEMMA ContextInRegisters == Inv => InRegisters \in [Saved -> Word]
BY Layout DEF Inv, TypeOK, InRegisters, Saved, Regs

LEMMA InitImplements == Init => Tasks!Init
<1> SUFFICES ASSUME Init PROVE Tasks!Init
  OBVIOUS
<1>1. Inv
  BY InitInv
<1>2. CurrentTask \in {0, 1}
  BY DEF Init, CurrentTask
<1>3. \A t \in {0, 1} : InTcb(t) \in [Saved -> Word]
  BY <1>1, ContextInTcb
<1> QED BY <1>1, <1>2, <1>3, ContextInRegisters DEF Tasks!Init

\* What a step that is part of a switch leaves alone: the control block of t.
LEMMA TcbUntouched ==
  ASSUME Inv, NEW t \in {0, 1},
         \A k \in Regs : systemState'[Tcb(t) + k] = systemState[Tcb(t) + k]
  PROVE  (InTcb(t))' = InTcb(t)
<1>1. ASSUME NEW k \in Saved
      PROVE  systemState'[Tcb(t) + NREGS_CONTEXT - k] = systemState[Tcb(t) + NREGS_CONTEXT - k]
  <2>1. NREGS_CONTEXT - k \in Regs
    BY Layout DEF Saved, Regs
  <2>2. Tcb(t) + (NREGS_CONTEXT - k) = Tcb(t) + NREGS_CONTEXT - k
    BY Layout, SliceAssumption DEF Saved
  <2> QED BY <2>1, <2>2
<1> QED BY <1>1 DEF InTcb, Tcb

\* A step that leaves the current task, both control blocks and, while they
\* count, the registers alone is a stutter.
LEMMA Stutter ==
  ASSUME CurrentTask' = CurrentTask,
         \A t \in {0, 1} : (InTcb(t))' = InTcb(t),
         registers' = registers,
         phase \in {"load", "pop"} <=> phase' \in {"load", "pop"}
  PROVE  UNCHANGED Tasks!taskVars
<1>1. InRegisters' = InRegisters
  BY DEF InRegisters
<1> QED BY <1>1, Zenon DEF Tasks!taskVars

LEMMA RunImplements == Inv /\ RunTask => Tasks!Run
<1> SUFFICES ASSUME Inv, RunTask PROVE Tasks!Run
  OBVIOUS
<1>1. PICK w \in Word :
        systemState' = [systemState EXCEPT ![StackBase + NREGS_CONTEXT] = w]
  BY DEF RunTask
<1>2. /\ phase = "run" /\ phase' = "run" /\ registers' \in [Regs -> Word]
      /\ systemState \in [Address -> Word] /\ systemState[PID] \in {0, 1}
  BY DEF RunTask, Inv, TypeOK
<1>3. systemState'[PID] = systemState[PID]
  BY <1>1, <1>2, Layout
<1>4. \A t \in {0, 1} : (InTcb(t))' = InTcb(t)
  <2> SUFFICES ASSUME NEW t \in {0, 1}, NEW k \in Regs
               PROVE  systemState'[Tcb(t) + k] = systemState[Tcb(t) + k]
    BY TcbUntouched
  <2> QED BY <1>1, <1>2, Layout
<1>5. InRegisters' \in [Saved -> Word]
  BY <1>2, Layout DEF InRegisters, Saved, Regs
<1>6. CurrentTask' = CurrentTask /\ CurrentTask \in {0, 1}
  BY <1>2, <1>3 DEF CurrentTask
<1> QED
  BY <1>2, <1>4, <1>5, <1>6 DEF Tasks!Run

LEMMA SaveImplements == Inv /\ SaveToTcb => [Tasks!Switch]_(Tasks!taskVars)
<1> SUFFICES ASSUME Inv, SaveToTcb PROVE [Tasks!Switch]_(Tasks!taskVars)
  OBVIOUS
<1> DEFINE pid == systemState[PID]
<1>1. /\ phase = "save" /\ pid \in {0, 1} /\ 1 - pid \in {0, 1} /\ 1 - pid # pid
      /\ registers' = registers /\ r \in Regs /\ r \in Nat /\ systemState'[PID] = pid
  BY Pointer, SaveStores DEF Inv, TypeOK, SaveToTcb
<1>2. \/ r + 1 < NREGS_CONTEXT /\ r' = r + 1 /\ phase' = "save"
      \/ r + 1 = NREGS_CONTEXT /\ r' = 0 /\ phase' = "load"
  BY <1>1, Rounds DEF SaveToTcb
<1>3. (InTcb(pid))' = InTcb(pid)
  <2>1. \A t \in {0, 1} : t = pid => (InTcb(t))' = InTcb(t)
    BY TcbUntouched, SaveStores, <1>1
  <2>2. \A t \in {0, 1} : t = pid => (InTcb(t))' = InTcb(pid)'
    BY <1>1 DEF InTcb, Tcb
  <2> QED BY <1>1, <2>1, <2>2
<1>4. InRegisters' = InRegisters
  BY <1>1 DEF InRegisters
<1>5. CASE phase' = "save"
  BY <1>1, <1>3, <1>4, <1>5 DEF CurrentTask, Tasks!taskVars
<1>6. CASE phase' = "load"
  <2>1. \A k \in Saved :
          systemState'[Tcb(1 - pid) + NREGS_CONTEXT - k] = registers[k]
    <3> SUFFICES ASSUME NEW k \in Saved
                 PROVE  systemState'[Tcb(1 - pid) + NREGS_CONTEXT - k] = registers[k]
      OBVIOUS
    <3>1. NREGS_CONTEXT - k \in 1 .. r /\ NREGS_CONTEXT - (NREGS_CONTEXT - k) = k
      BY <1>1, <1>2, <1>6, Layout DEF Saved
    <3>2. Tcb(1 - pid) + (NREGS_CONTEXT - k) = Tcb(1 - pid) + NREGS_CONTEXT - k
      BY <1>1, Layout, SliceAssumption DEF Saved
    <3> QED BY SaveStores, <3>1, <3>2
  <2>2. (InTcb(1 - pid))' = InRegisters
    BY <1>1, <2>1 DEF InTcb, InRegisters, Tcb
  <2> QED BY <1>1, <1>3, <1>6, <2>2 DEF CurrentTask, Tasks!Switch
<1> QED BY <1>2, <1>5, <1>6

LEMMA PopImplements == Inv /\ PopRegister => UNCHANGED Tasks!taskVars
<1> SUFFICES ASSUME Inv, PopRegister PROVE UNCHANGED Tasks!taskVars
  OBVIOUS
<1> DEFINE pid == systemState[PID]
<1>1. /\ phase = "pop" /\ pid \in {0, 1} /\ r \in Regs /\ r \in Nat
      /\ systemState' = systemState
  BY Pointer, PopFills DEF Inv, TypeOK, PopRegister
<1>2. \/ r + 1 < NREGS_CONTEXT /\ r' = r + 1 /\ phase' = "pop"
      \/ r + 1 = NREGS_CONTEXT /\ r' = 0 /\ phase' = "run"
  BY <1>1, Rounds DEF PopRegister
<1>3. \A t \in {0, 1} : (InTcb(t))' = InTcb(t)
  BY <1>1 DEF InTcb, Tcb
<1>4. CASE phase' = "pop"
  BY <1>1, <1>3, <1>4 DEF CurrentTask, Tasks!taskVars
<1>5. CASE phase' = "run"
  <2>1. \A k \in Saved : registers'[k] = InTcb(pid)[k]
    <3>1. \A k \in Saved : k \in 1 .. r
      BY <1>1, <1>2, <1>5, Layout DEF Saved
    <3> QED BY <3>1, PopFills
  <2>2. InRegisters' = InTcb(pid)
    BY <2>1 DEF InRegisters, InTcb
  <2> QED BY <1>1, <1>3, <1>5, <2>2 DEF CurrentTask, Tasks!taskVars
<1> QED BY <1>2, <1>4, <1>5

LEMMA StackStepsImplement ==
  Inv /\ (PushRegister \/ LoadFromTcb \/ GetNextTask) => UNCHANGED Tasks!taskVars
<1> SUFFICES ASSUME Inv, PushRegister \/ LoadFromTcb \/ GetNextTask
             PROVE  UNCHANGED Tasks!taskVars
  OBVIOUS
<1>1. /\ systemState \in [Address -> Word] /\ systemState[PID] \in {0, 1}
      /\ r \in Regs /\ registers' = registers /\ msp \in Stack /\ msp \in Address /\ msp # PID
  BY Pointer DEF Inv, TypeOK, PushRegister, LoadFromTcb, GetNextTask
<1>2. CASE PushRegister \/ LoadFromTcb
  <2>1. systemState'[PID] = systemState[PID]
    BY <1>1, <1>2, Layout DEF PushRegister, LoadFromTcb
  <2>2. \A t \in {0, 1}, k \in Regs : systemState'[Tcb(t) + k] = systemState[Tcb(t) + k]
    BY <1>1, <1>2, Layout DEF PushRegister, LoadFromTcb
  <2>3. /\ phase \in {"load", "pop"} <=> phase' \in {"load", "pop"}
        /\ phase # "save" /\ phase' # "save"
    BY <1>1, <1>2, Rounds DEF PushRegister, LoadFromTcb
  <2>4. \A t \in {0, 1} : (InTcb(t))' = InTcb(t)
    BY <2>2, TcbUntouched
  <2>5. CurrentTask' = CurrentTask
    BY <2>1, <2>3 DEF CurrentTask
  <2> QED BY <1>1, <2>3, <2>4, <2>5, Stutter
<1>3. CASE GetNextTask
  <2>1. /\ phase = "swap" /\ phase' = "save"
        /\ systemState' = [systemState EXCEPT ![PID] = 1 - @]
    BY <1>3 DEF GetNextTask
  <2>2. \A t \in {0, 1}, k \in Regs : systemState'[Tcb(t) + k] = systemState[Tcb(t) + k]
    BY <1>1, <2>1, Layout
  <2>3. \A t \in {0, 1} : (InTcb(t))' = InTcb(t)
    BY <2>2, TcbUntouched
  <2>4. CurrentTask' = CurrentTask
    BY <1>1, <2>1, Layout DEF CurrentTask
  <2>5. phase \in {"load", "pop"} <=> phase' \in {"load", "pop"}
    BY <2>1
  <2> QED BY <1>1, <2>3, <2>4, <2>5, Stutter
<1> QED BY <1>2, <1>3

LEMMA StepImplements == Inv /\ [Next]_vars => [Tasks!Next]_(Tasks!taskVars)
<1> SUFFICES ASSUME Inv, [Next]_vars PROVE [Tasks!Next]_(Tasks!taskVars)
  OBVIOUS
<1>1. CASE RunTask
  BY <1>1, RunImplements DEF Tasks!Next
<1>2. CASE SaveToTcb
  BY <1>2, SaveImplements DEF Tasks!Next
<1>3. CASE PopRegister
  BY <1>3, PopImplements
<1>4. CASE PushRegister \/ LoadFromTcb \/ GetNextTask
  BY <1>4, StackStepsImplement
<1>5. CASE TimerTick
  <2>1. /\ phase = "run" /\ phase' = "push" /\ systemState' = systemState
        /\ registers' = registers
    BY <1>5 DEF TimerTick
  <2>2. \A t \in {0, 1} : (InTcb(t))' = InTcb(t)
    BY <2>1 DEF InTcb, Tcb
  <2>3. CurrentTask' = CurrentTask
    BY <2>1 DEF CurrentTask
  <2> QED BY <2>1, <2>2, <2>3, Stutter
<1>6. CASE UNCHANGED vars
  BY <1>6 DEF vars, Tasks!taskVars, CurrentTask, InTcb, Tcb, InRegisters
<1> QED BY <1>1, <1>2, <1>3, <1>4, <1>5, <1>6 DEF Next

\* Every task has the registers 1 .. NREGS_CONTEXT - 1 for itself, however often
\* and wherever it is switched (time_slice).
THEOREM Refinement == Spec => KeepsContexts
<1>1. Spec => Tasks!Init /\ [][Tasks!Next]_(Tasks!taskVars)
  BY InitInv, StepInv, InitImplements, StepImplements, PTL DEF Spec
<1> QED BY <1>1 DEF KeepsContexts, Tasks!Spec
=============================================================================
