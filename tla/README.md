# A verification project for the OSH example code

The repository holds the example programs of an operating-systems textbook:
small C, C++, Python and Perl programs, each of which shows one mechanism (a CPU
with interrupts and memory-mapped peripherals, a context switch, acknowledged
datagrams, three ways of serving several TCP clients, a script that cuts tasks into
steps a scheduler can interleave). This directory models them in TLA+, checks the
models with TLC on small instances and proves the central facts with TLAPS. Paths
below are relative to `src/Code/`.

1. [Inventory](#1-inventory)
2. [Modules](#2-modules-and-how-they-follow-the-code)
3. [Runs](#3-runs)
4. [Bounds, deadlock and fairness](#4-bounds-deadlock-and-fairness)
5. [Proofs](#5-proofs)
6. [Where code and text disagree](#6-where-code-and-text-disagree)
7. [What is not modelled](#7-what-is-not-modelled)
8. [Plan](#8-plan)

## 1. Inventory

### Ch10-networking
* **Acknowledged UDP** (`UDPACKclient.c`, `UDPACKserver.c`, `udp_ack.h`). The client
  keeps `seqno`, the selects `remaining` for the line and one socket; the server
  keeps the frame in hand and its sender's address. They interact by data frames and
  ack frames over an unreliable socket. Hard: resends and late acks (the client
  never compares `ack.mseqn`), an absent or failing server, several clients of one
  server. Correct when: acks are paid for by printed lines, no line is copied more
  often than the retries allow, every client ends, nothing is lost silently.
* **Select server** (`TCPserverSelectHi.c`). Keeps `master`, `read_fds` and `fdmax`;
  in one round it accepts from, or reads a line from, answers and closes, every ready
  descriptor. Hard: the descriptor set under accept, close and reuse of numbers; a
  failed accept; a client that stalls inside its line. Correct when: select watches
  exactly the open connections, no bit outlives its connection, every client that
  has sent a line is answered.
* **Fork server** (`TCPserverForkHi.c`) and **thread server**
  (`TCPserverPthreadsHi.c`). One accept loop, one process or thread per client. Hard:
  the hand-over of the descriptor, `SIGCHLD` that does not queue and that is also raised for
  children stopped or continued (no `SA_NOCLDSTOP`), `wait` in a signal handler,
  descriptors the parent never closes. Correct when: no worker looks at
  another's connection, the end of workers never holds the server up, threads
  leave nothing behind.
* **Plain UDP and TCP pairs** (`UDPclient.c`, `UDPserver.c`, `TCPclient.c`,
  `TCPserver.c`). Two programs of one loop each; the server copies to its output what the
  client reads from its input, a datagram per line over UDP, a byte stream whose
  boundaries the receiver does not see over TCP. Hard: `accept` is called once, so a second
  client waits in `send` behind a connection nobody accepts; a `recv` that fills `buf` puts the
  terminator behind it; either side may end while the other is at work. Correct when:
  nothing is printed twice or out of nowhere, one client's stream has no gaps, every
  client ends.

### Ch1-memory-centric-system-model
* **Advanced model** (`advanced-model/*.py`): a machine of one state vector, a CPU
  with fetch, decode and execute, interrupt requests, timer, DMA and four more
  peripherals, all stepped by one loop; an encoder turns instructions into words.
  Hard: what survives a cycle in a vector that is rebuilt each cycle, interrupts
  lost or taken while a service routine runs, the order of peripherals, interrupt
  check, fetch and execute. Correct when: interrupts are invisible to the program,
  requests are not lost, devices do what their registers say.
* **C++ port** (`cpp-code/*.cc`), made from the Python by `py2cpp.pl` and by hand. Hard:
  two versions of one machine drift apart; a vector of labels indexed by the label, in
  which 0 is no label; logical instead of bitwise operations. Correct when it executes what
  the Python model executes.
* **Bare-bones model** (`bare-bones-model/*.py`): the machine without interrupts, the first
  version of the advanced model. Hard: its RAM and its map count differently, so that the
  first cycle makes the vector longer; numbers are not cut to a word; executor and
  decoder number operands differently. Correct when programs do what they do on the
  advanced model.
* **Time slice** (`basic-OS-concepts/time_slice.py`): the context switch of a preemptive
  scheduler: registers to the stack, to the task's control block, and back. Hard: four
  loops that must agree on the stack pointer. Correct when each task finds its
  registers as it left them.
* **Cache model** (`cache-model/cache_model.py`, `cpp-code/cache_model.cc`): a sketch of
  a direct-mapped cache that uses names it never defines and does not run.

### Ch3-Hardware-Architecture
* **Line transformer** (`transform_to_one_sub_per_line.pl`): turns each statement of a
  task into a subroutine that sets a program counter, and the task into a loop that
  calls them. Hard: three text rewrites in a row for labels, gotos and both; patterns
  without anchors that decide what a line is and which variable it declares. Correct
  when the written program executes the source.

### Coursework-code-skeleton
* **Driver and test bench** (`driver.c`, `testbench.c`, `firmware.cl`). `main` acquires OpenCL
  objects in nine calls, starts `NTH` threads that share them, joins them and releases
  them. Hard: a thread number that goes through a shared object, `exit` in any thread,
  release while threads run, memory that one function allocates and another is to free.
  Correct when nothing is released under a thread, every thread has reported at a normal
  end, and nothing is left behind then but the list of platforms, which nobody frees.
  The middle of `run_driver` is a placeholder a student is to fill in.

The components, with status and note, and the hazards of each, with the source line
and the properties that cover it, are listed in `PROJECT.json`.

## 2. Modules and how they follow the code

| component | specification | abstract specification | for TLC | proofs |
|---|---|---|---|---|
| acknowledged UDP | `UdpAck` | `UdpDelivery` | `MCUdpAck` | `UdpAck_proofs` |
| select server | `SelectServer` | | | `SelectServer_proofs` |
| fork and thread server | `WorkerServer` | `LineService` | | `WorkerServer_proofs` |
| plain UDP and TCP pairs | `CopyPair` | `CopyService` | `MCCopyPair` | `CopyPair_proofs` |
| advanced model | `AbstractSystem`, `InstructionSet`, `MemoryMap`, `Assembler`, `MainAndRoutine`, `ExamplePrograms` | `MainProgram` | `MCAbstractSystem` | `AbstractSystem_proofs` |
| C++ port, bare-bones model | `CppSystem`, `BareBones`, composed by `OtherVersions` | `MainProgram` | `MCOtherVersions` | `AbstractSystem_proofs` (the port) |
| time slice | `TimeSlice` | `TaskContexts` | | `TimeSlice_proofs` |
| line transformer | `LineTransform` | `SourceTasks` | `MCLineTransform` | `LineTransform_proofs` |
| driver and test bench | `Testbench` | | | `Testbench_proofs` |

Operators whose comment begins with "Mutant" are variants of the definition after them
with a plausible bug. Nothing refers to them; substituting one for its definition is how
a property was seen to be able to fail.

**`UdpAck`**. A frame is its `mseqn`. `cpc[c]` is the place in the client's `main`:
`OpenSocket` (socket, bind), `SendLine` (fgets, seqno++, first sendto), `Resend` (select
returns 0; after the last resend `remaining` is 0 and main returns -1), `ReceiveAck`
(recv), `EndOfInput` (close). The server: `BindServer`, `Receive`, `ReceiveFails`,
`PrintLine`, `Acknowledge`. `dataNet` and `ackNet` are the sockets' queues with what is on
its way; `LoseData`/`LoseAck` and the choice in `Deliverable` are the network. A
behaviour picks one of the constant's `Scenarios`: which faults may happen and which
clients are started. `copies` is a history variable. `UdpDelivery` promises credit: a
client takes its next line, or closes, only when as many copies were printed as it has
lines; which ones is left open, because the code leaves it open.

**`SelectServer`**. One action per step of the loop: `Select`, the visits of the `for` loop
(`Accept`, `AcceptFails`, `StartReading` then `FinishLine` or `ReadNothing`), `EndRound`. A visit
of a descriptor whose bit is clear changes nothing and is not a step: `IsNext` picks the
next one that is set. `CloseClient` contains close, FD_CLR and the loop that lowers `fdmax`.
The text of a line is abstracted to what the read loop can tell apart (nothing, a piece,
a line, end of file after a piece, end of file before anything). `FD_SET(-1)` sets `BadFd`,
the bit that -1 modulo the word size selects in this build.

**`WorkerServer`**. One module for both servers, because they share accept loop and read
loop; `worker` says which runs, and `Peer` what a worker's descriptor refers to (a child
looks into the copy of the table it was forked with, a thread into the common one).
`Spawn`/`SpawnFails` are fork and pthread_create; `Shutdown` and `ExitProcess` the child's end,
`CloseFd` and `ExitThread` the thread's; `HandleSignal` and `Reap` are `sigchld_handler`, which
runs in place of `main` (`MainRuns`). A pending `SIGCHLD` is a Boolean: signals do not queue. `StopOrContinue` is job control: it halts a child
or lets it go on, and raises `SIGCHLD` as its end does. A handler in `"wait"` goes on only when
some child has ended or none is left, so a stop can hold main up.
`printed` records the calls of printf; buffering of stdout is left out. `LineService` says
that each client's line is printed once and before it is disconnected.

**`AbstractSystem`** extends `MemoryMap` (the address map) and `InstructionSet` (decode, ALU,
registers and memory after an instruction). A cycle of the Python loop is three steps:
`RunDevices` (timer, DMA, then the vector is rebuilt by `Concatenate`, the requests are
collected), `Fetch` (checkIrqs, then fetch), `Execute`. An uncaught exception is `Stop`. Words
are numbers modulo `W`. A quotient is a float64 on its way to a word: below `FloatExact` (2^53)
it is the integer quotient, above it `Rounded`, some word of which nothing is known; what a
quotient by zero does depends on the version of NumPy (`DivisionRaises`). `timerLen` models the end index that is decremented twice, which
makes the vector one word short from the first cycle with peripherals on.
`Assembler` is `encodeProgram` with its one pass over the labels. `MainProgram` is a
machine without interrupts that executes the same code over the part of the registers
and RAM that a service routine leaves alone; the advanced model implements it under a
timer, and the C++ port implements it over its registers and RAM. There is no
separate action for the four peripherals that do nothing.

**`MainAndRoutine`** reads a state of `AbstractSystem` as one of `MainProgram`. The code in front
of the routine is the main program; `Own` and `Ram` are the registers and words it uses. Its
next instruction is at `PC`, at `PC - 1` once it is fetched, and at `LR` while the routine runs
(`MainPC`). `RegistersRead` and `WordsRead` say what `executeInstruction` reads. `Cooperate` is
what the instructions of both owe each other: one of the main program reads only its own and
neither jumps into the routine nor changes its vector; one of the routine leaves those
registers and words, and the timer, alone, and goes forward within the routine or returns
through `LR`; no period is shorter than the routine (`RoutineLen` instructions); the DMA is
left alone, and the processor does not wait.

**`ExamplePrograms`** has two programs as lines for the encoder. `Fibonacci` is the example of
`load_code`. `Interrupted` is not in the repository: a loop of the same kind that fills
`TableSz` words of the heap, and a service routine that returns, which the example's does
not. `ExampleSetting` says which of them are loaded, with what first delays and periods, and
which registers and words the main program owns. The run and the proofs share it: TLC
evaluates that the run is an instance.

**`CppSystem`**. A cycle is two steps, peripherals and processor, as in `cpp-code`. It has
its own encoder, decoder, ALU and memory map (the vector table on top of the heap). What
is undefined in C++ (an index out of range, a division by zero, a function the ALU table
lacks) ends the run as `"wild"`; so does, from the start, a label that the vector of labels
has no place for (`LabelsOutside`). Label 0 is dropped, and a word is the sum of its `Parts`
modulo `W`.

**`BareBones`**. A cycle is one step, because nothing comes between fetch and execute.
Words are integers without a bound, as in Python; an exception ends the run as `"raised"`,
a quotient of a division, a floating-point number there, as `"float"`. `Concatenate` is the
rebuild that finds more words below `MEMTOP` than `allocate_ram_state` has made.

**`OtherVersions`** extends `CppSystem` and instantiates `BareBones` over the same variables;
`version` says which of them runs. What they are compared with is `MainProgram` started on
the words that the Python encoder makes of the same source (`PythonStarts`). `AsInPython`, in
`CppSystem`, says what the port's next instruction must avoid to mean the same as in Python:
`BL`, words behind RAM, and operands for which the two ALUs differ (the logical operations,
shifts beyond the width, inexact quotients).

**`TimeSlice`**. Each round of a loop of `time_slice` is a step: `PushRegister`, `SaveToTcb`,
`LoadFromTcb`, `PopRegister`, with `GetNextTask` between; `RunTask` is what a task may do
between two calls, `TimerTick` the call. `PID`, `TCB_OFFSET` and `TCB_SZ`, which no file defines,
are constants. `TaskContexts` gives each of two tasks its registers. The refinement mapping
`InTcb` is where the code's convention shows: a control block holds the registers in the
opposite order, one place further, and register 0 is not among them.

**`CopyPair`**. One module for both pairs, because both are the same program over another
transport; `transport` says which. A unit is a numbered piece of a line over TCP and a
datagram over UDP, so `buf`, `net` and `printed` are sets of numbers. Client: `OpenSocket`,
`Connect`/`ConnectFails`, `ReadLine`, `Send` (any number of units the window takes; it returns when the
whole line is in), `SendToClosed` and `SendFails` (the server is gone), `SendTo`, `EndOfInput`. Server:
`Setup`, `Accept` (once), `Recv`, `RecvEof`, `RecvFrom`, `Fputs`, and their failures. `CloseAll` is what a
process leaves behind when it ends. `"wild"` is the server whose terminator went behind
`buf`. `CopyService` has units due and printed: what is printed is due no longer, and over TCP
one client's units only are printed, without gaps.

**`LineTransform`**. A line is a record of two halves. What it is in C: its kind, the
variables it `declares`, its label and target. What the script makes of it: whether the type
pattern matches anywhere in it (`typed`) and which name is `captured`. The two need not agree:
`int i;` declares and captures `i`, `int m[64];` captures `m[64]`, `int i = 0;` captures `0`,
`int i=0;` captures nothing, `int i, j;` captures only `j`, `unsigned v;` is not matched, and
`point = 3;` is matched though it declares nothing. First the script: one action per branch of
its loop (`StartOfSub`, `EndOfSub`, `Declaration` for a matched line of a task, `OtherLine`),
then `Generate`; then a run of the program it wrote: `CallLine`, `CallBeyond` (the array is
indexed beyond its end), `EndOfTask`. `PcAfter` is what the three rewrites of a line leave of
`pc++`, gotos and labels. Conditions are nondeterministic, a statement's effect is that it
ran. `SourceTasks` is the meaning of the input file. Properties that need the two halves to
agree say so in their premise: `Recognised` (the matched lines of a task are its declarations)
and `PlainDeclarations` (and each captures the one name it declares).

**`Testbench`**. `main`: `InitCall` (the nine steps of `init_driver`), `ReadSourceCrashes` (`fopen`'s
result is not checked), `Calloc`, `CreateThread`, `JoinThread`, `FreeInfo`, `ReleaseObject`
(`shutdown_driver`), `Exit`. A thread: `StartThread`, `RunDriver`, `GetWorkGroupInfo`, then
`Section`, the part that is left to the student, then `CheckResult`. There is no code for the
section; it is one step that returns or ends the process (`SectionFails`), and the report
after it is open. `MainFails` and `GetWorkGroupInfoFails` are the early returns and exits that
are in the code. `live` has the blocks of memory: the shared object, the list of the
platforms and `tinfo`.

## 3. Runs

Distinct states are those of the whole graph for passing runs.

| run | states | what it shows |
|---|---|---|
| `udp_delivery` | 94 523 | one client, three lines, under loss, reordering, late or failing server and failing sockets; one client under loss alone; two clients and one server without faults. Acks never outnumber printed copies (`CreditCovered`), name printed lines (`AcksArePrinted`), copies are bounded by sends and retries (`BoundedCopies`), delivery is exact until the first resend (`ExactWithoutResends`), lines passed over cost a resend each (`SkippedBounded`), and without reordering copies are printed in order and an ack is stale by no more than the resends (`PrintedInOrder`, `AckLagBounded`). The pair implements `UdpDelivery` (`ImplementsDelivery`); clients end (`ClientsTerminate`); without faults every line sent is printed (`EveryLinePrinted`). |
| `udp_lost_line` | violation | `ClosedIsDelivered` fails: a client closes normally although a line was lost (section 6) |
| `select_accepts` | 76 339 | three clients for two descriptors, stalling or hanging up, accept failing: select always watches the open clients (`MasterCovers`); until an accept fails the set is exact (`MasterExact`), reads never block on a silent client (`ReadsReady`), no connection inherits a ready bit (`NoInheritedReadiness`), and a client that has sent its line is served unless the server is stuck on another (`LineServed`) |
| `workers_serve` | 413 322 | both servers, three clients for two descriptors, stalls, early ends, failing spawns, two stops or continuations of children: no worker looks at another's connection (`DescriptorOwned`); of the deliveries of `SIGCHLD` at most one for each stop or continuation finds no child that has ended, so `wait` never blocks because of the end of children (`WaitBlocksPerStop`); threads give their descriptors back (`DescriptorsReturned`); both implement `LineService` (`ImplementsService`); a client that has sent its line is served unless its child is stopped, the table is full, no worker was started for it or the handler holds the server up (`LineServed`) |
| `copy_pair` | 35 989 | both pairs with two clients, under every failure and without any: lines are copied once, over TCP one client's without gaps (`ImplementsCopy`); every client ends, also the one never accepted (`ClientsEnd`); what is on its way to a server that serves its sender is printed (`SentIsPrinted`) |
| `system_transfer` | violation | `TransferDone` fails: a program stores source, destination, counter and control register of the DMA, and nothing is copied (section 6) |
| `system_programs` | 36 183 | a program with a service routine of six instructions under first delays 0 to 10 and periods 6 to 8 executes as if uninterrupted (`ImplementsMain`); `Cooperate`, from which that follows (section 5), holds of every instruction; it ends if the period is longer than the routine (`MainFinishes`); the example program of `load_code` fills its table, each word the sum of the two behind it modulo `W` (`FibTable`, sizes 6 to 20, peripherals off); registers and vector stay words, and the vector loses one word and no second (`TypeOK`) |
| `other_versions` | 72 617 | the port's example program for six table sizes and every pair of instructions both versions have, with and without PERIPHERALS; every pair of ALU instructions for the bare-bones model: same words, same registers, same RAM as the Python model, and the port's programs are `AsInPython` (`ImplementsPython`) |
| `time_slice` | 207 872 | two tasks, three registers, any contents, any number of switches: the stack is what each loop expects (`StackDiscipline`), tasks keep their registers but for register 0 (`KeepsContexts`) |
| `transform_small` | 333 350 | every body of up to four lines with at most two labels, and of up to three with lines the patterns misjudge, before or behind a second task: in the program written each task has exactly the lines of its body that the type pattern does not match (`TasksExact`); if all declarations are of the form `int i;` they have different names and are the globals (`VariablesUnique`); for regular input (no empty task, labels only on lines with a goto, every goto to a label of its task, types in declarations only: `Regular`) `main` stays within the arrays (`RegularCallsWithinTask`) and the program executes the source (`FollowsSource`) |
| `transform_example` | violation | `CallsWithinTask` fails: the script's own `example_tasks.c` makes `main` call beyond the end of an array |
| `test_bench` | 15 864 | three threads, every checked call failing, `firmware.cl` missing: nothing is released under a thread (`ObjectsAlive`); after a normal end all threads have reported, every OpenCL object is released and all memory freed but the list of the platforms (`ReleasedInFull`); `run_driver` may read another's number but never an unset one (`TidNamesCaller`); the process ends (`TestbenchEnds`) |

Every property of a passing run has a mutant in `PROJECT.json`: a plausible bug in a
mapped definition under which TLC finds the property violated.

## 4. Bounds, deadlock and fairness

**Bounds.** Every bound is a constant of a configuration.
* `UdpAck`: `MaxLines = 3`: a stale ack of line 1 can be taken for line 2 and that of 2
  for 3. `NRETRIES = 2` for 10: a first and a last resend differ, more repeat the first.
  Two clients are enough to mix up addresses. Two clients under all faults are not run
  (the clients share only the server's one frame in hand); the invariants that have
  theorems hold for any number.
* `SelectServer`, `WorkerServer`: three clients for two descriptors and a backlog of two, so
  that numbers are reused and the table fills up. `MaxStops = 2`: a child is stopped and
  continued, or two are stopped while one signal is pending.
* `AbstractSystem`, `CppSystem`: `W = 2^30` for words of 64 bits; the arithmetic is modulo `W`,
  the fields of an instruction (three bytes above the opcode) fit. Regions of a few
  words; programs of at most 26. `MAX_NCYCLES` is 20, 320 or 40, as long as the longest
  program of the run needs. `FloatExact = W` and `DivisionRaises = TRUE`: in the runs every
  quotient is exact and a division by zero an exception, as in the NumPy the code was
  written for; inexact quotients and the newer NumPy, which warns, are covered by the
  proofs only, which assume neither. Periods 6, 7 and 8 are just at and above the routine's
  length 6. Below 6 the return address is overwritten by a request inside the routine;
  what is claimed starts at 6. `TableSz = 3`: the loop of the interrupted program has a first,
  a middle and a last round.
* `BareBones`: pairs of instructions, as each leaves registers only; `MUL` comes first,
  because the product of two negative numbers as words exceeds TLC's integers.
* `TimeSlice`: three registers, so that a first, a middle and a last round differ; two
  values of a word tell any two registers apart in some state.
* `CopyPair`: lines of two units, a buffer of two and a window of three: `recv` can return less
  than a line, parts of two lines, or as much as `buf` holds, and `send` can block in the
  middle of a line. A backlog of one, so that `connect` can fail as well.
* `Testbench`: three threads, so that a first, a middle and a last one are joined, and
  a number can be overwritten by that of a thread started before or after.
* `LineTransform`: four lines suffice for a label before or behind its goto with a
  statement between; three lines put every misjudged line beside any other, and into a
  task with a second declaration of its name.

**Deadlock** is checked in `time_slice`, which never stops. `CHECK_DEADLOCK FALSE` in the other
runs, because the programs stop: clients end while the server waits in recvfrom, select
or accept; the machines stop after `MAX_NCYCLES` or at an exception; the script, the
program it writes and the test bench end. That nobody waits for ever where somebody
should go on is the matter of the liveness properties.

**Fairness.** `UdpAck!FairSpec`: weak fairness of each client (select has a timeout, stdin
is a file or a user who types) and of the server's loop, which blocks only in recvfrom;
no fault is ever forced and none is excluded. `SelectServer`: weak fairness of the one
server loop; clients may stall for ever, and `LineServed` says so in its premise.
`WorkerServer`: the scheduler runs main, each worker and the handler; clients need not
finish, and who has stopped a child need not continue it. `CopyPair`: weak fairness of the server and of each client, whose input is a file;
the failures a scenario allows need not happen. `Testbench`: the scheduler runs main and
each thread, the student's section returns or ends the process; no call has to fail. `AbstractSystem`: the
loop runs. `ClientsTerminate`, `EveryLinePrinted`, both `LineServed`, `ClientsEnd`,
`SentIsPrinted`, `TestbenchEnds` and `MainFinishes` rest on these, the safety properties on
none.

## 5. Proofs

Assumptions are the named ASSUMEs of the modules: sizes are numbers, the null value is
not a client, the tables fit into a word. TLC evaluates them in the runs. Everything
proved holds for every value of the constants.

* **`UdpAck_proofs`.** `InductiveInv` adds to types, credit and acks what credit needs: a frame
  in flight or in hand names a line already taken, the frame in the `"ack"` state was
  printed, a waiting client has a select left. `CreditCovered` alone is not inductive
  (an ack could be sent for a frame never printed). From it: `TypeCorrect`, `CreditSafe`,
  `AcksSafe`, and `Refinement`: the pair implements `UdpDelivery` for any clients, lines,
  retries and faults.

  A second invariant, `DeliveryInv`, has for each client what the five properties of delivery
  need. `CopiesInv`: a copy is in the queue, in the server's hand or printed, and the selects
  left pay for the copies still to be made; hence `CopiesSafe`. `CreditInv`: lines a client is
  done with are paid for by prints of such lines; counted against the resends this gives
  `SkippedSafe`. `ExactInv`: before the first resend what is on its way is at most one copy of
  the last line; hence `ExactSafe`. `OrderInv` and `LagInv`, claimed without reordering: prints,
  hand and queue are one sequence in order, and the frame that will produce the n-th ack names
  line n or an earlier one for every resend; hence `OrderSafe` and `LagSafe`. None of these
  properties is inductive by itself, since what is printed or acknowledged next is already in
  a queue. `Resends` is the cardinality of the set of copies after the first, so that a send
  adds one element or none. Lemmas on queues (`RemoveAt`, `Append`, counting the copies of a
  line) come first; a step touches one client, and leaves the invariant of every other alone.
* **`SelectServer_proofs`.** `TypeCorrect`; `MasterCoversAlways` whatever fails; and
  `ServingInvariant`, in which exact sets need that a connection is under one descriptor
  or once in the backlog, and that what `read_fds` still holds is open and ready.
  `MasterExactAlways`, `ReadsReadyAlways` and `NoInheritance` follow.
* **`WorkerServer_proofs`.** `WorkerInv`: a connection is in the backlog, in main's hands, or
  under one descriptor until its worker ends it; a worker is past its printf exactly if
  its client's line was printed. `DescriptorOwned` alone is not inductive: accept could
  hand out a connection a second time. Types depend on it as well (a thread looks its
  client up in the table). From it: `TypeCorrect`, `DescriptorOwnedAlways`,
  `WaitBlocksPerStopAlways` (pending and running deliveries never outnumber zombies and stops
  together), `DescriptorsReturnedAlways` (a worker past its `close` has no open descriptor), and
  `Refinement`: both servers implement `LineService`.
* **`AbstractSystem_proofs`.** `TypeCorrect` for every word size, map and program;
  `DevicesForget`: with peripherals on, at most one word behind the timer is set when the
  devices take their turn; hence `DmaNeverCopies` (control and counter are never both
  set: the defect that `system_transfer` shows for one program is there for all); `TimerServed`: the check for interrupts never leaves the timer's request behind.
  `InterruptsInvisible`: if main program and routine cooperate, the system implements the
  uninterrupted `MainProgram`, whatever programs, memory map, word size and timer. Two
  arguments meet there. One is about time: there is only one `LR`, so no request may come
  before the routine has returned. `Paced` says that while the routine runs the timer's count
  covers what is left of it, and that a request finds a whole period ahead (`NoRequestInRoutine`).
  The other is `Footprint`, one case per instruction: if an instruction raises no exception in
  one machine and reads only what the main program owns, it raises none in any machine that
  agrees on that, and both agree on it afterwards. So a step of the devices, of the routine, or
  the fetch that takes an interrupt is a stutter of the main program (`DevicesHidden`,
  `RoutineHidden`, `FetchHidden`), and any other instruction is its next one (`MainExecutes`). The
  premise `Cooperate` is about single instructions of the programs loaded. It is a premise and not
  a consequence because the code does not enforce it: a shorter period or a routine that uses
  the program's registers breaks it.

  The last part proves that the two programs of `ExamplePrograms` meet it. First
  `DecoderInvertsEncoder`: what the encoder packs into a word is what `decodeInstruction` takes out
  of it, and a branch gets the address of a line with its label (`LabelLine` is the largest
  line number so far that has it, which exists because `<` on Nat is well founded). So the effect of every line of the two
  programs is known (`FibonacciEffects`, `InterruptedEffects`). `ExampleInv` says what holds in front
  of each line: that the code in memory is still the encoded program, what the registers hold
  (`FibKnown`, `MainKnown`), how far the table is, and that the routine returns into the main
  program. It is inductive together with `Paced`: that the code is not overwritten needs the
  loop's bounds, and these need that the routine has not touched the loop's registers. Hence
  `ExamplesCooperate`, `ExamplesUninterrupted` (the refinement, for these programs without any
  premise about instructions) and `FibonacciTable`: the loop leaves the table that `fib_hl` would
  compute. All hold for every table that fits, first delay, period no shorter than the routine,
  memory map and word size, where the run has tables of 6 to 20 words and three periods.

  The C++ port has its proofs here too, since it is compared with the same `MainProgram` over
  the same opcodes and constants. Every line that the Python encoder accepts, but for
  high-level code, becomes the same word (`EncodersAgree`), its labels and omitted operands
  included, under `PortSources`: the word fits into its width, no branch goes to label 0, and
  the program has no label beyond the port's vector. The ALUs agree on sums, differences
  and products, on quotients of dividends that a float64 holds exactly (2^53), and on shifts
  below the width of a word (`PortAluAgrees`). `PortInv` has the reason why no interrupt ever comes: the timer and the
  cycles that have passed never add up to less than `MAX_NCYCLES`, because the timer is not
  read back from what a program stores in it (`PortNeverInterrupted`). `PortInstruction`, one case
  per instruction, says that one which the port defines and which is `AsInPython` raises nothing
  in Python and leaves the same registers and words. Hence `PortImplementsPython`, with and
  without PERIPHERALS, for every program of `PortSources`, word size and memory map, up to the
  first instruction that the port does not define. `AsInPython` is a premise because neither language
  rules out the instructions it excludes; that the programs of `other_versions` meet it is
  part of what the run checks.

* **`CopyPair_proofs`.** `PairInv` adds to the types where each unit is: what is in `net`, `buf` and
  `printed` was sent and is in one of them only (`UnitsInv`, `BufInv`), over TCP what is
  printed, in hand and on its way are consecutive stretches of one stream (`StreamInv`), and only
  the accepted client has anything printed (`ConnInv`). From it `TypeCorrect`, and `Refinement`:
  both pairs implement `CopyService` for any number of clients, lines, and sizes of buffer,
  window and backlog, under all failures. `QuietStep` is the case of the many actions
  that leave units alone.
* **`TimeSlice_proofs`.** The types need `StackDiscipline` (the pointer stays on the stack) and
  the other way round; together they are inductive. From them `TypeCorrect`, `StackKept`, and
  `Refinement`: any number of registers, any words, any place of stack and control blocks
  that are apart (`SliceAssumption`) implements `TaskContexts`.
* **`Testbench_proofs`.** The invariant has a part for each actor: what `main` has acquired and
  whom it has joined at each place, and that the shared number is that of a thread that has
  started. From it types, `ObjectsAliveAlways`, `ReleasedInFullAlways` and
  `TidNamesCallerAlways` for any number of threads.
* **`LineTransform_proofs`.** The invariant has three parts. `ParseInv` relates the tables to the
  part of the file that has been read: `VariablesUniqueAlways`, for every input whose subroutines
  are closed and named apart (`FileAssumption`) and whose declarations are plain
  (`PlainDeclarations`, the premise in the property). `TasksInv`: the table of a task holds the
  lines of its body read so far that the type pattern does not match, in their order:
  `TasksExactAlways`, for every input of `FileAssumption`, whatever the pattern matches in it.
  A body is a set of line numbers put into order (`InOrder`), and a line read is larger than
  those before it, so no induction over the file is needed. `RunInv`: the program counter is one
  of the task that is called. For every regular input the steps of `main` stay within the arrays
  (`RegularCallsSafe`) and the program that is written runs the statements of the source one
  by one in its order (`ProgramFollowsSource`).

**Only model-checked**: the part of `ImplementsPython` about the predecessor, that the programs
of its run are `AsInPython`, and all liveness (`ClientsTerminate`, `EveryLinePrinted`, both `LineServed`, `ClientsEnd`,
`SentIsPrinted`, `TestbenchEnds`, `MainFinishes`). Liveness under fairness and ENABLED are out of
the prover's reach; so is induction over data. The encoder's words are defined line by line, so
that none is needed for what is proved of them. `BareBones` has no proofs. No module
uses a RECURSIVE operator. The strengthened invariants (`InductiveInv`, `DeliveryInv`,
`ServingInv`, `WorkerInv`, `PairInv`, `BenchInv`, `LineInv`), the types where they are proved and
what only the proofs state (`AtMostOneDeviceWord`, `TimerNeverLost`, `Fetched`, `Paced`, `ExampleInv`, `PortInv`) are not repeated
in a run.

## 6. Where code and text disagree

Three of these are runs that TLC must find violated.
* **A line lost silently** (`UDPACKclient.c:71`, run `udp_lost_line`). The ack of a resent
  earlier line is taken for the ack of the current one; that line may be lost and the
  client exits normally.
* **A labelled line without a goto** (`transform_to_one_sub_per_line.pl:222` and `:234`, run
  `transform_example`) gets `pc++` twice; the last line of the first task of
  `example_tasks.c` is one.
* **The DMA never transfers** (`abstract_system_model.py:108`, run `system_transfer`). The vector
  is rebuilt each cycle from device states that nothing ever writes, so what a program
  stored in an earlier cycle is gone when it starts the transfer, though
  `abstract_system_peripherals.py:35` says "DCR values: 1 = do transfer".

The models follow the code in the others too; they have no run of their own:
* **What the line patterns miss** (`transform_to_one_sub_per_line.pl:119` and `:121`). The
  patterns have no anchor. A statement with a type name before a blank in its text
  (`point = 3;`, a `printf` of `"int "`) is taken for a declaration: it is dropped or becomes a
  global line, and the task lacks it, though `:7` says that "every line becomes a separate
  subroutine". `int i=0;` and `int *p;` match no name and are dropped without a word, so that
  the program lacks the variable. `int m[64];` is entered with its size, so that `int m[32];`
  in a second task passes the check of `:124` and both are written. `TasksExact` says exactly
  which lines a task keeps; `VariablesUnique` is claimed for declarations like `int i;`.
* **A failed accept** (`TCPserverSelectHi.c:86`) is reported and then entered into the
  descriptor set all the same (`FD_SET(-1)`); select fails while that bit names no open descriptor,
  its result is unchecked, and the server reads where nobody has sent anything. `MasterExact`
  and `ReadsReady` are therefore claimed until an accept fails, `MasterCovers` in any case.
* **Zombies** (`TCPserverForkHi.c:114`). `sigchld_handler`, the "Function to clean up zombie child
  processes", calls `wait` once per delivered `SIGCHLD`, though one delivery may stand for
  several children: the others stay.
* **A stopped child holds the server up** (`TCPserverForkHi.c:40`). Without `SA_NOCLDSTOP` the
  signal also comes for a child that is stopped or continued, and `wait` blocks main until
  some child ends. `WaitBlocksPerStop` counts these deliveries.
* **Descriptors of the fork server** (`TCPserverForkHi.c:107`) are never closed by the parent;
  after as many clients as the table has places every `accept` fails.
* `WFI` executes as `NOP` (the test for `NOP` catches it), `PC` moves on while the processor
  waits, `B` and `BL` raise an exception when executed, `PUSH` and `POP` are not inverse of each
  other, the vector loses a word to an index decremented twice.
* A quotient goes through a float64 in the Python model (`abstract_system_alu.py:7`): above
  2^53 it may be rounded, and by zero it is an exception or a warning and some word,
  depending on NumPy. The port divides integers.
* The port drops label 0 (`abstract_system_encoder.cc:66`) and writes a label as large as the
  number of lines, or larger, behind its vector (`:70`).
* The C++ port's and, or, exclusive or are logical (6 and 3 gives 1, in Python 2); `BL` is decoded into its first argument
  and executed with its second, so it jumps to word 0; `B` indexes beyond the ALU table;
  the timer's words are not part of `systemState`, so a program cannot set it.
* In the bare-bones model `LDR` always fails (its arguments come in another order), `STR`
  stores at the address in the instruction, `CBZ` goes to its target when the register is
  not zero, and `B` sets `PC` to None. The programs of `other_versions` avoid what the versions
  are known to do differently.
* `time_slice.py` reads the stack before moving the pointer back, in both loops that read
  it. The two slips cancel out for registers 1 and up; register 0 comes back as whatever
  was in the word above the stack.
* A TCP client whose connection is never accepted can read its input to the end and exit
  with 0 though nothing of it is ever printed. A `recv` that fills `buf` (`TCPserver.c:70`)
  writes the terminator behind it.
* `run_driver` may read the number of another thread (`testbench.c:51`, `driver.c:177`), so its
  messages can carry the wrong one; the status it returns is not looked at.
* `platforms` (`driver.c:44`) is never freed, and `firmware.cl` is read from what `fopen` returns
  without a check (`driver.c:83`).

## 7. What is not modelled

* `py2cpp.pl`, which turns the Python files to C++: its output was edited by hand, and what
  was kept of it is modelled as `CppSystem`.
* The cache model (`cache_model.py`, `cache_model.cc`) has no behaviour to model: `init_cache`
  reads `location_stack` before it assigns it, `get_next_free_location` returns a name that
  does not exist, and the C++ file is the same text in a syntax no compiler accepts.
* The timer example of `basic-OS-concepts`: a list of two encoded stores, which the workload
  of `system_programs` contains.
* Build files.
* Of modelled parts: text of lines and messages; tracing (`VERBOSE`); the mode `-H` of the Python
  model (it stops at its first fetch) and `fib_hl`, which no loaded program calls; the
  values of quotients in the bare-bones model, and those of inexact quotients in the
  advanced one; the wrap of the 32-bit `mseqn` (never
  compared); a line of exactly `MAX_NCHARS` characters; and C undefined behaviour other
  than the uninitialised `tmpchar`, `FD_SET(-1)`, the terminator behind `buf` and elements of
  the test bench's arrays that nobody has written.
* The middle of `run_driver` is not in the repository, and with it the use of the kernel, of
  `firmware.cl`'s text and of the device lock. `Testbench` claims nothing about results.
* The regular expressions of the line transformer are two fields of a line: what they
  match is input, and the inputs of the runs have it as Perl would.

## 8. Plan

| order | work | state |
|---|---|---|
| 1 | `UdpAck`, `UdpDelivery`, proofs and refinement | done |
| 2 | `SelectServer` and the descriptor invariant | done |
| 3 | `AbstractSystem` family, types and device proofs | done |
| 4 | `WorkerServer`, `LineService`, proofs and refinement | done |
| 5 | `LineTransform`, `SourceTasks`; proofs of its tables and of `FollowsSource` | done |
| 6 | `CppSystem`; `BareBones`; `OtherVersions` with the refinement of `MainProgram` | done; `BareBones` only model-checked |
| 7 | `TimeSlice`, `TaskContexts`, proofs and refinement | done |
| 8 | `Testbench` and its proofs | done |
| 9 | `CopyPair`, `CopyService`, proofs and refinement | done |
| 10 | `CppSystem` implements `MainProgram` as long as the instructions executed avoid what differs (`AsInPython`), with the encoder's words equal line by line and the invariant that the timer never raises its request | done |
| 11 | the properties of delivery of `UdpAck`, with counting lemmas for queues | done |
| 12 | `MainAndRoutine`: interrupts are invisible to every main program that cooperates | done |
| 13 | `ExamplePrograms`: the decoder inverts the encoder; the two programs cooperate; the table of `load_code` | done |

Parameters are CONSTANTS with named assumptions, each operation is one action,
invariants are conjunctions of named parts, and no module that is proved about
reaches a RECURSIVE operator.
