------------------------------ MODULE Testbench ------------------------------
(***************************************************************************)
(* src/Code/Coursework-code-skeleton: testbench.c starts NTH threads that  *)
(* share the OpenCL objects of driver.c, each of which has an array        *)
(* computed by run_driver and compares it with a reference.                *)
(*                                                                         *)
(* The middle of run_driver (lines 201-240) is left to the student: there  *)
(* is no code.  Nothing is assumed of it but that it is one part of the    *)
(* thread, that it returns or ends the process, and that it leaves what is *)
(* modelled here alone; what it has computed is open.                      *)
(***************************************************************************)
EXTENDS Integers, Sequences

CONSTANTS NTH    \* the number of threads

ASSUME BenchAssumption == NTH \in Nat \ {0}

Threads == 1 .. NTH

\* The steps of init_driver and the OpenCL object each one acquires, and the
\* order in which shutdown_driver releases them.  The steps are
\* clGetPlatformIDs (twice), clGetDeviceIDs, clCreateContext,
\* clCreateCommandQueue, reading firmware.cl, clCreateProgramWithSource,
\* clBuildProgram, clCreateKernel.
Acquires == <<"none", "none", "none", "context", "queue", "none", "program", "none", "kernel">>
Releases == <<"program", "kernel", "queue", "context">>
Objects == {"context", "queue", "program", "kernel"}
GetPlatforms == 2
ReadSource == 6

VARIABLES
  mpc,         \* where main is
  k,           \* which step, or which thread, it is at
  exited,      \* "no", or how the process has ended
  held,        \* the OpenCL objects that are not released
  live,        \* the blocks of main and init_driver that are not freed
  tpc,         \* tpc[t]: where thread t is
  thread_num,  \* ocl->thread_num, 0 as long as malloc has left it
  tid,         \* tid[t]: the number run_driver has read in thread t
  arrays,      \* the threads whose arrays are not freed
  report       \* report[t]: what thread t has printed

mainVars == <<mpc, k, held, live>>
threadVars == <<tpc, thread_num, tid, arrays, report>>
vars == <<exited, mainVars, threadVars>>

TypeOK ==
  /\ mpc \in {"init", "calloc", "create", "join", "free", "release", "exit"}
  /\ k \in Nat
  /\ mpc = "init" => k \in 1 .. 9
  /\ mpc \in {"create", "join"} => k \in Threads
  /\ mpc = "release" => k \in 1 .. 4
  /\ exited \in {"no", "success", "failure", "crash"}
  /\ held \subseteq Objects
  /\ live \subseteq {"ocl", "platforms", "tinfo"}
  /\ tpc \in [Threads -> {"none", "start", "call", "info", "section", "check", "ended"}]
  /\ thread_num \in 0 .. NTH
  /\ tid \in [Threads -> 0 .. NTH]
  /\ arrays \subseteq Threads
  /\ report \in [Threads -> {"none", "SUCCESS", "FAILURE"}]

Init ==
  /\ mpc = "init" /\ k = 1
  /\ exited = "no"
  /\ held = {} /\ live = {"ocl"}
  /\ tpc = [t \in Threads |-> "none"]
  /\ thread_num = 0
  /\ tid = [t \in Threads |-> 0]
  /\ arrays = {}
  /\ report = [t \in Threads |-> "none"]

(***************************************************************************)
(* main.  exit() ends the process with all its threads.                    *)
(***************************************************************************)
Running == exited = "no"

\* The rest of a loop of n rounds, or what follows it.
NextRound(n, after) ==
  IF k < n THEN k' = k + 1 /\ UNCHANGED mpc ELSE k' = 1 /\ mpc' = after

\* The list of the platforms is allocated between its two calls.
InitCall ==
  /\ Running /\ mpc = "init"
  /\ held' = held \cup ({Acquires[k]} \ {"none"})
  /\ live' = live \cup (IF k = GetPlatforms THEN {"platforms"} ELSE {})
  /\ NextRound(9, "calloc")
  /\ UNCHANGED <<exited, threadVars>>

\* fopen's result is not looked at: without firmware.cl, fseek gets NULL.
ReadSourceCrashes ==
  /\ Running /\ mpc = "init" /\ k = ReadSource
  /\ exited' = "crash"
  /\ UNCHANGED <<mainVars, threadVars>>

Calloc ==
  /\ Running /\ mpc = "calloc"
  /\ live' = live \cup {"tinfo"}
  /\ mpc' = "create" /\ k' = 1
  /\ UNCHANGED <<exited, held, threadVars>>

CreateThread ==
  /\ Running /\ mpc = "create"
  /\ tpc' = [tpc EXCEPT ![k] = "start"]
  /\ NextRound(NTH, "join")
  /\ UNCHANGED <<exited, held, live, thread_num, tid, arrays, report>>

\* Mutants: the first thread is taken for all of them; the loop variable stays.
JoinThreadFirst ==
  /\ Running /\ mpc = "join" /\ tpc[1] = "ended"
  /\ NextRound(NTH, "free")
  /\ UNCHANGED <<exited, held, live, threadVars>>
JoinThreadAgain ==
  /\ Running /\ mpc = "join" /\ tpc[k] = "ended"
  /\ UNCHANGED vars

JoinThread ==
  /\ Running /\ mpc = "join" /\ tpc[k] = "ended"
  /\ NextRound(NTH, "free")
  /\ UNCHANGED <<exited, held, live, threadVars>>

FreeInfo ==
  /\ Running /\ mpc = "free"
  /\ live' = live \ {"tinfo"}
  /\ mpc' = "release" /\ k' = 1
  /\ UNCHANGED <<exited, held, threadVars>>

\* Mutant: shutdown_driver returns before it releases the context.
ReleaseObjectAllButLast ==
  /\ Running /\ mpc = "release"
  /\ held' = held \ {Releases[k]}
  /\ NextRound(3, "exit")
  /\ UNCHANGED <<exited, live, threadVars>>

ReleaseObject ==
  /\ Running /\ mpc = "release"
  /\ held' = held \ {Releases[k]}
  /\ NextRound(4, "exit")
  /\ UNCHANGED <<exited, live, threadVars>>

Exit ==
  /\ Running /\ mpc = "exit"
  /\ live' = live \ {"ocl"}
  /\ exited' = "success"
  /\ UNCHANGED <<mpc, k, held, threadVars>>

\* An OpenCL call of init_driver or shutdown_driver, calloc, pthread_create or
\* pthread_join fails: a message and exit(EXIT_FAILURE).
MainFails ==
  /\ Running /\ mpc \in {"init", "calloc", "create", "join", "release"}
  /\ mpc = "init" => k # ReadSource
  /\ exited' = "failure"
  /\ UNCHANGED <<mainVars, threadVars>>

(***************************************************************************)
(* A thread: thread_start and run_driver.                                  *)
(***************************************************************************)
\* Mutant: the number of the thread is not stored.
StartThreadUnnumbered(t) ==
  /\ Running /\ tpc[t] = "start"
  /\ arrays' = arrays \cup {t}
  /\ tpc' = [tpc EXCEPT ![t] = "call"]
  /\ UNCHANGED <<exited, mainVars, thread_num, tid, report>>

\* The arrays are allocated and filled; then the number goes to the object all
\* threads share, without a lock.
StartThread(t) ==
  /\ Running /\ tpc[t] = "start"
  /\ arrays' = arrays \cup {t}
  /\ thread_num' = t
  /\ tpc' = [tpc EXCEPT ![t] = "call"]
  /\ UNCHANGED <<exited, mainVars, tid, report>>

RunDriver(t) ==
  /\ Running /\ tpc[t] = "call"
  /\ tid' = [tid EXCEPT ![t] = thread_num]
  /\ tpc' = [tpc EXCEPT ![t] = "info"]
  /\ UNCHANGED <<exited, mainVars, thread_num, arrays, report>>

GetWorkGroupInfo(t) ==
  /\ Running /\ tpc[t] = "info"
  /\ tpc' = [tpc EXCEPT ![t] = "section"]
  /\ UNCHANGED <<exited, mainVars, thread_num, tid, arrays, report>>

GetWorkGroupInfoFails(t) ==
  /\ Running /\ tpc[t] = "info"
  /\ exited' = "failure"
  /\ UNCHANGED <<mainVars, threadVars>>

\* The student's part: it returns,
Section(t) ==
  /\ Running /\ tpc[t] = "section"
  /\ tpc' = [tpc EXCEPT ![t] = "check"]
  /\ UNCHANGED <<exited, mainVars, thread_num, tid, arrays, report>>

\* or ends the process.
SectionFails(t) ==
  /\ Running /\ tpc[t] = "section"
  /\ exited' = "failure"
  /\ UNCHANGED <<mainVars, threadVars>>

\* The status is not looked at; the output is compared with the reference, the
\* result is printed and the arrays are freed.
CheckResult(t) ==
  /\ Running /\ tpc[t] = "check"
  /\ \E v \in {"SUCCESS", "FAILURE"} : report' = [report EXCEPT ![t] = v]
  /\ arrays' = arrays \ {t}
  /\ tpc' = [tpc EXCEPT ![t] = "ended"]
  /\ UNCHANGED <<exited, mainVars, thread_num, tid>>

Main ==
  \/ InitCall \/ Calloc \/ CreateThread \/ JoinThread
  \/ FreeInfo \/ ReleaseObject \/ Exit

Thread(t) ==
  StartThread(t) \/ RunDriver(t) \/ GetWorkGroupInfo(t) \/ Section(t) \/ CheckResult(t)

Fails ==
  \/ MainFails \/ ReadSourceCrashes
  \/ \E t \in Threads : GetWorkGroupInfoFails(t) \/ SectionFails(t)

Next == Main \/ (\E t \in Threads : Thread(t)) \/ Fails

Spec == Init /\ [][Next]_vars

\* Main and the threads go on where they can, the student's part included;
\* nothing has to fail.
FairSpec ==
  /\ Spec
  /\ WF_vars(Main)
  /\ \A t \in Threads : WF_vars(Thread(t))

-----------------------------------------------------------------------------
(* Properties *)

Busy(t) == tpc[t] \notin {"none", "ended"}

\* As long as a thread runs, what it uses is there: its entry of tinfo, the
\* shared object, and the OpenCL objects (main joins before it frees).
ObjectsAlive ==
  Running => \A t \in Threads : Busy(t) => {"ocl", "tinfo"} \subseteq live /\ held = Objects

\* When the process ends with EXIT_SUCCESS, every thread has come to its report
\* and freed its arrays, every OpenCL object is released, and all memory is
\* freed but the list of the platforms, which init_driver allocates and nothing
\* frees.
ReleasedInFull ==
  exited = "success" => /\ held = {} /\ live = {"platforms"} /\ arrays = {}
                        /\ \A t \in Threads : tpc[t] = "ended" /\ report[t] # "none"

\* run_driver never reads the number malloc has left, but it may read that of
\* another thread: one that has stored its number, perhaps after this one.
TidNamesCaller ==
  \A t \in Threads :
    tpc[t] \notin {"none", "start", "call"} =>
      /\ tid[t] \in Threads
      /\ tpc[tid[t]] \notin {"none", "start"}

\* The process comes to an end (join waits only for threads that end).
TestbenchEnds == <>(~Running)
=============================================================================
