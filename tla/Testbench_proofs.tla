---------------------------- MODULE Testbench_proofs ----------------------------
(***************************************************************************)
(* What Testbench keeps for any number of threads.  The inductive          *)
(* invariant ties each place of main to what it has created, joined,       *)
(* acquired and released (MainInv), and each place of a thread to what it  *)
(* has allocated and printed (ResultInv) and to the shared number          *)
(* (NumberInv).                                                            *)
(***************************************************************************)
EXTENDS Testbench, TLAPS

-----------------------------------------------------------------------------
(* The invariant *)

\* Which threads there are, and which have ended, at each place of main.
ThreadsInv ==
  /\ mpc \in {"init", "calloc"} => \A t \in Threads : tpc[t] = "none"
  /\ mpc = "create" => \A t \in Threads : t < k <=> tpc[t] # "none"
  /\ mpc = "join" => \A t \in Threads : tpc[t] # "none" /\ (t < k => tpc[t] = "ended")
  /\ mpc \in {"free", "release", "exit"} => \A t \in Threads : tpc[t] = "ended"

\* Which objects and blocks there are at each place of main.
StoreInv ==
  /\ mpc = "init" => /\ k > 4 => "context" \in held
                     /\ k > 5 => "queue" \in held
                     /\ k > 7 => "program" \in held
  /\ mpc \in {"calloc", "create", "join", "free"} => held = Objects
  /\ mpc = "release" => /\ k > 1 => "program" \notin held
                        /\ k > 2 => "kernel" \notin held
                        /\ k > 3 => "queue" \notin held
  /\ mpc = "exit" => held = {}
  /\ mpc = "init" => live = {"ocl"} \cup (IF k > 2 THEN {"platforms"} ELSE {})
  /\ mpc \in {"create", "join", "free"} => live = {"ocl", "platforms", "tinfo"}
  /\ mpc \in {"calloc", "release"} \/ (mpc = "exit" /\ Running) => live = {"ocl", "platforms"}
  /\ exited = "success" => mpc = "exit" /\ live = {"platforms"}

MainInv == ThreadsInv /\ StoreInv

\* A thread that has ended has printed its result and freed its arrays.
ResultInv == \A t \in Threads : tpc[t] = "ended" => t \notin arrays /\ report[t] # "none"

\* A thread that has come past its first statements has stored its number.
NumberInv ==
  /\ thread_num # 0 => tpc[thread_num] \notin {"none", "start"}
  /\ \A t \in Threads : tpc[t] \notin {"none", "start"} => thread_num # 0
  /\ TidNamesCaller

\* What thread t can do, failures included.
AnyThread(t) == Thread(t) \/ GetWorkGroupInfoFails(t) \/ SectionFails(t)

BenchInv == TypeOK /\ MainInv /\ ResultInv /\ NumberInv

-----------------------------------------------------------------------------
(* Initial states *)

LEMMA InitInv == Init => BenchInv
<1> SUFFICES ASSUME Init PROVE BenchInv
  OBVIOUS
<1> USE BenchAssumption DEF Init
<1>1. TypeOK
  BY DEF TypeOK, Objects, Threads
<1>2. MainInv
  BY DEF MainInv, ThreadsInv, StoreInv, Threads, Objects, Running
<1>3. ResultInv
  BY DEF ResultInv
<1>4. NumberInv
  BY DEF NumberInv, TidNamesCaller, Threads
<1>5. QED
  BY <1>1, <1>2, <1>3, <1>4 DEF BenchInv

-----------------------------------------------------------------------------
(* Types *)

LEMMA AcquiresObjects == \A j \in 1 .. 9 : Acquires[j] \in Objects \cup {"none"}
<1> SUFFICES ASSUME NEW j \in 1 .. 9 PROVE Acquires[j] \in Objects \cup {"none"}
  OBVIOUS
<1>1. j \in {1, 2, 3, 4, 5, 6, 7, 8, 9}
  OBVIOUS
<1>2. QED
  BY <1>1 DEF Acquires, Objects

LEMMA TypeStep == TypeOK /\ [Next]_vars => TypeOK'
<1> SUFFICES ASSUME TypeOK, [Next]_vars PROVE TypeOK'
  OBVIOUS
<1> USE BenchAssumption DEF TypeOK
<1>1. CASE UNCHANGED vars
  BY <1>1 DEF vars, mainVars, threadVars
<1>2. CASE InitCall
  <2>1. held' \subseteq Objects
    BY <1>2, AcquiresObjects DEF InitCall
  <2>2. QED
    BY <1>2, <2>1 DEF InitCall, NextRound, threadVars
<1>3. CASE Calloc
  BY <1>3 DEF Calloc, threadVars, Threads
<1>4. CASE CreateThread
  BY <1>4 DEF CreateThread, NextRound, Threads
<1>5. CASE JoinThread
  BY <1>5 DEF JoinThread, NextRound, threadVars, Threads
<1>6. CASE FreeInfo
  BY <1>6 DEF FreeInfo, threadVars
<1>7. CASE ReleaseObject
  BY <1>7 DEF ReleaseObject, NextRound, threadVars
<1>8. CASE Exit
  BY <1>8 DEF Exit, threadVars
<1>9. CASE MainFails \/ ReadSourceCrashes
  BY <1>9 DEF MainFails, ReadSourceCrashes, mainVars, threadVars
<1>10. ASSUME NEW t \in Threads, AnyThread(t) PROVE TypeOK'
  <2> USE DEF mainVars, threadVars
  <2>1. CASE StartThread(t)
    BY <2>1 DEF StartThread, Threads
  <2>2. CASE RunDriver(t)
    BY <2>2 DEF RunDriver
  <2>3. CASE GetWorkGroupInfo(t) \/ GetWorkGroupInfoFails(t)
    BY <2>3 DEF GetWorkGroupInfo, GetWorkGroupInfoFails
  <2>4. CASE Section(t) \/ SectionFails(t)
    BY <2>4 DEF Section, SectionFails
  <2>5. CASE CheckResult(t)
    BY <2>5 DEF CheckResult
  <2>6. QED
    BY <1>10, <2>1, <2>2, <2>3, <2>4, <2>5 DEF AnyThread, Thread
<1>11. QED
  BY <1>1, <1>2, <1>3, <1>4, <1>5, <1>6, <1>7, <1>8, <1>9, <1>10 DEF Next, Main, Fails, AnyThread

-----------------------------------------------------------------------------
(* Main and the store *)

\* No step of a thread takes it back to "none", or lets it go on when it has ended.
LEMMA ThreadMoves ==
  ASSUME TypeOK, NEW t \in Threads, AnyThread(t)
  PROVE /\ UNCHANGED mainVars
        /\ tpc[t] \notin {"none", "ended"}
        /\ tpc'[t] # "none"
        /\ \A u \in Threads \ {t} : tpc'[u] = tpc[u]
        /\ exited' # "success"
<1> USE DEF TypeOK, Running, threadVars, mainVars
<1>1. CASE StartThread(t) \/ RunDriver(t) \/ GetWorkGroupInfo(t) \/ GetWorkGroupInfoFails(t)
  BY <1>1 DEF StartThread, RunDriver, GetWorkGroupInfo, GetWorkGroupInfoFails
<1>2. CASE Section(t) \/ SectionFails(t)
  BY <1>2 DEF Section, SectionFails
<1>3. CASE CheckResult(t)
  BY <1>3 DEF CheckResult
<1>4. QED
  BY <1>1, <1>2, <1>3 DEF AnyThread, Thread

LEMMA ThreadsStep == TypeOK /\ ThreadsInv /\ [Next]_vars => ThreadsInv'
<1> SUFFICES ASSUME TypeOK, ThreadsInv, [Next]_vars PROVE ThreadsInv'
  OBVIOUS
<1> USE BenchAssumption DEF ThreadsInv
<1>1. CASE UNCHANGED <<mpc, k, tpc>>
  BY <1>1
<1>2. CASE InitCall
  BY <1>2 DEF InitCall, NextRound, threadVars
<1>3. CASE Calloc
  BY <1>3 DEF Calloc, threadVars, Threads
<1>4. CASE CreateThread
  <2>1. CASE k < NTH
    BY <1>4, <2>1 DEF CreateThread, NextRound, Threads, TypeOK
  <2>2. CASE ~(k < NTH)
    BY <1>4, <2>2 DEF CreateThread, NextRound, Threads, TypeOK
  <2>3. QED
    BY <2>1, <2>2
<1>5. CASE JoinThread
  <2>1. CASE k < NTH
    BY <1>5, <2>1 DEF JoinThread, NextRound, Threads, TypeOK, threadVars
  <2>2. CASE ~(k < NTH)
    BY <1>5, <2>2 DEF JoinThread, NextRound, Threads, TypeOK, threadVars
  <2>3. QED
    BY <2>1, <2>2
<1>6. CASE FreeInfo \/ ReleaseObject \/ Exit
  BY <1>6 DEF FreeInfo, ReleaseObject, Exit, NextRound, threadVars
<1>7. ASSUME NEW t \in Threads, AnyThread(t) PROVE ThreadsInv'
  BY <1>7, ThreadMoves DEF mainVars
<1>8. QED
  <2>1. CASE UNCHANGED vars
    BY <1>1, <2>1 DEF vars, mainVars, threadVars
  <2>2. CASE MainFails \/ ReadSourceCrashes
    BY <1>1, <2>2 DEF MainFails, ReadSourceCrashes, mainVars, threadVars
  <2>3. QED
    BY <1>2, <1>3, <1>4, <1>5, <1>6, <1>7, <2>1, <2>2 DEF Next, Main, Fails, AnyThread

LEMMA StoreStep == TypeOK /\ StoreInv /\ [Next]_vars => StoreInv'
<1> SUFFICES ASSUME TypeOK, StoreInv, [Next]_vars PROVE StoreInv'
  OBVIOUS
<1> USE DEF StoreInv, Running
<1>1. CASE UNCHANGED <<exited, mainVars>>
  BY <1>1 DEF mainVars
<1>2. CASE InitCall
  <2>1. held' \subseteq Objects
    BY <1>2, AcquiresObjects DEF InitCall, TypeOK
  <2>2. k \in {1, 2, 3, 4, 5, 6, 7, 8, 9}
    BY <1>2 DEF InitCall, TypeOK
  <2>3. /\ k = 4 => "context" \in held'
        /\ k = 5 => "queue" \in held'
        /\ k = 7 => "program" \in held'
        /\ k = 9 => "kernel" \in held'
    BY <1>2 DEF InitCall, Acquires
  <2>4. /\ held \subseteq held' /\ UNCHANGED exited
        /\ live' = live \cup (IF k = 2 THEN {"platforms"} ELSE {})
    BY <1>2 DEF InitCall, GetPlatforms
  <2>5. CASE k < 9
    <3>1. k' = k + 1 /\ mpc' = "init" /\ mpc = "init"
      BY <1>2, <2>5 DEF InitCall, NextRound
    <3>2. live' = {"ocl"} \cup (IF k' > 2 THEN {"platforms"} ELSE {})
      BY <2>2, <2>4, <3>1
    <3>3. exited' = "no"
      BY <1>2, <2>4 DEF InitCall
    <3>4. QED
      BY <2>2, <2>3, <2>4, <2>5, <3>1, <3>2, <3>3
  <2>6. CASE k = 9
    <3>1. k' = 1 /\ mpc' = "calloc" /\ mpc = "init" /\ exited = "no"
      BY <1>2, <2>6 DEF InitCall, NextRound
    <3>2. held' = Objects
      <4>1. "context" \in held' /\ "queue" \in held' /\ "program" \in held' /\ "kernel" \in held'
        BY <2>3, <2>4, <2>6, <3>1
      <4>2. Objects \subseteq held'
        BY <4>1 DEF Objects
      <4>3. QED
        BY <2>1, <4>2, Zenon
    <3>3. live' = {"ocl", "platforms"}
      BY <2>4, <2>6, <3>1
    <3>4. QED
      BY <2>4, <3>1, <3>2, <3>3
  <2>7. QED
    BY <2>2, <2>5, <2>6
<1>3. CASE Calloc
  BY <1>3 DEF Calloc
<1>4. CASE CreateThread
  BY <1>4 DEF CreateThread, NextRound
<1>5. CASE JoinThread
  BY <1>5 DEF JoinThread, NextRound
<1>6. CASE FreeInfo
  BY <1>6 DEF FreeInfo
<1>7. CASE ReleaseObject
  <2>1. k \in {1, 2, 3, 4}
    BY <1>7 DEF ReleaseObject, TypeOK
  <2>2. /\ held' \subseteq held
        /\ k = 1 => "program" \notin held'
        /\ k = 2 => "kernel" \notin held'
        /\ k = 3 => "queue" \notin held'
        /\ k = 4 => "context" \notin held'
    BY <1>7 DEF ReleaseObject, Releases
  <2>3. CASE k < 4
    <3>1. k' = k + 1 /\ mpc' = "release" /\ mpc = "release" /\ UNCHANGED <<exited, live>> /\ exited = "no"
      BY <1>7, <2>3 DEF ReleaseObject, NextRound
    <3>2. QED
      BY <2>1, <2>2, <2>3, <3>1
  <2>4. CASE k = 4
    <3>1. k' = 1 /\ mpc' = "exit" /\ mpc = "release" /\ UNCHANGED <<exited, live>> /\ exited = "no"
      BY <1>7, <2>4 DEF ReleaseObject, NextRound
    <3>2. held' = {}
      BY <2>2, <2>4, <3>1 DEF TypeOK, Objects
    <3>3. QED
      BY <3>1, <3>2
  <2>5. QED
    BY <2>1, <2>3, <2>4
<1>8. CASE Exit
  BY <1>8 DEF Exit
<1>9. CASE MainFails \/ ReadSourceCrashes
  BY <1>9 DEF MainFails, ReadSourceCrashes, mainVars
<1>10. ASSUME NEW t \in Threads, AnyThread(t) PROVE StoreInv'
  <2>1. UNCHANGED mainVars /\ exited' # "success" /\ exited = "no"
    <3>1. exited = "no"
      BY <1>10 DEF AnyThread, Thread, StartThread, RunDriver, GetWorkGroupInfo, GetWorkGroupInfoFails,
                   Section, SectionFails, CheckResult
    <3>2. QED
      BY <1>10, <3>1, ThreadMoves
  <2>2. QED
    BY <2>1 DEF mainVars
<1>11. QED
  <2>1. CASE UNCHANGED vars
    BY <1>1, <2>1 DEF vars
  <2>2. QED
    BY <1>2, <1>3, <1>4, <1>5, <1>6, <1>7, <1>8, <1>9, <1>10, <2>1 DEF Next, Main, Fails, AnyThread

-----------------------------------------------------------------------------
(* The threads *)

\* The thread that is created was not there.
LEMMA CreatesNew ==
  ASSUME TypeOK, ThreadsInv, CreateThread
  PROVE /\ k \in Threads /\ tpc[k] = "none"
        /\ tpc'[k] = "start" /\ \A u \in Threads \ {k} : tpc'[u] = tpc[u]
        /\ UNCHANGED <<thread_num, tid, arrays, report>>
BY BenchAssumption DEF CreateThread, TypeOK, ThreadsInv, Threads

LEMMA ResultStep == TypeOK /\ ThreadsInv /\ ResultInv /\ [Next]_vars => ResultInv'
<1> SUFFICES ASSUME TypeOK, ThreadsInv, ResultInv, [Next]_vars PROVE ResultInv'
  OBVIOUS
<1> USE DEF ResultInv
<1>1. CASE UNCHANGED <<tpc, arrays, report>>
  BY <1>1
<1>2. CASE CreateThread
  BY <1>2, CreatesNew
<1>3. ASSUME NEW t \in Threads, AnyThread(t) PROVE ResultInv'
  <2> USE DEF TypeOK, threadVars
  <2>1. CASE StartThread(t) \/ RunDriver(t) \/ GetWorkGroupInfo(t) \/ GetWorkGroupInfoFails(t)
    BY <2>1 DEF StartThread, RunDriver, GetWorkGroupInfo, GetWorkGroupInfoFails
  <2>2. CASE Section(t) \/ SectionFails(t)
    BY <2>2 DEF Section, SectionFails
  <2>3. CASE CheckResult(t)
    BY <2>3 DEF CheckResult
  <2>4. QED
    BY <1>3, <2>1, <2>2, <2>3 DEF AnyThread, Thread
<1>4. QED
  <2>1. CASE UNCHANGED vars
    BY <1>1, <2>1 DEF vars, threadVars
  <2>2. CASE \/ InitCall \/ Calloc \/ JoinThread \/ FreeInfo \/ ReleaseObject \/ Exit
             \/ MainFails \/ ReadSourceCrashes
    BY <1>1, <2>2 DEF InitCall, Calloc, JoinThread, FreeInfo, ReleaseObject, Exit, MainFails,
                      ReadSourceCrashes, threadVars
  <2>3. QED
    BY <1>2, <1>3, <2>1, <2>2 DEF Next, Main, Fails, AnyThread

-----------------------------------------------------------------------------
(* The number of a thread *)

LEMMA NumberStep == TypeOK /\ ThreadsInv /\ NumberInv /\ [Next]_vars => NumberInv'
<1> SUFFICES ASSUME TypeOK, ThreadsInv, NumberInv, [Next]_vars PROVE NumberInv'
  OBVIOUS
<1> USE DEF NumberInv, TidNamesCaller
<1>1. CASE UNCHANGED <<thread_num, tid, tpc>>
  BY <1>1
<1>2. CASE CreateThread
  <2>1. thread_num # 0 => thread_num # k
    BY <1>2, CreatesNew
  <2>2. thread_num # 0 => thread_num \in Threads
    BY DEF TypeOK, Threads
  <2>3. QED
    BY <1>2, <2>1, <2>2, CreatesNew
<1>3. ASSUME NEW t \in Threads, AnyThread(t) PROVE NumberInv'
  <2> USE DEF TypeOK
  <2>1. t # 0
    BY DEF Threads
  <2>2. \A u \in Threads : tpc[u] \notin {"none", "start"} => tpc'[u] \notin {"none", "start"}
    BY <1>3 DEF AnyThread, Thread, StartThread, RunDriver, GetWorkGroupInfo, GetWorkGroupInfoFails,
                Section, SectionFails, CheckResult, threadVars
  <2>3. thread_num # 0 => thread_num \in Threads
    BY DEF Threads
  <2>4. CASE StartThread(t)
    BY <2>1, <2>2, <2>3, <2>4 DEF StartThread
  <2>5. CASE RunDriver(t)
    BY <2>1, <2>2, <2>3, <2>5 DEF RunDriver
  <2>6. CASE GetWorkGroupInfo(t) \/ GetWorkGroupInfoFails(t)
    BY <2>2, <2>3, <2>6 DEF GetWorkGroupInfo, GetWorkGroupInfoFails, threadVars
  <2>7. CASE Section(t) \/ SectionFails(t) \/ CheckResult(t)
    BY <2>2, <2>3, <2>7 DEF Section, SectionFails, CheckResult, threadVars
  <2>8. QED
    BY <1>3, <2>4, <2>5, <2>6, <2>7 DEF AnyThread, Thread
<1>4. QED
  <2>1. CASE UNCHANGED vars
    BY <1>1, <2>1 DEF vars, threadVars
  <2>2. CASE \/ InitCall \/ Calloc \/ JoinThread \/ FreeInfo \/ ReleaseObject \/ Exit
             \/ MainFails \/ ReadSourceCrashes
    BY <1>1, <2>2 DEF InitCall, Calloc, JoinThread, FreeInfo, ReleaseObject, Exit, MainFails,
                      ReadSourceCrashes, threadVars
  <2>3. QED
    BY <1>2, <1>3, <2>1, <2>2 DEF Next, Main, Fails, AnyThread

-----------------------------------------------------------------------------
(* Theorems *)

LEMMA InvStep == BenchInv /\ [Next]_vars => BenchInv'
BY TypeStep, ThreadsStep, StoreStep, ResultStep, NumberStep DEF BenchInv, MainInv

LEMMA InvAlways == Spec => []BenchInv
BY InitInv, InvStep, PTL DEF Spec

\* The variables keep their types for any number of threads.
THEOREM TypeCorrect == Spec => []TypeOK
<1>1. BenchInv => TypeOK
  BY DEF BenchInv
<1>2. QED
  BY <1>1, InvAlways, PTL

\* While a thread is at work, its entry of tinfo, the shared object and the
\* OpenCL objects are there: main joins all threads before it frees anything.
THEOREM ObjectsAliveAlways == Spec => []ObjectsAlive
<1>1. BenchInv => ObjectsAlive
  <2> SUFFICES ASSUME BenchInv, NEW t \in Threads, Busy(t), Running
               PROVE {"ocl", "tinfo"} \subseteq live /\ held = Objects
    BY DEF ObjectsAlive
  <2>1. mpc \in {"create", "join"}
    BY DEF BenchInv, MainInv, ThreadsInv, TypeOK, Busy
  <2>2. QED
    BY <2>1 DEF BenchInv, MainInv, StoreInv
<1>2. QED
  BY <1>1, InvAlways, PTL

\* With EXIT_SUCCESS all threads have reported and freed their arrays, all OpenCL
\* objects are released, and what is left of the memory of driver and main is
\* the list of the platforms, which nothing frees.
THEOREM ReleasedInFullAlways == Spec => []ReleasedInFull
<1>1. BenchInv => ReleasedInFull
  <2> SUFFICES ASSUME BenchInv, exited = "success" PROVE ReleasedInFull
    BY DEF ReleasedInFull
  <2>1. mpc = "exit" /\ held = {} /\ live = {"platforms"}
    BY DEF BenchInv, MainInv, StoreInv
  <2>2. \A t \in Threads : tpc[t] = "ended" /\ t \notin arrays /\ report[t] # "none"
    BY <2>1 DEF BenchInv, MainInv, ThreadsInv, ResultInv
  <2>3. arrays = {}
    BY <2>2 DEF BenchInv, TypeOK
  <2>4. QED
    BY <2>1, <2>2, <2>3 DEF ReleasedInFull
<1>2. QED
  BY <1>1, InvAlways, PTL

\* The number that run_driver reads is that of a thread that has stored its
\* own: never the one malloc has left in the object.
THEOREM TidNamesCallerAlways == Spec => []TidNamesCaller
<1>1. BenchInv => TidNamesCaller
  BY DEF BenchInv, NumberInv
<1>2. QED
  BY <1>1, InvAlways, PTL
=============================================================================
