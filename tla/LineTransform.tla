---------------------------- MODULE LineTransform ----------------------------
(***************************************************************************)
(* src/Code/Ch3-Hardware-Architecture/transform_to_one_sub_per_line.pl:    *)
(* reads a file of C tasks (the lines are abstracted as SourceTasks says), *)
(* turns every statement into a subroutine of its own that ends by setting *)
(* the program counter, and a task into a loop in main that calls the      *)
(* subroutine pc until pc is the number of its lines.                      *)
(*                                                                         *)
(* The module models the script and then the run of the program it has     *)
(* written.  Condition outcomes are open, the effect of a statement is     *)
(* abstracted to the fact that it ran.                                     *)
(***************************************************************************)
EXTENDS Integers, Sequences

CONSTANTS Files,    \* the input files
          NO_TASK,  \* outside of any subroutine
          NoLabel,
          NoName    \* the name pattern does not match

\* What the script takes for granted of its input: subroutines have different
\* names, which are numbered in their order, and each one is closed before
\* another opens.  Nothing is assumed of the lines its type pattern matches.
ASSUME FileAssumption ==
  \A f \in Files :
    /\ Len(f) \in Nat /\ DOMAIN f = 1 .. Len(f)
    /\ \A j \in DOMAIN f :
         /\ f[j].kind \in {"sub", "end", "decl", "blank", "plain", "goto", "if"}
         /\ f[j].typed \in BOOLEAN
    /\ \A j \in DOMAIN f : f[j].kind = "sub" =>
         /\ f[j].name \in Nat \ {0} /\ f[j].name # NO_TASK
         /\ \A k \in DOMAIN f : f[k].kind = "sub" /\ f[k].name = f[j].name => k = j
         /\ \E e \in j + 1 .. Len(f) :
              f[e].kind = "end" /\ \A k \in j + 1 .. e - 1 : f[k].kind \notin {"sub", "end"}

VARIABLES
  file,          \* the input file
  read,          \* the number of its lines read
  phase,         \* "parse", "died"; of the generated main "call", "end",
                 \* "done", or "wild": it called beyond the end of an array
  current_task,  \* the task whose body is being read
  tasks,         \* tasks[t]: the statements of task t
  globals,       \* globals[v]: the line to be written for the name v
  task,          \* the task main is at, or 0
  pc,            \* the program counter
  ran            \* the last statement executed, as <<task, line>>

scriptVars == <<read, current_task, tasks, globals>>
vars == <<file, phase, scriptVars, task, pc, ran>>

Source == INSTANCE SourceTasks WITH at <- pc

Names == {t \in DOMAIN tasks : t # NO_TASK}

TypeOK ==
  /\ read \in 0..Len(file)
  /\ phase \in {"parse", "died", "call", "end", "done", "wild"}
  /\ current_task \in Source!Tasks \cup {NO_TASK}
  /\ DOMAIN tasks \subseteq Source!Tasks \cup {NO_TASK}
  /\ \A t \in DOMAIN tasks : tasks[t] \in Seq({file[k] : k \in DOMAIN file})
  /\ \A v \in DOMAIN globals : globals[v] \in {file[k] : k \in DOMAIN file}
  /\ task \in Source!Tasks \cup {0}
  /\ pc \in 0..Len(file)
  /\ ran = << >> \/ (ran[1] \in Source!Tasks /\ ran[2] \in 0..Len(file))

Init ==
  /\ file \in Files
  /\ read = 0
  /\ phase = "parse"
  /\ current_task = NO_TASK
  /\ tasks = << >>
  /\ globals = << >>
  /\ task = Source!First(Source!Tasks)
  /\ pc = 0
  /\ ran = << >>

(***************************************************************************)
(* Reading the file, a line at a time.                                     *)
(***************************************************************************)
Line == file[read + 1]

\* The hash with this entry.
Entry(hash, key, value) ==
  [k \in DOMAIN hash \cup {key} |-> IF k = key THEN value ELSE hash[k]]

Reading ==
  /\ phase = "parse" /\ read < Len(file)
  /\ read' = read + 1
  /\ UNCHANGED <<file, task, pc, ran>>

\* void <name>(void) {
StartOfSub ==
  /\ Reading
  /\ Line.kind = "sub"
  /\ current_task' = Line.name
  /\ tasks' = Entry(tasks, Line.name, << >>)
  /\ UNCHANGED <<phase, globals>>

\* Mutant: the brace does not end the task.
EndOfSubIgnored ==
  /\ Reading
  /\ Line.kind = "end"
  /\ UNCHANGED <<phase, current_task, tasks, globals>>

\* A line with nothing but a closing brace.
EndOfSub ==
  /\ Reading
  /\ Line.kind = "end"
  /\ current_task' = NO_TASK
  /\ UNCHANGED <<phase, tasks, globals>>

\* A line of a task that the type pattern matches, wherever in the line.
TypeLine ==
  /\ Reading
  /\ Line.kind \notin {"sub", "end"}
  /\ current_task # NO_TASK /\ Line.typed
  /\ UNCHANGED <<current_task, tasks>>

\* Mutant: a name that has a line already is given another one.
DeclarationUnchecked ==
  /\ TypeLine
  /\ Line.captured # NoName
  /\ globals' = Entry(globals, Line.captured, Line)
  /\ UNCHANGED phase

\* It becomes a global one under the name that is captured; a name that has a
\* line already dies, and a line without a match for its name is dropped.
Declaration ==
  /\ TypeLine
  /\ CASE Line.captured = NoName -> UNCHANGED <<phase, globals>>
       [] Line.captured \in DOMAIN globals -> phase' = "died" /\ UNCHANGED globals
       [] OTHER -> globals' = Entry(globals, Line.captured, Line) /\ UNCHANGED phase

\* Any other line belongs to the current task, or to the global lines.
OtherLine ==
  /\ Reading
  /\ Line.kind \notin {"sub", "end"}
  /\ Line.typed => current_task = NO_TASK
  /\ LET before == IF current_task \in DOMAIN tasks THEN tasks[current_task] ELSE << >>
     IN tasks' = IF Line.kind = "blank" THEN tasks
                 ELSE Entry(tasks, current_task, Append(before, Line))
  /\ UNCHANGED <<phase, current_task, globals>>

(***************************************************************************)
(* Writing the program.                                                    *)
(***************************************************************************)

\* The script dies on a file without global lines; otherwise it writes them,
\* the declarations, main and the functions, and main begins.
Generate ==
  /\ phase = "parse" /\ read = Len(file)
  /\ IF NO_TASK \notin DOMAIN tasks
       THEN phase' = "died" /\ UNCHANGED tasks
       ELSE /\ tasks' = [t \in Names |-> tasks[t]]
            /\ phase' = IF Names = {} THEN "done" ELSE "call"
  /\ UNCHANGED <<file, read, current_task, globals, task, pc, ran>>

\* Mutant: lines are numbered from one.
LineNumberFromOne(t, label) == CHOOSE k \in DOMAIN tasks[t] : tasks[t][k].label = label

\* labels_to_line_numbers.
LineNumber(t, label) ==
  (CHOOSE k \in DOMAIN tasks[t] : tasks[t][k].label = label) - 1

\* What the function of line n makes of pc.  A goto replaces all that was
\* appended to the line before; "pc++;" is appended to a labelled line when
\* its label is cut off, and to every line without a goto.
PcAfter(t, n) ==
  LET l == tasks[t][n + 1]
  IN CASE l.kind = "goto" -> {LineNumber(t, l.target)}
       [] l.kind = "if"   -> {LineNumber(t, l.target), n + 1}
       [] OTHER           -> {IF l.label # NoLabel THEN n + 2 ELSE n + 1}

(***************************************************************************)
(* Running the program.                                                    *)
(***************************************************************************)
NINSTRS == Len(tasks[task])

\* instrs[pc]() and the test whether pc has reached the end.
CallLine ==
  /\ phase = "call"
  /\ pc < NINSTRS
  /\ ran' = <<task, pc>>
  /\ pc' \in PcAfter(task, pc)
  /\ phase' = IF pc' = NINSTRS THEN "end" ELSE "call"
  /\ UNCHANGED <<file, scriptVars, task>>

\* The array has no such element: whatever lies behind it is called.
CallBeyond ==
  /\ phase = "call"
  /\ pc >= NINSTRS
  /\ phase' = "wild"
  /\ UNCHANGED <<file, scriptVars, task, pc, ran>>

\* Mutant: the next task starts where the last one has ended.
EndOfTaskPcKept ==
  /\ phase = "end"
  /\ task' = Source!First({t \in Names : t > task})
  /\ phase' = IF task' = 0 THEN "done" ELSE "call"
  /\ UNCHANGED <<file, scriptVars, pc, ran>>

\* The label behind the loop: the next task starts with pc = 0.
EndOfTask ==
  /\ phase = "end"
  /\ task' = Source!First({t \in Names : t > task})
  /\ pc' = 0
  /\ phase' = IF task' = 0 THEN "done" ELSE "call"
  /\ UNCHANGED <<file, scriptVars, ran>>

Next ==
  \/ StartOfSub \/ EndOfSub \/ Declaration \/ OtherLine
  \/ Generate
  \/ CallLine \/ CallBeyond \/ EndOfTask

Spec == Init /\ [][Next]_vars

-----------------------------------------------------------------------------
(***************************************************************************)
(* Properties.                                                             *)
(***************************************************************************)

Running == phase \notin {"parse", "died"}

\* The lines of a task that are neither blank nor matched by the type pattern.
Untyped(t) == {k \in Source!Lines(t) : file[k].kind # "blank" /\ ~file[k].typed}

\* When the program is written, each task has exactly the lines of its body
\* that are neither blank nor matched by the type pattern, in their order, and
\* no line of one task or of the globals is in another.
TasksExact ==
  Running => /\ Names = Source!Tasks
             /\ \A t \in Names : tasks[t] = Source!InOrder(Untyped(t))

Declarations(t) == {k \in Source!Lines(t) : file[k].kind = "decl"}

\* The type pattern matches the declarations of task t and no other line.
Recognised(t) ==
  \A k \in Source!Lines(t) : file[k].typed <=> file[k].kind = "decl"

\* Each declaration in a task is of the form "int i;": one variable, whose name
\* is what the name pattern captures.
PlainDeclarations ==
  \A t \in Source!Tasks :
    /\ Recognised(t)
    /\ \A k \in Declarations(t) :
         file[k].captured # NoName /\ file[k].declares = {file[k].captured}

\* Of an input whose declarations are all of that form a program is only
\* written when no two of them share a name ("variable names must be unique
\* across all subroutines"), and then with exactly the declared variables as
\* globals.
VariablesUnique ==
  Running /\ PlainDeclarations =>
    /\ \A t, u \in Source!Tasks :
         \A j \in Declarations(t), k \in Declarations(u) :
           file[j].declares = file[k].declares => j = k
    /\ DOMAIN globals =
         UNION {file[k].declares : k \in UNION {Declarations(t) : t \in Source!Tasks}}

\* Every jump of a task is to a label of the same task, as C demands.
JumpsDefined ==
  \A t \in Source!Tasks : \A k \in DOMAIN Source!Body(t) :
    Source!Body(t)[k].kind # "plain" =>
      \E j \in DOMAIN Source!Body(t) : Source!Body(t)[j].label = Source!Body(t)[k].target

\* The script's input as it can handle it: C with no task without a statement,
\* labels only on lines with a goto, and types only in declarations.
Regular ==
  /\ JumpsDefined
  /\ \A t \in Source!Tasks :
       /\ Recognised(t)
       /\ Source!Body(t) # << >>
       /\ \A k \in DOMAIN Source!Body(t) :
            Source!Body(t)[k].kind = "plain" => Source!Body(t)[k].label = NoLabel

\* The program that is written executes the statements of the tasks one by
\* one in the order of the source.
FollowsSource ==
  [][Regular => Source!Next \/ UNCHANGED Source!vars]_vars

\* main never indexes an array of subroutines beyond its end ("The converted
\* code uses a program counter (pc) to decide which of the subroutines to
\* execute").
CallsWithinTask == phase # "wild"

\* An empty task and a label on a line without a goto are the only two causes
\* for main to call beyond the end of an array: for C programs without them,
\* and with each declaration recognised as one, pc stays within the task,
\* whatever its loops and the tasks before it.
RegularCallsWithinTask == Regular => CallsWithinTask
=============================================================================
