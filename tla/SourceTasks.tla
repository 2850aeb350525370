----------------------------- MODULE SourceTasks -----------------------------
(***************************************************************************)
(* What the input of transform_to_one_sub_per_line.pl means: a file of     *)
(* global lines and C subroutines without blocks, the tasks, which are     *)
(* called one after the other in the order of their names.                 *)
(*                                                                         *)
(* A line of the file is abstracted to a record: its kind, "sub" (a task   *)
(* opens), "end" (its brace closes), "decl" (a declaration), "blank",      *)
(* "plain" (any other statement), "goto" or "if" (a conditional goto); the *)
(* name of the task; the variables it declares; its label; and the label   *)
(* it jumps to.  Of the text the script alone has two more fields: whether *)
(* its type pattern matches, and the name its name pattern captures.       *)
(***************************************************************************)
EXTENDS Integers, Sequences, FiniteSets

VARIABLES
  file,   \* the lines of the input file
  task,   \* the task that is running, or 0 when all have returned
  at,     \* the number of statements before the next one to execute
  ran     \* the last statement executed, as <<task, number>>

vars == <<file, task, at, ran>>

Statements == {"plain", "goto", "if"}

\* The tasks of the file, named by numbers in the order of their names.
Tasks == {file[k].name : k \in {j \in DOMAIN file : file[j].kind = "sub"}}

\* The lines with its opening and its closing brace.
Opens(t) == CHOOSE k \in DOMAIN file : file[k].kind = "sub" /\ file[k].name = t

Closes(t) ==
  CHOOSE k \in Opens(t) .. Len(file) :
    file[k].kind = "end" /\ \A j \in Opens(t) .. k - 1 : file[j].kind # "end"

\* The lines between them, and the statements among these, in order.
Lines(t) == Opens(t) + 1 .. Closes(t) - 1

StatementLines(t) == {k \in Lines(t) : file[k].kind \in Statements}

\* The place of line k among the lines S, and the lines S in their order.
Place(S, k) == Cardinality({j \in S : j <= k})
InOrder(S) ==
  [n \in 1 .. Cardinality(S) |-> file[CHOOSE k \in S : Place(S, k) = n]]

Body(t) == InOrder(StatementLines(t))

\* The number of the statement that carries a label.
Position(t, label) ==
  (CHOOSE k \in DOMAIN Body(t) : Body(t)[k].label = label) - 1

\* Where control can go after statement n of task t.
Successors(t, n) ==
  LET s == Body(t)[n + 1]
  IN (IF s.kind \in {"goto", "if"} THEN {Position(t, s.target)} ELSE {})
       \cup (IF s.kind \in {"plain", "if"} THEN {n + 1} ELSE {})

First(S) == IF S = {} THEN 0 ELSE CHOOSE t \in S : \A u \in S : t <= u

Init ==
  /\ task = First(Tasks)
  /\ at = 0
  /\ ran = << >>

ExecuteStatement ==
  /\ task # 0 /\ at < Len(Body(task))
  /\ ran' = <<task, at>>
  /\ at' \in Successors(task, at)
  /\ UNCHANGED <<file, task>>

Return ==
  /\ task # 0 /\ at = Len(Body(task))
  /\ task' = First({t \in Tasks : t > task})
  /\ at' = 0
  /\ UNCHANGED <<file, ran>>

Next == ExecuteStatement \/ Return
=============================================================================
