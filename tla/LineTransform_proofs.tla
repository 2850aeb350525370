--------------------------- MODULE LineTransform_proofs ---------------------------
(***************************************************************************)
(* For every input file, the program transform_to_one_sub_per_line.pl      *)
(* writes has the lines of each task that are neither blank nor matched by *)
(* its type pattern, in their order.  If the declarations are of the form  *)
(* "int i;" it is only written when their variables have different names,  *)
(* with just these as globals; and for every regular input it does what    *)
(* the source does and stays within its arrays.                            *)
(*                                                                         *)
(* The inductive invariant has three parts.  ParseInv speaks of the part   *)
(* of the file that is read: which task its end is in, and what is         *)
(* entered there.  TasksInv adds the lines pushed: what tasks holds are    *)
(* those of each task so far, in their order.  RunInv is about the         *)
(* program counter of the program that is written.                         *)
(***************************************************************************)
EXTENDS LineTransform, FiniteSetTheorems, SequenceTheorems, TLAPS

\* After n lines the script is inside of task t.
In(t, n) == Source!Opens(t) <= n /\ n < Source!Closes(t)

\* The lines in tasks, among the first n, that are entered as globals.
EnteredLine(k) ==
  /\ file[k].typed /\ file[k].captured # NoName
  /\ \E t \in Source!Tasks : k \in Source!Lines(t)

Entered(n) == {k \in 1 .. n : EnteredLine(k)}

\* What has been read is understood as the source means it.
ReadInv ==
  /\ read \in 0 .. Len(file)
  /\ phase = "parse" =>
       /\ current_task \in Source!Tasks \cup {NO_TASK}
       /\ \A t \in Source!Tasks : current_task = t <=> In(t, read)
  /\ Running => read = Len(file)

GlobalsInv ==
  phase # "died" =>
    /\ DOMAIN globals = {file[k].captured : k \in Entered(read)}
    /\ \A j, k \in Entered(read) : file[j].captured = file[k].captured => j = k

ParseInv == file \in Files /\ ReadInv /\ GlobalsInv

-----------------------------------------------------------------------------
(* The shape of the input *)

\* A task has a line that opens it and one that closes it, and none of these
\* between them.
LEMMA TaskShape ==
  ASSUME file \in Files, NEW t \in Source!Tasks
  PROVE /\ Source!Opens(t) \in DOMAIN file
        /\ file[Source!Opens(t)].kind = "sub" /\ file[Source!Opens(t)].name = t
        /\ Source!Closes(t) \in Source!Opens(t) + 1 .. Len(file)
        /\ file[Source!Closes(t)].kind = "end"
        /\ \A k \in Source!Opens(t) + 1 .. Source!Closes(t) - 1 : file[k].kind \notin {"sub", "end"}
        /\ t # NO_TASK
<1>1. \E k \in DOMAIN file : file[k].kind = "sub" /\ file[k].name = t
  BY DEF Source!Tasks
<1>2. /\ Source!Opens(t) \in DOMAIN file
      /\ file[Source!Opens(t)].kind = "sub" /\ file[Source!Opens(t)].name = t
  BY <1>1 DEF Source!Opens
<1> DEFINE o == Source!Opens(t)
<1>3. Len(file) \in Nat /\ DOMAIN file = 1 .. Len(file)
  BY FileAssumption
<1>4. PICK e \in o + 1 .. Len(file) :
        file[e].kind = "end" /\ \A k \in o + 1 .. e - 1 : file[k].kind \notin {"sub", "end"}
  BY <1>2, FileAssumption
<1>5. e \in o .. Len(file) /\ \A k \in o .. e - 1 : file[k].kind # "end"
  BY <1>2, <1>3, <1>4
<1>6. \A k \in o .. Len(file) :
        file[k].kind = "end" /\ (\A j \in o .. k - 1 : file[j].kind # "end") => k = e
  BY <1>2, <1>3, <1>4, <1>5
<1>7. Source!Closes(t) = e
  <2> HIDE DEF o
  <2>1. \E k \in o .. Len(file) : file[k].kind = "end" /\ \A j \in o .. k - 1 : file[j].kind # "end"
    BY <1>4, <1>5
  <2>2. Source!Closes(t) = CHOOSE k \in o .. Len(file) :
                             file[k].kind = "end" /\ \A j \in o .. k - 1 : file[j].kind # "end"
    BY DEF Source!Closes, o
  <2>3. QED
    BY <2>1, <2>2, <1>6
<1>8. t # NO_TASK
  BY <1>2, FileAssumption
<1>9. /\ Source!Closes(t) \in o + 1 .. Len(file)
      /\ file[Source!Closes(t)].kind = "end"
      /\ \A k \in o + 1 .. Source!Closes(t) - 1 : file[k].kind \notin {"sub", "end"}
  <2> HIDE DEF o
  <2>1. QED
    BY <1>4, <1>7
<1>10. QED
  BY <1>2, <1>8, <1>9

LEMMA FileLines == ASSUME file \in Files PROVE Len(file) \in Nat /\ DOMAIN file = 1 .. Len(file)
BY FileAssumption

LEMMA TypeOfRead == ASSUME ParseInv PROVE read \in Nat
<1>1. Len(file) \in Nat /\ read \in 0 .. Len(file)
  BY FileLines DEF ParseInv, ReadInv
<1>2. QED
  BY <1>1

\* The line that opens task t is the only one.
LEMMA OpensUnique ==
  ASSUME file \in Files, NEW k \in DOMAIN file, file[k].kind = "sub"
  PROVE file[k].name \in Source!Tasks /\ Source!Opens(file[k].name) = k
<1>1. file[k].name \in Source!Tasks
  BY DEF Source!Tasks
<1>2. LET o == Source!Opens(file[k].name)
      IN  o \in DOMAIN file /\ file[o].kind = "sub" /\ file[o].name = file[k].name
  BY <1>1, TaskShape
<1>3. QED
  BY <1>1, <1>2, FileAssumption

-----------------------------------------------------------------------------
(* The steps *)

LEMMA InitInv == Init => ParseInv
<1> SUFFICES ASSUME Init PROVE ParseInv
  OBVIOUS
<1>1. file \in Files /\ read = 0 /\ phase = "parse" /\ current_task = NO_TASK /\ globals = << >>
  BY DEF Init
<1>2. \A t \in Source!Tasks : ~In(t, 0) /\ t # NO_TASK
  BY <1>1, TaskShape, FileLines DEF In
<1>3. ReadInv
  BY <1>1, <1>2, FileLines DEF ReadInv, Running
<1>4. Entered(0) = {}
  BY DEF Entered
<1>5. GlobalsInv
  BY <1>1, <1>4 DEF GlobalsInv
<1>6. QED
  BY <1>1, <1>3, <1>5 DEF ParseInv

\* A line that is neither brace nor opening leaves the script where it is.
LEMMA InStays ==
  ASSUME ParseInv, read < Len(file), Line.kind \notin {"sub", "end"},
         NEW t \in Source!Tasks
  PROVE In(t, read + 1) <=> In(t, read)
<1>1. read + 1 # Source!Opens(t) /\ read + 1 # Source!Closes(t)
  BY TaskShape DEF ParseInv, Line
<1>2. Source!Opens(t) \in Int /\ Source!Closes(t) \in Int
  BY TaskShape, FileLines DEF ParseInv
<1>3. QED
  BY <1>1, <1>2, TypeOfRead DEF In

\* Line read + 1 is within a task exactly if the script is, unless it is a brace.
LEMMA WithinTask ==
  ASSUME ParseInv, phase = "parse", read < Len(file), Line.kind \notin {"sub", "end"},
         NEW t \in Source!Tasks
  PROVE read + 1 \in Source!Lines(t) <=> current_task = t
<1>1. read + 1 # Source!Opens(t) /\ read + 1 # Source!Closes(t)
  BY TaskShape DEF ParseInv, Line
<1>2. Source!Opens(t) \in Int /\ Source!Closes(t) \in Int
  BY TaskShape, FileLines DEF ParseInv
<1>3. read + 1 \in Source!Lines(t) <=> In(t, read)
  BY <1>1, <1>2, TypeOfRead DEF In, Source!Lines
<1>4. QED
  BY <1>3 DEF ParseInv, ReadInv

\* The next line is entered if it is typed, named, and in a task.
LEMMA EnteredNext ==
  ASSUME ParseInv, read < Len(file)
  PROVE Entered(read + 1) =
          Entered(read) \cup (IF EnteredLine(read + 1) THEN {read + 1} ELSE {})
BY TypeOfRead DEF Entered

\* Which lines are entered depends on the file alone.
LEMMA EnteredStays ==
  ASSUME file' = file
  PROVE  /\ \A n : EnteredLine(n)' <=> EnteredLine(n)
         /\ read' = read => Entered(read)' = Entered(read)
         /\ read' = read + 1 => Entered(read)' = Entered(read + 1)
<1>1. Source!Tasks' = Source!Tasks /\ \A t : Source!Lines(t)' = Source!Lines(t)
  BY DEF Source!Tasks, Source!Lines, Source!Opens, Source!Closes
<1>2. \A n : EnteredLine(n)' <=> EnteredLine(n)
  BY <1>1 DEF EnteredLine
<1> QED BY <1>2 DEF Entered

LEMMA ReadingStep ==
  ASSUME ParseInv, StartOfSub \/ EndOfSub \/ OtherLine
  PROVE ParseInv'
<1>1. /\ phase = "parse" /\ read < Len(file) /\ read' = read + 1 /\ phase' = phase
      /\ file' = file /\ globals' = globals
  BY DEF StartOfSub, EndOfSub, OtherLine, Reading
<1>2. read' \in 0 .. Len(file)
  BY <1>1, TypeOfRead, FileLines DEF ParseInv
<1>3. /\ current_task' \in Source!Tasks \cup {NO_TASK}
      /\ \A t \in Source!Tasks : current_task' = t <=> In(t, read + 1)
  <2>1. CASE StartOfSub
    <3>1. /\ read + 1 \in DOMAIN file /\ file[read + 1].kind = "sub"
          /\ current_task' = file[read + 1].name
      BY <1>1, <2>1, TypeOfRead, FileLines DEF StartOfSub, Line, ParseInv
    <3>2. current_task' \in Source!Tasks /\ Source!Opens(current_task') = read + 1
      BY <3>1, OpensUnique DEF ParseInv
    <3>3. In(current_task', read + 1)
      BY <3>2, TaskShape, TypeOfRead, FileLines DEF In, ParseInv
    <3>4. ASSUME NEW t \in Source!Tasks, In(t, read + 1) PROVE t = current_task'
      <4>1. read + 1 \in Source!Opens(t) .. Source!Closes(t) - 1
        BY <3>4, TaskShape, TypeOfRead, FileLines DEF In, ParseInv
      <4>2. Source!Opens(t) = read + 1
        BY <3>1, <4>1, TaskShape, FileLines DEF ParseInv
      <4>3. QED
        BY <3>1, <4>2, TaskShape DEF ParseInv
    <3>5. QED
      BY <3>2, <3>3, <3>4
  <2>2. CASE EndOfSub
    <3>1. file[read + 1].kind = "end" /\ current_task' = NO_TASK
      BY <2>2 DEF EndOfSub, Line
    <3>2. ASSUME NEW t \in Source!Tasks PROVE ~In(t, read + 1) /\ t # NO_TASK
      <4>1. read + 1 \notin Source!Opens(t) .. Source!Closes(t) - 1
        BY <3>1, TaskShape, FileLines DEF ParseInv
      <4>2. QED
        BY <4>1, TaskShape, TypeOfRead, FileLines DEF In, ParseInv
    <3>3. QED
      BY <3>1, <3>2
  <2>3. CASE OtherLine
    <3>1. Line.kind \notin {"sub", "end"} /\ current_task' = current_task
      BY <2>3 DEF OtherLine
    <3>2. QED
      BY <1>1, <3>1, InStays DEF ParseInv, ReadInv
  <2>4. QED
    BY <2>1, <2>2, <2>3
<1>4. Entered(read + 1) = Entered(read)
  <2>1. ~ EnteredLine(read + 1)
    <3>1. ASSUME NEW t \in Source!Tasks, Line.typed PROVE read + 1 \notin Source!Lines(t)
      <4>1. CASE Line.kind \in {"sub", "end"}
        BY <4>1, TaskShape DEF ParseInv, Source!Lines, Line
      <4>2. CASE Line.kind \notin {"sub", "end"}
        <5>1. current_task = NO_TASK
          BY <3>1, <4>2 DEF StartOfSub, EndOfSub, OtherLine
        <5> QED BY <1>1, <4>2, <5>1, WithinTask, TaskShape DEF ParseInv
      <4> QED BY <4>1, <4>2
    <3> QED BY <3>1 DEF EnteredLine, Line
  <2> QED BY <1>1, <2>1, EnteredNext
<1>5. QED
  <2>1. Source!Tasks' = Source!Tasks
    BY <1>1 DEF Source!Tasks
  <2>2. \A t : In(t, read)' <=> In(t, read + 1)
    BY <1>1 DEF In, Source!Opens, Source!Closes
  <2>3. Entered(read)' = Entered(read + 1)
    BY <1>1, EnteredStays
  <2>4. ReadInv'
    BY <1>1, <1>2, <1>3, <2>1, <2>2 DEF ReadInv, Running
  <2>5. GlobalsInv'
    BY <1>1, <1>4, <2>3 DEF GlobalsInv, ParseInv
  <2>6. QED
    BY <1>1, <2>4, <2>5 DEF ParseInv

LEMMA DeclarationStep == ASSUME ParseInv, Declaration PROVE ParseInv'
<1> DEFINE v == Line.captured
<1>1. /\ phase = "parse" /\ read < Len(file) /\ read' = read + 1 /\ file' = file
      /\ Line.kind \notin {"sub", "end"} /\ Line.typed
      /\ current_task # NO_TASK /\ current_task' = current_task
  BY DEF Declaration, TypeLine, Reading
<1>2. \/ v = NoName /\ phase' = phase /\ globals' = globals
      \/ phase' = "died"
      \/ /\ v # NoName /\ v \notin DOMAIN globals /\ phase' = phase
         /\ globals' = Entry(globals, v, Line)
  BY DEF Declaration
<1>3. read' \in 0 .. Len(file)
  BY <1>1, TypeOfRead, FileLines DEF ParseInv
<1>4. current_task \in Source!Tasks /\ read + 1 \in Source!Lines(current_task)
  BY <1>1, WithinTask DEF ParseInv, ReadInv
<1>5. EnteredLine(read + 1) <=> v # NoName
  BY <1>1, <1>4 DEF EnteredLine, Line
<1>6. Source!Tasks' = Source!Tasks
  BY <1>1 DEF Source!Tasks
<1>7. \A t : In(t, read)' <=> In(t, read + 1)
  BY <1>1 DEF In, Source!Opens, Source!Closes
<1>8. Entered(read)' = Entered(read + 1)
  BY <1>1, EnteredStays
<1>9. ReadInv'
  <2>1. \A t \in Source!Tasks : current_task' = t <=> In(t, read + 1)
    BY <1>1, InStays DEF ParseInv, ReadInv
  <2>2. phase' # "parse" => phase' = "died"
    BY <1>1, <1>2
  <2>3. QED
    BY <1>1, <1>3, <1>4, <1>6, <1>7, <2>1, <2>2 DEF ReadInv, Running
<1>10. GlobalsInv'
  <2>1. /\ DOMAIN globals = {file[k].captured : k \in Entered(read)}
        /\ \A j, k \in Entered(read) : file[j].captured = file[k].captured => j = k
    BY <1>1 DEF ParseInv, GlobalsInv
  <2>2. CASE phase' = "died"
    BY <2>2 DEF GlobalsInv
  <2>3. CASE phase' # "died" /\ v = NoName
    <3>1. globals' = globals /\ Entered(read + 1) = Entered(read)
      BY <1>1, <1>2, <1>5, <2>3, EnteredNext
    <3> QED BY <1>1, <1>8, <2>1, <3>1 DEF GlobalsInv
  <2>4. CASE phase' # "died" /\ v # NoName
    <3>1. v \notin DOMAIN globals /\ DOMAIN globals' = {v} \cup DOMAIN globals
      BY <1>2, <2>4 DEF Entry
    <3>2. Entered(read + 1) = Entered(read) \cup {read + 1}
      BY <1>1, <1>5, <2>4, EnteredNext
    <3>3. DOMAIN globals' = {file[k].captured : k \in Entered(read + 1)}
      BY <2>1, <3>1, <3>2 DEF Line
    <3>4. \A k \in Entered(read) : file[k].captured # file[read + 1].captured
      BY <2>1, <3>1 DEF Line
    <3>5. \A j, k \in Entered(read + 1) : file[j].captured = file[k].captured => j = k
      BY <2>1, <3>2, <3>4
    <3> QED BY <1>1, <1>8, <3>3, <3>5 DEF GlobalsInv
  <2> QED BY <2>2, <2>3, <2>4
<1>11. QED
  BY <1>1, <1>9, <1>10 DEF ParseInv

LEMMA RunStep ==
  ASSUME ParseInv, Generate \/ CallLine \/ CallBeyond \/ EndOfTask
  PROVE ParseInv'
<1>1. UNCHANGED <<file, read, globals>> /\ phase # "died" /\ phase' # "parse"
  BY DEF Generate, CallLine, CallBeyond, EndOfTask, scriptVars
<1>2. read = Len(file)
  BY DEF Generate, CallLine, CallBeyond, EndOfTask, ParseInv, ReadInv, Running
<1>3. Entered(read)' = Entered(read)
  BY <1>1, EnteredStays
<1>4. ReadInv'
  BY <1>1, <1>2 DEF ParseInv, ReadInv, Running
<1>5. GlobalsInv'
  BY <1>1, <1>3 DEF ParseInv, GlobalsInv
<1>6. QED
  BY <1>1, <1>4, <1>5 DEF ParseInv

LEMMA InvStep == ParseInv /\ [Next]_vars => ParseInv'
<1> SUFFICES ASSUME ParseInv, [Next]_vars PROVE ParseInv'
  OBVIOUS
<1>1. CASE UNCHANGED vars
  <2>1. UNCHANGED <<file, read, phase, current_task, globals>>
    BY <1>1 DEF vars, scriptVars
  <2>2. Source!Tasks' = Source!Tasks /\ Entered(read)' = Entered(read)
    BY <2>1, EnteredStays DEF Source!Tasks
  <2>3. \A t : In(t, read)' <=> In(t, read)
    BY <2>1 DEF In, Source!Opens, Source!Closes
  <2>4. ReadInv'
    BY <2>1, <2>2, <2>3 DEF ParseInv, ReadInv, Running
  <2>5. GlobalsInv'
    BY <2>1, <2>2 DEF ParseInv, GlobalsInv
  <2>6. QED
    BY <2>1, <2>4, <2>5 DEF ParseInv
<1>2. CASE Next
  BY <1>2, ReadingStep, DeclarationStep, RunStep DEF Next
<1>3. QED
  BY <1>1, <1>2

-----------------------------------------------------------------------------
(* The variables *)

LEMMA InvUnique == ParseInv => VariablesUnique
<1> SUFFICES ASSUME ParseInv, Running, PlainDeclarations PROVE VariablesUnique
  BY DEF VariablesUnique
<1> DEFINE all == UNION {Declarations(t) : t \in Source!Tasks}
<1>1. read = Len(file) /\ phase # "died"
  BY DEF ParseInv, ReadInv, Running
<1>2. ASSUME NEW t \in Source!Tasks, NEW k \in Source!Lines(t)
      PROVE  k \in 1 .. Len(file) /\ (file[k].typed <=> file[k].kind = "decl")
  <2>1. k \in 1 .. Len(file)
    BY <1>2, TaskShape, FileLines DEF ParseInv, Source!Lines
  <2> QED BY <1>2, <2>1 DEF PlainDeclarations, Recognised
<1>3. ASSUME NEW t \in Source!Tasks, NEW k \in Declarations(t)
      PROVE  /\ k \in Source!Lines(t) /\ file[k].kind = "decl"
             /\ file[k].captured # NoName /\ file[k].declares = {file[k].captured}
  BY <1>3 DEF Declarations, PlainDeclarations
<1>4. Entered(read) = all
  <2>1. ASSUME NEW k \in Entered(read) PROVE k \in all
    <3>1. PICK t \in Source!Tasks : k \in Source!Lines(t)
      BY DEF Entered, EnteredLine
    <3>2. k \in Declarations(t)
      BY <1>2, <3>1 DEF Entered, EnteredLine, Declarations
    <3> QED BY <3>2
  <2>2. ASSUME NEW k \in all PROVE k \in Entered(read)
    <3>1. PICK t \in Source!Tasks : k \in Declarations(t)
      OBVIOUS
    <3> QED BY <1>1, <1>2, <1>3, <3>1 DEF Entered, EnteredLine
  <2> QED BY <2>1, <2>2
<1>5. \A k \in all : file[k].declares = {file[k].captured}
  BY <1>3
<1>6. /\ DOMAIN globals = {file[k].captured : k \in all}
      /\ \A j, k \in all : file[j].captured = file[k].captured => j = k
  BY <1>1, <1>4 DEF ParseInv, GlobalsInv
<1>7. \A t \in Source!Tasks : Declarations(t) \subseteq all
  OBVIOUS
<1> HIDE DEF all
<1>8. \A t, u \in Source!Tasks :
        \A j \in Declarations(t), k \in Declarations(u) :
          file[j].declares = file[k].declares => j = k
  BY <1>5, <1>6, <1>7
<1>9. {file[k].captured : k \in all} = UNION {file[k].declares : k \in all}
  <2>1. ASSUME NEW v PROVE v \in UNION {file[k].declares : k \in all}
                             <=> \E k \in all : v \in file[k].declares
    OBVIOUS
  <2>2. \A v : (\E k \in all : v \in file[k].declares) <=> \E k \in all : v = file[k].captured
    BY <1>5
  <2> QED BY <2>1, <2>2
<1> QED BY <1>6, <1>8, <1>9 DEF VariablesUnique, all

\* For every input whose declarations in tasks are of the form "int i;": a
\* program is written only when no two of them share a name, with exactly
\* these as globals.
THEOREM VariablesUniqueAlways == Spec => []VariablesUnique
<1>1. Spec => []ParseInv
  BY InitInv, InvStep, PTL DEF Spec
<1>2. QED
  BY <1>1, InvUnique, PTL
-----------------------------------------------------------------------------
(* Lines in their order *)

\* The cardinality that SourceTasks counts with.
LEMMA SourceCardinality == \A S : Source!Cardinality(S) = Cardinality(S)
BY DEF Source!Cardinality, Cardinality

\* Of a finite set of line numbers, each place from the first to the last is
\* taken by exactly one line.
LEMMA PlaceProperties ==
  ASSUME NEW S, IsFiniteSet(S), S \subseteq Nat
  PROVE  /\ Cardinality(S) \in Nat
         /\ \A k \in S : Source!Place(S, k) \in 1 .. Cardinality(S)
         /\ \A n \in 1 .. Cardinality(S) : \E k \in S : Source!Place(S, k) = n
         /\ \A j, k \in S : Source!Place(S, j) = Source!Place(S, k) => j = k
<1> DEFINE upTo(k) == {j \in S : j <= k}
           place == [k \in S |-> Cardinality(upTo(k))]
           size == Cardinality(S)
<1>1. \A k \in S : Source!Place(S, k) = Cardinality(upTo(k))
  BY SourceCardinality DEF Source!Place
<1>2. \A k \in S : upTo(k) \subseteq S /\ k \in upTo(k)
  OBVIOUS
<1>3. ASSUME NEW j \in S, NEW k \in S, j < k
      PROVE  upTo(j) \subseteq upTo(k) /\ k \notin upTo(j)
  <2>1. ASSUME NEW l \in S, l <= j PROVE l <= k
    <3>1. j \in Nat /\ k \in Nat /\ l \in Nat
      OBVIOUS
    <3> QED BY <1>3, <2>1, <3>1
  <2>2. ~ (k <= j)
    <3>1. j \in Nat /\ k \in Nat
      OBVIOUS
    <3> QED BY <1>3, <3>1
  <2> QED BY <2>1, <2>2
<1>4. size \in Nat
  BY FS_CardinalityType
<1>5. ASSUME NEW k \in S
      PROVE  IsFiniteSet(upTo(k)) /\ Cardinality(upTo(k)) \in 1 .. size
  <2>1. upTo(k) \in SUBSET S /\ upTo(k) # {}
    BY <1>2
  <2> HIDE DEF upTo
  <2>2. IsFiniteSet(upTo(k)) /\ Cardinality(upTo(k)) <= size
    BY <2>1, FS_Subset
  <2>3. Cardinality(upTo(k)) \in Nat /\ Cardinality(upTo(k)) # 0
    BY <2>1, <2>2, FS_CardinalityType, FS_EmptySet
  <2> HIDE DEF size
  <2> QED BY <1>4, <2>2, <2>3
<1>6. ASSUME NEW j \in S, NEW k \in S, j < k
      PROVE  Cardinality(upTo(j)) # Cardinality(upTo(k))
  <2>1. upTo(j) \in SUBSET upTo(k) /\ upTo(j) # upTo(k) /\ IsFiniteSet(upTo(k))
    BY <1>2, <1>3, <1>5, <1>6
  <2> HIDE DEF upTo
  <2> QED BY <2>1, FS_Subset
<1>7. ASSUME NEW j \in S, NEW k \in S, Cardinality(upTo(j)) = Cardinality(upTo(k))
      PROVE  j = k
  <2>1. ~ (j < k) /\ ~ (k < j)
    BY <1>6, <1>7
  <2> QED BY <2>1
<1>8. place \in Injection(S, 1 .. size)
  <2> HIDE DEF upTo, size
  <2>1. place \in [S -> 1 .. size]
    BY <1>5
  <2>2. \A j, k \in S : place[j] = place[k] => j = k
    BY <1>7
  <2> HIDE DEF place
  <2> QED BY <2>1, <2>2 DEF Injection, IsInjective
<1>9. IsFiniteSet(1 .. size) /\ Cardinality(1 .. size) = size
  <2> HIDE DEF size
  <2> QED BY <1>4, FS_Interval
<1>10. place \in Surjection(S, 1 .. size)
  <2> HIDE DEF place
  <2> QED BY <1>8, <1>9, FS_Injection
<1>11. \A n \in 1 .. size : \E k \in S : place[k] = n
  <2> HIDE DEF place, size
  <2> QED BY <1>10 DEF Surjection
<1>12. \A k \in S : place[k] = Source!Place(S, k)
  BY <1>1
<1> HIDE DEF upTo, place
<1> QED BY <1>1, <1>4, <1>5, <1>7, <1>11, <1>12

\* The n-th element of the lines S in their order is the line at place n.
LEMMA InOrderElements ==
  ASSUME NEW S, IsFiniteSet(S), S \subseteq Nat, NEW k \in S
  PROVE  /\ Source!Place(S, k) \in DOMAIN Source!InOrder(S)
         /\ Source!InOrder(S)[Source!Place(S, k)] = file[k]
<1> DEFINE n == Source!Place(S, k)
           l == CHOOSE j \in S : Source!Place(S, j) = n
<1>1. n \in 1 .. Cardinality(S)
  BY PlaceProperties
<1>2. l \in S /\ Source!Place(S, l) = n
  OBVIOUS
<1>3. l = k
  <2> HIDE DEF l
  <2> QED BY <1>2, PlaceProperties
<1>4. Source!InOrder(S)
        = [m \in 1 .. Cardinality(S) |-> file[CHOOSE j \in S : Source!Place(S, j) = m]]
  BY SourceCardinality DEF Source!InOrder
<1>5. Source!InOrder(S)[n] = file[l]
  <2>1. \A m \in 1 .. Cardinality(S) :
          Source!InOrder(S)[m] = file[CHOOSE j \in S : Source!Place(S, j) = m]
    BY <1>4
  <2> HIDE DEF n
  <2> QED BY <1>1, <2>1 DEF l
<1> HIDE DEF l, n
<1>6. n \in DOMAIN Source!InOrder(S)
  BY <1>1, <1>4
<1> QED BY <1>3, <1>5, <1>6 DEF n

LEMMA InOrderIsSeq ==
  ASSUME NEW S, IsFiniteSet(S), S \subseteq Nat, NEW V, \A k \in S : file[k] \in V
  PROVE  /\ Source!InOrder(S) \in Seq(V)
         /\ Len(Source!InOrder(S)) = Cardinality(S)
         /\ DOMAIN Source!InOrder(S) = 1 .. Cardinality(S)
<1> DEFINE s == Source!InOrder(S)
           size == Cardinality(S)
<1>1. size \in Nat /\ s = [m \in 1 .. size |-> file[CHOOSE j \in S : Source!Place(S, j) = m]]
  BY PlaceProperties, SourceCardinality DEF Source!InOrder
<1>2. DOMAIN s = 1 .. size
  BY <1>1
<1>3. ASSUME NEW m \in 1 .. size PROVE s[m] \in V
  <2>1. PICK k \in S : Source!Place(S, k) = m
    BY PlaceProperties
  <2>2. s[m] = file[k]
    BY <2>1, InOrderElements
  <2> QED BY <2>1, <2>2
<1>4. s = [m \in 1 .. size |-> s[m]]
  BY <1>1
<1> HIDE DEF s, size
<1>5. s \in [1 .. size -> V]
  BY <1>2, <1>3, <1>4
<1>6. s \in Seq(V)
  BY <1>1, <1>5
<1>7. Len(s) = size
  BY <1>1, <1>2, <1>6, LenProperties
<1> QED BY <1>2, <1>6, <1>7 DEF s, size

\* One more line behind the others is appended to them.
LEMMA InOrderAppend ==
  ASSUME NEW S, IsFiniteSet(S), S \subseteq Nat, NEW l \in Nat, \A k \in S : k < l,
         NEW V, \A k \in S \cup {l} : file[k] \in V
  PROVE  Source!InOrder(S \cup {l}) = Append(Source!InOrder(S), file[l])
<1> DEFINE T == S \cup {l}
           s == Source!InOrder(S)
           t == Source!InOrder(T)
           size == Cardinality(S)
<1>1. /\ IsFiniteSet(T) /\ T \subseteq Nat /\ size \in Nat
      /\ Cardinality(T) = size + 1
  <2>1. l \notin S
    OBVIOUS
  <2>2. IsFiniteSet(T) /\ Cardinality(T) = size + 1
    BY <2>1, FS_AddElement
  <2> QED BY <2>2, FS_CardinalityType
<1>2. /\ s \in Seq(V) /\ Len(s) = size /\ DOMAIN s = 1 .. size
      /\ t \in Seq(V) /\ Len(t) = size + 1 /\ DOMAIN t = 1 .. (size + 1)
  BY <1>1, InOrderIsSeq
<1>3. ASSUME NEW k \in S PROVE Source!Place(T, k) = Source!Place(S, k)
  <2>1. ~ (l <= k)
    OBVIOUS
  <2>2. {j \in T : j <= k} = {j \in S : j <= k}
    BY <2>1
  <2> QED BY <2>2 DEF Source!Place
<1>4. Source!Place(T, l) = size + 1
  <2>1. \A j \in T : j <= l
    OBVIOUS
  <2>2. {j \in T : j <= l} = T
    BY <2>1
  <2> HIDE DEF T
  <2> QED BY <1>1, <2>2, SourceCardinality DEF Source!Place
<1>5. \A m \in 1 .. size : t[m] = s[m]
  <2> TAKE m \in 1 .. size
  <2>1. PICK k \in S : Source!Place(S, k) = m
    BY PlaceProperties
  <2>2. s[m] = file[k]
    BY <2>1, InOrderElements
  <2>3. Source!Place(T, k) = m /\ k \in T
    BY <1>3, <2>1
  <2>4. t[m] = file[k]
    <3> HIDE DEF T
    <3> QED BY <1>1, <2>3, InOrderElements
  <2> QED BY <2>2, <2>4
<1>6. t[size + 1] = file[l]
  <2>1. l \in T
    OBVIOUS
  <2> HIDE DEF T
  <2> QED BY <1>1, <1>4, <2>1, InOrderElements
<1>7. file[l] \in V
  OBVIOUS
<1> HIDE DEF s, t, size, T
<1>8. /\ Append(s, file[l]) \in Seq(V)
      /\ Len(Append(s, file[l])) = size + 1
      /\ \A m \in 1 .. size : Append(s, file[l])[m] = s[m]
      /\ Append(s, file[l])[size + 1] = file[l]
  BY <1>2, <1>7, AppendProperties
<1>9. DOMAIN Append(s, file[l]) = 1 .. (size + 1)
  BY <1>8, LenProperties
<1>10. \A m \in 1 .. (size + 1) : t[m] = Append(s, file[l])[m]
  <2>1. \A m \in 1 .. (size + 1) : m \in 1 .. size \/ m = size + 1
    BY <1>1
  <2> QED BY <1>5, <1>6, <1>8, <2>1
<1>11. t = Append(s, file[l])
  BY <1>2, <1>8, <1>9, <1>10, SeqEqual
<1> QED BY <1>11 DEF s, t, T

-----------------------------------------------------------------------------
(* The first of some tasks *)

LEMMA LeastElement ==
  ASSUME NEW T, IsFiniteSet(T), T \subseteq Nat, T # {}
  PROVE  \E x \in T : \A y \in T : x <= y
<1>1. 1 \in 1 .. Cardinality(T)
  <2>1. Cardinality(T) \in Nat /\ Cardinality(T) # 0
    BY FS_CardinalityType, FS_EmptySet
  <2> QED BY <2>1
<1>2. PICK x \in T : Source!Place(T, x) = 1
  BY <1>1, PlaceProperties
<1>3. ASSUME NEW y \in T, y < x PROVE FALSE
  <2> DEFINE upTo(k) == {j \in T : j <= k}
  <2>1. Source!Place(T, y) = Cardinality(upTo(y)) /\ Source!Place(T, x) = Cardinality(upTo(x))
    BY SourceCardinality DEF Source!Place
  <2>2. upTo(y) \in SUBSET upTo(x) /\ upTo(x) \in SUBSET T
    <3>1. \A j \in T : j \in Nat
      OBVIOUS
    <3>2. \A j \in T : j <= y => j <= x
      BY <1>3, <3>1
    <3> QED BY <3>2
  <2> HIDE DEF upTo
  <2>3. IsFiniteSet(upTo(x)) /\ IsFiniteSet(upTo(y))
    BY <2>2, FS_Subset
  <2>4. Source!Place(T, y) <= 1
    BY <1>2, <2>1, <2>2, <2>3, FS_Subset
  <2>5. Source!Place(T, y) \in 1 .. Cardinality(T) /\ Cardinality(T) \in Nat
    BY PlaceProperties
  <2>6. Source!Place(T, y) = Source!Place(T, x)
    <3> DEFINE p == Source!Place(T, y)
    <3>1. p <= 1 /\ p \in 1 .. Cardinality(T) /\ Cardinality(T) \in Nat
      BY <2>4, <2>5
    <3> HIDE DEF p
    <3>2. p = 1
      BY <3>1
    <3> QED BY <1>2, <3>2 DEF p
  <2>7. y = x
    BY <2>6, PlaceProperties
  <2> QED BY <1>3, <2>7
<1>4. \A y \in T : x <= y
  <2>1. \A y \in T : y \in Nat /\ x \in Nat
    OBVIOUS
  <2> QED BY <1>3, <2>1
<1> QED BY <1>4

LEMMA TasksFinite ==
  ASSUME file \in Files
  PROVE  IsFiniteSet(Source!Tasks) /\ Source!Tasks \subseteq Nat \ {0}
<1> DEFINE subs == {k \in DOMAIN file : file[k].kind = "sub"}
           name == [k \in subs |-> file[k].name]
<1>1. IsFiniteSet(subs)
  <2>1. Len(file) \in Nat /\ DOMAIN file = 1 .. Len(file)
    BY FileLines
  <2>2. IsFiniteSet(1 .. Len(file))
    BY <2>1, FS_Interval
  <2>3. subs \in SUBSET (1 .. Len(file))
    BY <2>1
  <2> HIDE DEF subs
  <2> QED BY <2>2, <2>3, FS_Subset
<1>2. Source!Tasks = {file[k].name : k \in subs}
  BY DEF Source!Tasks
<1>3. name \in Surjection(subs, Source!Tasks)
  <2>1. name \in [subs -> Source!Tasks]
    BY <1>2
  <2>2. \A t \in Source!Tasks : \E k \in subs : name[k] = t
    BY <1>2
  <2> HIDE DEF name, subs
  <2> QED BY <2>1, <2>2 DEF Surjection
<1>4. IsFiniteSet(Source!Tasks)
  <2> HIDE DEF name, subs
  <2> QED BY <1>1, <1>3, FS_Surjection
<1>5. Source!Tasks \subseteq Nat \ {0}
  BY <1>2, FileAssumption
<1> QED BY <1>4, <1>5

\* The first of some tasks is one of them; it is 0 if there are none.
LEMMA FirstIn ==
  ASSUME file \in Files, NEW T, T \subseteq Source!Tasks
  PROVE  /\ T = {} => Source!First(T) = 0
         /\ T # {} => Source!First(T) \in T
<1>1. IsFiniteSet(T) /\ T \subseteq Nat
  BY TasksFinite, FS_Subset
<1>2. T # {} => \E x \in T : \A y \in T : x <= y
  BY <1>1, LeastElement
<1> QED BY <1>2 DEF Source!First

-----------------------------------------------------------------------------
(* The lines of the tasks *)

\* The lines to be pushed of task t among the first n.
Taken(t, n) == {k \in Untyped(t) : k <= n}

\* A line that is pushed.
Pushed == Line.kind # "blank" /\ ~ Line.typed

\* While the file is read, the tasks begun so far have the lines pushed so
\* far; when the program is written, every task has all of them.
TasksInv ==
  /\ phase = "parse" =>
       /\ DOMAIN tasks \subseteq Source!Tasks \cup {NO_TASK}
       /\ \A t \in Source!Tasks :
            /\ t \in DOMAIN tasks <=> Source!Opens(t) <= read
            /\ t \in DOMAIN tasks => tasks[t] = Source!InOrder(Taken(t, read))
  /\ Running =>
       /\ DOMAIN tasks = Source!Tasks
       /\ \A t \in Source!Tasks : tasks[t] = Source!InOrder(Untyped(t))

LEMMA SourceStays ==
  ASSUME file' = file
  PROVE  /\ Source!Tasks' = Source!Tasks
         /\ \A t : /\ Source!Opens(t)' = Source!Opens(t)
                   /\ Source!Body(t)' = Source!Body(t)
                   /\ Untyped(t)' = Untyped(t)
                   /\ Recognised(t)' <=> Recognised(t)
                   /\ \A n : Taken(t, n)' = Taken(t, n)
         /\ \A S : Source!InOrder(S)' = Source!InOrder(S)
<1>1. Source!Tasks' = Source!Tasks
  BY DEF Source!Tasks
<1>2. \A t : Source!Opens(t)' = Source!Opens(t) /\ Source!Closes(t)' = Source!Closes(t)
  BY DEF Source!Opens, Source!Closes
<1>3. \A t : Source!StatementLines(t)' = Source!StatementLines(t)
  BY <1>2 DEF Source!StatementLines, Source!Lines
<1>4. \A S : Source!InOrder(S)' = Source!InOrder(S)
  BY DEF Source!InOrder
<1>5. \A t : Source!Body(t)' = Source!Body(t)
  BY <1>3, <1>4 DEF Source!Body
<1>6. \A t : Source!Lines(t)' = Source!Lines(t)
  BY <1>2 DEF Source!Lines
<1>7. \A t : Untyped(t)' = Untyped(t) /\ (Recognised(t)' <=> Recognised(t))
  BY <1>6 DEF Untyped, Recognised
<1>8. \A t, n : Taken(t, n)' = Taken(t, n)
  BY <1>7 DEF Taken
<1> QED BY <1>1, <1>2, <1>4, <1>5, <1>7, <1>8

\* The lines taken are lines of the file, and none is beyond n.
LEMMA TakenLines ==
  ASSUME file \in Files, NEW t \in Source!Tasks, NEW n \in Nat
  PROVE  /\ IsFiniteSet(Taken(t, n)) /\ Taken(t, n) \subseteq Nat
         /\ \A k \in Taken(t, n) : k \in DOMAIN file /\ k <= n
<1>1. Source!Lines(t) \subseteq DOMAIN file
  BY TaskShape, FileLines DEF Source!Lines
<1>2. Taken(t, n) \subseteq DOMAIN file /\ \A k \in Taken(t, n) : k <= n
  BY <1>1 DEF Taken, Untyped
<1>3. DOMAIN file = 1 .. Len(file) /\ Len(file) \in Nat
  BY FileLines
<1>4. IsFiniteSet(1 .. Len(file))
  BY <1>3, FS_Interval
<1>5. Taken(t, n) \in SUBSET (1 .. Len(file))
  BY <1>2, <1>3
<1>6. IsFiniteSet(Taken(t, n))
  BY <1>4, <1>5, FS_Subset
<1> QED BY <1>2, <1>3, <1>6

\* The next line adds to the lines of a task if it is pushed there.
LEMMA TakenNext ==
  ASSUME ParseInv, read < Len(file), NEW t \in Source!Tasks
  PROVE  Taken(t, read + 1) =
           Taken(t, read) \cup
             IF Pushed /\ read + 1 \in Source!Lines(t)
             THEN {read + 1} ELSE {}
<1>1. \A k \in Source!Lines(t) : k \in Nat
  BY TaskShape, FileLines DEF ParseInv, Source!Lines
<1>2. \A k \in Source!Lines(t) : k <= read + 1 <=> k <= read \/ k = read + 1
  BY <1>1, TypeOfRead
<1>3. read + 1 <= read + 1
  BY TypeOfRead
<1> QED BY <1>2, <1>3 DEF Taken, Untyped, Pushed, Line

\* A line that is not pushed to a task, and opens none, leaves them all.
LEMMA TasksKept ==
  ASSUME ParseInv, TasksInv, phase = "parse", read < Len(file), Line.kind # "sub",
         file' = file, read' = read + 1,
         NEW t \in Source!Tasks,
         t \in DOMAIN tasks' <=> t \in DOMAIN tasks,
         t \in DOMAIN tasks => tasks'[t] = tasks[t],
         ~ (Pushed /\ read + 1 \in Source!Lines(t))
  PROVE  /\ t \in DOMAIN tasks' <=> Source!Opens(t) <= read'
         /\ t \in DOMAIN tasks' => tasks'[t] = Source!InOrder(Taken(t, read'))
<1>1. read + 1 # Source!Opens(t)
  BY TaskShape DEF ParseInv, Line
<1>2. Source!Opens(t) \in Nat /\ read \in Nat
  BY TaskShape, FileLines, TypeOfRead DEF ParseInv
<1>3. Source!Opens(t) <= read + 1 <=> Source!Opens(t) <= read
  BY <1>1, <1>2
<1>4. Taken(t, read + 1) = Taken(t, read)
  BY TakenNext
<1> QED BY <1>3, <1>4 DEF TasksInv

LEMMA StartOfSubTasks == ASSUME ParseInv, TasksInv, StartOfSub PROVE TasksInv'
<1> DEFINE u == Line.name
<1>1. /\ phase = "parse" /\ phase' = "parse" /\ read < Len(file) /\ read' = read + 1
      /\ file' = file /\ Line.kind = "sub" /\ tasks' = Entry(tasks, u, << >>)
  BY DEF StartOfSub, Reading
<1>2. read + 1 \in DOMAIN file /\ read \in Nat
  BY <1>1, TypeOfRead, FileLines DEF ParseInv
<1>3. u \in Source!Tasks /\ Source!Opens(u) = read + 1
  BY <1>1, <1>2, OpensUnique DEF ParseInv, Line
<1>4. /\ DOMAIN tasks' = DOMAIN tasks \cup {u} /\ tasks'[u] = << >>
      /\ \A t \in DOMAIN tasks : t # u => tasks'[t] = tasks[t]
  BY <1>1 DEF Entry
<1>5. tasks'[u] = Source!InOrder(Taken(u, read + 1))
  <2>1. Taken(u, read + 1) = {}
    <3>1. \A k \in Source!Lines(u) : ~ (k <= read + 1)
      BY <1>2, <1>3, TaskShape, FileLines DEF ParseInv, Source!Lines
    <3> QED BY <3>1 DEF Taken, Untyped
  <2>2. /\ IsFiniteSet({}) /\ Cardinality({}) = 0
    BY FS_EmptySet
  <2>3. Source!InOrder({}) \in Seq({}) /\ Len(Source!InOrder({})) = 0
    BY <2>2, InOrderIsSeq
  <2>4. Source!InOrder({}) = << >>
    BY <2>3, EmptySeq
  <2> QED BY <1>4, <2>1, <2>4
<1>6. ASSUME NEW t \in Source!Tasks, t # u
      PROVE  /\ t \in DOMAIN tasks' <=> Source!Opens(t) <= read + 1
             /\ t \in DOMAIN tasks' => tasks'[t] = Source!InOrder(Taken(t, read + 1))
  <2>1. Source!Opens(t) # read + 1
    BY <1>1, <1>2, <1>6, TaskShape DEF ParseInv, Line
  <2>2. Source!Opens(t) \in Nat
    BY TaskShape, FileLines DEF ParseInv
  <2>3. Source!Opens(t) <= read + 1 <=> Source!Opens(t) <= read
    BY <1>2, <2>1, <2>2
  <2>4. Taken(t, read + 1) = Taken(t, read)
    <3>1. read + 1 \notin Source!Lines(t)
      BY <1>1, TaskShape DEF ParseInv, Source!Lines, Line
    <3> QED BY <1>1, <3>1, TakenNext
  <2> QED BY <1>1, <1>4, <1>6, <2>3, <2>4 DEF TasksInv
<1>7. Source!Opens(u) <= read + 1
  BY <1>2, <1>3
<1> HIDE DEF u
<1>8. DOMAIN tasks' \subseteq Source!Tasks \cup {NO_TASK}
  BY <1>1, <1>3, <1>4 DEF TasksInv
<1>9. \A t \in Source!Tasks :
        /\ t \in DOMAIN tasks' <=> Source!Opens(t) <= read + 1
        /\ t \in DOMAIN tasks' => tasks'[t] = Source!InOrder(Taken(t, read + 1))
  BY <1>4, <1>5, <1>6, <1>7
<1> QED BY <1>1, <1>8, <1>9, SourceStays DEF TasksInv, Running

LEMMA NotPushedTasks ==
  ASSUME ParseInv, TasksInv, EndOfSub \/ Declaration PROVE TasksInv'
<1>1. /\ phase = "parse" /\ phase' \in {"parse", "died"}
      /\ read < Len(file) /\ read' = read + 1
      /\ file' = file /\ Line.kind # "sub" /\ (Line.kind = "end" \/ Line.typed)
      /\ tasks' = tasks
  BY DEF EndOfSub, Declaration, TypeLine, Reading
<1>2. \A t \in Source!Tasks : ~ (Pushed /\ read + 1 \in Source!Lines(t))
  BY <1>1, TaskShape DEF ParseInv, Pushed, Source!Lines, Line
<1>3. \A t \in Source!Tasks :
        /\ t \in DOMAIN tasks' <=> Source!Opens(t) <= read'
        /\ t \in DOMAIN tasks' => tasks'[t] = Source!InOrder(Taken(t, read'))
  BY <1>1, <1>2, TasksKept
<1>4. DOMAIN tasks' \subseteq Source!Tasks \cup {NO_TASK}
  BY <1>1 DEF TasksInv
<1> QED BY <1>1, <1>3, <1>4, SourceStays DEF TasksInv, Running

LEMMA OtherLineTasks == ASSUME ParseInv, TasksInv, OtherLine PROVE TasksInv'
<1> DEFINE c == current_task
           before == IF c \in DOMAIN tasks THEN tasks[c] ELSE << >>
<1>1. /\ phase = "parse" /\ phase' = "parse" /\ read < Len(file) /\ read' = read + 1
      /\ file' = file /\ Line.kind \notin {"sub", "end"}
      /\ Line.typed => c = NO_TASK
      /\ tasks' = IF Line.kind = "blank" THEN tasks
                  ELSE Entry(tasks, c, Append(before, Line))
  BY DEF OtherLine, Reading
<1>2. read + 1 \in DOMAIN file /\ read \in Nat
  BY <1>1, TypeOfRead, FileLines DEF ParseInv
<1>3. /\ c \in Source!Tasks \cup {NO_TASK}
      /\ \A t \in Source!Tasks : read + 1 \in Source!Lines(t) <=> c = t
      /\ \A t \in Source!Tasks : t # NO_TASK
  <2>1. \A t \in Source!Tasks : read + 1 \in Source!Lines(t) <=> c = t
    BY <1>1, WithinTask
  <2>2. c \in Source!Tasks \cup {NO_TASK}
    BY <1>1 DEF ParseInv, ReadInv
  <2>3. \A t \in Source!Tasks : t # NO_TASK
    BY TaskShape DEF ParseInv
  <2> QED BY <2>1, <2>2, <2>3
<1>4. Pushed <=> Line.kind # "blank" /\ ~ Line.typed
  BY DEF Pushed
<1>5. /\ DOMAIN tasks' = DOMAIN tasks \/ DOMAIN tasks' = DOMAIN tasks \cup {c}
      /\ \A t \in DOMAIN tasks : t # c => tasks'[t] = tasks[t]
  BY <1>1 DEF Entry
<1>6. ASSUME NEW t \in Source!Tasks, ~ (Pushed /\ c = t)
      PROVE  /\ t \in DOMAIN tasks' <=> Source!Opens(t) <= read'
             /\ t \in DOMAIN tasks' => tasks'[t] = Source!InOrder(Taken(t, read'))
  <2>1. /\ t \in DOMAIN tasks' <=> t \in DOMAIN tasks
        /\ t \in DOMAIN tasks => tasks'[t] = tasks[t]
    <3>1. CASE c = t
      <4>1. Line.kind = "blank"
        BY <1>1, <1>3, <1>4, <1>6, <3>1
      <4> QED BY <1>1, <4>1
    <3>2. CASE c # t
      BY <1>5, <3>2
    <3> QED BY <3>1, <3>2
  <2>2. Line.kind # "sub" /\ ~ (Pushed /\ read + 1 \in Source!Lines(t))
    BY <1>1, <1>3, <1>6
  <2> QED BY <1>1, <2>1, <2>2, TasksKept
<1>7. ASSUME c \in Source!Tasks, Pushed
      PROVE  /\ c \in DOMAIN tasks' <=> Source!Opens(c) <= read'
             /\ c \in DOMAIN tasks' => tasks'[c] = Source!InOrder(Taken(c, read'))
  <2>1. Source!Opens(c) <= read /\ Source!Opens(c) <= read + 1 /\ Source!Opens(c) \in Nat
    <3>1. In(c, read)
      BY <1>1, <1>7 DEF ParseInv, ReadInv
    <3>2. Source!Opens(c) \in Nat
      BY <1>7, TaskShape, FileLines DEF ParseInv
    <3> QED BY <1>2, <3>1, <3>2 DEF In
  <2>2. c \in DOMAIN tasks /\ tasks[c] = Source!InOrder(Taken(c, read))
    BY <1>1, <1>7, <2>1 DEF TasksInv
  <2>3. c \in DOMAIN tasks' /\ tasks'[c] = Append(tasks[c], Line)
    <3>1. Line.kind # "blank"
      BY <1>4, <1>7
    <3> QED BY <1>1, <2>2, <3>1 DEF Entry
  <2>4. Taken(c, read + 1) = Taken(c, read) \cup {read + 1}
    BY <1>1, <1>3, <1>7, TakenNext
  <2> DEFINE V == {file[k] : k \in DOMAIN file}
             S == Taken(c, read)
  <2>5. /\ IsFiniteSet(S) /\ S \subseteq Nat
        /\ \A k \in S : k \in DOMAIN file /\ k <= read
    BY <1>2, <1>7, TakenLines DEF ParseInv
  <2>6. /\ \A k \in S \cup {read + 1} : file[k] \in V
        /\ \A k \in S : k < read + 1
    <3> HIDE DEF S
    <3>1. \A k \in S : k < read + 1
      BY <1>2, <2>5
    <3> QED BY <1>2, <2>5, <3>1
  <2> HIDE DEF V, S
  <2>7. Source!InOrder(S \cup {read + 1}) = Append(Source!InOrder(S), file[read + 1])
    <3> DEFINE l == read + 1
    <3>1. l \in Nat /\ (\A k \in S : k < l) /\ \A k \in S \cup {l} : file[k] \in V
      BY <1>2, <2>6
    <3>2. Source!InOrder(S \cup {l}) = Append(Source!InOrder(S), file[l])
      <4> HIDE DEF l
      <4> QED BY <2>5, <3>1, InOrderAppend
    <3> QED BY <3>2
  <2> QED BY <1>1, <2>1, <2>2, <2>3, <2>4, <2>7 DEF S, Line
<1>8. \A t \in Source!Tasks :
        /\ t \in DOMAIN tasks' <=> Source!Opens(t) <= read'
        /\ t \in DOMAIN tasks' => tasks'[t] = Source!InOrder(Taken(t, read'))
  BY <1>6, <1>7
<1>9. DOMAIN tasks' \subseteq Source!Tasks \cup {NO_TASK}
  BY <1>1, <1>3, <1>5 DEF TasksInv
<1> QED BY <1>1, <1>8, <1>9, SourceStays DEF TasksInv, Running

LEMMA GenerateTasks == ASSUME ParseInv, TasksInv, Generate PROVE TasksInv'
<1>1. phase = "parse" /\ read = Len(file) /\ file' = file /\ phase' # "parse"
  BY DEF Generate
<1>2. CASE phase' = "died"
  BY <1>1, <1>2 DEF TasksInv, Running
<1>3. CASE phase' # "died"
  <2>1. tasks' = [t \in Names |-> tasks[t]]
    BY <1>3 DEF Generate
  <2>2. ASSUME NEW t \in Source!Tasks
        PROVE  t \in DOMAIN tasks /\ t # NO_TASK /\ tasks[t] = Source!InOrder(Untyped(t))
    <3>1. /\ Source!Opens(t) <= Len(file) /\ t # NO_TASK
          /\ \A k \in Source!Lines(t) : k <= Len(file)
      BY TaskShape, FileLines DEF ParseInv, Source!Lines
    <3>2. Taken(t, read) = Untyped(t)
      BY <1>1, <3>1 DEF Taken, Untyped
    <3> QED BY <1>1, <3>1, <3>2 DEF TasksInv
  <2>3. Names = Source!Tasks
    BY <1>1, <2>2 DEF TasksInv, Names
  <2> QED BY <1>1, <2>1, <2>2, <2>3, SourceStays DEF TasksInv
<1> QED BY <1>2, <1>3

LEMMA InvTasksStep == ParseInv /\ TasksInv /\ [Next]_vars => TasksInv'
<1> SUFFICES ASSUME ParseInv, TasksInv, [Next]_vars PROVE TasksInv'
  OBVIOUS
<1>1. CASE StartOfSub \/ EndOfSub \/ Declaration \/ OtherLine
  BY <1>1, StartOfSubTasks, NotPushedTasks, OtherLineTasks
<1>2. CASE Generate
  BY <1>2, GenerateTasks
<1>3. CASE CallLine \/ CallBeyond \/ EndOfTask
  <2>1. Running /\ phase' # "parse" /\ file' = file /\ tasks' = tasks
    BY <1>3 DEF CallLine, CallBeyond, EndOfTask, scriptVars, Running
  <2> QED BY <2>1, SourceStays DEF TasksInv
<1>4. CASE UNCHANGED vars
  <2>1. UNCHANGED <<file, phase, read, tasks>>
    BY <1>4 DEF vars, scriptVars
  <2> QED BY <2>1, SourceStays DEF TasksInv, Running
<1> QED BY <1>1, <1>2, <1>3, <1>4 DEF Next

LEMMA InitTasks == Init => TasksInv
<1> SUFFICES ASSUME Init PROVE TasksInv
  OBVIOUS
<1>1. file \in Files /\ phase = "parse" /\ read = 0 /\ tasks = << >>
  BY DEF Init
<1>2. \A t \in Source!Tasks : ~ (Source!Opens(t) <= 0)
  BY <1>1, TaskShape, FileLines
<1>3. DOMAIN tasks = {}
  BY <1>1
<1> QED BY <1>1, <1>2, <1>3 DEF TasksInv, Running

\* For every input: when a program is written, each task has the lines of its
\* body that are neither blank nor matched by the type pattern, in their order,
\* and there are no other tasks.
THEOREM TasksExactAlways == Spec => []TasksExact
<1>1. Spec => [](ParseInv /\ TasksInv)
  BY InitInv, InvStep, InitTasks, InvTasksStep, PTL DEF Spec
<1>2. ParseInv /\ TasksInv => TasksExact
  <2>1. ParseInv => \A t \in Source!Tasks : t # NO_TASK
    BY TaskShape DEF ParseInv
  <2> QED BY <2>1 DEF TasksInv, TasksExact, Names
<1> QED BY <1>1, <1>2, PTL

-----------------------------------------------------------------------------
(* The run of the program *)

\* Main is at a task of the source, and at the end of one only behind its last
\* statement.  For a regular input, pc is that of a statement before each call.
RunInv ==
  /\ phase = "parse" => task = Source!First(Source!Tasks) /\ pc = 0
  /\ phase \in {"call", "end"} => task \in Source!Tasks
  /\ phase = "end" => pc = NINSTRS
  /\ Regular =>
       /\ phase # "wild"
       /\ phase = "call" => pc \in Nat /\ pc < NINSTRS

\* If the type pattern matches just the declarations, the statements are pushed.
LEMMA RecognisedLines ==
  ASSUME file \in Files, NEW t \in Source!Tasks, Recognised(t)
  PROVE  Untyped(t) = Source!StatementLines(t)
<1>1. ASSUME NEW k \in Source!Lines(t)
      PROVE  file[k].kind \in {"decl", "blank", "plain", "goto", "if"}
  <2>1. k \in DOMAIN file /\ file[k].kind \notin {"sub", "end"}
    BY TaskShape, FileLines DEF Source!Lines
  <2> QED BY <2>1, FileAssumption
<1> QED BY <1>1 DEF Recognised, Untyped, Source!StatementLines, Source!Statements

LEMMA TaskIsBody ==
  ASSUME ParseInv, TasksInv, Running, Regular, NEW t \in Source!Tasks
  PROVE  tasks[t] = Source!Body(t)
<1>1. Untyped(t) = Source!StatementLines(t)
  BY RecognisedLines DEF ParseInv, Regular
<1> QED BY <1>1 DEF TasksInv, Source!Body

\* A body is a sequence of statements.
LEMMA BodyStatements ==
  ASSUME file \in Files, NEW t \in Source!Tasks
  PROVE  /\ Len(Source!Body(t)) \in Nat
         /\ DOMAIN Source!Body(t) = 1 .. Len(Source!Body(t))
         /\ \A k \in DOMAIN Source!Body(t) : Source!Body(t)[k].kind \in Source!Statements
         /\ Source!Body(t) # << >> => Len(Source!Body(t)) # 0
<1> DEFINE S == Source!StatementLines(t)
           V == {file[k] : k \in S}
           s == Source!InOrder(S)
<1>1. IsFiniteSet(S) /\ S \subseteq Nat
  <2>1. Len(file) \in Nat /\ S \in SUBSET (1 .. Len(file))
    BY TaskShape, FileLines DEF Source!Lines, Source!StatementLines
  <2> HIDE DEF S
  <2>2. IsFiniteSet(1 .. Len(file))
    BY <2>1, FS_Interval
  <2>3. IsFiniteSet(S)
    BY <2>1, <2>2, FS_Subset
  <2> QED BY <2>1, <2>3
<1>2. \A k \in S : file[k] \in V
  OBVIOUS
<1>3. \A v \in V : v.kind \in Source!Statements
  BY DEF Source!StatementLines
<1> HIDE DEF S, V
<1>4. s \in Seq(V) /\ Len(s) = Cardinality(S) /\ DOMAIN s = 1 .. Cardinality(S)
  BY <1>1, <1>2, InOrderIsSeq
<1>5. Source!Body(t) = s
  BY DEF Source!Body, S
<1> HIDE DEF s
<1>6. Len(s) \in Nat /\ DOMAIN s = 1 .. Len(s) /\ \A k \in DOMAIN s : s[k] \in V
  BY <1>1, <1>4, FS_CardinalityType
<1>7. s # << >> => Len(s) # 0
  BY <1>4, EmptySeq
<1> QED BY <1>3, <1>5, <1>6, <1>7

\* The number of the line of sequence s that carries the label.
PositionIn(s, label) == (CHOOSE k \in DOMAIN s : s[k].label = label) - 1

\* For a regular input the subroutine of a statement sets pc to the number of
\* a statement that the source can execute next, or behind the last one.
LEMMA PcIsSuccessor ==
  ASSUME ParseInv, TasksInv, Running, Regular, NEW t \in Source!Tasks,
         NEW n \in Nat, n < Len(tasks[t])
  PROVE  /\ PcAfter(t, n) = Source!Successors(t, n)
         /\ \A next \in PcAfter(t, n) : next \in 0 .. Len(tasks[t])
<1> DEFINE s == tasks[t]
           size == Len(s)
           l == s[n + 1]
           jump == PositionIn(s, l.target)
<1>1. s = Source!Body(t)
  BY TaskIsBody
<1>2. /\ size \in Nat /\ DOMAIN s = 1 .. size
      /\ \A k \in DOMAIN s : s[k].kind \in Source!Statements
  BY <1>1, BodyStatements DEF ParseInv
<1>3. n + 1 \in DOMAIN s
  <2>1. n < size
    OBVIOUS
  <2> HIDE DEF s, size
  <2> QED BY <1>2, <2>1
<1>4. l.kind \in {"plain", "goto", "if"}
  BY <1>2, <1>3 DEF Source!Statements
<1>5. l.kind = "plain" => l.label = NoLabel
  BY <1>1, <1>3 DEF Regular
<1>6. l.kind # "plain" => jump \in 0 .. size
  <2>1. l.kind # "plain" => \E j \in DOMAIN s : s[j].label = l.target
    BY <1>1, <1>3 DEF Regular, JumpsDefined
  <2> DEFINE j == CHOOSE j \in DOMAIN s : s[j].label = l.target
  <2>2. l.kind # "plain" => j \in DOMAIN s
    BY <2>1
  <2>3. jump = j - 1
    BY DEF PositionIn
  <2> HIDE DEF j, s, l, jump, size
  <2> QED BY <1>2, <2>2, <2>3
<1>7. PcAfter(t, n) = CASE l.kind = "goto" -> {jump}
                        [] l.kind = "if"   -> {jump, n + 1}
                        [] OTHER           -> {IF l.label # NoLabel THEN n + 2 ELSE n + 1}
  BY DEF PcAfter, LineNumber, PositionIn
<1>8. Source!Successors(t, n)
        = (IF l.kind \in {"goto", "if"} THEN {jump} ELSE {})
            \cup (IF l.kind \in {"plain", "if"} THEN {n + 1} ELSE {})
  BY <1>1 DEF Source!Successors, Source!Position, PositionIn
<1> HIDE DEF s, l, jump
<1>9. n + 1 \in 0 .. size
  BY <1>2, <1>3
<1> HIDE DEF size
<1>10. CASE l.kind = "plain"
  <2>1. PcAfter(t, n) = {n + 1}
    BY <1>5, <1>7, <1>10
  <2> QED BY <1>8, <1>9, <1>10, <2>1 DEF size, s
<1>11. CASE l.kind = "goto"
  <2>1. PcAfter(t, n) = {jump} /\ Source!Successors(t, n) = {jump}
    BY <1>7, <1>8, <1>11
  <2> QED BY <1>6, <1>11, <2>1 DEF size, s
<1>12. CASE l.kind = "if"
  <2>1. PcAfter(t, n) = {jump, n + 1} /\ Source!Successors(t, n) = {jump, n + 1}
    BY <1>7, <1>8, <1>12
  <2> QED BY <1>6, <1>9, <1>12, <2>1 DEF size, s
<1> QED BY <1>4, <1>10, <1>11, <1>12

LEMMA RegularStays == ASSUME file' = file PROVE Regular' <=> Regular
<1>1. Source!Tasks' = Source!Tasks /\ \A t : Source!Body(t)' = Source!Body(t)
  BY SourceStays
<1>2. JumpsDefined' <=> JumpsDefined
  BY <1>1 DEF JumpsDefined
<1>3. \A t : Recognised(t)' <=> Recognised(t)
  BY SourceStays
<1> QED BY <1>1, <1>2, <1>3 DEF Regular

\* At the first statement of a task.
LEMMA TaskBegins ==
  ASSUME ParseInv, Regular, NEW t \in Source!Tasks
  PROVE  0 < Len(Source!Body(t))
<1>1. Len(Source!Body(t)) \in Nat /\ Len(Source!Body(t)) # 0
  BY BodyStatements DEF ParseInv, Regular
<1> DEFINE size == Len(Source!Body(t))
<1> HIDE DEF size
<1>2. size \in Nat /\ size # 0
  BY <1>1 DEF size
<1>3. 0 < size
  BY <1>2
<1> QED BY <1>3 DEF size

LEMMA InitRun == Init => RunInv
BY DEF Init, RunInv

LEMMA ReadingRun ==
  ASSUME RunInv, StartOfSub \/ EndOfSub \/ Declaration \/ OtherLine
  PROVE  RunInv'
<1>1. /\ phase = "parse" /\ phase' \in {"parse", "died"}
      /\ UNCHANGED <<file, task, pc>>
  BY DEF StartOfSub, EndOfSub, Declaration, TypeLine, OtherLine, Reading
<1>2. Source!First(Source!Tasks)' = Source!First(Source!Tasks)
  BY <1>1, SourceStays DEF Source!First
<1> QED BY <1>1, <1>2 DEF RunInv

LEMMA GenerateRun ==
  ASSUME ParseInv, TasksInv, RunInv, Generate
  PROVE  RunInv'
<1>1. /\ phase = "parse" /\ UNCHANGED <<file, task, pc>>
      /\ phase' \in {"died", "done", "call"}
      /\ phase' = "call" => Names # {} /\ tasks' = [t \in Names |-> tasks[t]]
  BY DEF Generate
<1>2. CASE phase' = "call"
  <2>1. /\ DOMAIN tasks' = Source!Tasks
        /\ Regular => \A t \in Source!Tasks : tasks'[t] = Source!Body(t)
    <3>1. TasksInv' /\ ParseInv'
      BY GenerateTasks, RunStep
    <3>2. Running'
      BY <1>2 DEF Running
    <3>3. DOMAIN tasks' = Source!Tasks
      BY <1>1, <3>1, <3>2, SourceStays DEF TasksInv
    <3>4. \A t \in Source!Tasks : tasks'[t] = Source!InOrder(Untyped(t))
      BY <1>1, <3>1, <3>2, SourceStays DEF TasksInv
    <3>5. \A t \in Source!Tasks : Recognised(t) => Untyped(t) = Source!StatementLines(t)
      BY RecognisedLines DEF ParseInv
    <3> QED BY <3>3, <3>4, <3>5 DEF Source!Body, Regular
  <2>2. Source!Tasks # {}
    BY <1>1, <1>2, <2>1
  <2>3. task = Source!First(Source!Tasks) /\ pc = 0
    BY <1>1 DEF RunInv
  <2>4. task \in Source!Tasks
    BY <2>2, <2>3, FirstIn DEF ParseInv
  <2>5. Regular => 0 < Len(tasks'[task])
    BY <2>1, <2>4, TaskBegins
  <2> QED BY <1>1, <1>2, <2>3, <2>4, <2>5, SourceStays, RegularStays DEF RunInv, NINSTRS
<1>3. CASE phase' # "call"
  BY <1>1, <1>3 DEF RunInv
<1> QED BY <1>2, <1>3

LEMMA CallLineRun ==
  ASSUME ParseInv, TasksInv, RunInv, CallLine
  PROVE  RunInv'
<1>1. /\ phase = "call" /\ Running /\ task' = task /\ tasks' = tasks /\ file' = file
      /\ pc < NINSTRS /\ pc' \in PcAfter(task, pc)
      /\ phase' = IF pc' = NINSTRS THEN "end" ELSE "call"
  BY DEF CallLine, scriptVars, Running
<1>2. task \in Source!Tasks
  BY <1>1 DEF RunInv
<1>3. NINSTRS' = NINSTRS
  BY <1>1 DEF NINSTRS
<1>4. ASSUME Regular, phase' = "call" PROVE pc' \in Nat /\ pc' < NINSTRS
  <2>1. pc \in Nat /\ pc < Len(tasks[task])
    BY <1>1, <1>4 DEF RunInv, NINSTRS
  <2>2. pc' \in 0 .. NINSTRS /\ pc' # NINSTRS
    BY <1>1, <1>2, <1>4, <2>1, PcIsSuccessor DEF NINSTRS
  <2>3. NINSTRS \in Nat
    BY <1>1, <1>2, <1>4, BodyStatements, TaskIsBody DEF ParseInv, NINSTRS
  <2> QED BY <2>2, <2>3
<1> QED BY <1>1, <1>2, <1>3, <1>4, SourceStays, RegularStays DEF RunInv

LEMMA CallBeyondRun ==
  ASSUME ParseInv, TasksInv, RunInv, CallBeyond
  PROVE  RunInv'
<1>1. /\ phase = "call" /\ phase' = "wild" /\ Running /\ pc >= NINSTRS /\ file' = file
  BY DEF CallBeyond, scriptVars, Running
<1>2. ~ Regular
  <2> SUFFICES ASSUME Regular PROVE FALSE
    OBVIOUS
  <2>1. pc \in Nat /\ pc < NINSTRS /\ task \in Source!Tasks
    BY <1>1 DEF RunInv
  <2>2. NINSTRS \in Nat
    BY <1>1, <2>1, BodyStatements, TaskIsBody DEF ParseInv, NINSTRS
  <2> QED BY <1>1, <2>1, <2>2
<1> QED BY <1>1, <1>2, RegularStays DEF RunInv

LEMMA EndOfTaskRun ==
  ASSUME ParseInv, TasksInv, RunInv, EndOfTask
  PROVE  RunInv'
<1> DEFINE later == {t \in Names : t > task}
<1>1. /\ phase = "end" /\ Running /\ file' = file /\ tasks' = tasks /\ pc' = 0
      /\ task' = Source!First(later)
      /\ phase' = IF task' = 0 THEN "done" ELSE "call"
  BY DEF EndOfTask, scriptVars, Running
<1>2. CASE phase' = "call"
  <2>1. later \subseteq Source!Tasks
    BY <1>1 DEF TasksInv, Names
  <2>2. task' # 0
    BY <1>1, <1>2
  <2> HIDE DEF later
  <2>3. task' \in Source!Tasks
    BY <1>1, <2>1, <2>2, FirstIn DEF ParseInv
  <2>4. Regular => 0 < Len(tasks[task'])
    <3>1. Regular => tasks[task'] = Source!Body(task')
      BY <1>1, <2>3, TaskIsBody
    <3> QED BY <2>3, <3>1, TaskBegins
  <2> QED BY <1>1, <1>2, <2>3, <2>4, SourceStays, RegularStays DEF RunInv, NINSTRS
<1>3. CASE phase' = "done"
  BY <1>3 DEF RunInv
<1> QED BY <1>1, <1>2, <1>3

LEMMA InvRunStep == ParseInv /\ TasksInv /\ RunInv /\ [Next]_vars => RunInv'
<1> SUFFICES ASSUME ParseInv, TasksInv, RunInv, [Next]_vars PROVE RunInv'
  OBVIOUS
<1>1. CASE Next
  BY <1>1, ReadingRun, GenerateRun, CallLineRun, CallBeyondRun, EndOfTaskRun DEF Next
<1>2. CASE UNCHANGED vars
  <2>1. UNCHANGED <<file, phase, tasks, task, pc>>
    BY <1>2 DEF vars, scriptVars
  <2>2. Source!First(Source!Tasks)' = Source!First(Source!Tasks) /\ NINSTRS' = NINSTRS
    BY <2>1, SourceStays DEF Source!First, NINSTRS
  <2> QED BY <2>1, <2>2, SourceStays, RegularStays DEF RunInv
<1> QED BY <1>1, <1>2

LineInv == ParseInv /\ TasksInv /\ RunInv

\* The invariant from which the theorems on the program that is written follow.
THEOREM LineInvariant == Spec => []LineInv
<1>1. Init => LineInv
  BY InitInv, InitTasks, InitRun DEF LineInv
<1>2. LineInv /\ [Next]_vars => LineInv'
  BY InvStep, InvTasksStep, InvRunStep DEF LineInv
<1> QED BY <1>1, <1>2, PTL DEF Spec

\* For every regular input main stays within the arrays of subroutines.
THEOREM RegularCallsSafe == Spec => []RegularCallsWithinTask
<1>1. LineInv => RegularCallsWithinTask
  BY DEF LineInv, RunInv, RegularCallsWithinTask, CallsWithinTask
<1> QED BY <1>1, LineInvariant, PTL

-----------------------------------------------------------------------------
(* The program that is written and its source *)

LEMMA CallLineFollows ==
  ASSUME LineInv, Regular, CallLine
  PROVE  Source!ExecuteStatement
<1>1. /\ phase = "call" /\ Running /\ task' = task /\ file' = file
      /\ pc < NINSTRS /\ pc' \in PcAfter(task, pc) /\ ran' = <<task, pc>>
  BY DEF CallLine, scriptVars, Running
<1>2. task \in Source!Tasks /\ pc \in Nat
  BY <1>1 DEF LineInv, RunInv
<1>3. task # 0
  BY <1>2, TasksFinite DEF LineInv, ParseInv
<1>4. NINSTRS = Len(Source!Body(task))
  BY <1>1, <1>2, TaskIsBody DEF LineInv, NINSTRS
<1>5. pc' \in Source!Successors(task, pc)
  BY <1>1, <1>2, PcIsSuccessor DEF LineInv, NINSTRS
<1> QED BY <1>1, <1>3, <1>4, <1>5 DEF Source!ExecuteStatement

LEMMA EndOfTaskFollows ==
  ASSUME LineInv, Regular, EndOfTask
  PROVE  Source!Return
<1>1. /\ phase = "end" /\ Running /\ file' = file /\ ran' = ran /\ pc' = 0
      /\ task' = Source!First({t \in Names : t > task})
  BY DEF EndOfTask, scriptVars, Running
<1>2. task \in Source!Tasks /\ pc = NINSTRS
  BY <1>1 DEF LineInv, RunInv
<1>3. task # 0
  BY <1>2, TasksFinite DEF LineInv, ParseInv
<1>4. NINSTRS = Len(Source!Body(task))
  BY <1>1, <1>2, TaskIsBody DEF LineInv, NINSTRS
<1>5. Names = Source!Tasks
  <2>1. \A t \in Source!Tasks : t # NO_TASK
    BY TaskShape DEF LineInv, ParseInv
  <2> QED BY <1>1, <2>1 DEF LineInv, TasksInv, Names
<1> QED BY <1>1, <1>2, <1>3, <1>4, <1>5 DEF Source!Return

LEMMA StepFollows ==
  ASSUME LineInv, Regular, [Next]_vars
  PROVE  Source!Next \/ UNCHANGED Source!vars
<1>1. CASE StartOfSub \/ EndOfSub \/ Declaration \/ OtherLine
  BY <1>1 DEF StartOfSub, EndOfSub, Declaration, TypeLine, OtherLine, Reading, Source!vars
<1>2. CASE Generate \/ CallBeyond
  BY <1>2 DEF Generate, CallBeyond, Source!vars
<1>3. CASE CallLine
  BY <1>3, CallLineFollows DEF Source!Next
<1>4. CASE EndOfTask
  BY <1>4, EndOfTaskFollows DEF Source!Next
<1>5. CASE UNCHANGED vars
  BY <1>5 DEF vars, scriptVars, Source!vars
<1> QED BY <1>1, <1>2, <1>3, <1>4, <1>5 DEF Next

\* For every regular input, the program that is written runs the statements of
\* the tasks in the order of the source: every step of it is one of the source
\* or leaves it where it is.
THEOREM ProgramFollowsSource == Spec => FollowsSource
<1>1. LineInv /\ [Next]_vars => (Regular => Source!Next \/ UNCHANGED Source!vars)
  BY StepFollows
<1>2. Spec => [][Regular => Source!Next \/ UNCHANGED Source!vars]_vars
  BY <1>1, LineInvariant, PTL DEF Spec
<1> QED BY <1>2 DEF FollowsSource
=============================================================================
