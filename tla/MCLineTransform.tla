--------------------------- MODULE MCLineTransform ---------------------------
(***************************************************************************)
(* Input files for LineTransform.                                          *)
(***************************************************************************)
EXTENDS LineTransform

Item(kind, name, label, target) ==
  [kind |-> kind, name |-> name, label |-> label, target |-> target,
   declares |-> {}, typed |-> FALSE, captured |-> NoName]

\* A line the type pattern matches, with the name that is captured.
Typed(l, captured) == [l EXCEPT !.typed = TRUE, !.captured = captured]

Sub(t) == Item("sub", t, NoLabel, NoLabel)
Plain == Item("plain", 0, NoLabel, NoLabel)
Goto(target) == Item("goto", 0, NoLabel, target)
IfGoto(target) == Item("if", 0, NoLabel, target)
Labelled(label, l) == [l EXCEPT !.label = label]
End == Item("end", 0, NoLabel, NoLabel)
Blank == Item("blank", 0, NoLabel, NoLabel)

\* int v; and other declarations: int v[64]; int v=0; int v = 0; int v, w;
\* unsigned v;
Declaring(vs) == [Item("decl", 0, NoLabel, NoLabel) EXCEPT !.declares = vs]
Decl(v) == Typed(Declaring({v}), v)
DeclArray(v, captured) == Typed(Declaring({v}), captured)
DeclTight(v) == Typed(Declaring({v}), NoName)
DeclInitial(v) == Typed(Declaring({v}), "0")
DeclPair(v, w) == Typed(Declaring({v, w}), w)
DeclUnsigned(v) == Declaring({v})

\* Two statements with a type in their text: point = 3; and printf("int ").
Point == Typed(Plain, "3")
PrintInt == Typed(Plain, NoName)

\* The lines of the bodies of the first task, and all bodies of up to four of
\* them, with no label twice, that jump to no label they do not have.
BodyLine ==
  {Decl("i"), Blank, Plain, Goto("INC"), IfGoto("END"), Labelled("INC", Plain),
   Labelled("INC", IfGoto("END")), Labelled("END", Goto("INC")),
   Labelled("END", IfGoto("INC"))}

\* Lines that the script takes for something else, or by another name.
OddLine ==
  {DeclArray("i", "i[64]"), DeclTight("i"), DeclInitial("i"), DeclPair("j", "i"),
   DeclUnsigned("i"), Point, PrintInt}

LabelsOf(body) == {body[k].label : k \in DOMAIN body} \ {NoLabel}

Legal(body) ==
  /\ \A j, k \in DOMAIN body :
       body[j].label = body[k].label /\ body[j].label # NoLabel => j = k
  /\ \A k \in DOMAIN body : body[k].target \in LabelsOf(body) \cup {NoLabel}

Bodies ==
  {body \in UNION ({[1..n -> BodyLine] : n \in 0..4}
                     \cup {[1..n -> BodyLine \cup OddLine] : n \in 1..3}) : Legal(body)}

Func(t, body) == <<Sub(t)>> \o body \o <<End>>

\* A second task that declares a variable and loops, before or after it.
SecondBodies ==
  {<<Decl("i"), Plain>>,
   <<DeclArray("i", "i[32]"), Point>>,
   <<Decl("i2"), Labelled("INC", IfGoto("INC")), Plain>>}

\* A file without tasks, files without global lines, and global lines and two
\* tasks in either order, with one of the global lines between the tasks.
SmallFiles ==
  {<<Plain>>, Func(1, <<Plain>>)}
    \cup {<<Decl("i"), Blank>> \o Func(1, b) \o Func(2, s) : b \in Bodies, s \in SecondBodies}
    \cup {<<Plain>> \o Func(2, s) \o <<Decl("g"), Plain>> \o Func(1, b) : b \in Bodies, s \in SecondBodies}

\* example_tasks.c, its first task.
ExampleTasks ==
  {<<Plain, Plain>> \o
   Func(1, <<Decl("i"), DeclArray("m", "m[64]"), Plain, Labelled("INC", Plain), Plain, Plain,
             IfGoto("END"), Goto("INC"), Labelled("END", Plain)>>)}

=============================================================================
