----------------------------- MODULE MCCompiled -----------------------------
(***************************************************************************)
(* What the compiler makes of functions: of their variables, with nothing  *)
(* said of tasks, or of one task. A run is about one or the other.         *)
(***************************************************************************)
EXTENDS ValueSemantics, TaskSteps, TLC

NamesSymmetry == Permutations(Names)

\* Statements of a task with the task f, and the names of TaskSteps.
v(a)   == [call |-> FALSE, arg |-> a]
f(a)   == [call |-> TRUE, arg |-> a]
X(e)   == [op |-> "set", var |-> "x", expr |-> e]
Bare(e) == [op |-> "expr", expr |-> e]
Ret(e) == [op |-> "return", expr |-> e]
If(c, s, t)  == [op |-> "if", cond |-> <<c>>, then |-> s, else |-> t]
For(g, s)    == [op |-> "for", end |-> "p", range |-> g, body |-> s]
While(s)     == [op |-> "while", low |-> "x", high |-> "p", body |-> s]

More       == X(<<v("x"), v("one")>>)
Simples    == {X(<<f("x")>>), More, Bare(<<f("p")>>), Ret(<<v("x")>>), Ret(<<f("x")>>)}
InLoops    == {X(<<f("x")>>), Bare(<<f("i")>>), X(<<v("x"), v("i")>>), Ret(<<f("x")>>)}
Lasts      == {Bare(<<f("p")>>), Ret(<<v("x")>>), Ret(<<f("x")>>), Ret(<<f("x"), v("one")>>), Ret(<<f("x"), f("p")>>)}

\* One or two statements of S, of which only the last is a return.
One(S)     == {<<s>> : s \in S}
UpToTwo(S) == One(S) \cup {<<s, t>> : s \in {r \in S : r.op # "return"}, t \in S}

SmallIfs   == {If(v("p"), s, t) : s \in One(Simples), t \in One(Simples) \cup {<<>>}}
Ifs        == {If(v("p"), s, t) : s \in UpToTwo(Simples), t \in One(Simples) \cup {<<>>}}
              \cup {If(f("p"), <<s>>, <<>>) : s \in Simples}
Fors       == {For(g, s) : s \in UpToTwo(InLoops), g \in BOOLEAN}
Whiles     == {While(<<More>>), While(<<Bare(<<f("x")>>), More>>)}

Firsts     == {s \in Simples : s.op # "return"} \cup Ifs \cup Fors \cup Whiles
BodiesDef  == One(Firsts \cup Lasts \cup {X(<<f("x"), v("one")>>)})
              \cup {<<s, t>> : s \in Firsts, t \in Lasts \cup SmallIfs \cup Whiles}
              \cup {<<s, t, u>> : s \in Firsts, t \in {X(<<f("x")>>), More}, u \in Lasts}

---------------------------------------------------------------------------
Idle == body = <<>> /\ param = 0 /\ run = Start(0)

InitVariables == Init /\ Idle
InitTask      == StepsInit /\ kind = "map" /\ locals = {} /\ unique = {} /\ aliased = {} /\ owner = NoOwner
                 /\ block = Outside /\ mem = NoMemory /\ lapses = {}

NextVariables == body = <<>> /\ Next /\ UNCHANGED stepVars
NextTask      == body # <<>> /\ StepsNext /\ UNCHANGED vars

CompiledSpec  == (InitVariables \/ InitTask) /\ [][NextVariables \/ NextTask]_<<vars, stepVars>>
=============================================================================
