--------------------------- MODULE ValueSemantics ---------------------------
(***************************************************************************)
(* Value semantics over shared storage. `b = a` shares the wrapper of a    *)
(* collection, and `x = x.set(..)` is compiled to an update in place when  *)
(* the compiler holds x to be the only owner of its wrapper: x is not      *)
(* marked as aliased, or is declared unique. The marks are made in the     *)
(* order of the text (codegen/statements.py); analysis/ownership.py        *)
(* accepts or rejects the uses of unique names before.                     *)
(*                                                                         *)
(* Each action is a statement as it is compiled and, unless it stands in a *)
(* branch that is not taken, run. The body of a loop is run again, as it   *)
(* was compiled, when the loop ends. A program that the ownership analysis *)
(* rejects goes no further.                                                *)
(***************************************************************************)
EXTENDS Integers, Sequences, FiniteSets, SequencesExt

CONSTANTS
  Names,       \* the variables of a function
  Kinds,       \* what they hold: "map" (also sets), "array", or both in turn
  MaxBody      \* bound: the statements of the body of a loop

ASSUME ValuesAssumption == Kinds \subseteq {"map", "array"} /\ MaxBody \in Nat

VARIABLES
  kind,        \* the type of every variable
  locals,      \* the names declared
  unique,      \* cg.unique_bindings
  aliased,     \* cg.aliased_vars
  owner,       \* the ownership analysis: whether a name is unique, and moved
  block,       \* where the statement stands, and whether it is run
  mem,         \* the names that share the storage of each name, and those whose
               \* contents are no longer what they were given
  lapses       \* history: the forms of sharing of this function that leave no mark

compiler == <<locals, unique, aliased>>
vars     == <<kind, locals, unique, aliased, owner, block, mem, lapses>>

NoOwner  == [n \in Names |-> [unique |-> FALSE, moved |-> FALSE]]
NoMemory == [shares |-> [n \in Names |-> {}], changed |-> {}]
Outside  == [tag |-> "none", runs |-> TRUE, body |-> <<>>, saved |-> NoOwner, first |-> NoOwner]

Live     == {n \in locals : ~owner[n].moved}

---------------------------------------------------------------------------
(* The statements as they run. What a wrapper and its data hold is left    *)
(* out: what matters is which names reach the same storage, the wrapper of *)
(* a map or the data of an array.                                          *)

\* Storage of its own; the storage of another.
Fresh(m, x) ==
  [m EXCEPT !.shares = [n \in Names |-> IF n = x THEN {x} ELSE @[n] \ {x}],
            !.changed = @ \ {x}]
Share(m, x, y) ==
  LET class == (m.shares[y] \ {x}) \cup {x}
  IN [m EXCEPT !.shares = [n \in Names |-> IF n \in class THEN class ELSE @[n] \ {x}],
               !.changed = IF y \in @ THEN @ \cup {x} ELSE @ \ {x}]

\* A map gets a new root, an array a new element, and every name that shares
\* the storage sees it.
UpdateInPlace(m, x) == [m EXCEPT !.changed = (@ \cup m.shares[x]) \ {x}]

\* := copies an array; generate_deep_copy of a map returns it.
generate_deep_copy(m, x, y) ==
  IF kind = "map" THEN Share(m, x, y)
  ELSE [Fresh(m, x) EXCEPT !.changed = IF y \in @ THEN @ \cup {x} ELSE @]

\* A slice is a view of the data of its array; a function may return the
\* collection it was given.
View(m, x, y) == Share(m, x, y)

Exec(m, stmt) ==
  LET x == stmt.x  y == stmt.y
  IN CASE stmt.op \in {"literal", "update"} -> Fresh(m, x)
       [] stmt.op = "assign"  -> Share(m, x, y)
       [] stmt.op = "copy"    -> generate_deep_copy(m, x, y)
       [] stmt.op = "view"    -> View(m, x, y)
       [] stmt.op = "inplace" -> UpdateInPlace(m, x)
       [] stmt.op = "call"    -> [m EXCEPT !.changed = @ \cup m.shares[x]]

\* Bound: a function is followed to its first lapse.
Run(stmt) ==
  /\ lapses = {} /\ kind' = kind
  /\ mem' = IF block.runs THEN Exec(mem, stmt) ELSE mem
  /\ block.tag = "loop" => Len(block.body) < MaxBody
  /\ block' = IF block.tag = "loop" THEN [block EXCEPT !.body = Append(@, stmt)] ELSE block

Stmt(op, x, y) == [op |-> op, x |-> x, y |-> y]

---------------------------------------------------------------------------
(* The compiler: the declaration of a name, the marks, the ownership.      *)

\* Bound: `unique` is said of a name when it is declared, and names are
\* declared outside loops and branches.
Declare(x, uniq) ==
  /\ IF x \in locals THEN ~uniq ELSE block.tag = "none"
  /\ locals' = locals \cup {x}
  /\ unique' = IF uniq THEN unique \cup {x} ELSE unique

Rebound(o, x, uniq) == [o EXCEPT ![x] = [unique |-> uniq, moved |-> FALSE]]

\* The source of a move still usable (mutation).
KeepSource(o, y) == o

\* A name that is bound to another's value: the source of a move is marked
\* as moved first, so that x = x leaves it bound.
MoveOut(o, y) == IF o[y].unique THEN [o EXCEPT ![y].moved = TRUE] ELSE o

\* Using a moved name, and moving inside a loop, are errors.
Usable(y)  == y \in Live
Movable(y) == Usable(y) /\ (owner[y].unique => block.tag # "loop")

Lapse(cond, form) == IF cond THEN {form} ELSE {}

\* x = [..], also `unique x`.
Literal(x, uniq) ==
  /\ Declare(x, uniq) /\ Run(Stmt("literal", x, x))
  /\ owner' = Rebound(owner, x, uniq)
  /\ UNCHANGED <<aliased, lapses>>

\* The marks of x = y: both names, unless one of them is unique.
Mark(x, y) == IF x \in unique' \/ y \in unique THEN aliased ELSE aliased \cup {x, y}

\* The names the body of the loop has updated in place so far.
UpdatedInBody == {block.body[i].x : i \in {k \in DOMAIN block.body : block.body[k].op = "inplace"}}

\* x = y, also `unique x = y`.
Assign(x, y, uniq) ==
  /\ x # y /\ Movable(y) /\ Declare(x, uniq) /\ Run(Stmt("assign", x, y))
  /\ aliased' = Mark(x, y)
  /\ owner' = Rebound(MoveOut(owner, y), x, uniq)
  /\ lapses' = lapses
       \cup Lapse(~owner[y].unique /\ y \in unique, "was unique")
       \cup Lapse(~owner[y].unique /\ x \in unique', "unique of shared")
       \cup Lapse({x, y} \cap UpdatedInBody # {}, "marked too late")

\* x := y.
Copy(x, y, uniq) ==
  /\ x # y /\ Usable(y) /\ Declare(x, uniq) /\ Run(Stmt("copy", x, y))
  /\ owner' = Rebound(owner, x, uniq)
  /\ lapses' = lapses \cup Lapse(kind = "map", "copy of a map")
  /\ UNCHANGED aliased

\* x = y[a:b], x = f(y).
BindView(x, y, uniq) ==
  /\ x # y /\ Usable(y) /\ Declare(x, uniq) /\ Run(Stmt("view", x, y))
  /\ owner' = Rebound(owner, x, uniq)
  /\ lapses' = lapses \cup {"view"}
  /\ UNCHANGED aliased

\* In place although aliased (mutation).
inplace_although_aliased(x) == TRUE

\* x = x.set(..): in place when x is unique, or not aliased. The name is
\* bound anew, and is no longer unique for the analysis.
try_generate_inplace_update(x) == x \in unique \/ x \notin aliased

Update(x) ==
  /\ Usable(x)
  /\ Run(Stmt(IF try_generate_inplace_update(x) THEN "inplace" ELSE "update", x, x))
  /\ owner' = Rebound(owner, x, FALSE)
  /\ UNCHANGED <<compiler, lapses>>

\* f(y), where f has a unique parameter that it updates: in place. Only a
\* unique argument is moved.
Call(y) ==
  /\ Movable(y) /\ Run(Stmt("call", y, y))
  /\ owner' = MoveOut(owner, y)
  /\ lapses' = lapses \cup Lapse(~owner[y].unique, "passed as unique")
  /\ UNCHANGED compiler

---------------------------------------------------------------------------
(* Blocks. Nothing is declared in them, and they are not nested.           *)

\* The ownership after a branch is that of the first context, where a name
\* that is unique there must be moved in both or in none.
Consistent(a, b) == \A n \in Names : a[n].unique => (a[n].moved <=> b[n].moved)
Merge(a, b) == a

MovedOnOnePath(a, b) == Lapse(\E n \in Names : b[n].moved /\ ~a[n].moved, "moved on one path")

BeginLoop(taken) ==
  /\ block.tag = "none" /\ MaxBody > 0
  /\ block' = [Outside EXCEPT !.tag = "loop", !.runs = taken, !.saved = owner]
  /\ UNCHANGED <<kind, compiler, owner, mem, lapses>>

\* The body once more, or not.
EndLoop(again) ==
  /\ block.tag = "loop" /\ (again => block.runs)
  /\ mem' = IF again THEN FoldLeft(Exec, mem, block.body) ELSE mem
  /\ block' = Outside /\ lapses' = lapses \cup MovedOnOnePath(owner, block.saved)
  /\ UNCHANGED <<kind, compiler, owner>>

BeginIf(taken) ==
  /\ block.tag = "none"
  /\ block' = [Outside EXCEPT !.tag = "then", !.runs = taken, !.saved = owner]
  /\ UNCHANGED <<kind, compiler, owner, mem, lapses>>

BeginElse ==
  /\ block.tag = "then"
  /\ block' = [block EXCEPT !.tag = "else", !.runs = ~@, !.first = owner]
  /\ owner' = block.saved
  /\ UNCHANGED <<kind, compiler, mem, lapses>>

EndIf ==
  LET a == IF block.tag = "else" THEN block.first ELSE owner
      b == IF block.tag = "else" THEN owner ELSE block.saved
  IN /\ block.tag \in {"then", "else"} /\ Consistent(a, b)
     /\ owner' = Merge(a, b) /\ block' = Outside
     /\ lapses' = lapses \cup MovedOnOnePath(a, b)
     /\ UNCHANGED <<kind, compiler, mem>>

\* The next function. What is known of names is kept from the last one.
NextFunction ==
  /\ block.tag = "none" /\ locals # {}
  /\ locals' = {} /\ owner' = NoOwner /\ lapses' = {}
  /\ mem' = NoMemory
  /\ UNCHANGED <<kind, unique, aliased, block>>

---------------------------------------------------------------------------
Init ==
  /\ kind \in Kinds
  /\ locals = {} /\ unique = {} /\ aliased = {} /\ lapses = {}
  /\ owner = NoOwner /\ block = Outside
  /\ mem = NoMemory

Next ==
  \/ \E x \in Names, uniq \in BOOLEAN :
       \/ Literal(x, uniq)
       \/ \E y \in Names : Assign(x, y, uniq) \/ Copy(x, y, uniq) \/ BindView(x, y, uniq)
  \/ \E x \in Names : Update(x) \/ Call(x)
  \/ \E b \in BOOLEAN : BeginLoop(b) \/ EndLoop(b) \/ BeginIf(b)
  \/ BeginElse \/ EndIf \/ NextFunction

Spec == Init /\ [][Next]_vars

---------------------------------------------------------------------------
TypeOK ==
  /\ locals \subseteq Names /\ unique \subseteq Names /\ aliased \subseteq Names
  /\ owner \in [Names -> [unique : BOOLEAN, moved : BOOLEAN]]
  /\ block.tag \in {"none", "loop", "then", "else"} /\ Len(block.body) <= MaxBody
  /\ mem \in [shares : [Names -> SUBSET Names], changed : SUBSET Names]
  /\ \A n \in Names : \A k \in mem.shares[n] : n \in locals /\ mem.shares[k] = mem.shares[n]

\* A collection is a value: whatever is done to one variable, another keeps
\* what it was given, unless the function shares storage in a form that the
\* compiler leaves unmarked.
Independent == lapses = {} /\ block.runs => Live \cap mem.changed = {}

\* A unique name that has not been moved is the only one to reach its data,
\* with the same exceptions.  (The state is well typed besides.)
SoleOwner ==
  /\ TypeOK
  /\ lapses = {} /\ block.runs =>
       \A x, y \in Live : x # y /\ owner[x].unique => y \notin mem.shares[x]
=============================================================================
