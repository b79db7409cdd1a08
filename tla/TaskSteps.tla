----------------------------- MODULE TaskSteps -----------------------------
(***************************************************************************)
(* What a task is compiled to (src/task_analysis.py, task_transform.py): a *)
(* step function over a heap frame, which runs the body from one call of   *)
(* another task to the next, gives the scheduler that task to run (SPAWN)  *)
(* and is called again with its value, until it gives its own (DONE).      *)
(*                                                                         *)
(* The operators below are named after the generator's functions; each is  *)
(* the code which that function emits.  A statement that it leaves to the  *)
(* general generator (Execute) runs as in any function: a task call in it  *)
(* submits the task and blocks the worker until it is done, or, a call     *)
(* that stands alone, does not wait for it at all.                         *)
(*                                                                         *)
(* Bound: an if or a loop holds simple statements only, without else-if;   *)
(* an expression is a sum of names and task calls [call, arg], a task's    *)
(* value a function of its argument; the names are the parameter p, the    *)
(* local x, the loop variable i, and one for 1.                            *)
(***************************************************************************)
EXTENDS Integers, Sequences, SequencesExt

CONSTANTS
  Bodies,      \* the bodies tasks may have
  Parameters,  \* the values of the parameter p
  Fuel         \* bound: the iterations of a loop

VARIABLES
  body,      \* the statements of the task
  param,     \* the value of its parameter
  run        \* its frame, the calls made, and the TaskResult last given

stepVars == <<body, param, run>>

Result(v) == 2 * v + 3     \* what the called task returns

---------------------------------------------------------------------------
(* A run is a record: vars, the variables in the frame; calls, the history *)
(* of task calls, with their arguments and how they were made; fate,       *)
(* "on" while statements are executed; value, of the last expression or of *)
(* the TaskResult; and the frame's state, resolved, loop_idx and loop_end. *)

\* allocate_task_frame, and the entry function: all zero but the parameters.
Start(p) == [vars |-> [p |-> p, x |-> 0, i |-> 0], calls |-> <<>>, fate |-> "on", value |-> 0,
             state |-> 0, resolved |-> 0, loop_idx |-> 0, loop_end |-> 0]

Value(r, name) == IF name = "one" THEN 1 ELSE r.vars[name]
CallOf(r, t, how) == [arg |-> Value(r, t.arg), how |-> how]

\* _generate_expression: a task call is its entry function's spawn_and_wait.
Term(r, t) == IF t.call THEN [r EXCEPT !.value = @ + Result(Value(r, t.arg)), !.calls = Append(@, CallOf(r, t, "waited"))]
              ELSE [r EXCEPT !.value = @ + Value(r, t.arg)]
Evaluate(r, expr) == FoldLeft(Term, [r EXCEPT !.value = 0], expr)

\* Op on each of the statements in turn, as long as the run goes on.
Through(Op(_, _), r, stmts) == FoldLeft(LAMBDA q, s : IF q.fate = "on" THEN Op(q, s) ELSE q, r, stmts)

\* A bare call starts the task and does not wait for it.
_generate_fire_and_forget_call(r, t) == [r EXCEPT !.calls = Append(@, CallOf(r, t, "forgotten"))]

Simple(r, s) ==
  LET q == Evaluate(r, s.expr)
  IN CASE s.op = "set"    -> [q EXCEPT !.vars[s.var] = q.value]
       [] s.op = "return" -> [q EXCEPT !.fate = "return"]
       [] s.op = "expr"   -> IF Len(s.expr) = 1 /\ s.expr[1].call THEN _generate_fire_and_forget_call(r, s.expr[1]) ELSE q

generate_if(r, s) == LET q == Evaluate(r, s.cond)
                     IN Through(Simple, q, IF q.value # 0 THEN s.then ELSE s.else)

\* One iteration more of a loop over the range 0..end, over the list of the
\* numbers 1 to end, or while low < high.
generate_range_for(r, s, k) ==
  IF k < Value(r, s.end) THEN Through(Simple, [r EXCEPT !.vars["i"] = k], s.body) ELSE r
generate_list_for(r, s, k) ==
  IF k < Value(r, s.end) THEN Through(Simple, [r EXCEPT !.vars["i"] = k + 1], s.body) ELSE r
generate_while(r, s) ==
  IF Value(r, s.low) < Value(r, s.high) THEN Through(Simple, r, s.body) ELSE r

Iterate(r, s, k) == CASE s.op = "while" -> generate_while(r, s)
                      [] s.range        -> generate_range_for(r, s, k)
                      [] OTHER          -> generate_list_for(r, s, k)

\* _generate_statement.
Execute(r, s) ==
  CASE s.op = "if" -> generate_if(r, s)
    [] s.op \in {"for", "while"} -> FoldLeft(LAMBDA q, k : IF q.fate = "on" THEN Iterate(q, s, k - 1) ELSE q,
                                             r, [k \in 1 .. Fuel |-> k])
    [] OTHER -> Simple(r, s)

---------------------------------------------------------------------------
(* task_analysis.py: the suspension points, in the order of the text. at   *)
(* and nested are positions in the list that the statement stands in.      *)

HasCall(expr) == \E n \in DOMAIN expr : expr[n].call

\* Only the first call of an expression counts.
find_task_call_in_expr(expr) == expr[SelectInSeq(expr, LAMBDA t : t.call)]

Point(s, expr, var, at, context) ==
  IF HasCall(expr) THEN << [call |-> find_task_call_in_expr(expr), var |-> var, at |-> at,
                            stmt |-> s, context |-> context] >>
  ELSE <<>>

Target(s) == CASE s.op = "set" -> s.var [] s.op = "return" -> "__return_value" [] OTHER -> "none"
Top == [kind |-> "top", parent |-> 0, nested |-> 0]

Nested(stmts, kind, parent) ==
  FlattenSeq([n \in DOMAIN stmts |-> Point(stmts[n], stmts[n].expr, Target(stmts[n]), n,
                                           [kind |-> kind, parent |-> parent, nested |-> n])])

find_suspension_points(stmts) ==
  FlattenSeq([k \in DOMAIN stmts |->
    LET s == stmts[k]
    IN CASE s.op = "if" -> Point(s, s.cond, "__if_cond", k, Top)
                           \o Nested(s.then, "if_then", k) \o Nested(s.else, "if_else", k)
         [] s.op \in {"for", "while"} -> Nested(s.body, s.op, k)
         [] OTHER -> Point(s, s.expr, Target(s), k, Top)])

points == find_suspension_points(body)

\* The list of statements that a nested point stands in.
Branch(context) == CASE context.kind = "if_then" -> body[context.parent].then
                     [] context.kind = "if_else" -> body[context.parent].else
                     [] OTHER -> body[context.parent].body

---------------------------------------------------------------------------
(* The pieces of a state *)

\* A task call in a step's own expressions is the value last resolved.
_evaluate_expr_in_state_context(r, expr) ==
  FoldLeft(LAMBDA v, t : v + IF t.call THEN r.resolved ELSE Value(r, t.arg), 0, expr)

_store_task_result_done(r, v) == [r EXCEPT !.fate = "DONE", !.value = v]

\* The child's frame gets the argument.
_create_child_task_spawn(r, sp) ==
  IF r.fate # "on" THEN r
  ELSE [r EXCEPT !.fate = "SPAWN", !.value = Value(r, sp.call.arg), !.calls = Append(@, CallOf(r, sp.call, "step"))]

Returning(r, s) == IF s.op = "return" THEN _store_task_result_done(r, _evaluate_expr_in_state_context(r, s.expr))
                   ELSE Execute(r, s)

\* The general generator evaluates the value returned.
_generate_statements_in_step_context(r, stmts) ==
  LET Statement(q, s) == IF s.op = "return" THEN LET e == Evaluate(q, s.expr) IN _store_task_result_done(e, e.value)
                         ELSE Execute(q, s)
  IN Through(Statement, r, stmts)

\* A return is passed over.
_execute_statements_until(r, stmts, from, to) ==
  Through(LAMBDA q, s : IF s.op = "return" THEN q ELSE Execute(q, s), r, SubSeq(stmts, from, to - 1))

_execute_statements_and_return(r, from) ==
  LET q == Through(Returning, r, SubSeq(body, from, Len(body)))
  IN IF q.fate = "on" THEN _store_task_result_done(q, 0) ELSE q

_if_has_early_return(s) == s.op = "if" /\ \E n \in DOMAIN s.then : s.then[n].op = "return"

\* Without the else branch.
_generate_early_return_if(r, s) ==
  LET q == Evaluate(r, s.cond) IN IF q.value # 0 THEN Through(Returning, q, s.then) ELSE q

\* Only on the way to the first point does an early return return.
_execute_to_top(r, to) ==
  Through(LAMBDA q, s : IF s.op = "return" THEN q
                        ELSE IF _if_has_early_return(s) THEN _generate_early_return_if(q, s)
                        ELSE Execute(q, s), r, SubSeq(body, 1, to - 1))

\* The branch or the loop is entered, whatever its condition says.
_execute_within_control_flow_to_suspension(r, sp) ==
  LET q == IF sp.context.kind \in {"if_then", "if_else"} THEN Evaluate(r, body[sp.context.parent].cond) ELSE r
  IN _execute_statements_until(q, Branch(sp.context), 1, sp.context.nested)

_execute_to_suspension(r, sp) ==
  IF sp.context = Top THEN _execute_to_top(r, sp.at)
  ELSE _execute_within_control_flow_to_suspension(_execute_to_top(r, sp.context.parent), sp)

_complete_control_flow_branch(r, sp) ==
  _execute_statements_until(r, Branch(sp.context), sp.context.nested + 1, Len(Branch(sp.context)) + 1)

\* It starts with the statement of the point itself. (mutation)
to_next_from_suspension(r, sp, next) ==
  IF sp.context = Top /\ next.context = Top THEN _execute_statements_until(r, body, sp.at, next.at)
  ELSE r

_execute_from_suspension_to_next(r, sp, next) ==
  LET q    == IF sp.context = Top THEN r ELSE _complete_control_flow_branch(r, sp)
      from == IF sp.context = Top THEN sp.at + 1 ELSE sp.context.parent + 1
  IN IF next.context = Top THEN _execute_statements_until(q, body, from, next.at)
     ELSE _execute_within_control_flow_to_suspension(
            _execute_statements_until(q, body, from, next.context.parent), next)

_complete_control_flow_branch_with_return(r, sp) ==
  _generate_statements_in_step_context(r, SubSeq(Branch(sp.context), sp.context.nested + 1, Len(Branch(sp.context))))

_execute_from_suspension_to_end(r, sp) ==
  IF sp.stmt.op = "return" THEN Returning(r, sp.stmt)
  ELSE IF sp.context = Top THEN _execute_statements_and_return(r, sp.at + 1)
  ELSE LET q == _complete_control_flow_branch_with_return(r, sp)
       IN IF q.fate = "on" THEN _execute_statements_and_return(q, sp.context.parent + 1) ELSE q

---------------------------------------------------------------------------
(* The states *)

_are_suspensions_mutually_exclusive(sp1, sp2) ==
  /\ {sp1.context.kind, sp2.context.kind} = {"if_then", "if_else"}
  /\ sp1.context.parent = sp2.context.parent

\* The first point is in an if: the branch without it runs to the end of the
\* body at once.
_generate_conditional_state_0(sp) ==
  LET s     == body[sp.context.parent]
      r     == Evaluate(_execute_statements_until(run, body, 1, sp.context.parent), s.cond)
      taken == (r.value # 0) = (sp.context.kind = "if_then")
      other == _generate_statements_in_step_context(r, IF sp.context.kind = "if_then" THEN s.else ELSE s.then)
  IN IF r.fate # "on" THEN r
     ELSE IF taken
          THEN _create_child_task_spawn([_execute_statements_until(r, Branch(sp.context), 1, sp.context.nested)
                                           EXCEPT !.state = 1], sp)
     ELSE IF other.fate = "on" THEN _execute_statements_and_return(other, sp.context.parent + 1) ELSE other

\* A loop over anything but a range has no iterations.
_generate_for_loop_state_0(sp) ==
  LET s   == body[sp.context.parent]
      r   == _execute_statements_until(run, body, 1, sp.context.parent)
      end == IF s.range THEN Value(r, s.end) ELSE 0
      q   == [r EXCEPT !.loop_idx = 0, !.loop_end = end, !.vars["i"] = 0]
  IN IF r.fate # "on" THEN r
     ELSE IF 0 < end
          THEN _create_child_task_spawn([_execute_statements_until(q, s.body, 1, sp.context.nested)
                                           EXCEPT !.state = 1], sp)
     ELSE _execute_statements_and_return(q, sp.context.parent + 1)

\* The state stays as it is; __resolved is not set.
_generate_for_loop_resume_state(resolved, sp) ==
  LET s    == body[sp.context.parent]
      set  == IF sp.var = "x" THEN [run EXCEPT !.vars["x"] = resolved, !.fate = "on"] ELSE [run EXCEPT !.fate = "on"]
      r    == _execute_statements_until(set, s.body, sp.context.nested + 1, Len(s.body) + 1)
      idx  == r.loop_idx + 1
      q    == [r EXCEPT !.loop_idx = idx, !.vars["i"] = idx]
  IN IF r.fate # "on" THEN r
     ELSE IF idx < q.loop_end
          THEN _create_child_task_spawn(_execute_statements_until(q, s.body, 1, sp.context.nested), sp)
     ELSE _execute_statements_and_return(q, sp.context.parent + 1)

state_0 ==
  LET sp == points[1]
  IN CASE sp.context.kind \in {"if_then", "if_else"} -> _generate_conditional_state_0(sp)
       [] sp.context.kind = "for" -> _generate_for_loop_state_0(sp)
       [] OTHER -> _create_child_task_spawn([_execute_to_suspension(run, sp) EXCEPT !.state = 1], sp)

\* A bare call that nothing seems to follow gives the value of the body:
\* its position is compared with the length of the outer list.
ImplicitReturn(sp) == sp.stmt.op = "expr" /\ sp.at >= Len(body)

state_n(resolved) ==
  LET n    == run.state
      sp   == points[n]
      set  == [run EXCEPT !.resolved = resolved, !.fate = "on"]
      r    == IF sp.var = "x" THEN [set EXCEPT !.vars["x"] = resolved] ELSE set
  IN CASE sp.context.kind = "for" -> _generate_for_loop_resume_state(resolved, sp)
       [] sp.context.kind # "for" /\ n < Len(points) ->
            IF sp.var = "__return_value" THEN _store_task_result_done(r, resolved)
            ELSE IF _are_suspensions_mutually_exclusive(sp, points[n + 1]) THEN _execute_from_suspension_to_end(r, sp)
            ELSE _create_child_task_spawn([_execute_from_suspension_to_next(r, sp, points[n + 1])
                                             EXCEPT !.state = n + 1], points[n + 1])
       [] OTHER -> IF ImplicitReturn(sp) THEN _store_task_result_done(r, resolved)
                   ELSE _execute_from_suspension_to_end(r, sp)

\* A task without task calls has one step, which calls its body.
simple_step == LET r == Through(Execute, run, body)
               IN _store_task_result_done(r, IF r.fate = "return" THEN r.value ELSE 0)

---------------------------------------------------------------------------
StepsInit == body \in Bodies /\ param \in Parameters /\ run = Start(param)

\* The scheduler calls the step function, with the value of the child it
\* asked for last.
Step ==
  /\ run.fate \in {"on", "READY"}
  /\ run' = IF points = <<>> THEN simple_step
            ELSE IF run.fate = "on" THEN state_0
            ELSE state_n(run.value)
  /\ UNCHANGED <<body, param>>

ChildDone ==
  /\ run.fate = "SPAWN"
  /\ run' = [run EXCEPT !.fate = "READY", !.value = Result(run.value)]
  /\ UNCHANGED <<body, param>>

StepsNext == Step \/ ChildDone

StepsSpec == StepsInit /\ [][StepsNext]_stepVars

---------------------------------------------------------------------------
\* The body as a function without steps: what the task is to compute.
\* A bare call at its end gives its value.
Direct == LET r    == Through(Execute, Start(param), body)
              last == body[Len(body)]
          IN CASE r.fate = "return"                           -> r
               [] last.op = "expr" /\ HasCall(last.expr)      -> [r EXCEPT !.value = Result(Last(r.calls).arg)]
               [] OTHER                                       -> [r EXCEPT !.value = 0]

Returns(stmts) == \E n \in DOMAIN stmts : stmts[n].op = "return"
Parts(s) == CASE s.op = "if" -> <<s.then, s.else>> [] s.op \in {"for", "while"} -> <<s.body>> [] OTHER -> << >>
OneCall(expr) == Len(SelectSeq(expr, LAMBDA t : t.call)) = 1
Alone(sp) == CASE sp.var = "__return_value" -> OneCall(sp.stmt.expr)
               [] OTHER -> sp.var # "__if_cond" /\ Len(sp.stmt.expr) = 1

Arguments(cs) == [n \in DOMAIN cs |-> cs[n].arg]

\* The same task calls with the same arguments, in the same order, each waited
\* for, and the same value.
Agrees ==
  /\ \A n \in DOMAIN run.calls : run.calls[n].how # "forgotten"
  /\ IsPrefix(Arguments(run.calls), Arguments(Direct.calls))
  /\ run.fate = "DONE" => run.value = Direct.value /\ Len(run.calls) = Len(Direct.calls)
  /\ run.fate # "return"

\* Between points that are all at the top level nothing blocks the worker.
Stackless ==
  (points # <<>> /\ \A n \in DOMAIN points : points[n].context = Top) =>
    \A n \in DOMAIN run.calls : run.calls[n].how = "step"

\* A return ends the body, or stands in an if that the generator knows how to
\* leave: one without else that comes before the first point, or the one with the
\* first point, when no point comes after it that the return would avoid.
ReturnsHandled ==
  LET first == points[1]
      k     == first.context.parent
  IN /\ \A j \in DOMAIN body : body[j].op = "return" => j = Len(body)
     /\ \A j \in DOMAIN body \ {k} : \A n \in DOMAIN Parts(body[j]) : Returns(Parts(body[j])[n]) =>
          first.context = Top /\ j < first.at /\ body[j].op = "if" /\ n = 1 /\ body[j].else = <<>>
     /\ k # 0 /\ Returns(Branch(first.context)) =>
          /\ body[k].op = "if"
          /\ first.var = "__return_value" \/ \A n \in DOMAIN points : points[n].context # Top

\* Bodies whose points are all at the top level, bodies whose first point is
\* in an if, and bodies whose first point is in a loop over a range.
Handled ==
  LET first == points[1]
      Later == 2 .. Len(points)
  IN points # <<>> =>
     /\ ReturnsHandled
     /\ CASE first.context = Top -> \A n \in DOMAIN points : points[n].context = Top /\ Alone(points[n])
          [] first.context.kind \in {"if_then", "if_else"} ->
               /\ \A n \in DOMAIN points : Alone(points[n])
               /\ ~ImplicitReturn(first) /\ \A n \in Later : points[n].stmt.op # "expr"
               /\ \/ Len(points) = 2 /\ _are_suspensions_mutually_exclusive(first, points[2])
                  \/ \A n \in Later : points[n].context = Top /\ points[n].at < Len(body)
          [] first.context.kind = "for" ->
               /\ body[first.context.parent].range /\ Alone(first)
               /\ \A n \in Later : /\ points[n].stmt.op # "expr"
                                   /\ points[n].context = Top => points[n].at < Len(body)
          [] OTHER -> FALSE

\* The steps of a task compute what its body says, suspension by suspension,
\* in the shapes that the generator handles.
StepsFollowBody == body # <<>> /\ Handled => Agrees /\ Stackless

\* In every shape: not so (MCStepsAny.cfg shows one).
StepsAlwaysFollowBody == body # <<>> => Agrees
===========================================================================
