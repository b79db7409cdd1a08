------------------------------ MODULE Threads ------------------------------
(***************************************************************************)
(* A function and the threads it starts: thread calls that are waited for  *)
(* at once, bare calls that the epilogue joins, and the parallel           *)
(* statements map (results = f(x) for x in items), first and most, with    *)
(* the closures of src/runtime/coex_task.c through which a thread hands    *)
(* over its result.  Lightweight tasks appear only in the epilogue's       *)
(* nursery: how they run is the subject of Scheduler.                      *)
(*                                                                         *)
(* A function body is a sequence of statements [op, n]: n is the number of *)
(* elements a parallel statement iterates over.  "return" is a return that *)
(* is taken or not as the program runs.                                    *)
(***************************************************************************)
EXTENDS Integers, Sequences

CONSTANTS Programs, MaxThreads, Slots, Grace

Groups == {"map", "first", "most"}
Body == [op : {"call", "bare", "task", "return"}, n : {1}] \cup [op : Groups, n : 0..MaxThreads]

ASSUME SizesAssumption == MaxThreads \in Nat /\ Slots \in Nat /\ Grace \in Nat \ {0}

VARIABLES
    program,  \* the function's body
    at,       \* the statement it is at
    pc,       \* where in that statement
    i,        \* the index of the loop it is in
    group,    \* the threads of the current statement, in the order of their elements
    out,      \* the results the current statement has read
    nursery,  \* nursery_handles and nursery_closures, as far as nursery_count
    tasks,    \* task_nursery_handles, as far as task_nursery_count
    child,    \* where each thread is
    closure,  \* the TaskClosure of each thread
    waiter,   \* the SharedWaiter on the stack of wait_any
    missed    \* how many collections found a thread's result without a root

main == <<program, at, pc, i, group, out, nursery, tasks>>
vars == <<main, child, closure, waiter, missed>>

Threads == 1..MaxThreads
Stages == {"none", "start", "body", "stored", "popped", "toWaiter", "unlock", "leaving", "ended"}
NoWaiter == [alive |-> FALSE, held |-> FALSE, asleep |-> FALSE]
NoClosure == [alive |-> FALSE, result |-> "null", cancelled |-> FALSE, completed |-> FALSE,
              locked |-> FALSE, shared_waiter |-> FALSE, param |-> 0]

Spawned == {t \in Threads : child[t] # "none"}
Started(t) == child[t] = "none" /\ \A u \in 1 .. t - 1 : child[u] # "none"
Statement == program[at]
Runs(op) == at <= Len(program) /\ Statement.op = op

(***************************************************************************)
(* While the code of a function is generated, has_active_nursery is true   *)
(* up to the first epilogue that is emitted: join_nursery then sets the    *)
(* nursery's allocas to None, and the epilogues after it join nothing.     *)
(***************************************************************************)
has_active_nursery(p, k) == \A j \in 1 .. k - 1 : p[j].op # "return"

(* add_to_nursery raises an error when there is no nursery any more; a     *)
(* task's handle is then dropped instead.                                  *)
Compiles(p) == \A k \in DOMAIN p : p[k].op = "bare" => has_active_nursery(p, k)

ASSUME ProgramsAssumption == \A p \in Programs : p \in Seq(Body) /\ Compiles(p)

init_nursery == nursery = <<>>
init_task_nursery == tasks = <<>>

Init ==
    /\ program \in Programs /\ at = 1 /\ pc = "next" /\ i = 1
    /\ group = <<>> /\ out = <<>> /\ init_nursery /\ init_task_nursery
    /\ child = [t \in Threads |-> "none"]
    /\ closure = [t \in Threads |-> NoClosure]
    /\ waiter = NoWaiter
    /\ missed = [t \in Threads |-> 0]

----------------------------------------------------------------------------
(* Closures; the parameters of a thread stand for the element, by number,  *)
(* that they were evaluated for.                                           *)

coex_task_closure_alloc(e) == [NoClosure EXCEPT !.alive = TRUE, !.param = e]

coex_task_closure_free(cs, t) == [cs EXCEPT ![t].alive = FALSE]

coex_task_cancel(cs, t) == [cs EXCEPT ![t].cancelled = TRUE]

coex_task_check_safepoint(t) == closure[t].cancelled

(* A body's value: a loop whose safepoint finds the thread cancelled is    *)
(* left, and the body goes on behind it.                                   *)
inject_safepoint(t) == {"full"} \cup (IF coex_task_check_safepoint(t) THEN {"partial"} ELSE {})

(* spawn_task: a closure, its parameters, and a thread for the trampoline. *)
spawn_task(t, e) ==
    /\ Started(t)
    /\ child' = [child EXCEPT ![t] = "start"]
    /\ closure' = [closure EXCEPT ![t] = coex_task_closure_alloc(e)]
    /\ UNCHANGED <<waiter, missed>>

(* What ptrtoint of closure->result gives: what the thread has computed of *)
(* its parameters, or the handle of an object that is gone when Grace      *)
(* collections in a row have found no root for it.                         *)
result_of(t) == [value |-> IF missed[t] >= Grace THEN "swept" ELSE closure[t].result,
                 element |-> closure[t].param]

Goto(next) == pc' = next /\ i' = 1
Leave == at' = at + 1 /\ Goto("next")
Advance == i' = i + 1 /\ UNCHANGED pc

(* One more thread for the group, of the element the loop is at, or on to  *)
(* the loop named next.                                                    *)
SpawnLoop(next) ==
    \/ \E t \in Threads :
         /\ pc = "spawn" /\ Len(group) < Statement.n
         /\ spawn_task(t, Len(group) + 1)
         /\ group' = Append(group, t)
         /\ UNCHANGED <<program, at, pc, i, out, nursery, tasks>>
    \/ /\ pc = "spawn" /\ Len(group) = Statement.n
       /\ Goto(next)
       /\ UNCHANGED <<program, at, group, out, nursery, tasks, child, closure, waiter, missed>>

(* Evaluating the collection, and counters of its own for the statement. *)
BeginGroup ==
    /\ pc = "next" /\ \E op \in Groups \cup {"call"} : Runs(op)
    /\ group' = <<>> /\ out' = <<>> /\ Goto("spawn")
    /\ UNCHANGED <<program, at, nursery, tasks, child, closure, waiter, missed>>

JoinLoop(next) ==
    \/ /\ pc = "join" /\ i <= Len(group) /\ child[group[i]] = "ended"
       /\ Advance
       /\ UNCHANGED <<program, at, group, out, nursery, tasks, child, closure, waiter, missed>>
    \/ /\ pc = "join" /\ i > Len(group)
       /\ Goto(next)
       /\ UNCHANGED <<program, at, group, out, nursery, tasks, child, closure, waiter, missed>>

(* closure_free of the i-th thread, after reading its result if wanted. *)
FreeClosure(reads) ==
    /\ out' = IF reads THEN Append(out, result_of(group[i])) ELSE out
    /\ closure' = coex_task_closure_free(closure, group[i])
    /\ Advance
    /\ UNCHANGED <<program, at, group, nursery, tasks, child, waiter, missed>>

EndGroup ==
    /\ Leave
    /\ UNCHANGED <<program, group, out, nursery, tasks, child, closure, waiter, missed>>

----------------------------------------------------------------------------
(* x := t(e): a group of one, waited for at once. *)
thread_call ==
    /\ Runs("call")
    /\ \/ SpawnLoop("join")
       \/ JoinLoop("collect")
       \/ pc = "collect" /\ i <= Len(group) /\ FreeClosure(TRUE)
       \/ pc = "collect" /\ i > Len(group) /\ EndGroup

(* results = f(x) for x in items: all threads are spawned and joined, then *)
(* their results appended in the order of the elements.                    *)
parallel_for_spawn == Runs("map") /\ (SpawnLoop("join") \/ JoinLoop("collect"))

(* The results put at the front of the list (mutation). *)
parallel_for_prepend ==
    /\ Runs("map") /\ pc = "collect"
    /\ \/ /\ i <= Len(group)
          /\ out' = <<result_of(group[i])>> \o out
          /\ closure' = coex_task_closure_free(closure, group[i])
          /\ Advance
          /\ UNCHANGED <<program, at, group, nursery, tasks, child, waiter, missed>>
       \/ i > Len(group) /\ EndGroup

parallel_for_collect ==
    /\ Runs("map") /\ pc = "collect"
    /\ \/ i <= Len(group) /\ FreeClosure(TRUE)
       \/ i > Len(group) /\ EndGroup

(* first: nothing to wait for without elements. *)
first_spawn ==
    /\ Runs("first")
    /\ IF Statement.n = 0 /\ pc = "spawn" THEN EndGroup ELSE SpawnLoop("scan")

(* The cancellation of every thread, without BUG-027's exception (mutation). *)
first_cancel_all ==
    /\ Runs("first") /\ pc = "cancel" /\ i <= Len(group)
    /\ closure' = coex_task_cancel(closure, group[i])
    /\ Advance
    /\ UNCHANGED <<program, at, group, out, nursery, tasks, child, waiter, missed>>

(* Every thread but that of element 0 is cancelled, whichever wait_any returned. *)
first_cancel ==
    /\ Runs("first") /\ pc = "cancel" /\ i <= Len(group)
    /\ closure' = IF i = 1 THEN closure ELSE coex_task_cancel(closure, group[i])
    /\ Advance
    /\ UNCHANGED <<program, at, group, out, nursery, tasks, child, waiter, missed>>

(* All are joined; the result is that of element 0; all closures are freed. *)
first_join ==
    /\ Runs("first")
    /\ \/ /\ pc = "cancel" /\ i > Len(group) /\ Goto("join")
          /\ UNCHANGED <<program, at, group, out, nursery, tasks, child, closure, waiter, missed>>
       \/ JoinLoop("collect")
       \/ pc = "collect" /\ i <= Len(group) /\ FreeClosure(i = 1)
       \/ pc = "collect" /\ i > Len(group) /\ EndGroup

most_spawn == Runs("most") /\ SpawnLoop("join")

(* most joins, reads and frees one thread after the other; exception is a  *)
(* field nobody sets, so every thread has a result and none an error.      *)
most_join ==
    /\ Runs("most") /\ pc = "join"
    /\ \/ i <= Len(group) /\ child[group[i]] = "ended" /\ FreeClosure(TRUE)
       \/ i > Len(group) /\ EndGroup

----------------------------------------------------------------------------
(* coex_task_wait_any *)

(* completed is tested for one closure after the other, without a lock. *)
wait_any_scan ==
    /\ pc = "scan"
    /\ IF i > Len(group) THEN Goto("register") /\ waiter' = [NoWaiter EXCEPT !.alive = TRUE]
       ELSE /\ IF closure[group[i]].completed THEN Goto("cancel") ELSE Advance
            /\ UNCHANGED waiter
    /\ UNCHANGED <<program, at, group, out, nursery, tasks, child, closure, missed>>

(* The waiter is entered into a closure, or taken out, under its mutex. *)
EnterWaiter(value, next) ==
    /\ IF i > Len(group) THEN Goto(next) /\ UNCHANGED closure
       ELSE /\ ~closure[group[i]].locked
            /\ closure' = [closure EXCEPT ![group[i]].shared_waiter = value]
            /\ Advance
    /\ UNCHANGED <<program, at, group, out, nursery, tasks, child, missed>>

(* Sleeping once the waiter is entered everywhere, without another look (mutation). *)
register_and_sleep ==
    /\ pc = "register" /\ EnterWaiter(TRUE, "lock")
    /\ waiter' = [waiter EXCEPT !.asleep = i > Len(group)]

wait_any_register ==
    /\ pc = "register" /\ EnterWaiter(TRUE, "lock")
    /\ UNCHANGED waiter

(* The waiter's mutex is taken, or taken again by cond_wait. *)
wait_any_lock ==
    /\ pc = "lock" /\ ~waiter.held /\ ~waiter.asleep
    /\ waiter' = [waiter EXCEPT !.held = TRUE] /\ Goto("check")
    /\ UNCHANGED <<program, at, group, out, nursery, tasks, child, closure, missed>>

wait_any_check ==
    /\ pc = "check"
    /\ IF i > Len(group)
       THEN Goto("lock") /\ waiter' = [waiter EXCEPT !.held = FALSE, !.asleep = TRUE]
       ELSE IF closure[group[i]].completed
            THEN Goto("unregister") /\ waiter' = [waiter EXCEPT !.held = FALSE]
            ELSE Advance /\ UNCHANGED waiter
    /\ UNCHANGED <<program, at, group, out, nursery, tasks, child, closure, missed>>

(* Taking the waiter out without the closure's mutex (mutation). *)
wait_any_clear ==
    /\ pc = "unregister"
    /\ closure' = [t \in Threads |-> [closure[t] EXCEPT !.shared_waiter = FALSE]]
    /\ waiter' = NoWaiter /\ Goto("cancel")
    /\ UNCHANGED <<program, at, group, out, nursery, tasks, child, missed>>

wait_any_unregister ==
    /\ pc = "unregister" /\ EnterWaiter(FALSE, "cancel")
    /\ waiter' = IF i > Len(group) THEN NoWaiter ELSE waiter

----------------------------------------------------------------------------
(* The thread: its trampoline and coex_task_signal_complete. *)

Step(t, from, to) == child[t] = from /\ child' = [child EXCEPT ![t] = to]

(* Registration with the collector, the frame, the closure in thread-local storage. *)
trampoline_enter(t) ==
    /\ Step(t, "start", "body")
    /\ UNCHANGED <<main, closure, waiter, missed>>

(* The body ends, and the trampoline stores its result. *)
trampoline_store(t) ==
    /\ Step(t, "body", "stored")
    /\ \E value \in inject_safepoint(t) : closure' = [closure EXCEPT ![t].result = value]
    /\ UNCHANGED <<main, waiter, missed>>

(* The frame that has rooted the result is popped before the signal. *)
trampoline_pop(t) ==
    /\ Step(t, "stored", "popped")
    /\ UNCHANGED <<main, closure, waiter, missed>>

signal_lock(t) ==
    /\ Step(t, "popped", IF closure[t].shared_waiter THEN "toWaiter" ELSE "unlock")
    /\ ~closure[t].locked
    /\ closure' = [closure EXCEPT ![t].completed = TRUE, ![t].locked = TRUE]
    /\ UNCHANGED <<main, waiter, missed>>

(* The waiter is signalled under its mutex; the closure's is still held. *)
signal_waiter(t) ==
    /\ Step(t, "toWaiter", "unlock")
    /\ ~waiter.held
    /\ waiter' = [waiter EXCEPT !.asleep = FALSE]
    /\ UNCHANGED <<main, closure, missed>>

signal_unlock(t) ==
    /\ Step(t, "unlock", "leaving")
    /\ closure' = [closure EXCEPT ![t].locked = FALSE]
    /\ UNCHANGED <<main, waiter, missed>>

(* gc_unregister_thread and the end of the thread. *)
trampoline_leave(t) ==
    /\ Step(t, "leaving", "ended")
    /\ UNCHANGED <<main, closure, waiter, missed>>

(* A task ends as the scheduler lets it. *)
TaskEnds(t) ==
    /\ \E k \in DOMAIN program : program[k].op = "task"
    /\ Step(t, "task", "ended")
    /\ UNCHANGED <<main, closure, waiter, missed>>

(* A collection: the results in closures have no root, nor has a shadow    *)
(* stack frame any more.                                                   *)
Collect ==
    LET unrooted == {t \in Threads : /\ child[t] \in {"popped", "toWaiter", "unlock", "leaving", "ended"}
                                     /\ closure[t].alive}
    IN  /\ \E t \in unrooted : missed[t] < Grace
        /\ missed' = [t \in Threads |-> IF t \in unrooted /\ missed[t] < Grace THEN missed[t] + 1 ELSE missed[t]]
        /\ UNCHANGED <<main, child, closure, waiter>>

----------------------------------------------------------------------------
(* Bare calls and the epilogue *)

(* The arrays of the nursery have Slots entries and no test of it: a call  *)
(* too many writes past them, and what the function does then is open.     *)
add_to_nursery(t) ==
    IF Len(nursery) < Slots THEN nursery' = Append(nursery, t) /\ Leave
    ELSE Goto("overrun") /\ UNCHANGED <<nursery, at>>

fire_and_forget_thread ==
    /\ pc = "next" /\ Runs("bare")
    /\ \E t \in Threads : spawn_task(t, 1) /\ add_to_nursery(t)
    /\ UNCHANGED <<program, group, out, tasks>>

add_to_task_nursery(t) ==
    IF ~has_active_nursery(program, at) THEN UNCHANGED tasks /\ Leave
    ELSE IF Len(tasks) < Slots THEN tasks' = Append(tasks, t) /\ Leave
    ELSE Goto("overrun") /\ UNCHANGED <<tasks, at>>

fire_and_forget_task ==
    /\ pc = "next" /\ Runs("task")
    /\ \E t \in Threads :
         /\ Started(t) /\ child' = [child EXCEPT ![t] = "task"]
         /\ add_to_task_nursery(t)
    /\ UNCHANGED <<program, group, out, nursery, closure, waiter, missed>>

(* A return, taken or not, and the implicit one behind the last statement. *)
generate_return ==
    /\ pc = "next" /\ Runs("return")
    /\ \/ Leave
       \/ /\ Goto(IF has_active_nursery(program, at) THEN "epilogue" ELSE "left")
          /\ UNCHANGED at
    /\ UNCHANGED <<program, group, out, nursery, tasks, child, closure, waiter, missed>>

implicit_return ==
    /\ pc = "next" /\ at > Len(program)
    /\ Goto(IF has_active_nursery(program, at) THEN "epilogue" ELSE "left")
    /\ UNCHANGED <<program, at, group, out, nursery, tasks, child, closure, waiter, missed>>

join_nursery ==
    /\ pc = "epilogue"
    /\ IF i > Len(nursery) THEN Goto("taskEpilogue") /\ UNCHANGED closure
       ELSE /\ child[nursery[i]] = "ended"
            /\ closure' = coex_task_closure_free(closure, nursery[i])
            /\ Advance
    /\ UNCHANGED <<program, at, group, out, nursery, tasks, child, waiter, missed>>

(* An epilogue that leaves the tasks out (mutation). *)
skip_task_nursery ==
    /\ pc = "taskEpilogue"
    /\ Goto("left")
    /\ UNCHANGED <<program, at, group, out, nursery, tasks, child, closure, waiter, missed>>

join_task_nursery ==
    /\ pc = "taskEpilogue"
    /\ IF i > Len(tasks) THEN Goto("left") ELSE child[tasks[i]] = "ended" /\ Advance
    /\ UNCHANGED <<program, at, group, out, nursery, tasks, child, closure, waiter, missed>>

----------------------------------------------------------------------------
wait_any == wait_any_scan \/ wait_any_register \/ wait_any_lock \/ wait_any_check \/ wait_any_unregister

Function ==
    \/ BeginGroup \/ thread_call \/ parallel_for_spawn \/ parallel_for_collect
    \/ first_spawn \/ wait_any \/ first_cancel \/ first_join \/ most_spawn \/ most_join
    \/ fire_and_forget_thread \/ fire_and_forget_task
    \/ generate_return \/ implicit_return \/ join_nursery \/ join_task_nursery

Thread(t) ==
    \/ trampoline_enter(t) \/ trampoline_store(t) \/ trampoline_pop(t)
    \/ signal_lock(t) \/ signal_waiter(t) \/ signal_unlock(t) \/ trampoline_leave(t)
    \/ TaskEnds(t)

Returned == pc \in {"left", "overrun"} /\ UNCHANGED vars

Next == Function \/ (\E t \in Threads : Thread(t)) \/ Collect \/ Returned

(* The operating system runs every thread; a body ends by itself.  A mutex  *)
(* is waited for by two threads at most, one of which then gives it back   *)
(* and does not come again, so weak fairness is enough.                    *)
Spec == Init /\ [][Next]_vars /\ WF_vars(Function) /\ \A t \in Threads : WF_vars(Thread(t))

----------------------------------------------------------------------------
Results == [value : {"full", "partial", "swept", "null"}, element : Nat]

TypeOK ==
    /\ program \in Programs /\ at \in 1 .. Len(program) + 1 /\ i \in 1 .. MaxThreads + 1
    /\ pc \in {"next", "spawn", "scan", "register", "lock", "check", "unregister", "cancel", "join",
               "collect", "epilogue", "taskEpilogue", "left", "overrun"}
    /\ {group, nursery, tasks} \subseteq Seq(Threads)
    /\ out \in Seq(Results)
    /\ child \in [Threads -> Stages \cup {"task"}]
    /\ closure \in [Threads -> [alive : BOOLEAN, result : {"null", "full", "partial"}, cancelled : BOOLEAN,
                                completed : BOOLEAN, locked : BOOLEAN, shared_waiter : BOOLEAN, param : Nat]]
    /\ waiter \in [alive : BOOLEAN, held : BOOLEAN, asleep : BOOLEAN]
    /\ missed \in [Threads -> 0..Grace]

(* The closures whose i-th the function reads, marks or frees next.        *)
Touched ==
    IF pc = "epilogue" THEN nursery
    ELSE IF pc \in {"scan", "register", "check", "unregister", "cancel", "collect"} \/ (pc = "join" /\ Runs("most"))
    THEN group ELSE <<>>

(* Nothing is used after it was freed: not by a thread whose body has      *)
(* ended, of which it needs its closure, that the function frees, and the  *)
(* waiter on wait_any's stack (the race coex_task.c:171 describes); nor by *)
(* the function, that frees no closure twice.                              *)
NothingFreedInUse ==
    /\ \A t \in Threads :
         /\ child[t] \in {"start", "body", "stored", "popped", "toWaiter", "unlock"} => closure[t].alive
         /\ child[t] = "toWaiter" => waiter.alive
    /\ i \in DOMAIN Touched => closure[Touched[i]].alive

(* A statement's results are those of its elements, in their order, each   *)
(* once, and whole: of a first it is that of element 0 (number 1 here),    *)
(* which is never cancelled, whichever thread was first.  But for results  *)
(* the collector has taken (ResultSurvives).                               *)
ResultsInOrder ==
    pc = "next" /\ at > 1 /\ program[at - 1].op \in Groups \cup {"call"} =>
      LET s == program[at - 1]
      IN  /\ Len(out) = IF s.op = "first" /\ s.n > 0 THEN 1 ELSE s.n
          /\ \A k \in DOMAIN out : out[k].value \in {"full", "swept"} /\ out[k].element = k
          /\ \A k \in DOMAIN group : ~closure[group[k]].alive

(* Structured concurrency: when the function has returned, whatever it     *)
(* started has ended and every closure is freed.  It holds if the return   *)
(* taken is the first whose code was generated.                            *)
ScopeJoined ==
    pc = "left" /\ has_active_nursery(program, at) =>
      \A t \in Spawned : child[t] = "ended" /\ ~closure[t].alive

(* The same of every return, as the comments at statements.py:1575 and     *)
(* functions.py:878 have it.                                               *)
StructuredConcurrency == pc = "left" => \A t \in Spawned : child[t] = "ended"

(* "Root the result handle so it survives GC between task completion and   *)
(* main thread consumption" (thread.py:542).                               *)
ResultSurvives == \A k \in DOMAIN out : out[k].value # "swept"

(* Every statement comes to its end: no completion is missed by wait_any,  *)
(* and no mutex is waited for in a circle.                                 *)
FunctionReturns == <>(pc \in {"left", "overrun"})
============================================================================
