---------------------------- MODULE MostCollect ----------------------------
(***************************************************************************)
(* The `most` group of runtime/coex_scheduler.c: a main thread spawns one  *)
(* task per element into a MostContext, every finished task claims a slot  *)
(* of the result array with a fetch-and-add, stores its value, counts the  *)
(* store and leaves the group; the last one out signals the main thread,   *)
(* which also spins until every store has been counted.                    *)
(*                                                                         *)
(* An atomic access of the C code is one action.  Nothing sets the         *)
(* cancelled flag of a task of a `most` group, so run_task always reaches  *)
(* the handler.  A task that suspends for a subtask comes back to `ready`. *)
(***************************************************************************)
EXTENDS Integers, FiniteSets

CONSTANTS
  Count,    \* ctx->task_count and ctx->capacity: the length of the collection
  Workers,  \* the worker threads
  Value,    \* the value the task of an element returns
  NoTask    \* a worker runs no task

Tasks == 0 .. Count - 1
Slots == 0 .. Count - 1

ASSUME CountAssumption  == Count \in Nat
ASSUME ValueAssumption  == Value \in [Tasks -> Int]
ASSUME NoTaskAssumption == NoTask \notin Tasks

VARIABLES
  main,            \* where the main thread is
  nspawn,          \* how many tasks have been pushed
  ready,           \* tasks in some queue
  pc,              \* where each worker is
  task,            \* the task a worker runs
  idx,             \* the slot a worker claimed
  remaining,       \* ctx->remaining
  result_count,    \* ctx->result_count
  results_stored,  \* ctx->results_stored
  results,         \* ctx->results
  slotOf           \* history: the slot each task stored its value in

mainVars == <<main, nspawn>>
ctxVars  == <<remaining, result_count, results_stored, results>>
workVars == <<pc, task, idx>>
vars     == <<mainVars, ready, workVars, ctxVars, slotOf>>

TypeOK ==
  /\ main \in {"spawn", "test", "wait", "spin", "done"}
  /\ nspawn \in 0 .. Count /\ ready \subseteq Tasks
  /\ pc \in [Workers -> {"idle", "run", "claim", "store", "stored", "leave", "signal"}]
  /\ task \in [Workers -> Tasks \cup {NoTask}]
  /\ idx \in [Workers -> 0 .. Count]
  /\ remaining \in 0 .. Count
  /\ result_count \in 0 .. Count /\ results_stored \in 0 .. Count
  /\ results \in [Slots -> Int]
  /\ slotOf \in [Tasks -> Slots \cup {-1}]

Init ==
  /\ main = "spawn" /\ nspawn = 0 /\ ready = {}
  /\ pc = [w \in Workers |-> "idle"]
  /\ task = [w \in Workers |-> NoTask]
  /\ idx = [w \in Workers |-> 0]
  /\ remaining = Count /\ result_count = 0 /\ results_stored = 0
  /\ results = [s \in Slots |-> 0]
  /\ slotOf = [i \in Tasks |-> -1]

Goto(w, from, to) == pc[w] = from /\ pc' = [pc EXCEPT ![w] = to]

-----------------------------------------------------------------------------
(* Mutations of the operations below: bugs the properties must reveal. *)

ClaimWithoutAdd(w) ==         \* a load in place of the fetch-and-add
  /\ Goto(w, "claim", "store")
  /\ idx' = [idx EXCEPT ![w] = result_count]
  /\ UNCHANGED <<mainVars, ready, task, ctxVars, slotOf>>

LeaveSilently(w) ==           \* the last task out signals nobody
  /\ Goto(w, "leave", "idle")
  /\ remaining' = remaining - 1
  /\ task' = [task EXCEPT ![w] = NoTask] /\ idx' = [idx EXCEPT ![w] = 0]
  /\ UNCHANGED <<mainVars, ready, result_count, results_stored, results, slotOf>>

-----------------------------------------------------------------------------
(* The main thread *)

MostSpawnTask ==
  /\ main = "spawn" /\ nspawn < Count
  /\ ready' = ready \cup {nspawn} /\ nspawn' = nspawn + 1
  /\ UNCHANGED <<main, workVars, ctxVars, slotOf>>

MostWait ==
  /\ main = "spawn" /\ nspawn = Count
  /\ main' = "test"
  /\ UNCHANGED <<nspawn, ready, workVars, ctxVars, slotOf>>

(* The test of `remaining` under the mutex and the wait are one step: a    *)
(* signal is sent under the same mutex, and the decrement it announces is  *)
(* either seen by the test or comes before a signal the wait receives.     *)
MostWaitTest ==
  /\ main = "test"
  /\ main' = IF remaining > 0 THEN "wait" ELSE "spin"
  /\ UNCHANGED <<nspawn, ready, workVars, ctxVars, slotOf>>

SpuriousWakeup ==
  /\ main = "wait" /\ main' = "test"
  /\ UNCHANGED <<nspawn, ready, workVars, ctxVars, slotOf>>

(* The spin on results_stored and the return of the array to the caller.   *)
MostWaitReturn ==
  /\ main = "spin" /\ results_stored >= Count
  /\ main' = "done"
  /\ UNCHANGED <<nspawn, ready, workVars, ctxVars, slotOf>>

-----------------------------------------------------------------------------
(* A worker *)

Take(w, i) ==
  /\ Goto(w, "idle", "run")
  /\ i \in ready /\ ready' = ready \ {i}
  /\ task' = [task EXCEPT ![w] = i]
  /\ UNCHANGED <<mainVars, idx, ctxVars, slotOf>>

(* The step function ends with TASK_RESULT_DONE, or the task suspends and  *)
(* is queued again when its subtask is done.                               *)
RunDone(w) ==
  /\ Goto(w, "run", "claim")
  /\ UNCHANGED <<mainVars, ready, task, idx, ctxVars, slotOf>>

RunSuspend(w) ==
  /\ Goto(w, "run", "idle")
  /\ ready' = ready \cup {task[w]}
  /\ task' = [task EXCEPT ![w] = NoTask]
  /\ UNCHANGED <<mainVars, idx, ctxVars, slotOf>>

ClaimSlot(w) ==
  /\ Goto(w, "claim", "store")
  /\ idx' = [idx EXCEPT ![w] = result_count]
  /\ result_count' = result_count + 1
  /\ UNCHANGED <<mainVars, ready, task, remaining, results_stored, results, slotOf>>

StoreResult(w) ==
  /\ Goto(w, "store", "stored")
  /\ IF idx[w] < Count
     THEN /\ results' = [results EXCEPT ![idx[w]] = Value[task[w]]]
          /\ slotOf' = [slotOf EXCEPT ![task[w]] = idx[w]]
     ELSE UNCHANGED <<results, slotOf>>
  /\ UNCHANGED <<mainVars, ready, task, idx, remaining, result_count, results_stored>>

CountStored(w) ==
  /\ Goto(w, "stored", "leave")
  /\ results_stored' = results_stored + 1
  /\ UNCHANGED <<mainVars, ready, task, idx, remaining, result_count, results, slotOf>>

LeaveGroup(w) ==
  /\ Goto(w, "leave", IF remaining = 1 THEN "signal" ELSE "idle")
  /\ remaining' = remaining - 1
  /\ task' = [task EXCEPT ![w] = NoTask] /\ idx' = [idx EXCEPT ![w] = 0]
  /\ UNCHANGED <<mainVars, ready, result_count, results_stored, results, slotOf>>

SignalMain(w) ==
  /\ Goto(w, "signal", "idle")
  /\ main' = IF main = "wait" THEN "test" ELSE main
  /\ UNCHANGED <<nspawn, ready, task, idx, ctxVars, slotOf>>

-----------------------------------------------------------------------------
MainStep == MostSpawnTask \/ MostWait \/ MostWaitTest \/ MostWaitReturn

WorkerStep(w) ==
  \/ \E i \in Tasks : Take(w, i)
  \/ RunDone(w) \/ ClaimSlot(w) \/ StoreResult(w) \/ CountStored(w)
  \/ LeaveGroup(w) \/ SignalMain(w)

Next ==
  \/ MainStep \/ SpuriousWakeup
  \/ \E w \in Workers : WorkerStep(w) \/ RunSuspend(w)

(* Threads are scheduled, and a step function is not for ever suspended.   *)
Fairness ==
  /\ WF_vars(MainStep)
  /\ \A w \in Workers : WF_vars(WorkerStep(w)) /\ SF_vars(RunDone(w))

Spec     == Init /\ [][Next]_vars
FairSpec == Spec /\ Fairness

-----------------------------------------------------------------------------
(* Properties *)

(* "Increment stored count AFTER storing": no more stores are counted than *)
(* slots hold the value of a finished task.  (coex_scheduler.c:477)        *)
CountedIsStored == results_stored <= Cardinality({i \in Tasks : slotOf[i] # -1})

(* No store is counted before it was made, and what most_wait hands to its *)
(* caller is complete: each task's value is in a slot of its own, with     *)
(* nothing between the slots.  (handle_most_completion, most_wait)         *)
ResultsComplete ==
  /\ CountedIsStored
  /\ main = "done" =>
       /\ result_count = Count
       /\ \A i \in Tasks : slotOf[i] \in Slots /\ results[slotOf[i]] = Value[i]
       /\ \A i, j \in Tasks : i # j => slotOf[i] # slotOf[j]

(* The decrement of `remaining` and the signal are apart, and the main     *)
(* thread may sleep in between: it is still woken, and returns.            *)
WaitReturns == <>(main = "done")
=============================================================================
