----------------------------- MODULE FirstWins -----------------------------
(***************************************************************************)
(* The `first` group of runtime/coex_scheduler.c: a main thread spawns one *)
(* task per element of a collection into a FirstContext, workers run the   *)
(* tasks, a finished task tries to become the winner by compare-and-swap   *)
(* on winner_index and cancels the tasks of higher index, and the main     *)
(* thread waits until every task has been counted.                         *)
(*                                                                         *)
(* An atomic access of the C code is one action; a section under ctx->mutex*)
(* is split wherever it makes an access that is visible outside the mutex  *)
(* (winner_index and the cancelled flags are read without it).  The queues *)
(* a ready task waits in (global stack, deques) are the set `ready`: any   *)
(* worker may take any of its tasks.                                       *)
(***************************************************************************)
EXTENDS Integers, FiniteSets

CONSTANTS
  Count,        \* ctx->task_count: the length of the collection
  Workers,      \* the worker threads
  Value,        \* the value the task of an index returns
  MaxSuspends,  \* bound: how often a task spawns a subtask and suspends
  Main,         \* the thread inside coex_scheduler_first_wait
  NoOne         \* no holder of the mutex, no task of a worker

Tasks    == 0 .. Count - 1
NoWinner == Count           \* INT64_MAX: larger than every index

ASSUME CountAssumption   == Count \in Nat \ {0}
ASSUME ValueAssumption   == Value \in [Tasks -> Int]
ASSUME BoundAssumption   == MaxSuspends \in Nat
ASSUME WorkersAssumption == Main \notin Workers /\ NoOne \notin Workers /\ Main # NoOne
ASSUME NoTaskAssumption  == NoOne \notin Tasks

VARIABLES
  main,          \* where the main thread is
  nspawn,        \* tasks[0 .. nspawn-1] have been created and pushed
  result,        \* what first_wait returned
  ready,         \* tasks in some queue
  suspended,     \* tasks waiting for a subtask they spawned
  freed,         \* tasks whose memory has been freed
  cancelled,     \* tasks whose cancelled flag is set
  suspends,      \* how many subtasks a task has spawned
  winner_index,  \* ctx->winner_index
  winner_value,  \* ctx->winner_value
  completed,     \* ctx->completed
  mutex,         \* the holder of ctx->mutex
  pc,            \* where each worker is
  task,          \* the task a worker runs
  seen,          \* current_winner in handle_first_completion
  nth,           \* the loop index of the cancellation loop
  misuse         \* history: a freed task or a destroyed context was accessed

ctxVars  == <<winner_index, winner_value, completed>>
taskVars == <<ready, suspended, freed, cancelled, suspends>>
mainVars == <<main, nspawn, result>>
workVars == <<pc, task, seen, nth>>
vars     == <<ctxVars, taskVars, mainVars, workVars, mutex, misuse>>

MainPcs == {"spawn", "lock", "test", "wait", "done", "gone"}
WorkPcs == {"idle", "check", "drop", "run", "recheckDone", "recheckSpawn",
            "load", "cas", "lock", "won", "cancel", "unlock",
            "count", "countDrop", "last", "lastDrop", "signal", "signalDrop"}

TypeOK ==
  /\ main \in MainPcs /\ nspawn \in 0 .. Count /\ result \in Int
  /\ ready \subseteq Tasks /\ suspended \subseteq Tasks
  /\ freed \subseteq Tasks /\ cancelled \subseteq Tasks
  /\ suspends \in [Tasks -> 0 .. MaxSuspends]
  /\ winner_index \in 0 .. Count /\ winner_value \in Int /\ completed \in Nat
  /\ mutex \in Workers \cup {Main, NoOne}
  /\ pc \in [Workers -> WorkPcs]
  /\ task \in [Workers -> Tasks \cup {NoOne}]
  /\ seen \in [Workers -> 0 .. Count]
  /\ nth \in [Workers -> 0 .. Count]
  /\ misuse \in BOOLEAN

Init ==
  /\ main = "spawn" /\ nspawn = 0 /\ result = 0
  /\ ready = {} /\ suspended = {} /\ freed = {} /\ cancelled = {}
  /\ suspends = [i \in Tasks |-> 0]
  /\ winner_index = NoWinner /\ winner_value = 0 /\ completed = 0
  /\ mutex = NoOne
  /\ pc = [w \in Workers |-> "idle"]
  /\ task = [w \in Workers |-> NoOne]
  /\ seen = [w \in Workers |-> NoWinner]
  /\ nth = [w \in Workers |-> 0]
  /\ misuse = FALSE

ctxLive == main # "gone"

Goto(w, from, to) == pc[w] = from /\ pc' = [pc EXCEPT ![w] = to]

(* An access to the context by a worker: recorded when it comes too late.  *)
TouchContext == misuse' = (misuse \/ ~ctxLive)

(* pthread_cond_signal(&ctx->cond): the one waiter leaves the wait and     *)
(* has to take the mutex again.                                            *)
SignalMain == main' = IF main = "wait" THEN "lock" ELSE main

-----------------------------------------------------------------------------
(* The main thread *)

FirstSpawnTask ==
  /\ main = "spawn" /\ nspawn < Count
  /\ nspawn' = nspawn + 1
  /\ ready' = ready \cup {nspawn}
  /\ UNCHANGED <<main, result, suspended, freed, cancelled, suspends,
                 ctxVars, workVars, mutex, misuse>>

FirstWait ==
  /\ main = "spawn" /\ nspawn = Count
  /\ main' = "lock"
  /\ UNCHANGED <<nspawn, result, taskVars, ctxVars, workVars, mutex, misuse>>

FirstWaitLock ==
  /\ main = "lock" /\ mutex = NoOne
  /\ main' = "test" /\ mutex' = Main
  /\ UNCHANGED <<nspawn, result, taskVars, ctxVars, workVars, misuse>>

FirstWaitSleep ==
  /\ main = "test" /\ completed < Count
  /\ main' = "wait" /\ mutex' = NoOne
  /\ UNCHANGED <<nspawn, result, taskVars, ctxVars, workVars, misuse>>

FirstWaitReturnEarly ==       \* mutation: a winner is enough to return
  /\ main = "test" /\ winner_index # NoWinner
  /\ main' = "done" /\ mutex' = NoOne /\ result' = winner_value
  /\ UNCHANGED <<nspawn, taskVars, ctxVars, workVars, misuse>>

FirstWaitReturn ==
  /\ main = "test" /\ completed >= Count
  /\ main' = "done" /\ mutex' = NoOne /\ result' = winner_value
  /\ UNCHANGED <<nspawn, taskVars, ctxVars, workVars, misuse>>

(* pthread_cond_wait may return without a signal; it need not ever do so.  *)
SpuriousWakeup ==
  /\ main = "wait" /\ main' = "lock"
  /\ UNCHANGED <<nspawn, result, taskVars, ctxVars, workVars, mutex, misuse>>

FirstContextDestroy ==
  /\ main = "done" /\ main' = "gone"
  /\ UNCHANGED <<nspawn, result, taskVars, ctxVars, workVars, mutex, misuse>>

-----------------------------------------------------------------------------
(* A worker: coex_scheduler_run_task up to the call of the handler *)

Take(w, i) ==
  /\ Goto(w, "idle", "check")
  /\ i \in ready /\ ready' = ready \ {i}
  /\ task' = [task EXCEPT ![w] = i]
  /\ UNCHANGED <<suspended, freed, cancelled, suspends, seen, nth,
                 ctxVars, mainVars, mutex, misuse>>

CheckCancelled(w) ==
  /\ \/ task[w] \in cancelled /\ Goto(w, "check", "drop")
     \/ task[w] \notin cancelled /\ Goto(w, "check", "run")
  /\ UNCHANGED <<task, seen, nth, taskVars, ctxVars, mainVars, mutex, misuse>>

DropUncounted(w) ==           \* mutation: a task cancelled early is not counted
  /\ Goto(w, "drop", "idle")
  /\ freed' = freed \cup {task[w]}
  /\ task' = [task EXCEPT ![w] = NoOne]
  /\ UNCHANGED <<ready, suspended, cancelled, suspends, seen, nth, ctxVars, mainVars,
                 mutex, misuse>>

(* A task cancelled before it ran: counted and freed, nobody is signalled. *)
DropBeforeRun(w) ==
  /\ Goto(w, "drop", "idle")
  /\ completed' = completed + 1
  /\ freed' = freed \cup {task[w]}
  /\ task' = [task EXCEPT ![w] = NoOne]
  /\ TouchContext
  /\ UNCHANGED <<ready, suspended, cancelled, suspends, seen, nth,
                 winner_index, winner_value, mainVars, mutex>>

(* step_fn: the task finishes, or asks for a subtask.                      *)
RunStep(w) ==
  /\ \/ Goto(w, "run", "recheckDone") /\ UNCHANGED suspends
     \/ /\ Goto(w, "run", "recheckSpawn")
        /\ suspends[task[w]] < MaxSuspends
        /\ suspends' = [suspends EXCEPT ![task[w]] = @ + 1]
  /\ UNCHANGED <<ready, suspended, freed, cancelled, task, seen, nth,
                 ctxVars, mainVars, mutex, misuse>>

RecheckCancelled(w) ==
  /\ task[w] \in cancelled
  /\ Goto(w, "recheckDone", "countDrop") \/ Goto(w, "recheckSpawn", "countDrop")
  /\ UNCHANGED <<task, seen, nth, taskVars, ctxVars, mainVars, mutex, misuse>>

RecheckDone(w) ==
  /\ task[w] \notin cancelled /\ Goto(w, "recheckDone", "load")
  /\ UNCHANGED <<task, seen, nth, taskVars, ctxVars, mainVars, mutex, misuse>>

(* TASK_RESULT_SPAWN: the child is queued, the parent stays suspended.     *)
Suspend(w) ==
  /\ task[w] \notin cancelled /\ Goto(w, "recheckSpawn", "idle")
  /\ suspended' = suspended \cup {task[w]}
  /\ task' = [task EXCEPT ![w] = NoOne]
  /\ UNCHANGED <<ready, freed, cancelled, suspends, seen, nth,
                 ctxVars, mainVars, mutex, misuse>>

(* The subtask of i ends: its worker queues the waiter again.              *)
Resume(i) ==
  /\ i \in suspended /\ suspended' = suspended \ {i} /\ ready' = ready \cup {i}
  /\ UNCHANGED <<freed, cancelled, suspends, ctxVars, mainVars, workVars, mutex, misuse>>

-----------------------------------------------------------------------------
(* A worker: handle_first_completion *)

LoadWinner(w) ==
  /\ seen' = [seen EXCEPT ![w] = winner_index]
  /\ \/ Goto(w, "load", "count") /\ task[w] >= winner_index
     \/ Goto(w, "load", "cas") /\ task[w] < winner_index
  /\ TouchContext
  /\ UNCHANGED <<task, nth, taskVars, ctxVars, mainVars, mutex>>

CasWinner(w) ==
  /\ \/ /\ winner_index = seen[w] /\ Goto(w, "cas", "lock")
        /\ winner_index' = task[w]
     \/ /\ winner_index # seen[w] /\ Goto(w, "cas", "load")
        /\ UNCHANGED winner_index
  /\ TouchContext
  /\ UNCHANGED <<winner_value, completed, task, seen, nth, taskVars, mainVars, mutex>>

LockContext(w) ==
  /\ mutex = NoOne /\ mutex' = w /\ Goto(w, "lock", "won")
  /\ TouchContext
  /\ UNCHANGED <<task, seen, nth, taskVars, ctxVars, mainVars>>

StoreUnchecked(w) ==          \* mutation: the winner is not looked at again
  /\ Goto(w, "won", "cancel")
  /\ winner_value' = Value[task[w]]
  /\ nth' = [nth EXCEPT ![w] = task[w] + 1]
  /\ TouchContext
  /\ UNCHANGED <<winner_index, completed, task, seen, taskVars, mainVars, mutex>>

StoreAndCancelAll(w) ==       \* mutation: the winner cancels from element 0 on
  /\ \/ /\ winner_index = task[w] /\ Goto(w, "won", "cancel")
        /\ winner_value' = Value[task[w]]
        /\ nth' = [nth EXCEPT ![w] = 0]
     \/ /\ winner_index # task[w] /\ Goto(w, "won", "unlock")
        /\ UNCHANGED <<winner_value, nth>>
  /\ TouchContext
  /\ UNCHANGED <<winner_index, completed, task, seen, taskVars, mainVars, mutex>>

StoreOrKeepMutex(w) ==        \* mutation: who lost returns without unlocking
  /\ \/ /\ winner_index = task[w] /\ Goto(w, "won", "cancel")
        /\ winner_value' = Value[task[w]]
        /\ nth' = [nth EXCEPT ![w] = task[w] + 1]
     \/ /\ winner_index # task[w] /\ Goto(w, "won", "count")
        /\ UNCHANGED <<winner_value, nth>>
  /\ TouchContext
  /\ UNCHANGED <<winner_index, completed, task, seen, taskVars, mainVars, mutex>>

(* The winner is looked at again under the mutex before it stores.         *)
StoreValue(w) ==
  /\ \/ /\ winner_index = task[w] /\ Goto(w, "won", "cancel")
        /\ winner_value' = Value[task[w]]
        /\ nth' = [nth EXCEPT ![w] = task[w] + 1]
     \/ /\ winner_index # task[w] /\ Goto(w, "won", "unlock")
        /\ UNCHANGED <<winner_value, nth>>
  /\ TouchContext
  /\ UNCHANGED <<winner_index, completed, task, seen, taskVars, mainVars, mutex>>

(* One turn of the loop over ctx->tasks; an entry not yet stored is NULL.  *)
CancelSibling(w) ==
  /\ pc[w] = "cancel" /\ nth[w] < Count
  /\ nth' = [nth EXCEPT ![w] = @ + 1]
  /\ IF nth[w] < nspawn
     THEN /\ cancelled' = cancelled \cup {nth[w]}
          /\ misuse' = (misuse \/ ~ctxLive \/ nth[w] \in freed)
     ELSE TouchContext /\ UNCHANGED cancelled
  /\ UNCHANGED <<pc, task, seen, ready, suspended, freed, suspends, ctxVars, mainVars, mutex>>

CancelDone(w) ==
  /\ nth[w] >= Count /\ Goto(w, "cancel", "unlock")
  /\ UNCHANGED <<task, seen, nth, taskVars, ctxVars, mainVars, mutex, misuse>>

SignalUnlock(w) ==
  /\ Goto(w, "unlock", "count") /\ mutex' = NoOne
  /\ SignalMain /\ TouchContext
  /\ UNCHANGED <<nspawn, result, task, seen, nth, taskVars, ctxVars>>

(* The count at the end of the handler, or of a cancelled task that ran    *)
CountTask(w) ==
  /\ Goto(w, "count", "last") \/ Goto(w, "countDrop", "lastDrop")
  /\ completed' = completed + 1
  /\ TouchContext
  \* new_completed stays with the worker
  /\ nth' = [nth EXCEPT ![w] = completed + 1]
  /\ UNCHANGED <<winner_index, winner_value, task, seen, taskVars, mainVars, mutex>>

(* The end of run_task: a dropped task is freed, a finished one is not,    *)
(* and the locals are gone.                                                *)
Leave(w, drops) ==
  /\ freed' = IF drops THEN freed \cup {task[w]} ELSE freed
  /\ task' = [task EXCEPT ![w] = NoOne]
  /\ seen' = [seen EXCEPT ![w] = NoWinner]
  /\ nth' = [nth EXCEPT ![w] = 0]

(* new_completed >= ctx->task_count; once the context is destroyed the     *)
(* task_count read is arbitrary, so either branch may be taken.            *)
LastTest(w, drops) ==
  LET at == IF drops THEN "lastDrop" ELSE "last"
      to == IF drops THEN "signalDrop" ELSE "signal"
  IN /\ \/ /\ nth[w] >= Count \/ ~ctxLive
           /\ Goto(w, at, to) /\ UNCHANGED <<freed, task, seen, nth>>
        \/ /\ nth[w] < Count \/ ~ctxLive
           /\ Goto(w, at, "idle") /\ Leave(w, drops)
     /\ TouchContext
     /\ UNCHANGED <<ready, suspended, cancelled, suspends, ctxVars, mainVars, mutex>>

SignalLast(w, drops) ==
  /\ mutex = NoOne
  /\ Goto(w, IF drops THEN "signalDrop" ELSE "signal", "idle")
  /\ SignalMain /\ TouchContext /\ Leave(w, drops)
  /\ UNCHANGED <<nspawn, result, ready, suspended, cancelled, suspends,
                 ctxVars, mutex>>

-----------------------------------------------------------------------------
MainStep ==
  \/ FirstSpawnTask \/ FirstWait \/ FirstWaitLock
  \/ FirstWaitSleep \/ FirstWaitReturn \/ FirstContextDestroy

HandlerStep(w) ==
  \/ LoadWinner(w) \/ CasWinner(w) \/ LockContext(w) \/ StoreValue(w)
  \/ CancelSibling(w) \/ CancelDone(w) \/ SignalUnlock(w) \/ CountTask(w)
  \/ \E drops \in BOOLEAN : LastTest(w, drops) \/ SignalLast(w, drops)

RunTaskStep(w) ==
  \/ \E i \in Tasks : Take(w, i)
  \/ CheckCancelled(w) \/ DropBeforeRun(w) \/ RunStep(w)
  \/ RecheckCancelled(w) \/ RecheckDone(w) \/ Suspend(w)

Next ==
  \/ MainStep \/ SpuriousWakeup
  \/ \E w \in Workers : RunTaskStep(w) \/ HandlerStep(w)
  \/ \E i \in Tasks : Resume(i)

TakeMutex(w) == LockContext(w) \/ \E drops \in BOOLEAN : SignalLast(w, drops)

(* The threads are run by the operating system, a subtask ends, and a      *)
(* thread that keeps asking for the mutex gets it; a spurious wakeup is    *)
(* promised to nobody.                                                     *)
Fairness ==
  /\ WF_vars(MainStep)
  /\ \A w \in Workers : WF_vars(RunTaskStep(w) \/ HandlerStep(w)) /\ SF_vars(TakeMutex(w))
  /\ \A i \in Tasks : WF_vars(Resume(i))

Spec     == Init /\ [][Next]_vars
FairSpec == Spec /\ Fairness

-----------------------------------------------------------------------------
(* Properties *)

(* A worker in one of these places has counted its task, or has none.      *)
Past == {"idle", "last", "lastDrop", "signal", "signalDrop"}

(* The tasks that still have to be counted. *)
Uncounted ==
  {i \in Tasks : \/ i >= nspawn
                 \/ i \in ready \cup suspended
                 \/ \E w \in Workers : task[w] = i /\ pc[w] \notin Past}

(* Every task is counted exactly once, whichever of the four paths of      *)
(* run_task it leaves by: completed and the tasks still on their way       *)
(* always add up to task_count.  (coex_scheduler.c:294-349, 451)           *)
TallyExact == completed + Cardinality(Uncounted) = Count

(* BUG-027: whatever the order in which tasks finish, win and cancel, the  *)
(* value first_wait returns is that of element 0.                          *)
ReturnsLowestIndex == main \in {"done", "gone"} => result = Value[0]

(* "Cancel siblings with HIGHER indexes (they can't win now)": a task is   *)
(* only ever cancelled when a task of lower index has already won.         *)
CancelledOnlyBehindWinner == \A i \in cancelled : winner_index < i

(* Outside the window between a compare-and-swap and the store under the   *)
(* mutex, winner_value is the value of the task winner_index names.        *)
WinnerValueSettled ==
  \/ winner_index = NoWinner
  \/ winner_value = Value[winner_index]
  \/ \E w \in Workers : task[w] = winner_index /\ pc[w] \in {"lock", "won"}

(* Every task of the group is eventually counted. *)
AllCounted == <>(completed = Count)

(* coex_scheduler.c:325 "Signal if all tasks are now done (for wait        *)
(* condition check)": once every task is counted first_wait returns.       *)
WaitReturns == (completed = Count) ~> (main = "gone")

(* A worker never uses a task that has been freed or a context that has    *)
(* been destroyed.                                                         *)
NoLateAccess == ~misuse
=============================================================================
