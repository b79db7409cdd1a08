----------------------------- MODULE Scheduler -----------------------------
(***************************************************************************)
(* The work-stealing scheduler of runtime/coex_scheduler.c: program threads*)
(* submit tasks to a global stack and join them, workers take tasks from   *)
(* their own deque, the global stack or another worker's deque and park    *)
(* when they find none, a task that needs a subtask suspends until the     *)
(* subtask's worker queues it again with the subtask's value.              *)
(*                                                                         *)
(* A deque is the abstract deque of TaskDeque (module WorkDeque shows that *)
(* the Chase-Lev code implements it): a sequence from top to bottom whose  *)
(* operations are single steps.  A push or pop of the global stack is one  *)
(* step, as if its compare-and-swap loop were free of ABA.  Tasks of first *)
(* and most groups are the subject of FirstWins and MostCollect.           *)
(***************************************************************************)
EXTENDS Integers, FiniteSets, SequencesExt

CONSTANTS
  Mains,     \* program threads (func context) that submit and join tasks
  N,         \* worker_count
  MaxTasks,  \* bound: how many tasks are created
  None       \* no task, no thread, no value

ASSUME WorkersAssumption == N \in Nat \ {0}
ASSUME BoundAssumption   == MaxTasks \in Nat
ASSUME NoneAssumption    == None \notin 0 .. MaxTasks /\ None \notin Mains

Task    == 1 .. MaxTasks
Workers == 0 .. N - 1

VARIABLES
  created,   \* tasks 1 .. created have been allocated
  global,    \* the stack at global_stack_head, top first
  deque,     \* worker_deques
  waiter,    \* task->waiter: the parent to resume
  submitter, \* the thread that owns the mutex, result and done flag of a task
  resolved,  \* task->resolved_value
  awaited,   \* history: the subtask a task is suspended on
  done,      \* tasks whose main_done flag is set
  freed,     \* tasks whose memory has been freed
  joined,    \* history: what join_task returned for a task
  pc, task,  \* where each worker is, and the task it runs
  victim,    \* the index try_steal has reached
  mpc,       \* where each program thread is
  handles    \* the nursery of a program thread: tasks to join, oldest first

taskVars == <<waiter, submitter, resolved, awaited, done, freed, joined>>
vars     == <<created, global, deque, taskVars, pc, task, victim, mpc, handles>>

TypeOK ==
  /\ created \in 0 .. MaxTasks
  /\ global \in Seq(Task) /\ deque \in [Workers -> Seq(Task)]
  /\ waiter \in [Task -> Task \cup {None}]
  /\ submitter \in [Task -> Mains \cup {None}]
  /\ resolved \in [Task -> Task \cup {0}]
  /\ awaited \in [Task -> Task \cup {None}]
  /\ done \subseteq Task /\ freed \subseteq Task
  /\ joined \in [Task -> Task \cup {None}]
  /\ pc \in [Workers -> {"own", "global", "steal", "park", "parked", "run", "wake"}]
  /\ task \in [Workers -> Task \cup {None}]
  /\ victim \in [Workers -> 0 .. N]
  /\ mpc \in [Mains -> {"run", "wake", "join"}]
  /\ handles \in [Mains -> Seq(Task)]

Init ==
  /\ created = 0 /\ global = <<>> /\ deque = [w \in Workers |-> <<>>]
  /\ waiter = [i \in Task |-> None] /\ submitter = [i \in Task |-> None]
  /\ resolved = [i \in Task |-> 0] /\ awaited = [i \in Task |-> None]
  /\ done = {} /\ freed = {} /\ joined = [i \in Task |-> None]
  /\ pc = [w \in Workers |-> "own"] /\ task = [w \in Workers |-> None]
  /\ victim = [w \in Workers |-> 0]
  /\ mpc = [m \in Mains |-> "run"] /\ handles = [m \in Mains |-> <<>>]

Goto(w, from, to) == pc[w] = from /\ pc' = [pc EXCEPT ![w] = to]

(* wake_one_worker: pthread_cond_signal wakes one parked worker, if any.   *)
WakeOne(pcs) ==
  IF \E v \in Workers : pcs[v] = "parked"
  THEN \E v \in Workers : pcs[v] = "parked" /\ pc' = [pcs EXCEPT ![v] = "own"]
  ELSE pc' = pcs

-----------------------------------------------------------------------------
(* Program threads: spawn_async and join_task; spawn_and_wait is one after *)
(* the other, and join_task_nursery joins the tasks in the order of their  *)
(* spawning.                                                               *)

SpawnAsync(m) ==
  /\ mpc[m] = "run" /\ created < MaxTasks
  /\ created' = created + 1
  /\ submitter' = [submitter EXCEPT ![created + 1] = m]
  /\ global' = <<created + 1>> \o global
  /\ handles' = [handles EXCEPT ![m] = Append(@, created + 1)]
  /\ mpc' = [mpc EXCEPT ![m] = "wake"]
  /\ UNCHANGED <<deque, waiter, resolved, awaited, done, freed, joined, pc, task, victim>>

SpawnWake(m) ==
  /\ mpc[m] = "wake" /\ mpc' = [mpc EXCEPT ![m] = "run"]
  /\ WakeOne(pc)
  /\ UNCHANGED <<created, global, deque, taskVars, task, victim, handles>>

BeginJoin(m) ==
  /\ mpc[m] = "run" /\ handles[m] # <<>>
  /\ mpc' = [mpc EXCEPT ![m] = "join"]
  /\ UNCHANGED <<created, global, deque, taskVars, pc, task, victim, handles>>

(* The wait on main_done under main_mutex is over: the result is read and  *)
(* the task freed.                                                         *)
JoinTask(m) ==
  /\ mpc[m] = "join" /\ Head(handles[m]) \in done
  /\ LET i == Head(handles[m])
     IN /\ joined' = [joined EXCEPT ![i] = i]
        /\ freed' = freed \cup {i}
  /\ handles' = [handles EXCEPT ![m] = Tail(@)]
  /\ mpc' = [mpc EXCEPT ![m] = "run"]
  /\ UNCHANGED <<created, global, deque, waiter, submitter, resolved, awaited, done,
                 pc, task, victim>>

-----------------------------------------------------------------------------
(* A worker looks for a task: its own deque (newest first), the global     *)
(* stack, the top of the other deques.                                     *)

Run(w, i, from) == Goto(w, from, "run") /\ task' = [task EXCEPT ![w] = i]

PopOwn(w) ==
  /\ \/ /\ deque[w] # <<>>
        /\ Run(w, Last(deque[w]), "own")
        /\ deque' = [deque EXCEPT ![w] = Front(@)]
     \/ /\ deque[w] = <<>>
        /\ Goto(w, "own", "global") /\ UNCHANGED <<deque, task>>
  /\ UNCHANGED <<created, global, taskVars, victim, mpc, handles>>

PopGlobal(w) ==
  /\ \/ /\ global # <<>>
        /\ Run(w, Head(global), "global")
        /\ global' = Tail(global) /\ UNCHANGED victim
     \/ /\ global = <<>>
        /\ Goto(w, "global", "steal") /\ victim' = [victim EXCEPT ![w] = 0]
        /\ UNCHANGED <<global, task>>
  /\ UNCHANGED <<created, deque, taskVars, mpc, handles>>

(* deque_steal may also return NULL because another worker was faster.     *)
StealNext(w) ==
  /\ pc[w] = "steal" /\ victim[w] < N
  /\ LET v == victim[w]
     IN \/ /\ v # w /\ deque[v] # <<>>
           /\ Run(w, Head(deque[v]), "steal")
           /\ deque' = [deque EXCEPT ![v] = Tail(@)]
           /\ victim' = [victim EXCEPT ![w] = 0]
        \/ /\ victim' = [victim EXCEPT ![w] = v + 1]
           /\ UNCHANGED <<deque, pc, task>>
  /\ UNCHANGED <<created, global, taskVars, mpc, handles>>

FoundNothing(w) ==
  /\ victim[w] = N /\ Goto(w, "steal", "park")
  /\ victim' = [victim EXCEPT ![w] = 0]
  /\ UNCHANGED <<created, global, deque, taskVars, task, mpc, handles>>

Park(w) ==
  /\ Goto(w, "park", "parked")
  /\ UNCHANGED <<created, global, deque, taskVars, task, victim, mpc, handles>>

ParkForEver(w) ==             \* mutation: a wait without a time limit
  /\ FALSE /\ Goto(w, "parked", "own")
  /\ UNCHANGED <<created, global, deque, taskVars, task, victim, mpc, handles>>

(* pthread_cond_timedwait gives up after a millisecond. *)
ParkTimeout(w) ==
  /\ Goto(w, "parked", "own")
  /\ UNCHANGED <<created, global, deque, taskVars, task, victim, mpc, handles>>

-----------------------------------------------------------------------------
(* coex_scheduler_run_task for a task of no group *)

RunSpawnRequeued(w) ==        \* mutation: the suspended parent is queued as well
  /\ Goto(w, "run", "wake") /\ created < MaxTasks
  /\ created' = created + 1
  /\ waiter' = [waiter EXCEPT ![created + 1] = task[w]]
  /\ awaited' = [awaited EXCEPT ![task[w]] = created + 1]
  /\ deque' = [deque EXCEPT ![w] = @ \o <<task[w], created + 1>>]
  /\ task' = [task EXCEPT ![w] = None]
  /\ UNCHANGED <<global, submitter, resolved, done, freed, joined, victim, mpc, handles>>

(* TASK_RESULT_SPAWN: the child knows its waiter and goes to the bottom of *)
(* the worker's own deque; the parent is in no queue until it is resumed.  *)
RunSpawn(w) ==
  /\ Goto(w, "run", "wake") /\ created < MaxTasks
  /\ created' = created + 1
  /\ waiter' = [waiter EXCEPT ![created + 1] = task[w]]
  /\ awaited' = [awaited EXCEPT ![task[w]] = created + 1]
  /\ deque' = [deque EXCEPT ![w] = Append(@, created + 1)]
  /\ task' = [task EXCEPT ![w] = None]
  /\ UNCHANGED <<global, submitter, resolved, done, freed, joined, victim, mpc, handles>>

(* TASK_RESULT_DONE with a thread waiting: the result and the flag are     *)
(* written under main_mutex, and the task is left to the joiner.           *)
DoneForMain(w) ==
  /\ Goto(w, "run", "own") /\ submitter[task[w]] # None
  /\ done' = done \cup {task[w]}
  /\ task' = [task EXCEPT ![w] = None]
  /\ UNCHANGED <<created, global, deque, waiter, submitter, resolved, awaited, freed,
                 joined, victim, mpc, handles>>

DoneWithoutValue(w) ==        \* mutation: the parent is pushed before the value is stored
  /\ Goto(w, "run", "wake") /\ submitter[task[w]] = None
  /\ deque' = [deque EXCEPT ![w] = Append(@, waiter[task[w]])]
  /\ freed' = freed \cup {task[w]}
  /\ task' = [task EXCEPT ![w] = None]
  /\ UNCHANGED <<created, global, waiter, submitter, resolved, awaited, done, joined, victim,
                 mpc, handles>>

(* TASK_RESULT_DONE with a parent waiting: the value is stored before the  *)
(* parent is pushed; then a worker is woken and the child freed.           *)
DoneForParent(w) ==
  /\ Goto(w, "run", "wake") /\ submitter[task[w]] = None
  /\ LET parent == waiter[task[w]]
     IN /\ resolved' = [resolved EXCEPT ![parent] = task[w]]
        /\ deque' = [deque EXCEPT ![w] = Append(@, parent)]
  /\ freed' = freed \cup {task[w]}
  /\ task' = [task EXCEPT ![w] = None]
  /\ UNCHANGED <<created, global, waiter, submitter, awaited, done, joined, victim,
                 mpc, handles>>

WakeAfterPush(w) ==
  /\ pc[w] = "wake" /\ WakeOne([pc EXCEPT ![w] = "own"])
  /\ UNCHANGED <<created, global, deque, taskVars, task, victim, mpc, handles>>

-----------------------------------------------------------------------------
MainStep(m) == SpawnWake(m) \/ BeginJoin(m) \/ JoinTask(m)

SearchStep(w) ==
  PopOwn(w) \/ PopGlobal(w) \/ StealNext(w) \/ FoundNothing(w) \/ Park(w) \/ ParkTimeout(w)

RunTaskStep(w) == RunSpawn(w) \/ DoneForMain(w) \/ DoneForParent(w) \/ WakeAfterPush(w)

WorkerStep(w) == SearchStep(w) \/ RunTaskStep(w)

Next ==
  \/ \E m \in Mains : SpawnAsync(m) \/ MainStep(m)
  \/ \E w \in Workers : WorkerStep(w)

(* Threads are scheduled, and a timed wait ends.  No program thread has to *)
(* spawn, and no steal has to succeed: a deque's owner empties it.         *)
Fairness ==
  /\ \A m \in Mains : WF_vars(MainStep(m))
  /\ \A w \in Workers : WF_vars(WorkerStep(w))

Spec     == Init /\ [][Next]_vars
FairSpec == Spec /\ Fairness

-----------------------------------------------------------------------------
(* Properties *)

(* The places a task is in: its queue positions and the workers' hands.    *)
Places(i) ==
  {<<N, k>> : k \in {k \in DOMAIN global : global[k] = i}}
  \cup (UNION {{<<w, k>> : k \in {k \in DOMAIN deque[w] : deque[w][k] = i}} : w \in Workers})
  \cup {<<w, 0>> : w \in {w \in Workers : task[w] = i}}

Live(i) == i <= created /\ i \notin freed /\ i \notin done

Suspended(i) == \E c \in Task : Live(c) /\ waiter[c] = i

(* Tasks pass from queue to worker to queue without being lost or doubled: *)
(* a live task is in exactly one place, or it is suspended on a live       *)
(* subtask and in none.  (run_task, push/pop/steal, global stack; the      *)
(* state is well typed besides.)                                           *)
NoTaskLostOrDoubled ==
  /\ TypeOK
  /\ \A i \in Task : Cardinality(Places(i)) = IF Live(i) /\ ~Suspended(i) THEN 1 ELSE 0

(* A task that suspended comes back with the value of the very subtask it  *)
(* spawned last, whichever worker ran it.                                  *)
ResumedWithItsValue ==
  \A i \in Task : Places(i) # {} /\ awaited[i] # None => resolved[i] = awaited[i]

(* Every task a program thread joins ends, and the join returns: no task   *)
(* stays in a queue while the workers sleep.                               *)
JoinReturns == \A m \in Mains : mpc[m] = "join" ~> mpc[m] = "run"
=============================================================================
