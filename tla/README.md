# TLA+ models of the Coex compiler and runtime

Coex programs are compiled to LLVM IR (`codegen/`, `coex_gc.py`) and linked with
a C runtime (`runtime/`). What is hard to test is of two kinds: code that runs
*beside* the program (the work-stealing task scheduler, the `first` and `most`
groups, channels, threads, and the concurrent garbage collector, whose functions
are emitted as IR by `coex_gc.py`), and code whose result depends on a long
history of legal steps (the persistent collections, updates in place, the state
machines that tasks become). This directory models that code, checks it with TLC
and proves theorems about it with TLAPS. Paths below are relative to the
repository's `src`; `PROJECT.json` maps each definition to its lines.

Contents: 1 inventory, 2 modules and code, 3 runs, 4 proofs, 5 where the code and
its comments part, 6 not modelled, 7 plan.

## 1. Inventory

### The task scheduler (`runtime/coex_scheduler.c`)

State: one Chase-Lev deque per worker, a global Treiber stack, a mutex and a
condition variable for parked workers; in each `SchedulerTask` its waiter (the
parent to resume), its resolved value, a `cancelled` flag, and for tasks a
program thread waits for, a mutex, a condition variable and `main_done`.

Operations: `spawn_async` and `spawn_and_wait` push to the global stack,
`join_task` waits for `main_done`; `worker_loop` takes a task from its own deque,
the global stack or another deque, or parks for a millisecond; `run_task` runs a
step function, which finishes, or asks for a subtask: then the subtask is queued
and the parent is in no queue until the subtask's worker stores the value in it
and pushes it.

Hard: the last element of a deque, growth under thieves, a wakeup sent between a
worker's last look and its wait, a subtask that finishes while the parent's
`run_task` has not returned. Correct when: no task is lost or run twice, a
resumed task sees its own subtask's value, every join returns.

### `first` and `most` groups (`FirstContext`, `MostContext`, `codegen/loops.py`)

`first`: `winner_index`, `winner_value`, `completed`, a mutex and condition
variable, the array of tasks. A finished task with an index below `winner_index`
swaps itself in, stores its value under the mutex, cancels the tasks behind it,
and is counted; a cancelled task is dropped before or after it runs, and counted.
`first_wait` returns when `completed` reaches `task_count`, and the generated
code destroys the context. Correct when: every task is counted once, the value
is that of the lowest index (BUG-027), nobody touches what has been freed, and
the wait returns.

`most`: `remaining`, `result_count` (slots claimed), `results_stored`, the array.
Correct when: the array handed out holds every value once, and the wait returns.

### Task transformation (`task_analysis.py`, `task_transform.py`)

A `task` is cut at its calls of other tasks into the states of a step function
over a heap frame. No state at compile time but counters; the emitted function
keeps `state`, the parameters and locals, the last resolved value, and the index
and end of a loop. Hard: where a state stands in the body is known only by
indices, several levels of them. Correct when: the steps make the calls of the
body, in order, with its arguments, and give its value.

### Threads and nurseries (`runtime/coex_task.c`, `codegen/thread.py`, `codegen/loops.py`)

State: a `TaskClosure` per thread (result, flags, mutex, condition variable,
`shared_waiter`), the nursery arrays of a function and their counts, the
`SharedWaiter` on the stack of `wait_any`. Operations: a thread call waits at once
or is put in the nursery; parallel assignment, `first` and `most` start one thread
for each element; a return joins the nursery. Hard: `wait_any` registers, sleeps
and withdraws while threads complete; who frees the closure; which returns join.
Correct when: nothing is used after it is freed, results are in order, a function
does not outlive what it started, and returns.

### Channels (`runtime/coex_channel.c`, `codegen/channel.py`)

State: a Vyukov queue (`mpsc_head`, `mpsc_tail`, a sentinel), `blocking_count`,
a mutex and a condition variable. `send` swaps the tail, links the node, and
signals if somebody is blocked; `try_receive` follows one link; `receive` tries,
and otherwise counts itself in, looks again under the mutex and sleeps. Hard: the
gap between swap and link; the order of the linking store and the load of
`blocking_count`; a second consumer. Correct when: values come out once each, in
order, nodes are freed when nobody can link to them, a blocked receiver is woken.

### The garbage collector (`coex_gc.py`)

Mutators are never stopped: they run during the whole cycle, and only a pop below
the watermark waits. The collector has four parts that share fields without locks.

* *The cycle.* Per thread the segmented shadow stack (`slot_index`, segments with
  their `slot_count`), `watermark_slot`, `watermark_active`, the allocation list;
  globally `gc_phase`, `gc_cycle_id`, `gc_current_mark_value`, the worklist; in each
  header a generation. The collector raises the generation, asks for watermarks
  and waits for them (10000 yields at most), marks from the shadow stacks, sweeps,
  resets the watermarks.
* *The handle table.* The table and its size, the free and the retired list
  threaded through the slots, `gc_next_handle`, a pool of handles per thread. A pool is
  refilled by a compare-and-swap pop or by claiming a range; the table grows by
  copying; handles retired by a sweep are given back a cycle later.
* *Memory.* A TLAB per thread with a live count in its header, the dead lists of
  two collections. `gc_alloc` bumps the cursor; the sweep counts down and takes a
  buffer away at zero; the compaction copies survivors to one new buffer.
* *The registry.* Entries are linked in by compare-and-swap, marked dead, swept
  until their list is empty, unlinked and freed a cycle later; a thread that ends
  releases its stack segments.

Correct when: no object is freed that a thread can still reach, no handle is given
to two objects, no memory is released or moved that somebody reads or writes, and
every running thread takes part.

### Collections, strings and Json (`codegen/hamt.py`, `list.py`, `array.py`, `conversions.py`, `inplace_ops.py`, `strings.py`, `json_type.py`)

Values: a hash trie for maps and sets, a vector trie with a tail for lists, flat
arrays with views, strings as views of byte buffers, Json as a tagged word. Hard:
removal leaves chains in the trie, and insertions follow; which of two functions
the compiler calls (by word or by text) depends on static types, at many places;
the tag that tells the collector "this word is a handle" has to survive every
conversion; lengths in code points beside sizes in bytes. Correct when: any
sequence of operations gives what it gives on the map, set, sequence, bytes or
document that the value stands for.

### Ownership and updates in place (`analysis/ownership.py`, `codegen/statements.py`)

State, while code is generated: `unique_bindings`, `aliased_vars`; in the analysis
who is unique and moved. `x = x.set(..)` becomes an update in place when `x` seems
to be the only owner. Correct when: a variable changes only when it is written.

### Other parts

The collector's trigger; the atomic types; select statements; the liveness analysis;
the parser, the AST builder and the rest of the code generator (a single-threaded
translation); POSIX and graphics bindings; the driver. Section 6 says why they are
left out.

### Interactions

Generated code calls the scheduler (spawn, join, `first_*`, `most_*`), threads,
channels and the collector's entry points. Workers and threads run code that is a
mutator to the collector. Groups live inside the scheduler: `run_task` calls
`handle_first_completion` or `handle_most_completion`. The scheduler, the threads
and the channels share no state. Where a component is used by another module it is
replaced by what it promises: `Scheduler` uses the abstract deque that `WorkDeque` is
shown to implement; `FirstWins` and `MostCollect` use a set of ready tasks any
worker may take from, which is more than the scheduler allows; in `HandleTable` and
`Heap` the marking may reach any object, which is more than `GcCycle` allows;
`TaskSteps` takes what a called task returns as given, which is the scheduler's
`ResumedWithItsValue`.

## 2. Modules and code

| module | code | state and actions |
|---|---|---|
| `FirstWins` | `first_*`, `handle_first_completion`, the paths of `run_task` for a task of a group, `_generate_scheduler_first` | an action per atomic access; a section under the mutex is split where it touches what others read without it. `freed` and `main = "gone"` record what is no longer there, `misuse` an access that comes too late |
| `MostCollect` | `most_*`, `handle_most_completion`, `_generate_scheduler_most` | claim, store, count and leave are separate actions; `slotOf` remembers who wrote where |
| `TaskDeque` | the header's description of the deque | abstract: a sequence; push, pop and steal are atomic |
| `WorkDeque` | `deque_*` | an action per atomic access; all buffers are kept, as `deque_grow` leaks the old ones |
| `Scheduler` | `spawn_async`, `spawn_and_wait`, `join_task`, `worker_loop`, `try_steal`, `park_worker`, `run_task` | deques and the global stack are sequences; `Places` and `Suspended` say where a task is |
| `Threads` | `coex_task.c`, thread calls, nurseries and the parallel statements | a function body of statements; the function and each thread step by step, closures and the waiter as records |
| `TaskSteps` | `task_analysis.py`, `task_transform.py` | `suspension_points`, the step function as operators named after the generator's functions; beside it `Direct`, the body executed as it reads |
| `Channel` | `coex_channel_*`, `mpsc_*` | an action per atomic access; the linking store may stay in the producer's store buffer (`pending`) until a swap, a lock or `Drain` |
| `GcCycle` | `gc_collect`, `gc_wait_for_watermarks`, `gc_scan_roots`, `gc_mark_*`, `gc_sweep_thread_lists`, `gc_safepoint`, `gc_segment_*`, `gc_alloc` | below |
| `HandleTable` | `gc_handle_*`, `gc_promote_retired_handles`, the parts of sweep and compaction that touch the table | an action per access of table, lists and counter; `copied` is the table a growth is filling |
| `Heap` | `gc_tlab_*`, `gc_alloc`, the sweep's and the compaction's handling of buffers, the deferred release | an action per access of a field the other side writes |
| `ThreadRegistry` | `gc_register_thread`, `gc_unregister_thread`, the collector's four walks and the cleanup | the registry and the dead list link by link |
| `Hamt`, `PersistentVector` | `hamt.py`, `list.py` | operators, named as the functions |
| `Collections` | maps, sets, lists, arrays, conversions, comprehensions, the choice of function by type, the functions of `inplace_ops.py`, and the collector's tracing of all of these | `value`, the structure, beside `ref`, what it stands for; an action per operation, and one per comprehension, which runs it whole |
| `Strings`, `Json` | `strings.py`, `json_type.py`, Json parts of `conversions.py` | operators, named as the functions |
| `Data` | the same | extends `Collections` through `Json`: strings and documents as further kinds of `value` |
| `ValueSemantics` | `analysis/ownership.py`, the assignments of `codegen/statements.py` | an action per statement, compiled and, unless in a branch not taken, run |
| `*_proofs` | | theorems about `FirstWins`, `MostCollect`, `WorkDeque`, `Scheduler`, `Threads`, `Channel`, `GcCycle` and `Heap`, each with its inductive invariant (section 4) |
| `MC*` | | instances for TLC; `MCCompiled` composes `ValueSemantics` and `TaskSteps`. `WorkDeque`, `Scheduler` and `Channel` are checked as they are, with `MCWorkDeque.cfg`, `MCScheduler.cfg` and `MCChannel.cfg` |

An operator whose comment says *mutation*, or that stands right before an action
with a name like it (`DropUncounted`, `SweptAfterOne`, `MarkAlone`...), is a bug
somebody could have written there. It is used by no specification: `PROJECT.json`
pairs it with the property that must fail when it replaces the definition.

### GcCycle: what is one step

* A safepoint's load of `gc_phase` is one step (`SafepointPhase`), the test of
  `watermark_active` and the two stores that acknowledge are another: only the
  thread itself sets these fields, and the collector, which clears them, is
  caught between the two steps as much as it would be inside the second.
* A pop loads the phase (`PopPhase`), acknowledges if need be and compares
  (`PopCheck`), yields until the phase is 0 (`PopSpin`) and stores the height
  (`PopStore`). An acknowledgement that is stored after the collector's reset is
  possible in both operations, as in the code.
* `gc_alloc` loads the generation (`AllocStamp`) and appends the object to the
  thread's list later (`AllocPublish`); a collection may do anything in between.
* A push is one step: only its owner writes these slots, and the collector reads
  them only below the height, which is raised last. The slot it clears is the one
  at `slot_count`, not at `slot_index`, as in the code.
* The scan loads a stack's height once and then a slot per step (`ScanThread`,
  `ScanSlot`), while the owner pushes, pops and assigns.
* The sweep is one step: only the collector writes a generation, and an object
  published after its list was taken is in no list that is swept. Promotion of
  retired handles and the reset of the worklist are part of `BeginMarking`.
* `WaitTimeout` may happen whenever a thread has not acknowledged.

* A variable of a frame may be read once it has been assigned in that frame
  (`assigned`): a frame that is pushed again over old slots does not give back what the
  frame before it has left there, though the scan sees it. `Held` is what a thread can
  reach at once: its assigned slots, and `reg`.
* `lost` is a history variable: a sweep has freed something that was still held or in
  use. The grace of two generations does not exclude it (below), and what the collector
  does afterwards with a handle that has been given out again says nothing.

A handle is identified with its object; objects have one field, fixed when they
are built (values are immutable in Coex). A thread holds one handle outside its
stack (`reg`: the result of an expression). Threads do not exchange handles.

### The collector's other modules

`HandleTable` has the collector's side of a cycle in the steps that touch the
table: wait for the threads (`acked`), promote (tail walk, link, swap), retire what
the sweep takes, store new addresses. `seen` is the size of the table whose address
a thread has loaded and may still write through. `EndWait` may be taken at any moment:
`gc_wait_for_watermarks` gives up after 10000 yields, so that a thread may stand between
the link of the free list's head and its compare-and-swap for any number of collections.
`unheard` says that a collection has gone on in this way, `overtaken` that a pop has then
stored a link its handle had no more. `Heap` takes the same cycle by what it does to
memory: the sweep of a thread's list node by node, then the compaction thread by thread,
then the release of the buffers that died two collections ago; its wait ends with all
answers (`Mark`) or without (`WaitTimeout`). `ThreadRegistry` takes the cycle by its walks.
Safepoint and pop have the steps they have in `GcCycle`, so that an answer or the store
of a lower height may come a collection late; `heard` has the threads that answered in
the collection that is running. The three and `GcCycle` are not composed
into one module: the product of their states is out of reach, and what each needs of
the others is stated by leaving them free.

### Data that stands for itself

Tracing is modelled for what it decides: `Marked` is the set of handles that
`gc_mark_hamt`, `gc_mark_array` and the functions beside them reach from a value by its
tags and layout, `Held` the set of those the value holds; `AllTraced` compares them. The
in-place functions have definitions of their own, which follow their own tests: both
removals in place go by the handle, and `byHandle` says where that shows.

In `Collections` and `Data` a hash is the sequence of its digits, given by `Hashes`;
`Text` is the text behind a string's handle, and two handles may have one text. Keys that
differ are assumed to have hashes that do (`CollectionsAssumption`). For words the code
sees to that: splitmix64 permutes them. For texts it does not (section 5). The
history variables `byHandle`, `untagged`, `overwritten` and `lapse` name the places
where the code departs from the reference (section 5); a program stops at a lapse,
so that nothing is claimed of what comes after it. `ValueSemantics` has `lapses` for
the same purpose: a form of sharing that the generator does not mark.

`TaskSteps` runs a whole task in few steps: `run` is a record of variables, calls made
and fate, and an action is one call of the step function. A call is made by "step" (the
task suspends), "waited" (the worker blocks in `spawn_and_wait`) or "forgotten" (a bare
call submitted without a wait).

## 3. Runs

Each property of a run has a mutant that breaks it.

| run | instance | shows |
|---|---|---|
| `first` | 3 tasks, 2 workers, 1 suspension each | `TallyExact`, `CancelledOnlyBehindWinner`, `WinnerValueSettled`, `ReturnsLowestIndex`: the group counts each task once and returns element 0's value; `AllCounted`: every task is counted in the end |
| `most` | 3 tasks, 3 workers | `ResultsComplete`: what is counted is stored, and what is handed out complete; `WaitReturns` |
| `deque` | 2 thieves, a buffer of 2 slots, 4 pushes | `ImplementsDeque` (refinement of `TaskDeque`); `ReadIsFresh`: what a thief's compare-and-swap wins is what it read |
| `scheduler` | 1 program thread, 2 workers, 4 tasks | `NoTaskLostOrDoubled`, `ResumedWithItsValue`, `JoinReturns` |
| `channel` | 2 senders, 1 receiver, 3 values, store buffers | `FifoOrder`, `LinksAreLive`, `ReceiveReturns` |
| `threads` | 12 programs, 3 threads, nursery of 2 | `NothingFreedInUse`, `ResultsInOrder`, `ScopeJoined`, `FunctionReturns`; no deadlock |
| `gc` | 1 mutator, 2 objects; 2 slots, 2 pushes and 2 cycles; 1 slot, 2 pushes and 3 cycles; 1 slot, 1 push and 4 cycles | `WatermarkHeld`, `StableRootMarked`, `NoTracedToUntraced`, `SurvivesTwoMisses` |
| `handles` | 2 threads, pools of 1; a table of 2 to 4 slots and 2 cycles, or of 3 and 4 cycles | `OneOwner`, `NoHandleLost`, `PointerCurrent`; `PopsCurrentLink`: while every collection hears every thread, the head of the free list does not come back during a pop |
| `heap` | buffers of 2 objects; 2 threads, 2 objects, 1 cycle; 1, 3, 1; 1, 2, 3 and 1, 1, 5 with failures of mmap | `MemoryPresent`, `CountExact`, `NewbornWritesKept` |
| `registry` | 3 threads with empty stacks and 1 cycle, 2 with a frame and 3 cycles | `Registered`, `NoWalkToFreed`, `NoDeadForgotten`, `ScannedIsMapped` |
| `collections` | nodes of width 2 and 3 levels, leaves of 2, 4 words, lists to 7, arrays and texts to 3, documents of 3 nodes | `SameValue`, `AllTraced`, `NeverRemovesAnother` |
| `values` | 3 names, loop bodies of 2 statements; 7,800 task bodies of up to 3 statements, parameters 0 and 2 | `Independent`, `SoleOwner`; `StepsFollowBody` |

Why the bounds are enough. A `first` group needs three tasks for a winner to be
beaten while it cancels a third, and two workers for every pair of steps to
interleave; one suspension moves a task to another worker in mid-flight. A `most`
group needs two tasks between claim and store and one that leaves last. The deque
starts with room for one task (a buffer of *n* slots holds *n*-1), so it grows
with its first pushes, more than once, while thieves hold old buffers. Four tasks
are a parent, a subtask of a subtask, and an unrelated task. Three values on a
channel make the sentinel pass from the stub to a node that is freed. Three threads
are enough for a parallel statement beside a bare call, and a nursery of two to be
overrun.

In the collector, two objects are an old one and a young one that refers to it; two
slots let a root move while the scan is between them; two pushes show a frame that is
pushed again after a pop; three cycles are the first that can free an object (the
mark starts at 1, and an object born before the first cycle is swept in the third);
four are the first in which a handle that was freed while it was held is given out again
and marked, which is what `lost` is about.
Threads share nothing but the collector there, so a second mutator adds orders of
acknowledgement and little else; the bounds of one slot were also run once with two
threads and one object, with the same result. The handle table needs two cycles to
give a retired handle back and four to give it back twice; it grows from two slots
to three and four. A buffer that is emptied is released two collections later, and
five cycles bring an address to that point after each way of emptying it. Three
threads make a head, a middle and a tail of the registry; a stack has one frame or none,
and three cycles with a frame include an answer that comes a cycle late. In `handles`
and `heap` a run is not followed beyond the step after which nothing is claimed
(`CONSTRAINT`): these histories are never taken back.

A trie with two children per node and three levels has what 32 and 7 have: chains
that a removal leaves, a split at the last level, an empty branch. Seven elements with
leaves of two fill a tree of depth one and begin the next. The two pairs of hash
functions are chosen so that keys part early and late. The task bodies hold every kind
of statement, first, second and last, with and without a call, and every pair of
statements inside an if or a loop; the parameters 0 and 2 take both branches, no
iteration, and more than one.

Deadlock is checked in `threads`. All other configurations say `CHECK_DEADLOCK FALSE`: a
group ends when its context is destroyed, the number of tasks, values, pushes, objects
and cycles is bounded, and the model stops when nothing is left to do. Where a stop
would be wrong, a liveness property says so (`AllCounted`, `WaitReturns`, `JoinReturns`,
`ReceiveReturns`, `FunctionReturns`).

Fairness. Weak fairness of a thread's next step: the operating system runs every
thread. Strong fairness of taking a mutex: a thread that keeps asking gets it,
which pthread mutexes do not promise but practice gives; without it no wait in
the runtime would end. (In `Threads` weak fairness is enough: at most two ask for a
closure's mutex, each once.) `Resume` in `FirstWins` is weakly fair (a subtask
ends), and so is the body of a thread in `Threads`; `RunDone` in `MostCollect` is
strongly fair (a task does not suspend for ever). A parked worker's timed wait ends. A
store buffer drains. No fairness is assumed of spurious wakeups, of a program that
might spawn or send, of a steal that might succeed. `GcCycle`, `HandleTable`, `Heap`,
`ThreadRegistry` and the data modules state no fairness: only safety is checked. In
`scheduler`, `JoinReturns` rests on the time limit of the parked worker's wait: without
it (the mutant `ParkForEver`) a wakeup sent before the worker waits is lost.

### The collector's properties, and what they do not say

"No reachable object is freed" is not an invariant of this design: an expression
may hold a handle in no slot, and a root that moves from a slot the scan has not
reached to one it has passed is missed by that marking. The comment that mutators
write only above the watermark (`coex_gc.py:4593`) is true of frames but not of
assignments, which rewrite any slot of the current frame. The design answers with
a grace of two generations at the sweep (`coex_gc.py:6885-6905`). The properties
say what the code does guarantee: what *stays* in a slot is in use and traced, with all it
refers to (`StableRootMarked`, which needs `WatermarkHeld` and
`NoTracedToUntraced`; both until the grace has failed once, `lost`), and an object is freed only after two whole markings have
missed it (`SurvivesTwoMisses`). The latter is claimed only while every cycle
has heard every thread: after a timeout, or a stale acknowledgement, a thread may
have read the generation arbitrarily long ago.

### Properties with exceptions

Several properties hold only with an exception for something the code really does.
The exception is a history variable, set by the action that does it and by no other,
so that the property still covers every other way to go wrong:

| property | exception |
|---|---|
| `ReceiveReturns` | a sender that read `blocking_count` before its link was visible |
| `SurvivesTwoMisses` | `lapsed`: a cycle that marked without having heard every thread |
| `StableRootMarked`, `NoTracedToUntraced` | `lost`: a sweep has freed something still held |
| `OneOwner`, `NoHandleLost`, `PointerCurrent` | `straddled`: a growth between a claim and its undo; `stale`: a slot used in a table being replaced; `overtaken`: a pop that stored an old link |
| `PopsCurrentLink` | the first two, and `unheard`: a collection that went on without an answer |
| `MemoryPresent`, `CountExact` | `lapse`: "null base", "late count", "no answer" |
| `NewbornWritesKept` | no claim for blocks of malloc in the first compaction, nor after a lapse |
| `Registered` | `lost`: an entry overwritten by the collector's store of the head |
| `NoWalkToFreed`, `ScannedIsMapped` | a thread that still reads its own entry; a watermark of 0, or one given before this collection (not in `heard`) |
| `SameValue`, `AllTraced` | `byHandle`, `untagged`, `overwritten`, `lapse` |
| `Independent`, `SoleOwner` | `lapses` |
| `ScopeJoined`, `ResultsInOrder` | returns behind the first one; a result two collections have missed |
| `StepsFollowBody` | bodies outside `Handled` |

`Handled` names the bodies whose steps follow them: every call a statement of its own
at the top level; or the body begins with an if, or a for over a range, that holds one
call, and the calls behind it stand alone at the top level. Of the 7,800 bodies some 800
are of these shapes. Of the others the model claims nothing.

## 4. Proofs

TLC checks the instances of section 3; these theorems hold for every value of the
constants: every number of tasks, threads, workers, messages, objects, slots and cycles.

| module | theorem | says |
|---|---|---|
| `FirstWins_proofs` | `TypeCorrect`, `TaskCountedOnce`, `CancelsBehindWinner`, `ValueSettled`, `LowestIndexReturned` | `Spec => []TypeOK`, `[]TallyExact`, `[]CancelledOnlyBehindWinner`, `[]WinnerValueSettled`, `[]ReturnsLowestIndex` |
| `MostCollect_proofs` | `TypeCorrect`, `CompleteResults` | `Spec => []TypeOK`, `[]ResultsComplete` |
| `WorkDeque_proofs` | `ThievesReadFresh`, `Refinement` | `Spec => []ReadIsFresh`, `Spec => ImplementsDeque` |
| `Scheduler_proofs` | `TasksNeitherLostNorDoubled`, `ResumedWithTheValue` | `Spec => []NoTaskLostOrDoubled`, `[]ResumedWithItsValue` |
| `Threads_proofs` | `NothingUsedAfterFree`, `ResultsAreInOrder`, `ScopeIsJoined` | `Spec => []NothingFreedInUse`, `[]ResultsInOrder`, `[]ScopeJoined` |
| `Channel_proofs` | `FifoDelivery`, `LiveLinks` | with one receiver, `Spec => []FifoOrder`, `[]LinksAreLive` |
| `GcCycle_proofs` | `WatermarkIsHeld`, `TracedIsTraced`, `StableIsMarked`, `SweptAfterTwo` | `Spec => []WatermarkHeld`, `[]NoTracedToUntraced`, `[]StableRootMarked`, `Spec => SurvivesTwoMisses` |
| `Heap_proofs` | `MemoryIsPresent`, `CountIsExact`, `NewbornWritesAreKept` | `Spec => []MemoryPresent`, `[]CountExact`, `[]NewbornWritesKept` |

Each module but the first also states `Invariant`, `Spec => []IInv` (`SpecIInv` in
`FirstWins_proofs`); `TypeOK` is the first conjunct of every `IInv`. Each `IInv` was an
invariant of a TLC run before it was proved. A proof has a lemma for each part of the
invariant and, in it, a step for each action. Properties with exceptions (section 3)
are proved with the same exceptions.

### Assumed

| module | of the constants |
|---|---|
| `FirstWins` | there is a task (the generated code creates no group for an empty collection), values are integers, `Main`, `NoOne`, workers and tasks differ |
| `MostCollect` | values are integers, `NoTask` is no task; there may be no task |
| `WorkDeque` | the initial capacity is at least 2 (the code's is 256), the owner is not a thief, `Null` is no task |
| `Scheduler` | there is a worker; `None` is neither task nor thread |
| `Threads` | the grace period is positive; the programs are bodies that compile |
| `Channel` | there is a message to send, senders and receivers are distinct |
| `GcCycle` | threads are finitely many and not none; `Null` is neither object nor thread; each bound has a slot and a cycle |
| `Heap` | buffers are of at least one object; threads are finitely many, and there is a first buffer for each; twice the objects a bound allows are fewer than the number a count is poisoned with (2^63 - 1 in the code) |

The theorems of `Channel_proofs` have one hypothesis more, `SingleConsumer`: the header
calls the queue MPSC (`coex_channel.h:4`), and `MCChannelPool.cfg` shows what two
consumers do to it. Workers, mutators, senders and thieves are otherwise arbitrary sets.

### The arguments

*FirstWins.* `ReturnsLowestIndex` is not inductive: it says nothing before the
wait returns. The invariant `IInv` adds three facts. `OneHolder`: a task is not
yet spawned, queued, suspended or in one worker's hands; this makes the counting
in `TallyExact` right (a step moves one task at most out of `Uncounted`, and
`completed` goes up exactly then). `WorkerKnows`: what a worker's place tells about
`winner_index`: between the load and the compare-and-swap its task is below the
value it saw; in the cancellation loop the winner is below the index it has
reached; a task on the way out is cancelled. `ZeroWinsOrWill`: task 0 has won or is
on its way to the compare-and-swap. Since only tasks *behind* the winner are
cancelled and no index is below 0, task 0 is never cancelled, and the only way it
leaves is by winning. When `completed >= Count`, `TallyExact` leaves nothing
uncounted, so task 0 has won and, by `WinnerValueSettled`, has stored.

*MostCollect.* `CountersExact`: each of the three counters is the number of tasks
behind its atomic operation, `result_count` of those that have claimed a slot,
`results_stored` of those whose store is counted, and `remaining` of those that have
yet to leave. `SlotsDistinct`: claimed slots are below `result_count` and differ, so
that a stored value is not overwritten. When `results_stored` reaches `Count`, all tasks
are among the counted ones, and as many distinct slots below `Count` are full: the
array is complete.

*WorkDeque.* An index stands for a slot modulo the capacity of the current buffer. A push
has tested that less than a whole buffer lies between `top` and `bottom`, so two
indices in use never meet in one slot (`SlotsDiffer`, arithmetic of remainders). A thief
is described by a conditional (`ThiefKnown`): *if* `top` is still what it read, then there was
a task, the buffer it chose holds it, old or new, and what it has read is it. A growth
copies what is between the indices and leaves the old buffer alone; a push writes no
slot in use. So the compare-and-swap, which succeeds only if `top` is unchanged, takes
what it read. For the refinement, the abstract deque is the sequence of slots from `top`
to `bottom - 1`, where an owner between its decrement of `bottom` and the outcome of the
race still has its task in it. Each access is a push, a pop, a steal or a stutter: a
push is its publication, a steal its successful compare-and-swap, a growth a stutter.

*Scheduler.* `Placed`: a task that lives and is not suspended is at exactly one position
of one queue, or in one worker's hand. `ParentsAwait`: the parent of a live task is alive
and awaits this very child, so a suspended task has one child that can resume it, and
is put back once. `Answered`: a task that is in a place again has the value of the child
it last waited for.

*Threads.* For `NothingFreedInUse`: a closure lives as long as its thread runs, and is
locked exactly while the thread signals (`ThreadsKnown`); the waiter of a `first` lives from
the registration to its end, and only closures of the group from the one that is being
unregistered on point to it (`WaiterKnown`), so a thread that is about to signal finds it
alive; a closure is in the nursery once, and not in the group too, and is alive until
the epilogue has passed it (`NurseryKnown`), so none is freed twice. For `ResultsInOrder`: in a statement, the threads of its group are distinct, those
before the index have been served by the loop, and only threads behind the first one
of a `first` are cancelled (`InsideKnown`); a closure carries the number of its element, which is its place
in the group, and results are appended in the order of the group; a partial result is that of a cancelled thread,
so element 0's is whole. For `ScopeJoined`: as long as the function has a nursery, every
thread it has started is in a list that it will still wait for, or over (`Accounted`).

*Channel.* `order`, the sequence of swaps, is the queue. `LinksFollowOrder`: a node links
to its successor in `order` or, as long as its producer's store is due or in its store
buffer, to nothing; no two producers owe the same link. `ConsumerFollows`: the head is as
far along `order` as values were received, behind it no link is missing, and only what
is behind it is freed. A link that is due starts at a node the consumer cannot have
passed: its memory is there. `BlockingExact` gives the type of the counter.

*GcCycle.* `Acknowledged`: a thread that was heard is active until the reset, and neither its
height nor the height it is about to store is below its watermark. `StableCovered`: what has stayed in a variable since
the thread was heard is marked, or on the worklist, as soon as the scan has passed its
slot; `FieldsCovered`: what a marked object refers to is marked or on the worklist. When the
sweep begins the worklist is empty, so covered is marked. `MissesCounted`: as long as
every cycle heard every thread, an object's generation is behind the mark value by no
more than the markings that have missed it, and the generation a thread has loaded for
an allocation by one collection; the sweep frees at a distance of two.

`StableCovered` was not inductive as first stated. A handle that is freed while a thread
holds it (the grace of two generations allows it) may be given to a new object; then
what is marked is not what was held. It takes four cycles, one more than the bounds had.
The model has `lost` and the instance of four cycles since, and `NothingDangles` says
that until then what is held is in use.

*Heap.* A count is changed without a lock by threads and by the collector, in steps apart from
those that change what it stands for, so the invariant counts the steps in between: a
buffer is *exact* if its count is the number of nodes in it, of allocations that are
counted and not yet in a list, and of a move whose decrement is due (`Weight`). What a
count is above its weight changes in no step but the poisoning (`SlackStep`); so a buffer
is exact unless one of the last two compactions filled it, and those stay above any
number of objects (`CountsKnown`). A buffer whose count is zero is then a buffer without
nodes. That nobody will allocate in it again is the harder half. `UsesKnown`: a buffer, but
for those of the compaction, has to do with one thread, whose fields, allocation, list
or move refer to it. `FieldsKnown`: a thread's base and cursor are of one buffer except
in the steps of a refill, and a cursor left without its base is one of a buffer in which
nothing was counted. `DoomKnown`: what is given up is empty and in no thread's fields;
what waits in the sweep's list is so, or about to be; and an allocation that had loaded
a cursor has finished before the second rotation, because its thread has been heard in
between. `PointersKnown` says the same of raw pointers: one is of this collection or,
until its thread is heard, of the last one, and a place is unmapped two rotations after
its node left it. `RoomKnown`: the compaction's target has room for all that is yet to
be moved, and nothing stays behind in the buffer of the last one. `BirthsKnown`: a newborn
node is in no buffer of a compaction, so that none is moved.

All this holds until the code gets a count wrong in one of its two ways, or goes on without
a thread's answer (`lapse`): `DoomKnown`, `PointersKnown` and `BirthsKnown` rest on the
answers, and `TimeoutStep` shows that a wait given up leaves the rest as it is. What
holds regardless is types, positions, the budget and that lists do not overlap
(`Ground`), and, since the model makes no claim on writes after a lapse, `~lost`. Three
parts were strengthened where a step could not be proved: what waits in the sweep's list
is mapped and neither given up nor of a compaction; what is said of births is said of
the nodes in a list, as a swept object may still be a newborn; and a thread without a
pointer has no place either.

### Only model-checked

* Liveness (`AllCounted`, `WaitReturns`, `JoinReturns`, `ReceiveReturns`, `FunctionReturns`):
  fairness and ENABLED are beyond TLAPS here.
* `Hamt`, `PersistentVector`, `Collections`, `Strings`, `Json`, `Data`: they walk trees with
  RECURSIVE operators, and what they compute is known by induction over data. Both are
  out of the prover's reach.
* `HandleTable` and `ThreadRegistry`: their chains (free lists, the registry, the dead list) are
  recursive functions over links. That a chain is what it was but for one link is an
  induction over its length.
* `ValueSemantics`: the end of a loop replays its body with a fold. `TaskSteps`: the steps of
  a body are computed, not taken.

## 5. Where the code and its comments part

These statements fail. Each has a configuration of its own, which no run lists and
which is run as `tlc -config X.cfg Module`; TLC ends it with a counterexample.

| configuration | module | refuted | what happens |
|---|---|---|---|
| `MCFirstHang.cfg` | `MCFirstWins` | `WaitReturns` | A task cancelled before it runs is counted without a signal (`coex_scheduler.c:299`). If it is the last to be counted, after the winner's signal, `first_wait` sleeps for ever |
| `MCFirstLate.cfg` | `MCFirstWins` | `NoLateAccess` | `first_wait` returns as soon as `completed` reaches the count; the generated code destroys the context while the worker that counted last still reads `task_count` and locks the mutex. And the cancellation loop of a second winner writes to tasks that have been dropped and freed |
| `MCChannelBuffered.cfg` | `Channel` | `BlockedReceiverWoken` | `send` links its node with a release store and then loads `blocking_count`; nothing orders the two. The receiver counts itself in, finds no link and sleeps, with a value in the queue |
| `MCChannelPool.cfg` | `Channel` | `ReceivedOnce` | the specification's worker pool and a test let several tasks receive from one channel; the queue has a single-consumer pop without a lock |
| `MCGcAck.cfg` | `MCGcCycle` | `AckedInThisCycle` | a safepoint that has seen a collection going on stores its acknowledgement after the collector has reset it; the next cycle's wait takes it for its own. `last_gc_cycle` would tell, but nobody reads it |
| `MCHandlesShared.cfg` | `MCHandleTable` | `ThreadOwnsHandle` | the table grows between a claim of a range and its undo, and a range behind it is handed out twice |
| `MCHandlesReuse.cfg` | `MCHandleTable` | `NeverOvertaken` | a thread stands between reading the head's link and its compare-and-swap while collections give up waiting for it; the handle is used, retired and given back, and is the head again with another link: the pop puts the old link on the free list |
| `MCThreadsScope.cfg` | `MCThreads` | `StructuredConcurrency` | only the first return of a function joins its nursery |
| `MCThreadsResult.cfg` | `MCThreads` | `ResultSurvives` | a thread's result is in no root between its end and the moment it is read; two collections free it |
| `MCStepsAny.cfg` | `MCCompiled` | `StepsAlwaysFollowBody` | the steps of a task leave its body, in the ways listed below |

Others are exceptions of properties that pass (section 3); without the exception TLC
finds the counterexample.

* *Registry.* The collector's plain store of the head drops a thread that registered
  since the load (`coex_gc.py:4348`). An entry may be freed while its thread still
  reads its segments and handles. A stack with a watermark of 0 may be unmapped under
  the scan. And an answer stored late is taken for one in the next collection: a pop that
  has read phase 0 stores its height below that watermark, and the thread ends and unmaps
  its stack under the scan (`WatermarkKeepsStack` in place of the invariants of
  `MCRegistry.cfg`).
* *Memory.* `gc_alloc` reads `tlab_base` after the allocation, when a compaction may have
  reset it (the object passes for a block of malloc), and counts after the memory was
  taken (the buffer may already have been given up). The first compaction moves newborn
  blocks of malloc, whose writers go on with the old address.
* *Collections.* `remove` of a set of strings, both removals in place, and the sets built
  by comprehensions and conversions go by the handle, not the text. Two texts with one
  hash (`string_hash` folds a text into 64 bits) are not held apart: `hamt_insert_string`
  splits the leaf level after level, past the last bit of the hash, without end
  (`hamt.py:1634`), although `hamt.py:14` speaks of collision detection; the models leave
  such texts out. Keys and values
  that come out of maps, and elements of several conversions, are tagged as integers,
  so that the collector does not trace them. Assignment to a list's element stores the
  word over its tag.
* *Strings.* `from_bytes` swaps length and size; `to_float` and `to_int_hex` read past the
  end of a slice; `s[:]` takes the length in code points for the size in bytes.
* *Json.* Text that is not JSON but begins like it is accepted; strings are cut by code
  points and not unescaped or escaped; fields that are lists or maps are not converted
  but shared.
* *Updates in place.* A map is not copied by a deep copy, `:=` leaves its source unmarked,
  slices of arrays share their buffer, and unique names are updated in place whatever
  shares them.
* *Tasks*, outside `Handled`. A while that holds a call runs its body once whatever its
  condition says; a for over a collection is skipped, and one behind another call
  finds its index not initialised; an if that is not the first statement is entered
  unconditionally, as is an else-if; of two calls in one branch or loop the second
  blocks the worker or is made again; a return behind a suspension is passed over;
  `x := f(1) + 2` stores f(1), `return f(a) + f(b)` uses one value twice; a call in the
  condition of an if skips the if; in the last state a bare call inside an if may give
  its value as the body's; a bare call left to the general generator is not waited for.

Met on the way, without a model: comments and tests call `first` "whichever completes
first" (`coex_scheduler.h:271`) while BUG-027 and the code give element 0; finished
tasks of a group are never freed; a pop does not lower the segment's `slot_count`,
so a frame pushed again shows stale handles to the scan although a comment
(`coex_gc.py:5715`) says it must find zeros (garbage kept longer, not freed early).

## 6. Not modelled

* Weak memory, except the store buffer in `Channel`. The deque's fences are
  taken at their word; the collector's modules are sequentially consistent.
* The global stack's compare-and-swap loop (ABA through address reuse); in
  `ThreadRegistry`, too, an entry is never allocated where another was freed.
* `coex_scheduler_shutdown`, `coex_channel_add_waiter`, `wait_all`, `wait_complete`,
  `poll`: no caller. Processes.
* The trigger (`gc_trigger_requested`, conditions, `gc_complete`): a collection may start
  whenever the collector is idle, which includes every trigger. What is lost is whether
  a trigger is ever forgotten.
* Select statements: polling of `try_receive` in a strategy's order.
* Out of `TaskSteps`: else-if and match, calls inside the arguments of calls, statements
  nested deeper than one level, the roots a step registers. Out of `Json`: conversion back
  to a user type. Out of `Strings`: character classes, case, hashing to hexadecimal.
* The liveness analysis: its result decides only which handles are cleared early.
* Atomics: single LLVM instructions. Failure of malloc; the bounds of an `i64`; debug
  counters.
* The parser (generated), the AST builder and the rest of the code generator: a
  translation without state of its own, exercised by the test suite. POSIX, graphics
  and numeric bindings, the driver: input and output.

## 7. Plan

Proofs, in order:

1. `SoleOwner` of `ValueSemantics`, with the second pass over a loop's body taken a
   statement at a time.
2. `NoWalkToFreed` and `Registered` of `ThreadRegistry`, `OneOwner` of `HandleTable`: both need
   their chains as a history variable (a sequence) that the links agree with.

Models:

1. The trigger protocol (flag, mutex, conditions, `gc_complete`), with the liveness of a
   requested collection.
2. `GlobalStack` with address reuse.
3. Select, over the abstract channel that `Channel` implements.
