------------------------------ MODULE GcCycle ------------------------------
(***************************************************************************)
(* A collection of coex_gc.py: the collector thread running gc_collect     *)
(* (increment the generation, ask every thread for a watermark, mark from  *)
(* the shadow stacks, sweep, reset the watermarks) against mutators that   *)
(* push and pop frames, store roots, allocate, and acknowledge at their    *)
(* safepoints and pops.  A handle and its object are one; an object has    *)
(* one field, which never changes (values are immutable).                  *)
(*                                                                         *)
(* Not here: how the collector is woken (it may start at any time it is    *)
(* idle).  Threads that register or die during a cycle are in              *)
(* ThreadRegistry, the handles in HandleTable, the allocation buffers and  *)
(* the compaction after a collection in Heap.                              *)
(***************************************************************************)
EXTENDS Integers, FiniteSets

CONSTANTS
  Mutators,
  Objects,     \* the handles
  Null,        \* handle 0
  Bounds       \* bounds: the slots of a shadow stack, the frames a thread pushes, the collections

ASSUME ThreadAssumption == Mutators # {} /\ IsFiniteSet(Mutators)
ASSUME NullAssumption   == Null \notin Objects \cup Mutators
ASSUME BoundAssumption  == Bounds \subseteq [slots : Nat \ {0}, pushes : Nat, cycles : Nat \ {0}]

VARIABLES
  gc_phase,              \* 0 idle, 1 watermark, 2 marking, 3 sweeping
  gc_cycle_id,
  gc_current_mark_value,
  gcpc,                  \* where the collector is
  queue,                 \* the threads a loop over the registry still has to visit
  scanning,              \* the stack being scanned: its thread, the next slot, the last
  worklist,              \* the mark worklist
  slots, slot_index,     \* the shadow stack of each thread and its height
  slot_count,            \* the slots ever reserved in the thread's segment
  assigned,              \* the slots of variables that have been assigned in their frame
  watermark_slot, watermark_active,
  pc,                    \* where each mutator is
  start,                 \* the height a pop returns to
  stamp,                 \* the generation an allocation has read
  reg,                   \* the handle a mutator holds outside its stack
  handle,                \* "free", "live" or "retired"
  generation, field,     \* of each object
  bounds,                \* of this run
  heard,                 \* history: the threads that acknowledged in this cycle
  stable,                \* history: the slots to be scanned, not written since the acknowledgement
  missed,                \* history: how many markings in a row missed each object
  lapsed,                \* history: some cycle marked without having heard every thread
  lost                   \* history: a sweep retired an object that was still held

collector == <<gc_phase, gc_cycle_id, gc_current_mark_value, gcpc, queue, scanning, worklist>>
marks     == <<watermark_slot, watermark_active>>
stacks    == <<slots, slot_index, slot_count, assigned>>
locals    == <<pc, start, stamp, reg>>
heap      == <<handle, generation, field>>
history   == <<heard, stable, missed, lapsed, lost>>
vars      == <<collector, marks, stacks, locals, heap, bounds, history>>

MaxSlots  == bounds.slots
MaxPushes == bounds.pushes
MaxCycles == bounds.cycles
Slot      == 1 .. MaxSlots

Handle  == Objects \cup {Null}
NoStack == [thread |-> Null, next |-> 1, upto |-> 0]

TypeOK ==
  /\ bounds \in Bounds
  /\ gc_phase \in 0 .. 3 /\ gc_cycle_id \in 0 .. MaxCycles
  /\ gc_current_mark_value \in 1 .. MaxCycles + 1
  /\ gcpc \in {"idle", "begun", "wait", "scan", "sweep", "reset", "reset_slot", "end"}
  /\ queue \subseteq Mutators
  /\ scanning \in [thread : Mutators \cup {Null}, next : 1 .. MaxSlots + 1, upto : 0 .. MaxSlots]
  /\ worklist \subseteq Objects
  /\ slots \in [Mutators -> [Slot -> Handle]] /\ slot_index \in [Mutators -> 0 .. MaxSlots]
  /\ slot_count \in [Mutators -> 0 .. MaxPushes] /\ assigned \in [Mutators -> SUBSET Slot]
  /\ watermark_slot \in [Mutators -> 0 .. MaxSlots] /\ watermark_active \in [Mutators -> BOOLEAN]
  /\ pc \in [Mutators -> {"run", "safe", "pop", "spin", "store", "alloc"}]
  /\ start \in [Mutators -> 0 .. MaxSlots] /\ stamp \in [Mutators -> 0 .. MaxCycles + 1]
  /\ reg \in [Mutators -> Handle]
  /\ handle \in [Objects -> {"free", "live", "retired"}]
  /\ generation \in [Objects -> 0 .. MaxCycles + 2] /\ field \in [Objects -> Handle]
  /\ heard \subseteq Mutators
  /\ stable \in [Mutators -> SUBSET Slot]
  /\ missed \in [Objects -> Nat] /\ lapsed \in BOOLEAN /\ lost \in BOOLEAN

Init ==
  /\ bounds \in Bounds
  /\ gc_phase = 0 /\ gc_cycle_id = 0 /\ gc_current_mark_value = 1
  /\ gcpc = "idle" /\ queue = {} /\ scanning = NoStack /\ worklist = {}
  /\ slots = [t \in Mutators |-> [i \in Slot |-> Null]]
  /\ slot_index = [t \in Mutators |-> 0] /\ slot_count = [t \in Mutators |-> 0]
  /\ assigned = [t \in Mutators |-> {}]
  /\ watermark_slot = [t \in Mutators |-> 0] /\ watermark_active = [t \in Mutators |-> FALSE]
  /\ pc = [t \in Mutators |-> "run"] /\ start = [t \in Mutators |-> 0]
  /\ stamp = [t \in Mutators |-> 0] /\ reg = [t \in Mutators |-> Null]
  /\ handle = [o \in Objects |-> "free"]
  /\ generation = [o \in Objects |-> 0] /\ field = [o \in Objects |-> Null]
  /\ heard = {} /\ stable = [t \in Mutators |-> {}]
  /\ missed = [o \in Objects |-> 0] /\ lapsed = FALSE /\ lost = FALSE

-----------------------------------------------------------------------------
(* The mutators.                                                           *)

Goto(t, from, to) == pc[t] = from /\ pc' = [pc EXCEPT ![t] = to]

\* The variables and the register of a thread.  A variable is read when it has been
\* assigned; until then its slot may hold what an earlier frame left there.
Held(t) == ({slots[t][i] : i \in assigned[t]} \cup {reg[t]}) \ {Null}

\* What an expression can yield: handles are read from the thread's own variables and
\* register and from fields, none of which another thread writes.
Values(t) == Held(t) \cup ({field[o] : o \in Held(t)} \ {Null})

\* The two stores of an acknowledgement: the watermark, then watermark_active.
Acknowledge(t) ==
  /\ watermark_slot' = [watermark_slot EXCEPT ![t] = slot_index[t]]
  /\ watermark_active' = [watermark_active EXCEPT ![t] = TRUE]
  /\ IF gcpc \in {"wait", "scan", "sweep"}
     THEN /\ heard' = heard \cup {t}
          /\ stable' = [stable EXCEPT ![t] = IF gcpc = "wait" \/ t \in queue
                                            THEN assigned[t] ELSE {}]
     ELSE UNCHANGED <<heard, stable>>
  /\ UNCHANGED <<missed, lapsed, lost>>

\* gc_safepoint sees a phase that is not idle ...
SafepointPhase(t) ==
  /\ gc_phase # 0
  /\ Goto(t, "run", "safe")
  /\ UNCHANGED <<collector, marks, stacks, start, stamp, reg, heap, history>>

\* ... and acknowledges once in a cycle.
SafepointAck(t) ==
  /\ Goto(t, "safe", "run")
  /\ IF watermark_active[t] THEN UNCHANGED <<marks, history>> ELSE Acknowledge(t)
  /\ UNCHANGED <<collector, stacks, start, stamp, reg, heap>>

\* gc_segment_push zeroes the slot that follows slot_count in the segment, which no
\* pop lowers, and then raises slot_count and slot_index.
Push(t) ==
  /\ pc[t] = "run" /\ slot_index[t] < MaxSlots /\ slot_count[t] < MaxPushes
  /\ slots' = [slots EXCEPT ![t] =
                  [i \in Slot |-> IF i = slot_count[t] + 1 THEN Null ELSE @[i]]]
  /\ slot_count' = [slot_count EXCEPT ![t] = @ + 1]
  /\ slot_index' = [slot_index EXCEPT ![t] = @ + 1]
  /\ UNCHANGED <<collector, marks, assigned, locals, heap, history>>

\* A function that returns evaluates its result and pops its frame.
\* gc_segment_pop loads gc_phase: when idle, only the store of slot_index is left.
PopPhase(t) ==
  \E s \in 0 .. slot_index[t] - 1, v \in Values(t) \cup {Null} :
    /\ Goto(t, "run", IF gc_phase = 0 THEN "store" ELSE "pop")
    /\ start' = [start EXCEPT ![t] = s]
    /\ reg' = [reg EXCEPT ![t] = v]
    /\ UNCHANGED <<collector, marks, stacks, stamp, heap, history>>

\* Acknowledge if that has not been done, and compare with the watermark.
PopCheck(t) ==
  /\ IF watermark_active[t] THEN UNCHANGED <<marks, history>> ELSE Acknowledge(t)
  /\ Goto(t, "pop", IF start[t] >= watermark_slot'[t] THEN "store" ELSE "spin")
  /\ UNCHANGED <<collector, stacks, start, stamp, reg, heap>>

\* A pop that yields once and goes on.
PopYieldOnce(t) ==
  /\ Goto(t, "spin", "store")
  /\ UNCHANGED <<collector, marks, stacks, start, stamp, reg, heap, history>>

PopSpin(t) ==
  /\ gc_phase = 0
  /\ Goto(t, "spin", "store")
  /\ UNCHANGED <<collector, marks, stacks, start, stamp, reg, heap, history>>

PopStore(t) ==
  /\ Goto(t, "store", "run")
  /\ slot_index' = [slot_index EXCEPT ![t] = start[t]]
  /\ start' = [start EXCEPT ![t] = 0]
  /\ assigned' = [assigned EXCEPT ![t] = @ \ (start[t] + 1 .. MaxSlots)]
  /\ stable' = [stable EXCEPT ![t] = @ \ (start[t] + 1 .. MaxSlots)]
  /\ UNCHANGED <<collector, marks, slots, slot_count, stamp, reg, heap, heard, missed, lapsed, lost>>

\* gc_segment_set_root: a variable of the frame is assigned a new value, that of
\* another variable, or the field of one.
SetRoot(t) ==
  \E i \in 1 .. slot_index[t], v \in Values(t) :
    /\ pc[t] = "run" /\ (v # slots[t][i] \/ i \notin assigned[t])
    /\ slots' = [slots EXCEPT ![t][i] = v]
    /\ assigned' = [assigned EXCEPT ![t] = @ \cup {i}]
    /\ reg' = [reg EXCEPT ![t] = Null]
    /\ stable' = [stable EXCEPT ![t] = @ \ {i}]
    /\ UNCHANGED <<collector, marks, slot_index, slot_count, pc, start, stamp, heap, heard, missed,
                   lapsed, lost>>

\* gc_alloc loads the generation ...
AllocStamp(t) ==
  /\ Goto(t, "run", "alloc")
  /\ stamp' = [stamp EXCEPT ![t] = gc_current_mark_value]
  /\ UNCHANGED <<collector, marks, stacks, start, reg, heap, history>>

\* ... and later adds the object to the list of its thread.
AllocPublish(t) ==
  \E o \in Objects, f \in Values(t) \cup {Null} :
    /\ handle[o] = "free"
    /\ Goto(t, "alloc", "run")
    /\ handle' = [handle EXCEPT ![o] = "live"]
    /\ generation' = [generation EXCEPT ![o] = stamp[t]]
    /\ field' = [field EXCEPT ![o] = f]
    /\ reg' = [reg EXCEPT ![t] = o]
    /\ stamp' = [stamp EXCEPT ![t] = 0]
    /\ UNCHANGED <<collector, marks, stacks, start, history>>

Mutate(t) ==
  \/ SafepointPhase(t) \/ SafepointAck(t)
  \/ Push(t)
  \/ PopPhase(t) \/ PopCheck(t) \/ PopSpin(t) \/ PopStore(t)
  \/ SetRoot(t) \/ AllocStamp(t) \/ AllocPublish(t)

-----------------------------------------------------------------------------
(* The collector.                                                          *)

GcGoto(from, to) == gcpc = from /\ gcpc' = to

BeginCycle ==
  /\ gc_cycle_id < MaxCycles
  /\ GcGoto("idle", "begun")
  /\ gc_current_mark_value' = gc_current_mark_value + 1
  /\ UNCHANGED <<gc_phase, gc_cycle_id, queue, scanning, worklist, marks, stacks, locals, heap, history>>

BeginWatermark ==
  /\ GcGoto("begun", "wait")
  /\ gc_phase' = 1
  /\ gc_cycle_id' = gc_cycle_id + 1
  /\ UNCHANGED <<gc_current_mark_value, queue, scanning, worklist, marks, stacks, locals, heap,
                 history>>

\* gc_wait_for_watermarks returns when it sees every watermark_active set.  Its
\* loop reads them one after the other; during the wait none is cleared.
AllActive == \A t \in Mutators : watermark_active[t]

\* Promote the handles of the cycle before, reset the worklist, phase 2.
BeginMarking ==
  /\ GcGoto("wait", "scan")
  /\ gc_phase' = 2
  /\ handle' = [o \in Objects |-> IF handle[o] = "retired" THEN "free" ELSE handle[o]]
  /\ queue' = Mutators
  /\ worklist' = {}
  /\ lapsed' = (lapsed \/ heard # Mutators)
  /\ UNCHANGED <<gc_cycle_id, gc_current_mark_value, scanning, marks, stacks, locals,
                 generation, field, heard, stable, missed, lost>>

WaitDone    == AllActive /\ BeginMarking
WaitTimeout == ~AllActive /\ BeginMarking     \* after MAX_ITERATIONS rounds

Marked(o) == generation[o] > gc_current_mark_value

\* Born-marked objects are taken for traced ones.
MarkOld(o) ==
  IF o \in Objects /\ handle[o] = "live" /\ generation[o] < gc_current_mark_value
  THEN /\ generation' = [generation EXCEPT ![o] = gc_current_mark_value + 1]
       /\ worklist' = (worklist \ {o}) \cup ({field[o]} \ {Null})
  ELSE /\ worklist' = worklist \ {o}
       /\ UNCHANGED generation

\* A traced object's field is not put on the worklist.
MarkAlone(o) ==
  /\ worklist' = worklist \ {o}
  /\ generation' = IF o \in Objects /\ handle[o] = "live" /\ ~Marked(o)
                   THEN [generation EXCEPT ![o] = gc_current_mark_value + 1] ELSE generation

\* gc_mark_object: a handle that is null or not in use is skipped, and so is an
\* object already traced; born-marked objects are traced.
MarkObject(o) ==
  IF o \in Objects /\ handle[o] = "live" /\ ~Marked(o)
  THEN /\ generation' = [generation EXCEPT ![o] = gc_current_mark_value + 1]
       /\ worklist' = (worklist \ {o}) \cup ({field[o]} \ {Null})
  ELSE /\ worklist' = worklist \ {o}
       /\ UNCHANGED generation

\* gc_scan_roots reads the height of a stack once, then its slots.
Scanned == scanning.next > scanning.upto

ScanThread ==
  \E t \in queue :
    /\ gcpc = "scan" /\ Scanned
    /\ scanning' = [thread |-> t, next |-> 1, upto |-> slot_index[t]]
    /\ queue' = queue \ {t}
    /\ UNCHANGED <<gc_phase, gc_cycle_id, gc_current_mark_value, gcpc, worklist, marks, stacks,
                   locals, heap, history>>

ScanSlot ==
  /\ gcpc = "scan" /\ ~Scanned
  /\ MarkObject(slots[scanning.thread][scanning.next])
  /\ scanning' = [scanning EXCEPT !.next = @ + 1]
  /\ UNCHANGED <<gc_phase, gc_cycle_id, gc_current_mark_value, gcpc, queue, marks, stacks, locals,
                 handle, field, history>>

\* gc_mark_drain
Drain ==
  \E o \in worklist :
    /\ gcpc = "scan" /\ queue = {} /\ Scanned
    /\ MarkObject(o)
    /\ UNCHANGED <<gc_phase, gc_cycle_id, gc_current_mark_value, gcpc, queue, scanning, marks,
                   stacks, locals, handle, field, history>>

BeginSweep ==
  /\ GcGoto("scan", "sweep") /\ queue = {} /\ Scanned /\ worklist = {}
  /\ gc_phase' = 3
  /\ scanning' = NoStack
  /\ UNCHANGED <<gc_cycle_id, gc_current_mark_value, queue, worklist, marks, stacks, locals, heap,
                 history>>

\* The grace of one generation that was not enough (BUG-129).
SweptAfterOne == {o \in Objects : handle[o] = "live" /\ generation[o] < gc_current_mark_value - 1}

\* The sweep keeps an object of the last two generations and retires the rest.
\* Only the collector writes a generation, and an object published after its
\* list was taken is not swept: one step stands for the loop.
Swept == {o \in Objects : handle[o] = "live" /\ generation[o] < gc_current_mark_value - 2}

\* What a thread holds, and what an object refers to that is kept.
Needed == (UNION {Held(t) : t \in Mutators})
            \cup {field[o] : o \in {p \in Objects : handle[p] = "live"} \ Swept}

Sweep ==
  /\ GcGoto("sweep", "reset")
  /\ handle' = [o \in Objects |-> IF o \in Swept THEN "retired" ELSE handle[o]]
  /\ generation' = [o \in Objects |-> IF o \in Swept THEN 0 ELSE generation[o]]
  /\ field' = [o \in Objects |-> IF o \in Swept THEN Null ELSE field[o]]
  /\ missed' = [o \in Objects |->
                  IF handle[o] # "live" \/ o \in Swept \/ Marked(o) THEN 0 ELSE missed[o] + 1]
  /\ queue' = Mutators
  /\ heard' = {} /\ stable' = [t \in Mutators |-> {}]
  /\ lost' = (lost \/ Swept \cap Needed # {})
  /\ UNCHANGED <<gc_phase, gc_cycle_id, gc_current_mark_value, scanning, worklist, marks, stacks,
                 locals, lapsed>>

\* The two stores that reset a thread's watermark.
ResetActive ==
  \E t \in queue :
    /\ GcGoto("reset", "reset_slot")
    /\ watermark_active' = [watermark_active EXCEPT ![t] = FALSE]
    /\ scanning' = [NoStack EXCEPT !.thread = t]
    /\ queue' = queue \ {t}
    /\ UNCHANGED <<gc_phase, gc_cycle_id, gc_current_mark_value, worklist, watermark_slot, stacks,
                   locals, heap, history>>

ResetSlot ==
  /\ GcGoto("reset_slot", IF queue = {} THEN "end" ELSE "reset")
  /\ watermark_slot' = [watermark_slot EXCEPT ![scanning.thread] = 0]
  /\ scanning' = NoStack
  /\ UNCHANGED <<gc_phase, gc_cycle_id, gc_current_mark_value, queue, worklist, watermark_active,
                 stacks, locals, heap, history>>

EndCycle ==
  /\ GcGoto("end", "idle")
  /\ gc_phase' = 0
  /\ UNCHANGED <<gc_cycle_id, gc_current_mark_value, queue, scanning, worklist, marks, stacks,
                 locals, heap, history>>

Collect ==
  \/ BeginCycle \/ BeginWatermark \/ WaitDone \/ WaitTimeout
  \/ ScanThread \/ ScanSlot \/ Drain
  \/ BeginSweep \/ Sweep \/ ResetActive \/ ResetSlot \/ EndCycle

Next == UNCHANGED bounds /\ (Collect \/ \E t \in Mutators : Mutate(t))

Spec == Init /\ [][Next]_vars

-----------------------------------------------------------------------------

\* From a thread's acknowledgement in a cycle until the watermarks are reset, no
\* pop of that thread takes its shadow stack below the watermark it gave.
WatermarkHeld ==
  gcpc \in {"wait", "scan", "sweep"} =>
    \A t \in heard : slot_index[t] >= watermark_slot[t]

\* What an object refers to, directly or not.
Closed(S)    == \A o \in S : field[o] # Null => field[o] \in S
Reachable(o) == {p \in Objects : \A S \in SUBSET Objects : o \in S /\ Closed(S) => p \in S}

\* When the sweep begins, what a variable has held since its thread acknowledged, and
\* whatever that refers to, was traced, whatever the thread did with its other
\* variables while the collector was scanning them: unless an earlier sweep freed
\* something that was held, so that a handle may stand for another object.
StableRootMarked ==
  gcpc = "sweep" /\ ~lost =>
    \A t \in Mutators : \A i \in stable[t] :
      slots[t][i] # Null => \A o \in Reachable(slots[t][i]) : handle[o] = "live" /\ Marked(o)

\* A traced object never refers to one that is neither traced nor on the
\* worklist: an object born in this cycle that refers to an old one hides nothing.
\* Nor does it refer to one that is not in use, with the same exception.
\* (The state is well typed besides.)
NoTracedToUntraced ==
  /\ TypeOK
  /\ gcpc \in {"scan", "sweep"} /\ ~lost =>
       \A o \in Objects :
         handle[o] = "live" /\ Marked(o) /\ field[o] # Null
           => handle[field[o]] = "live" /\ (Marked(field[o]) \/ field[o] \in worklist)

\* As long as every cycle heard every thread, no object is freed before two whole
\* markings have missed it, however its allocation raced with the increment of the
\* generation: what an expression holds outside the stack survives two collections.
SurvivesTwoMisses ==
  [][~lapsed => \A o \in Objects : handle[o] = "live" /\ handle'[o] = "retired" => missed[o] >= 2]_vars

\* While the collector waits for the watermarks and no earlier wait has timed out,
\* seeing every watermark_active set means that every thread has acknowledged in
\* this cycle.
AckedInThisCycle == gcpc = "wait" /\ AllActive /\ ~lapsed => heard = Mutators
=============================================================================
