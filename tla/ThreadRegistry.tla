--------------------------- MODULE ThreadRegistry ---------------------------
(***************************************************************************)
(* The registry of threads of coex_gc.py: a thread prepends its entry by   *)
(* compare-and-swap when it starts; when it ends it marks the entry dead,  *)
(* prepends it to the list of dead threads and releases its shadow stack;  *)
(* the collector walks the registry four times a collection (to wait for   *)
(* the watermarks, to scan, to sweep and to reset) and at the end removes  *)
(* and frees the dead entries whose allocation list is empty.              *)
(*                                                                         *)
(* The main thread registers first and never unregisters: its entry is the *)
(* end of the registry, and Null stands for it there.  The height of a     *)
(* shadow stack is reduced to empty or not; GcCycle has what is on it.     *)
(* Not here: an entry is never allocated again where another was freed.    *)
(***************************************************************************)
EXTENDS Integers, FiniteSets

CONSTANTS Threads, Null, Bounds     \* bounds: of the threads, the height of a stack and the collections of a run

ASSUME RegistryAssumption ==
  Null \notin Threads /\ IsFiniteSet(Threads) /\ Bounds \subseteq [threads : Nat, height : 0 .. 1, cycles : Nat]

DEAD == 57005      \* 0xDEAD, of watermark_active

VARIABLES
  gc_thread_registry, next,            \* the registry and field 11 of the entries
  gc_dead_threads, dead_next,          \* the dead list and field 15
  entry,                               \* the memory of an entry: not yet, in use, freed
  watermark_active, watermark_slot, slot_index, segments, alloc_list,
  pc, expected,                        \* of a thread, and the head it expects
  gcpc, gc_phase, gc_cycle_id,
  at,                                  \* the entry a walk has come to
  dead_curr, dead_saved, reg_head,     \* of the cleanup: this dead entry, the next, the head it has read
  bounds,                              \* of this run
  lost,                                \* history: the entries a plain store of the head took out
  heard                                \* history: the threads that acknowledged in this collection

registry == <<gc_thread_registry, next>>
deadlist == <<gc_dead_threads, dead_next>>
marks    == <<watermark_active, watermark_slot>>
stack    == <<slot_index, segments>>
thread   == <<pc, expected>>
cycle    == <<gcpc, gc_phase, gc_cycle_id>>
cleanup  == <<dead_curr, dead_saved, reg_head>>
history  == <<lost, heard>>
vars     == <<registry, deadlist, entry, marks, stack, alloc_list, thread, cycle, at, cleanup, bounds, history>>

Pointer == Threads \cup {Null}

TypeOK ==
  /\ gc_thread_registry \in Pointer /\ next \in [Threads -> Pointer]
  /\ gc_dead_threads \in Pointer /\ dead_next \in [Threads -> Pointer]
  /\ entry \in [Threads -> {"none", "used", "freed"}]
  /\ watermark_active \in [Threads -> {0, 1, DEAD}] /\ watermark_slot \in [Threads -> 0 .. 1]
  /\ slot_index \in [Threads -> 0 .. 1] /\ segments \in [Threads -> BOOLEAN]
  /\ alloc_list \in [Threads -> BOOLEAN]
  /\ pc \in [Threads -> {"start", "link", "cas", "run", "safe", "pop", "spin", "store", "dead_link", "dead_cas",
                         "segments", "handles", "ended"}]
  /\ expected \in [Threads -> Pointer]
  /\ gcpc \in {"idle", "wait", "scan", "slots", "sweep", "reset", "store", "store_slot", "dead", "remove",
               "unlink", "free"}
  /\ gc_phase \in 0 .. 3 /\ gc_cycle_id \in Nat
  /\ at \in Pointer /\ dead_curr \in Pointer /\ dead_saved \in Pointer /\ reg_head \in Pointer
  /\ bounds \in Bounds /\ lost \subseteq Threads /\ heard \subseteq Threads

Init ==
  /\ gc_thread_registry = Null /\ next = [t \in Threads |-> Null]
  /\ gc_dead_threads = Null /\ dead_next = [t \in Threads |-> Null]
  /\ entry = [t \in Threads |-> "none"]
  /\ watermark_active = [t \in Threads |-> 0] /\ watermark_slot = [t \in Threads |-> 0]
  /\ slot_index = [t \in Threads |-> 0] /\ segments = [t \in Threads |-> FALSE]
  /\ alloc_list = [t \in Threads |-> FALSE]
  /\ pc = [t \in Threads |-> "start"] /\ expected = [t \in Threads |-> Null]
  /\ gcpc = "idle" /\ gc_phase = 0 /\ gc_cycle_id = 0 /\ at = Null
  /\ dead_curr = Null /\ dead_saved = Null /\ reg_head = Null
  /\ bounds \in Bounds /\ lost = {} /\ heard = {}

-----------------------------------------------------------------------------
(* gc_register_thread.                                                     *)

Goto(t, from, to) == pc[t] = from /\ pc' = [pc EXCEPT ![t] = to]

Collector == <<cycle, at, cleanup>>

NewEntry(t) ==
  /\ Goto(t, "start", "link") /\ Cardinality({u \in Threads : entry[u] # "none"}) < bounds.threads
  /\ entry' = [entry EXCEPT ![t] = "used"] /\ segments' = [segments EXCEPT ![t] = TRUE]
  /\ UNCHANGED <<registry, deadlist, marks, slot_index, alloc_list, expected, Collector, history>>

Link(t) ==
  /\ Goto(t, "link", "cas")
  /\ expected' = [expected EXCEPT ![t] = gc_thread_registry]
  /\ next' = [next EXCEPT ![t] = gc_thread_registry]
  /\ UNCHANGED <<gc_thread_registry, deadlist, entry, marks, stack, alloc_list, Collector, history>>

Register(t) ==
  /\ Goto(t, "cas", IF gc_thread_registry = expected[t] THEN "run" ELSE "link")
  /\ gc_thread_registry' = IF gc_thread_registry = expected[t] THEN t ELSE gc_thread_registry
  /\ expected' = [expected EXCEPT ![t] = Null]
  /\ UNCHANGED <<next, deadlist, entry, marks, stack, alloc_list, Collector, history>>

-----------------------------------------------------------------------------
(* A registered thread.                                                    *)

\* gc_safepoint sees a phase that is not idle ...
SafepointPhase(t) ==
  /\ gc_phase # 0 /\ Goto(t, "run", "safe")
  /\ UNCHANGED <<registry, deadlist, entry, marks, stack, alloc_list, expected, Collector, history>>

\* The watermark is the height of the stack, whichever collection it is by now.
Acknowledge(t) ==
  IF watermark_active[t] # 0 THEN UNCHANGED <<marks, heard>>
  ELSE /\ watermark_active' = [watermark_active EXCEPT ![t] = 1]
       /\ watermark_slot' = [watermark_slot EXCEPT ![t] = slot_index[t]]
       /\ heard' = IF gcpc \in {"wait", "scan", "slots"} THEN heard \cup {t} ELSE heard

\* ... and acknowledges, unless that has been done.
SafepointAck(t) ==
  /\ Goto(t, "safe", "run") /\ Acknowledge(t)
  /\ UNCHANGED <<registry, deadlist, entry, stack, alloc_list, expected, Collector, lost>>

Push(t) ==
  /\ pc[t] = "run" /\ slot_index[t] < bounds.height
  /\ slot_index' = [slot_index EXCEPT ![t] = 1]
  /\ UNCHANGED <<registry, deadlist, entry, marks, segments, alloc_list, thread, Collector, history>>

\* gc_segment_pop of the last frame: when the phase is idle, only the store is left.
PopPhase(t) ==
  /\ slot_index[t] = 1 /\ Goto(t, "run", IF gc_phase = 0 THEN "store" ELSE "pop")
  /\ UNCHANGED <<registry, deadlist, entry, marks, stack, alloc_list, expected, Collector, history>>

\* A pop that does not compare with the watermark (mutation).
PopUnchecked(t) ==
  /\ Acknowledge(t) /\ Goto(t, "pop", "store")
  /\ UNCHANGED <<registry, deadlist, entry, stack, alloc_list, expected, Collector, lost>>

\* In a collection no pop goes below the watermark, which the pop sets if need be.
PopCheck(t) ==
  /\ Acknowledge(t) /\ Goto(t, "pop", IF watermark_slot'[t] = 0 THEN "store" ELSE "spin")
  /\ UNCHANGED <<registry, deadlist, entry, stack, alloc_list, expected, Collector, lost>>

\* It waits for the phase to be idle.
PopSpin(t) ==
  /\ gc_phase = 0 /\ Goto(t, "spin", "store")
  /\ UNCHANGED <<registry, deadlist, entry, marks, stack, alloc_list, expected, Collector, history>>

PopStore(t) ==
  /\ Goto(t, "store", "run")
  /\ slot_index' = [slot_index EXCEPT ![t] = 0]
  /\ UNCHANGED <<registry, deadlist, entry, marks, segments, alloc_list, expected, Collector, history>>

Allocate(t) ==
  /\ pc[t] = "run" /\ ~alloc_list[t]
  /\ alloc_list' = [alloc_list EXCEPT ![t] = TRUE]
  /\ UNCHANGED <<registry, deadlist, entry, marks, stack, thread, Collector, history>>

-----------------------------------------------------------------------------
(* gc_unregister_thread.  The entry is on the dead list before its fields  *)
(* are read for the last time.                                             *)

MarkDead(t) ==
  /\ slot_index[t] = 0 /\ Goto(t, "run", "dead_link")
  /\ watermark_active' = [watermark_active EXCEPT ![t] = DEAD]
  /\ UNCHANGED <<registry, deadlist, entry, watermark_slot, stack, alloc_list, expected, Collector,
                 history>>

\* The dead list is linked through the registry's own field (BUG-122) (mutation).
LinkInRegistryField(t) ==
  /\ Goto(t, "dead_link", "dead_cas")
  /\ expected' = [expected EXCEPT ![t] = gc_dead_threads]
  /\ dead_next' = [dead_next EXCEPT ![t] = gc_dead_threads]
  /\ next' = [next EXCEPT ![t] = gc_dead_threads]
  /\ UNCHANGED <<gc_thread_registry, gc_dead_threads, entry, marks, stack, alloc_list, Collector, history>>

DeadLink(t) ==
  /\ Goto(t, "dead_link", "dead_cas")
  /\ expected' = [expected EXCEPT ![t] = gc_dead_threads]
  /\ dead_next' = [dead_next EXCEPT ![t] = gc_dead_threads]
  /\ UNCHANGED <<registry, gc_dead_threads, entry, marks, stack, alloc_list, Collector, history>>

AppendDead(t) ==
  /\ Goto(t, "dead_cas", IF gc_dead_threads = expected[t] THEN "segments" ELSE "dead_link")
  /\ gc_dead_threads' = IF gc_dead_threads = expected[t] THEN t ELSE gc_dead_threads
  /\ expected' = [expected EXCEPT ![t] = Null]
  /\ UNCHANGED <<registry, dead_next, entry, marks, stack, alloc_list, Collector, history>>

FreeSegments(t) ==
  /\ Goto(t, "segments", "handles")
  /\ segments' = [segments EXCEPT ![t] = FALSE]
  /\ UNCHANGED <<registry, deadlist, entry, marks, slot_index, alloc_list, expected, Collector, history>>

ReturnHandles(t) ==
  /\ Goto(t, "handles", "ended")
  /\ UNCHANGED <<registry, deadlist, entry, marks, stack, alloc_list, expected, Collector, history>>

Run(t) ==
  \/ NewEntry(t) \/ Link(t) \/ Register(t)
  \/ SafepointPhase(t) \/ SafepointAck(t) \/ Push(t)
  \/ PopPhase(t) \/ PopCheck(t) \/ PopSpin(t) \/ PopStore(t) \/ Allocate(t)
  \/ MarkDead(t) \/ DeadLink(t) \/ AppendDead(t) \/ FreeSegments(t) \/ ReturnHandles(t)

-----------------------------------------------------------------------------
(* The collector's walks.                                                  *)

GcGoto(from, to) == gcpc = from /\ gcpc' = to

BeginWait ==
  /\ gc_cycle_id < bounds.cycles /\ GcGoto("idle", "wait")
  /\ gc_phase' = 1 /\ gc_cycle_id' = gc_cycle_id + 1
  /\ at' = gc_thread_registry
  /\ UNCHANGED <<registry, deadlist, entry, marks, stack, alloc_list, thread, cleanup, history>>

\* gc_wait_for_watermarks: an entry that has not acknowledged starts the walk again.
WaitFor ==
  /\ gcpc = "wait" /\ at # Null
  /\ at' = IF watermark_active[at] = 0 THEN gc_thread_registry ELSE next[at]
  /\ UNCHANGED <<registry, deadlist, entry, marks, stack, alloc_list, thread, cycle, cleanup, history>>

\* All have, or MAX_ITERATIONS walks did not help.
BeginScan ==
  /\ at # Null => watermark_active[at] = 0
  /\ GcGoto("wait", "scan") /\ gc_phase' = 2
  /\ at' = gc_thread_registry
  /\ UNCHANGED <<registry, deadlist, entry, marks, stack, alloc_list, thread, gc_cycle_id, cleanup,
                 history>>

Scan ==
  /\ at # Null
  /\ GcGoto("scan", IF watermark_active[at] # DEAD /\ slot_index[at] > 0 THEN "slots" ELSE "scan")
  /\ at' = IF gcpc' = "slots" THEN at ELSE next[at]
  /\ UNCHANGED <<registry, deadlist, entry, marks, stack, alloc_list, thread, gc_phase, gc_cycle_id,
                 cleanup, history>>

\* The slots are read up to the height loaded before.
ScanSlots ==
  /\ GcGoto("slots", "scan")
  /\ at' = next[at]
  /\ UNCHANGED <<registry, deadlist, entry, marks, stack, alloc_list, thread, gc_phase, gc_cycle_id,
                 cleanup, history>>

BeginSweep ==
  /\ at = Null /\ GcGoto("scan", "sweep") /\ gc_phase' = 3
  /\ at' = gc_thread_registry /\ heard' = {}
  /\ UNCHANGED <<registry, deadlist, entry, marks, stack, alloc_list, thread, gc_cycle_id, cleanup,
                 lost>>

\* The list of an entry is taken, and what survives is put back: all of it or some, or
\* nothing.  Dead entries are swept as well.
Sweep ==
  /\ at # Null /\ gcpc = "sweep"
  /\ \/ UNCHANGED alloc_list
     \/ alloc_list' = [alloc_list EXCEPT ![at] = FALSE]
  /\ at' = next[at]
  /\ UNCHANGED <<registry, deadlist, entry, marks, stack, thread, cycle, cleanup, history>>

BeginReset ==
  /\ at = Null /\ GcGoto("sweep", "reset")
  /\ at' = gc_thread_registry
  /\ UNCHANGED <<registry, deadlist, entry, marks, stack, alloc_list, thread, gc_phase, gc_cycle_id,
                 cleanup, history>>

Reset ==
  /\ at # Null
  /\ GcGoto("reset", IF watermark_active[at] = DEAD THEN "reset" ELSE "store")
  /\ at' = IF gcpc' = "store" THEN at ELSE next[at]
  /\ UNCHANGED <<registry, deadlist, entry, marks, stack, alloc_list, thread, gc_phase, gc_cycle_id,
                 cleanup, history>>

\* The thread may have ended since its mark was read: its entry counts as live again.
StoreReset ==
  /\ GcGoto("store", "store_slot")
  /\ watermark_active' = [watermark_active EXCEPT ![at] = 0]
  /\ UNCHANGED <<registry, deadlist, entry, watermark_slot, stack, alloc_list, thread, gc_phase, gc_cycle_id,
                 at, cleanup, history>>

StoreResetSlot ==
  /\ GcGoto("store_slot", "reset")
  /\ watermark_slot' = [watermark_slot EXCEPT ![at] = 0]
  /\ at' = next[at]
  /\ UNCHANGED <<registry, deadlist, entry, watermark_active, stack, alloc_list, thread, gc_phase, gc_cycle_id,
                 cleanup, history>>

-----------------------------------------------------------------------------
(* The collector's cleanup of dead entries.                                *)

Steal ==
  /\ at = Null /\ GcGoto("reset", "dead")
  /\ dead_curr' = gc_dead_threads /\ gc_dead_threads' = Null
  /\ UNCHANGED <<registry, dead_next, entry, marks, stack, alloc_list, thread, gc_phase, gc_cycle_id, at,
                 dead_saved, reg_head, history>>

\* An entry whose list is not empty is forgotten (mutation).
DeferForgotten ==
  /\ dead_curr # Null /\ alloc_list[dead_curr] /\ gcpc = "dead"
  /\ dead_curr' = dead_next[dead_curr]
  /\ UNCHANGED <<registry, deadlist, entry, marks, stack, alloc_list, thread, cycle, at, dead_saved,
                 reg_head, history>>

\* An entry whose list is not empty goes back to the dead list.
DeferDead ==
  /\ dead_curr # Null /\ alloc_list[dead_curr] /\ gcpc = "dead"
  /\ dead_next' = [dead_next EXCEPT ![dead_curr] = gc_dead_threads]
  /\ gc_dead_threads' = dead_curr
  /\ dead_curr' = dead_next[dead_curr]
  /\ UNCHANGED <<registry, entry, marks, stack, alloc_list, thread, cycle, at, dead_saved, reg_head,
                 history>>

LoadRegistryHead ==
  /\ dead_curr # Null /\ ~alloc_list[dead_curr] /\ GcGoto("dead", "unlink")
  /\ dead_saved' = dead_next[dead_curr]
  /\ reg_head' = gc_thread_registry
  /\ UNCHANGED <<registry, deadlist, entry, marks, stack, alloc_list, thread, gc_phase, gc_cycle_id, at,
                 dead_curr, history>>

\* The entries a walk from a head visits.
Walk(head, link) ==
  LET reached[n \in Nat] ==
        IF n = 0 THEN {head} ELSE reached[n - 1] \cup {link[t] : t \in reached[n - 1] \ {Null}}
  IN  reached[Cardinality(Threads)] \ {Null}

\* The search inside the list is left out (mutation).
UnlinkAtHead ==
  /\ GcGoto("unlink", "free")
  /\ gc_thread_registry' = IF reg_head = dead_curr THEN next[dead_curr] ELSE gc_thread_registry
  /\ UNCHANGED <<next, deadlist, entry, marks, stack, alloc_list, thread, gc_phase, gc_cycle_id, at,
                 cleanup, history>>

\* At the head the successor is stored, whatever the head has become; elsewhere the
\* predecessor, if a search from the head finds one, skips the entry.
Unlink ==
  /\ GcGoto("unlink", "free")
  /\ IF reg_head = dead_curr
     THEN /\ gc_thread_registry' = next[dead_curr] /\ UNCHANGED next
          /\ lost' = lost \cup (Walk(gc_thread_registry, next) \ Walk(reg_head, next))
     ELSE /\ next' = [t \in Threads |-> IF t \in Walk(reg_head, next) /\ next[t] = dead_curr
                                        THEN next[dead_curr] ELSE next[t]]
          /\ UNCHANGED <<gc_thread_registry, lost>>
  /\ UNCHANGED <<deadlist, entry, marks, stack, alloc_list, thread, gc_phase, gc_cycle_id, at, cleanup, heard>>

\* The thread may not have come to the end of gc_unregister_thread.
Free ==
  /\ GcGoto("free", "dead")
  /\ entry' = [entry EXCEPT ![dead_curr] = "freed"]
  /\ dead_curr' = dead_saved /\ dead_saved' = Null /\ reg_head' = Null
  /\ UNCHANGED <<registry, deadlist, marks, stack, alloc_list, thread, gc_phase, gc_cycle_id, at, history>>

EndCycle ==
  /\ dead_curr = Null /\ GcGoto("dead", "idle") /\ gc_phase' = 0
  /\ UNCHANGED <<registry, deadlist, entry, marks, stack, alloc_list, thread, gc_cycle_id, at, cleanup,
                 history>>

Collect ==
  \/ BeginWait \/ WaitFor \/ BeginScan \/ Scan \/ ScanSlots \/ BeginSweep \/ Sweep
  \/ BeginReset \/ Reset \/ StoreReset \/ StoreResetSlot
  \/ Steal \/ DeferDead \/ LoadRegistryHead \/ Unlink \/ Free \/ EndCycle

Next == UNCHANGED bounds /\ ((\E t \in Threads : Run(t)) \/ Collect)

Spec == Init /\ [][Next]_vars

-----------------------------------------------------------------------------
(* Properties.                                                             *)

\* Every running thread is on the registry, where its roots are found, its list swept and its
\* watermark waited for, whatever was prepended and removed meanwhile (BUG-122 had orphaned
\* the threads behind a dead one).  The exception is the code's: a thread that prepends its
\* entry after the cleanup has read the head, and before it stores the head's successor.
Registered ==
  \A t \in Threads : pc[t] \in {"run", "safe", "pop", "spin", "store"} =>
    t \in Walk(gc_thread_registry, next) \cup lost

\* An entry is freed only when its thread has marked it dead and put it on the dead list, and
\* no walk comes to a freed entry: neither the registry, nor the list of the dead, nor the
\* collector leads to one.  (The state is well typed besides.)
NoWalkToFreed ==
  /\ TypeOK
  /\ \A t \in Threads : entry[t] = "freed" =>
       /\ pc[t] \in {"segments", "handles", "ended"}
       /\ t \notin Walk(gc_thread_registry, next) \cup Walk(gc_dead_threads, dead_next) \cup {at}
       /\ t \notin IF gcpc \in {"unlink", "free"} THEN {dead_curr} \cup Walk(dead_saved, dead_next)
                   ELSE Walk(dead_curr, dead_next)

\* The entry of a thread that has ended is freed, or waits on the dead list, or is in the
\* collector's hands: the objects it allocated are swept until none is left, and then it is
\* freed.
NoDeadForgotten ==
  \A t \in Threads : pc[t] \in {"segments", "handles", "ended"} =>
    \/ entry[t] = "freed"
    \/ t \in Walk(gc_dead_threads, dead_next) \cup Walk(dead_curr, dead_next) \cup Walk(dead_saved, dead_next)

\* The collector reads the slots of a stack that is mapped, if the thread has acknowledged
\* in this collection with frames on it: it cannot pop what the scan has counted, so it cannot
\* end.  Without that (nothing was on the stack; there was no answer; or the answer was stored
\* late in the collection before, and a pop that had seen phase 0 since) the code lets it end
\* and unmap the stack under the scan.
ScannedIsMapped ==
  gcpc = "slots" /\ at \in heard /\ watermark_slot[at] > 0 => segments[at]

\* "gc_segment_pop enforces slot_index >= watermark_slot during active GC" (coex_gc.py:3826),
\* whenever the watermark was given.
WatermarkKeepsStack == gcpc = "slots" /\ watermark_slot[at] > 0 => segments[at]
=============================================================================
