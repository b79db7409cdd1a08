-------------------------------- MODULE Heap --------------------------------
(***************************************************************************)
(* The memory of coex_gc.py: each thread bumps the cursor of its own       *)
(* allocation buffer (TLAB), the sweep and the compaction count down the   *)
(* objects a buffer holds, take the buffer away from its thread when the   *)
(* count reaches zero and unmap it two collections later, and every        *)
(* compaction moves what survived into one new buffer.                     *)
(*                                                                         *)
(* Threads and collector share the three TLAB fields, the counts and the   *)
(* allocation lists without a lock.  Every object has the same size but    *)
(* the ones too large for a TLAB.  Which objects the marking reaches is    *)
(* GcCycle's subject: here it may reach any.                               *)
(***************************************************************************)
EXTENDS Integers, FiniteSets, Sequences

CONSTANTS
  Threads,
  Slots,        \* the objects of a TLAB
  MaxBuffers,   \* bound: the buffers a run maps
  Poison,       \* the count no sweep brings down to zero (2^63 - 1 in the code)
  Bounds        \* bounds: the threads of a run, the objects they allocate, the collections, and
                \* whether mmap may fail

ASSUME HeapAssumption ==
  /\ Slots \in Nat \ {0} /\ MaxBuffers \in Nat \ {0} /\ Poison \in Nat
  /\ IsFiniteSet(Threads) /\ Cardinality(Threads) <= MaxBuffers
  /\ Bounds \subseteq [threads : SUBSET Threads, objects : Nat, cycles : Nat, failures : BOOLEAN]
  /\ \A b \in Bounds : 2 * b.objects < Poison

Buffer == 1 .. MaxBuffers
Null   == 0               \* of a place: a block of malloc

VARIABLES
  bound,                                  \* the bounds of this run
  mapped, allotted, live_count,           \* the buffers: mapped now, mapped so far, the header's count
  freed,                                  \* the objects whose malloc block is freed
  tlab_base, tlab_cursor, tlab_limit,     \* the fields of a thread's entry
  pc, big, tried, limit, cursor, buffer,  \* locals of gc_alloc, gc_tlab_alloc and gc_tlab_refill
  base, stamp,
  held,                                   \* the raw pointer a thread works with
  alloc_list,                             \* the nodes of each thread
  next_object, place, node_base, flag_tlab, generation,
  born,                                   \* history: the generation an object was born in, while that protects it
  gcpc, acked, gc_current_mark_value, gc_compacting,
  left, thread, nodes, survivors, head,   \* of a walk: the threads left, this thread, its nodes left
  gc_dead_tlab_list, gc_compact_dead_tlab_list, gc_compact_dead_tlab_list_prev,
  deferred_free,
  node, old, target, room,                \* of the compaction: the node, its old buffer, the new buffer
  prev_buffer, prev_prev_buffer,
  wild,                                   \* history: the collector used the header of no mapped buffer
  lost,                                   \* history: a write to a newborn object was lost
  lapse                                   \* history: what went wrong with a count or an acknowledgement

memory   == <<mapped, allotted, live_count, freed>>
fields   == <<tlab_base, tlab_cursor, tlab_limit>>
locals   == <<big, tried, limit, cursor, buffer, base, stamp>>
objects  == <<next_object, place, node_base, flag_tlab, generation, born>>
walk     == <<left, thread, nodes, survivors, head>>
dead     == <<gc_dead_tlab_list, gc_compact_dead_tlab_list, gc_compact_dead_tlab_list_prev,
              deferred_free>>
compact  == <<node, old, target, room, prev_buffer, prev_prev_buffer>>
cycle    == <<bound, acked, gc_current_mark_value, gc_compacting>>
history  == <<wild, lost, lapse>>
vars     == <<memory, fields, pc, locals, held, alloc_list, objects, gcpc, cycle, walk, dead, compact,
              history>>

Object   == 1 .. next_object - 1     \* the objects published so far
NoCursor == [buffer |-> Null, next |-> 0]
NoHeld   == [object |-> 0, place |-> Null]

TypeOK ==
  /\ bound \in Bounds
  /\ mapped \subseteq Buffer /\ allotted \in 0 .. MaxBuffers /\ live_count \in [Buffer -> Int]
  /\ freed \subseteq Object
  /\ tlab_base \in [Threads -> Buffer \cup {Null}] /\ tlab_limit \in [Threads -> Buffer \cup {Null}]
  /\ \A t \in Threads : /\ tlab_cursor[t].buffer \in Buffer \cup {Null}
                        /\ tlab_cursor[t].next \in 0 .. Slots + 1
                        /\ held[t].object \in Object \cup {0}
                        /\ held[t].place \in Buffer \cup {Null}
  /\ pc \in [Threads -> {"idle", "limit", "cursor", "cas", "base", "malloc", "count", "publish",
                         "refill", "store_base", "store_cursor", "store_limit"}]
  /\ alloc_list \in [Threads -> SUBSET Object] /\ nodes \subseteq Object /\ survivors \subseteq Object
  /\ gcpc \in {"idle", "wait", "cleanup", "steal", "sweep", "prepend", "recheck", "size",
               "copy", "store", "decrement", "recheck_old", "current", "reset_base", "reset_cursor",
               "reset_limit", "defer"}
  /\ acked \subseteq Threads /\ gc_compacting \in 0 .. 1
  /\ gc_current_mark_value \in 1 .. bound.cycles + 1
  /\ gc_dead_tlab_list \subseteq Buffer /\ gc_compact_dead_tlab_list \subseteq Buffer
  /\ gc_compact_dead_tlab_list_prev \subseteq Buffer /\ deferred_free \subseteq Object
  /\ prev_buffer \in Buffer \cup {Null} /\ prev_prev_buffer \in Buffer \cup {Null}
  /\ lapse \subseteq {"null base", "late count", "no answer"}

\* gc_tlab_init maps a first buffer for each thread.
FirstBuffer ==
  CHOOSE first \in [Threads -> 1 .. Cardinality(Threads)] :
    \A t, u \in Threads : first[t] = first[u] => t = u

Init ==
  /\ bound \in Bounds
  /\ tlab_base = FirstBuffer /\ tlab_limit = FirstBuffer
  /\ tlab_cursor = [t \in Threads |-> [buffer |-> FirstBuffer[t], next |-> 1]]
  /\ mapped = 1 .. Cardinality(Threads) /\ allotted = Cardinality(Threads)
  /\ live_count = [b \in Buffer |-> 0] /\ freed = {}
  /\ pc = [t \in Threads |-> "idle"] /\ big = [t \in Threads |-> FALSE]
  /\ tried = [t \in Threads |-> FALSE] /\ limit = [t \in Threads |-> Null]
  /\ cursor = [t \in Threads |-> NoCursor] /\ buffer = [t \in Threads |-> Null]
  /\ base = [t \in Threads |-> Null] /\ stamp = [t \in Threads |-> 0]
  /\ held = [t \in Threads |-> NoHeld] /\ alloc_list = [t \in Threads |-> {}]
  /\ next_object = 1 /\ place = <<>> /\ node_base = <<>> /\ flag_tlab = <<>>
  /\ generation = <<>> /\ born = <<>>
  /\ gcpc = "idle" /\ acked = {} /\ gc_current_mark_value = 1 /\ gc_compacting = 0
  /\ left = {} /\ thread = (CHOOSE t \in Threads : TRUE) /\ nodes = {} /\ survivors = {} /\ head = {}
  /\ gc_dead_tlab_list = {} /\ gc_compact_dead_tlab_list = {}
  /\ gc_compact_dead_tlab_list_prev = {} /\ deferred_free = {}
  /\ node = 0 /\ old = Null /\ target = Null /\ room = 0
  /\ prev_buffer = Null /\ prev_prev_buffer = Null
  /\ wild = FALSE /\ lost = FALSE /\ lapse = {}

Listed == nodes \cup survivors \cup UNION {alloc_list[t] : t \in Threads}

-----------------------------------------------------------------------------
(* Memory.                                                                 *)

\* mmap: a buffer at an address not used before, its header's count zero.
Map(b) ==
  /\ allotted < MaxBuffers /\ b = allotted + 1
  /\ allotted' = b /\ mapped' = mapped \cup {b}

MayFail == bound.failures

Touch(b) == wild' = (wild \/ b \notin mapped)

-----------------------------------------------------------------------------
(* The threads: gc_alloc.                                                  *)

Goto(t, from, to) == pc[t] = from /\ pc' = [pc EXCEPT ![t] = to]

Collector == <<gcpc, cycle, walk, dead, compact>>

\* The objects that fit no TLAB are the large ones.
Start(t) ==
  /\ next_object + Cardinality({u \in Threads : pc[u] # "idle"}) <= bound.objects
  /\ Goto(t, "idle", "limit")
  /\ big' \in [Threads -> BOOLEAN] /\ \A u \in Threads \ {t} : big'[u] = big[u]
  /\ tried' = [tried EXCEPT ![t] = FALSE]
  /\ UNCHANGED <<memory, fields, limit, cursor, buffer, base, stamp, held, alloc_list, objects,
                 Collector, history>>

LoadLimit(t) ==
  /\ Goto(t, "limit", "cursor")
  /\ limit' = [limit EXCEPT ![t] = tlab_limit[t]]
  /\ UNCHANGED <<memory, fields, big, tried, cursor, buffer, base, stamp, held, alloc_list, objects,
                 Collector, history>>

HasSpace(t) ==
  LET at == tlab_cursor[t]
  IN  at.buffer # Null /\ at.buffer = limit[t] /\ at.next <= Slots /\ ~big[t]

LoadCursor(t) ==
  /\ pc[t] = "cursor"
  /\ pc' = [pc EXCEPT ![t] = IF HasSpace(t) THEN "cas" ELSE IF tried[t] THEN "malloc" ELSE "refill"]
  /\ cursor' = [cursor EXCEPT ![t] = IF HasSpace(t) THEN tlab_cursor[t] ELSE NoCursor]
  /\ UNCHANGED <<memory, fields, big, tried, limit, buffer, base, stamp, held, alloc_list, objects,
                 Collector, history>>

CasCursor(t) ==
  IF tlab_cursor[t] = cursor[t]
  THEN /\ Goto(t, "cas", "base")
       /\ tlab_cursor' = [tlab_cursor EXCEPT ![t].next = @ + 1]
       /\ UNCHANGED <<memory, tlab_base, tlab_limit, locals, held, alloc_list, objects, Collector,
                      history>>
  ELSE /\ Goto(t, "cas", "cursor")
       /\ UNCHANGED <<memory, fields, locals, held, alloc_list, objects, Collector, history>>

\* After the cursor, gc_alloc loads the base, and then the generation.
LoadBase(t) ==
  /\ Goto(t, "base", "count")
  /\ base' = [base EXCEPT ![t] = tlab_base[t]]
  /\ stamp' = [stamp EXCEPT ![t] = gc_current_mark_value]
  /\ lapse' = IF tlab_base[t] = Null THEN lapse \cup {"null base"} ELSE lapse
  /\ UNCHANGED <<memory, fields, big, tried, limit, cursor, buffer, held, alloc_list, objects,
                 Collector, wild, lost>>

Malloc(t) ==
  /\ Goto(t, "malloc", "count")
  /\ base' = [base EXCEPT ![t] = Null]
  /\ stamp' = [stamp EXCEPT ![t] = gc_current_mark_value]
  /\ UNCHANGED <<memory, fields, big, tried, limit, cursor, buffer, held, alloc_list, objects,
                 Collector, history>>

\* The buffers the collector has already decided to unmap.
Doomed ==
  gc_compact_dead_tlab_list \cup gc_compact_dead_tlab_list_prev
  \cup (IF gc_compacting = 1 /\ gcpc \in {"current", "reset_base", "reset_cursor", "reset_limit", "defer"}
        THEN {old} ELSE {})

Count(t) ==
  /\ Goto(t, "count", "publish")
  /\ IF base[t] = Null THEN UNCHANGED <<live_count, wild, lapse>>
     ELSE /\ live_count' = [live_count EXCEPT ![base[t]] = @ + 1]
          /\ Touch(base[t])
          /\ lapse' = IF base[t] \in Doomed THEN lapse \cup {"late count"} ELSE lapse
  /\ UNCHANGED <<mapped, allotted, freed, fields, locals, held, alloc_list, objects, Collector, lost>>

\* gc_alloc_to_thread_list; the handle is stored before.
Publish(t) ==
  /\ Goto(t, "publish", "idle")
  /\ next_object' = next_object + 1
  /\ place' = Append(place, cursor[t].buffer)
  /\ flag_tlab' = Append(flag_tlab, cursor[t].buffer # Null)
  /\ node_base' = Append(node_base, base[t])
  /\ generation' = Append(generation, stamp[t]) /\ born' = Append(born, stamp[t])
  /\ alloc_list' = [alloc_list EXCEPT ![t] = @ \cup {next_object}]
  /\ cursor' = [cursor EXCEPT ![t] = NoCursor] /\ base' = [base EXCEPT ![t] = Null]
  /\ limit' = [limit EXCEPT ![t] = Null] /\ stamp' = [stamp EXCEPT ![t] = 0]
  /\ big' = [big EXCEPT ![t] = FALSE] /\ tried' = [tried EXCEPT ![t] = FALSE]
  /\ UNCHANGED <<memory, fields, buffer, held, Collector, history>>

-----------------------------------------------------------------------------
(* The threads: gc_tlab_refill.                                            *)

Refill(t) ==
  \E b \in Buffer :
    /\ Goto(t, "refill", "store_base") /\ Map(b)
    /\ buffer' = [buffer EXCEPT ![t] = b]
    /\ UNCHANGED <<live_count, freed, fields, big, tried, limit, cursor, base, stamp, held, alloc_list,
                   objects, Collector, history>>

RefillFails(t) ==
  /\ MayFail
  /\ Goto(t, "refill", "limit")
  /\ tried' = [tried EXCEPT ![t] = TRUE]
  /\ UNCHANGED <<memory, fields, big, limit, cursor, buffer, base, stamp, held, alloc_list, objects,
                 Collector, history>>

StoreBase(t) ==
  /\ Goto(t, "store_base", "store_cursor")
  /\ tlab_base' = [tlab_base EXCEPT ![t] = buffer[t]]
  /\ UNCHANGED <<memory, tlab_cursor, tlab_limit, locals, held, alloc_list, objects, Collector, history>>

StoreCursor(t) ==
  /\ Goto(t, "store_cursor", "store_limit")
  /\ tlab_cursor' = [tlab_cursor EXCEPT ![t] = [buffer |-> buffer[t], next |-> 1]]
  /\ UNCHANGED <<memory, tlab_base, tlab_limit, locals, held, alloc_list, objects, Collector, history>>

StoreLimit(t) ==
  /\ Goto(t, "store_limit", "limit")
  /\ tlab_limit' = [tlab_limit EXCEPT ![t] = buffer[t]]
  /\ tried' = [tried EXCEPT ![t] = TRUE] /\ buffer' = [buffer EXCEPT ![t] = Null]
  /\ UNCHANGED <<memory, tlab_base, tlab_cursor, big, limit, cursor, base, stamp, held, alloc_list,
                 objects, Collector, history>>

-----------------------------------------------------------------------------
(* The threads: raw pointers.                                              *)

\* An object the program still has was marked by the last collection or is younger.
InUse(o) == o \in Listed /\ generation[o] >= gc_current_mark_value - 1

\* gc_handle_deref: the pointer is good until the thread's next safepoint.
Deref(t) ==
  \E o \in Object :
    /\ pc[t] = "idle" /\ held[t] = NoHeld /\ InUse(o)
    /\ held' = [held EXCEPT ![t] = [object |-> o, place |-> place[o]]]
    /\ UNCHANGED <<memory, fields, pc, locals, alloc_list, objects, Collector, history>>

\* A write through it is lost once the object has been copied.
Write(t) ==
  LET o == held[t].object
  IN  /\ pc[t] = "idle" /\ held[t] # NoHeld
      /\ lost' = (lost \/ (/\ born[o] = gc_current_mark_value /\ lapse = {}
                           /\ generation[o] = gc_current_mark_value
                           /\ \/ held[t].place # place[o]
                              \/ gcpc = "store" /\ node = o))
      /\ held' = [held EXCEPT ![t] = NoHeld]
      /\ UNCHANGED <<memory, fields, pc, locals, alloc_list, objects, Collector, wild, lapse>>

\* gc_safepoint acknowledges the watermark; no pointer is kept across it.
Safepoint(t) ==
  /\ pc[t] = "idle" /\ gcpc = "wait" /\ t \notin acked
  /\ acked' = acked \cup {t}
  /\ held' = [held EXCEPT ![t] = NoHeld]
  /\ UNCHANGED <<memory, fields, pc, locals, alloc_list, objects, gcpc, bound, gc_current_mark_value,
                 gc_compacting, walk, dead, compact, history>>

Allocate(t) ==
  \/ Start(t) \/ LoadLimit(t) \/ LoadCursor(t) \/ CasCursor(t) \/ LoadBase(t) \/ Malloc(t)
  \/ Count(t) \/ Publish(t)
  \/ Refill(t) \/ RefillFails(t) \/ StoreBase(t) \/ StoreCursor(t) \/ StoreLimit(t)

-----------------------------------------------------------------------------
(* The collector: gc_thread_main, gc_collect.                              *)

GcGoto(from, to) == gcpc = from /\ gcpc' = to

Mutator == <<fields, pc, locals, held>>

\* The buffer of the last compaction is poisoned, the generation raised.
Begin ==
  /\ gc_current_mark_value <= bound.cycles
  /\ GcGoto("idle", "wait")
  /\ gc_current_mark_value' = gc_current_mark_value + 1
  /\ live_count' = [b \in Buffer |-> IF b = prev_buffer THEN Poison ELSE live_count[b]]
  /\ acked' = {}
  /\ UNCHANGED <<mapped, allotted, freed, Mutator, alloc_list, objects, bound, gc_compacting, walk, dead,
                 compact, history>>

\* The marking stamps what it reaches.
Marking ==
  \E reached \in SUBSET Listed :
    /\ GcGoto("wait", "cleanup")
    /\ generation' = [o \in Object |-> IF o \in reached THEN gc_current_mark_value + 1
                                      ELSE generation[o]]
    /\ UNCHANGED <<memory, Mutator, alloc_list, next_object, place, node_base, flag_tlab, born, cycle, walk,
                   dead, compact>>

\* It begins when every thread has acknowledged ...
Mark == acked = bound.threads /\ Marking /\ UNCHANGED history

\* ... or when gc_wait_for_watermarks has given up, after 10000 yields.
WaitTimeout ==
  /\ acked # bound.threads /\ Marking
  /\ lapse' = lapse \cup {"no answer"} /\ UNCHANGED <<wild, lost>>

\* gc_compact_deferred_cleanup: the blocks moved from and the buffers that were
\* empty a collection ago, if they still are; the lists rotate.
Cleanup ==
  /\ GcGoto("cleanup", "steal")
  /\ freed' = freed \cup deferred_free /\ deferred_free' = {}
  /\ mapped' = mapped \ {b \in gc_compact_dead_tlab_list_prev : live_count[b] = 0}
  /\ wild' = (wild \/ ~(gc_compact_dead_tlab_list_prev \subseteq mapped))
  /\ gc_compact_dead_tlab_list_prev' = gc_compact_dead_tlab_list
  /\ gc_compact_dead_tlab_list' = {}
  /\ left' = bound.threads
  /\ UNCHANGED <<allotted, live_count, Mutator, alloc_list, objects, cycle, thread, nodes, survivors,
                 head, gc_dead_tlab_list, compact, lost, lapse>>

-----------------------------------------------------------------------------
(* The collector: gc_sweep_thread_lists.                                   *)

Steal ==
  \/ \E t \in left :
       /\ GcGoto("steal", "sweep")
       /\ thread' = t /\ left' = left \ {t}
       /\ nodes' = alloc_list[t] /\ survivors' = {}
       /\ alloc_list' = [alloc_list EXCEPT ![t] = {}]
       /\ UNCHANGED <<memory, Mutator, objects, cycle, head, dead, compact, history>>
  \/ /\ left = {} /\ GcGoto("steal", "recheck")
     /\ UNCHANGED <<memory, Mutator, alloc_list, objects, cycle, walk, dead, compact, history>>

Dead(o) == generation[o] < gc_current_mark_value - 2

Keep ==
  \E o \in nodes :
    /\ gcpc = "sweep" /\ ~Dead(o)
    /\ survivors' = survivors \cup {o} /\ nodes' = nodes \ {o}
    /\ UNCHANGED <<memory, Mutator, alloc_list, objects, gcpc, cycle, left, thread, head, dead, compact,
                   history>>

FreeBlock ==
  \E o \in nodes :
    /\ gcpc = "sweep" /\ Dead(o) /\ ~flag_tlab[o]
    /\ freed' = freed \cup {o} /\ nodes' = nodes \ {o}
    /\ UNCHANGED <<mapped, allotted, live_count, Mutator, alloc_list, objects, gcpc, cycle, left, thread,
                   survivors, head, dead, compact, history>>

\* The last object of a buffer puts it on the dead list.  The header of no
\* buffer is no memory: what follows it there is nothing the code chose.
FreeInBuffer ==
  \E o \in nodes :
    LET b == node_base[o]
    IN  /\ gcpc = "sweep" /\ Dead(o) /\ flag_tlab[o]
        /\ nodes' = nodes \ {o} /\ Touch(b)
        /\ live_count' = [c \in Buffer |-> IF c = b THEN live_count[c] - 1 ELSE live_count[c]]
        /\ IF b # Null /\ live_count'[b] = 0
           THEN /\ gcpc' = "current" /\ old' = b
                /\ gc_dead_tlab_list' = gc_dead_tlab_list \cup {b}
           ELSE UNCHANGED <<gcpc, old, gc_dead_tlab_list>>
        /\ UNCHANGED <<mapped, allotted, freed, Mutator, alloc_list, objects, cycle, left, thread,
                       survivors, head, gc_compact_dead_tlab_list, gc_compact_dead_tlab_list_prev,
                       deferred_free, node, target, room, prev_buffer, prev_prev_buffer, lost, lapse>>

\* The survivors go back before the nodes added since: link, then compare and swap.
LoadOldHead ==
  /\ nodes = {}
  /\ GcGoto("sweep", IF survivors = {} THEN "steal" ELSE "prepend")
  /\ head' = IF survivors = {} THEN {} ELSE alloc_list[thread]
  /\ UNCHANGED <<memory, Mutator, alloc_list, objects, cycle, left, thread, nodes, survivors, dead,
                 compact, history>>

\* The survivors are published over what was added since (mutation).
PrependUnchecked ==
  /\ GcGoto("prepend", "steal")
  /\ alloc_list' = [alloc_list EXCEPT ![thread] = head \cup survivors]
  /\ survivors' = {} /\ head' = {}
  /\ UNCHANGED <<memory, Mutator, objects, cycle, left, thread, nodes, dead, compact, history>>

Prepend ==
  IF alloc_list[thread] = head
  THEN /\ GcGoto("prepend", "steal")
       /\ alloc_list' = [alloc_list EXCEPT ![thread] = head \cup survivors]
       /\ survivors' = {} /\ head' = {}
       /\ UNCHANGED <<memory, Mutator, objects, cycle, left, thread, nodes, dead, compact, history>>
  ELSE /\ gcpc = "prepend" /\ head' = alloc_list[thread]
       /\ UNCHANGED <<memory, Mutator, alloc_list, objects, gcpc, cycle, left, thread, nodes, survivors,
                      dead, compact, history>>

\* The sweep ends: the buffers that are still empty are deferred.
Recheck ==
  /\ GcGoto("recheck", "size")
  /\ gc_compact_dead_tlab_list' =
       gc_compact_dead_tlab_list \cup {b \in gc_dead_tlab_list : live_count[b] = 0}
  /\ gc_dead_tlab_list' = {}
  /\ UNCHANGED <<memory, Mutator, alloc_list, objects, cycle, walk, gc_compact_dead_tlab_list_prev,
                 deferred_free, compact, history>>

-----------------------------------------------------------------------------
(* Sweep and compaction: take an empty buffer away from its thread.        *)

Back == IF gc_compacting = 1 THEN "defer" ELSE "sweep"

IsCurrent ==
  /\ GcGoto("current", IF tlab_base[thread] = old THEN "reset_base" ELSE Back)
  /\ UNCHANGED <<memory, Mutator, alloc_list, objects, cycle, walk, dead, compact, history>>

ResetBase ==
  /\ GcGoto("reset_base", "reset_cursor")
  /\ tlab_base' = [tlab_base EXCEPT ![thread] = Null]
  /\ UNCHANGED <<memory, tlab_cursor, tlab_limit, pc, locals, held, alloc_list, objects, cycle, walk,
                 dead, compact, history>>

ResetCursor ==
  /\ GcGoto("reset_cursor", "reset_limit")
  /\ tlab_cursor' = [tlab_cursor EXCEPT ![thread] = NoCursor]
  /\ UNCHANGED <<memory, tlab_base, tlab_limit, pc, locals, held, alloc_list, objects, cycle, walk, dead,
                 compact, history>>

ResetLimit ==
  /\ GcGoto("reset_limit", Back)
  /\ tlab_limit' = [tlab_limit EXCEPT ![thread] = Null]
  /\ UNCHANGED <<memory, tlab_base, tlab_cursor, pc, locals, held, alloc_list, objects, cycle, walk, dead,
                 compact, history>>

-----------------------------------------------------------------------------
(* The collector: gc_compact_impl.                                         *)

\* The size pass counts the nodes and a buffer is mapped for as many.
BeginCompact ==
  \/ \E b \in Buffer :
       /\ Listed # {} /\ Map(b)
       /\ GcGoto("size", "copy")
       /\ target' = b /\ room' = Cardinality(Listed)
       /\ gc_compacting' = 1 /\ left' = bound.threads
       /\ UNCHANGED <<live_count, freed, Mutator, alloc_list, objects, bound, acked,
                      gc_current_mark_value, thread, nodes, survivors, head, dead, node, old,
                      prev_buffer, prev_prev_buffer, history>>
  \/ /\ Listed = {} \/ MayFail
     /\ GcGoto("size", "idle")
     /\ UNCHANGED <<memory, Mutator, alloc_list, objects, cycle, walk, dead, compact, history>>

CompactThread ==
  \E t \in left :
    /\ gcpc = "copy" /\ nodes = {}
    /\ thread' = t /\ left' = left \ {t} /\ nodes' = alloc_list[t]
    /\ UNCHANGED <<memory, Mutator, alloc_list, objects, gcpc, cycle, survivors, head, dead, compact,
                   history>>

\* Every object that fits is moved, newborn or not (mutation).
SkipOnlyUnfit(o) == room = 0

\* A newborn object stays, unless it is in the buffer that is to be unmapped next: so,
\* while there is none, is every block of malloc.
Stays(o) ==
  \/ generation[o] = gc_current_mark_value /\ node_base[o] # prev_buffer
  \/ room = 0

Skip ==
  \E o \in nodes :
    /\ gcpc = "copy" /\ Stays(o)
    /\ nodes' = nodes \ {o}
    /\ UNCHANGED <<memory, Mutator, alloc_list, objects, gcpc, cycle, left, thread, survivors, head, dead,
                   compact, history>>

Copy ==
  \E o \in nodes :
    /\ GcGoto("copy", "store") /\ ~Stays(o)
    /\ node' = o /\ room' = room - 1 /\ nodes' = nodes \ {o}
    /\ born' = IF node_base[o] = Null THEN [born EXCEPT ![o] = 0] ELSE born
    /\ UNCHANGED <<memory, Mutator, alloc_list, next_object, place, node_base, flag_tlab, generation, cycle, left, thread, survivors, head, dead, old,
                   target, prev_buffer, prev_prev_buffer, history>>

\* The handle gets the new address, the node its new buffer, and what was left is
\* a block to free or an object less in the old buffer.
StoreHandle ==
  LET from == node_base[node]
  IN  /\ GcGoto("store", IF flag_tlab[node] /\ from # Null THEN "decrement" ELSE "copy")
      /\ place' = [place EXCEPT ![node] = target]
      /\ node_base' = [node_base EXCEPT ![node] = target]
      /\ flag_tlab' = [flag_tlab EXCEPT ![node] = TRUE]
      /\ live_count' = [live_count EXCEPT ![target] = @ + 1]
      /\ deferred_free' = IF flag_tlab[node] THEN deferred_free ELSE deferred_free \cup {node}
      /\ old' = from /\ node' = 0
      /\ UNCHANGED <<mapped, allotted, freed, Mutator, alloc_list, next_object, generation, born, cycle, walk,
                     gc_dead_tlab_list, gc_compact_dead_tlab_list, gc_compact_dead_tlab_list_prev,
                     target, room, prev_buffer, prev_prev_buffer, history>>

Decrement ==
  /\ GcGoto("decrement", IF live_count[old] = 1 THEN "recheck_old" ELSE "copy")
  /\ live_count' = [live_count EXCEPT ![old] = @ - 1]
  /\ Touch(old)
  /\ UNCHANGED <<mapped, allotted, freed, Mutator, alloc_list, objects, cycle, walk, dead, compact, lost,
                 lapse>>

RecheckOld ==
  /\ GcGoto("recheck_old", IF live_count[old] = 0 THEN "current" ELSE "copy")
  /\ UNCHANGED <<memory, Mutator, alloc_list, objects, cycle, walk, dead, compact, history>>

\* A second entry for a buffer in one list would be read after the first unmapped it.
Defer ==
  /\ GcGoto("defer", "copy")
  /\ wild' = (wild \/ old \in gc_compact_dead_tlab_list)
  /\ gc_compact_dead_tlab_list' = gc_compact_dead_tlab_list \cup {old}
  /\ UNCHANGED <<memory, Mutator, alloc_list, objects, cycle, walk, gc_dead_tlab_list,
                 gc_compact_dead_tlab_list_prev, deferred_free, compact, lost, lapse>>

\* The buffer of the last compaction is unmapped at once (mutation).
EndCompactAtOnce ==
  /\ nodes = {} /\ left = {} /\ GcGoto("copy", "idle")
  /\ mapped' = mapped \ {prev_buffer}
  /\ prev_prev_buffer' = prev_buffer /\ prev_buffer' = target
  /\ target' = Null /\ old' = Null /\ room' = 0 /\ gc_compacting' = 0
  /\ UNCHANGED <<allotted, live_count, freed, Mutator, alloc_list, objects, bound, acked,
                 gc_current_mark_value, walk, dead, node, history>>

\* The buffers rotate; the one of the compaction before last is unmapped.
EndCompact ==
  /\ nodes = {} /\ left = {} /\ GcGoto("copy", "idle")
  /\ mapped' = mapped \ {prev_prev_buffer}
  /\ prev_prev_buffer' = prev_buffer /\ prev_buffer' = target
  /\ target' = Null /\ old' = Null /\ room' = 0 /\ gc_compacting' = 0
  /\ UNCHANGED <<allotted, live_count, freed, Mutator, alloc_list, objects, bound, acked,
                 gc_current_mark_value, walk, dead, node, history>>

-----------------------------------------------------------------------------

Collect ==
  \/ Begin \/ Mark \/ Cleanup
  \/ Steal \/ Keep \/ FreeBlock \/ FreeInBuffer \/ LoadOldHead \/ Prepend \/ Recheck
  \/ IsCurrent \/ ResetBase \/ ResetCursor \/ ResetLimit
  \/ BeginCompact \/ CompactThread \/ Skip \/ Copy \/ StoreHandle \/ Decrement \/ RecheckOld \/ Defer
  \/ EndCompact

Next ==
  \/ \E t \in bound.threads : Allocate(t) \/ Deref(t) \/ Write(t) \/ Safepoint(t)
  \/ Collect
  \/ WaitTimeout

Spec == Init /\ [][Next]_vars

-----------------------------------------------------------------------------
(* Safety.                                                                 *)

Present(o, at) == IF at = Null THEN o \notin freed ELSE at \in mapped

\* Memory is given back only when nobody uses it: the object of every node, the block
\* an allocation is filling and the copy a raw pointer was derived from are in memory
\* that is still there, and the collector reads and writes the headers of mapped buffers
\* only (munmap and free in gc_compact_deferred_cleanup, the sweep and gc_compact_impl).
\* Not claimed once a thread has counted its object in a buffer already given up
\* or has found its base gone, or a collection has gone on without a thread's answer:
\* that thread may hold a pointer for longer than the two collections of grace.
MemoryPresent ==
  lapse = {} =>
    /\ ~wild
    /\ \A o \in Listed : Present(o, place[o])
    /\ \A t \in Threads :
         /\ held[t].object # 0 => Present(held[t].object, held[t].place)
         /\ cursor[t].buffer # Null /\ pc[t] \in {"base", "count", "publish"} =>
              cursor[t].buffer \in mapped

\* The live count of a buffer that is not poisoned is the number of the nodes in it, the
\* ones about to be published and the one about to be taken off included (gc_alloc,
\* gc_sweep_thread_lists and gc_compact_impl count without a lock).
\* (The state is well typed besides.)
CountExact ==
  /\ TypeOK
  /\ lapse = {} =>
       \A b \in mapped : live_count[b] < Poison \div 2 =>
         live_count[b] = Cardinality({o \in Listed : node_base[o] = b})
                       + Cardinality({t \in Threads : pc[t] = "publish" /\ base[t] = b})
                       + (IF gcpc = "decrement" /\ old = b THEN 1 ELSE 0)

\* What a thread writes into an object younger than the collection that is running,
\* through a pointer derived since its last safepoint, is in the object
\* (the newborn check of gc_compact_impl).  The marking ends that protection, and the
\* first compaction does not give it to a block of malloc.  (Not counted after a lapse.)
NewbornWritesKept == ~lost
=============================================================================
