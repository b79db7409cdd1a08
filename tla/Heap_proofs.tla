----------------------------- MODULE Heap_proofs -----------------------------
(***************************************************************************)
(* Proofs about the memory of the collector, for every number of threads,  *)
(* objects, collections and buffers and every size of a buffer: what is    *)
(* used is mapped, a buffer's count is that of its objects, and a newborn  *)
(* object is not moved under its writer.                                   *)
(***************************************************************************)
EXTENDS Heap, FiniteSetTheorems, SequenceTheorems, TLAPS

(* A step of a run in which the collector has waited for all answers.     *)
Step ==
  \/ \E t \in bound.threads : Allocate(t) \/ Deref(t) \/ Write(t) \/ Safepoint(t)
  \/ Collect

Cursor    == [buffer : Buffer \cup {Null}, next : 0 .. Slots + 1]
Refilling == {"store_base", "store_cursor", "store_limit"}
Taking    == {"current", "reset_base", "reset_cursor", "reset_limit"}
Copying   == {"copy", "store", "decrement", "recheck_old", "defer"}
(* Where the collector has taken an object off the buffer old.             *)
HasOld    == {"decrement", "recheck_old", "defer"} \cup Taking

(* The types of what TypeOK leaves out.                                    *)
TypesKnown ==
  /\ limit \in [Threads -> Buffer \cup {Null}] /\ buffer \in [Threads -> Buffer \cup {Null}]
  /\ base \in [Threads -> Buffer \cup {Null}] /\ stamp \in [Threads -> Nat]
  /\ tlab_cursor \in [Threads -> Cursor] /\ cursor \in [Threads -> Cursor]
  /\ held \in [Threads -> [object : Object \cup {0}, place : Buffer \cup {Null}]]
  /\ big \in [Threads -> BOOLEAN] /\ tried \in [Threads -> BOOLEAN]
  /\ next_object \in Nat \ {0}
  /\ place \in [Object -> Buffer \cup {Null}] /\ node_base \in [Object -> Buffer \cup {Null}]
  /\ flag_tlab \in [Object -> BOOLEAN]
  /\ generation \in [Object -> Nat] /\ born \in [Object -> Nat]
  /\ left \subseteq bound.threads /\ head \subseteq Object /\ node \in Object \cup {0}
  /\ old \in Buffer \cup {Null} /\ target \in Buffer \cup {Null} /\ room \in Int
  /\ wild \in BOOLEAN /\ lost \in BOOLEAN
  /\ \A t \in Threads : /\ pc[t] \in Refilling => buffer[t] \in Buffer
                        /\ pc[t] = "cas" => cursor[t].next <= Slots

(* Where the collector is, and what it holds there.                        *)
CycleKnown ==
  /\ gc_compacting = 1 <=> target # Null
  /\ gcpc \in Copying => gc_compacting = 1
  /\ gc_compacting = 1 => gcpc \in Copying \cup Taking
  /\ gcpc = "store" => node # 0
  /\ gcpc \in HasOld => old # Null
  /\ nodes # {} \/ gcpc \in {"sweep", "prepend", "store"} \cup HasOld => thread \in bound.threads
  /\ nodes # {} => gc_compacting = 1 \/ gcpc \in {"sweep"} \cup Taking
  /\ survivors # {} => gc_compacting = 0 /\ gcpc \in {"sweep", "prepend"} \cup Taking
  /\ gc_dead_tlab_list # {} =>
       gc_compacting = 0 /\ gcpc \in {"steal", "sweep", "prepend", "recheck"} \cup Taking
  /\ gc_compact_dead_tlab_list # {} => gc_compacting = 1 \/ gcpc \in {"idle", "wait", "cleanup", "size"}
  /\ gcpc \in {"recheck", "size"} => left = {}

(* Threads beyond the bound do nothing, and no more objects are allocated. *)
Budget ==
  /\ \A t \in Threads \ bound.threads : pc[t] = "idle" /\ alloc_list[t] = {} /\ held[t] = NoHeld
  /\ next_object - 1 + Cardinality({u \in Threads : pc[u] # "idle"}) <= bound.objects

(* A node is in one list, and the compaction walks over lists in place.    *)
ListsApart ==
  /\ \A t, u \in Threads : t # u => alloc_list[t] \cap alloc_list[u] = {}
  /\ nodes \cap survivors = {}
  /\ gc_compacting = 0 => \A t \in Threads : alloc_list[t] \cap (nodes \cup survivors) = {}
  /\ gc_compacting = 1 /\ (nodes # {} \/ gcpc # "copy") =>
       nodes \subseteq alloc_list[thread] /\ thread \notin left
  /\ gcpc = "store" => node \in alloc_list[thread] /\ node \notin nodes

(* What holds whatever has gone wrong with a count.                        *)
Ground == TypeOK /\ TypesKnown /\ CycleKnown /\ Budget /\ ListsApart

(* The objects a buffer's count stands for.                                *)
InBuffer(b) == {o \in Listed : node_base[o] = b}
Counted(b)  == {t \in Threads : pc[t] = "publish" /\ base[t] = b}
Due(b)      == IF gcpc = "decrement" /\ old = b THEN 1 ELSE 0
Weight(b)   == Cardinality(InBuffer(b)) + Cardinality(Counted(b)) + Due(b)
Exact(b)    == live_count[b] = Weight(b)
Poisoned(b) == live_count[b] >= Poison - bound.objects + Weight(b)

(* The buffers of the compactions.                                         *)
Moved == {target, prev_buffer, prev_prev_buffer} \ {Null}

BuffersKnown ==
  /\ mapped \subseteq 1 .. allotted /\ Moved \subseteq mapped
  /\ target # Null => target # prev_buffer /\ target # prev_prev_buffer
  /\ prev_buffer # Null => prev_buffer # prev_prev_buffer

(* The counts are exact, but for those of the last two compactions, which  *)
(* are too high ever to be zero.                                           *)
CountsKnown ==
  /\ \A b \in mapped : b \notin {prev_buffer, prev_prev_buffer} => Exact(b)
  /\ prev_buffer # Null => Poisoned(prev_buffer) \/ (gcpc = "idle" /\ Exact(prev_buffer))
  /\ prev_prev_buffer # Null => Poisoned(prev_prev_buffer)
  /\ \A b \in Buffer : b > allotted => live_count[b] = 0

(* A thread has to do with a buffer that is not the compaction's.  It has  *)
(* its buffers for itself.                                                 *)
Own(t) == alloc_list[t] \cup (IF gc_compacting = 0 /\ thread = t THEN nodes \cup survivors ELSE {})
Uses(t, b) ==
  \/ b \in {tlab_base[t], tlab_cursor[t].buffer, cursor[t].buffer, buffer[t], base[t]}
  \/ gcpc \in HasOld /\ thread = t /\ old = b /\ b # prev_buffer
  \/ b \notin Moved /\ \E o \in Own(t) : node_base[o] = b
UsesKnown ==
  /\ \A t, u \in Threads : \A b \in Buffer : Uses(t, b) /\ Uses(u, b) => t = u
  /\ \A t \in Threads : \A b \in Buffer : Uses(t, b) => b \notin Moved /\ b <= allotted
  /\ gcpc \in HasOld \ {"decrement"} => old # prev_buffer

(* The buffers to be unmapped, and those that may become so.               *)
GivenUp == gc_compact_dead_tlab_list \cup gc_compact_dead_tlab_list_prev

(* Mapped for a refill, and never counted in.                              *)
Unused(b) ==
  /\ b \in mapped /\ live_count[b] = 0 /\ b \notin GivenUp \cup gc_dead_tlab_list
  /\ \A o \in Listed : node_base[o] # b
  /\ \A t \in Threads : base[t] # b
  /\ gcpc \in HasOld => old # b

(* A thread's fields are of one buffer, but in a refill; where the base is *)
(* gone and the cursor is not, nothing was allocated at the cursor.        *)
FieldKnown(t) ==
  LET b == tlab_base[t]
      c == tlab_cursor[t].buffer
  IN  /\ pc[t] # "store_cursor" /\ b # Null /\ c # Null => b = c
      /\ pc[t] # "store_cursor" /\ c # Null => c \in mapped
      /\ pc[t] # "store_cursor" /\ c # Null /\ b = Null =>
           (gcpc = "reset_cursor" /\ thread = t) \/ Unused(c)
      /\ pc[t] \in Refilling => Unused(buffer[t])
      /\ pc[t] = "store_base" => b # buffer[t] /\ c # buffer[t]
      /\ pc[t] \in {"store_cursor", "store_limit"} => b \in {Null, buffer[t]}
      /\ pc[t] = "store_limit" => c \in {Null, buffer[t]}
      /\ pc[t] \notin Refilling => buffer[t] = Null
FieldsKnown == \A t \in Threads : FieldKnown(t)

(* What an allocation holds.                                               *)
AllocKnown(t) ==
  LET c == cursor[t].buffer
  IN  /\ pc[t] \in {"cas", "base"} => c # Null
      /\ pc[t] \in {"base", "count", "publish"} /\ c # Null =>
           /\ tlab_base[t] \in {Null, c} /\ tlab_cursor[t].buffer \in {Null, c}
           /\ c \in mapped
      /\ base[t] = IF pc[t] \in {"count", "publish"} THEN c ELSE Null
      /\ pc[t] \notin {"cursor", "cas", "base", "count", "publish"} => cursor[t] = NoCursor
AllocsKnown == \A t \in Threads : AllocKnown(t)

(* No thread allocates in the buffer again.                                *)
Detached(b) ==
  \A t \in Threads : tlab_base[t] # b /\ (tlab_cursor[t].buffer = b => pc[t] = "store_cursor")
(* The thread has been heard in this collection.                           *)
Heard(t) == gcpc # "wait" \/ t \in acked
(* ... and the lists have not rotated since.                               *)
Early(t) == gcpc = "cleanup" \/ (gcpc = "wait" /\ t \in acked)

(* The buffers that are given up are empty, and nobody comes back to them. *)
DoomKnown ==
  /\ GivenUp \subseteq mapped
  /\ gc_compact_dead_tlab_list \cap gc_compact_dead_tlab_list_prev = {}
  /\ \A b \in GivenUp : live_count[b] = 0 /\ b \notin Moved /\ Detached(b)
  /\ gc_dead_tlab_list \subseteq mapped \ (Moved \cup GivenUp)
  /\ \A b \in gc_dead_tlab_list : Detached(b) \/ (b = old /\ gcpc \in Taking \ {"reset_limit"})
  /\ gcpc \in HasOld => old \in mapped
  /\ gcpc \in HasOld /\ gc_compacting = 1 => old \notin GivenUp
  /\ gcpc \in Taking /\ gc_compacting = 0 => old \in gc_dead_tlab_list
  /\ gcpc \in Taking \cup {"defer"} /\ gc_compacting = 1 => live_count[old] = 0
  /\ gcpc \in {"reset_limit", "defer"} => Detached(old)
  /\ gcpc = "reset_cursor" => tlab_base[thread] # old
  /\ \A t \in Threads : /\ cursor[t].buffer \notin gc_compact_dead_tlab_list_prev
                        /\ Early(t) => cursor[t].buffer \notin gc_compact_dead_tlab_list

(* Every node has memory.                                                  *)
PlacesKnown ==
  /\ \A o \in Object : place[o] = node_base[o] /\ (flag_tlab[o] <=> node_base[o] # Null)
  /\ \A o \in Listed : IF node_base[o] = Null THEN o \notin freed \cup deferred_free
                                              ELSE node_base[o] \in mapped \ {prev_prev_buffer}

(* A raw pointer is of this collection or, until its thread is heard, of   *)
(* the last one.                                                           *)
PointerKnown(t) ==
  LET o  == held[t].object
      at == held[t].place
  IN  /\ o = 0 => at = Null
      /\ o # 0 =>
           /\ Present(o, at)
           /\ generation[o] >= gc_current_mark_value - (IF Heard(t) THEN 1 ELSE 2)
           /\ at \notin gc_compact_dead_tlab_list_prev
           /\ Early(t) => at \notin gc_compact_dead_tlab_list /\ (at = Null => o \notin deferred_free)
           /\ gcpc # "idle" /\ Heard(t) /\ at # Null => at # prev_prev_buffer
           /\ born[o] = gc_current_mark_value /\ generation[o] = gc_current_mark_value => at = place[o]
PointersKnown == \A t \in Threads : PointerKnown(t)

(* A newborn object is not moved, once there has been a compaction.        *)
Newborn(o) == born[o] = gc_current_mark_value /\ generation[o] = gc_current_mark_value
BirthsKnown ==
  /\ \A o \in Object : born[o] <= gc_current_mark_value
  /\ \A o \in Listed : Newborn(o) /\ node_base[o] # Null => node_base[o] \notin {target, prev_buffer}
  /\ gcpc = "store" => ~Newborn(node)
  /\ \A t \in Threads : pc[t] \in {"count", "publish"} =>
       /\ stamp[t] <= gc_current_mark_value
       /\ Heard(t) => stamp[t] = gc_current_mark_value

(* What the compaction has yet to look at, and of that what it must move:  *)
(* there is room, and it leaves nothing behind in the last buffer.         *)
Remaining == nodes \cup UNION {alloc_list[t] : t \in left}
ToMove    == {o \in Remaining : generation[o] # gc_current_mark_value \/ node_base[o] = prev_buffer}
RoomKnown ==
  gc_compacting = 1 =>
    /\ \A o \in Listed : node_base[o] = target => o \notin Remaining /\ (gcpc = "store" => o # node)
    /\ \A o \in Listed : node_base[o] = prev_buffer /\ prev_buffer # Null =>
         o \in Remaining \/ (gcpc = "store" /\ o = node)
    /\ prev_buffer # Null => room >= Cardinality(ToMove)

Kept ==
  /\ BuffersKnown /\ CountsKnown /\ UsesKnown /\ FieldsKnown /\ AllocsKnown /\ DoomKnown
  /\ PlacesKnown /\ PointersKnown /\ BirthsKnown /\ RoomKnown /\ ~wild

(* The inductive invariant.                                                *)
IInv == Ground /\ ~lost /\ (lapse = {} => Kept)

(* What an action leaves alone is spelled out.                            *)
USE DEF memory, fields, locals, objects, walk, dead, compact, cycle, history, Mutator, Collector, Goto, GcGoto

-----------------------------------------------------------------------------
(* What an action leaves alone, where the collector goes, and which actions *)
(* disturb a variable.  A lemma about some variables has a step for each    *)
(* action that disturbs one of them, and one, <1>f, for the others.         *)

LEMMA AllocateLeaves ==
  ASSUME NEW t
  PROVE  /\ Start(t) => UNCHANGED <<Collector, memory, fields, objects, history, limit, cursor, buffer,
              base, stamp, held, alloc_list>>
         /\ LoadLimit(t) => UNCHANGED <<Collector, memory, fields, objects, history, big, tried, cursor,
              buffer, base, stamp, held, alloc_list>>
         /\ LoadCursor(t) => UNCHANGED <<Collector, memory, fields, objects, history, big, tried, limit,
              buffer, base, stamp, held, alloc_list>>
         /\ CasCursor(t) => UNCHANGED <<Collector, memory, locals, objects, history, tlab_base,
              tlab_limit, held, alloc_list>>
         /\ LoadBase(t) => UNCHANGED <<Collector, memory, fields, objects, big, tried, limit, cursor,
              buffer, held, alloc_list, wild, lost>>
         /\ Malloc(t) => UNCHANGED <<Collector, memory, fields, objects, history, big, tried, limit,
              cursor, buffer, held, alloc_list>>
         /\ Count(t) => UNCHANGED <<Collector, fields, locals, objects, mapped, allotted, freed, held,
              alloc_list, lost>>
         /\ Publish(t) => UNCHANGED <<Collector, memory, fields, history, buffer, held>>
BY DEF Start, LoadLimit, LoadCursor, CasCursor, LoadBase, Malloc, Count, Publish, Touch, HasSpace

LEMMA RefillLeaves ==
  ASSUME NEW t
  PROVE  /\ Refill(t) => UNCHANGED <<Collector, fields, objects, history, live_count, freed, big, tried,
              limit, cursor, base, stamp, held, alloc_list>>
         /\ RefillFails(t) => UNCHANGED <<Collector, memory, fields, objects, history, big, limit,
              cursor, buffer, base, stamp, held, alloc_list>>
         /\ StoreBase(t) => UNCHANGED <<Collector, memory, locals, objects, history, tlab_cursor,
              tlab_limit, held, alloc_list>>
         /\ StoreCursor(t) => UNCHANGED <<Collector, memory, locals, objects, history, tlab_base,
              tlab_limit, held, alloc_list>>
         /\ StoreLimit(t) => UNCHANGED <<Collector, memory, objects, history, tlab_base, tlab_cursor,
              big, limit, cursor, base, stamp, held, alloc_list>>
         /\ Deref(t) => UNCHANGED <<Collector, memory, fields, locals, objects, history, pc,
              alloc_list>>
         /\ Write(t) => UNCHANGED <<Collector, memory, fields, locals, objects, pc, alloc_list, wild,
              lapse>>
         /\ Safepoint(t) => UNCHANGED <<memory, fields, locals, objects, walk, dead, compact, history,
              pc, alloc_list, gcpc, bound, gc_current_mark_value, gc_compacting>>
BY DEF Refill, RefillFails, StoreBase, StoreCursor, StoreLimit, Deref, Write, Safepoint, Map, InUse, MayFail

LEMMA SweepLeaves ==
  /\ Begin => UNCHANGED <<Mutator, objects, walk, dead, compact, history, mapped, allotted, freed,
       alloc_list, bound, gc_compacting>>
  /\ Mark => UNCHANGED <<Mutator, memory, cycle, walk, dead, compact, history, alloc_list, next_object,
       place, node_base, flag_tlab, born>>
  /\ Cleanup => UNCHANGED <<Mutator, objects, cycle, compact, allotted, live_count, alloc_list, thread,
       nodes, survivors, head, gc_dead_tlab_list, lost, lapse>>
  /\ Steal => UNCHANGED <<Mutator, memory, objects, cycle, dead, compact, history, head>>
  /\ Keep => UNCHANGED <<Mutator, memory, objects, cycle, dead, compact, history, alloc_list, gcpc,
       left, thread, head>>
  /\ FreeBlock => UNCHANGED <<Mutator, objects, cycle, dead, compact, history, mapped, allotted,
       live_count, alloc_list, gcpc, left, thread, survivors, head>>
  /\ FreeInBuffer => UNCHANGED <<Mutator, objects, cycle, mapped, allotted, freed, alloc_list, left,
       thread, survivors, head, gc_compact_dead_tlab_list, gc_compact_dead_tlab_list_prev, deferred_free,
       node, target, room, prev_buffer, prev_prev_buffer, lost, lapse>>
  /\ LoadOldHead => UNCHANGED <<Mutator, memory, objects, cycle, dead, compact, history, alloc_list,
       left, thread, nodes, survivors>>
  /\ Prepend => UNCHANGED <<Mutator, memory, objects, cycle, dead, compact, history, left, thread,
       nodes>>
  /\ Recheck => UNCHANGED <<Mutator, memory, objects, cycle, walk, compact, history, alloc_list,
       gc_compact_dead_tlab_list_prev, deferred_free>>
BY DEF Begin, Mark, Marking, Cleanup, Steal, Keep, FreeBlock, FreeInBuffer, LoadOldHead, Prepend, Recheck, Touch, Dead

LEMMA ReleaseLeaves ==
  /\ IsCurrent => UNCHANGED <<Mutator, memory, objects, cycle, walk, dead, compact, history,
       alloc_list>>
  /\ ResetBase => UNCHANGED <<memory, locals, objects, cycle, walk, dead, compact, history, tlab_cursor,
       tlab_limit, pc, held, alloc_list>>
  /\ ResetCursor => UNCHANGED <<memory, locals, objects, cycle, walk, dead, compact, history, tlab_base,
       tlab_limit, pc, held, alloc_list>>
  /\ ResetLimit => UNCHANGED <<memory, locals, objects, cycle, walk, dead, compact, history, tlab_base,
       tlab_cursor, pc, held, alloc_list>>
  /\ BeginCompact => UNCHANGED <<Mutator, objects, dead, history, live_count, freed, alloc_list, bound,
       acked, gc_current_mark_value, thread, nodes, survivors, head, node, old, prev_buffer,
       prev_prev_buffer>>
  /\ CompactThread => UNCHANGED <<Mutator, memory, objects, cycle, dead, compact, history, alloc_list,
       gcpc, survivors, head>>
  /\ Skip => UNCHANGED <<Mutator, memory, objects, cycle, dead, compact, history, alloc_list, gcpc,
       left, thread, survivors, head>>
BY DEF IsCurrent, ResetBase, ResetCursor, ResetLimit, BeginCompact, CompactThread, Skip, Map, Stays, Back,
  MayFail

LEMMA CompactLeaves ==
  /\ Copy => UNCHANGED <<Mutator, memory, cycle, dead, history, alloc_list, next_object, place,
       node_base, flag_tlab, generation, left, thread, survivors, head, old, target, prev_buffer,
       prev_prev_buffer>>
  /\ StoreHandle => UNCHANGED <<Mutator, cycle, walk, history, mapped, allotted, freed, alloc_list,
       next_object, generation, born, gc_dead_tlab_list, gc_compact_dead_tlab_list,
       gc_compact_dead_tlab_list_prev, target, room, prev_buffer, prev_prev_buffer>>
  /\ Decrement => UNCHANGED <<Mutator, objects, cycle, walk, dead, compact, mapped, allotted, freed,
       alloc_list, lost, lapse>>
  /\ RecheckOld => UNCHANGED <<Mutator, memory, objects, cycle, walk, dead, compact, history,
       alloc_list>>
  /\ Defer => UNCHANGED <<Mutator, memory, objects, cycle, walk, compact, alloc_list, gc_dead_tlab_list,
       gc_compact_dead_tlab_list_prev, deferred_free, lost, lapse>>
  /\ EndCompact => UNCHANGED <<Mutator, objects, walk, dead, history, allotted, live_count, freed,
       alloc_list, bound, acked, gc_current_mark_value, node>>
BY DEF Copy, StoreHandle, Decrement, RecheckOld, Defer, EndCompact, Touch, Stays

LEMMA SweepMoves ==
  /\ Begin => gcpc = "idle" /\ gc_current_mark_value <= bound.cycles /\ gcpc' = "wait"
  /\ Mark => gcpc = "wait" /\ acked = bound.threads /\ gcpc' = "cleanup"
  /\ Cleanup => gcpc = "cleanup" /\ gcpc' = "steal"
  /\ Steal => (gcpc = "steal" /\ gcpc' = "sweep") \/ (gcpc = "steal" /\ left = {} /\ gcpc' = "recheck")
  /\ FreeInBuffer => (\E n \in nodes : gcpc = "sweep" /\ Dead(n) /\ flag_tlab[n] /\ node_base[n] # Null
       /\ gcpc' = "current") \/ (\E n \in nodes : gcpc = "sweep" /\ Dead(n) /\ flag_tlab[n] /\ UNCHANGED
       gcpc)
  /\ LoadOldHead => gcpc = "sweep" /\ nodes = {} /\ (gcpc' = IF survivors = {} THEN "steal" ELSE
       "prepend")
  /\ Prepend => (gcpc = "prepend" /\ alloc_list[thread] = head /\ gcpc' = "steal") \/ (gcpc = "prepend"
       /\ UNCHANGED gcpc)
  /\ Recheck => gcpc = "recheck" /\ gcpc' = "size"
BY DEF Begin, Mark, Marking, Cleanup, Steal, FreeInBuffer, LoadOldHead, Prepend, Recheck, Touch, Dead

LEMMA CompactMoves ==
  /\ IsCurrent => gcpc = "current" /\ (gcpc' = IF tlab_base[thread] = old THEN "reset_base" ELSE Back)
  /\ ResetBase => gcpc = "reset_base" /\ gcpc' = "reset_cursor"
  /\ ResetCursor => gcpc = "reset_cursor" /\ gcpc' = "reset_limit"
  /\ ResetLimit => gcpc = "reset_limit" /\ gcpc' = Back
  /\ BeginCompact => (gcpc = "size" /\ Listed # {} /\ allotted < MaxBuffers /\ gcpc' = "copy") \/ (gcpc
       = "size" /\ gcpc' = "idle")
  /\ Copy => \E n \in nodes : gcpc = "copy" /\ ~Stays(n) /\ gcpc' = "store"
  /\ StoreHandle => gcpc = "store" /\ (gcpc' = IF flag_tlab[node] /\ node_base[node] # Null THEN
       "decrement" ELSE "copy")
  /\ Decrement => gcpc = "decrement" /\ (gcpc' = IF live_count[old] = 1 THEN "recheck_old" ELSE "copy")
  /\ RecheckOld => gcpc = "recheck_old" /\ (gcpc' = IF live_count[old] = 0 THEN "current" ELSE "copy")
  /\ Defer => gcpc = "defer" /\ gcpc' = "copy"
  /\ EndCompact => gcpc = "copy" /\ nodes = {} /\ left = {} /\ gcpc' = "idle"
BY DEF IsCurrent, ResetBase, ResetCursor, ResetLimit, BeginCompact, Copy, StoreHandle, Decrement, RecheckOld,
  Defer, EndCompact, Touch, Map, Stays, Back, MayFail

LEMMA Keeps_allotted ==
  Step => \/ UNCHANGED allotted
          \/ \E t \in bound.threads : Refill(t)
          \/ BeginCompact
BY AllocateLeaves, RefillLeaves, SweepLeaves, ReleaseLeaves, CompactLeaves DEF Step, Allocate, Collect

LEMMA Keeps_live_count ==
  Step => \/ UNCHANGED live_count
          \/ \E t \in bound.threads : Count(t)
          \/ Begin \/ FreeInBuffer \/ StoreHandle \/ Decrement
BY AllocateLeaves, RefillLeaves, SweepLeaves, ReleaseLeaves, CompactLeaves DEF Step, Allocate, Collect

LEMMA Keeps_mapped ==
  Step => \/ UNCHANGED mapped
          \/ \E t \in bound.threads : Refill(t)
          \/ Cleanup \/ BeginCompact \/ EndCompact
BY AllocateLeaves, RefillLeaves, SweepLeaves, ReleaseLeaves, CompactLeaves DEF Step, Allocate, Collect

LEMMA Keeps_lapse ==
  Step => \/ UNCHANGED lapse
          \/ \E t \in bound.threads : LoadBase(t) \/ Count(t)
BY AllocateLeaves, RefillLeaves, SweepLeaves, ReleaseLeaves, CompactLeaves DEF Step, Allocate, Collect

LEMMA Keeps_lost ==
  Step => \/ UNCHANGED lost
          \/ \E t \in bound.threads : Write(t)
BY AllocateLeaves, RefillLeaves, SweepLeaves, ReleaseLeaves, CompactLeaves DEF Step, Allocate, Collect

LEMMA Keeps_wild ==
  Step => \/ UNCHANGED wild
          \/ \E t \in bound.threads : Count(t)
          \/ Cleanup \/ FreeInBuffer \/ Decrement \/ Defer
BY AllocateLeaves, RefillLeaves, SweepLeaves, ReleaseLeaves, CompactLeaves DEF Step, Allocate, Collect

LEMMA Keeps_base ==
  Step => \/ UNCHANGED base
          \/ \E t \in bound.threads : LoadBase(t) \/ Malloc(t) \/ Publish(t)
BY AllocateLeaves, RefillLeaves, SweepLeaves, ReleaseLeaves, CompactLeaves DEF Step, Allocate, Collect

LEMMA Keeps_buffer ==
  Step => \/ UNCHANGED buffer
          \/ \E t \in bound.threads : Refill(t) \/ StoreLimit(t)
BY AllocateLeaves, RefillLeaves, SweepLeaves, ReleaseLeaves, CompactLeaves DEF Step, Allocate, Collect

LEMMA Keeps_limit ==
  Step => \/ UNCHANGED limit
          \/ \E t \in bound.threads : LoadLimit(t) \/ Publish(t)
BY AllocateLeaves, RefillLeaves, SweepLeaves, ReleaseLeaves, CompactLeaves DEF Step, Allocate, Collect

LEMMA Keeps_tlab_base ==
  Step => \/ UNCHANGED tlab_base
          \/ \E t \in bound.threads : StoreBase(t)
          \/ ResetBase
BY AllocateLeaves, RefillLeaves, SweepLeaves, ReleaseLeaves, CompactLeaves DEF Step, Allocate, Collect

LEMMA Keeps_tlab_limit ==
  Step => \/ UNCHANGED tlab_limit
          \/ \E t \in bound.threads : StoreLimit(t)
          \/ ResetLimit
BY AllocateLeaves, RefillLeaves, SweepLeaves, ReleaseLeaves, CompactLeaves DEF Step, Allocate, Collect

LEMMA Keeps_cursor ==
  Step => \/ UNCHANGED cursor
          \/ \E t \in bound.threads : LoadCursor(t) \/ Publish(t)
BY AllocateLeaves, RefillLeaves, SweepLeaves, ReleaseLeaves, CompactLeaves DEF Step, Allocate, Collect

LEMMA Keeps_pc ==
  Step => \/ UNCHANGED pc
          \/ \E t \in bound.threads : Start(t) \/ LoadLimit(t) \/ LoadCursor(t) \/ CasCursor(t) \/
                 LoadBase(t) \/ Malloc(t) \/ Count(t) \/ Publish(t) \/ Refill(t) \/ RefillFails(t) \/
                 StoreBase(t) \/ StoreCursor(t) \/ StoreLimit(t)
BY AllocateLeaves, RefillLeaves, SweepLeaves, ReleaseLeaves, CompactLeaves DEF Step, Allocate, Collect

LEMMA Keeps_tlab_cursor ==
  Step => \/ UNCHANGED tlab_cursor
          \/ \E t \in bound.threads : CasCursor(t) \/ StoreCursor(t)
          \/ ResetCursor
BY AllocateLeaves, RefillLeaves, SweepLeaves, ReleaseLeaves, CompactLeaves DEF Step, Allocate, Collect

LEMMA Keeps_big ==
  Step => \/ UNCHANGED big
          \/ \E t \in bound.threads : Start(t) \/ Publish(t)
BY AllocateLeaves, RefillLeaves, SweepLeaves, ReleaseLeaves, CompactLeaves DEF Step, Allocate, Collect

LEMMA Keeps_stamp ==
  Step => \/ UNCHANGED stamp
          \/ \E t \in bound.threads : LoadBase(t) \/ Malloc(t) \/ Publish(t)
BY AllocateLeaves, RefillLeaves, SweepLeaves, ReleaseLeaves, CompactLeaves DEF Step, Allocate, Collect

LEMMA Keeps_tried ==
  Step => \/ UNCHANGED tried
          \/ \E t \in bound.threads : Start(t) \/ Publish(t) \/ RefillFails(t) \/ StoreLimit(t)
BY AllocateLeaves, RefillLeaves, SweepLeaves, ReleaseLeaves, CompactLeaves DEF Step, Allocate, Collect

LEMMA Keeps_born ==
  Step => \/ UNCHANGED born
          \/ \E t \in bound.threads : Publish(t)
          \/ Copy
BY AllocateLeaves, RefillLeaves, SweepLeaves, ReleaseLeaves, CompactLeaves DEF Step, Allocate, Collect

LEMMA Keeps_flag_tlab ==
  Step => \/ UNCHANGED flag_tlab
          \/ \E t \in bound.threads : Publish(t)
          \/ StoreHandle
BY AllocateLeaves, RefillLeaves, SweepLeaves, ReleaseLeaves, CompactLeaves DEF Step, Allocate, Collect

LEMMA Keeps_generation ==
  Step => \/ UNCHANGED generation
          \/ \E t \in bound.threads : Publish(t)
          \/ Mark
BY AllocateLeaves, RefillLeaves, SweepLeaves, ReleaseLeaves, CompactLeaves DEF Step, Allocate, Collect

LEMMA Keeps_next_object ==
  Step => \/ UNCHANGED next_object
          \/ \E t \in bound.threads : Publish(t)
BY AllocateLeaves, RefillLeaves, SweepLeaves, ReleaseLeaves, CompactLeaves DEF Step, Allocate, Collect

LEMMA Keeps_node_base ==
  Step => \/ UNCHANGED node_base
          \/ \E t \in bound.threads : Publish(t)
          \/ StoreHandle
BY AllocateLeaves, RefillLeaves, SweepLeaves, ReleaseLeaves, CompactLeaves DEF Step, Allocate, Collect

LEMMA Keeps_place ==
  Step => \/ UNCHANGED place
          \/ \E t \in bound.threads : Publish(t)
          \/ StoreHandle
BY AllocateLeaves, RefillLeaves, SweepLeaves, ReleaseLeaves, CompactLeaves DEF Step, Allocate, Collect

LEMMA Keeps_alloc_list ==
  Step => \/ UNCHANGED alloc_list
          \/ \E t \in bound.threads : Publish(t)
          \/ Steal \/ Prepend
BY AllocateLeaves, RefillLeaves, SweepLeaves, ReleaseLeaves, CompactLeaves DEF Step, Allocate, Collect

LEMMA Keeps_deferred_free ==
  Step => \/ UNCHANGED deferred_free
          \/ Cleanup \/ StoreHandle
BY AllocateLeaves, RefillLeaves, SweepLeaves, ReleaseLeaves, CompactLeaves DEF Step, Allocate, Collect

LEMMA Keeps_freed ==
  Step => \/ UNCHANGED freed
          \/ Cleanup \/ FreeBlock
BY AllocateLeaves, RefillLeaves, SweepLeaves, ReleaseLeaves, CompactLeaves DEF Step, Allocate, Collect

LEMMA Keeps_head ==
  Step => \/ UNCHANGED head
          \/ LoadOldHead \/ Prepend
BY AllocateLeaves, RefillLeaves, SweepLeaves, ReleaseLeaves, CompactLeaves DEF Step, Allocate, Collect

LEMMA Keeps_node ==
  Step => \/ UNCHANGED node
          \/ Copy \/ StoreHandle
BY AllocateLeaves, RefillLeaves, SweepLeaves, ReleaseLeaves, CompactLeaves DEF Step, Allocate, Collect

LEMMA Keeps_nodes ==
  Step => \/ UNCHANGED nodes
          \/ Steal \/ Keep \/ FreeBlock \/ FreeInBuffer \/ CompactThread \/ Skip \/ Copy
BY AllocateLeaves, RefillLeaves, SweepLeaves, ReleaseLeaves, CompactLeaves DEF Step, Allocate, Collect

LEMMA Keeps_survivors ==
  Step => \/ UNCHANGED survivors
          \/ Steal \/ Keep \/ Prepend
BY AllocateLeaves, RefillLeaves, SweepLeaves, ReleaseLeaves, CompactLeaves DEF Step, Allocate, Collect

LEMMA Keeps_held ==
  Step => \/ UNCHANGED held
          \/ \E t \in bound.threads : Deref(t) \/ Write(t) \/ Safepoint(t)
BY AllocateLeaves, RefillLeaves, SweepLeaves, ReleaseLeaves, CompactLeaves DEF Step, Allocate, Collect

LEMMA Keeps_acked ==
  Step => \/ UNCHANGED acked
          \/ \E t \in bound.threads : Safepoint(t)
          \/ Begin
BY AllocateLeaves, RefillLeaves, SweepLeaves, ReleaseLeaves, CompactLeaves DEF Step, Allocate, Collect

LEMMA Keeps_bound ==
  Step => \/ UNCHANGED bound
BY AllocateLeaves, RefillLeaves, SweepLeaves, ReleaseLeaves, CompactLeaves DEF Step, Allocate, Collect

LEMMA Keeps_gc_current_mark_value ==
  Step => \/ UNCHANGED gc_current_mark_value
          \/ Begin
BY AllocateLeaves, RefillLeaves, SweepLeaves, ReleaseLeaves, CompactLeaves DEF Step, Allocate, Collect

LEMMA Keeps_left ==
  Step => \/ UNCHANGED left
          \/ Cleanup \/ Steal \/ BeginCompact \/ CompactThread
BY AllocateLeaves, RefillLeaves, SweepLeaves, ReleaseLeaves, CompactLeaves DEF Step, Allocate, Collect

LEMMA Keeps_gcpc ==
  Step => \/ UNCHANGED gcpc
          \/ Begin \/ Mark \/ Cleanup \/ Steal \/ FreeInBuffer \/ LoadOldHead \/ Prepend \/ Recheck \/
                IsCurrent \/ ResetBase \/ ResetCursor \/ ResetLimit \/ BeginCompact \/ Copy \/ StoreHandle
                \/ Decrement \/ RecheckOld \/ Defer \/ EndCompact
BY AllocateLeaves, RefillLeaves, SweepLeaves, ReleaseLeaves, CompactLeaves DEF Step, Allocate, Collect

LEMMA Keeps_gc_compact_dead_tlab_list ==
  Step => \/ UNCHANGED gc_compact_dead_tlab_list
          \/ Cleanup \/ Recheck \/ Defer
BY AllocateLeaves, RefillLeaves, SweepLeaves, ReleaseLeaves, CompactLeaves DEF Step, Allocate, Collect

LEMMA Keeps_gc_compact_dead_tlab_list_prev ==
  Step => \/ UNCHANGED gc_compact_dead_tlab_list_prev
          \/ Cleanup
BY AllocateLeaves, RefillLeaves, SweepLeaves, ReleaseLeaves, CompactLeaves DEF Step, Allocate, Collect

LEMMA Keeps_gc_compacting ==
  Step => \/ UNCHANGED gc_compacting
          \/ BeginCompact \/ EndCompact
BY AllocateLeaves, RefillLeaves, SweepLeaves, ReleaseLeaves, CompactLeaves DEF Step, Allocate, Collect

LEMMA Keeps_gc_dead_tlab_list ==
  Step => \/ UNCHANGED gc_dead_tlab_list
          \/ FreeInBuffer \/ Recheck
BY AllocateLeaves, RefillLeaves, SweepLeaves, ReleaseLeaves, CompactLeaves DEF Step, Allocate, Collect

LEMMA Keeps_old ==
  Step => \/ UNCHANGED old
          \/ FreeInBuffer \/ StoreHandle \/ EndCompact
BY AllocateLeaves, RefillLeaves, SweepLeaves, ReleaseLeaves, CompactLeaves DEF Step, Allocate, Collect

LEMMA Keeps_prev_buffer ==
  Step => \/ UNCHANGED prev_buffer
          \/ EndCompact
BY AllocateLeaves, RefillLeaves, SweepLeaves, ReleaseLeaves, CompactLeaves DEF Step, Allocate, Collect

LEMMA Keeps_prev_prev_buffer ==
  Step => \/ UNCHANGED prev_prev_buffer
          \/ EndCompact
BY AllocateLeaves, RefillLeaves, SweepLeaves, ReleaseLeaves, CompactLeaves DEF Step, Allocate, Collect

LEMMA Keeps_room ==
  Step => \/ UNCHANGED room
          \/ BeginCompact \/ Copy \/ EndCompact
BY AllocateLeaves, RefillLeaves, SweepLeaves, ReleaseLeaves, CompactLeaves DEF Step, Allocate, Collect

LEMMA Keeps_target ==
  Step => \/ UNCHANGED target
          \/ BeginCompact \/ EndCompact
BY AllocateLeaves, RefillLeaves, SweepLeaves, ReleaseLeaves, CompactLeaves DEF Step, Allocate, Collect

LEMMA Keeps_thread ==
  Step => \/ UNCHANGED thread
          \/ Steal \/ CompactThread
BY AllocateLeaves, RefillLeaves, SweepLeaves, ReleaseLeaves, CompactLeaves DEF Step, Allocate, Collect



-----------------------------------------------------------------------------
(* Types.                                                                  *)

LEMMA BoundKnown ==
  ASSUME bound \in Bounds
  PROVE  /\ bound.threads \subseteq Threads /\ bound.objects \in Nat /\ bound.cycles \in Nat
         /\ 2 * bound.objects < Poison
BY HeapAssumption

LEMMA ConstantsKnown == Poison \in Int /\ MaxBuffers \in Nat /\ Slots \in Nat \ {0}
BY HeapAssumption

LEMMA AppendObject ==
  ASSUME NEW S, NEW n \in Nat, NEW f \in [1 .. n -> S], NEW x \in S
  PROVE  /\ Append(f, x) \in [1 .. n + 1 -> S]
         /\ \A i \in 1 .. n : Append(f, x)[i] = f[i]
         /\ Append(f, x)[n + 1] = x
<1>1. f \in Seq(S) /\ Len(f) = n
  OBVIOUS
<1>2. Append(f, x) \in Seq(S) /\ Len(Append(f, x)) = n + 1
  BY <1>1
<1>0. Append(f, x) \in [1 .. n + 1 -> S]
  BY <1>2, LenProperties
<1>3. \A i \in 1 .. n : Append(f, x)[i] = f[i]
  BY <1>1
<1>4. Append(f, x)[n + 1] = x
  BY <1>1
<1>5. QED
  BY <1>0, <1>3, <1>4

(* The types again, by what they are of.                                   *)
MemoryTyped ==
  /\ mapped \subseteq Buffer /\ allotted \in 0 .. MaxBuffers /\ live_count \in [Buffer -> Int]
HistoryTyped == lapse \subseteq {"null base", "late count", "no answer"} /\ wild \in BOOLEAN /\ lost \in BOOLEAN
FieldsTyped ==
  /\ tlab_base \in [Threads -> Buffer \cup {Null}] /\ tlab_limit \in [Threads -> Buffer \cup {Null}]
  /\ limit \in [Threads -> Buffer \cup {Null}] /\ buffer \in [Threads -> Buffer \cup {Null}]
  /\ base \in [Threads -> Buffer \cup {Null}]
CursorsTyped ==
  /\ tlab_cursor \in [Threads -> Cursor] /\ cursor \in [Threads -> Cursor]
  /\ \A t \in Threads : pc[t] = "cas" => cursor[t].next <= Slots
FlagsTyped ==
  big \in [Threads -> BOOLEAN] /\ tried \in [Threads -> BOOLEAN] /\ stamp \in [Threads -> Nat]
PcTyped ==
  pc \in [Threads -> {"idle", "limit", "cursor", "cas", "base", "malloc", "count", "publish",
                      "refill", "store_base", "store_cursor", "store_limit"}]
RefillTyped == \A t \in Threads : pc[t] \in Refilling => buffer[t] \in Buffer
ObjectsTyped ==
  /\ next_object \in Nat \ {0}
  /\ place \in [Object -> Buffer \cup {Null}] /\ node_base \in [Object -> Buffer \cup {Null}]
  /\ flag_tlab \in [Object -> BOOLEAN]
  /\ generation \in [Object -> Nat] /\ born \in [Object -> Nat]
ListsTyped ==
  /\ freed \subseteq Object /\ deferred_free \subseteq Object
  /\ alloc_list \in [Threads -> SUBSET Object] /\ nodes \subseteq Object /\ survivors \subseteq Object
  /\ head \subseteq Object /\ node \in Object \cup {0}
HeldTyped == held \in [Threads -> [object : Object \cup {0}, place : Buffer \cup {Null}]]
CycleTyped ==
  /\ bound \in Bounds /\ acked \subseteq Threads /\ left \subseteq bound.threads
  /\ gc_current_mark_value \in 1 .. bound.cycles + 1
GcPcTyped ==
  gcpc \in {"idle", "wait", "cleanup", "steal", "sweep", "prepend", "recheck", "size",
            "copy", "store", "decrement", "recheck_old", "current", "reset_base", "reset_cursor",
            "reset_limit", "defer"}
CompactTyped ==
  /\ gc_compacting \in 0 .. 1
  /\ gc_dead_tlab_list \subseteq Buffer /\ gc_compact_dead_tlab_list \subseteq Buffer
  /\ gc_compact_dead_tlab_list_prev \subseteq Buffer
  /\ prev_buffer \in Buffer \cup {Null} /\ prev_prev_buffer \in Buffer \cup {Null}
  /\ old \in Buffer \cup {Null} /\ target \in Buffer \cup {Null} /\ room \in Int
Typed == TypeOK /\ TypesKnown

LEMMA TypesSplit ==
  Typed <=> /\ MemoryTyped /\ HistoryTyped /\ FieldsTyped /\ CursorsTyped /\ FlagsTyped /\ PcTyped
            /\ RefillTyped /\ ObjectsTyped /\ ListsTyped /\ HeldTyped /\ CycleTyped /\ GcPcTyped
            /\ CompactTyped
<1> USE DEF Typed, TypeOK, TypesKnown, MemoryTyped, HistoryTyped, FieldsTyped, CursorsTyped, FlagsTyped,
    PcTyped, RefillTyped, ObjectsTyped, ListsTyped, HeldTyped, CycleTyped, GcPcTyped, CompactTyped
<1> DEFINE Split ==
      /\ MemoryTyped /\ HistoryTyped /\ FieldsTyped /\ CursorsTyped /\ FlagsTyped /\ PcTyped
      /\ RefillTyped /\ ObjectsTyped /\ ListsTyped /\ HeldTyped /\ CycleTyped /\ GcPcTyped
      /\ CompactTyped
<1>1. Typed => Split
  OBVIOUS
<1>2. ASSUME Split PROVE TypesKnown
  BY <1>2
<1>3. ASSUME Split PROVE TypeOK
  <2>1. \A t \in Threads : /\ tlab_cursor[t].buffer \in Buffer \cup {Null}
                           /\ tlab_cursor[t].next \in 0 .. Slots + 1
                           /\ held[t].object \in Object \cup {0}
                           /\ held[t].place \in Buffer \cup {Null}
    BY <1>3 DEF Cursor
  <2>2. QED
    BY <1>3, <2>1
<1>4. QED
  BY <1>1, <1>2, <1>3

(* What the collector works on, where it does.                             *)
LEMMA HandsKnown ==
  ASSUME Typed, CycleKnown
  PROVE  /\ gcpc \in HasOld => old \in Buffer
         /\ gcpc \in Copying \/ gc_compacting = 1 => target \in Buffer
         /\ gcpc = "store" => node \in Object
         /\ nodes # {} \/ gcpc \in {"sweep", "prepend", "store"} \cup HasOld => thread \in Threads
         /\ \A t \in left : t \in Threads
<1>1. /\ old \in Buffer \cup {Null} /\ target \in Buffer \cup {Null} /\ node \in Object \cup {0}
      /\ left \subseteq bound.threads
  BY DEF Typed, TypesKnown
<1>2. bound.threads \subseteq Threads
  BY BoundKnown DEF Typed, TypeOK
<1>3. QED
  BY <1>1, <1>2 DEF CycleKnown

LEMMA ObjectsFinite ==
  ASSUME next_object \in Nat \ {0}
  PROVE  /\ IsFiniteSet(Object) /\ Cardinality(Object) = next_object - 1
         /\ \A S \in SUBSET Object : IsFiniteSet(S) /\ Cardinality(S) \in Nat
                                     /\ Cardinality(S) <= next_object - 1
<1>1. IsFiniteSet(Object) /\ Cardinality(Object) = next_object - 1
  BY FS_Interval DEF Object
<1>2. ASSUME NEW S \in SUBSET Object
      PROVE  IsFiniteSet(S) /\ Cardinality(S) \in Nat /\ Cardinality(S) <= next_object - 1
  BY <1>1, <1>2, FS_Subset, FS_CardinalityType
<1>3. QED
  BY <1>1, <1>2

LEMMA ListedFinite ==
  ASSUME Typed
  PROVE  Listed \subseteq Object /\ IsFiniteSet(Listed) /\ Cardinality(Listed) \in Nat
<1>0. ListsTyped
  BY TypesSplit
<1>1. Listed \subseteq Object
  BY <1>0 DEF ListsTyped, Listed
<1>2. next_object \in Nat \ {0}
  BY DEF Typed, TypesKnown
<1>3. QED
  BY <1>1, <1>2, ObjectsFinite

LEMMA MemoryTypedStep ==
  ASSUME Typed, CycleKnown, MemoryTyped, Step
  PROVE  MemoryTyped'
<1>b. bound.threads \subseteq Threads
  BY BoundKnown DEF Typed, TypeOK
<1>f. CASE UNCHANGED <<mapped, allotted, live_count>>
  BY <1>f DEF MemoryTyped
<1>t. ASSUME NEW t \in Threads, t \in bound.threads, Count(t) \/ Refill(t)
      PROVE  MemoryTyped'
  <2>Count. CASE Count(t)
    <3>1. base[t] \in Buffer \cup {Null} /\ live_count \in [Buffer -> Int]
      BY DEF MemoryTyped, Typed, TypesKnown
    <3>2. UNCHANGED <<mapped, allotted>>
      BY <2>Count DEF Count
    <3>3. CASE base[t] = Null
      BY <2>Count, <3>2, <3>3 DEF Count, MemoryTyped
    <3>4. CASE base[t] # Null
      <4>1. live_count' = [live_count EXCEPT ![base[t]] = @ + 1]
        BY <2>Count, <3>4 DEF Count
      <4>2. live_count' \in [Buffer -> Int]
        BY <3>1, <3>4, <4>1
      <4>3. QED
        BY <3>2, <4>2 DEF MemoryTyped
    <3>5. QED
      BY <3>3, <3>4
  <2>Refill. CASE Refill(t)
    <3>1. allotted' \in 0 .. MaxBuffers /\ mapped' \subseteq Buffer
      BY <2>Refill DEF Refill, Map, Buffer, MemoryTyped
    <3>2. QED
      BY <2>Refill, <3>1 DEF Refill, MemoryTyped
  <2>q. QED
    BY <1>t, <2>Count, <2>Refill
<1>Begin. CASE Begin
  BY <1>Begin, ConstantsKnown DEF Begin, MemoryTyped
<1>Cleanup. CASE Cleanup
  BY <1>Cleanup DEF Cleanup, MemoryTyped
<1>FreeInBuffer. CASE FreeInBuffer
  <2>1. PICK b : live_count' = [c \in Buffer |-> IF c = b THEN live_count[c] - 1 ELSE live_count[c]]
    BY <1>FreeInBuffer DEF FreeInBuffer
  <2>2. live_count \in [Buffer -> Int]
    BY DEF MemoryTyped
  <2>3. live_count' \in [Buffer -> Int]
    BY <2>1, <2>2
  <2>4. QED
    BY <1>FreeInBuffer, <2>3 DEF FreeInBuffer, MemoryTyped
<1>BeginCompact. CASE BeginCompact
  <2>1. UNCHANGED live_count
    BY <1>BeginCompact DEF BeginCompact
  <2>2. CASE UNCHANGED <<mapped, allotted>>
    BY <2>1, <2>2 DEF MemoryTyped
  <2>3. ASSUME NEW b \in Buffer, mapped' = mapped \cup {b}, allotted' = b
        PROVE  MemoryTyped'
    BY <2>1, <2>3 DEF MemoryTyped, Buffer
  <2>4. QED
    BY <1>BeginCompact, <2>2, <2>3 DEF BeginCompact, Map
<1>StoreHandle. CASE StoreHandle
  <2>1. target \in Buffer /\ live_count \in [Buffer -> Int]
    BY <1>StoreHandle, HandsKnown DEF StoreHandle, Copying, MemoryTyped
  <2>2. live_count' = [live_count EXCEPT ![target] = @ + 1]
    BY <1>StoreHandle DEF StoreHandle
  <2>3. live_count' \in [Buffer -> Int]
    BY <2>1, <2>2
  <2>4. QED
    BY <1>StoreHandle, <2>3 DEF StoreHandle, MemoryTyped
<1>Decrement. CASE Decrement
  <2>1. old \in Buffer /\ live_count \in [Buffer -> Int]
    BY <1>Decrement, HandsKnown DEF Decrement, HasOld, MemoryTyped
  <2>2. live_count' = [live_count EXCEPT ![old] = @ - 1]
    BY <1>Decrement DEF Decrement
  <2>3. live_count' \in [Buffer -> Int]
    BY <2>1, <2>2
  <2>4. QED
    BY <1>Decrement, <2>3 DEF Decrement, MemoryTyped
<1>EndCompact. CASE EndCompact
  BY <1>EndCompact DEF EndCompact, MemoryTyped
<1>q. QED
  BY <1>b, <1>f, <1>t, <1>Begin, <1>Cleanup, <1>FreeInBuffer, <1>BeginCompact, <1>StoreHandle,
    <1>Decrement, <1>EndCompact, Keeps_allotted, Keeps_live_count, Keeps_mapped

LEMMA HistoryTypedStep ==
  ASSUME Typed, CycleKnown, HistoryTyped, Step
  PROVE  HistoryTyped'
<1>b. bound.threads \subseteq Threads
  BY BoundKnown DEF Typed, TypeOK
<1>f. CASE UNCHANGED <<wild, lost, lapse>>
  BY <1>f DEF HistoryTyped
<1>t. ASSUME NEW t \in Threads, t \in bound.threads, LoadBase(t) \/ Count(t) \/ Write(t)
      PROVE  HistoryTyped'
  <2>LoadBase. CASE LoadBase(t)
    BY <2>LoadBase DEF LoadBase, HistoryTyped
  <2>Count. CASE Count(t)
    BY <2>Count DEF Count, Touch, HistoryTyped
  <2>Write. CASE Write(t)
    BY <2>Write DEF Write, HistoryTyped
  <2>q. QED
    BY <1>t, <2>LoadBase, <2>Count, <2>Write
<1>Cleanup. CASE Cleanup
  BY <1>Cleanup DEF Cleanup, HistoryTyped
<1>FreeInBuffer. CASE FreeInBuffer
  BY <1>FreeInBuffer DEF FreeInBuffer, Touch, Dead, HistoryTyped
<1>Decrement. CASE Decrement
  BY <1>Decrement DEF Decrement, Touch, HistoryTyped
<1>Defer. CASE Defer
  BY <1>Defer DEF Defer, HistoryTyped
<1>q. QED
  BY <1>b, <1>f, <1>t, <1>Cleanup, <1>FreeInBuffer, <1>Decrement, <1>Defer, Keeps_lapse, Keeps_lost,
     Keeps_wild

LEMMA FieldsTypedStep ==
  ASSUME Typed, CycleKnown, FieldsTyped, Step
  PROVE  FieldsTyped'
<1>b. bound.threads \subseteq Threads
  BY BoundKnown DEF Typed, TypeOK
<1>f. CASE UNCHANGED <<tlab_base, tlab_limit, limit, buffer, base>>
  BY <1>f DEF FieldsTyped
<1>t. ASSUME NEW t \in Threads, t \in bound.threads,
               LoadLimit(t) \/ LoadBase(t) \/ Malloc(t) \/ Publish(t) \/ Refill(t) \/ StoreBase(t) \/
             StoreLimit(t)
      PROVE  FieldsTyped'
  <2>LoadLimit. CASE LoadLimit(t)
    BY <2>LoadLimit DEF LoadLimit, FieldsTyped
  <2>LoadBase. CASE LoadBase(t)
    BY <2>LoadBase DEF LoadBase, FieldsTyped
  <2>Malloc. CASE Malloc(t)
    BY <2>Malloc DEF Malloc, FieldsTyped
  <2>Publish. CASE Publish(t)
    BY <2>Publish DEF Publish, FieldsTyped
  <2>Refill. CASE Refill(t)
    BY <2>Refill DEF Refill, Map, FieldsTyped
  <2>StoreBase. CASE StoreBase(t)
    BY <2>StoreBase DEF StoreBase, FieldsTyped
  <2>StoreLimit. CASE StoreLimit(t)
    BY <2>StoreLimit DEF StoreLimit, FieldsTyped
  <2>q. QED
    BY <1>t, <2>LoadLimit, <2>LoadBase, <2>Malloc, <2>Publish, <2>Refill, <2>StoreBase, <2>StoreLimit
<1>ResetBase. CASE ResetBase
  BY <1>ResetBase DEF ResetBase, FieldsTyped
<1>ResetLimit. CASE ResetLimit
  BY <1>ResetLimit DEF ResetLimit, Back, FieldsTyped
<1>q. QED
  BY <1>b, <1>f, <1>t, <1>ResetBase, <1>ResetLimit, Keeps_base, Keeps_buffer, Keeps_limit, Keeps_tlab_base,
     Keeps_tlab_limit

LEMMA CursorBumped ==
  ASSUME NEW t \in Threads, tlab_cursor \in [Threads -> Cursor],
         tlab_cursor' = [tlab_cursor EXCEPT ![t].next = @ + 1]
  PROVE  tlab_cursor' = [u \in Threads |-> IF u = t THEN [buffer |-> tlab_cursor[t].buffer,
           next |-> tlab_cursor[t].next + 1]
                                                     ELSE tlab_cursor[u]]
<1>1. tlab_cursor' = [tlab_cursor EXCEPT ![t] = [tlab_cursor[t] EXCEPT !.next = tlab_cursor[t].next + 1]]
  OBVIOUS
<1>2. [tlab_cursor[t] EXCEPT !.next = tlab_cursor[t].next + 1]
      = [buffer |-> tlab_cursor[t].buffer, next |-> tlab_cursor[t].next + 1]
  BY DEF Cursor
<1>3. QED
  BY <1>1, <1>2

LEMMA CursorsTypedStep ==
  ASSUME Typed, CycleKnown, CursorsTyped, FieldsTyped, Step
  PROVE  CursorsTyped'
<1>b. bound.threads \subseteq Threads
  BY BoundKnown DEF Typed, TypeOK
<1>f. CASE UNCHANGED <<tlab_cursor, cursor, pc>>
  BY <1>f, ConstantsKnown DEF CursorsTyped, Cursor
<1>t. ASSUME NEW t \in Threads, t \in bound.threads,
               Start(t) \/ LoadLimit(t) \/ LoadCursor(t) \/ CasCursor(t) \/ LoadBase(t) \/ Malloc(t)
             \/ Count(t) \/ Publish(t) \/ Refill(t) \/ RefillFails(t) \/ StoreBase(t) \/
             StoreCursor(t) \/ StoreLimit(t)
      PROVE  CursorsTyped'
  <2>Start. CASE Start(t)
    <3>1. pc' = [pc EXCEPT ![t] = "limit"] /\ UNCHANGED <<tlab_cursor, cursor>>
      BY <2>Start DEF Start
    <3>2. QED
      BY <3>1, ConstantsKnown DEF CursorsTyped, Cursor
  <2>LoadLimit. CASE LoadLimit(t)
    <3>1. pc' = [pc EXCEPT ![t] = "cursor"] /\ UNCHANGED <<tlab_cursor, cursor>>
      BY <2>LoadLimit DEF LoadLimit
    <3>2. QED
      BY <3>1, ConstantsKnown DEF CursorsTyped, Cursor
  <2>LoadCursor. CASE LoadCursor(t)
    <3>1. /\ pc' = [pc EXCEPT ![t] = IF HasSpace(t) THEN "cas" ELSE IF tried[t] THEN "malloc" ELSE "refill"]
          /\ cursor' = [cursor EXCEPT ![t] = IF HasSpace(t) THEN tlab_cursor[t] ELSE NoCursor]
          /\ UNCHANGED tlab_cursor
      BY <2>LoadCursor DEF LoadCursor, HasSpace
    <3>2. QED
      BY <3>1, ConstantsKnown DEF CursorsTyped, Cursor, HasSpace, NoCursor, Null
  <2>CasCursor. CASE CasCursor(t)
    <3>1. CASE tlab_cursor[t] = cursor[t]
      <4>1. /\ pc[t] = "cas" /\ pc' = [pc EXCEPT ![t] = "base"] /\ UNCHANGED cursor
            /\ tlab_cursor' = [tlab_cursor EXCEPT ![t].next = @ + 1]
        BY <2>CasCursor, <3>1 DEF CasCursor
      <4>2. tlab_cursor' \in [Threads -> Cursor]
        BY <3>1, <4>1, CursorBumped, ConstantsKnown DEF CursorsTyped, Cursor
      <4>3. QED
        BY <4>1, <4>2 DEF CursorsTyped
    <3>2. CASE tlab_cursor[t] # cursor[t]
      <4>1. /\ pc[t] = "cas" /\ pc' = [pc EXCEPT ![t] = "cursor"] /\ UNCHANGED <<tlab_cursor, cursor>>
        BY <2>CasCursor, <3>2 DEF CasCursor
      <4>2. QED
        BY <4>1 DEF CursorsTyped
    <3>3. QED
      BY <3>1, <3>2
  <2>LoadBase. CASE LoadBase(t)
    <3>1. pc' = [pc EXCEPT ![t] = "count"] /\ UNCHANGED <<tlab_cursor, cursor>>
      BY <2>LoadBase DEF LoadBase
    <3>2. QED
      BY <3>1, ConstantsKnown DEF CursorsTyped, Cursor
  <2>Malloc. CASE Malloc(t)
    <3>1. pc' = [pc EXCEPT ![t] = "count"] /\ UNCHANGED <<tlab_cursor, cursor>>
      BY <2>Malloc DEF Malloc
    <3>2. QED
      BY <3>1, ConstantsKnown DEF CursorsTyped, Cursor
  <2>Count. CASE Count(t)
    <3>1. /\ \/ pc' = [pc EXCEPT ![t] = "publish"]
             \/ pc' = [pc EXCEPT ![t] = "publish"]
          /\ UNCHANGED <<tlab_cursor, cursor>>
      BY <2>Count DEF Count, Touch
    <3>2. ASSUME pc' = [pc EXCEPT ![t] = "publish"]
          PROVE  CursorsTyped'
      BY <3>1, <3>2, ConstantsKnown DEF CursorsTyped, Cursor
    <3>3. ASSUME pc' = [pc EXCEPT ![t] = "publish"]
          PROVE  CursorsTyped'
      BY <3>1, <3>3, ConstantsKnown DEF CursorsTyped, Cursor
    <3>4. QED
      BY <3>1, <3>2, <3>3
  <2>Publish. CASE Publish(t)
    <3>1. pc' = [pc EXCEPT ![t] = "idle"] /\ cursor' = [cursor EXCEPT ![t] = NoCursor] /\ UNCHANGED tlab_cursor
      BY <2>Publish DEF Publish
    <3>2. QED
      BY <3>1, ConstantsKnown DEF CursorsTyped, Cursor, NoCursor, Null
  <2>Refill. CASE Refill(t)
    <3>1. PICK fresh \in Buffer :
              pc' = [pc EXCEPT ![t] = "store_base"] /\ UNCHANGED <<tlab_cursor, cursor>>
      BY <2>Refill DEF Refill, Map
    <3>2. QED
      BY <3>1, ConstantsKnown DEF CursorsTyped, Cursor
  <2>RefillFails. CASE RefillFails(t)
    <3>1. pc' = [pc EXCEPT ![t] = "limit"] /\ UNCHANGED <<tlab_cursor, cursor>>
      BY <2>RefillFails DEF RefillFails, MayFail
    <3>2. QED
      BY <3>1, ConstantsKnown DEF CursorsTyped, Cursor
  <2>StoreBase. CASE StoreBase(t)
    <3>1. pc' = [pc EXCEPT ![t] = "store_cursor"] /\ UNCHANGED <<tlab_cursor, cursor>>
      BY <2>StoreBase DEF StoreBase
    <3>2. QED
      BY <3>1, ConstantsKnown DEF CursorsTyped, Cursor
  <2>StoreCursor. CASE StoreCursor(t)
    <3>1. /\ tlab_cursor' = [tlab_cursor EXCEPT ![t] = [buffer |-> buffer[t], next |-> 1]]
          /\ pc' = [pc EXCEPT ![t] = "store_limit"] /\ UNCHANGED cursor
      BY <2>StoreCursor DEF StoreCursor
    <3>2. QED
      BY <3>1, ConstantsKnown DEF CursorsTyped, Cursor, FieldsTyped
  <2>StoreLimit. CASE StoreLimit(t)
    <3>1. pc' = [pc EXCEPT ![t] = "limit"] /\ UNCHANGED <<tlab_cursor, cursor>>
      BY <2>StoreLimit DEF StoreLimit
    <3>2. QED
      BY <3>1, ConstantsKnown DEF CursorsTyped, Cursor
  <2>q. QED
    BY <1>t, <2>Start, <2>LoadLimit, <2>LoadCursor, <2>CasCursor, <2>LoadBase, <2>Malloc, <2>Count,
      <2>Publish, <2>Refill, <2>RefillFails, <2>StoreBase, <2>StoreCursor, <2>StoreLimit
<1>ResetCursor. CASE ResetCursor
  <2>1. /\ gcpc = "reset_cursor" /\ tlab_cursor' = [tlab_cursor EXCEPT ![thread] = NoCursor]
        /\ UNCHANGED <<cursor, pc>>
    BY <1>ResetCursor DEF ResetCursor
  <2>2. QED
    BY <2>1, HandsKnown, ConstantsKnown DEF CursorsTyped, Cursor, NoCursor, Null, HasOld, Taking
<1>q. QED
  BY <1>b, <1>f, <1>t, <1>ResetCursor, Keeps_cursor, Keeps_pc, Keeps_tlab_cursor

LEMMA FlagsTypedStep ==
  ASSUME Typed, CycleKnown, FlagsTyped, CycleTyped, Step
  PROVE  FlagsTyped'
<1>b. bound.threads \subseteq Threads
  BY BoundKnown DEF Typed, TypeOK
<1>n. gc_current_mark_value \in Nat
  BY BoundKnown DEF CycleTyped
<1>f. CASE UNCHANGED <<big, tried, stamp>>
  BY <1>f DEF FlagsTyped
<1>t. ASSUME NEW t \in Threads, t \in bound.threads,
               Start(t) \/ LoadBase(t) \/ Malloc(t) \/ Publish(t) \/ RefillFails(t) \/ StoreLimit(t)
      PROVE  FlagsTyped'
  <2>Start. CASE Start(t)
    <3>1. big' \in [Threads -> BOOLEAN] /\ tried' = [tried EXCEPT ![t] = FALSE] /\ UNCHANGED stamp
      BY <2>Start DEF Start
    <3>2. QED
      BY <3>1, <1>n DEF FlagsTyped
  <2>LoadBase. CASE LoadBase(t)
    <3>1. stamp' = [stamp EXCEPT ![t] = gc_current_mark_value] /\ UNCHANGED <<big, tried>>
      BY <2>LoadBase DEF LoadBase
    <3>2. QED
      BY <3>1, <1>n DEF FlagsTyped
  <2>Malloc. CASE Malloc(t)
    <3>1. stamp' = [stamp EXCEPT ![t] = gc_current_mark_value] /\ UNCHANGED <<big, tried>>
      BY <2>Malloc DEF Malloc
    <3>2. QED
      BY <3>1, <1>n DEF FlagsTyped
  <2>Publish. CASE Publish(t)
    <3>1. /\ big' = [big EXCEPT ![t] = FALSE] /\ tried' = [tried EXCEPT ![t] = FALSE]
          /\ stamp' = [stamp EXCEPT ![t] = 0]
      BY <2>Publish DEF Publish
    <3>2. QED
      BY <3>1, <1>n DEF FlagsTyped
  <2>RefillFails. CASE RefillFails(t)
    <3>1. tried' = [tried EXCEPT ![t] = TRUE] /\ UNCHANGED <<big, stamp>>
      BY <2>RefillFails DEF RefillFails, MayFail
    <3>2. QED
      BY <3>1, <1>n DEF FlagsTyped
  <2>StoreLimit. CASE StoreLimit(t)
    <3>1. tried' = [tried EXCEPT ![t] = TRUE] /\ UNCHANGED <<big, stamp>>
      BY <2>StoreLimit DEF StoreLimit
    <3>2. QED
      BY <3>1, <1>n DEF FlagsTyped
  <2>q. QED
    BY <1>t, <2>Start, <2>LoadBase, <2>Malloc, <2>Publish, <2>RefillFails, <2>StoreLimit
<1>q. QED
  BY <1>b, <1>f, <1>t, Keeps_big, Keeps_stamp, Keeps_tried

LEMMA PcTypedStep ==
  ASSUME Typed, CycleKnown, PcTyped, Step
  PROVE  PcTyped'
<1>b. bound.threads \subseteq Threads
  BY BoundKnown DEF Typed, TypeOK
<1>f. CASE UNCHANGED <<pc>>
  BY <1>f DEF PcTyped
<1>t. ASSUME NEW t \in Threads, t \in bound.threads,
               Start(t) \/ LoadLimit(t) \/ LoadCursor(t) \/ CasCursor(t) \/ LoadBase(t) \/ Malloc(t)
             \/ Count(t) \/ Publish(t) \/ Refill(t) \/ RefillFails(t) \/ StoreBase(t) \/
             StoreCursor(t) \/ StoreLimit(t)
      PROVE  PcTyped'
  <2>Start. CASE Start(t)
    BY <2>Start DEF Start, PcTyped
  <2>LoadLimit. CASE LoadLimit(t)
    BY <2>LoadLimit DEF LoadLimit, PcTyped
  <2>LoadCursor. CASE LoadCursor(t)
    BY <2>LoadCursor DEF LoadCursor, HasSpace, PcTyped
  <2>CasCursor. CASE CasCursor(t)
    BY <2>CasCursor DEF CasCursor, PcTyped
  <2>LoadBase. CASE LoadBase(t)
    BY <2>LoadBase DEF LoadBase, PcTyped
  <2>Malloc. CASE Malloc(t)
    BY <2>Malloc DEF Malloc, PcTyped
  <2>Count. CASE Count(t)
    BY <2>Count DEF Count, Touch, PcTyped
  <2>Publish. CASE Publish(t)
    BY <2>Publish DEF Publish, PcTyped
  <2>Refill. CASE Refill(t)
    BY <2>Refill DEF Refill, Map, PcTyped
  <2>RefillFails. CASE RefillFails(t)
    BY <2>RefillFails DEF RefillFails, MayFail, PcTyped
  <2>StoreBase. CASE StoreBase(t)
    BY <2>StoreBase DEF StoreBase, PcTyped
  <2>StoreCursor. CASE StoreCursor(t)
    BY <2>StoreCursor DEF StoreCursor, PcTyped
  <2>StoreLimit. CASE StoreLimit(t)
    BY <2>StoreLimit DEF StoreLimit, PcTyped
  <2>q. QED
    BY <1>t, <2>Start, <2>LoadLimit, <2>LoadCursor, <2>CasCursor, <2>LoadBase, <2>Malloc, <2>Count,
      <2>Publish, <2>Refill, <2>RefillFails, <2>StoreBase, <2>StoreCursor, <2>StoreLimit
<1>q. QED
  BY <1>b, <1>f, <1>t, Keeps_pc

LEMMA RefillTypedStep ==
  ASSUME Typed, CycleKnown, RefillTyped, PcTyped, FieldsTyped, Step
  PROVE  RefillTyped'
<1>b. bound.threads \subseteq Threads
  BY BoundKnown DEF Typed, TypeOK
<1>f. CASE UNCHANGED <<pc, buffer>>
  BY <1>f DEF RefillTyped, Refilling, PcTyped, FieldsTyped
<1>t. ASSUME NEW t \in Threads, t \in bound.threads,
               Start(t) \/ LoadLimit(t) \/ LoadCursor(t) \/ CasCursor(t) \/ LoadBase(t) \/ Malloc(t)
             \/ Count(t) \/ Publish(t) \/ Refill(t) \/ RefillFails(t) \/ StoreBase(t) \/
             StoreCursor(t) \/ StoreLimit(t)
      PROVE  RefillTyped'
  <2>Start. CASE Start(t)
    <3>1. /\ pc[t] = "idle" /\ next_object + Cardinality({u \in Threads : pc[u] # "idle"}) <= bound.objects
          /\ pc' = [pc EXCEPT ![t] = "limit"] /\ UNCHANGED buffer
      BY <2>Start DEF Start
    <3>2. QED
      BY <3>1 DEF RefillTyped, Refilling, PcTyped, FieldsTyped
  <2>LoadLimit. CASE LoadLimit(t)
    <3>1. pc[t] = "limit" /\ pc' = [pc EXCEPT ![t] = "cursor"] /\ UNCHANGED buffer
      BY <2>LoadLimit DEF LoadLimit
    <3>2. QED
      BY <3>1 DEF RefillTyped, Refilling, PcTyped, FieldsTyped
  <2>LoadCursor. CASE LoadCursor(t)
    <3>1. /\ pc[t] = "cursor"
          /\ pc' = [pc EXCEPT ![t] = IF HasSpace(t) THEN "cas" ELSE IF tried[t] THEN "malloc" ELSE "refill"]
          /\ UNCHANGED buffer
      BY <2>LoadCursor DEF LoadCursor, HasSpace
    <3>2. QED
      BY <3>1 DEF RefillTyped, Refilling, PcTyped, FieldsTyped
  <2>CasCursor. CASE CasCursor(t)
    <3>1. /\ \/ pc[t] = "cas" /\ tlab_cursor[t] = cursor[t] /\ pc' = [pc EXCEPT ![t] = "base"]
             \/ pc[t] = "cas" /\ pc' = [pc EXCEPT ![t] = "cursor"]
          /\ UNCHANGED buffer
      BY <2>CasCursor DEF CasCursor
    <3>2. QED
      BY <3>1 DEF RefillTyped, Refilling, PcTyped, FieldsTyped
  <2>LoadBase. CASE LoadBase(t)
    <3>1. pc[t] = "base" /\ pc' = [pc EXCEPT ![t] = "count"] /\ UNCHANGED buffer
      BY <2>LoadBase DEF LoadBase
    <3>2. QED
      BY <3>1 DEF RefillTyped, Refilling, PcTyped, FieldsTyped
  <2>Malloc. CASE Malloc(t)
    <3>1. pc[t] = "malloc" /\ pc' = [pc EXCEPT ![t] = "count"] /\ UNCHANGED buffer
      BY <2>Malloc DEF Malloc
    <3>2. QED
      BY <3>1 DEF RefillTyped, Refilling, PcTyped, FieldsTyped
  <2>Count. CASE Count(t)
    <3>1. /\ \/ pc[t] = "count" /\ base[t] = Null /\ pc' = [pc EXCEPT ![t] = "publish"]
             \/ pc[t] = "count" /\ base[t] # Null /\ pc' = [pc EXCEPT ![t] = "publish"]
          /\ UNCHANGED buffer
      BY <2>Count DEF Count, Touch
    <3>2. QED
      BY <3>1 DEF RefillTyped, Refilling, PcTyped, FieldsTyped
  <2>Publish. CASE Publish(t)
    <3>1. pc[t] = "publish" /\ pc' = [pc EXCEPT ![t] = "idle"] /\ UNCHANGED buffer
      BY <2>Publish DEF Publish
    <3>2. QED
      BY <3>1 DEF RefillTyped, Refilling, PcTyped, FieldsTyped
  <2>Refill. CASE Refill(t)
    <3>1. PICK fresh \in Buffer :
              /\ pc[t] = "refill" /\ allotted < MaxBuffers /\ fresh = allotted + 1
              /\ pc' = [pc EXCEPT ![t] = "store_base"] /\ buffer' = [buffer EXCEPT ![t] = fresh]
      BY <2>Refill DEF Refill, Map
    <3>2. QED
      BY <3>1 DEF RefillTyped, Refilling, PcTyped, FieldsTyped
  <2>RefillFails. CASE RefillFails(t)
    <3>1. pc[t] = "refill" /\ pc' = [pc EXCEPT ![t] = "limit"] /\ UNCHANGED buffer
      BY <2>RefillFails DEF RefillFails, MayFail
    <3>2. QED
      BY <3>1 DEF RefillTyped, Refilling, PcTyped, FieldsTyped
  <2>StoreBase. CASE StoreBase(t)
    <3>1. pc[t] = "store_base" /\ pc' = [pc EXCEPT ![t] = "store_cursor"] /\ UNCHANGED buffer
      BY <2>StoreBase DEF StoreBase
    <3>2. QED
      BY <3>1 DEF RefillTyped, Refilling, PcTyped, FieldsTyped
  <2>StoreCursor. CASE StoreCursor(t)
    <3>1. pc[t] = "store_cursor" /\ pc' = [pc EXCEPT ![t] = "store_limit"] /\ UNCHANGED buffer
      BY <2>StoreCursor DEF StoreCursor
    <3>2. QED
      BY <3>1 DEF RefillTyped, Refilling, PcTyped, FieldsTyped
  <2>StoreLimit. CASE StoreLimit(t)
    <3>1. pc[t] = "store_limit" /\ pc' = [pc EXCEPT ![t] = "limit"] /\ buffer' = [buffer EXCEPT ![t] = Null]
      BY <2>StoreLimit DEF StoreLimit
    <3>2. QED
      BY <3>1 DEF RefillTyped, Refilling, PcTyped, FieldsTyped
  <2>q. QED
    BY <1>t, <2>Start, <2>LoadLimit, <2>LoadCursor, <2>CasCursor, <2>LoadBase, <2>Malloc, <2>Count,
      <2>Publish, <2>Refill, <2>RefillFails, <2>StoreBase, <2>StoreCursor, <2>StoreLimit
<1>q. QED
  BY <1>b, <1>f, <1>t, Keeps_buffer, Keeps_pc

LEMMA ObjectsTypedStep ==
  ASSUME Typed, CycleKnown, ObjectsTyped, FieldsTyped, CursorsTyped,
         FlagsTyped, CycleTyped, CompactTyped, Step
  PROVE  ObjectsTyped'
<1>b. bound.threads \subseteq Threads
  BY BoundKnown DEF Typed, TypeOK
<1>n. gc_current_mark_value \in Nat
  BY BoundKnown DEF CycleTyped
<1>f. CASE UNCHANGED <<next_object, place, node_base, flag_tlab, generation, born>>
  BY <1>f DEF ObjectsTyped, Object
<1>t. ASSUME NEW t \in Threads, t \in bound.threads, Publish(t)
      PROVE  ObjectsTyped'
  <2>Publish. CASE Publish(t)
    <3>1. /\ pc[t] = "publish" /\ next_object' = next_object + 1
          /\ place' = Append(place, cursor[t].buffer)
          /\ flag_tlab' = Append(flag_tlab, cursor[t].buffer # Null)
          /\ node_base' = Append(node_base, base[t])
          /\ generation' = Append(generation, stamp[t]) /\ born' = Append(born, stamp[t])
      BY <2>Publish DEF Publish
    <3>2. /\ cursor[t].buffer \in Buffer \cup {Null} /\ base[t] \in Buffer \cup {Null} /\ stamp[t] \in Nat
          /\ (cursor[t].buffer # Null) \in BOOLEAN
      BY DEF FieldsTyped, CursorsTyped, FlagsTyped, Cursor
    <3>3. next_object - 1 \in Nat /\ Object = 1 .. next_object - 1 /\ Object' = 1 .. (next_object - 1) + 1
          /\ next_object' \in Nat \ {0}
      BY <3>1 DEF ObjectsTyped, Object
    <3>4. /\ place' \in [Object' -> Buffer \cup {Null}] /\ node_base' \in [Object' -> Buffer \cup {Null}]
      BY <3>1, <3>2, <3>3, AppendObject DEF ObjectsTyped
    <3>5. /\ flag_tlab' \in [Object' -> BOOLEAN]
      BY <3>1, <3>2, <3>3, AppendObject DEF ObjectsTyped
    <3>6. /\ generation' \in [Object' -> Nat] /\ born' \in [Object' -> Nat]
      BY <3>1, <3>2, <3>3, AppendObject DEF ObjectsTyped
    <3>7. QED
      BY <3>3, <3>4, <3>5, <3>6 DEF ObjectsTyped
  <2>q. QED
    BY <1>t, <2>Publish
<1>Mark. CASE Mark
  <2>1. UNCHANGED <<next_object, place, node_base, flag_tlab, born>>
    BY <1>Mark DEF Mark, Marking
  <2>2. PICK reached \in SUBSET Listed :
          generation' = [o \in Object |-> IF o \in reached THEN gc_current_mark_value + 1 ELSE generation[o]]
    BY <1>Mark DEF Mark, Marking
  <2>3. generation' \in [Object -> Nat]
    BY <2>2, <1>n DEF ObjectsTyped
  <2>4. QED
    BY <2>1, <2>3 DEF ObjectsTyped, Object
<1>Copy. CASE Copy
  <2>1. UNCHANGED <<next_object, place, node_base, flag_tlab, generation>>
    BY <1>Copy DEF Copy
  <2>2. PICK o \in nodes : born' = born \/ born' = [born EXCEPT ![o] = 0]
    BY <1>Copy DEF Copy
  <2>3. born' \in [Object -> Nat]
    BY <2>2 DEF ObjectsTyped
  <2>4. QED
    BY <2>1, <2>3 DEF ObjectsTyped, Object
<1>StoreHandle. CASE StoreHandle
  <2>1. /\ gcpc = "store" /\ UNCHANGED <<next_object, generation, born>>
        /\ place' = [place EXCEPT ![node] = target] /\ node_base' = [node_base EXCEPT ![node] = target]
        /\ flag_tlab' = [flag_tlab EXCEPT ![node] = TRUE]
    BY <1>StoreHandle DEF StoreHandle
  <2>2. target \in Buffer \cup {Null}
    BY DEF CompactTyped
  <2>3. QED
    BY <2>1, <2>2 DEF ObjectsTyped, Object
<1>q. QED
  BY <1>b, <1>f, <1>t, <1>Mark, <1>Copy, <1>StoreHandle, Keeps_born, Keeps_flag_tlab, Keeps_generation,
     Keeps_next_object, Keeps_node_base, Keeps_place

LEMMA ListsTypedStep ==
  ASSUME Typed, CycleKnown, ListsTyped, ObjectsTyped, Step
  PROVE  ListsTyped'
<1>b. bound.threads \subseteq Threads
  BY BoundKnown DEF Typed, TypeOK
<1>f. CASE UNCHANGED <<freed, deferred_free, alloc_list, nodes, survivors, head, node,
                next_object>>
  BY <1>f DEF ListsTyped, Object
<1>t. ASSUME NEW t \in Threads, t \in bound.threads, Publish(t)
      PROVE  ListsTyped'
  <2>Publish. CASE Publish(t)
    <3>1. /\ next_object' = next_object + 1 /\ UNCHANGED <<freed, deferred_free, nodes, survivors, head, node>>
          /\ alloc_list' = [alloc_list EXCEPT ![t] = @ \cup {next_object}]
      BY <2>Publish DEF Publish
    <3>2. Object \subseteq Object' /\ next_object \in Object'
      BY <3>1 DEF Object, ObjectsTyped
    <3>3. alloc_list' \in [Threads -> SUBSET Object']
      BY <3>1, <3>2 DEF ListsTyped
    <3>4. QED
      BY <3>1, <3>2, <3>3 DEF ListsTyped
  <2>q. QED
    BY <1>t, <2>Publish
<1>Cleanup. CASE Cleanup
  <2>1. /\ freed' = freed \cup deferred_free /\ deferred_free' = {}
        /\ UNCHANGED <<alloc_list, nodes, survivors, head, node, next_object>>
    BY <1>Cleanup DEF Cleanup
  <2>2. QED
    BY <2>1, HandsKnown DEF ListsTyped, Object
<1>Steal. CASE Steal
  <2>1. /\ \/ \E u \in left : /\ alloc_list' = [alloc_list EXCEPT ![u] = {}] /\ nodes' = alloc_list[u]
                              /\ survivors' = {}
           \/ UNCHANGED <<alloc_list, nodes, survivors>>
        /\ UNCHANGED <<freed, deferred_free, head, node, next_object>>
    BY <1>Steal DEF Steal
  <2>2. QED
    BY <2>1, HandsKnown DEF ListsTyped, Object
<1>Keep. CASE Keep
  <2>1. PICK n \in nodes :
            /\ nodes' = nodes \ {n} /\ survivors' = survivors \cup {n}
            /\ UNCHANGED <<freed, deferred_free, alloc_list, head, node, next_object>>
    BY <1>Keep DEF Keep, Dead
  <2>2. QED
    BY <2>1, HandsKnown DEF ListsTyped, Object
<1>FreeBlock. CASE FreeBlock
  <2>1. PICK n \in nodes :
            /\ freed' = freed \cup {n} /\ nodes' = nodes \ {n}
            /\ UNCHANGED <<deferred_free, alloc_list, survivors, head, node, next_object>>
    BY <1>FreeBlock DEF FreeBlock, Dead
  <2>2. QED
    BY <2>1, HandsKnown DEF ListsTyped, Object
<1>FreeInBuffer. CASE FreeInBuffer
  <2>1. /\ \/ \E n \in nodes : nodes' = nodes \ {n}
           \/ \E n \in nodes : nodes' = nodes \ {n}
        /\ UNCHANGED <<freed, deferred_free, alloc_list, survivors, head, node, next_object>>
    BY <1>FreeInBuffer DEF FreeInBuffer, Touch, Dead
  <2>2. QED
    BY <2>1, HandsKnown DEF ListsTyped, Object
<1>LoadOldHead. CASE LoadOldHead
  <2>1. /\ gcpc = "sweep" /\ (head' = IF survivors = {} THEN {} ELSE alloc_list[thread])
        /\ UNCHANGED <<freed, deferred_free, alloc_list, nodes, survivors, node, next_object>>
    BY <1>LoadOldHead DEF LoadOldHead
  <2>2. QED
    BY <2>1, HandsKnown DEF ListsTyped, Object, HasOld
<1>Prepend. CASE Prepend
  <2>1. /\ \/ /\ gcpc = "prepend" /\ alloc_list' = [alloc_list EXCEPT ![thread] = head \cup survivors]
              /\ survivors' = {} /\ head' = {}
           \/ gcpc = "prepend" /\ head' = alloc_list[thread] /\ UNCHANGED <<alloc_list, survivors>>
        /\ UNCHANGED <<freed, deferred_free, nodes, node, next_object>>
    BY <1>Prepend DEF Prepend
  <2>2. QED
    BY <2>1, HandsKnown DEF ListsTyped, Object, HasOld
<1>CompactThread. CASE CompactThread
  <2>1. PICK u \in left :
            /\ nodes' = alloc_list[u]
            /\ UNCHANGED <<freed, deferred_free, alloc_list, survivors, head, node, next_object>>
    BY <1>CompactThread DEF CompactThread
  <2>2. QED
    BY <2>1, HandsKnown DEF ListsTyped, Object
<1>Skip. CASE Skip
  <2>1. PICK n \in nodes :
            /\ nodes' = nodes \ {n}
            /\ UNCHANGED <<freed, deferred_free, alloc_list, survivors, head, node, next_object>>
    BY <1>Skip DEF Skip, Stays
  <2>2. QED
    BY <2>1, HandsKnown DEF ListsTyped, Object
<1>Copy. CASE Copy
  <2>1. PICK n \in nodes :
            /\ nodes' = nodes \ {n} /\ node' = n
            /\ UNCHANGED <<freed, deferred_free, alloc_list, survivors, head, next_object>>
    BY <1>Copy DEF Copy, Stays
  <2>2. QED
    BY <2>1, HandsKnown DEF ListsTyped, Object
<1>StoreHandle. CASE StoreHandle
  <2>1. /\ gcpc = "store"
        /\ (deferred_free' = IF flag_tlab[node] THEN deferred_free ELSE deferred_free \cup {node})
        /\ node' = 0 /\ UNCHANGED <<freed, alloc_list, nodes, survivors, head, next_object>>
    BY <1>StoreHandle DEF StoreHandle
  <2>2. QED
    BY <2>1, HandsKnown DEF ListsTyped, Object
<1>q. QED
  BY <1>b, <1>f, <1>t, <1>Cleanup, <1>Steal, <1>Keep, <1>FreeBlock, <1>FreeInBuffer, <1>LoadOldHead,
    <1>Prepend, <1>CompactThread, <1>Skip, <1>Copy, <1>StoreHandle, Keeps_alloc_list, Keeps_deferred_free,
        Keeps_freed, Keeps_head, Keeps_next_object, Keeps_node, Keeps_nodes, Keeps_survivors

LEMMA HeldTypedStep ==
  ASSUME Typed, CycleKnown, HeldTyped, ObjectsTyped, Step
  PROVE  HeldTyped'
<1>b. bound.threads \subseteq Threads
  BY BoundKnown DEF Typed, TypeOK
<1>f. CASE UNCHANGED <<held, next_object>>
  BY <1>f DEF HeldTyped, Object
<1>t. ASSUME NEW t \in Threads, t \in bound.threads, Publish(t) \/ Deref(t) \/ Write(t) \/ Safepoint(t)
      PROVE  HeldTyped'
  <2>Publish. CASE Publish(t)
    <3>1. UNCHANGED held /\ next_object' = next_object + 1
      BY <2>Publish DEF Publish
    <3>2. Object \subseteq Object'
      BY <3>1 DEF Object, ObjectsTyped
    <3>3. QED
      BY <3>1, <3>2 DEF HeldTyped
  <2>Deref. CASE Deref(t)
    <3>1. PICK n \in Object :
              held' = [held EXCEPT ![t] = [object |-> n, place |-> place[n]]] /\ UNCHANGED next_object
      BY <2>Deref DEF Deref, InUse
    <3>2. QED
      BY <3>1 DEF HeldTyped, NoHeld, Null, Object, ObjectsTyped
  <2>Write. CASE Write(t)
    <3>1. held' = [held EXCEPT ![t] = NoHeld] /\ UNCHANGED next_object
      BY <2>Write DEF Write
    <3>2. QED
      BY <3>1 DEF HeldTyped, NoHeld, Null, Object
  <2>Safepoint. CASE Safepoint(t)
    <3>1. held' = [held EXCEPT ![t] = NoHeld] /\ UNCHANGED next_object
      BY <2>Safepoint DEF Safepoint
    <3>2. QED
      BY <3>1 DEF HeldTyped, NoHeld, Null, Object
  <2>q. QED
    BY <1>t, <2>Publish, <2>Deref, <2>Write, <2>Safepoint
<1>q. QED
  BY <1>b, <1>f, <1>t, Keeps_held, Keeps_next_object

LEMMA CycleTypedStep ==
  ASSUME Typed, CycleKnown, CycleTyped, Step
  PROVE  CycleTyped'
<1>b. bound.threads \subseteq Threads
  BY BoundKnown DEF Typed, TypeOK
<1>n. bound.cycles \in Nat
  BY BoundKnown DEF CycleTyped
<1>f. CASE UNCHANGED <<bound, acked, left, gc_current_mark_value>>
  BY <1>f DEF CycleTyped
<1>t. ASSUME NEW t \in Threads, t \in bound.threads, Safepoint(t)
      PROVE  CycleTyped'
  <2>Safepoint. CASE Safepoint(t)
    <3>1. acked' = acked \cup {t} /\ UNCHANGED <<bound, left, gc_current_mark_value>>
      BY <2>Safepoint DEF Safepoint
    <3>2. QED
      BY <3>1 DEF CycleTyped
  <2>q. QED
    BY <1>t, <2>Safepoint
<1>Begin. CASE Begin
  <2>1. /\ gc_current_mark_value <= bound.cycles /\ acked' = {}
        /\ gc_current_mark_value' = gc_current_mark_value + 1 /\ UNCHANGED <<bound, left>>
    BY <1>Begin DEF Begin
  <2>2. QED
    BY <2>1, <1>n DEF CycleTyped
<1>Cleanup. CASE Cleanup
  <2>1. left' = bound.threads /\ UNCHANGED <<bound, acked, gc_current_mark_value>>
    BY <1>Cleanup DEF Cleanup
  <2>2. QED
    BY <2>1 DEF CycleTyped
<1>Steal. CASE Steal
  <2>1. /\ \/ \E u \in left : left' = left \ {u}
           \/ UNCHANGED left
        /\ UNCHANGED <<bound, acked, gc_current_mark_value>>
    BY <1>Steal DEF Steal
  <2>2. QED
    BY <2>1 DEF CycleTyped
<1>BeginCompact. CASE BeginCompact
  <2>1. /\ \/ \E fresh \in Buffer : left' = bound.threads
           \/ UNCHANGED left
        /\ UNCHANGED <<bound, acked, gc_current_mark_value>>
    BY <1>BeginCompact DEF BeginCompact, Map, MayFail
  <2>2. QED
    BY <2>1 DEF CycleTyped
<1>CompactThread. CASE CompactThread
  <2>1. PICK u \in left :
            left' = left \ {u} /\ UNCHANGED <<bound, acked, gc_current_mark_value>>
    BY <1>CompactThread DEF CompactThread
  <2>2. QED
    BY <2>1 DEF CycleTyped
<1>q. QED
  BY <1>b, <1>f, <1>t, <1>Begin, <1>Cleanup, <1>Steal, <1>BeginCompact, <1>CompactThread, Keeps_acked,
     Keeps_bound, Keeps_gc_current_mark_value, Keeps_left

LEMMA GcPcTypedStep ==
  ASSUME Typed, CycleKnown, GcPcTyped, Step
  PROVE  GcPcTyped'
<1>b. bound.threads \subseteq Threads
  BY BoundKnown DEF Typed, TypeOK
<1>f. CASE UNCHANGED <<gcpc>>
  BY <1>f DEF GcPcTyped
<1>Begin. CASE Begin
  BY <1>Begin DEF Begin, GcPcTyped
<1>Mark. CASE Mark
  BY <1>Mark DEF Mark, Marking, GcPcTyped
<1>Cleanup. CASE Cleanup
  BY <1>Cleanup DEF Cleanup, GcPcTyped
<1>Steal. CASE Steal
  BY <1>Steal DEF Steal, GcPcTyped
<1>FreeInBuffer. CASE FreeInBuffer
  BY <1>FreeInBuffer DEF FreeInBuffer, Touch, Dead, GcPcTyped
<1>LoadOldHead. CASE LoadOldHead
  BY <1>LoadOldHead DEF LoadOldHead, GcPcTyped
<1>Prepend. CASE Prepend
  BY <1>Prepend DEF Prepend, GcPcTyped
<1>Recheck. CASE Recheck
  BY <1>Recheck DEF Recheck, GcPcTyped
<1>IsCurrent. CASE IsCurrent
  BY <1>IsCurrent DEF IsCurrent, Back, GcPcTyped
<1>ResetBase. CASE ResetBase
  BY <1>ResetBase DEF ResetBase, GcPcTyped
<1>ResetCursor. CASE ResetCursor
  BY <1>ResetCursor DEF ResetCursor, GcPcTyped
<1>ResetLimit. CASE ResetLimit
  BY <1>ResetLimit DEF ResetLimit, Back, GcPcTyped
<1>BeginCompact. CASE BeginCompact
  BY <1>BeginCompact DEF BeginCompact, Map, MayFail, GcPcTyped
<1>Copy. CASE Copy
  BY <1>Copy DEF Copy, Stays, GcPcTyped
<1>StoreHandle. CASE StoreHandle
  BY <1>StoreHandle DEF StoreHandle, GcPcTyped
<1>Decrement. CASE Decrement
  BY <1>Decrement DEF Decrement, Touch, GcPcTyped
<1>RecheckOld. CASE RecheckOld
  BY <1>RecheckOld DEF RecheckOld, GcPcTyped
<1>Defer. CASE Defer
  BY <1>Defer DEF Defer, GcPcTyped
<1>EndCompact. CASE EndCompact
  BY <1>EndCompact DEF EndCompact, GcPcTyped
<1>q. QED
  BY <1>b, <1>f, <1>Begin, <1>Mark, <1>Cleanup, <1>Steal, <1>FreeInBuffer, <1>LoadOldHead,
    <1>Prepend, <1>Recheck, <1>IsCurrent, <1>ResetBase, <1>ResetCursor, <1>ResetLimit,
    <1>BeginCompact, <1>Copy, <1>StoreHandle, <1>Decrement, <1>RecheckOld, <1>Defer, <1>EndCompact,
    Keeps_gcpc

LEMMA CompactTypedStep ==
  ASSUME Typed, CycleKnown, CompactTyped, ListsTyped, ObjectsTyped, Step
  PROVE  CompactTyped'
<1>b. bound.threads \subseteq Threads
  BY BoundKnown DEF Typed, TypeOK
<1>f. CASE UNCHANGED <<gc_compacting, gc_dead_tlab_list, gc_compact_dead_tlab_list,
                gc_compact_dead_tlab_list_prev, prev_buffer, prev_prev_buffer, old, target, room>>
  BY <1>f DEF CompactTyped, ListsTyped, ObjectsTyped
<1>Cleanup. CASE Cleanup
  <2>1. /\ gc_compact_dead_tlab_list' = {} /\ gc_compact_dead_tlab_list_prev' = gc_compact_dead_tlab_list
        /\ UNCHANGED <<gc_compacting, gc_dead_tlab_list, prev_buffer, prev_prev_buffer, old, target, room>>
    BY <1>Cleanup DEF Cleanup
  <2>2. QED
    BY <2>1 DEF CompactTyped, ListsTyped, ObjectsTyped
<1>FreeInBuffer. CASE FreeInBuffer
  <2>1. /\ \/ \E n \in nodes : /\ node_base[n] # Null
                               /\ gc_dead_tlab_list' = gc_dead_tlab_list \cup {node_base[n]}
                               /\ old' = node_base[n]
           \/ \E n \in nodes : UNCHANGED <<gc_dead_tlab_list, old>>
        /\ UNCHANGED <<gc_compacting, gc_compact_dead_tlab_list, gc_compact_dead_tlab_list_prev, prev_buffer,
           prev_prev_buffer, target, room>>
    BY <1>FreeInBuffer DEF FreeInBuffer, Touch, Dead
  <2>2. QED
    BY <2>1 DEF CompactTyped, ListsTyped, ObjectsTyped
<1>Recheck. CASE Recheck
  <2>1. /\ gc_dead_tlab_list' = {}
        /\ gc_compact_dead_tlab_list' = gc_compact_dead_tlab_list \cup {d \in gc_dead_tlab_list : live_count[d] = 0}
        /\ UNCHANGED <<gc_compacting, gc_compact_dead_tlab_list_prev, prev_buffer, prev_prev_buffer, old,
           target, room>>
    BY <1>Recheck DEF Recheck
  <2>2. QED
    BY <2>1 DEF CompactTyped, ListsTyped, ObjectsTyped
<1>BeginCompact. CASE BeginCompact
  <2>1. /\ \/ \E fresh \in Buffer : gc_compacting' = 1 /\ target' = fresh /\ room' = Cardinality(Listed)
           \/ UNCHANGED <<gc_compacting, target, room>>
        /\ UNCHANGED <<gc_dead_tlab_list, gc_compact_dead_tlab_list, gc_compact_dead_tlab_list_prev,
           prev_buffer, prev_prev_buffer, old>>
    BY <1>BeginCompact DEF BeginCompact, Map, MayFail
  <2>2. QED
    BY <2>1, ListedFinite DEF CompactTyped, ListsTyped, ObjectsTyped
<1>Copy. CASE Copy
  <2>1. PICK n \in nodes :
            /\ room' = room - 1
            /\ UNCHANGED <<gc_compacting, gc_dead_tlab_list, gc_compact_dead_tlab_list,
               gc_compact_dead_tlab_list_prev, prev_buffer, prev_prev_buffer, old, target>>
    BY <1>Copy DEF Copy, Stays
  <2>2. QED
    BY <2>1 DEF CompactTyped, ListsTyped, ObjectsTyped
<1>StoreHandle. CASE StoreHandle
  <2>1. /\ gcpc = "store" /\ old' = node_base[node]
        /\ UNCHANGED <<gc_compacting, gc_dead_tlab_list, gc_compact_dead_tlab_list,
           gc_compact_dead_tlab_list_prev, prev_buffer, prev_prev_buffer, target, room>>
    BY <1>StoreHandle DEF StoreHandle
  <2>2. QED
    BY <2>1, HandsKnown DEF CompactTyped, ListsTyped, ObjectsTyped
<1>Defer. CASE Defer
  <2>1. /\ gcpc = "defer" /\ gc_compact_dead_tlab_list' = gc_compact_dead_tlab_list \cup {old}
        /\ UNCHANGED <<gc_compacting, gc_dead_tlab_list, gc_compact_dead_tlab_list_prev, prev_buffer,
           prev_prev_buffer, old, target, room>>
    BY <1>Defer DEF Defer
  <2>2. QED
    BY <2>1, HandsKnown DEF CompactTyped, ListsTyped, ObjectsTyped, HasOld
<1>EndCompact. CASE EndCompact
  <2>1. /\ gc_compacting' = 0 /\ old' = Null /\ target' = Null /\ room' = 0 /\ prev_buffer' = target
        /\ prev_prev_buffer' = prev_buffer
        /\ UNCHANGED <<gc_dead_tlab_list, gc_compact_dead_tlab_list, gc_compact_dead_tlab_list_prev>>
    BY <1>EndCompact DEF EndCompact
  <2>2. QED
    BY <2>1 DEF CompactTyped, ListsTyped, ObjectsTyped
<1>q. QED
  BY <1>b, <1>f, <1>Cleanup, <1>FreeInBuffer, <1>Recheck, <1>BeginCompact, <1>Copy, <1>StoreHandle,
    <1>Defer, <1>EndCompact, Keeps_gc_compact_dead_tlab_list, Keeps_gc_compact_dead_tlab_list_prev,
        Keeps_gc_compacting, Keeps_gc_dead_tlab_list, Keeps_old, Keeps_prev_buffer, Keeps_prev_prev_buffer,
            Keeps_room, Keeps_target

LEMMA TypedStep ==
  ASSUME Typed, CycleKnown, Step
  PROVE  Typed'
<1>1. /\ MemoryTyped /\ HistoryTyped /\ FieldsTyped /\ CursorsTyped /\ FlagsTyped /\ PcTyped
      /\ RefillTyped /\ ObjectsTyped /\ ListsTyped /\ HeldTyped /\ CycleTyped /\ GcPcTyped
      /\ CompactTyped
  BY TypesSplit
<1>2. MemoryTyped' /\ HistoryTyped' /\ FieldsTyped' /\ CursorsTyped' /\ FlagsTyped' /\ PcTyped'
  BY <1>1, MemoryTypedStep, HistoryTypedStep, FieldsTypedStep, CursorsTypedStep, FlagsTypedStep,
     PcTypedStep
<1>3. RefillTyped' /\ ObjectsTyped' /\ ListsTyped' /\ HeldTyped' /\ CycleTyped' /\ GcPcTyped' /\ CompactTyped'
  BY <1>1, RefillTypedStep, ObjectsTypedStep, ListsTypedStep, HeldTypedStep, CycleTypedStep,
     GcPcTypedStep, CompactTypedStep
<1>4. (/\ MemoryTyped /\ HistoryTyped /\ FieldsTyped /\ CursorsTyped /\ FlagsTyped /\ PcTyped
       /\ RefillTyped /\ ObjectsTyped /\ ListsTyped /\ HeldTyped /\ CycleTyped /\ GcPcTyped
       /\ CompactTyped)'
  BY <1>2, <1>3
<1>5. (Typed <=> /\ MemoryTyped /\ HistoryTyped /\ FieldsTyped /\ CursorsTyped /\ FlagsTyped /\ PcTyped
                 /\ RefillTyped /\ ObjectsTyped /\ ListsTyped /\ HeldTyped /\ CycleTyped /\ GcPcTyped
                 /\ CompactTyped)'
  BY TypesSplit, PTL
<1>6. QED
  BY <1>4, <1>5

-----------------------------------------------------------------------------
(* Where the collector is.                                                 *)

LEMMA CycleStep ==
  ASSUME Typed, CycleKnown, Step
  PROVE  CycleKnown'
<1>b. bound.threads \subseteq Threads
  BY BoundKnown DEF Typed, TypeOK
<1>c. \A b \in Buffer : b # Null
  BY DEF Buffer, Null
<1>d. (gc_compacting = 0 \/ gc_compacting = 1) /\ left \subseteq bound.threads
  BY TypesSplit DEF CompactTyped, CycleTyped
<1>e. \A o \in nodes : o # 0
  BY TypesSplit DEF ListsTyped, Object
<1>f. CASE UNCHANGED <<gc_compacting, target, gcpc, node, old, acked, bound, nodes, thread,
                left, survivors, gc_dead_tlab_list, gc_compact_dead_tlab_list>>
  BY <1>f DEF CycleKnown, HasOld, Taking, Copying
<1>t. ASSUME NEW t \in Threads, t \in bound.threads, Safepoint(t)
      PROVE  CycleKnown'
  <2>Safepoint. CASE Safepoint(t)
    <3>1. /\ pc[t] = "idle" /\ gcpc = "wait" /\ t \notin acked /\ acked' = acked \cup {t}
          /\ UNCHANGED <<gc_compacting, target, gcpc, node, old, bound, nodes, thread, left, survivors,
             gc_dead_tlab_list, gc_compact_dead_tlab_list>>
      BY <2>Safepoint DEF Safepoint
    <3>2. QED
      BY <3>1 DEF CycleKnown, HasOld, Taking, Copying
  <2>q. QED
    BY <1>t, <2>Safepoint
<1>moves. CASE Mark \/ LoadOldHead \/ ResetBase \/ ResetCursor \/ Decrement \/ RecheckOld
  <2>1. UNCHANGED <<gc_compacting, target, node, old, acked, bound, nodes, thread, left, survivors,
            gc_dead_tlab_list, gc_compact_dead_tlab_list>>
    BY <1>moves, SweepLeaves, ReleaseLeaves, CompactLeaves
  <2>2. QED
    BY <1>moves, <2>1, SweepMoves, CompactMoves DEF CycleKnown, HasOld, Taking, Copying
<1>Begin. CASE Begin
  <2>1. /\ gcpc = "idle" /\ gc_current_mark_value <= bound.cycles /\ gcpc' = "wait" /\ acked' = {}
        /\ UNCHANGED <<gc_compacting, target, node, old, bound, nodes, thread, left, survivors,
           gc_dead_tlab_list, gc_compact_dead_tlab_list>>
    BY <1>Begin DEF Begin
  <2>2. QED
    BY <2>1 DEF CycleKnown, HasOld, Taking, Copying
<1>Cleanup. CASE Cleanup
  <2>1. /\ gcpc = "cleanup" /\ gcpc' = "steal" /\ left' = bound.threads /\ gc_compact_dead_tlab_list' = {}
        /\ UNCHANGED <<gc_compacting, target, node, old, acked, bound, nodes, thread, survivors,
           gc_dead_tlab_list>>
    BY <1>Cleanup DEF Cleanup
  <2>2. QED
    BY <2>1 DEF CycleKnown, HasOld, Taking, Copying
<1>Steal. CASE Steal
  <2>1. /\ \/ \E u \in left : /\ gcpc = "steal" /\ gcpc' = "sweep" /\ left' = left \ {u} /\ thread' = u
                              /\ nodes' = alloc_list[u] /\ survivors' = {}
           \/ gcpc = "steal" /\ left = {} /\ gcpc' = "recheck" /\ UNCHANGED <<left, thread, nodes, survivors>>
        /\ UNCHANGED <<gc_compacting, target, node, old, acked, bound, gc_dead_tlab_list,
           gc_compact_dead_tlab_list>>
    BY <1>Steal DEF Steal
  <2>2. QED
    BY <2>1, <1>d DEF CycleKnown, HasOld, Taking, Copying
<1>Keep. CASE Keep
  <2>1. PICK n \in nodes :
            /\ gcpc = "sweep" /\ ~Dead(n) /\ nodes' = nodes \ {n} /\ survivors' = survivors \cup {n}
            /\ UNCHANGED <<gc_compacting, target, gcpc, node, old, acked, bound, thread, left,
               gc_dead_tlab_list, gc_compact_dead_tlab_list>>
    BY <1>Keep DEF Keep, Dead
  <2>2. QED
    BY <2>1, <1>d DEF CycleKnown, HasOld, Taking, Copying
<1>FreeBlock. CASE FreeBlock
  <2>1. PICK n \in nodes :
            /\ gcpc = "sweep" /\ Dead(n) /\ ~flag_tlab[n] /\ nodes' = nodes \ {n}
            /\ UNCHANGED <<gc_compacting, target, gcpc, node, old, acked, bound, thread, left, survivors,
               gc_dead_tlab_list, gc_compact_dead_tlab_list>>
    BY <1>FreeBlock DEF FreeBlock, Dead
  <2>2. QED
    BY <2>1 DEF CycleKnown, HasOld, Taking, Copying
<1>FreeInBuffer. CASE FreeInBuffer
  <2>1. /\ \/ \E n \in nodes : /\ gcpc = "sweep" /\ Dead(n) /\ flag_tlab[n] /\ node_base[n] # Null
                               /\ live_count'[node_base[n]] = 0 /\ gcpc' = "current" /\ nodes' = nodes \ {n}
                               /\ gc_dead_tlab_list' = gc_dead_tlab_list \cup {node_base[n]}
                               /\ old' = node_base[n]
           \/ \E n \in nodes : /\ gcpc = "sweep" /\ Dead(n) /\ flag_tlab[n]
                               /\ (node_base[n] = Null \/ live_count'[node_base[n]] # 0)
                               /\ nodes' = nodes \ {n} /\ UNCHANGED <<gcpc, gc_dead_tlab_list, old>>
        /\ UNCHANGED <<gc_compacting, target, node, acked, bound, thread, left, survivors,
           gc_compact_dead_tlab_list>>
    BY <1>FreeInBuffer DEF FreeInBuffer, Touch, Dead
  <2>2. QED
    BY <2>1, <1>c, <1>d DEF CycleKnown, HasOld, Taking, Copying
<1>Prepend. CASE Prepend
  <2>1. /\ \/ gcpc = "prepend" /\ alloc_list[thread] = head /\ gcpc' = "steal" /\ survivors' = {}
           \/ gcpc = "prepend" /\ UNCHANGED <<gcpc, survivors>>
        /\ UNCHANGED <<gc_compacting, target, node, old, acked, bound, nodes, thread, left,
           gc_dead_tlab_list, gc_compact_dead_tlab_list>>
    BY <1>Prepend DEF Prepend
  <2>2. QED
    BY <2>1 DEF CycleKnown, HasOld, Taking, Copying
<1>Recheck. CASE Recheck
  <2>1. /\ gcpc = "recheck" /\ gcpc' = "size" /\ gc_dead_tlab_list' = {}
        /\ gc_compact_dead_tlab_list' = gc_compact_dead_tlab_list \cup {d \in gc_dead_tlab_list : live_count[d] = 0}
        /\ UNCHANGED <<gc_compacting, target, node, old, acked, bound, nodes, thread, left, survivors>>
    BY <1>Recheck DEF Recheck
  <2>2. QED
    BY <2>1 DEF CycleKnown, HasOld, Taking, Copying
<1>IsCurrent. CASE IsCurrent
  <2>1. /\ gcpc = "current" /\ (gcpc' = IF tlab_base[thread] = old THEN "reset_base" ELSE Back)
        /\ UNCHANGED <<gc_compacting, target, node, old, acked, bound, nodes, thread, left, survivors,
           gc_dead_tlab_list, gc_compact_dead_tlab_list>>
    BY <1>IsCurrent DEF IsCurrent, Back
  <2>2. QED
    BY <2>1, <1>d DEF CycleKnown, HasOld, Taking, Copying, Back
<1>ResetLimit. CASE ResetLimit
  <2>1. /\ gcpc = "reset_limit" /\ gcpc' = Back
        /\ UNCHANGED <<gc_compacting, target, node, old, acked, bound, nodes, thread, left, survivors,
           gc_dead_tlab_list, gc_compact_dead_tlab_list>>
    BY <1>ResetLimit DEF ResetLimit, Back
  <2>2. QED
    BY <2>1, <1>d DEF CycleKnown, HasOld, Taking, Copying, Back
<1>BeginCompact. CASE BeginCompact
  <2>1. /\ \/ \E fresh \in Buffer : /\ gcpc = "size" /\ Listed # {} /\ allotted < MaxBuffers
                                    /\ fresh = allotted + 1 /\ gcpc' = "copy" /\ gc_compacting' = 1
                                    /\ left' = bound.threads /\ target' = fresh
           \/ gcpc = "size" /\ gcpc' = "idle" /\ UNCHANGED <<gc_compacting, left, target>>
        /\ UNCHANGED <<node, old, acked, bound, nodes, thread, survivors, gc_dead_tlab_list,
           gc_compact_dead_tlab_list>>
    BY <1>BeginCompact DEF BeginCompact, Map, MayFail
  <2>2. QED
    BY <2>1, <1>c DEF CycleKnown, HasOld, Taking, Copying
<1>CompactThread. CASE CompactThread
  <2>1. PICK u \in left :
            /\ gcpc = "copy" /\ nodes = {} /\ left' = left \ {u} /\ thread' = u /\ nodes' = alloc_list[u]
            /\ UNCHANGED <<gc_compacting, target, gcpc, node, old, acked, bound, survivors,
               gc_dead_tlab_list, gc_compact_dead_tlab_list>>
    BY <1>CompactThread DEF CompactThread
  <2>2. QED
    BY <2>1, <1>d DEF CycleKnown, HasOld, Taking, Copying
<1>Skip. CASE Skip
  <2>1. PICK n \in nodes :
            /\ gcpc = "copy" /\ Stays(n) /\ nodes' = nodes \ {n}
            /\ UNCHANGED <<gc_compacting, target, gcpc, node, old, acked, bound, thread, left, survivors,
               gc_dead_tlab_list, gc_compact_dead_tlab_list>>
    BY <1>Skip DEF Skip, Stays
  <2>2. QED
    BY <2>1 DEF CycleKnown, HasOld, Taking, Copying
<1>Copy. CASE Copy
  <2>1. PICK n \in nodes :
            /\ gcpc = "copy" /\ ~Stays(n) /\ gcpc' = "store" /\ nodes' = nodes \ {n} /\ node' = n
            /\ UNCHANGED <<gc_compacting, target, old, acked, bound, thread, left, survivors,
               gc_dead_tlab_list, gc_compact_dead_tlab_list>>
    BY <1>Copy DEF Copy, Stays
  <2>2. QED
    BY <2>1, <1>e DEF CycleKnown, HasOld, Taking, Copying
<1>StoreHandle. CASE StoreHandle
  <2>1. /\ gcpc = "store"
        /\ (gcpc' = IF flag_tlab[node] /\ node_base[node] # Null THEN "decrement" ELSE "copy") /\ node' = 0
        /\ old' = node_base[node]
        /\ UNCHANGED <<gc_compacting, target, acked, bound, nodes, thread, left, survivors,
           gc_dead_tlab_list, gc_compact_dead_tlab_list>>
    BY <1>StoreHandle DEF StoreHandle
  <2>2. QED
    BY <2>1 DEF CycleKnown, HasOld, Taking, Copying
<1>Defer. CASE Defer
  <2>1. /\ gcpc = "defer" /\ gcpc' = "copy"
        /\ gc_compact_dead_tlab_list' = gc_compact_dead_tlab_list \cup {old}
        /\ UNCHANGED <<gc_compacting, target, node, old, acked, bound, nodes, thread, left, survivors,
           gc_dead_tlab_list>>
    BY <1>Defer DEF Defer
  <2>2. QED
    BY <2>1 DEF CycleKnown, HasOld, Taking, Copying
<1>EndCompact. CASE EndCompact
  <2>1. /\ gcpc = "copy" /\ nodes = {} /\ left = {} /\ gcpc' = "idle" /\ gc_compacting' = 0 /\ old' = Null
        /\ target' = Null
        /\ UNCHANGED <<node, acked, bound, nodes, thread, left, survivors, gc_dead_tlab_list,
           gc_compact_dead_tlab_list>>
    BY <1>EndCompact DEF EndCompact
  <2>2. QED
    BY <2>1 DEF CycleKnown, HasOld, Taking, Copying
<1>q. QED
  BY <1>b, <1>f, <1>t, <1>moves, <1>Begin, <1>Cleanup, <1>Steal, <1>Keep, <1>FreeBlock,
    <1>FreeInBuffer, <1>Prepend, <1>Recheck, <1>IsCurrent, <1>ResetLimit, <1>BeginCompact,
    <1>CompactThread, <1>Skip, <1>Copy, <1>StoreHandle, <1>Defer, <1>EndCompact, Keeps_acked, Keeps_bound,
        Keeps_gc_compact_dead_tlab_list, Keeps_gc_compacting, Keeps_gc_dead_tlab_list, Keeps_gcpc,
            Keeps_left, Keeps_node, Keeps_nodes, Keeps_old, Keeps_survivors, Keeps_target, Keeps_thread

(* Threads beyond the bound.                                               *)
IdleBeyond == \A t \in Threads \ bound.threads : pc[t] = "idle"
BareBeyond == \A t \in Threads \ bound.threads : alloc_list[t] = {}
FreeBeyond == \A t \in Threads \ bound.threads : held[t] = NoHeld
Busy       == {u \in Threads : pc[u] # "idle"}
InBudget   == next_object - 1 + Cardinality(Busy) <= bound.objects

LEMMA BudgetSplit == Budget <=> IdleBeyond /\ BareBeyond /\ FreeBeyond /\ InBudget
BY DEF Budget, IdleBeyond, BareBeyond, FreeBeyond, Busy, InBudget

LEMMA BusyFinite == IsFiniteSet(Busy) /\ Cardinality(Busy) \in Nat
<1>1. IsFiniteSet(Threads)
  BY HeapAssumption
<1>2. Busy \subseteq Threads
  BY DEF Busy
<1>3. QED
  BY <1>1, <1>2, FS_Subset, FS_CardinalityType

LEMMA IdleStep ==
  ASSUME Typed, IdleBeyond, Step
  PROVE  IdleBeyond'
<1>b. bound.threads \subseteq Threads
  BY BoundKnown DEF Typed, TypeOK
<1>f. CASE UNCHANGED <<pc, bound>>
  BY <1>f DEF IdleBeyond
<1>t. ASSUME NEW t \in Threads, t \in bound.threads,
               Start(t) \/ LoadLimit(t) \/ LoadCursor(t) \/ CasCursor(t) \/ LoadBase(t) \/ Malloc(t)
             \/ Count(t) \/ Publish(t) \/ Refill(t) \/ RefillFails(t) \/ StoreBase(t) \/
             StoreCursor(t) \/ StoreLimit(t)
      PROVE  IdleBeyond'
  <2>Start. CASE Start(t)
    <3>1. pc' = [pc EXCEPT ![t] = "limit"] /\ UNCHANGED bound
      BY <2>Start DEF Start
    <3>2. QED
      BY <3>1, <1>t DEF IdleBeyond
  <2>LoadLimit. CASE LoadLimit(t)
    <3>1. pc' = [pc EXCEPT ![t] = "cursor"] /\ UNCHANGED bound
      BY <2>LoadLimit DEF LoadLimit
    <3>2. QED
      BY <3>1, <1>t DEF IdleBeyond
  <2>LoadCursor. CASE LoadCursor(t)
    <3>1. /\ pc' = [pc EXCEPT ![t] = IF HasSpace(t) THEN "cas" ELSE IF tried[t] THEN "malloc" ELSE "refill"]
          /\ UNCHANGED bound
      BY <2>LoadCursor DEF LoadCursor, HasSpace
    <3>2. QED
      BY <3>1, <1>t DEF IdleBeyond
  <2>CasCursor. CASE CasCursor(t)
    <3>1. /\ \/ pc' = [pc EXCEPT ![t] = "base"]
             \/ pc' = [pc EXCEPT ![t] = "cursor"]
          /\ UNCHANGED bound
      BY <2>CasCursor DEF CasCursor
    <3>2. ASSUME pc' = [pc EXCEPT ![t] = "base"]
          PROVE  IdleBeyond'
      BY <3>1, <3>2, <1>t DEF IdleBeyond
    <3>3. ASSUME pc' = [pc EXCEPT ![t] = "cursor"]
          PROVE  IdleBeyond'
      BY <3>1, <3>3, <1>t DEF IdleBeyond
    <3>4. QED
      BY <3>1, <3>2, <3>3
  <2>LoadBase. CASE LoadBase(t)
    <3>1. pc' = [pc EXCEPT ![t] = "count"] /\ UNCHANGED bound
      BY <2>LoadBase DEF LoadBase
    <3>2. QED
      BY <3>1, <1>t DEF IdleBeyond
  <2>Malloc. CASE Malloc(t)
    <3>1. pc' = [pc EXCEPT ![t] = "count"] /\ UNCHANGED bound
      BY <2>Malloc DEF Malloc
    <3>2. QED
      BY <3>1, <1>t DEF IdleBeyond
  <2>Count. CASE Count(t)
    <3>1. /\ \/ pc' = [pc EXCEPT ![t] = "publish"]
             \/ pc' = [pc EXCEPT ![t] = "publish"]
          /\ UNCHANGED bound
      BY <2>Count DEF Count, Touch
    <3>2. ASSUME pc' = [pc EXCEPT ![t] = "publish"]
          PROVE  IdleBeyond'
      BY <3>1, <3>2, <1>t DEF IdleBeyond
    <3>3. ASSUME pc' = [pc EXCEPT ![t] = "publish"]
          PROVE  IdleBeyond'
      BY <3>1, <3>3, <1>t DEF IdleBeyond
    <3>4. QED
      BY <3>1, <3>2, <3>3
  <2>Publish. CASE Publish(t)
    <3>1. pc' = [pc EXCEPT ![t] = "idle"] /\ UNCHANGED bound
      BY <2>Publish DEF Publish
    <3>2. QED
      BY <3>1, <1>t DEF IdleBeyond
  <2>Refill. CASE Refill(t)
    <3>1. PICK fresh \in Buffer :
              pc' = [pc EXCEPT ![t] = "store_base"] /\ UNCHANGED bound
      BY <2>Refill DEF Refill, Map
    <3>2. QED
      BY <3>1, <1>t DEF IdleBeyond
  <2>RefillFails. CASE RefillFails(t)
    <3>1. pc' = [pc EXCEPT ![t] = "limit"] /\ UNCHANGED bound
      BY <2>RefillFails DEF RefillFails, MayFail
    <3>2. QED
      BY <3>1, <1>t DEF IdleBeyond
  <2>StoreBase. CASE StoreBase(t)
    <3>1. pc' = [pc EXCEPT ![t] = "store_cursor"] /\ UNCHANGED bound
      BY <2>StoreBase DEF StoreBase
    <3>2. QED
      BY <3>1, <1>t DEF IdleBeyond
  <2>StoreCursor. CASE StoreCursor(t)
    <3>1. pc' = [pc EXCEPT ![t] = "store_limit"] /\ UNCHANGED bound
      BY <2>StoreCursor DEF StoreCursor
    <3>2. QED
      BY <3>1, <1>t DEF IdleBeyond
  <2>StoreLimit. CASE StoreLimit(t)
    <3>1. pc' = [pc EXCEPT ![t] = "limit"] /\ UNCHANGED bound
      BY <2>StoreLimit DEF StoreLimit
    <3>2. QED
      BY <3>1, <1>t DEF IdleBeyond
  <2>q. QED
    BY <1>t, <2>Start, <2>LoadLimit, <2>LoadCursor, <2>CasCursor, <2>LoadBase, <2>Malloc, <2>Count,
      <2>Publish, <2>Refill, <2>RefillFails, <2>StoreBase, <2>StoreCursor, <2>StoreLimit
<1>q. QED
  BY <1>b, <1>f, <1>t, Keeps_bound, Keeps_pc

LEMMA BareStep ==
  ASSUME Typed, CycleKnown, BareBeyond, ListsTyped, Step
  PROVE  BareBeyond'
<1>b. bound.threads \subseteq Threads
  BY BoundKnown DEF Typed, TypeOK
<1>l. left \subseteq bound.threads
  BY DEF Typed, TypesKnown
<1>f. CASE UNCHANGED <<alloc_list, bound>>
  BY <1>f DEF BareBeyond, ListsTyped, CycleKnown
<1>t. ASSUME NEW t \in Threads, t \in bound.threads, Publish(t)
      PROVE  BareBeyond'
  <2>Publish. CASE Publish(t)
    <3>1. alloc_list' = [alloc_list EXCEPT ![t] = @ \cup {next_object}] /\ UNCHANGED bound
      BY <2>Publish DEF Publish
    <3>2. QED
      BY <3>1, <1>t DEF BareBeyond, ListsTyped, CycleKnown
  <2>q. QED
    BY <1>t, <2>Publish
<1>Steal. CASE Steal
  <2>1. /\ \/ \E u \in left : alloc_list' = [alloc_list EXCEPT ![u] = {}]
           \/ UNCHANGED alloc_list
        /\ UNCHANGED bound
    BY <1>Steal DEF Steal
  <2>2. QED
    BY <2>1, <1>l DEF BareBeyond, ListsTyped, CycleKnown
<1>Prepend. CASE Prepend
  <2>1. /\ \/ gcpc = "prepend" /\ alloc_list' = [alloc_list EXCEPT ![thread] = head \cup survivors]
           \/ gcpc = "prepend" /\ UNCHANGED alloc_list
        /\ UNCHANGED bound
    BY <1>Prepend DEF Prepend
  <2>2. QED
    BY <2>1 DEF BareBeyond, ListsTyped, CycleKnown, HasOld
<1>q. QED
  BY <1>b, <1>f, <1>t, <1>Steal, <1>Prepend, Keeps_alloc_list, Keeps_bound

LEMMA FreeStep ==
  ASSUME Typed, FreeBeyond, Step
  PROVE  FreeBeyond'
<1>b. bound.threads \subseteq Threads
  BY BoundKnown DEF Typed, TypeOK
<1>f. CASE UNCHANGED <<held, bound>>
  BY <1>f DEF FreeBeyond
<1>t. ASSUME NEW t \in Threads, t \in bound.threads, Deref(t) \/ Write(t) \/ Safepoint(t)
      PROVE  FreeBeyond'
  <2>Deref. CASE Deref(t)
    <3>1. PICK n \in Object :
              held' = [held EXCEPT ![t] = [object |-> n, place |-> place[n]]] /\ UNCHANGED bound
      BY <2>Deref DEF Deref, InUse
    <3>2. QED
      BY <3>1, <1>t DEF FreeBeyond
  <2>Write. CASE Write(t)
    <3>1. held' = [held EXCEPT ![t] = NoHeld] /\ UNCHANGED bound
      BY <2>Write DEF Write
    <3>2. QED
      BY <3>1, <1>t DEF FreeBeyond
  <2>Safepoint. CASE Safepoint(t)
    <3>1. held' = [held EXCEPT ![t] = NoHeld] /\ UNCHANGED bound
      BY <2>Safepoint DEF Safepoint
    <3>2. QED
      BY <3>1, <1>t DEF FreeBeyond
  <2>q. QED
    BY <1>t, <2>Deref, <2>Write, <2>Safepoint
<1>q. QED
  BY <1>b, <1>f, <1>t, Keeps_bound, Keeps_held

LEMMA InBudgetStep ==
  ASSUME Typed, InBudget, Step
  PROVE  InBudget'
<1>b. bound.threads \subseteq Threads
  BY BoundKnown DEF Typed, TypeOK
<1>n. next_object \in Nat \ {0} /\ bound.objects \in Nat
  BY BoundKnown DEF Typed, TypesKnown, TypeOK
<1>p. pc = [u \in Threads |-> pc[u]]
  BY TypesSplit DEF PcTyped
<1>f. CASE UNCHANGED <<pc, next_object, bound>>
  BY <1>f DEF InBudget, Busy
<1>t. ASSUME NEW t \in Threads, t \in bound.threads,
               Start(t) \/ LoadLimit(t) \/ LoadCursor(t) \/ CasCursor(t) \/ LoadBase(t) \/ Malloc(t)
             \/ Count(t) \/ Publish(t) \/ Refill(t) \/ RefillFails(t) \/ StoreBase(t) \/
             StoreCursor(t) \/ StoreLimit(t)
      PROVE  InBudget'
  <2>Start. CASE Start(t)
    <3>1. /\ next_object + Cardinality(Busy) <= bound.objects /\ pc[t] = "idle"
          /\ pc' = [pc EXCEPT ![t] = "limit"] /\ UNCHANGED <<next_object, bound>>
      BY <2>Start DEF Start, Busy
    <3>2. Busy' = Busy \cup {t} /\ t \notin Busy
      BY <3>1, <1>p DEF Busy
    <3>3. Cardinality(Busy') = Cardinality(Busy) + 1
      BY <3>2, BusyFinite, FS_AddElement
    <3>4. QED
      BY <3>1, <3>3, BusyFinite, <1>n DEF InBudget
  <2>LoadLimit. CASE LoadLimit(t)
    <3>1. /\ pc[t] = "limit" /\ (\A u \in Threads \ {t} : pc'[u] = pc[u]) /\ pc'[t] # "idle"
          /\ UNCHANGED <<next_object, bound>>
      BY <2>LoadLimit, <1>p DEF LoadLimit
    <3>2. Busy' = Busy
      BY <3>1 DEF Busy
    <3>3. QED
      BY <3>1, <3>2 DEF InBudget
  <2>LoadCursor. CASE LoadCursor(t)
    <3>1. /\ pc[t] = "cursor" /\ (\A u \in Threads \ {t} : pc'[u] = pc[u]) /\ pc'[t] # "idle"
          /\ UNCHANGED <<next_object, bound>>
      BY <2>LoadCursor, <1>p DEF LoadCursor, HasSpace
    <3>2. Busy' = Busy
      BY <3>1 DEF Busy
    <3>3. QED
      BY <3>1, <3>2 DEF InBudget
  <2>CasCursor. CASE CasCursor(t)
    <3>1. /\ pc[t] = "cas" /\ (\A u \in Threads \ {t} : pc'[u] = pc[u]) /\ pc'[t] # "idle"
          /\ UNCHANGED <<next_object, bound>>
      BY <2>CasCursor, <1>p DEF CasCursor
    <3>2. Busy' = Busy
      BY <3>1 DEF Busy
    <3>3. QED
      BY <3>1, <3>2 DEF InBudget
  <2>LoadBase. CASE LoadBase(t)
    <3>1. /\ pc[t] = "base" /\ (\A u \in Threads \ {t} : pc'[u] = pc[u]) /\ pc'[t] # "idle"
          /\ UNCHANGED <<next_object, bound>>
      BY <2>LoadBase, <1>p DEF LoadBase
    <3>2. Busy' = Busy
      BY <3>1 DEF Busy
    <3>3. QED
      BY <3>1, <3>2 DEF InBudget
  <2>Malloc. CASE Malloc(t)
    <3>1. /\ pc[t] = "malloc" /\ (\A u \in Threads \ {t} : pc'[u] = pc[u]) /\ pc'[t] # "idle"
          /\ UNCHANGED <<next_object, bound>>
      BY <2>Malloc, <1>p DEF Malloc
    <3>2. Busy' = Busy
      BY <3>1 DEF Busy
    <3>3. QED
      BY <3>1, <3>2 DEF InBudget
  <2>Count. CASE Count(t)
    <3>1. /\ pc[t] = "count" /\ (\A u \in Threads \ {t} : pc'[u] = pc[u]) /\ pc'[t] # "idle"
          /\ UNCHANGED <<next_object, bound>>
      BY <2>Count, <1>p DEF Count, Touch
    <3>2. Busy' = Busy
      BY <3>1 DEF Busy
    <3>3. QED
      BY <3>1, <3>2 DEF InBudget
  <2>Publish. CASE Publish(t)
    <3>1. /\ next_object' = next_object + 1 /\ pc[t] = "publish"
          /\ pc' = [pc EXCEPT ![t] = "idle"] /\ UNCHANGED bound
      BY <2>Publish DEF Publish
    <3>2. Busy' = Busy \ {t} /\ t \in Busy
      BY <3>1, <1>p DEF Busy
    <3>3. Cardinality(Busy') = Cardinality(Busy) - 1
      BY <3>2, BusyFinite, FS_RemoveElement
    <3>4. QED
      BY <3>1, <3>3, BusyFinite, <1>n DEF InBudget
  <2>Refill. CASE Refill(t)
    <3>1. /\ pc[t] = "refill" /\ (\A u \in Threads \ {t} : pc'[u] = pc[u]) /\ pc'[t] # "idle"
          /\ UNCHANGED <<next_object, bound>>
      BY <2>Refill, <1>p DEF Refill, Map
    <3>2. Busy' = Busy
      BY <3>1 DEF Busy
    <3>3. QED
      BY <3>1, <3>2 DEF InBudget
  <2>RefillFails. CASE RefillFails(t)
    <3>1. /\ pc[t] = "refill" /\ (\A u \in Threads \ {t} : pc'[u] = pc[u]) /\ pc'[t] # "idle"
          /\ UNCHANGED <<next_object, bound>>
      BY <2>RefillFails, <1>p DEF RefillFails, MayFail
    <3>2. Busy' = Busy
      BY <3>1 DEF Busy
    <3>3. QED
      BY <3>1, <3>2 DEF InBudget
  <2>StoreBase. CASE StoreBase(t)
    <3>1. /\ pc[t] = "store_base" /\ (\A u \in Threads \ {t} : pc'[u] = pc[u]) /\ pc'[t] # "idle"
          /\ UNCHANGED <<next_object, bound>>
      BY <2>StoreBase, <1>p DEF StoreBase
    <3>2. Busy' = Busy
      BY <3>1 DEF Busy
    <3>3. QED
      BY <3>1, <3>2 DEF InBudget
  <2>StoreCursor. CASE StoreCursor(t)
    <3>1. /\ pc[t] = "store_cursor" /\ (\A u \in Threads \ {t} : pc'[u] = pc[u]) /\ pc'[t] # "idle"
          /\ UNCHANGED <<next_object, bound>>
      BY <2>StoreCursor, <1>p DEF StoreCursor
    <3>2. Busy' = Busy
      BY <3>1 DEF Busy
    <3>3. QED
      BY <3>1, <3>2 DEF InBudget
  <2>StoreLimit. CASE StoreLimit(t)
    <3>1. /\ pc[t] = "store_limit" /\ (\A u \in Threads \ {t} : pc'[u] = pc[u]) /\ pc'[t] # "idle"
          /\ UNCHANGED <<next_object, bound>>
      BY <2>StoreLimit, <1>p DEF StoreLimit
    <3>2. Busy' = Busy
      BY <3>1 DEF Busy
    <3>3. QED
      BY <3>1, <3>2 DEF InBudget
  <2>q. QED
    BY <1>t, <2>Start, <2>LoadLimit, <2>LoadCursor, <2>CasCursor, <2>LoadBase, <2>Malloc, <2>Count,
      <2>Publish, <2>Refill, <2>RefillFails, <2>StoreBase, <2>StoreCursor, <2>StoreLimit
<1>q. QED
  BY <1>b, <1>f, <1>t, Keeps_bound, Keeps_next_object, Keeps_pc

LEMMA ListsApartStep ==
  ASSUME Typed, CycleKnown, ListsApart, ListsTyped, Step
  PROVE  ListsApart'
<1>b. bound.threads \subseteq Threads
  BY BoundKnown DEF Typed, TypeOK
<1>d. gc_compacting = 0 \/ gc_compacting = 1
  BY TypesSplit DEF CompactTyped
<1>l. \A t \in left : t \in Threads
  BY HandsKnown
<1>f. CASE UNCHANGED <<alloc_list, nodes, survivors, gc_compacting, gcpc, thread, left, node>>
  BY <1>f DEF ListsApart, ListsTyped
<1>t. ASSUME NEW t \in Threads, t \in bound.threads, Publish(t)
      PROVE  ListsApart'
  <2>Publish. CASE Publish(t)
    <3>1. /\ alloc_list' = [alloc_list EXCEPT ![t] = @ \cup {next_object}]
          /\ UNCHANGED <<nodes, survivors, gc_compacting, gcpc, thread, left, node>>
      BY <2>Publish DEF Publish
    <3>2. next_object \notin Object
      BY TypesSplit DEF ObjectsTyped, Object
    <3>3. QED
      BY <3>1, <3>2 DEF ListsApart, ListsTyped
  <2>q. QED
    BY <1>t, <2>Publish
<1>moves. CASE Begin \/ Mark \/ LoadOldHead \/ Recheck \/ ResetBase \/ ResetCursor \/ Decrement \/
               RecheckOld \/ Defer
  <2>1. UNCHANGED <<alloc_list, nodes, survivors, gc_compacting, thread, left, node>>
    BY <1>moves, SweepLeaves, ReleaseLeaves, CompactLeaves
  <2>2. QED
    BY <1>moves, <2>1, SweepMoves, CompactMoves DEF ListsApart, ListsTyped
<1>Cleanup. CASE Cleanup
  <2>1. /\ gcpc = "cleanup" /\ gcpc' = "steal" /\ left' = bound.threads
        /\ UNCHANGED <<alloc_list, nodes, survivors, gc_compacting, thread, node>>
    BY <1>Cleanup DEF Cleanup
  <2>2. QED
    BY <2>1, <1>d DEF ListsApart, ListsTyped, CycleKnown, HasOld, Taking, Copying
<1>Steal. CASE Steal
  <2>1. /\ \/ \E u \in left : /\ gcpc = "steal" /\ alloc_list' = [alloc_list EXCEPT ![u] = {}]
                              /\ gcpc' = "sweep" /\ left' = left \ {u} /\ thread' = u
                              /\ nodes' = alloc_list[u] /\ survivors' = {}
           \/ /\ gcpc = "steal" /\ left = {} /\ gcpc' = "recheck"
              /\ UNCHANGED <<alloc_list, left, thread, nodes, survivors>>
        /\ UNCHANGED <<gc_compacting, node>>
    BY <1>Steal DEF Steal
  <2>2. QED
    BY <2>1, <1>d, <1>l DEF ListsApart, ListsTyped, CycleKnown, HasOld, Taking, Copying
<1>Keep. CASE Keep
  <2>1. PICK n \in nodes :
            /\ gcpc = "sweep" /\ ~Dead(n) /\ nodes' = nodes \ {n} /\ survivors' = survivors \cup {n}
            /\ UNCHANGED <<alloc_list, gc_compacting, gcpc, thread, left, node>>
    BY <1>Keep DEF Keep, Dead
  <2>2. QED
    BY <2>1 DEF ListsApart, ListsTyped
<1>FreeBlock. CASE FreeBlock
  <2>1. PICK n \in nodes :
            /\ gcpc = "sweep" /\ Dead(n) /\ ~flag_tlab[n] /\ nodes' = nodes \ {n}
            /\ UNCHANGED <<alloc_list, survivors, gc_compacting, gcpc, thread, left, node>>
    BY <1>FreeBlock DEF FreeBlock, Dead
  <2>2. QED
    BY <2>1 DEF ListsApart, ListsTyped
<1>FreeInBuffer. CASE FreeInBuffer
  <2>1. /\ \/ \E n \in nodes : /\ gcpc = "sweep" /\ Dead(n) /\ flag_tlab[n] /\ node_base[n] # Null
                               /\ live_count'[node_base[n]] = 0 /\ gcpc' = "current" /\ nodes' = nodes \ {n}
           \/ \E n \in nodes : /\ gcpc = "sweep" /\ Dead(n) /\ flag_tlab[n]
                               /\ (node_base[n] = Null \/ live_count'[node_base[n]] # 0)
                               /\ nodes' = nodes \ {n} /\ UNCHANGED gcpc
        /\ UNCHANGED <<alloc_list, survivors, gc_compacting, thread, left, node>>
    BY <1>FreeInBuffer DEF FreeInBuffer, Touch, Dead
  <2>2. QED
    BY <2>1 DEF ListsApart, ListsTyped
<1>Prepend. CASE Prepend
  <2>1. /\ \/ /\ gcpc = "prepend" /\ alloc_list[thread] = head
              /\ alloc_list' = [alloc_list EXCEPT ![thread] = head \cup survivors] /\ gcpc' = "steal"
              /\ survivors' = {}
           \/ gcpc = "prepend" /\ UNCHANGED <<alloc_list, gcpc, survivors>>
        /\ UNCHANGED <<nodes, gc_compacting, thread, left, node>>
    BY <1>Prepend DEF Prepend
  <2>2. QED
    BY <2>1, <1>d DEF ListsApart, ListsTyped, CycleKnown, HasOld, Taking, Copying
<1>IsCurrent. CASE IsCurrent
  <2>1. /\ gcpc = "current" /\ (gcpc' = IF tlab_base[thread] = old THEN "reset_base" ELSE Back)
        /\ UNCHANGED <<alloc_list, nodes, survivors, gc_compacting, thread, left, node>>
    BY <1>IsCurrent DEF IsCurrent, Back
  <2>2. QED
    BY <2>1, <1>d DEF ListsApart, ListsTyped, CycleKnown, HasOld, Taking, Copying, Back
<1>ResetLimit. CASE ResetLimit
  <2>1. /\ gcpc = "reset_limit" /\ gcpc' = Back
        /\ UNCHANGED <<alloc_list, nodes, survivors, gc_compacting, thread, left, node>>
    BY <1>ResetLimit DEF ResetLimit, Back
  <2>2. QED
    BY <2>1, <1>d DEF ListsApart, ListsTyped, CycleKnown, HasOld, Taking, Copying, Back
<1>BeginCompact. CASE BeginCompact
  <2>1. /\ \/ \E fresh \in Buffer : /\ gcpc = "size" /\ Listed # {} /\ allotted < MaxBuffers
                                    /\ fresh = allotted + 1 /\ gcpc' = "copy" /\ gc_compacting' = 1
                                    /\ left' = bound.threads
           \/ gcpc = "size" /\ gcpc' = "idle" /\ UNCHANGED <<gc_compacting, left>>
        /\ UNCHANGED <<alloc_list, nodes, survivors, thread, node>>
    BY <1>BeginCompact DEF BeginCompact, Map, MayFail
  <2>2. QED
    BY <2>1, <1>d DEF ListsApart, ListsTyped, CycleKnown, HasOld, Taking, Copying
<1>CompactThread. CASE CompactThread
  <2>1. PICK u \in left :
            /\ gcpc = "copy" /\ nodes = {} /\ left' = left \ {u} /\ thread' = u /\ nodes' = alloc_list[u]
            /\ UNCHANGED <<alloc_list, survivors, gc_compacting, gcpc, node>>
    BY <1>CompactThread DEF CompactThread
  <2>2. QED
    BY <2>1, <1>d DEF ListsApart, ListsTyped, CycleKnown, HasOld, Taking, Copying
<1>Skip. CASE Skip
  <2>1. PICK n \in nodes :
            /\ gcpc = "copy" /\ Stays(n) /\ nodes' = nodes \ {n}
            /\ UNCHANGED <<alloc_list, survivors, gc_compacting, gcpc, thread, left, node>>
    BY <1>Skip DEF Skip, Stays
  <2>2. QED
    BY <2>1 DEF ListsApart, ListsTyped
<1>Copy. CASE Copy
  <2>1. PICK n \in nodes :
            /\ gcpc = "copy" /\ ~Stays(n) /\ gcpc' = "store" /\ nodes' = nodes \ {n} /\ node' = n
            /\ UNCHANGED <<alloc_list, survivors, gc_compacting, thread, left>>
    BY <1>Copy DEF Copy, Stays
  <2>2. QED
    BY <2>1, <1>d DEF ListsApart, ListsTyped, CycleKnown, HasOld, Taking, Copying
<1>StoreHandle. CASE StoreHandle
  <2>1. /\ gcpc = "store"
        /\ (gcpc' = IF flag_tlab[node] /\ node_base[node] # Null THEN "decrement" ELSE "copy") /\ node' = 0
        /\ UNCHANGED <<alloc_list, nodes, survivors, gc_compacting, thread, left>>
    BY <1>StoreHandle DEF StoreHandle
  <2>2. QED
    BY <2>1 DEF ListsApart, ListsTyped
<1>EndCompact. CASE EndCompact
  <2>1. /\ gcpc = "copy" /\ nodes = {} /\ left = {} /\ gcpc' = "idle" /\ gc_compacting' = 0
        /\ UNCHANGED <<alloc_list, nodes, survivors, thread, left, node>>
    BY <1>EndCompact DEF EndCompact
  <2>2. QED
    BY <2>1, <1>d DEF ListsApart, ListsTyped, CycleKnown, HasOld, Taking, Copying
<1>q. QED
  BY <1>b, <1>f, <1>t, <1>moves, <1>Cleanup, <1>Steal, <1>Keep, <1>FreeBlock, <1>FreeInBuffer,
    <1>Prepend, <1>IsCurrent, <1>ResetLimit, <1>BeginCompact, <1>CompactThread, <1>Skip, <1>Copy,
    <1>StoreHandle, <1>EndCompact, Keeps_alloc_list, Keeps_gc_compacting, Keeps_gcpc, Keeps_left, Keeps_node,
        Keeps_nodes, Keeps_survivors, Keeps_thread

LEMMA GroundStep ==
  ASSUME Ground, Step
  PROVE  Ground'
<1>1. Typed' /\ CycleKnown'
  BY TypedStep, CycleStep DEF Ground, Typed
<1>2. Budget'
  <2>1. IdleBeyond /\ BareBeyond /\ FreeBeyond /\ InBudget
    BY BudgetSplit DEF Ground
  <2>2. ListsTyped
    BY TypesSplit DEF Ground, Typed
  <2>3. IdleBeyond' /\ BareBeyond' /\ FreeBeyond' /\ InBudget'
    BY <2>1, <2>2, IdleStep, BareStep, FreeStep, InBudgetStep DEF Ground, Typed
  <2>4. (Budget <=> IdleBeyond /\ BareBeyond /\ FreeBeyond /\ InBudget)'
    BY BudgetSplit, PTL
  <2>5. QED
    BY <2>3, <2>4
<1>3. ListsApart'
  BY TypesSplit, ListsApartStep DEF Ground, Typed
<1>4. QED
  BY <1>1, <1>2, <1>3 DEF Ground, Typed

(* Without the answer of a thread the marking leaves what is known of the  *)
(* ground as it is; the run is then one of which no more is claimed.       *)
LEMMA TimeoutStep ==
  ASSUME Ground, WaitTimeout
  PROVE  Ground' /\ lost' = lost /\ lapse' # {}
<1> USE DEF Object
<1>1. PICK reached \in SUBSET Listed :
        /\ gcpc = "wait" /\ gcpc' = "cleanup"
        /\ generation' = [o \in Object |-> IF o \in reached THEN gc_current_mark_value + 1 ELSE generation[o]]
  BY DEF WaitTimeout, Marking
<1>2. UNCHANGED <<memory, Mutator, alloc_list, next_object, place, node_base, flag_tlab, born, cycle, walk,
                  dead, compact>>
  BY DEF WaitTimeout, Marking
<1>3. lapse' = lapse \cup {"no answer"} /\ wild' = wild /\ lost' = lost
  BY DEF WaitTimeout
<1>4. Typed'
  <2>1. /\ MemoryTyped /\ HistoryTyped /\ FieldsTyped /\ CursorsTyped /\ FlagsTyped /\ PcTyped
        /\ RefillTyped /\ ObjectsTyped /\ ListsTyped /\ HeldTyped /\ CycleTyped /\ CompactTyped
    BY TypesSplit DEF Ground, Typed
  <2>2. MemoryTyped' /\ FieldsTyped' /\ CursorsTyped' /\ FlagsTyped' /\ PcTyped' /\ RefillTyped'
    BY <1>2, <2>1 DEF MemoryTyped, FieldsTyped, CursorsTyped, FlagsTyped, PcTyped, RefillTyped
  <2>3. HistoryTyped'
    BY <1>3, <2>1 DEF HistoryTyped
  <2>4. ObjectsTyped'
    <3>1. gc_current_mark_value + 1 \in Nat
      BY <2>1, BoundKnown DEF CycleTyped
    <3>2. generation' \in [Object -> Nat]
      BY <1>1, <2>1, <3>1 DEF ObjectsTyped
    <3>3. QED
      BY <1>2, <2>1, <3>2 DEF ObjectsTyped
  <2>5. ListsTyped' /\ HeldTyped' /\ CycleTyped' /\ CompactTyped'
    BY <1>2, <2>1 DEF ListsTyped, HeldTyped, CycleTyped, CompactTyped
  <2>6. GcPcTyped'
    BY <1>1 DEF GcPcTyped
  <2>7. (Typed <=> /\ MemoryTyped /\ HistoryTyped /\ FieldsTyped /\ CursorsTyped /\ FlagsTyped /\ PcTyped
                   /\ RefillTyped /\ ObjectsTyped /\ ListsTyped /\ HeldTyped /\ CycleTyped /\ GcPcTyped
                   /\ CompactTyped)'
    BY TypesSplit, PTL
  <2>8. QED
    BY <2>2, <2>3, <2>4, <2>5, <2>6, <2>7
<1>5. CycleKnown'
  BY <1>1, <1>2 DEF Ground, CycleKnown, HasOld, Taking, Copying
<1>6. Budget' /\ ListsApart'
  BY <1>1, <1>2 DEF Ground, Budget, ListsApart
<1>7. QED
  BY <1>3, <1>4, <1>5, <1>6 DEF Ground, Typed

-----------------------------------------------------------------------------
(* The lists.                                                              *)

LEMMA ListedSame ==
  ASSUME Ground, Step
  PROVE  Listed' = Listed \/ (\E u \in bound.threads : Publish(u)) \/ FreeBlock \/ FreeInBuffer
<1>b. bound.threads \subseteq Threads
  BY BoundKnown DEF Ground, TypeOK
<1>c. /\ \A t \in left : t \in Threads
      /\ nodes # {} \/ gcpc \in {"sweep", "prepend", "store"} \cup HasOld => thread \in Threads
      /\ gc_compacting = 0 \/ gc_compacting = 1
  BY HandsKnown, TypesSplit DEF Ground, Typed, CompactTyped
<1>l. /\ \A t \in left : t \in Threads
      /\ nodes # {} \/ gcpc = "prepend" => thread \in Threads
      /\ gcpc = "steal" => nodes = {} /\ survivors = {}
      /\ gcpc = "prepend" => nodes = {}
      /\ gcpc = "copy" /\ nodes # {} => nodes \subseteq alloc_list[thread]
      /\ gcpc = "copy" => survivors = {}
      /\ alloc_list \in [Threads -> SUBSET Object]
  BY <1>c DEF Ground, CycleKnown, ListsApart, Copying, Taking, HasOld, TypeOK
<1>f. CASE UNCHANGED <<alloc_list, nodes, survivors>>
  BY <1>f DEF Listed
<1>t. ASSUME NEW t \in Threads, t \in bound.threads, Publish(t)
      PROVE  Listed' = Listed \/ (\E u \in bound.threads : Publish(u)) \/ FreeBlock \/ FreeInBuffer
  <2>Publish. CASE Publish(t)
    BY <1>t, <2>Publish
  <2>q. QED
    BY <1>t, <2>Publish
<1>Steal. CASE Steal
  <2>1. \/ \E u \in left : /\ gcpc = "steal" /\ alloc_list' = [alloc_list EXCEPT ![u] = {}]
                           /\ nodes' = alloc_list[u] /\ survivors' = {}
        \/ gcpc = "steal" /\ left = {} /\ UNCHANGED <<alloc_list, nodes, survivors>>
    BY <1>Steal DEF Steal
  <2>2. QED
    BY <2>1, <1>l DEF Listed
<1>Keep. CASE Keep
  <2>1. PICK n \in nodes :
            /\ gcpc = "sweep" /\ ~Dead(n) /\ nodes' = nodes \ {n} /\ survivors' = survivors \cup {n}
            /\ UNCHANGED alloc_list
    BY <1>Keep DEF Keep, Dead
  <2>2. QED
    BY <2>1, <1>l DEF Listed
<1>FreeBlock. CASE FreeBlock
  BY <1>FreeBlock
<1>FreeInBuffer. CASE FreeInBuffer
  BY <1>FreeInBuffer
<1>Prepend. CASE Prepend
  <2>1. /\ \/ /\ gcpc = "prepend" /\ alloc_list[thread] = head
              /\ alloc_list' = [alloc_list EXCEPT ![thread] = head \cup survivors] /\ survivors' = {}
           \/ gcpc = "prepend" /\ UNCHANGED <<alloc_list, survivors>>
        /\ UNCHANGED nodes
    BY <1>Prepend DEF Prepend
  <2>2. QED
    BY <2>1, <1>l DEF Listed
<1>CompactThread. CASE CompactThread
  <2>1. PICK u \in left :
            gcpc = "copy" /\ nodes = {} /\ nodes' = alloc_list[u] /\ UNCHANGED <<alloc_list, survivors>>
    BY <1>CompactThread DEF CompactThread
  <2>2. QED
    BY <2>1, <1>l DEF Listed
<1>Skip. CASE Skip
  <2>1. PICK n \in nodes :
            gcpc = "copy" /\ Stays(n) /\ nodes' = nodes \ {n} /\ UNCHANGED <<alloc_list, survivors>>
    BY <1>Skip DEF Skip, Stays
  <2>2. QED
    BY <2>1, <1>l DEF Listed
<1>Copy. CASE Copy
  <2>1. PICK n \in nodes :
            gcpc = "copy" /\ ~Stays(n) /\ nodes' = nodes \ {n} /\ UNCHANGED <<alloc_list, survivors>>
    BY <1>Copy DEF Copy, Stays
  <2>2. QED
    BY <2>1, <1>l DEF Listed
<1>q. QED
  BY <1>b, <1>f, <1>t, <1>Steal, <1>Keep, <1>FreeBlock, <1>FreeInBuffer, <1>Prepend,
    <1>CompactThread, <1>Skip, <1>Copy, Keeps_alloc_list, Keeps_nodes, Keeps_survivors

LEMMA PublishKnown ==
  ASSUME Ground, NEW t \in Threads, Publish(t)
  PROVE  /\ next_object \notin Object /\ Object' = Object \cup {next_object}
         /\ Listed' = Listed \cup {next_object} /\ Listed \subseteq Object
         /\ place'[next_object] = cursor[t].buffer /\ node_base'[next_object] = base[t]
         /\ flag_tlab'[next_object] = (cursor[t].buffer # Null)
         /\ generation'[next_object] = stamp[t] /\ born'[next_object] = stamp[t]
         /\ \A o \in Object : /\ place'[o] = place[o] /\ node_base'[o] = node_base[o]
                              /\ flag_tlab'[o] = flag_tlab[o]
                              /\ generation'[o] = generation[o] /\ born'[o] = born[o]
<1>1. /\ next_object' = next_object + 1
      /\ place' = Append(place, cursor[t].buffer)
      /\ flag_tlab' = Append(flag_tlab, cursor[t].buffer # Null)
      /\ node_base' = Append(node_base, base[t])
      /\ generation' = Append(generation, stamp[t]) /\ born' = Append(born, stamp[t])
  BY DEF Publish
<1>2. alloc_list' = [alloc_list EXCEPT ![t] = @ \cup {next_object}] /\ UNCHANGED <<nodes, survivors>>
  BY DEF Publish
<1>t. ObjectsTyped /\ FieldsTyped /\ CursorsTyped /\ FlagsTyped /\ ListsTyped
  BY TypesSplit DEF Ground, Typed
<1>3. next_object - 1 \in Nat /\ Object = 1 .. next_object - 1 /\ Object' = 1 .. (next_object - 1) + 1
      /\ (next_object - 1) + 1 = next_object
  BY <1>1, <1>t DEF ObjectsTyped, Object
<1>4. next_object \notin Object /\ Object' = Object \cup {next_object}
  BY <1>3
<1>5. /\ cursor[t].buffer \in Buffer \cup {Null} /\ base[t] \in Buffer \cup {Null} /\ stamp[t] \in Nat
      /\ (cursor[t].buffer # Null) \in BOOLEAN
  BY <1>t DEF FieldsTyped, CursorsTyped, FlagsTyped, Cursor
<1>6. Listed' = Listed \cup {next_object}
  BY <1>2, <1>t DEF Listed, ListsTyped
<1>7. Listed \subseteq Object
  BY ListedFinite DEF Ground, Typed
<1>8. /\ place'[next_object] = cursor[t].buffer /\ \A o \in Object : place'[o] = place[o]
      /\ node_base'[next_object] = base[t] /\ \A o \in Object : node_base'[o] = node_base[o]
  BY <1>1, <1>3, <1>5, <1>t, AppendObject DEF ObjectsTyped
<1>9. flag_tlab'[next_object] = (cursor[t].buffer # Null) /\ \A o \in Object : flag_tlab'[o] = flag_tlab[o]
  <2>1. ASSUME NEW v \in BOOLEAN
        PROVE  LET f == Append(flag_tlab, v)
               IN  f[next_object] = v /\ \A o \in Object : f[o] = flag_tlab[o]
    BY <1>3, <1>t, AppendObject DEF ObjectsTyped
  <2>2. QED
    BY <1>1, <1>5, <2>1
<1>10. /\ generation'[next_object] = stamp[t] /\ \A o \in Object : generation'[o] = generation[o]
       /\ born'[next_object] = stamp[t] /\ \A o \in Object : born'[o] = born[o]
  BY <1>1, <1>3, <1>5, <1>t, AppendObject DEF ObjectsTyped
<1>11. QED
  BY <1>4, <1>6, <1>7, <1>8, <1>9, <1>10

LEMMA FreeListed ==
  ASSUME Ground, NEW o \in nodes, gcpc = "sweep", nodes' = nodes \ {o}, UNCHANGED <<alloc_list, survivors>>
  PROVE  Listed' = Listed \ {o} /\ o \in Listed /\ o \in Object /\ thread \in Threads /\ gc_compacting = 0
<1>1. gc_compacting = 0
  BY TypesSplit DEF Ground, Typed, CompactTyped, CycleKnown, Copying, Taking
<1>2. thread \in Threads /\ o \in Object
  BY HandsKnown, TypesSplit DEF Ground, Typed, ListsTyped
<1>3. o \notin survivors /\ \A t \in Threads : o \notin alloc_list[t]
  BY <1>1 DEF Ground, ListsApart
<1>4. QED
  BY <1>1, <1>2, <1>3 DEF Listed

-----------------------------------------------------------------------------
(* The counts of the buffers and what they stand for.                      *)

LEMMA WeightKnown ==
  ASSUME Ground, NEW b \in Buffer
  PROVE  /\ IsFiniteSet(InBuffer(b)) /\ Cardinality(InBuffer(b)) \in Nat
         /\ IsFiniteSet(Counted(b)) /\ Cardinality(Counted(b)) \in Nat
         /\ Due(b) \in 0 .. 1 /\ Weight(b) \in Nat /\ live_count[b] \in Int
         /\ Cardinality(InBuffer(b)) + Cardinality(Counted(b)) <= bound.objects
<1>1. next_object \in Nat \ {0} /\ bound.objects \in Nat /\ live_count[b] \in Int
  BY BoundKnown DEF Ground, TypesKnown, TypeOK
<1>2. InBuffer(b) \subseteq Object
  BY ListedFinite DEF Ground, Typed, InBuffer
<1>3. /\ IsFiniteSet(InBuffer(b)) /\ Cardinality(InBuffer(b)) \in Nat
      /\ Cardinality(InBuffer(b)) <= next_object - 1
  BY <1>1, <1>2, ObjectsFinite
<1>4. Counted(b) \subseteq Busy
  BY DEF Counted, Busy
<1>5. IsFiniteSet(Counted(b)) /\ Cardinality(Counted(b)) \in Nat /\ Cardinality(Counted(b)) <= Cardinality(Busy)
  BY <1>4, BusyFinite, FS_Subset, FS_CardinalityType
<1>6. next_object - 1 + Cardinality(Busy) <= bound.objects
  BY DEF Ground, Budget, Busy
<1>7. Due(b) \in 0 .. 1
  BY DEF Due
<1>8. Weight(b) \in Nat
  BY <1>3, <1>5, <1>7 DEF Weight
<1>9. QED
  BY <1>1, <1>3, <1>5, <1>6, <1>7, <1>8, BusyFinite

LEMMA InBufferSame ==
  ASSUME Ground, PlacesKnown, NEW b \in Buffer, Step
  PROVE  InBuffer(b)' = InBuffer(b) \/ (\E t \in bound.threads : Publish(t)) \/ FreeInBuffer \/ StoreHandle
<1>1. CASE FreeBlock
  <2>1. PICK o \in nodes : /\ gcpc = "sweep" /\ nodes' = nodes \ {o} /\ ~flag_tlab[o]
                           /\ UNCHANGED <<alloc_list, survivors, node_base>>
    BY <1>1 DEF FreeBlock
  <2>2. Listed' = Listed \ {o} /\ o \in Object
    BY <2>1, FreeListed
  <2>3. node_base[o] # b
    BY <2>1, <2>2 DEF PlacesKnown, Buffer, Null
  <2>4. QED
    BY <2>1, <2>2, <2>3 DEF InBuffer
<1>2. CASE Listed' = Listed /\ UNCHANGED node_base
  BY <1>2 DEF InBuffer
<1>3. QED
  BY <1>1, <1>2, ListedSame, Keeps_node_base

LEMMA CountedSame ==
  ASSUME Ground, NEW b \in Buffer, Step
  PROVE  Counted(b)' = Counted(b) \/ (\E u \in bound.threads : Count(u) \/ Publish(u))
<1>b. bound.threads \subseteq Threads
  BY BoundKnown DEF Ground, TypeOK
<1>p. /\ pc = [u \in Threads |-> pc[u]] /\ base = [u \in Threads |-> base[u]]
  BY TypesSplit DEF Ground, Typed, PcTyped, FieldsTyped
<1>f. CASE UNCHANGED <<pc, base>>
  BY <1>f DEF Counted
<1>t. ASSUME NEW t \in Threads, t \in bound.threads,
               Start(t) \/ LoadLimit(t) \/ LoadCursor(t) \/ CasCursor(t) \/ LoadBase(t) \/ Malloc(t)
             \/ Count(t) \/ Publish(t) \/ Refill(t) \/ RefillFails(t) \/ StoreBase(t) \/
             StoreCursor(t) \/ StoreLimit(t)
      PROVE  Counted(b)' = Counted(b) \/ (\E u \in bound.threads : Count(u) \/ Publish(u))
  <2>Start. CASE Start(t)
    <3>1. /\ pc[t] = "idle" /\ next_object + Cardinality({u \in Threads : pc[u] # "idle"}) <= bound.objects
          /\ pc' = [pc EXCEPT ![t] = "limit"] /\ UNCHANGED base
      BY <2>Start DEF Start
    <3>2. QED
      BY <3>1, <1>p DEF Counted
  <2>LoadLimit. CASE LoadLimit(t)
    <3>1. pc[t] = "limit" /\ pc' = [pc EXCEPT ![t] = "cursor"] /\ UNCHANGED base
      BY <2>LoadLimit DEF LoadLimit
    <3>2. QED
      BY <3>1, <1>p DEF Counted
  <2>LoadCursor. CASE LoadCursor(t)
    <3>1. /\ pc[t] = "cursor"
          /\ pc' = [pc EXCEPT ![t] = IF HasSpace(t) THEN "cas" ELSE IF tried[t] THEN "malloc" ELSE "refill"]
          /\ UNCHANGED base
      BY <2>LoadCursor DEF LoadCursor, HasSpace
    <3>2. QED
      BY <3>1, <1>p DEF Counted
  <2>CasCursor. CASE CasCursor(t)
    <3>1. /\ \/ pc[t] = "cas" /\ tlab_cursor[t] = cursor[t] /\ pc' = [pc EXCEPT ![t] = "base"]
             \/ pc[t] = "cas" /\ pc' = [pc EXCEPT ![t] = "cursor"]
          /\ UNCHANGED base
      BY <2>CasCursor DEF CasCursor
    <3>2. QED
      BY <3>1, <1>p DEF Counted
  <2>LoadBase. CASE LoadBase(t)
    <3>1. pc[t] = "base" /\ pc' = [pc EXCEPT ![t] = "count"] /\ base' = [base EXCEPT ![t] = tlab_base[t]]
      BY <2>LoadBase DEF LoadBase
    <3>2. QED
      BY <3>1, <1>p DEF Counted
  <2>Malloc. CASE Malloc(t)
    <3>1. pc[t] = "malloc" /\ pc' = [pc EXCEPT ![t] = "count"] /\ base' = [base EXCEPT ![t] = Null]
      BY <2>Malloc DEF Malloc
    <3>2. QED
      BY <3>1, <1>p DEF Counted
  <2>Count. CASE Count(t)
    BY <1>t, <2>Count
  <2>Publish. CASE Publish(t)
    BY <1>t, <2>Publish
  <2>Refill. CASE Refill(t)
    <3>1. PICK fresh \in Buffer :
              /\ pc[t] = "refill" /\ allotted < MaxBuffers /\ fresh = allotted + 1
              /\ pc' = [pc EXCEPT ![t] = "store_base"] /\ UNCHANGED base
      BY <2>Refill DEF Refill, Map
    <3>2. QED
      BY <3>1, <1>p DEF Counted
  <2>RefillFails. CASE RefillFails(t)
    <3>1. pc[t] = "refill" /\ pc' = [pc EXCEPT ![t] = "limit"] /\ UNCHANGED base
      BY <2>RefillFails DEF RefillFails, MayFail
    <3>2. QED
      BY <3>1, <1>p DEF Counted
  <2>StoreBase. CASE StoreBase(t)
    <3>1. pc[t] = "store_base" /\ pc' = [pc EXCEPT ![t] = "store_cursor"] /\ UNCHANGED base
      BY <2>StoreBase DEF StoreBase
    <3>2. QED
      BY <3>1, <1>p DEF Counted
  <2>StoreCursor. CASE StoreCursor(t)
    <3>1. pc[t] = "store_cursor" /\ pc' = [pc EXCEPT ![t] = "store_limit"] /\ UNCHANGED base
      BY <2>StoreCursor DEF StoreCursor
    <3>2. QED
      BY <3>1, <1>p DEF Counted
  <2>StoreLimit. CASE StoreLimit(t)
    <3>1. pc[t] = "store_limit" /\ pc' = [pc EXCEPT ![t] = "limit"] /\ UNCHANGED base
      BY <2>StoreLimit DEF StoreLimit
    <3>2. QED
      BY <3>1, <1>p DEF Counted
  <2>q. QED
    BY <1>t, <2>Start, <2>LoadLimit, <2>LoadCursor, <2>CasCursor, <2>LoadBase, <2>Malloc, <2>Count,
      <2>Publish, <2>Refill, <2>RefillFails, <2>StoreBase, <2>StoreCursor, <2>StoreLimit
<1>q. QED
  BY <1>b, <1>f, <1>t, Keeps_base, Keeps_pc

LEMMA DueSame ==
  ASSUME Ground, NEW c \in Buffer, Step
  PROVE  Due(c)' = Due(c) \/ StoreHandle \/ Decrement
<1>b. bound.threads \subseteq Threads
  BY BoundKnown DEF Ground, TypeOK
<1>f. CASE UNCHANGED <<gcpc, old>>
  BY <1>f DEF Due
<1>moves. CASE Begin \/ Mark \/ Cleanup \/ Steal \/ LoadOldHead \/ Prepend \/ Recheck \/ IsCurrent \/
               ResetBase \/ ResetCursor \/ ResetLimit \/ BeginCompact \/ Copy \/ RecheckOld \/ Defer
  <2>1. UNCHANGED old
    BY <1>moves, SweepLeaves, ReleaseLeaves, CompactLeaves
  <2>2. QED
    BY <1>moves, <2>1, SweepMoves, CompactMoves DEF Due, Back
<1>FreeInBuffer. CASE FreeInBuffer
  <2>1. \/ \E n \in nodes : /\ gcpc = "sweep" /\ Dead(n) /\ flag_tlab[n] /\ node_base[n] # Null
                            /\ live_count'[node_base[n]] = 0 /\ gcpc' = "current" /\ old' = node_base[n]
        \/ \E n \in nodes : /\ gcpc = "sweep" /\ Dead(n) /\ flag_tlab[n]
                            /\ (node_base[n] = Null \/ live_count'[node_base[n]] # 0)
                            /\ UNCHANGED <<gcpc, old>>
    BY <1>FreeInBuffer DEF FreeInBuffer, Touch, Dead
  <2>2. QED
    BY <2>1 DEF Due
<1>StoreHandle. CASE StoreHandle
  BY <1>StoreHandle
<1>Decrement. CASE Decrement
  BY <1>Decrement
<1>EndCompact. CASE EndCompact
  <2>1. gcpc = "copy" /\ nodes = {} /\ left = {} /\ gcpc' = "idle" /\ old' = Null
    BY <1>EndCompact DEF EndCompact
  <2>2. QED
    BY <2>1 DEF Due
<1>q. QED
  BY <1>b, <1>f, <1>moves, <1>FreeInBuffer, <1>StoreHandle, <1>Decrement, <1>EndCompact, Keeps_gcpc, Keeps_old

(* What a count is above what it stands for: nothing changes that but the  *)
(* poisoning.                                                              *)
Slack(b) == live_count[b] - Weight(b)

LEMMA SlackStep ==
  ASSUME Ground, Ground', PlacesKnown, NEW b \in Buffer, Step,
         gcpc = "store" => node_base[node] # target
  PROVE  Slack(b)' = Slack(b) \/ (Begin /\ b = prev_buffer)
<1>k. /\ IsFiniteSet(InBuffer(b)) /\ Cardinality(InBuffer(b)) \in Nat
      /\ IsFiniteSet(Counted(b)) /\ Cardinality(Counted(b)) \in Nat
      /\ Due(b) \in 0 .. 1 /\ live_count[b] \in Int
  BY WeightKnown
<1>b. bound.threads \subseteq Threads
  BY BoundKnown DEF Ground, TypeOK
<1>l. live_count \in [Buffer -> Int] /\ pc = [u \in Threads |-> pc[u]] /\ base = [u \in Threads |-> base[u]]
  BY TypesSplit DEF Ground, Typed, PcTyped, FieldsTyped, MemoryTyped
<1> DEFINE Changes ==
      \/ Begin \/ FreeInBuffer \/ StoreHandle \/ Decrement
      \/ \E t \in bound.threads : Count(t) \/ Publish(t)
<1>1. ASSUME NEW t \in Threads, Count(t)
      PROVE  Slack(b)' = Slack(b)
  <2>1. pc[t] = "count" /\ pc' = [pc EXCEPT ![t] = "publish"] /\ UNCHANGED base
    BY <1>1 DEF Count
  <2>2. Counted(b)' = IF base[t] = b THEN Counted(b) \cup {t} ELSE Counted(b)
    BY <2>1, <1>l DEF Counted
  <2>3. t \notin Counted(b)
    BY <2>1 DEF Counted
  <2>4. Cardinality(Counted(b)') = Cardinality(Counted(b)) + (IF base[t] = b THEN 1 ELSE 0)
    <3>1. CASE base[t] = b
      BY <3>1, <2>2, <2>3, <1>k, FS_AddElement
    <3>2. CASE ~(base[t] = b)
      BY <3>2, <2>2, <2>3, <1>k
    <3>3. QED
      BY <3>1, <3>2
  <2>5. live_count'[b] = live_count[b] + (IF base[t] = b THEN 1 ELSE 0)
    <3>1. CASE base[t] = Null
      BY <1>1, <3>1, <1>k DEF Count, Buffer, Null
    <3>2. CASE base[t] # Null
      <4>1. live_count' = [live_count EXCEPT ![base[t]] = @ + 1]
        BY <1>1, <3>2 DEF Count
      <4>2. QED
        BY <4>1, <1>l
    <3>3. QED
      BY <3>1, <3>2
  <2>6. UNCHANGED <<InBuffer(b), Due(b)>>
    <3>1. UNCHANGED <<alloc_list, nodes, survivors, node_base, gcpc, old>>
      BY <1>1 DEF Count
    <3>2. UNCHANGED Listed
      BY <3>1 DEF Listed
    <3>3. QED
      BY <3>1, <3>2 DEF InBuffer, Due
  <2>7. QED
    BY <2>4, <2>5, <2>6, <1>k DEF Slack, Weight
<1>2. ASSUME NEW t \in Threads, Publish(t)
      PROVE  Slack(b)' = Slack(b)
  <2>1. pc[t] = "publish" /\ pc' = [pc EXCEPT ![t] = "idle"] /\ base' = [base EXCEPT ![t] = Null]
    BY <1>2 DEF Publish
  <2>2. Counted(b)' = Counted(b) \ {t} /\ (t \in Counted(b) <=> base[t] = b)
    BY <2>1, <1>l DEF Counted
  <2>3. Cardinality(Counted(b)') = Cardinality(Counted(b)) - (IF base[t] = b THEN 1 ELSE 0)
    <3>1. CASE base[t] = b
      <4>1. t \in Counted(b) /\ Counted(b)' = Counted(b) \ {t}
        BY <3>1, <2>2
      <4>2. Cardinality(Counted(b) \ {t}) = Cardinality(Counted(b)) - 1
        BY <4>1, <1>k, FS_RemoveElement
      <4>3. QED
        BY <4>1, <4>2, <3>1
    <3>2. CASE ~(base[t] = b)
      <4>1. t \notin Counted(b) /\ Counted(b)' = Counted(b)
        BY <3>2, <2>2
      <4>2. Cardinality(Counted(b)) \in Nat
        BY <1>k
      <4>3. QED
        BY <3>2, <4>1, <4>2
    <3>3. QED
      BY <3>1, <3>2
  <2>4. /\ InBuffer(b)' = IF base[t] = b THEN InBuffer(b) \cup {next_object} ELSE InBuffer(b)
        /\ next_object \notin InBuffer(b)
    BY <1>2, PublishKnown DEF InBuffer
  <2>5. Cardinality(InBuffer(b)') = Cardinality(InBuffer(b)) + (IF base[t] = b THEN 1 ELSE 0)
    <3>1. CASE base[t] = b
      BY <3>1, <2>4, <1>k, FS_AddElement
    <3>2. CASE ~(base[t] = b)
      BY <3>2, <2>4, <1>k
    <3>3. QED
      BY <3>1, <3>2
  <2>6. UNCHANGED <<live_count, Due(b)>>
    BY <1>2 DEF Publish, Due
  <2>7. QED
    BY <2>3, <2>5, <2>6, <1>k DEF Slack, Weight
<1>3. ASSUME FreeInBuffer
      PROVE  Slack(b)' = Slack(b)
  <2>1. PICK o \in nodes :
          /\ gcpc = "sweep" /\ nodes' = nodes \ {o} /\ UNCHANGED <<alloc_list, survivors, node_base, pc, base>>
          /\ live_count' = [c \in Buffer |-> IF c = node_base[o] THEN live_count[c] - 1 ELSE live_count[c]]
    BY <1>3 DEF FreeInBuffer
  <2>2. Listed' = Listed \ {o} /\ o \in Listed
    BY <2>1, FreeListed
  <2>3. InBuffer(b)' = InBuffer(b) \ {o} /\ (o \in InBuffer(b) <=> node_base[o] = b)
    BY <2>1, <2>2 DEF InBuffer
  <2>4. Cardinality(InBuffer(b)') = Cardinality(InBuffer(b)) - (IF node_base[o] = b THEN 1 ELSE 0)
    <3>1. CASE node_base[o] = b
      <4>1. o \in InBuffer(b) /\ InBuffer(b)' = InBuffer(b) \ {o}
        BY <3>1, <2>3
      <4>2. Cardinality(InBuffer(b) \ {o}) = Cardinality(InBuffer(b)) - 1
        BY <4>1, <1>k, FS_RemoveElement
      <4>3. QED
        BY <4>1, <4>2, <3>1
    <3>2. CASE ~(node_base[o] = b)
      <4>1. InBuffer(b)' = InBuffer(b)
        BY <3>2, <2>3
      <4>2. QED
        BY <4>1, <3>2, <1>k
    <3>3. QED
      BY <3>1, <3>2
  <2>5. live_count'[b] = live_count[b] - (IF node_base[o] = b THEN 1 ELSE 0)
    BY <2>1, <1>k
  <2>6. UNCHANGED Counted(b)
    BY <2>1 DEF Counted
  <2>7. UNCHANGED Due(b)
    BY <1>3, DueSame DEF FreeInBuffer, StoreHandle, Decrement
  <2>8. QED
    BY <2>4, <2>5, <2>6, <2>7, <1>k DEF Slack, Weight
<1>4. ASSUME StoreHandle
      PROVE  Slack(b)' = Slack(b)
  <2>1. /\ gcpc = "store" /\ node_base' = [node_base EXCEPT ![node] = target]
        /\ live_count' = [live_count EXCEPT ![target] = @ + 1] /\ old' = node_base[node]
        /\ gcpc' = IF flag_tlab[node] /\ node_base[node] # Null THEN "decrement" ELSE "copy"
        /\ UNCHANGED <<pc, base, nodes, survivors, alloc_list>>
    BY <1>4 DEF StoreHandle
  <2>2. target \in Buffer /\ node \in Object /\ node \in Listed /\ thread \in Threads
    <3>1. target \in Buffer /\ node \in Object /\ thread \in Threads
      BY <2>1, HandsKnown DEF Ground, Typed, Copying
    <3>2. node \in alloc_list[thread]
      BY <2>1 DEF Ground, ListsApart
    <3>3. QED
      BY <3>1, <3>2 DEF Listed
  <2>3. /\ live_count'[b] = live_count[b] + (IF b = target THEN 1 ELSE 0)
    BY <2>1, <2>2, <1>l
  <2>4. UNCHANGED Counted(b)
    BY <2>1 DEF Counted
  <2>5. Listed' = Listed
    BY <2>1 DEF Listed
  <2>6. node_base \in [Object -> Buffer \cup {Null}]
    BY DEF Ground, TypesKnown
  <2>7. CASE b = target
    <3>1. InBuffer(b)' = InBuffer(b) \cup {node} /\ node \notin InBuffer(b)
      BY <2>1, <2>2, <2>5, <2>6, <2>7 DEF InBuffer
    <3>2. Cardinality(InBuffer(b)') = Cardinality(InBuffer(b)) + 1
      BY <3>1, <1>k, FS_AddElement
    <3>3. Due(b) = 0 /\ Due(b)' = 0
      BY <2>1, <2>7 DEF Due
    <3>4. QED
      BY <3>2, <3>3, <2>3, <2>4, <2>7, <1>k DEF Slack, Weight
  <2>8. CASE b # target /\ b = node_base[node]
    <3>1. InBuffer(b)' = InBuffer(b) \ {node} /\ node \in InBuffer(b)
      BY <2>1, <2>2, <2>5, <2>6, <2>8 DEF InBuffer
    <3>2. Cardinality(InBuffer(b)') = Cardinality(InBuffer(b)) - 1
      BY <3>1, <1>k, FS_RemoveElement
    <3>3. flag_tlab[node] /\ node_base[node] # Null
      BY <2>2, <2>8 DEF PlacesKnown, Buffer, Null
    <3>4. Due(b) = 0 /\ Due(b)' = 1
      BY <2>1, <2>8, <3>3 DEF Due
    <3>5. QED
      BY <3>2, <3>4, <2>3, <2>4, <2>8, <1>k DEF Slack, Weight
  <2>9. CASE b # target /\ b # node_base[node]
    <3>1. InBuffer(b)' = InBuffer(b)
      BY <2>1, <2>2, <2>5, <2>6, <2>9 DEF InBuffer
    <3>2. Due(b) = 0 /\ Due(b)' = 0
      BY <2>1, <2>9 DEF Due
    <3>3. QED
      BY <3>1, <3>2, <2>3, <2>4, <2>9, <1>k DEF Slack, Weight
  <2>10. QED
    BY <2>7, <2>8, <2>9
<1>5. ASSUME Decrement
      PROVE  Slack(b)' = Slack(b)
  <2>1. /\ gcpc = "decrement" /\ live_count' = [live_count EXCEPT ![old] = @ - 1] /\ gcpc' # "decrement"
        /\ UNCHANGED <<pc, base, nodes, survivors, alloc_list, node_base, old>>
    BY <1>5 DEF Decrement
  <2>2. old \in Buffer
    BY <2>1, HandsKnown DEF Ground, Typed, HasOld
  <2>3. live_count'[b] = live_count[b] - (IF b = old THEN 1 ELSE 0)
    BY <2>1, <2>2, <1>l
  <2>4. UNCHANGED Counted(b) /\ UNCHANGED InBuffer(b)
    BY <2>1 DEF Counted, InBuffer, Listed
  <2>5. Due(b) = (IF b = old THEN 1 ELSE 0) /\ Due(b)' = 0
    BY <2>1 DEF Due
  <2>6. QED
    BY <2>3, <2>4, <2>5, <1>k DEF Slack, Weight
<1>6. ASSUME Begin, b # prev_buffer
      PROVE  Slack(b)' = Slack(b)
  <2>1. /\ live_count' = [c \in Buffer |-> IF c = prev_buffer THEN Poison ELSE live_count[c]]
        /\ UNCHANGED <<pc, base, nodes, survivors, alloc_list, node_base, old>>
        /\ gcpc = "idle" /\ gcpc' = "wait"
    BY <1>6 DEF Begin
  <2>2. UNCHANGED <<Counted(b), InBuffer(b), Due(b), live_count[b]>>
    BY <1>6, <2>1 DEF Counted, InBuffer, Listed, Due
  <2>3. QED
    BY <2>2 DEF Slack, Weight
<1>7. ASSUME ~Changes
      PROVE  Slack(b)' = Slack(b)
  <2>1. UNCHANGED live_count
    BY <1>7, Keeps_live_count
  <2>2. UNCHANGED <<Counted(b), InBuffer(b), Due(b)>>
    BY <1>7, InBufferSame, CountedSame, DueSame
  <2>3. QED
    BY <2>1, <2>2 DEF Slack, Weight
<1>8. QED
  BY <1>b, <1>1, <1>2, <1>3, <1>4, <1>5, <1>6, <1>7

-----------------------------------------------------------------------------
(* The parts of the invariant.                                             *)

LEMMA LapseStep ==
  ASSUME Step, lapse' = {}
  PROVE  /\ lapse = {}
         /\ \A t \in bound.threads : /\ LoadBase(t) => tlab_base[t] # Null
                                     /\ Count(t) /\ base[t] # Null => base[t] \notin Doomed
<1>1. \A t \in bound.threads : LoadBase(t) => tlab_base[t] # Null /\ lapse' = lapse
  BY DEF LoadBase
<1>2. \A t \in bound.threads : Count(t) => lapse' = lapse /\ (base[t] # Null => base[t] \notin Doomed)
  BY DEF Count
<1>3. QED
  BY <1>1, <1>2, Keeps_lapse

LEMMA BuffersStep ==
  ASSUME Ground, Ground', Kept, lapse' = {}, Step
  PROVE  BuffersKnown'
<1>b. bound.threads \subseteq Threads
  BY BoundKnown DEF Ground, TypeOK
<1>k. BuffersKnown
  BY DEF Kept
<1>m. /\ mapped \subseteq Buffer /\ allotted \in Nat
      /\ target \in Buffer \cup {Null} /\ prev_buffer \in Buffer \cup {Null}
      /\ prev_prev_buffer \in Buffer \cup {Null} /\ \A b \in Buffer : b # Null
  BY TypesSplit DEF Ground, Typed, MemoryTyped, CompactTyped, Buffer, Null
<1>d. gcpc = "size" => target = Null
  BY TypesSplit DEF Ground, Typed, CompactTyped, CycleKnown, Copying, Taking
<1>g. \A b \in gc_compact_dead_tlab_list_prev : b \notin Moved
  BY DEF Kept, DoomKnown, GivenUp
<1>f. CASE UNCHANGED <<mapped, allotted, target, prev_buffer, prev_prev_buffer>>
  BY <1>f, <1>k DEF BuffersKnown, Moved
<1>t. ASSUME NEW t \in Threads, t \in bound.threads, Refill(t)
      PROVE  BuffersKnown'
  <2>Refill. CASE Refill(t)
    <3>1. PICK fresh \in Buffer :
              /\ pc[t] = "refill" /\ allotted < MaxBuffers /\ fresh = allotted + 1
              /\ mapped' = mapped \cup {fresh} /\ allotted' = fresh
              /\ UNCHANGED <<target, prev_buffer, prev_prev_buffer>>
      BY <2>Refill DEF Refill, Map
    <3>2. QED
      BY <3>1, <1>m, <1>k DEF BuffersKnown, Moved
  <2>q. QED
    BY <1>t, <2>Refill
<1>Cleanup. CASE Cleanup
  <2>1. /\ mapped' = mapped \ {d \in gc_compact_dead_tlab_list_prev : live_count[d] = 0}
        /\ UNCHANGED <<allotted, target, prev_buffer, prev_prev_buffer>>
    BY <1>Cleanup DEF Cleanup
  <2>2. QED
    BY <2>1, <1>g, <1>k DEF BuffersKnown, Moved
<1>BeginCompact. CASE BeginCompact
  <2>1. /\ \/ \E fresh \in Buffer : /\ gcpc = "size" /\ Listed # {} /\ allotted < MaxBuffers
                                    /\ fresh = allotted + 1 /\ mapped' = mapped \cup {fresh}
                                    /\ allotted' = fresh /\ target' = fresh
           \/ gcpc = "size" /\ UNCHANGED <<mapped, allotted, target>>
        /\ UNCHANGED <<prev_buffer, prev_prev_buffer>>
    BY <1>BeginCompact DEF BeginCompact, Map, MayFail
  <2>2. ASSUME NEW fresh \in Buffer, gcpc = "size", Listed # {}, allotted < MaxBuffers, fresh = allotted + 1,
               mapped' = mapped \cup {fresh}, allotted' = fresh, target' = fresh
        PROVE  BuffersKnown'
    BY <2>1, <2>2, <1>d, <1>m, <1>k DEF BuffersKnown, Moved
  <2>3. ASSUME gcpc = "size", UNCHANGED <<mapped, allotted, target>>
        PROVE  BuffersKnown'
    BY <2>1, <2>3, <1>d, <1>m, <1>k DEF BuffersKnown, Moved
  <2>4. QED
    BY <2>1, <2>2, <2>3
<1>EndCompact. CASE EndCompact
  <2>1. /\ gcpc = "copy" /\ nodes = {} /\ left = {} /\ mapped' = mapped \ {prev_prev_buffer} /\ target' = Null
        /\ prev_buffer' = target /\ prev_prev_buffer' = prev_buffer /\ UNCHANGED allotted
    BY <1>EndCompact DEF EndCompact
  <2>2. QED
    BY <2>1, <1>k DEF BuffersKnown, Moved
<1>q. QED
  BY <1>b, <1>f, <1>t, <1>Cleanup, <1>BeginCompact, <1>EndCompact, Keeps_allotted, Keeps_mapped,
     Keeps_prev_buffer, Keeps_prev_prev_buffer, Keeps_target

(* A buffer that has not been mapped is nowhere.                           *)
LEMMA FreshKnown ==
  ASSUME Ground, Kept, NEW b \in Buffer, b > allotted
  PROVE  /\ b \notin mapped /\ b \notin Moved /\ b \notin GivenUp \cup gc_dead_tlab_list
         /\ \A o \in Listed : node_base[o] # b
         /\ \A t \in Threads : b \notin {tlab_base[t], tlab_cursor[t].buffer, cursor[t].buffer, buffer[t],
            base[t]}
         /\ gcpc \in HasOld => old # b
         /\ live_count[b] = 0 /\ Slack(b) = 0
<1>1. b \notin mapped
  <2>1. b \in Int /\ allotted \in Int
    BY TypesSplit DEF Ground, Typed, MemoryTyped, Buffer
  <2>2. QED
    BY <2>1 DEF Kept, BuffersKnown
<1>2. b \notin Moved /\ b \notin GivenUp \cup gc_dead_tlab_list /\ (gcpc \in HasOld => old # b)
  BY <1>1 DEF Kept, BuffersKnown, DoomKnown
<1>3. \A o \in Listed : node_base[o] # b
  BY <1>1 DEF Kept, PlacesKnown, Buffer, Null
<1>4. \A t \in Threads : b \notin {tlab_base[t], tlab_cursor[t].buffer, cursor[t].buffer, buffer[t], base[t]}
  <2>1. ~(b <= allotted)
    BY TypesSplit DEF Ground, Typed, MemoryTyped, Buffer
  <2>2. \A t \in Threads : ~Uses(t, b)
    BY <2>1 DEF Kept, UsesKnown
  <2>3. QED
    BY <2>2 DEF Uses
<1>5. live_count[b] = 0
  BY DEF Kept, CountsKnown
<1>6. InBuffer(b) = {} /\ Counted(b) = {} /\ Due(b) = 0
  BY <1>2, <1>3, <1>4 DEF InBuffer, Counted, Due, HasOld
<1>7. Slack(b) = 0
  BY <1>5, <1>6, FS_EmptySet DEF Slack, Weight
<1>8. QED
  BY <1>1, <1>2, <1>3, <1>4, <1>5, <1>7

LEMMA SlackKept ==
  ASSUME Ground, Ground', Kept, Step, NEW b \in Buffer
  PROVE  Slack(b)' = Slack(b) \/ (Begin /\ b = prev_buffer)
<1>1. ASSUME gcpc = "store"
      PROVE  node_base[node] # target
  <2>1. node \in alloc_list[thread] /\ thread \in Threads /\ gc_compacting = 1
    BY <1>1, HandsKnown DEF Ground, Typed, ListsApart, CycleKnown, Copying
  <2>2. node \in Listed
    BY <2>1 DEF Listed
  <2>3. QED
    BY <1>1, <2>1, <2>2 DEF Kept, RoomKnown
<1>2. QED
  BY <1>1, SlackStep DEF Kept

LEMMA SlackReads ==
  ASSUME Ground, NEW b \in Buffer
  PROVE  /\ Exact(b) <=> Slack(b) = 0
         /\ Poisoned(b) <=> Slack(b) >= Poison - bound.objects
         /\ Slack(b) \in Int
<1>1. live_count[b] \in Int /\ Weight(b) \in Nat
  BY WeightKnown
<1>2. Poison \in Int /\ bound.objects \in Int
  <2>1. bound \in Bounds
    BY DEF Ground, TypeOK
  <2>2. bound.objects \in Nat
    BY <2>1, BoundKnown
  <2>3. QED
    BY <2>2, ConstantsKnown
<1>3. QED
  BY <1>1, <1>2 DEF Exact, Poisoned, Slack

LEMMA MappedStep ==
  ASSUME Ground, Step
  PROVE  \A b \in Buffer : b \in mapped' /\ b \notin {prev_buffer', prev_prev_buffer'} =>
           \/ b \in mapped /\ b \notin {prev_buffer, prev_prev_buffer}
           \/ b > allotted
<1>b. bound.threads \subseteq Threads
  BY BoundKnown DEF Ground, TypeOK
<1>m. allotted \in Nat
  BY TypesSplit DEF Ground, Typed, MemoryTyped
<1>f. CASE UNCHANGED <<mapped, prev_buffer, prev_prev_buffer>>
  BY <1>f
<1>t. ASSUME NEW t \in Threads, t \in bound.threads, Refill(t)
      PROVE  \A b \in Buffer : b \in mapped' /\ b \notin {prev_buffer', prev_prev_buffer'} =>
           \/ b \in mapped /\ b \notin {prev_buffer, prev_prev_buffer}
           \/ b > allotted
  <2>Refill. CASE Refill(t)
    <3>1. PICK c \in Buffer : mapped' = mapped \cup {c} /\ c = allotted + 1 /\ UNCHANGED <<prev_buffer,
              prev_prev_buffer>>
      BY <2>Refill DEF Refill, Map
    <3>2. QED
      BY <3>1, <1>m
  <2>q. QED
    BY <1>t, <2>Refill
<1>Cleanup. CASE Cleanup
  <2>1. /\ mapped' = mapped \ {d \in gc_compact_dead_tlab_list_prev : live_count[d] = 0}
        /\ UNCHANGED <<prev_buffer, prev_prev_buffer>>
    BY <1>Cleanup DEF Cleanup
  <2>2. QED
    BY <2>1
<1>BeginCompact. CASE BeginCompact
  <2>1. \/ UNCHANGED mapped
        \/ \E c \in Buffer : mapped' = mapped \cup {c} /\ c = allotted + 1
    BY <1>BeginCompact DEF BeginCompact, Map
  <2>2. UNCHANGED <<prev_buffer, prev_prev_buffer>>
    BY <1>BeginCompact DEF BeginCompact
  <2>3. QED
    BY <2>1, <2>2, <1>m
<1>EndCompact. CASE EndCompact
  <2>1. mapped' = mapped \ {prev_prev_buffer} /\ prev_buffer' = target /\ prev_prev_buffer' = prev_buffer
    BY <1>EndCompact DEF EndCompact
  <2>2. QED
    BY <2>1
<1>q. QED
  BY <1>b, <1>f, <1>t, <1>Cleanup, <1>BeginCompact, <1>EndCompact, Keeps_mapped, Keeps_prev_buffer,
     Keeps_prev_prev_buffer

LEMMA BeyondCounted ==
  ASSUME Ground, Ground', Kept, lapse' = {}, Step
  PROVE  \A b \in Buffer : b > allotted' => live_count'[b] = 0
<1>b. bound.threads \subseteq Threads
  BY BoundKnown DEF Ground, TypeOK
<1>k. /\ \A b \in Buffer : b > allotted => live_count[b] = 0
      /\ live_count \in [Buffer -> Int] /\ allotted \in Int /\ \A b \in Buffer : b \in Int
  BY TypesSplit DEF Kept, CountsKnown, Ground, Typed, MemoryTyped, Buffer
<1>f2. \A b \in Buffer : b > allotted =>
         /\ b \notin Moved /\ (\A o \in Listed : node_base[o] # b) /\ (\A t \in Threads : base[t] # b)
         /\ (gcpc \in HasOld => old # b)
  BY FreshKnown
<1>f. CASE UNCHANGED <<live_count, allotted>>
  BY <1>f, <1>k
<1>t. ASSUME NEW t \in Threads, t \in bound.threads, Count(t) \/ Refill(t)
      PROVE  \A b \in Buffer : b > allotted' => live_count'[b] = 0
  <2>Count. CASE Count(t)
    <3>1. CASE base[t] = Null
      BY <2>Count, <3>1, <1>k DEF Count
    <3>2. CASE base[t] # Null
      <4>1. live_count' = [live_count EXCEPT ![base[t]] = @ + 1] /\ UNCHANGED allotted
        BY <2>Count, <3>2 DEF Count
      <4>2. \A b \in Buffer : b > allotted => base[t] # b
        BY <1>f2
      <4>3. QED
        BY <4>1, <4>2, <1>k
    <3>3. QED
      BY <3>1, <3>2
  <2>Refill. CASE Refill(t)
    <3>1. PICK fresh \in Buffer :
              fresh = allotted + 1 /\ allotted' = fresh /\ UNCHANGED live_count
      BY <2>Refill DEF Refill, Map
    <3>2. QED
      BY <3>1, <1>k
  <2>q. QED
    BY <1>t, <2>Count, <2>Refill
<1>Begin. CASE Begin
  <2>1. /\ live_count' = [b \in Buffer |-> IF b = prev_buffer THEN Poison ELSE live_count[b]]
        /\ UNCHANGED allotted
    BY <1>Begin DEF Begin
  <2>2. \A b \in Buffer : b > allotted => b # prev_buffer
    BY <1>f2 DEF Moved, Buffer, Null
  <2>3. QED
    BY <2>1, <2>2, <1>k
<1>FreeInBuffer. CASE FreeInBuffer
  <2>1. PICK o \in nodes :
          /\ live_count' = [c \in Buffer |-> IF c = node_base[o] THEN live_count[c] - 1 ELSE live_count[c]]
          /\ UNCHANGED allotted
    BY <1>FreeInBuffer DEF FreeInBuffer
  <2>2. \A b \in Buffer : b > allotted => b # node_base[o]
    BY <1>f2 DEF Listed
  <2>3. QED
    BY <2>1, <2>2, <1>k
<1>BeginCompact. CASE BeginCompact
  <2>1. /\ \/ \E fresh \in Buffer : fresh = allotted + 1 /\ allotted' = fresh
           \/ UNCHANGED allotted
        /\ UNCHANGED live_count
    BY <1>BeginCompact DEF BeginCompact, Map, MayFail
  <2>2. QED
    BY <2>1, <1>k
<1>StoreHandle. CASE StoreHandle
  <2>1. gcpc = "store" /\ live_count' = [live_count EXCEPT ![target] = @ + 1] /\ UNCHANGED allotted
    BY <1>StoreHandle DEF StoreHandle
  <2>2. target \in Buffer
    BY <2>1, HandsKnown DEF Ground, Typed, Copying
  <2>3. \A b \in Buffer : b > allotted => b # target
    BY <1>f2, <2>2 DEF Moved, Buffer, Null
  <2>4. QED
    BY <2>1, <2>2, <2>3, <1>k
<1>Decrement. CASE Decrement
  <2>1. gcpc = "decrement" /\ live_count' = [live_count EXCEPT ![old] = @ - 1] /\ UNCHANGED allotted
    BY <1>Decrement DEF Decrement
  <2>2. \A b \in Buffer : b > allotted => b # old
    BY <1>f2, <2>1 DEF HasOld
  <2>3. QED
    BY <2>1, <2>2, <1>k
<1>q. QED
  BY <1>b, <1>f, <1>t, <1>Begin, <1>FreeInBuffer, <1>BeginCompact, <1>StoreHandle, <1>Decrement,
    Keeps_allotted, Keeps_live_count

LEMMA IdleStays ==
  ASSUME Step
  PROVE  gcpc = "idle" => gcpc' = "idle" \/ Begin
<1>f. CASE UNCHANGED <<gcpc>>
  BY <1>f
<1>moves. CASE Mark \/ Cleanup \/ Steal \/ FreeInBuffer \/ LoadOldHead \/ Prepend \/ Recheck \/ IsCurrent
               \/ ResetBase \/ ResetCursor \/ ResetLimit \/ BeginCompact \/ Copy \/ StoreHandle \/
               Decrement \/ RecheckOld \/ Defer \/ EndCompact
  BY <1>moves, SweepMoves, CompactMoves DEF Back
<1>Begin. CASE Begin
  BY <1>Begin
<1>q. QED
  BY <1>f, <1>moves, <1>Begin, Keeps_gcpc

(* The same, buffer by buffer.                                             *)
CountsBySlack ==
  \A b \in Buffer :
    /\ b \in mapped /\ b \notin {prev_buffer, prev_prev_buffer} => Slack(b) = 0
    /\ b = prev_buffer => Slack(b) >= Poison - bound.objects \/ (gcpc = "idle" /\ Slack(b) = 0)
    /\ b = prev_prev_buffer => Slack(b) >= Poison - bound.objects
    /\ b > allotted => live_count[b] = 0

LEMMA CountsRead == Ground => (CountsKnown <=> CountsBySlack)
<1> SUFFICES ASSUME Ground PROVE CountsKnown <=> CountsBySlack
  OBVIOUS
<1>1. \A b \in Buffer : /\ Exact(b) <=> Slack(b) = 0
                        /\ Poisoned(b) <=> Slack(b) >= Poison - bound.objects
  BY SlackReads
<1>2. /\ mapped \subseteq Buffer /\ \A b \in Buffer : b # Null
      /\ prev_buffer \in Buffer \cup {Null} /\ prev_prev_buffer \in Buffer \cup {Null}
  BY TypesSplit DEF Ground, Typed, MemoryTyped, CompactTyped, Buffer, Null
<1>3. QED
  BY <1>1, <1>2 DEF CountsKnown, CountsBySlack

FewObjects ==
  \A c \in Buffer : /\ Cardinality(InBuffer(c)) \in Nat /\ Cardinality(Counted(c)) \in Nat
                    /\ Cardinality(InBuffer(c)) + Cardinality(Counted(c)) <= bound.objects

LEMMA ObjectsFew == Ground => FewObjects
BY WeightKnown DEF FewObjects

LEMMA CountsStep ==
  ASSUME Ground, Ground', Kept, lapse' = {}, Step
  PROVE  CountsKnown'
<1>u. bound' = bound
  BY Keeps_bound
<1>s. \A b \in Buffer : Slack(b)' = Slack(b) \/ (Begin /\ b = prev_buffer)
  BY SlackKept
<1>c. CountsBySlack
  BY CountsRead DEF Kept
<1>n. mapped' \subseteq Buffer
  BY DEF Ground, TypeOK
<1>m. /\ mapped \subseteq Buffer /\ mapped' \subseteq Buffer /\ \A b \in Buffer : b # Null
      /\ prev_buffer \in Buffer \cup {Null} /\ prev_prev_buffer \in Buffer \cup {Null}
      /\ target \in Buffer \cup {Null}
  BY <1>n, TypesSplit DEF Ground, Typed, MemoryTyped, CompactTyped, Buffer, Null
<1>k. /\ Moved \subseteq mapped
      /\ target # Null => target # prev_buffer /\ target # prev_prev_buffer
      /\ prev_buffer # Null => prev_buffer # prev_prev_buffer
  BY DEF Kept, BuffersKnown
<1>1. ASSUME NEW b \in Buffer, b \in mapped', b \notin {prev_buffer', prev_prev_buffer'}
      PROVE  Slack(b)' = 0
  <2>1. \/ b \in mapped /\ b \notin {prev_buffer, prev_prev_buffer}
        \/ b > allotted
    BY <1>1, MappedStep
  <2>2. Slack(b) = 0 /\ b # prev_buffer
    <3>1. CASE b > allotted
      BY <3>1, FreshKnown, <1>m DEF Moved
    <3>2. CASE b \in mapped /\ b \notin {prev_buffer, prev_prev_buffer}
      BY <3>2, <1>c DEF CountsBySlack
    <3>3. QED
      BY <2>1, <3>1, <3>2
  <2>3. QED
    BY <2>2, <1>s
<1>2. \A b \in Buffer : b > allotted' => live_count'[b] = 0
  BY BeyondCounted
<1>3. ASSUME EndCompact, NEW b \in Buffer
      PROVE  /\ b = prev_buffer' => gcpc' = "idle" /\ Slack(b)' = 0
             /\ b = prev_prev_buffer' => Slack(b)' >= Poison - bound.objects
  <2>1. /\ gcpc = "copy" /\ gcpc' = "idle" /\ prev_buffer' = target /\ prev_prev_buffer' = prev_buffer
    BY <1>3 DEF EndCompact
  <2>2. Slack(b)' = Slack(b)
    BY <2>1, <1>s DEF Begin
  <2>3. b = target => b \in mapped /\ b \notin {prev_buffer, prev_prev_buffer}
    BY <1>k, <1>m DEF Moved
  <2>4. QED
    BY <2>1, <2>2, <2>3, <1>c DEF CountsBySlack
<1>4. ASSUME Begin, NEW b \in Buffer
      PROVE  /\ b = prev_buffer' => Slack(b)' >= Poison - bound.objects
             /\ b = prev_prev_buffer' => Slack(b)' >= Poison - bound.objects
  <2>1. /\ live_count' = [c \in Buffer |-> IF c = prev_buffer THEN Poison ELSE live_count[c]]
        /\ gcpc' = "wait" /\ UNCHANGED <<prev_buffer, prev_prev_buffer>>
    BY <1>4 DEF Begin
  <2>2. CASE b = prev_buffer
    <3>1. live_count'[b] = Poison
      BY <2>1, <2>2
    <3>2. /\ Cardinality(InBuffer(b)') \in Nat /\ Cardinality(Counted(b)') \in Nat
          /\ Cardinality(InBuffer(b)') + Cardinality(Counted(b)') <= bound'.objects
      <4>1. (Ground => FewObjects)'
        BY ObjectsFew, PTL
      <4>2. QED
        BY <4>1 DEF FewObjects
    <3>3. Due(b)' = 0
      BY <2>1 DEF Due
    <3>4. bound.objects \in Nat /\ Poison \in Int
      BY BoundKnown, ConstantsKnown DEF Ground, TypeOK
    <3>5. Slack(b)' >= Poison - bound.objects
      BY <3>1, <3>2, <3>3, <3>4, <1>u DEF Slack, Weight
    <3>6. QED
      BY <3>5
  <2>3. CASE b # prev_buffer
    BY <2>1, <2>3, <1>s, <1>c DEF CountsBySlack
  <2>4. QED
    BY <2>2, <2>3
<1>5. ASSUME ~EndCompact, ~Begin, NEW b \in Buffer
      PROVE  /\ b = prev_buffer' => Slack(b)' >= Poison - bound.objects \/ (gcpc' = "idle" /\ Slack(b)' = 0)
             /\ b = prev_prev_buffer' => Slack(b)' >= Poison - bound.objects
  <2>1. UNCHANGED <<prev_buffer, prev_prev_buffer>>
    BY <1>5, Keeps_prev_buffer, Keeps_prev_prev_buffer
  <2>2. Slack(b)' = Slack(b)
    BY <1>5, <1>s
  <2>3. gcpc = "idle" => gcpc' = "idle"
    BY <1>5, IdleStays
  <2>4. QED
    BY <2>1, <2>2, <2>3, <1>c DEF CountsBySlack
<1>6. CountsBySlack'
  BY <1>1, <1>2, <1>3, <1>4, <1>5, <1>u DEF CountsBySlack
<1>7. (Ground => (CountsKnown <=> CountsBySlack))'
  BY CountsRead, PTL
<1>8. QED
  BY <1>6, <1>7

UsesFields(t, b) == b \in {tlab_base[t], tlab_cursor[t].buffer, cursor[t].buffer, buffer[t], base[t]}
UsesOld(t, b)    == gcpc \in HasOld /\ thread = t /\ old = b /\ b # prev_buffer
UsesOwn(t, b)    == b \notin Moved /\ \E o \in Own(t) : node_base[o] = b

UsesTold ==
  \A t \in Threads : \A b \in Buffer : Uses(t, b) <=> UsesFields(t, b) \/ UsesOld(t, b) \/ UsesOwn(t, b)

LEMMA UsesSplit == UsesTold
BY DEF UsesTold, Uses, UsesFields, UsesOld, UsesOwn

LEMMA FieldsGrow ==
  ASSUME Ground, Step
  PROVE  \A u \in Threads : \A c \in Buffer :
           UsesFields(u, c)' => UsesFields(u, c) \/ (c > allotted /\ c <= allotted' /\ pc'[u] # pc[u])
<1>b. bound.threads \subseteq Threads
  BY BoundKnown DEF Ground, TypeOK
<1>k. /\ tlab_base = [u \in Threads |-> tlab_base[u]] /\ tlab_cursor = [u \in Threads |-> tlab_cursor[u]]
      /\ cursor = [u \in Threads |-> cursor[u]] /\ buffer = [u \in Threads |-> buffer[u]]
      /\ base = [u \in Threads |-> base[u]] /\ pc = [u \in Threads |-> pc[u]]
      /\ tlab_cursor \in [Threads -> Cursor] /\ allotted \in Int /\ \A b \in Buffer : b # Null
  BY TypesSplit DEF Ground, Typed, FieldsTyped, CursorsTyped, PcTyped, MemoryTyped, Buffer, Null
<1>f. CASE UNCHANGED <<tlab_base, tlab_cursor, cursor, buffer, base>>
  BY <1>f, <1>k DEF UsesFields, NoCursor
<1>t. ASSUME NEW t \in Threads, t \in bound.threads,
               LoadCursor(t) \/ CasCursor(t) \/ LoadBase(t) \/ Malloc(t) \/ Publish(t) \/ Refill(t) \/
             StoreBase(t) \/ StoreCursor(t) \/ StoreLimit(t)
      PROVE  \A u \in Threads : \A c \in Buffer :
           UsesFields(u, c)' => UsesFields(u, c) \/ (c > allotted /\ c <= allotted' /\ pc'[u] # pc[u])
  <2>LoadCursor. CASE LoadCursor(t)
    <3>1. /\ cursor' = [cursor EXCEPT ![t] = IF HasSpace(t) THEN tlab_cursor[t] ELSE NoCursor]
          /\ UNCHANGED <<tlab_base, tlab_cursor, buffer, base>>
      BY <2>LoadCursor DEF LoadCursor, HasSpace
    <3>2. QED
      BY <3>1, <1>k DEF UsesFields, NoCursor, NoCursor
  <2>CasCursor. CASE CasCursor(t)
    <3>1. CASE tlab_cursor[t] = cursor[t]
      <4>1. tlab_cursor' = [tlab_cursor EXCEPT ![t].next = @ + 1] /\ UNCHANGED <<tlab_base, cursor, buffer,
                base>>
        BY <2>CasCursor, <3>1 DEF CasCursor
      <4>2. \A u \in Threads : tlab_cursor'[u].buffer = tlab_cursor[u].buffer
        BY <4>1, <1>k, CursorBumped DEF Cursor
      <4>3. QED
        BY <4>1, <4>2 DEF UsesFields
    <3>2. CASE tlab_cursor[t] # cursor[t]
      <4>1. UNCHANGED <<tlab_base, tlab_cursor, cursor, buffer, base>>
        BY <2>CasCursor, <3>2 DEF CasCursor
      <4>2. QED
        BY <4>1 DEF UsesFields
    <3>3. QED
      BY <3>1, <3>2
  <2>LoadBase. CASE LoadBase(t)
    <3>1. base' = [base EXCEPT ![t] = tlab_base[t]] /\ UNCHANGED <<tlab_base, tlab_cursor, cursor, buffer>>
      BY <2>LoadBase DEF LoadBase
    <3>2. QED
      BY <3>1, <1>k DEF UsesFields, NoCursor
  <2>Malloc. CASE Malloc(t)
    <3>1. base' = [base EXCEPT ![t] = Null] /\ UNCHANGED <<tlab_base, tlab_cursor, cursor, buffer>>
      BY <2>Malloc DEF Malloc
    <3>2. QED
      BY <3>1, <1>k DEF UsesFields, NoCursor
  <2>Publish. CASE Publish(t)
    <3>1. /\ cursor' = [cursor EXCEPT ![t] = NoCursor] /\ base' = [base EXCEPT ![t] = Null]
          /\ UNCHANGED <<tlab_base, tlab_cursor, buffer>>
      BY <2>Publish DEF Publish
    <3>2. QED
      BY <3>1, <1>k DEF UsesFields, NoCursor
  <2>Refill. CASE Refill(t)
    <3>1. PICK b \in Buffer :
            /\ pc[t] = "refill" /\ pc' = [pc EXCEPT ![t] = "store_base"] /\ b = allotted + 1 /\ allotted' = b
            /\ buffer' = [buffer EXCEPT ![t] = b] /\ UNCHANGED <<tlab_base, tlab_cursor, cursor, base>>
      BY <2>Refill DEF Refill, Map
    <3>2. pc'[t] = "store_base" /\ b > allotted /\ b <= allotted'
      BY <3>1, <1>k
    <3>3. QED
      BY <3>1, <3>2, <1>k DEF UsesFields
  <2>StoreBase. CASE StoreBase(t)
    <3>1. tlab_base' = [tlab_base EXCEPT ![t] = buffer[t]] /\ UNCHANGED <<tlab_cursor, cursor, buffer, base>>
      BY <2>StoreBase DEF StoreBase
    <3>2. QED
      BY <3>1, <1>k DEF UsesFields, NoCursor
  <2>StoreCursor. CASE StoreCursor(t)
    <3>1. /\ tlab_cursor' = [tlab_cursor EXCEPT ![t] = [buffer |-> buffer[t], next |-> 1]]
          /\ UNCHANGED <<tlab_base, cursor, buffer, base>>
      BY <2>StoreCursor DEF StoreCursor
    <3>2. QED
      BY <3>1, <1>k DEF UsesFields, NoCursor
  <2>StoreLimit. CASE StoreLimit(t)
    <3>1. buffer' = [buffer EXCEPT ![t] = Null] /\ UNCHANGED <<tlab_base, tlab_cursor, cursor, base>>
      BY <2>StoreLimit DEF StoreLimit
    <3>2. QED
      BY <3>1, <1>k DEF UsesFields, NoCursor
  <2>q. QED
    BY <1>t, <2>LoadCursor, <2>CasCursor, <2>LoadBase, <2>Malloc, <2>Publish, <2>Refill, <2>StoreBase,
      <2>StoreCursor, <2>StoreLimit
<1>ResetBase. CASE ResetBase
  <2>1. tlab_base' = [tlab_base EXCEPT ![thread] = Null] /\ UNCHANGED <<tlab_cursor, cursor, buffer, base>>
    BY <1>ResetBase DEF ResetBase
  <2>2. QED
    BY <2>1, <1>k DEF UsesFields, NoCursor
<1>ResetCursor. CASE ResetCursor
  <2>1. /\ tlab_cursor' = [tlab_cursor EXCEPT ![thread] = NoCursor]
        /\ UNCHANGED <<tlab_base, cursor, buffer, base>>
    BY <1>ResetCursor DEF ResetCursor
  <2>2. QED
    BY <2>1, <1>k DEF UsesFields, NoCursor
<1>q. QED
  BY <1>b, <1>f, <1>t, <1>ResetBase, <1>ResetCursor, Keeps_base, Keeps_buffer, Keeps_cursor, Keeps_tlab_base,
     Keeps_tlab_cursor

LEMMA OwnGrows ==
  ASSUME Ground, PlacesKnown, Step
  PROVE  \A u \in Threads : \A c \in Buffer : UsesOwn(u, c)' => UsesOwn(u, c) \/ UsesFields(u, c)
<1>b. bound.threads \subseteq Threads
  BY BoundKnown DEF Ground, TypeOK
<1>c. /\ \A t \in left : t \in Threads
      /\ nodes # {} \/ gcpc \in {"sweep", "prepend", "store"} \cup HasOld => thread \in Threads
      /\ gc_compacting = 0 \/ gc_compacting = 1
  BY HandsKnown, TypesSplit DEF Ground, Typed, CompactTyped
<1>l. /\ \A t \in left : t \in Threads
      /\ nodes # {} \/ gcpc = "prepend" => thread \in Threads
      /\ gcpc = "steal" => nodes = {} /\ survivors = {}
      /\ gcpc = "prepend" => nodes = {} /\ gc_compacting = 0
      /\ gcpc = "copy" => gc_compacting = 1 /\ survivors = {}
      /\ gcpc = "size" => target = Null
      /\ alloc_list \in [Threads -> SUBSET Object]
  BY <1>c DEF Ground, CycleKnown, ListsApart, Copying, Taking, HasOld, TypeOK
<1>n. node_base \in [Object -> Buffer \cup {Null}] /\ \A c \in Buffer : c # Null
  BY TypesSplit DEF Ground, Typed, ObjectsTyped, Buffer, Null
<1>e. \A u \in Threads : \A o \in Own(u) : o \in Listed /\ o \in Object
  BY ListedFinite DEF Ground, Typed, Own, Listed
<1>g. \A o \in Listed : node_base[o] # prev_prev_buffer \/ node_base[o] = Null
  BY DEF PlacesKnown
<1>f. CASE UNCHANGED <<alloc_list, nodes, survivors, gc_compacting, thread, node_base, target,
                prev_buffer, prev_prev_buffer>>
  BY <1>f, <1>l DEF UsesOwn, Own, Moved
<1>t. ASSUME NEW t \in Threads, t \in bound.threads, Publish(t)
      PROVE  \A u \in Threads : \A c \in Buffer : UsesOwn(u, c)' => UsesOwn(u, c) \/ UsesFields(u, c)
  <2>Publish. CASE Publish(t)
    <3>1. /\ alloc_list' = [alloc_list EXCEPT ![t] = @ \cup {next_object}]
          /\ UNCHANGED <<nodes, survivors, gc_compacting, thread, target, prev_buffer, prev_prev_buffer>>
      BY <2>Publish DEF Publish
    <3>2. /\ node_base'[next_object] = base[t] /\ \A o \in Object : node_base'[o] = node_base[o]
      BY <2>Publish, PublishKnown
    <3>3. \A u \in Threads : Own(u)' \subseteq Own(u) \cup (IF u = t THEN {next_object} ELSE {})
      BY <3>1, <1>l DEF Own
    <3>4. Moved' = Moved
      BY <3>1 DEF Moved
    <3>5. QED
      BY <3>2, <3>3, <3>4, <1>e DEF UsesOwn, UsesFields
  <2>q. QED
    BY <1>t, <2>Publish
<1>Steal. CASE Steal
  <2>1. /\ \/ \E u \in left : /\ gcpc = "steal" /\ alloc_list' = [alloc_list EXCEPT ![u] = {}] /\ thread' = u
                              /\ nodes' = alloc_list[u] /\ survivors' = {}
           \/ gcpc = "steal" /\ left = {} /\ UNCHANGED <<alloc_list, thread, nodes, survivors>>
        /\ UNCHANGED <<gc_compacting, node_base, target, prev_buffer, prev_prev_buffer>>
    BY <1>Steal DEF Steal
  <2>2. QED
    BY <2>1, <1>l DEF UsesOwn, Own, Moved
<1>Keep. CASE Keep
  <2>1. PICK n \in nodes :
            /\ gcpc = "sweep" /\ ~Dead(n) /\ nodes' = nodes \ {n} /\ survivors' = survivors \cup {n}
            /\ UNCHANGED <<alloc_list, gc_compacting, thread, node_base, target, prev_buffer, prev_prev_buffer>>
    BY <1>Keep DEF Keep, Dead
  <2>2. QED
    BY <2>1, <1>l DEF UsesOwn, Own, Moved
<1>FreeBlock. CASE FreeBlock
  <2>1. PICK n \in nodes :
            /\ gcpc = "sweep" /\ Dead(n) /\ ~flag_tlab[n] /\ nodes' = nodes \ {n}
            /\ UNCHANGED <<alloc_list, survivors, gc_compacting, thread, node_base, target, prev_buffer,
               prev_prev_buffer>>
    BY <1>FreeBlock DEF FreeBlock, Dead
  <2>2. QED
    BY <2>1, <1>l DEF UsesOwn, Own, Moved
<1>FreeInBuffer. CASE FreeInBuffer
  <2>1. /\ \/ \E n \in nodes : /\ gcpc = "sweep" /\ Dead(n) /\ flag_tlab[n] /\ node_base[n] # Null
                               /\ live_count'[node_base[n]] = 0 /\ nodes' = nodes \ {n}
           \/ \E n \in nodes : /\ gcpc = "sweep" /\ Dead(n) /\ flag_tlab[n]
                               /\ (node_base[n] = Null \/ live_count'[node_base[n]] # 0)
                               /\ nodes' = nodes \ {n}
        /\ UNCHANGED <<alloc_list, survivors, gc_compacting, thread, node_base, target, prev_buffer,
           prev_prev_buffer>>
    BY <1>FreeInBuffer DEF FreeInBuffer, Touch, Dead
  <2>2. QED
    BY <2>1, <1>l DEF UsesOwn, Own, Moved
<1>Prepend. CASE Prepend
  <2>1. /\ \/ /\ gcpc = "prepend" /\ alloc_list[thread] = head
              /\ alloc_list' = [alloc_list EXCEPT ![thread] = head \cup survivors] /\ survivors' = {}
           \/ gcpc = "prepend" /\ UNCHANGED <<alloc_list, survivors>>
        /\ UNCHANGED <<nodes, gc_compacting, thread, node_base, target, prev_buffer, prev_prev_buffer>>
    BY <1>Prepend DEF Prepend
  <2>2. QED
    BY <2>1, <1>l DEF UsesOwn, Own, Moved
<1>BeginCompact. CASE BeginCompact
  <2>1. /\ \/ \E fresh \in Buffer : /\ gcpc = "size" /\ Listed # {} /\ allotted < MaxBuffers
                                    /\ fresh = allotted + 1 /\ gc_compacting' = 1 /\ target' = fresh
           \/ gcpc = "size" /\ UNCHANGED <<gc_compacting, target>>
        /\ UNCHANGED <<alloc_list, nodes, survivors, thread, node_base, prev_buffer, prev_prev_buffer>>
    BY <1>BeginCompact DEF BeginCompact, Map, MayFail
  <2>2. QED
    BY <2>1, <1>l, <1>n, <1>l DEF UsesOwn, Own, Moved
<1>CompactThread. CASE CompactThread
  <2>1. PICK u \in left :
            /\ gcpc = "copy" /\ nodes = {} /\ thread' = u /\ nodes' = alloc_list[u]
            /\ UNCHANGED <<alloc_list, survivors, gc_compacting, node_base, target, prev_buffer,
               prev_prev_buffer>>
    BY <1>CompactThread DEF CompactThread
  <2>2. QED
    BY <2>1, <1>l DEF UsesOwn, Own, Moved
<1>Skip. CASE Skip
  <2>1. PICK n \in nodes :
            /\ gcpc = "copy" /\ Stays(n) /\ nodes' = nodes \ {n}
            /\ UNCHANGED <<alloc_list, survivors, gc_compacting, thread, node_base, target, prev_buffer,
               prev_prev_buffer>>
    BY <1>Skip DEF Skip, Stays
  <2>2. QED
    BY <2>1, <1>l DEF UsesOwn, Own, Moved
<1>Copy. CASE Copy
  <2>1. PICK n \in nodes :
            /\ gcpc = "copy" /\ ~Stays(n) /\ nodes' = nodes \ {n}
            /\ UNCHANGED <<alloc_list, survivors, gc_compacting, thread, node_base, target, prev_buffer,
               prev_prev_buffer>>
    BY <1>Copy DEF Copy, Stays
  <2>2. QED
    BY <2>1, <1>l DEF UsesOwn, Own, Moved
<1>StoreHandle. CASE StoreHandle
  <2>1. /\ gcpc = "store" /\ node_base' = [node_base EXCEPT ![node] = target]
        /\ UNCHANGED <<alloc_list, nodes, survivors, gc_compacting, thread, target, prev_buffer,
           prev_prev_buffer>>
    BY <1>StoreHandle DEF StoreHandle
  <2>2. target \in Moved /\ node \in Object
    BY <2>1, HandsKnown DEF Ground, Typed, Copying, Moved, Buffer, Null
  <2>3. Moved' = Moved /\ \A u \in Threads : Own(u)' = Own(u)
    BY <2>1 DEF Moved, Own
  <2>4. \A o \in Object : o # node => node_base'[o] = node_base[o]
    BY <2>1
  <2>5. \A o \in Object : node_base'[o] \notin Moved => node_base'[o] = node_base[o]
    BY <2>1, <2>2, <2>4, <1>n
  <2>6. QED
    BY <2>3, <2>5, <1>e DEF UsesOwn
<1>EndCompact. CASE EndCompact
  <2>1. /\ gcpc = "copy" /\ nodes = {} /\ prev_prev_buffer' = prev_buffer /\ prev_buffer' = target
           /\ target' = Null
        /\ UNCHANGED <<alloc_list, nodes, survivors, thread, node_base>>
    BY <1>EndCompact DEF EndCompact
  <2>2. Moved' = Moved \ {prev_prev_buffer} \/ Moved' = Moved
    BY <2>1 DEF Moved
  <2>3. \A u \in Threads : Own(u)' \subseteq Own(u)
    BY <2>1, <1>l DEF Own
  <2>4. \A c \in Buffer : c \notin Moved' => c \notin Moved \/ c = prev_prev_buffer
    BY <2>2
  <2>5. \A c \in Buffer : c # Null
    BY <1>n
  <2>6. QED
    BY <2>1, <2>3, <2>4, <2>5, <1>e, <1>g DEF UsesOwn
<1>q. QED
  BY <1>b, <1>f, <1>t, <1>Steal, <1>Keep, <1>FreeBlock, <1>FreeInBuffer, <1>Prepend, <1>BeginCompact,
    <1>CompactThread, <1>Skip, <1>Copy, <1>StoreHandle, <1>EndCompact, Keeps_alloc_list, Keeps_gc_compacting,
        Keeps_node_base, Keeps_nodes, Keeps_prev_buffer, Keeps_prev_prev_buffer, Keeps_survivors,
            Keeps_target, Keeps_thread

(* The buffer an object is taken off is its thread's, unless it is one of  *)
(* a compaction.                                                           *)
LEMMA NodeOwned ==
  ASSUME Ground, Kept, NEW o \in Listed, NEW u \in Threads, o \in Own(u), node_base[o] # Null,
         node_base[o] # target, node_base[o] # prev_buffer
  PROVE  UsesOwn(u, node_base[o])
<1>1. node_base[o] # prev_prev_buffer
  BY DEF Kept, PlacesKnown
<1>2. QED
  BY <1>1 DEF UsesOwn, Moved

LEMMA StoreKnown ==
  ASSUME Ground, Kept, gcpc = "store"
  PROVE  /\ target \in Buffer /\ node \in Object /\ node \in Listed /\ thread \in Threads
         /\ node \in alloc_list[thread] /\ node \notin nodes /\ gc_compacting = 1
         /\ node_base[node] # target
<1>1. node \in alloc_list[thread] /\ thread \in Threads /\ gc_compacting = 1 /\ node \notin nodes
      /\ target \in Buffer /\ node \in Object
  BY HandsKnown DEF Ground, Typed, ListsApart, CycleKnown, Copying
<1>2. node \in Listed
  BY <1>1 DEF Listed
<1>3. QED
  BY <1>1, <1>2 DEF Kept, RoomKnown

WeightsRead == \A b \in Buffer : Weight(b) \in Nat /\ live_count[b] \in Int

LEMMA WeightsAre == Ground => WeightsRead
BY WeightKnown DEF WeightsRead

LEMMA OldGrows ==
  ASSUME Ground, Ground', Kept, Step
  PROVE  \A u \in Threads : \A c \in Buffer : UsesOld(u, c)' => UsesOld(u, c) \/ UsesOwn(u, c)
<1>b. bound.threads \subseteq Threads
  BY BoundKnown DEF Ground, TypeOK
<1>f. CASE UNCHANGED <<gcpc, thread, old, prev_buffer>>
  BY <1>f DEF UsesOld, HasOld, Taking
<1>moves. CASE Begin \/ Mark \/ Cleanup \/ LoadOldHead \/ Prepend \/ Recheck \/ IsCurrent \/ ResetBase \/
               ResetCursor \/ ResetLimit \/ BeginCompact \/ Copy \/ Decrement \/ RecheckOld \/ Defer
  <2>1. UNCHANGED <<thread, old, prev_buffer>>
    BY <1>moves, SweepLeaves, ReleaseLeaves, CompactLeaves
  <2>2. QED
    BY <1>moves, <2>1, SweepMoves, CompactMoves DEF UsesOld, HasOld, Taking, Back
<1>Steal. CASE Steal
  <2>1. /\ \/ \E u \in left : gcpc = "steal" /\ gcpc' = "sweep" /\ thread' = u
           \/ gcpc = "steal" /\ left = {} /\ gcpc' = "recheck" /\ UNCHANGED thread
        /\ UNCHANGED <<old, prev_buffer>>
    BY <1>Steal DEF Steal
  <2>2. QED
    BY <2>1 DEF UsesOld, HasOld, Taking
<1>FreeInBuffer. CASE FreeInBuffer
  <2>1. UNCHANGED <<thread, prev_buffer>>
    BY <1>FreeInBuffer DEF FreeInBuffer
  <2>2. PICK o \in nodes :
          /\ gcpc = "sweep" /\ nodes' = nodes \ {o} /\ UNCHANGED <<alloc_list, survivors>>
          /\ UNCHANGED <<gcpc, old>> \/ (node_base[o] # Null /\ old' = node_base[o])
    BY <1>FreeInBuffer DEF FreeInBuffer
  <2>3. o \in Listed /\ thread \in Threads /\ gc_compacting = 0
    BY <2>2, FreeListed
  <2>4. target = Null /\ o \in Own(thread)
    BY <2>3 DEF Ground, CycleKnown, Own
  <2>5. QED
    BY <2>1, <2>2, <2>3, <2>4, NodeOwned DEF UsesOld
<1>CompactThread. CASE CompactThread
  <2>1. PICK u \in left :
            gcpc = "copy" /\ nodes = {} /\ thread' = u /\ UNCHANGED <<gcpc, old, prev_buffer>>
    BY <1>CompactThread DEF CompactThread
  <2>2. QED
    BY <2>1 DEF UsesOld, HasOld, Taking
<1>StoreHandle. CASE StoreHandle
  <2>1. /\ gcpc = "store" /\ old' = node_base[node] /\ UNCHANGED <<thread, prev_buffer>>
    BY <1>StoreHandle DEF StoreHandle
  <2>2. node \in Listed /\ thread \in Threads /\ node \in Own(thread) /\ node_base[node] # target
    BY <2>1, StoreKnown DEF Own
  <2>3. \A c \in Buffer : c # Null
    BY DEF Buffer, Null
  <2>4. QED
    BY <2>1, <2>2, <2>3, NodeOwned DEF UsesOld
<1>EndCompact. CASE EndCompact
  <2>1. /\ gcpc = "copy" /\ nodes = {} /\ left = {} /\ gcpc' = "idle" /\ old' = Null /\ prev_buffer' = target
        /\ UNCHANGED thread
    BY <1>EndCompact DEF EndCompact
  <2>2. QED
    BY <2>1 DEF UsesOld, HasOld, Taking
<1>q. QED
  BY <1>b, <1>f, <1>moves, <1>Steal, <1>FreeInBuffer, <1>CompactThread, <1>StoreHandle,
    <1>EndCompact, Keeps_gcpc, Keeps_old, Keeps_prev_buffer, Keeps_thread

LEMMA OldNotPrev ==
  ASSUME Ground, Ground', Kept, Step
  PROVE  gcpc' \in HasOld \ {"decrement"} => old' # prev_buffer'
<1>b. bound.threads \subseteq Threads
  BY BoundKnown DEF Ground, TypeOK
<1>k. gcpc \in HasOld \ {"decrement"} => old # prev_buffer
  BY DEF Kept, UsesKnown
<1>c. CountsBySlack
  BY CountsRead DEF Kept
<1>p. Poison \in Int /\ bound.objects \in Int /\ Poison - bound.objects > 0
  <2>1. bound \in Bounds
    BY DEF Ground, TypeOK
  <2>2. bound.objects \in Nat /\ 2 * bound.objects < Poison
    BY <2>1, BoundKnown
  <2>3. QED
    BY <2>2, ConstantsKnown
<1>z. ASSUME gcpc # "idle", prev_buffer # Null
      PROVE  live_count'[prev_buffer] # 0
  <2>1. prev_buffer \in Buffer
    BY <1>z, TypesSplit DEF Ground, Typed, CompactTyped
  <2>2. ASSUME NEW b \in Buffer, b = prev_buffer
        PROVE  live_count'[b] # 0
    <3>1. Slack(b) >= Poison - bound.objects
      BY <1>z, <1>c, <2>2 DEF CountsBySlack
    <3>2. ~Begin
      BY <1>z DEF Begin
    <3>3. Slack(b)' = Slack(b)
      BY <3>2, SlackKept
    <3>4. (Ground => WeightsRead)'
      BY WeightsAre, PTL
    <3>5. Weight(b)' \in Nat /\ live_count'[b] \in Int
      BY <3>4 DEF WeightsRead
    <3>6. live_count'[b] = Slack(b)' + Weight(b)'
      BY <3>5 DEF Slack
    <3>7. Slack(b) \in Int
      BY SlackReads
    <3>8. QED
      BY <3>1, <3>3, <3>5, <3>6, <3>7, <1>p
  <2>3. QED
    BY <2>1, <2>2
<1>f. CASE UNCHANGED <<gcpc, old, prev_buffer>>
  BY <1>f, <1>k
<1>moves. CASE Begin \/ Mark \/ Cleanup \/ Steal \/ LoadOldHead \/ Prepend \/ Recheck \/ IsCurrent \/
               ResetBase \/ ResetCursor \/ ResetLimit \/ BeginCompact \/ Copy \/ RecheckOld \/ Defer
  <2>1. UNCHANGED <<old, prev_buffer>>
    BY <1>moves, SweepLeaves, ReleaseLeaves, CompactLeaves
  <2>2. QED
    BY <1>moves, <2>1, SweepMoves, CompactMoves, <1>k DEF HasOld, Taking, Back
<1>FreeInBuffer. CASE FreeInBuffer
  <2>1. PICK o \in nodes :
          \/ UNCHANGED <<gcpc, old, prev_buffer>>
          \/ /\ gcpc = "sweep" /\ node_base[o] # Null /\ old' = node_base[o] /\ live_count'[node_base[o]] = 0
             /\ UNCHANGED prev_buffer
    BY <1>FreeInBuffer DEF FreeInBuffer
  <2>2. ASSUME gcpc # "idle", node_base[o] # Null, node_base[o] = prev_buffer
        PROVE  live_count'[node_base[o]] # 0
    BY <2>2, <1>z, <1>FreeInBuffer DEF FreeInBuffer
  <2>3. QED
    BY <2>1, <2>2, <1>k
<1>StoreHandle. CASE StoreHandle
  <2>1. /\ gcpc = "store"
        /\ (gcpc' = IF flag_tlab[node] /\ node_base[node] # Null THEN "decrement" ELSE "copy")
        /\ old' = node_base[node] /\ UNCHANGED prev_buffer
    BY <1>StoreHandle DEF StoreHandle
  <2>2. QED
    BY <2>1, <1>k DEF HasOld, Taking
<1>Decrement. CASE Decrement
  <2>1. /\ gcpc = "decrement" /\ gcpc' = IF live_count[old] = 1 THEN "recheck_old" ELSE "copy"
        /\ UNCHANGED <<old, prev_buffer>>
    BY <1>Decrement DEF Decrement
  <2>2. ASSUME old = prev_buffer
        PROVE  live_count[old] # 1
    <3>1. old \in Buffer
      BY <2>1, HandsKnown DEF Ground, Typed, HasOld
    <3>2. Slack(old) >= Poison - bound.objects /\ Slack(old) \in Int
      BY <2>1, <2>2, <3>1, <1>c, SlackReads DEF CountsBySlack
    <3>3. Weight(old) \in Nat /\ Weight(old) >= 1
      BY <2>1, <3>1, WeightKnown DEF Weight, Due
    <3>4. live_count[old] \in Int
      BY <3>1, WeightKnown
    <3>5. QED
      BY <3>2, <3>3, <3>4, <1>p DEF Slack
  <2>3. QED
    BY <2>1, <2>2 DEF HasOld, Taking
<1>EndCompact. CASE EndCompact
  <2>1. gcpc = "copy" /\ nodes = {} /\ left = {} /\ gcpc' = "idle" /\ old' = Null /\ prev_buffer' = target
    BY <1>EndCompact DEF EndCompact
  <2>2. QED
    BY <2>1, <1>k DEF HasOld, Taking
<1>q. QED
  BY <1>b, <1>f, <1>moves, <1>FreeInBuffer, <1>StoreHandle, <1>Decrement, <1>EndCompact, Keeps_gcpc,
     Keeps_old, Keeps_prev_buffer

LEMMA OneMoves ==
  ASSUME Ground, Step
  PROVE  UNCHANGED pc \/ \E r \in Threads : \A u \in Threads \ {r} : pc'[u] = pc[u]
<1>b. bound.threads \subseteq Threads
  BY BoundKnown DEF Ground, TypeOK
<1>p. pc = [u \in Threads |-> pc[u]]
  BY TypesSplit DEF Ground, Typed, PcTyped
<1>f. CASE UNCHANGED <<pc>>
  BY <1>f
<1>t. ASSUME NEW t \in Threads, t \in bound.threads,
               Start(t) \/ LoadLimit(t) \/ LoadCursor(t) \/ CasCursor(t) \/ LoadBase(t) \/ Malloc(t)
             \/ Count(t) \/ Publish(t) \/ Refill(t) \/ RefillFails(t) \/ StoreBase(t) \/
             StoreCursor(t) \/ StoreLimit(t)
      PROVE  UNCHANGED pc \/ \E r \in Threads : \A u \in Threads \ {r} : pc'[u] = pc[u]
  <2>Start. CASE Start(t)
    <3>1. /\ pc[t] = "idle" /\ next_object + Cardinality({u \in Threads : pc[u] # "idle"}) <= bound.objects
          /\ pc' = [pc EXCEPT ![t] = "limit"]
      BY <2>Start DEF Start
    <3>2. QED
      BY <3>1, <1>p
  <2>LoadLimit. CASE LoadLimit(t)
    <3>1. pc[t] = "limit" /\ pc' = [pc EXCEPT ![t] = "cursor"]
      BY <2>LoadLimit DEF LoadLimit
    <3>2. QED
      BY <3>1, <1>p
  <2>LoadCursor. CASE LoadCursor(t)
    <3>1. /\ pc[t] = "cursor"
          /\ pc' = [pc EXCEPT ![t] = IF HasSpace(t) THEN "cas" ELSE IF tried[t] THEN "malloc" ELSE "refill"]
      BY <2>LoadCursor DEF LoadCursor, HasSpace
    <3>2. QED
      BY <3>1, <1>p
  <2>CasCursor. CASE CasCursor(t)
    <3>1. \/ pc[t] = "cas" /\ tlab_cursor[t] = cursor[t] /\ pc' = [pc EXCEPT ![t] = "base"]
          \/ pc[t] = "cas" /\ pc' = [pc EXCEPT ![t] = "cursor"]
      BY <2>CasCursor DEF CasCursor
    <3>2. QED
      BY <3>1, <1>p
  <2>LoadBase. CASE LoadBase(t)
    <3>1. pc[t] = "base" /\ pc' = [pc EXCEPT ![t] = "count"]
      BY <2>LoadBase DEF LoadBase
    <3>2. QED
      BY <3>1, <1>p
  <2>Malloc. CASE Malloc(t)
    <3>1. pc[t] = "malloc" /\ pc' = [pc EXCEPT ![t] = "count"]
      BY <2>Malloc DEF Malloc
    <3>2. QED
      BY <3>1, <1>p
  <2>Count. CASE Count(t)
    <3>1. \/ pc[t] = "count" /\ base[t] = Null /\ pc' = [pc EXCEPT ![t] = "publish"]
          \/ pc[t] = "count" /\ base[t] # Null /\ pc' = [pc EXCEPT ![t] = "publish"]
      BY <2>Count DEF Count, Touch
    <3>2. QED
      BY <3>1, <1>p
  <2>Publish. CASE Publish(t)
    <3>1. pc[t] = "publish" /\ pc' = [pc EXCEPT ![t] = "idle"]
      BY <2>Publish DEF Publish
    <3>2. QED
      BY <3>1, <1>p
  <2>Refill. CASE Refill(t)
    <3>1. PICK fresh \in Buffer :
              /\ pc[t] = "refill" /\ allotted < MaxBuffers /\ fresh = allotted + 1
              /\ pc' = [pc EXCEPT ![t] = "store_base"]
      BY <2>Refill DEF Refill, Map
    <3>2. QED
      BY <3>1, <1>p
  <2>RefillFails. CASE RefillFails(t)
    <3>1. pc[t] = "refill" /\ pc' = [pc EXCEPT ![t] = "limit"]
      BY <2>RefillFails DEF RefillFails, MayFail
    <3>2. QED
      BY <3>1, <1>p
  <2>StoreBase. CASE StoreBase(t)
    <3>1. pc[t] = "store_base" /\ pc' = [pc EXCEPT ![t] = "store_cursor"]
      BY <2>StoreBase DEF StoreBase
    <3>2. QED
      BY <3>1, <1>p
  <2>StoreCursor. CASE StoreCursor(t)
    <3>1. pc[t] = "store_cursor" /\ pc' = [pc EXCEPT ![t] = "store_limit"]
      BY <2>StoreCursor DEF StoreCursor
    <3>2. QED
      BY <3>1, <1>p
  <2>StoreLimit. CASE StoreLimit(t)
    <3>1. pc[t] = "store_limit" /\ pc' = [pc EXCEPT ![t] = "limit"]
      BY <2>StoreLimit DEF StoreLimit
    <3>2. QED
      BY <3>1, <1>p
  <2>q. QED
    BY <1>t, <2>Start, <2>LoadLimit, <2>LoadCursor, <2>CasCursor, <2>LoadBase, <2>Malloc, <2>Count,
      <2>Publish, <2>Refill, <2>RefillFails, <2>StoreBase, <2>StoreCursor, <2>StoreLimit
<1>q. QED
  BY <1>b, <1>f, <1>t, Keeps_pc

LEMMA MovedStep ==
  ASSUME Ground, Step
  PROVE  /\ \A c \in Buffer : c \in Moved' => c \in Moved \/ (c > allotted /\ UNCHANGED pc)
         /\ allotted' >= allotted
<1>b. bound.threads \subseteq Threads
  BY BoundKnown DEF Ground, TypeOK
<1>m. allotted \in Int
  BY TypesSplit DEF Ground, Typed, MemoryTyped
<1>f. CASE UNCHANGED <<allotted, target, prev_buffer, prev_prev_buffer>>
  BY <1>f, <1>m DEF Moved
<1>t. ASSUME NEW t \in Threads, t \in bound.threads, Refill(t)
      PROVE  /\ \A c \in Buffer : c \in Moved' => c \in Moved \/ (c > allotted /\ UNCHANGED pc)
         /\ allotted' >= allotted
  <2>Refill. CASE Refill(t)
    <3>1. PICK fresh \in Buffer :
              /\ pc[t] = "refill" /\ allotted < MaxBuffers /\ fresh = allotted + 1 /\ allotted' = fresh
              /\ UNCHANGED <<target, prev_buffer, prev_prev_buffer>>
      BY <2>Refill DEF Refill, Map
    <3>2. QED
      BY <3>1, <1>m DEF Moved
  <2>q. QED
    BY <1>t, <2>Refill
<1>BeginCompact. CASE BeginCompact
  <2>1. \/ UNCHANGED <<allotted, target>>
        \/ \E b \in Buffer : b = allotted + 1 /\ allotted' = b /\ target' = b
    BY <1>BeginCompact DEF BeginCompact, Map
  <2>2. UNCHANGED <<prev_buffer, prev_prev_buffer, pc>>
    BY <1>BeginCompact DEF BeginCompact
  <2>3. QED
    BY <2>1, <2>2, <1>m DEF Moved
<1>EndCompact. CASE EndCompact
  <2>1. target' = Null /\ prev_buffer' = target /\ prev_prev_buffer' = prev_buffer /\ UNCHANGED allotted
    BY <1>EndCompact DEF EndCompact
  <2>2. QED
    BY <2>1, <1>m DEF Moved
<1>q. QED
  BY <1>b, <1>f, <1>t, <1>BeginCompact, <1>EndCompact, Keeps_allotted, Keeps_prev_buffer,
     Keeps_prev_prev_buffer, Keeps_target

LEMMA AllottedKnown == Ground => allotted \in Int
BY TypesSplit DEF Ground, Typed, MemoryTyped

LEMMA UsesStep ==
  ASSUME Ground, Ground', Kept, lapse' = {}, Step
  PROVE  UsesKnown'
<1>1. \A u \in Threads : \A c \in Buffer :
        Uses(u, c)' => Uses(u, c) \/ (c > allotted /\ c <= allotted' /\ pc'[u] # pc[u])
  <2>1. UsesTold'
    BY UsesSplit, PTL
  <2>2. \A u \in Threads : \A c \in Buffer :
          Uses(u, c)' => UsesFields(u, c)' \/ UsesOld(u, c)' \/ UsesOwn(u, c)'
    BY <2>1 DEF UsesTold
  <2>3. QED
    BY <2>2, UsesSplit, FieldsGrow, OldGrows, OwnGrows DEF Kept, UsesTold
<1>2. UsesKnown /\ \A c \in Buffer : c \in Moved => c <= allotted
  <2>1. \A c \in Buffer : c \in Int /\ allotted \in Int
    BY TypesSplit DEF Ground, Typed, MemoryTyped, Buffer
  <2>2. QED
    BY <2>1 DEF Kept, BuffersKnown
<1>m. /\ \A c \in Buffer : c \in Int
      /\ allotted \in Int /\ allotted' \in Int /\ allotted' >= allotted
  <2>1. allotted \in Int /\ \A c \in Buffer : c \in Int
    BY TypesSplit DEF Ground, Typed, MemoryTyped, Buffer
  <2>2. (Ground => allotted \in Int)'
    BY AllottedKnown, PTL
  <2>3. QED
    BY <2>1, <2>2, MovedStep
<1>3. ASSUME NEW t \in Threads, NEW u \in Threads, NEW b \in Buffer, Uses(t, b)', Uses(u, b)'
      PROVE  t = u
  <2>1. CASE b > allotted
    <3>1. ~Uses(t, b) /\ ~Uses(u, b)
      BY <1>2, <1>m, <2>1 DEF UsesKnown
    <3>2. pc'[t] # pc[t] /\ pc'[u] # pc[u]
      BY <1>1, <1>3, <3>1
    <3>3. QED
      BY <3>2, OneMoves
  <2>2. CASE ~(b > allotted)
    BY <1>1, <1>2, <1>3, <2>2 DEF UsesKnown
  <2>3. QED
    BY <2>1, <2>2
<1>4. ASSUME NEW t \in Threads, NEW b \in Buffer, Uses(t, b)'
      PROVE  b \notin Moved' /\ b <= allotted'
  <2>1. CASE Uses(t, b)
    <3>1. b \notin Moved /\ b <= allotted
      BY <1>2, <2>1 DEF UsesKnown
    <3>2. QED
      BY <3>1, <1>m, MovedStep
  <2>2. CASE ~Uses(t, b)
    <3>1. b > allotted /\ b <= allotted' /\ pc'[t] # pc[t]
      BY <1>1, <1>4, <2>2
    <3>2. b \notin Moved
      BY <3>1, <1>2, <1>m
    <3>3. QED
      BY <3>1, <3>2, MovedStep
  <2>3. QED
    BY <2>1, <2>2
<1>5. QED
  BY <1>3, <1>4, OldNotPrev DEF UsesKnown

(* What is not used stays so, until its thread counts in it.               *)

LEMMA UnusedMapped ==
  ASSUME Ground, Ground', Kept, NEW b \in Buffer, Unused(b), b \notin Moved,
         \A t \in Threads : pc[t] = "base" => tlab_base[t] # b, Step
  PROVE  b \in mapped'
<1>b. bound.threads \subseteq Threads
  BY BoundKnown DEF Ground, TypeOK
<1>k. /\ b \in mapped /\ live_count[b] = 0 /\ b \notin GivenUp \cup gc_dead_tlab_list
      /\ \A o \in Listed : node_base[o] # b
      /\ \A t \in Threads : base[t] # b
      /\ gcpc \in HasOld => old # b
  BY DEF Unused
<1>m. b \notin {target, prev_buffer, prev_prev_buffer} /\ b # Null
  BY DEF Moved, Buffer, Null
<1>f. CASE UNCHANGED <<mapped>>
  BY <1>f, <1>k
<1>t. ASSUME NEW t \in Threads, t \in bound.threads, Refill(t)
      PROVE  b \in mapped'
  <2>Refill. CASE Refill(t)
    <3>1. PICK fresh \in Buffer :
              mapped' = mapped \cup {fresh}
      BY <2>Refill DEF Refill, Map
    <3>2. QED
      BY <3>1, <1>k, <1>m
  <2>q. QED
    BY <1>t, <2>Refill
<1>Cleanup. CASE Cleanup
  <2>1. mapped' = mapped \ {d \in gc_compact_dead_tlab_list_prev : live_count[d] = 0}
    BY <1>Cleanup DEF Cleanup
  <2>2. QED
    BY <2>1, <1>k, <1>m DEF GivenUp
<1>BeginCompact. CASE BeginCompact
  <2>1. \/ \E fresh \in Buffer : mapped' = mapped \cup {fresh}
        \/ UNCHANGED mapped
    BY <1>BeginCompact DEF BeginCompact, Map, MayFail
  <2>2. QED
    BY <2>1, <1>k, <1>m
<1>EndCompact. CASE EndCompact
  <2>1. mapped' = mapped \ {prev_prev_buffer}
    BY <1>EndCompact DEF EndCompact
  <2>2. QED
    BY <2>1, <1>k, <1>m
<1>q. QED
  BY <1>b, <1>f, <1>t, <1>Cleanup, <1>BeginCompact, <1>EndCompact, Keeps_mapped

LEMMA UnusedEmpty ==
  ASSUME Ground, Ground', Kept, NEW b \in Buffer, Unused(b), b \notin Moved,
         \A t \in Threads : pc[t] = "base" => tlab_base[t] # b, Step
  PROVE  live_count'[b] = 0
<1>b. bound.threads \subseteq Threads
  BY BoundKnown DEF Ground, TypeOK
<1>k. /\ b \in mapped /\ live_count[b] = 0 /\ b \notin GivenUp \cup gc_dead_tlab_list
      /\ \A o \in Listed : node_base[o] # b
      /\ \A t \in Threads : base[t] # b
      /\ gcpc \in HasOld => old # b
  BY DEF Unused
<1>m. b \notin {target, prev_buffer, prev_prev_buffer} /\ b # Null
  BY DEF Moved, Buffer, Null
<1>l. live_count \in [Buffer -> Int]
  BY TypesSplit DEF Ground, Typed, MemoryTyped
<1>f. CASE UNCHANGED <<live_count>>
  BY <1>f, <1>k
<1>t. ASSUME NEW t \in Threads, t \in bound.threads, Count(t)
      PROVE  live_count'[b] = 0
  <2>Count. CASE Count(t)
    <3>1. base[t] # b
      BY <1>k
    <3>2. CASE base[t] = Null
      BY <2>Count, <3>2, <1>k DEF Count
    <3>3. CASE base[t] # Null
      <4>1. live_count' = [live_count EXCEPT ![base[t]] = @ + 1]
        BY <2>Count, <3>3 DEF Count
      <4>2. QED
        BY <4>1, <3>1, <1>k, <1>l
    <3>4. QED
      BY <3>2, <3>3
  <2>q. QED
    BY <1>t, <2>Count
<1>Begin. CASE Begin
  <2>1. live_count' = [d \in Buffer |-> IF d = prev_buffer THEN Poison ELSE live_count[d]]
    BY <1>Begin DEF Begin
  <2>2. QED
    BY <2>1, <1>k, <1>m, <1>l
<1>FreeInBuffer. CASE FreeInBuffer
  <2>1. PICK o \in nodes : live_count' = [c \in Buffer |-> IF c = node_base[o] THEN live_count[c] - 1 ELSE live_count[c]]
    BY <1>FreeInBuffer DEF FreeInBuffer
  <2>2. node_base[o] # b
    BY <1>k DEF Listed
  <2>3. QED
    BY <2>1, <2>2, <1>k
<1>StoreHandle. CASE StoreHandle
  <2>1. live_count' = [live_count EXCEPT ![target] = @ + 1]
    BY <1>StoreHandle DEF StoreHandle
  <2>2. QED
    BY <2>1, <1>k, <1>m, <1>l
<1>Decrement. CASE Decrement
  <2>1. gcpc = "decrement" /\ live_count' = [live_count EXCEPT ![old] = @ - 1]
    BY <1>Decrement DEF Decrement, Touch
  <2>2. QED
    BY <2>1, <1>l, <1>k, <1>m, <1>l DEF HasOld
<1>q. QED
  BY <1>b, <1>f, <1>t, <1>Begin, <1>FreeInBuffer, <1>StoreHandle, <1>Decrement, Keeps_live_count

LEMMA UnusedKept ==
  ASSUME Ground, Ground', Kept, NEW b \in Buffer, Unused(b), b \notin Moved,
         \A t \in Threads : pc[t] = "base" => tlab_base[t] # b, Step
  PROVE  b \notin GivenUp' \cup gc_dead_tlab_list'
<1>b. bound.threads \subseteq Threads
  BY BoundKnown DEF Ground, TypeOK
<1>k. /\ b \in mapped /\ live_count[b] = 0 /\ b \notin GivenUp \cup gc_dead_tlab_list
      /\ \A o \in Listed : node_base[o] # b
      /\ \A t \in Threads : base[t] # b
      /\ gcpc \in HasOld => old # b
  BY DEF Unused
<1>m. b \notin {target, prev_buffer, prev_prev_buffer} /\ b # Null
  BY DEF Moved, Buffer, Null
<1>f. CASE UNCHANGED <<gc_dead_tlab_list, gc_compact_dead_tlab_list,
                gc_compact_dead_tlab_list_prev>>
  BY <1>f, <1>k DEF GivenUp
<1>Cleanup. CASE Cleanup
  <2>1. /\ gc_compact_dead_tlab_list' = {} /\ gc_compact_dead_tlab_list_prev' = gc_compact_dead_tlab_list
        /\ UNCHANGED gc_dead_tlab_list
    BY <1>Cleanup DEF Cleanup
  <2>2. QED
    BY <2>1, <1>k, <1>m DEF GivenUp
<1>FreeInBuffer. CASE FreeInBuffer
  <2>1. /\ \/ \E n \in nodes : gc_dead_tlab_list' = gc_dead_tlab_list \cup {node_base[n]}
           \/ \E n \in nodes : UNCHANGED gc_dead_tlab_list
        /\ UNCHANGED <<gc_compact_dead_tlab_list, gc_compact_dead_tlab_list_prev>>
    BY <1>FreeInBuffer DEF FreeInBuffer, Touch, Dead
  <2>2. QED
    BY <2>1, <1>k, <1>m DEF GivenUp, Listed
<1>Recheck. CASE Recheck
  <2>1. /\ gc_dead_tlab_list' = {}
        /\ gc_compact_dead_tlab_list' = gc_compact_dead_tlab_list \cup {d \in gc_dead_tlab_list : live_count[d] = 0}
        /\ UNCHANGED gc_compact_dead_tlab_list_prev
    BY <1>Recheck DEF Recheck
  <2>2. QED
    BY <2>1, <1>k, <1>m DEF GivenUp
<1>Defer. CASE Defer
  <2>1. /\ gcpc = "defer" /\ gc_compact_dead_tlab_list' = gc_compact_dead_tlab_list \cup {old}
        /\ UNCHANGED <<gc_dead_tlab_list, gc_compact_dead_tlab_list_prev>>
    BY <1>Defer DEF Defer
  <2>2. QED
    BY <2>1, <1>k, <1>m DEF GivenUp, HasOld
<1>q. QED
  BY <1>b, <1>f, <1>Cleanup, <1>FreeInBuffer, <1>Recheck, <1>Defer, Keeps_gc_compact_dead_tlab_list,
     Keeps_gc_compact_dead_tlab_list_prev, Keeps_gc_dead_tlab_list

LEMMA UnusedBase ==
  ASSUME Ground, Ground', Kept, NEW b \in Buffer, Unused(b), b \notin Moved,
         \A t \in Threads : pc[t] = "base" => tlab_base[t] # b, Step
  PROVE  \A x \in Threads : base'[x] # b
<1>b. bound.threads \subseteq Threads
  BY BoundKnown DEF Ground, TypeOK
<1>k. /\ b \in mapped /\ live_count[b] = 0 /\ b \notin GivenUp \cup gc_dead_tlab_list
      /\ \A o \in Listed : node_base[o] # b
      /\ \A t \in Threads : base[t] # b
      /\ gcpc \in HasOld => old # b
  BY DEF Unused
<1>m. b \notin {target, prev_buffer, prev_prev_buffer} /\ b # Null
  BY DEF Moved, Buffer, Null
<1>l. base = [t \in Threads |-> base[t]]
  BY TypesSplit DEF Ground, Typed, FieldsTyped
<1>f. CASE UNCHANGED <<base>>
  BY <1>f, <1>k
<1>t. ASSUME NEW t \in Threads, t \in bound.threads, LoadBase(t) \/ Malloc(t) \/ Publish(t)
      PROVE  \A x \in Threads : base'[x] # b
  <2>LoadBase. CASE LoadBase(t)
    <3>1. pc[t] = "base" /\ base' = [base EXCEPT ![t] = tlab_base[t]]
      BY <2>LoadBase DEF LoadBase
    <3>2. QED
      BY <3>1, <1>k, <1>m, <1>l
  <2>Malloc. CASE Malloc(t)
    <3>1. base' = [base EXCEPT ![t] = Null]
      BY <2>Malloc DEF Malloc
    <3>2. QED
      BY <3>1, <1>k, <1>m, <1>l
  <2>Publish. CASE Publish(t)
    <3>1. base' = [base EXCEPT ![t] = Null]
      BY <2>Publish DEF Publish
    <3>2. QED
      BY <3>1, <1>k, <1>m, <1>l
  <2>q. QED
    BY <1>t, <2>LoadBase, <2>Malloc, <2>Publish
<1>q. QED
  BY <1>b, <1>f, <1>t, Keeps_base

LEMMA UnusedOld ==
  ASSUME Ground, Ground', Kept, NEW b \in Buffer, Unused(b), b \notin Moved,
         \A t \in Threads : pc[t] = "base" => tlab_base[t] # b, Step
  PROVE  gcpc' \in HasOld => old' # b
<1>b. bound.threads \subseteq Threads
  BY BoundKnown DEF Ground, TypeOK
<1>k. /\ b \in mapped /\ live_count[b] = 0 /\ b \notin GivenUp \cup gc_dead_tlab_list
      /\ \A o \in Listed : node_base[o] # b
      /\ \A t \in Threads : base[t] # b
      /\ gcpc \in HasOld => old # b
  BY DEF Unused
<1>m. b \notin {target, prev_buffer, prev_prev_buffer} /\ b # Null
  BY DEF Moved, Buffer, Null
<1>f. CASE UNCHANGED <<gcpc, old>>
  BY <1>f, <1>k
<1>moves. CASE Begin \/ Mark \/ Cleanup \/ Steal \/ LoadOldHead \/ Prepend \/ Recheck \/ IsCurrent \/
               ResetBase \/ ResetCursor \/ ResetLimit \/ BeginCompact \/ Copy \/ Decrement \/ RecheckOld
               \/ Defer
  <2>1. UNCHANGED old
    BY <1>moves, SweepLeaves, ReleaseLeaves, CompactLeaves
  <2>2. QED
    BY <1>moves, <2>1, SweepMoves, CompactMoves, <1>k DEF HasOld, Taking, Back
<1>FreeInBuffer. CASE FreeInBuffer
  <2>1. \/ \E n \in nodes : /\ gcpc = "sweep" /\ Dead(n) /\ flag_tlab[n] /\ node_base[n] # Null
                            /\ live_count'[node_base[n]] = 0 /\ gcpc' = "current" /\ old' = node_base[n]
        \/ \E n \in nodes : /\ gcpc = "sweep" /\ Dead(n) /\ flag_tlab[n]
                            /\ (node_base[n] = Null \/ live_count'[node_base[n]] # 0)
                            /\ UNCHANGED <<gcpc, old>>
    BY <1>FreeInBuffer DEF FreeInBuffer, Touch, Dead
  <2>2. QED
    BY <2>1, <1>k DEF HasOld, Taking, Listed
<1>StoreHandle. CASE StoreHandle
  <2>1. gcpc = "store" /\ old' = node_base[node]
    BY <1>StoreHandle DEF StoreHandle
  <2>2. QED
    BY <2>1, <1>k, StoreKnown
<1>EndCompact. CASE EndCompact
  <2>1. gcpc = "copy" /\ nodes = {} /\ left = {} /\ gcpc' = "idle" /\ old' = Null
    BY <1>EndCompact DEF EndCompact
  <2>2. QED
    BY <2>1, <1>k DEF HasOld, Taking
<1>q. QED
  BY <1>b, <1>f, <1>moves, <1>FreeInBuffer, <1>StoreHandle, <1>EndCompact, Keeps_gcpc, Keeps_old

LEMMA UnusedNodes ==
  ASSUME Ground, Ground', Kept, NEW b \in Buffer, Unused(b), b \notin Moved,
         \A t \in Threads : pc[t] = "base" => tlab_base[t] # b, Step
  PROVE  \A o \in Listed' : node_base'[o] # b
<1>k. /\ b \in mapped /\ live_count[b] = 0 /\ b \notin GivenUp \cup gc_dead_tlab_list
      /\ \A o \in Listed : node_base[o] # b
      /\ \A t \in Threads : base[t] # b
      /\ gcpc \in HasOld => old # b
  BY DEF Unused
<1>m. b \notin {target, prev_buffer, prev_prev_buffer} /\ b # Null
  BY DEF Moved, Buffer, Null
<1>b. bound.threads \subseteq Threads
  BY BoundKnown DEF Ground, TypeOK
<1>1. ASSUME NEW t \in Threads, Publish(t)
      PROVE  \A o \in Listed' : node_base'[o] # b
  BY <1>1, <1>k, PublishKnown
<1>2. CASE StoreHandle
  <2>1. gcpc = "store" /\ node_base' = [node_base EXCEPT ![node] = target] /\ Listed' = Listed
    BY <1>2 DEF StoreHandle, Listed
  <2>2. Listed \subseteq Object /\ node_base \in [Object -> Buffer \cup {Null}]
    BY ListedFinite DEF Ground, Typed, TypesKnown
  <2>3. QED
    BY <2>1, <2>2, <1>k, <1>m
<1>3. CASE Listed' \subseteq Listed /\ UNCHANGED node_base
  BY <1>3, <1>k
<1>4. ASSUME FreeBlock \/ FreeInBuffer
      PROVE  Listed' \subseteq Listed /\ UNCHANGED node_base
  <2>1. PICK o \in nodes : /\ gcpc = "sweep" /\ nodes' = nodes \ {o}
                           /\ UNCHANGED <<alloc_list, survivors, node_base>>
    BY <1>4 DEF FreeBlock, FreeInBuffer
  <2>2. QED
    BY <2>1, FreeListed
<1>5. QED
  BY <1>b, <1>1, <1>2, <1>3, <1>4, ListedSame, Keeps_node_base

LEMMA UnusedStep ==
  ASSUME Ground, Ground', Kept, NEW b \in Buffer, Unused(b), b \notin Moved,
         \A t \in Threads : pc[t] = "base" => tlab_base[t] # b, Step
  PROVE  Unused(b)'
BY UnusedMapped, UnusedEmpty, UnusedKept, UnusedBase, UnusedOld, UnusedNodes DEF Unused

(* The same, buffer by buffer.                                             *)
FieldRead(t) ==
  /\ pc[t] # "store_cursor" /\ tlab_base[t] # Null /\ tlab_cursor[t].buffer # Null =>
       tlab_base[t] = tlab_cursor[t].buffer
  /\ \A b \in Buffer : pc[t] # "store_cursor" /\ tlab_cursor[t].buffer = b =>
       b \in mapped /\ (tlab_base[t] = Null => (gcpc = "reset_cursor" /\ thread = t) \/ Unused(b))
  /\ \A b \in Buffer : pc[t] \in Refilling /\ buffer[t] = b => Unused(b)
  /\ pc[t] = "store_base" => tlab_base[t] # buffer[t] /\ tlab_cursor[t].buffer # buffer[t]
  /\ pc[t] \in {"store_cursor", "store_limit"} => tlab_base[t] \in {Null, buffer[t]}
  /\ pc[t] = "store_limit" => tlab_cursor[t].buffer \in {Null, buffer[t]}
  /\ pc[t] \notin Refilling => buffer[t] = Null
FieldsRead == \A t \in Threads : FieldRead(t)

LEMMA FieldsReading == Ground => (FieldsKnown <=> FieldsRead)
<1> SUFFICES ASSUME Ground PROVE FieldsKnown <=> FieldsRead
  OBVIOUS
<1>1. ASSUME NEW t \in Threads
      PROVE  FieldKnown(t) <=> FieldRead(t)
  <2>1. /\ tlab_cursor[t].buffer \in Buffer \cup {Null} /\ \A b \in Buffer : b # Null
        /\ pc[t] \in Refilling => buffer[t] \in Buffer
    BY TypesSplit DEF Ground, Typed, CursorsTyped, Cursor, RefillTyped, Buffer, Null
  <2>2. QED
    BY <2>1 DEF FieldKnown, FieldRead
<1>2. QED
  BY <1>1 DEF FieldsKnown, FieldsRead

LEMMA FieldsRefill ==
  ASSUME Ground, Kept, NEW t \in Threads, Refill(t), NEW b \in Buffer, b = allotted + 1
  PROVE  Unused(b)'
<1>1. b > allotted
  BY AllottedKnown
<1>2. /\ UNCHANGED <<live_count, gc_compact_dead_tlab_list, gc_compact_dead_tlab_list_prev, gc_dead_tlab_list,
                     alloc_list, nodes, survivors, node_base, base, gcpc, old>>
      /\ mapped' = mapped \cup {b}
  BY DEF Refill, Map
<1>3. /\ b \notin GivenUp \cup gc_dead_tlab_list /\ live_count[b] = 0
      /\ \A o \in Listed : node_base[o] # b
      /\ \A t1 \in Threads : base[t1] # b
      /\ gcpc \in HasOld => old # b
  BY <1>1, FreshKnown
<1>4. Listed' = Listed /\ GivenUp' = GivenUp
  BY <1>2 DEF Listed, GivenUp
<1>5. QED
  BY <1>2, <1>3, <1>4 DEF Unused

LEMMA StaysMapped ==
  ASSUME Ground, Ground', Kept, NEW b \in mapped, b \notin gc_compact_dead_tlab_list_prev, b \notin Moved,
           b \in Buffer, Step
  PROVE  b \in mapped'
<1>b. bound.threads \subseteq Threads
  BY BoundKnown DEF Ground, TypeOK
<1>m. b \notin {prev_buffer, prev_prev_buffer}
  BY DEF Moved, Buffer, Null
<1>f. CASE UNCHANGED <<mapped>>
  BY <1>f
<1>t. ASSUME NEW t \in Threads, t \in bound.threads, Refill(t)
      PROVE  b \in mapped'
  <2>Refill. CASE Refill(t)
    <3>1. PICK fresh \in Buffer :
              mapped' = mapped \cup {fresh}
      BY <2>Refill DEF Refill, Map
    <3>2. QED
      BY <3>1, <1>m
  <2>q. QED
    BY <1>t, <2>Refill
<1>Cleanup. CASE Cleanup
  <2>1. mapped' = mapped \ {d \in gc_compact_dead_tlab_list_prev : live_count[d] = 0}
    BY <1>Cleanup DEF Cleanup
  <2>2. QED
    BY <2>1, <1>m
<1>BeginCompact. CASE BeginCompact
  <2>1. \/ \E fresh \in Buffer : mapped' = mapped \cup {fresh}
        \/ UNCHANGED mapped
    BY <1>BeginCompact DEF BeginCompact, Map, MayFail
  <2>2. QED
    BY <2>1, <1>m
<1>EndCompact. CASE EndCompact
  <2>1. mapped' = mapped \ {prev_prev_buffer}
    BY <1>EndCompact DEF EndCompact
  <2>2. QED
    BY <2>1, <1>m
<1>q. QED
  BY <1>b, <1>f, <1>t, <1>Cleanup, <1>BeginCompact, <1>EndCompact, Keeps_mapped

LEMMA FieldStep ==
  ASSUME Ground, Ground', Kept, lapse' = {}, NEW v \in Threads, Step
  PROVE  FieldRead(v)'
<1>b. bound.threads \subseteq Threads
  BY BoundKnown DEF Ground, TypeOK
<1>w. Ground /\ Ground' /\ Kept
  OBVIOUS
<1>h. gcpc \in HasOld => thread \in bound.threads
  BY DEF Ground, CycleKnown
<1>z. \A b \in Buffer : b # Null
  BY DEF Buffer, Null
<1>k. FieldRead(v) /\ FieldsRead
  BY FieldsReading DEF Kept, FieldsRead
<1>d. /\ tlab_cursor[v].buffer \in Buffer \cup {Null} /\ \A b \in Buffer : b # Null
      /\ pc[v] \in Refilling => buffer[v] \in Buffer
  BY TypesSplit DEF Ground, Typed, CursorsTyped, Cursor, RefillTyped, Buffer, Null
<1>o. \A t \in Threads : \A b \in Buffer : UsesFields(t, b) /\ UsesFields(v, b) => t = v
  BY UsesSplit DEF Kept, UsesKnown, UsesTold
<1>n. \A b \in Buffer : UsesFields(v, b) => b \notin Moved
  BY UsesSplit DEF Kept, UsesKnown, UsesTold
<1>a. ASSUME NEW b \in Buffer
      PROVE  /\ pc[v] # "store_cursor" /\ tlab_cursor[v].buffer = b /\ tlab_base[v] = Null /\ Unused(b)
                => Unused(b)'
             /\ pc[v] \in Refilling /\ buffer[v] = b => Unused(b)'
             /\ pc[v] # "store_cursor" /\ tlab_cursor[v].buffer = b => b \in mapped'
             /\ Unused(b)' => b \in mapped'
  <2>1. ASSUME pc[v] # "store_cursor", tlab_cursor[v].buffer = b, tlab_base[v] = Null, Unused(b)
        PROVE  Unused(b)'
    <3>1. b \notin Moved
      BY <2>1, <1>n DEF UsesFields
    <3>2. \A t \in Threads : tlab_base[t] # b
      BY <2>1, <1>o, <1>d DEF UsesFields
    <3>3. QED
      BY <2>1, <3>1, <3>2, UnusedStep
  <2>2. ASSUME pc[v] \in Refilling, buffer[v] = b
        PROVE  Unused(b)'
    <3>1. b \notin Moved /\ Unused(b)
      BY <2>2, <1>n, <1>k DEF UsesFields, FieldRead
    <3>2. \A t \in Threads : pc[t] = "base" => tlab_base[t] # b
      BY <2>2, <1>o DEF UsesFields, Refilling
    <3>3. QED
      BY <3>1, <3>2, UnusedStep
  <2>3. ASSUME pc[v] # "store_cursor", tlab_cursor[v].buffer = b
        PROVE  b \in mapped'
    <3>1. b \in mapped /\ b \notin Moved
      BY <2>3, <1>k, <1>n DEF FieldRead, UsesFields
    <3>2. b \notin gc_compact_dead_tlab_list_prev
      BY <2>3 DEF Kept, DoomKnown, GivenUp, Detached
    <3>3. QED
      BY <3>1, <3>2, StaysMapped
  <2>4. Unused(b)' => b \in mapped'
    BY DEF Unused
  <2>5. QED
    BY <2>1, <2>2, <2>3, <2>4
<1>j. /\ pc = [t \in Threads |-> pc[t]] /\ tlab_base = [t \in Threads |-> tlab_base[t]]
      /\ tlab_cursor = [t \in Threads |-> tlab_cursor[t]] /\ buffer = [t \in Threads |-> buffer[t]]
  BY TypesSplit DEF Ground, Typed, CursorsTyped, FieldsTyped, PcTyped
<1>f. CASE UNCHANGED <<pc, tlab_base, tlab_cursor, buffer, gcpc, thread>>
  BY <1>f, <1>k, <1>a, <1>d, <1>j DEF FieldRead, Refilling
<1>t. ASSUME NEW t \in Threads, t \in bound.threads,
               Start(t) \/ LoadLimit(t) \/ LoadCursor(t) \/ CasCursor(t) \/ LoadBase(t) \/ Malloc(t)
             \/ Count(t) \/ Publish(t) \/ Refill(t) \/ RefillFails(t) \/ StoreBase(t) \/
             StoreCursor(t) \/ StoreLimit(t)
      PROVE  FieldRead(v)'
  <2>Start. CASE Start(t)
    <3>1. /\ pc[t] = "idle" /\ next_object + Cardinality({u \in Threads : pc[u] # "idle"}) <= bound.objects
          /\ pc' = [pc EXCEPT ![t] = "limit"] /\ UNCHANGED <<tlab_base, tlab_cursor, buffer, gcpc, thread>>
      BY <2>Start DEF Start
    <3>2. QED
      BY <3>1, <1>k, <1>a, <1>d, <1>j DEF FieldRead, Refilling
  <2>LoadLimit. CASE LoadLimit(t)
    <3>1. /\ pc[t] = "limit" /\ pc' = [pc EXCEPT ![t] = "cursor"]
          /\ UNCHANGED <<tlab_base, tlab_cursor, buffer, gcpc, thread>>
      BY <2>LoadLimit DEF LoadLimit
    <3>2. QED
      BY <3>1, <1>k, <1>a, <1>d, <1>j DEF FieldRead, Refilling
  <2>LoadCursor. CASE LoadCursor(t)
    <3>1. /\ pc[t] = "cursor"
          /\ pc' = [pc EXCEPT ![t] = IF HasSpace(t) THEN "cas" ELSE IF tried[t] THEN "malloc" ELSE "refill"]
          /\ UNCHANGED <<tlab_base, tlab_cursor, buffer, gcpc, thread>>
      BY <2>LoadCursor DEF LoadCursor, HasSpace
    <3>2. QED
      BY <3>1, <1>k, <1>a, <1>d, <1>j DEF FieldRead, Refilling
  <2>CasCursor. CASE CasCursor(t)
    <3>1. /\ \/ /\ pc[t] = "cas" /\ tlab_cursor[t] = cursor[t]
                /\ tlab_cursor' = [tlab_cursor EXCEPT ![t].next = @ + 1] /\ pc' = [pc EXCEPT ![t] = "base"]
             \/ pc[t] = "cas" /\ pc' = [pc EXCEPT ![t] = "cursor"] /\ UNCHANGED tlab_cursor
          /\ UNCHANGED <<tlab_base, buffer, gcpc, thread>>
      BY <2>CasCursor DEF CasCursor
    <3>2. ASSUME pc[t] = "cas", tlab_cursor[t] = cursor[t],
                 tlab_cursor' = [tlab_cursor EXCEPT ![t].next = @ + 1], pc' = [pc EXCEPT ![t] = "base"]
          PROVE  FieldRead(v)'
      BY <3>1, <3>2, <1>k, <1>a, <1>d, <1>j DEF FieldRead, Refilling
    <3>3. ASSUME pc[t] = "cas", pc' = [pc EXCEPT ![t] = "cursor"], UNCHANGED tlab_cursor
          PROVE  FieldRead(v)'
      BY <3>1, <3>3, <1>k, <1>a, <1>d, <1>j DEF FieldRead, Refilling
    <3>4. QED
      BY <3>1, <3>2, <3>3
  <2>LoadBase. CASE LoadBase(t)
    <3>1. /\ pc[t] = "base" /\ pc' = [pc EXCEPT ![t] = "count"]
          /\ UNCHANGED <<tlab_base, tlab_cursor, buffer, gcpc, thread>>
      BY <2>LoadBase DEF LoadBase
    <3>2. QED
      BY <3>1, <1>k, <1>a, <1>d, <1>j DEF FieldRead, Refilling
  <2>Malloc. CASE Malloc(t)
    <3>1. /\ pc[t] = "malloc" /\ pc' = [pc EXCEPT ![t] = "count"]
          /\ UNCHANGED <<tlab_base, tlab_cursor, buffer, gcpc, thread>>
      BY <2>Malloc DEF Malloc
    <3>2. QED
      BY <3>1, <1>k, <1>a, <1>d, <1>j DEF FieldRead, Refilling
  <2>Count. CASE Count(t)
    <3>1. /\ \/ pc[t] = "count" /\ base[t] = Null /\ pc' = [pc EXCEPT ![t] = "publish"]
             \/ pc[t] = "count" /\ base[t] # Null /\ pc' = [pc EXCEPT ![t] = "publish"]
          /\ UNCHANGED <<tlab_base, tlab_cursor, buffer, gcpc, thread>>
      BY <2>Count DEF Count, Touch
    <3>2. QED
      BY <3>1, <1>k, <1>a, <1>d, <1>j DEF FieldRead, Refilling
  <2>Publish. CASE Publish(t)
    <3>1. /\ pc[t] = "publish" /\ pc' = [pc EXCEPT ![t] = "idle"]
          /\ UNCHANGED <<tlab_base, tlab_cursor, buffer, gcpc, thread>>
      BY <2>Publish DEF Publish
    <3>2. QED
      BY <3>1, <1>k, <1>a, <1>d, <1>j DEF FieldRead, Refilling
  <2>Refill. CASE Refill(t)
    <3>1. PICK fresh \in Buffer :
                /\ allotted < MaxBuffers /\ fresh = allotted + 1 /\ pc[t] = "refill"
                /\ pc' = [pc EXCEPT ![t] = "store_base"] /\ buffer' = [buffer EXCEPT ![t] = fresh]
                /\ UNCHANGED <<tlab_base, tlab_cursor, gcpc, thread>>
      BY <2>Refill DEF Refill, Map
    <3>2. Unused(fresh)'
      BY <2>Refill, <3>1, FieldsRefill
    <3>3. \A w \in Threads : tlab_base[w] # fresh /\ tlab_cursor[w].buffer # fresh
      <4>1. fresh > allotted
        BY <3>1, AllottedKnown
      <4>2. QED
        BY <4>1, FreshKnown
    <3>4. QED
      BY <3>1, <3>2, <3>3, <1>k, <1>a, <1>d, <1>j DEF FieldRead, Refilling
  <2>RefillFails. CASE RefillFails(t)
    <3>1. /\ pc[t] = "refill" /\ pc' = [pc EXCEPT ![t] = "limit"]
          /\ UNCHANGED <<tlab_base, tlab_cursor, buffer, gcpc, thread>>
      BY <2>RefillFails DEF RefillFails, MayFail
    <3>2. QED
      BY <3>1, <1>k, <1>a, <1>d, <1>j DEF FieldRead, Refilling
  <2>StoreBase. CASE StoreBase(t)
    <3>1. /\ pc[t] = "store_base" /\ tlab_base' = [tlab_base EXCEPT ![t] = buffer[t]]
          /\ pc' = [pc EXCEPT ![t] = "store_cursor"] /\ UNCHANGED <<tlab_cursor, buffer, gcpc, thread>>
      BY <2>StoreBase DEF StoreBase
    <3>2. QED
      BY <3>1, <1>k, <1>a, <1>d, <1>j DEF FieldRead, Refilling
  <2>StoreCursor. CASE StoreCursor(t)
    <3>1. /\ pc[t] = "store_cursor"
          /\ tlab_cursor' = [tlab_cursor EXCEPT ![t] = [buffer |-> buffer[t], next |-> 1]]
          /\ pc' = [pc EXCEPT ![t] = "store_limit"] /\ UNCHANGED <<tlab_base, buffer, gcpc, thread>>
      BY <2>StoreCursor DEF StoreCursor
    <3>2. QED
      BY <3>1, <1>k, <1>a, <1>d, <1>j DEF FieldRead, Refilling
  <2>StoreLimit. CASE StoreLimit(t)
    <3>1. /\ pc[t] = "store_limit" /\ pc' = [pc EXCEPT ![t] = "limit"] /\ buffer' = [buffer EXCEPT ![t] = Null]
          /\ UNCHANGED <<tlab_base, tlab_cursor, gcpc, thread>>
      BY <2>StoreLimit DEF StoreLimit
    <3>2. QED
      BY <3>1, <1>k, <1>a, <1>d, <1>j DEF FieldRead, Refilling
  <2>q. QED
    BY <1>t, <2>Start, <2>LoadLimit, <2>LoadCursor, <2>CasCursor, <2>LoadBase, <2>Malloc, <2>Count,
      <2>Publish, <2>Refill, <2>RefillFails, <2>StoreBase, <2>StoreCursor, <2>StoreLimit
<1>moves. CASE Begin \/ Mark \/ Cleanup \/ FreeInBuffer \/ LoadOldHead \/ Prepend \/ Recheck \/ IsCurrent
               \/ ResetLimit \/ BeginCompact \/ Copy \/ StoreHandle \/ Decrement \/ RecheckOld \/ Defer \/
               EndCompact
  <2>1. UNCHANGED <<pc, tlab_base, tlab_cursor, buffer, thread>>
    BY <1>moves, SweepLeaves, ReleaseLeaves, CompactLeaves
  <2>2. QED
    BY <1>moves, <2>1, SweepMoves, CompactMoves, <1>k, <1>a, <1>d, <1>j DEF FieldRead, Refilling, Back
<1>Steal. CASE Steal
  <2>1. /\ \/ \E u \in left : gcpc = "steal" /\ gcpc' = "sweep" /\ thread' = u
           \/ gcpc = "steal" /\ left = {} /\ gcpc' = "recheck" /\ UNCHANGED thread
        /\ UNCHANGED <<pc, tlab_base, tlab_cursor, buffer>>
    BY <1>Steal DEF Steal
  <2>2. QED
    BY <2>1, <1>h, <1>k, <1>a, <1>d, <1>j DEF FieldRead, Refilling
<1>ResetBase. CASE ResetBase
  <2>1. /\ gcpc = "reset_base" /\ tlab_base' = [tlab_base EXCEPT ![thread] = Null] /\ gcpc' = "reset_cursor"
        /\ UNCHANGED <<pc, tlab_cursor, buffer, thread>>
    BY <1>ResetBase DEF ResetBase
  <2>2. QED
    BY <2>1, <1>h, <1>k, <1>a, <1>d, <1>j DEF FieldRead, Refilling
<1>ResetCursor. CASE ResetCursor
  <2>1. /\ gcpc = "reset_cursor" /\ tlab_cursor' = [tlab_cursor EXCEPT ![thread] = NoCursor]
        /\ gcpc' = "reset_limit" /\ UNCHANGED <<pc, tlab_base, buffer, thread>>
    BY <1>ResetCursor DEF ResetCursor
  <2>2. QED
    BY <2>1, <1>h, <1>z, <1>k, <1>a, <1>d, <1>j DEF FieldRead, Refilling, NoCursor
<1>CompactThread. CASE CompactThread
  <2>1. PICK u \in left :
            /\ gcpc = "copy" /\ nodes = {} /\ thread' = u
            /\ UNCHANGED <<pc, tlab_base, tlab_cursor, buffer, gcpc>>
    BY <1>CompactThread DEF CompactThread
  <2>2. QED
    BY <2>1, <1>h, <1>k, <1>a, <1>d, <1>j DEF FieldRead, Refilling
<1>q. QED
  BY <1>b, <1>f, <1>t, <1>moves, <1>Steal, <1>ResetBase, <1>ResetCursor, <1>CompactThread, Keeps_buffer,
     Keeps_gcpc, Keeps_pc, Keeps_thread, Keeps_tlab_base, Keeps_tlab_cursor

LEMMA FieldsStep ==
  ASSUME Ground, Ground', Kept, lapse' = {}, Step
  PROVE  FieldsKnown'
<1>1. \A v \in Threads : FieldRead(v)'
  BY FieldStep
<1>2. (Ground => (FieldsKnown <=> FieldsRead))'
  BY FieldsReading, PTL
<1>3. QED
  BY <1>1, <1>2 DEF FieldsRead

LEMMA AllocStep ==
  ASSUME Ground, Ground', Kept, lapse' = {}, NEW v \in Threads, Step
  PROVE  AllocKnown(v)'
<1>b. bound.threads \subseteq Threads
  BY BoundKnown DEF Ground, TypeOK
<1>w. Ground /\ Ground' /\ Kept
  OBVIOUS
<1>h. gcpc \in HasOld => thread \in bound.threads
  BY DEF Ground, CycleKnown
<1>l. \A t \in bound.threads : LoadBase(t) => tlab_base[t] # Null
  BY LapseStep
<1>k. FieldRead(v) /\ AllocKnown(v)
  BY FieldsReading DEF Kept, FieldsRead, AllocsKnown
<1>d. /\ tlab_cursor[v] \in Cursor /\ cursor[v] \in Cursor /\ base[v] \in Buffer \cup {Null}
      /\ tlab_base[v] \in Buffer \cup {Null} /\ \A b \in Buffer : b # Null
  BY TypesSplit DEF Ground, Typed, CursorsTyped, FieldsTyped, Buffer, Null
<1>g. tlab_cursor[v].buffer \in Buffer \cup {Null} /\ cursor[v].buffer \in Buffer \cup {Null}
  BY <1>d DEF Cursor
<1>a. ASSUME cursor[v].buffer # Null, pc[v] \in {"base", "count",
               "publish"} \/ (pc[v] = "cas" /\ tlab_cursor[v] = cursor[v])
      PROVE  cursor[v].buffer \in mapped'
  <2>1. cursor[v].buffer \in mapped /\ cursor[v].buffer \in Buffer
    BY <1>a, <1>k, <1>g DEF FieldRead, AllocKnown
  <2>2. cursor[v].buffer \notin Moved
    BY <2>1 DEF Kept, UsesKnown, Uses
  <2>3. cursor[v].buffer \notin gc_compact_dead_tlab_list_prev
    BY DEF Kept, DoomKnown
  <2>4. QED
    BY <2>1, <2>2, <2>3, StaysMapped
<1>j. /\ pc = [t \in Threads |-> pc[t]] /\ tlab_base = [t \in Threads |-> tlab_base[t]]
      /\ tlab_cursor = [t \in Threads |-> tlab_cursor[t]] /\ cursor = [t \in Threads |-> cursor[t]]
      /\ base = [t \in Threads |-> base[t]]
  BY TypesSplit DEF Ground, Typed, CursorsTyped, FieldsTyped, PcTyped
<1>f. CASE UNCHANGED <<pc, cursor, base, tlab_base, tlab_cursor>>
  BY <1>f, <1>k, <1>a, <1>d, <1>g, <1>j DEF AllocKnown
<1>t. ASSUME NEW t \in Threads, t \in bound.threads,
               Start(t) \/ LoadLimit(t) \/ LoadCursor(t) \/ CasCursor(t) \/ LoadBase(t) \/ Malloc(t)
             \/ Count(t) \/ Publish(t) \/ Refill(t) \/ RefillFails(t) \/ StoreBase(t) \/
             StoreCursor(t) \/ StoreLimit(t)
      PROVE  AllocKnown(v)'
  <2>Start. CASE Start(t)
    <3>1. /\ pc[t] = "idle" /\ next_object + Cardinality({u \in Threads : pc[u] # "idle"}) <= bound.objects
          /\ pc' = [pc EXCEPT ![t] = "limit"] /\ UNCHANGED <<cursor, base, tlab_base, tlab_cursor>>
      BY <2>Start DEF Start
    <3>2. QED
      BY <3>1, <1>k, <1>a, <1>d, <1>g, <1>j DEF AllocKnown
  <2>LoadLimit. CASE LoadLimit(t)
    <3>1. /\ pc[t] = "limit" /\ pc' = [pc EXCEPT ![t] = "cursor"]
          /\ UNCHANGED <<cursor, base, tlab_base, tlab_cursor>>
      BY <2>LoadLimit DEF LoadLimit
    <3>2. QED
      BY <3>1, <1>k, <1>a, <1>d, <1>g, <1>j DEF AllocKnown
  <2>LoadCursor. CASE LoadCursor(t)
    <3>1. /\ pc[t] = "cursor"
          /\ pc' = [pc EXCEPT ![t] = IF HasSpace(t) THEN "cas" ELSE IF tried[t] THEN "malloc" ELSE "refill"]
          /\ cursor' = [cursor EXCEPT ![t] = IF HasSpace(t) THEN tlab_cursor[t] ELSE NoCursor]
          /\ UNCHANGED <<base, tlab_base, tlab_cursor>>
      BY <2>LoadCursor DEF LoadCursor, HasSpace
    <3>2. QED
      BY <3>1, <1>k, <1>a, <1>d, <1>g, <1>j DEF AllocKnown, HasSpace, NoCursor
  <2>CasCursor. CASE CasCursor(t)
    <3>1. /\ pc[t] = "cas" /\ UNCHANGED <<base, tlab_base, cursor>>
          /\ \/ tlab_cursor[t] = cursor[t] /\ pc' = [pc EXCEPT ![t] = "base"]
             \/ pc' = [pc EXCEPT ![t] = "cursor"]
          /\ \/ UNCHANGED tlab_cursor
             \/ tlab_cursor' = [tlab_cursor EXCEPT ![t].next = @ + 1]
      BY <2>CasCursor DEF CasCursor
    <3>2. tlab_cursor'[v].buffer = tlab_cursor[v].buffer
      BY <3>1, <1>d, <1>j DEF Cursor
    <3>3. QED
      BY <3>1, <3>2, <1>k, <1>a, <1>d, <1>g, <1>j DEF AllocKnown, FieldRead
  <2>LoadBase. CASE LoadBase(t)
    <3>1. /\ tlab_base[t] # Null /\ pc[t] = "base" /\ pc' = [pc EXCEPT ![t] = "count"]
          /\ base' = [base EXCEPT ![t] = tlab_base[t]]
          /\ UNCHANGED <<cursor, tlab_base, tlab_cursor>>
      BY <2>LoadBase, <1>l DEF LoadBase
    <3>2. CASE v = t
      <4>1. pc'[v] = "count" /\ base'[v] = tlab_base[v] /\ pc[v] = "base" /\ tlab_base[v] # Null
        BY <3>1, <3>2, <1>j
      <4>2. tlab_base[v] = cursor[v].buffer /\ cursor[v].buffer # Null
        BY <4>1, <1>k DEF AllocKnown
      <4>3. QED
        BY <3>1, <4>1, <4>2, <1>k, <1>a DEF AllocKnown
    <3>3. CASE v # t
      <4>1. pc'[v] = pc[v] /\ base'[v] = base[v]
        BY <3>1, <3>3, <1>j
      <4>2. QED
        BY <3>1, <4>1, <1>k, <1>a DEF AllocKnown
    <3>4. QED
      BY <3>2, <3>3
  <2>Malloc. CASE Malloc(t)
    <3>1. /\ pc[t] = "malloc" /\ pc' = [pc EXCEPT ![t] = "count"] /\ base' = [base EXCEPT ![t] = Null]
          /\ UNCHANGED <<cursor, tlab_base, tlab_cursor>>
      BY <2>Malloc DEF Malloc
    <3>2. QED
      BY <3>1, <1>k, <1>a, <1>d, <1>g, <1>j DEF AllocKnown, NoCursor
  <2>Count. CASE Count(t)
    <3>1. /\ \/ pc[t] = "count" /\ base[t] = Null /\ pc' = [pc EXCEPT ![t] = "publish"]
             \/ pc[t] = "count" /\ base[t] # Null /\ pc' = [pc EXCEPT ![t] = "publish"]
          /\ UNCHANGED <<cursor, base, tlab_base, tlab_cursor>>
      BY <2>Count DEF Count, Touch
    <3>2. QED
      BY <3>1, <1>k, <1>a, <1>d, <1>g, <1>j DEF AllocKnown
  <2>Publish. CASE Publish(t)
    <3>1. /\ pc[t] = "publish" /\ pc' = [pc EXCEPT ![t] = "idle"] /\ cursor' = [cursor EXCEPT ![t] = NoCursor]
          /\ base' = [base EXCEPT ![t] = Null] /\ UNCHANGED <<tlab_base, tlab_cursor>>
      BY <2>Publish DEF Publish
    <3>2. QED
      BY <3>1, <1>k, <1>a, <1>d, <1>g, <1>j DEF AllocKnown, NoCursor, Null
  <2>Refill. CASE Refill(t)
    <3>1. PICK fresh \in Buffer :
              /\ pc[t] = "refill" /\ allotted < MaxBuffers /\ fresh = allotted + 1
              /\ pc' = [pc EXCEPT ![t] = "store_base"] /\ UNCHANGED <<cursor, base, tlab_base, tlab_cursor>>
      BY <2>Refill DEF Refill, Map
    <3>2. QED
      BY <3>1, <1>k, <1>a, <1>d, <1>g, <1>j DEF AllocKnown
  <2>RefillFails. CASE RefillFails(t)
    <3>1. /\ pc[t] = "refill" /\ pc' = [pc EXCEPT ![t] = "limit"]
          /\ UNCHANGED <<cursor, base, tlab_base, tlab_cursor>>
      BY <2>RefillFails DEF RefillFails, MayFail
    <3>2. QED
      BY <3>1, <1>k, <1>a, <1>d, <1>g, <1>j DEF AllocKnown
  <2>StoreBase. CASE StoreBase(t)
    <3>1. /\ pc[t] = "store_base" /\ tlab_base' = [tlab_base EXCEPT ![t] = buffer[t]]
          /\ pc' = [pc EXCEPT ![t] = "store_cursor"] /\ UNCHANGED <<cursor, base, tlab_cursor>>
      BY <2>StoreBase DEF StoreBase
    <3>2. QED
      BY <3>1, <1>k, <1>a, <1>d, <1>g, <1>j DEF AllocKnown
  <2>StoreCursor. CASE StoreCursor(t)
    <3>1. /\ pc[t] = "store_cursor"
          /\ tlab_cursor' = [tlab_cursor EXCEPT ![t] = [buffer |-> buffer[t], next |-> 1]]
          /\ pc' = [pc EXCEPT ![t] = "store_limit"] /\ UNCHANGED <<cursor, base, tlab_base>>
      BY <2>StoreCursor DEF StoreCursor
    <3>2. QED
      BY <3>1, <1>k, <1>a, <1>d, <1>g, <1>j DEF AllocKnown
  <2>StoreLimit. CASE StoreLimit(t)
    <3>1. /\ pc[t] = "store_limit" /\ pc' = [pc EXCEPT ![t] = "limit"]
          /\ UNCHANGED <<cursor, base, tlab_base, tlab_cursor>>
      BY <2>StoreLimit DEF StoreLimit
    <3>2. QED
      BY <3>1, <1>k, <1>a, <1>d, <1>g, <1>j DEF AllocKnown
  <2>q. QED
    BY <1>t, <2>Start, <2>LoadLimit, <2>LoadCursor, <2>CasCursor, <2>LoadBase, <2>Malloc, <2>Count,
      <2>Publish, <2>Refill, <2>RefillFails, <2>StoreBase, <2>StoreCursor, <2>StoreLimit
<1>ResetBase. CASE ResetBase
  <2>1. /\ gcpc = "reset_base" /\ tlab_base' = [tlab_base EXCEPT ![thread] = Null]
        /\ UNCHANGED <<pc, cursor, base, tlab_cursor>>
    BY <1>ResetBase DEF ResetBase
  <2>2. QED
    BY <2>1, <1>h, <1>k, <1>a, <1>d, <1>g, <1>j DEF AllocKnown
<1>ResetCursor. CASE ResetCursor
  <2>1. /\ gcpc = "reset_cursor" /\ tlab_cursor' = [tlab_cursor EXCEPT ![thread] = NoCursor]
        /\ UNCHANGED <<pc, cursor, base, tlab_base>>
    BY <1>ResetCursor DEF ResetCursor
  <2>2. QED
    BY <2>1, <1>h, <1>k, <1>a, <1>d, <1>g, <1>j DEF AllocKnown, NoCursor
<1>q. QED
  BY <1>b, <1>f, <1>t, <1>ResetBase, <1>ResetCursor, Keeps_base, Keeps_cursor, Keeps_pc, Keeps_tlab_base,
     Keeps_tlab_cursor

LEMMA AllocsStep ==
  ASSUME Ground, Ground', Kept, lapse' = {}, Step
  PROVE  AllocsKnown'
  BY AllocStep DEF AllocsKnown

(* The same, buffer by buffer and thread by thread.                        *)
DoomBuffer(b) ==
  /\ b \in GivenUp => b \in mapped /\ live_count[b] = 0 /\ b \notin Moved /\ Detached(b)
  /\ b \notin gc_compact_dead_tlab_list \cap gc_compact_dead_tlab_list_prev
  /\ b \in gc_dead_tlab_list => /\ b \in mapped /\ b \notin Moved /\ b \notin GivenUp
                                /\ Detached(b) \/ (b = old /\ gcpc \in Taking \ {"reset_limit"})
  /\ gcpc \in HasOld /\ old = b =>
       /\ b \in mapped
       /\ gc_compacting = 1 => b \notin GivenUp
       /\ gcpc \in Taking /\ gc_compacting = 0 => b \in gc_dead_tlab_list
       /\ gcpc \in Taking \cup {"defer"} /\ gc_compacting = 1 => live_count[b] = 0
       /\ gcpc \in {"reset_limit", "defer"} => Detached(b)
DoomThread(t) ==
  /\ cursor[t].buffer \notin gc_compact_dead_tlab_list_prev
  /\ Early(t) => cursor[t].buffer \notin gc_compact_dead_tlab_list
DoomRead ==
  /\ \A b \in Buffer : DoomBuffer(b)
  /\ gcpc = "reset_cursor" => tlab_base[thread] # old
  /\ \A t \in Threads : DoomThread(t)

LEMMA DoomReading == Ground => (DoomKnown <=> DoomRead)
<1> SUFFICES ASSUME Ground PROVE DoomKnown <=> DoomRead
  OBVIOUS
<1>1. /\ gc_dead_tlab_list \subseteq Buffer /\ gc_compact_dead_tlab_list \subseteq Buffer
      /\ gc_compact_dead_tlab_list_prev \subseteq Buffer
      /\ gcpc \in HasOld => old \in Buffer
  BY HandsKnown, TypesSplit DEF Ground, Typed, CompactTyped
<1>2. ASSUME DoomKnown PROVE DoomRead
  <2>1. ASSUME NEW b \in Buffer PROVE DoomBuffer(b)
    <3>1. b \in GivenUp => b \in mapped /\ live_count[b] = 0 /\ b \notin Moved /\ Detached(b)
      BY <1>2 DEF DoomKnown
    <3>2. b \notin gc_compact_dead_tlab_list \cap gc_compact_dead_tlab_list_prev
      BY <1>2 DEF DoomKnown
    <3>3. b \in gc_dead_tlab_list => /\ b \in mapped /\ b \notin Moved /\ b \notin GivenUp
                                     /\ Detached(b) \/ (b = old /\ gcpc \in Taking \ {"reset_limit"})
      BY <1>2 DEF DoomKnown
    <3>4. gcpc \in HasOld /\ old = b =>
            /\ b \in mapped
            /\ gc_compacting = 1 => b \notin GivenUp
            /\ gcpc \in Taking /\ gc_compacting = 0 => b \in gc_dead_tlab_list
            /\ gcpc \in Taking \cup {"defer"} /\ gc_compacting = 1 => live_count[b] = 0
            /\ gcpc \in {"reset_limit", "defer"} => Detached(b)
      BY <1>2 DEF DoomKnown
    <3>5. QED
      BY <3>1, <3>2, <3>3, <3>4 DEF DoomBuffer
  <2>2. QED
    BY <1>2, <2>1 DEF DoomKnown, DoomRead, DoomThread
<1>3. ASSUME DoomRead PROVE DoomKnown
  <2>1. \A b \in Buffer : DoomBuffer(b)
    BY <1>3 DEF DoomRead
  <2>2. /\ GivenUp \subseteq mapped
        /\ gc_compact_dead_tlab_list \cap gc_compact_dead_tlab_list_prev = {}
        /\ \A b \in GivenUp : live_count[b] = 0 /\ b \notin Moved /\ Detached(b)
    BY <1>1, <2>1 DEF DoomBuffer, GivenUp
  <2>3. /\ gc_dead_tlab_list \subseteq mapped \ (Moved \cup GivenUp)
        /\ \A b \in gc_dead_tlab_list : Detached(b) \/ (b = old /\ gcpc \in Taking \ {"reset_limit"})
    BY <1>1, <2>1 DEF DoomBuffer
  <2>4. ASSUME gcpc \in HasOld
        PROVE  /\ old \in mapped
               /\ gc_compacting = 1 => old \notin GivenUp
               /\ gcpc \in Taking /\ gc_compacting = 0 => old \in gc_dead_tlab_list
               /\ gcpc \in Taking \cup {"defer"} /\ gc_compacting = 1 => live_count[old] = 0
               /\ gcpc \in {"reset_limit", "defer"} => Detached(old)
    BY <1>1, <2>1, <2>4 DEF DoomBuffer
  <2>5. gcpc \in Taking \cup {"defer"} => gcpc \in HasOld
    BY DEF HasOld
  <2>6. gcpc \in {"reset_limit", "defer"} => gcpc \in HasOld
    BY DEF HasOld, Taking
  <2>7. QED
    BY <1>3, <2>2, <2>3, <2>4, <2>5, <2>6 DEF DoomKnown, DoomRead, DoomThread
<1>4. QED
  BY <1>2, <1>3

(* A buffer whose count is zero is that of no node.                        *)
LEMMA EmptyKnown ==
  ASSUME Ground, Kept, NEW b \in Buffer, b \in mapped, b \notin {prev_buffer, prev_prev_buffer},
         live_count[b] = 0
  PROVE  /\ \A o \in Listed : node_base[o] # b
         /\ ~(gcpc = "decrement" /\ old = b)
<1>1. Weight(b) = 0
  BY DEF Kept, CountsKnown, Exact
<1>2. Cardinality(InBuffer(b)) = 0 /\ Due(b) = 0
  BY <1>1, WeightKnown DEF Weight
<1>3. InBuffer(b) = {}
  BY <1>2, WeightKnown, FS_EmptySet
<1>4. QED
  BY <1>2, <1>3 DEF InBuffer, Due

LEMMA NodeLives ==
  ASSUME Ground, Kept, NEW o \in Listed, NEW b \in Buffer, node_base[o] = b
  PROVE  b \in mapped /\ b \notin GivenUp /\ b # prev_prev_buffer
<1>1. b \in mapped /\ b # prev_prev_buffer
  BY DEF Kept, PlacesKnown, Buffer, Null
<1>2. ASSUME b \in GivenUp PROVE FALSE
  <2>1. live_count[b] = 0 /\ b \notin Moved
    BY <1>2 DEF Kept, DoomKnown
  <2>2. b \notin {prev_buffer, prev_prev_buffer}
    BY <2>1 DEF Moved, Buffer, Null
  <2>3. QED
    BY <1>1, <2>1, <2>2, EmptyKnown
<1>3. QED
  BY <1>1, <1>2

(* The buffer an object was taken off is that of the collector's thread.   *)
LEMMA OldAlone ==
  ASSUME Ground, Kept, gcpc \in HasOld \ {"decrement"}
  PROVE  /\ old \in Buffer /\ old \notin Moved /\ thread \in Threads
         /\ \A t \in Threads \ {thread} : old \notin {tlab_base[t], tlab_cursor[t].buffer, buffer[t]}
<1>1. old \in Buffer /\ thread \in Threads
  BY HandsKnown DEF Ground, Typed
<1>2. old # prev_buffer
  BY DEF Kept, UsesKnown
<1>3. Uses(thread, old)
  BY <1>2 DEF Uses
<1>4. old \notin Moved
  BY <1>1, <1>3 DEF Kept, UsesKnown
<1>5. ASSUME NEW t \in Threads, t # thread
      PROVE  old \notin {tlab_base[t], tlab_cursor[t].buffer, buffer[t]}
  <2>1. ~Uses(t, old)
    BY <1>1, <1>3, <1>5 DEF Kept, UsesKnown
  <2>2. QED
    BY <2>1 DEF Uses
<1>6. QED
  BY <1>1, <1>4, <1>5

LEMMA NotRefilled ==
  ASSUME Ground, Kept, NEW b \in Buffer, b \in GivenUp \cup gc_dead_tlab_list \/ (gcpc \in HasOld /\ old = b)
  PROVE  \A t \in Threads : pc[t] \in Refilling => buffer[t] # b
BY DEF Kept, FieldsKnown, FieldKnown, Unused

LEMMA DetachedKept ==
  ASSUME Ground, Ground', Kept, lapse' = {}, NEW b \in Buffer, Detached(b),
         \A t \in Threads : pc[t] \in Refilling => buffer[t] # b, Step
  PROVE  Detached(b)'
<1>b. bound.threads \subseteq Threads
  BY BoundKnown DEF Ground, TypeOK
<1>k. Detached(b) /\ \A t \in Threads : pc[t] \in Refilling => buffer[t] # b
  OBVIOUS
<1>z. b # Null
  BY DEF Buffer, Null
<1>j. /\ pc = [t \in Threads |-> pc[t]] /\ tlab_base = [t \in Threads |-> tlab_base[t]]
      /\ tlab_cursor \in [Threads -> Cursor]
  BY TypesSplit DEF Ground, Typed, CursorsTyped, FieldsTyped, PcTyped
<1>f. CASE UNCHANGED <<pc, tlab_base, tlab_cursor>>
  BY <1>f, <1>k DEF Detached
<1>t. ASSUME NEW t \in Threads, t \in bound.threads,
               Start(t) \/ LoadLimit(t) \/ LoadCursor(t) \/ CasCursor(t) \/ LoadBase(t) \/ Malloc(t)
             \/ Count(t) \/ Publish(t) \/ Refill(t) \/ RefillFails(t) \/ StoreBase(t) \/
             StoreCursor(t) \/ StoreLimit(t)
      PROVE  Detached(b)'
  <2>Start. CASE Start(t)
    <3>1. /\ pc[t] = "idle" /\ next_object + Cardinality({u \in Threads : pc[u] # "idle"}) <= bound.objects
          /\ pc' = [pc EXCEPT ![t] = "limit"] /\ UNCHANGED <<tlab_base, tlab_cursor>>
      BY <2>Start DEF Start
    <3>2. QED
      BY <3>1, <1>k, <1>j DEF Detached, Refilling
  <2>LoadLimit. CASE LoadLimit(t)
    <3>1. pc[t] = "limit" /\ pc' = [pc EXCEPT ![t] = "cursor"] /\ UNCHANGED <<tlab_base, tlab_cursor>>
      BY <2>LoadLimit DEF LoadLimit
    <3>2. QED
      BY <3>1, <1>k, <1>j DEF Detached, Refilling
  <2>LoadCursor. CASE LoadCursor(t)
    <3>1. /\ pc[t] = "cursor"
          /\ pc' = [pc EXCEPT ![t] = IF HasSpace(t) THEN "cas" ELSE IF tried[t] THEN "malloc" ELSE "refill"]
          /\ UNCHANGED <<tlab_base, tlab_cursor>>
      BY <2>LoadCursor DEF LoadCursor, HasSpace
    <3>2. QED
      BY <3>1, <1>k, <1>j DEF Detached, Refilling
  <2>CasCursor. CASE CasCursor(t)
    <3>1. /\ pc[t] = "cas" /\ UNCHANGED tlab_base
          /\ pc' = [pc EXCEPT ![t] = "base"] \/ pc' = [pc EXCEPT ![t] = "cursor"]
          /\ \/ UNCHANGED tlab_cursor
             \/ tlab_cursor' = [tlab_cursor EXCEPT ![t].next = @ + 1]
      BY <2>CasCursor DEF CasCursor
    <3>2. \A u \in Threads : tlab_cursor'[u].buffer = tlab_cursor[u].buffer
      BY <3>1, <1>j DEF Cursor
    <3>3. QED
      BY <3>1, <3>2, <1>k, <1>j DEF Detached
  <2>LoadBase. CASE LoadBase(t)
    <3>1. pc[t] = "base" /\ pc' = [pc EXCEPT ![t] = "count"] /\ UNCHANGED <<tlab_base, tlab_cursor>>
      BY <2>LoadBase DEF LoadBase
    <3>2. QED
      BY <3>1, <1>k, <1>j DEF Detached, Refilling
  <2>Malloc. CASE Malloc(t)
    <3>1. pc[t] = "malloc" /\ pc' = [pc EXCEPT ![t] = "count"] /\ UNCHANGED <<tlab_base, tlab_cursor>>
      BY <2>Malloc DEF Malloc
    <3>2. QED
      BY <3>1, <1>k, <1>j DEF Detached, Refilling
  <2>Count. CASE Count(t)
    <3>1. /\ \/ pc[t] = "count" /\ base[t] = Null /\ pc' = [pc EXCEPT ![t] = "publish"]
             \/ pc[t] = "count" /\ base[t] # Null /\ pc' = [pc EXCEPT ![t] = "publish"]
          /\ UNCHANGED <<tlab_base, tlab_cursor>>
      BY <2>Count DEF Count, Touch
    <3>2. QED
      BY <3>1, <1>k, <1>j DEF Detached, Refilling
  <2>Publish. CASE Publish(t)
    <3>1. pc[t] = "publish" /\ pc' = [pc EXCEPT ![t] = "idle"] /\ UNCHANGED <<tlab_base, tlab_cursor>>
      BY <2>Publish DEF Publish
    <3>2. QED
      BY <3>1, <1>k, <1>j DEF Detached, Refilling
  <2>Refill. CASE Refill(t)
    <3>1. PICK fresh \in Buffer :
              /\ pc[t] = "refill" /\ allotted < MaxBuffers /\ fresh = allotted + 1
              /\ pc' = [pc EXCEPT ![t] = "store_base"] /\ UNCHANGED <<tlab_base, tlab_cursor>>
      BY <2>Refill DEF Refill, Map
    <3>2. QED
      BY <3>1, <1>k, <1>j DEF Detached, Refilling
  <2>RefillFails. CASE RefillFails(t)
    <3>1. pc[t] = "refill" /\ pc' = [pc EXCEPT ![t] = "limit"] /\ UNCHANGED <<tlab_base, tlab_cursor>>
      BY <2>RefillFails DEF RefillFails, MayFail
    <3>2. QED
      BY <3>1, <1>k, <1>j DEF Detached, Refilling
  <2>StoreBase. CASE StoreBase(t)
    <3>1. /\ pc[t] = "store_base" /\ tlab_base' = [tlab_base EXCEPT ![t] = buffer[t]]
          /\ pc' = [pc EXCEPT ![t] = "store_cursor"] /\ UNCHANGED tlab_cursor
      BY <2>StoreBase DEF StoreBase
    <3>2. QED
      BY <3>1, <1>k, <1>j DEF Detached, Refilling
  <2>StoreCursor. CASE StoreCursor(t)
    <3>1. /\ pc[t] = "store_cursor"
          /\ tlab_cursor' = [tlab_cursor EXCEPT ![t] = [buffer |-> buffer[t], next |-> 1]]
          /\ pc' = [pc EXCEPT ![t] = "store_limit"] /\ UNCHANGED tlab_base
      BY <2>StoreCursor DEF StoreCursor
    <3>2. QED
      BY <3>1, <1>k, <1>j DEF Detached, Refilling
  <2>StoreLimit. CASE StoreLimit(t)
    <3>1. pc[t] = "store_limit" /\ pc' = [pc EXCEPT ![t] = "limit"] /\ UNCHANGED <<tlab_base, tlab_cursor>>
      BY <2>StoreLimit DEF StoreLimit
    <3>2. QED
      BY <3>1, <1>k, <1>j DEF Detached, Refilling
  <2>q. QED
    BY <1>t, <2>Start, <2>LoadLimit, <2>LoadCursor, <2>CasCursor, <2>LoadBase, <2>Malloc, <2>Count,
      <2>Publish, <2>Refill, <2>RefillFails, <2>StoreBase, <2>StoreCursor, <2>StoreLimit
<1>ResetBase. CASE ResetBase
  <2>1. /\ gcpc = "reset_base" /\ tlab_base' = [tlab_base EXCEPT ![thread] = Null]
        /\ UNCHANGED <<pc, tlab_cursor>>
    BY <1>ResetBase DEF ResetBase
  <2>2. QED
    BY <2>1, <1>z, <1>k, <1>j DEF Detached, Refilling
<1>ResetCursor. CASE ResetCursor
  <2>1. /\ gcpc = "reset_cursor" /\ tlab_cursor' = [tlab_cursor EXCEPT ![thread] = NoCursor]
        /\ UNCHANGED <<pc, tlab_base>>
    BY <1>ResetCursor DEF ResetCursor
  <2>2. QED
    BY <2>1, <1>z, <1>k, <1>j DEF Detached, Refilling, NoCursor
<1>q. QED
  BY <1>b, <1>f, <1>t, <1>ResetBase, <1>ResetCursor, Keeps_pc, Keeps_tlab_base, Keeps_tlab_cursor

LEMMA DoomMapped ==
  ASSUME Ground, Ground', Kept, lapse' = {}, NEW b \in Buffer, Step
  PROVE  b \in GivenUp' \cup gc_dead_tlab_list' \/ (gcpc' \in HasOld /\ old' = b) => b \in mapped'
<1>b. bound.threads \subseteq Threads
  BY BoundKnown DEF Ground, TypeOK
<1>k. DoomBuffer(b)
  BY DoomReading DEF Kept, DoomRead
<1>z. b # Null
  BY DEF Buffer, Null
<1>m. b \in GivenUp \cup gc_dead_tlab_list => b # prev_prev_buffer
  BY <1>k, <1>z DEF DoomBuffer, Moved
<1>f. CASE UNCHANGED <<gc_dead_tlab_list, gc_compact_dead_tlab_list,
                gc_compact_dead_tlab_list_prev, mapped, gcpc, old>>
  BY <1>f, <1>k, <1>m DEF DoomBuffer, GivenUp, HasOld, Taking
<1>t. ASSUME NEW t \in Threads, t \in bound.threads, Refill(t)
      PROVE  b \in GivenUp' \cup gc_dead_tlab_list' \/ (gcpc' \in HasOld /\ old' = b) => b \in mapped'
  <2>Refill. CASE Refill(t)
    <3>1. PICK fresh \in Buffer :
              /\ pc[t] = "refill" /\ allotted < MaxBuffers /\ fresh = allotted + 1
              /\ mapped' = mapped \cup {fresh}
              /\ UNCHANGED <<gc_dead_tlab_list, gc_compact_dead_tlab_list, gc_compact_dead_tlab_list_prev,
                 gcpc, old>>
      BY <2>Refill DEF Refill, Map
    <3>2. QED
      BY <3>1, <1>k, <1>m DEF DoomBuffer, GivenUp, HasOld, Taking
  <2>q. QED
    BY <1>t, <2>Refill
<1>moves. CASE Begin \/ Mark \/ Steal \/ LoadOldHead \/ Prepend \/ IsCurrent \/ ResetBase \/ ResetCursor
               \/ ResetLimit \/ Copy \/ Decrement \/ RecheckOld
  <2>1. UNCHANGED <<gc_dead_tlab_list, gc_compact_dead_tlab_list, gc_compact_dead_tlab_list_prev, mapped, old>>
    BY <1>moves, SweepLeaves, ReleaseLeaves, CompactLeaves
  <2>2. QED
    BY <1>moves, <2>1, SweepMoves, CompactMoves, <1>k, <1>m DEF DoomBuffer, GivenUp, HasOld, Taking, Back
<1>Cleanup. CASE Cleanup
  <2>1. /\ gcpc = "cleanup" /\ mapped' = mapped \ {d \in gc_compact_dead_tlab_list_prev : live_count[d] = 0}
        /\ gcpc' = "steal" /\ gc_compact_dead_tlab_list' = {}
        /\ gc_compact_dead_tlab_list_prev' = gc_compact_dead_tlab_list /\ UNCHANGED <<gc_dead_tlab_list, old>>
    BY <1>Cleanup DEF Cleanup
  <2>2. QED
    BY <2>1, <1>k, <1>m DEF DoomBuffer, GivenUp, HasOld, Taking
<1>FreeInBuffer. CASE FreeInBuffer
  <2>1. \E o \in nodes :
          \/ UNCHANGED <<gc_dead_tlab_list, gcpc, old>>
          \/ old' = node_base[o] /\ gc_dead_tlab_list' = gc_dead_tlab_list \cup {node_base[o]}
    BY <1>FreeInBuffer DEF FreeInBuffer
  <2>2. UNCHANGED <<gc_compact_dead_tlab_list, gc_compact_dead_tlab_list_prev, mapped>>
    BY <1>FreeInBuffer DEF FreeInBuffer
  <2>3. \A o \in nodes : node_base[o] = b => b \in mapped
    BY NodeLives DEF Listed
  <2>4. QED
    BY <2>1, <2>2, <2>3, <1>k DEF DoomBuffer, GivenUp, HasOld
<1>Recheck. CASE Recheck
  <2>1. /\ gcpc = "recheck" /\ gcpc' = "size" /\ gc_dead_tlab_list' = {}
        /\ gc_compact_dead_tlab_list' = gc_compact_dead_tlab_list \cup {d \in gc_dead_tlab_list : live_count[d] = 0}
        /\ UNCHANGED <<gc_compact_dead_tlab_list_prev, mapped, old>>
    BY <1>Recheck DEF Recheck
  <2>2. QED
    BY <2>1, <1>k, <1>m DEF DoomBuffer, GivenUp, HasOld, Taking
<1>BeginCompact. CASE BeginCompact
  <2>1. /\ \/ \E fresh \in Buffer : /\ gcpc = "size" /\ Listed # {} /\ allotted < MaxBuffers
                                    /\ fresh = allotted + 1 /\ mapped' = mapped \cup {fresh} /\ gcpc' = "copy"
           \/ gcpc = "size" /\ gcpc' = "idle" /\ UNCHANGED mapped
        /\ UNCHANGED <<gc_dead_tlab_list, gc_compact_dead_tlab_list, gc_compact_dead_tlab_list_prev, old>>
    BY <1>BeginCompact DEF BeginCompact, Map, MayFail
  <2>2. QED
    BY <2>1, <1>k, <1>m DEF DoomBuffer, GivenUp, HasOld, Taking
<1>StoreHandle. CASE StoreHandle
  <2>1. /\ gcpc = "store" /\ old' = node_base[node]
        /\ UNCHANGED <<gc_dead_tlab_list, gc_compact_dead_tlab_list, gc_compact_dead_tlab_list_prev, mapped>>
    BY <1>StoreHandle DEF StoreHandle
  <2>2. node_base[node] = b => b \in mapped
    BY <2>1, StoreKnown, NodeLives
  <2>3. QED
    BY <2>1, <2>2, <1>k DEF DoomBuffer, GivenUp, HasOld
<1>Defer. CASE Defer
  <2>1. /\ gcpc = "defer" /\ gcpc' = "copy"
        /\ gc_compact_dead_tlab_list' = gc_compact_dead_tlab_list \cup {old}
        /\ UNCHANGED <<gc_dead_tlab_list, gc_compact_dead_tlab_list_prev, mapped, old>>
    BY <1>Defer DEF Defer
  <2>2. QED
    BY <2>1, <1>k, <1>m DEF DoomBuffer, GivenUp, HasOld, Taking
<1>EndCompact. CASE EndCompact
  <2>1. /\ gcpc = "copy" /\ nodes = {} /\ left = {} /\ mapped' = mapped \ {prev_prev_buffer} /\ gcpc' = "idle"
        /\ old' = Null
        /\ UNCHANGED <<gc_dead_tlab_list, gc_compact_dead_tlab_list, gc_compact_dead_tlab_list_prev>>
    BY <1>EndCompact DEF EndCompact
  <2>2. QED
    BY <2>1, <1>k, <1>m DEF DoomBuffer, GivenUp, HasOld, Taking
<1>q. QED
  BY <1>b, <1>f, <1>t, <1>moves, <1>Cleanup, <1>FreeInBuffer, <1>Recheck, <1>BeginCompact,
    <1>StoreHandle, <1>Defer, <1>EndCompact, Keeps_gc_compact_dead_tlab_list,
        Keeps_gc_compact_dead_tlab_list_prev, Keeps_gc_dead_tlab_list, Keeps_gcpc, Keeps_mapped, Keeps_old

DoomListed(b) ==
  /\ b \notin gc_compact_dead_tlab_list \cap gc_compact_dead_tlab_list_prev
  /\ b \in gc_dead_tlab_list => b \notin GivenUp
  /\ gcpc \in HasOld /\ old = b =>
       /\ gc_compacting = 1 => b \notin GivenUp
       /\ gcpc \in Taking /\ gc_compacting = 0 => b \in gc_dead_tlab_list

LEMMA DoomLists ==
  ASSUME Ground, Ground', Kept, lapse' = {}, NEW b \in Buffer, Step
  PROVE  DoomListed(b)'
<1>b. bound.threads \subseteq Threads
  BY BoundKnown DEF Ground, TypeOK
<1>k. DoomBuffer(b)
  BY DoomReading DEF Kept, DoomRead
<1>z. b # Null
  BY DEF Buffer, Null
<1>i. DoomListed(b)
  BY <1>k DEF DoomBuffer, DoomListed
<1>c. /\ gc_dead_tlab_list # {} =>
           gc_compacting = 0 /\ gcpc \in {"steal", "sweep", "prepend", "recheck"} \cup Taking
      /\ gcpc \in Copying => gc_compacting = 1
      /\ gc_compacting = 1 => gcpc \in Copying \cup Taking
      /\ gc_compacting \in 0 .. 1
      /\ gc_compact_dead_tlab_list # {} => gc_compacting = 1 \/ gcpc \in {"idle", "wait", "cleanup", "size"}
  BY TypesSplit DEF Ground, Typed, CompactTyped, CycleKnown
<1>f. CASE UNCHANGED <<gc_dead_tlab_list, gc_compact_dead_tlab_list,
                gc_compact_dead_tlab_list_prev, gcpc, old, gc_compacting>>
  BY <1>f, <1>i DEF DoomListed, GivenUp
<1>moves. CASE Begin \/ Mark \/ LoadOldHead \/ Prepend \/ IsCurrent \/ ResetBase \/ ResetCursor \/
               ResetLimit \/ Copy \/ Decrement \/ RecheckOld
  <2>1. UNCHANGED <<gc_dead_tlab_list, gc_compact_dead_tlab_list, gc_compact_dead_tlab_list_prev, old,
            gc_compacting>>
    BY <1>moves, SweepLeaves, ReleaseLeaves, CompactLeaves
  <2>2. QED
    BY <1>moves, <2>1, SweepMoves, CompactMoves, <1>i, <1>k, <1>c DEF DoomListed, GivenUp, HasOld, Taking,
       Copying, Back
<1>Cleanup. CASE Cleanup
  <2>1. /\ gcpc = "cleanup" /\ gcpc' = "steal" /\ gc_compact_dead_tlab_list' = {}
        /\ gc_compact_dead_tlab_list_prev' = gc_compact_dead_tlab_list
        /\ UNCHANGED <<gc_dead_tlab_list, old, gc_compacting>>
    BY <1>Cleanup DEF Cleanup
  <2>2. QED
    BY <2>1, <1>c, <1>i, <1>k, <1>c DEF DoomListed, GivenUp, HasOld, Taking, Copying
<1>Steal. CASE Steal
  <2>1. /\ \/ \E u \in left : gcpc = "steal" /\ gcpc' = "sweep"
           \/ gcpc = "steal" /\ left = {} /\ gcpc' = "recheck"
        /\ UNCHANGED <<gc_dead_tlab_list, gc_compact_dead_tlab_list, gc_compact_dead_tlab_list_prev, old,
           gc_compacting>>
    BY <1>Steal DEF Steal
  <2>2. QED
    BY <2>1, <1>c, <1>i, <1>k, <1>c DEF DoomListed, GivenUp, HasOld, Taking, Copying
<1>FreeInBuffer. CASE FreeInBuffer
  <2>1. /\ gcpc = "sweep"
        /\ \E o \in nodes :
             \/ UNCHANGED <<gc_dead_tlab_list, gcpc, old>>
             \/ /\ old' = node_base[o] /\ gc_dead_tlab_list' = gc_dead_tlab_list \cup {node_base[o]}
                /\ gcpc' = "current"
        /\ UNCHANGED <<gc_compact_dead_tlab_list, gc_compact_dead_tlab_list_prev, gc_compacting>>
    BY <1>FreeInBuffer DEF FreeInBuffer
  <2>2. \A o \in nodes : node_base[o] = b => b \notin GivenUp
    BY NodeLives DEF Listed
  <2>3. QED
    BY <2>1, <2>2, <1>i, <1>k, <1>c DEF DoomListed, GivenUp, HasOld, Taking
<1>Recheck. CASE Recheck
  <2>1. /\ gcpc = "recheck" /\ gcpc' = "size" /\ gc_dead_tlab_list' = {}
        /\ gc_compact_dead_tlab_list' = gc_compact_dead_tlab_list \cup {d \in gc_dead_tlab_list : live_count[d] = 0}
        /\ UNCHANGED <<gc_compact_dead_tlab_list_prev, old, gc_compacting>>
    BY <1>Recheck DEF Recheck
  <2>2. QED
    BY <2>1, <1>c, <1>i, <1>k, <1>c DEF DoomListed, GivenUp, HasOld, Taking, Copying
<1>BeginCompact. CASE BeginCompact
  <2>1. /\ \/ \E fresh \in Buffer : /\ gcpc = "size" /\ Listed # {} /\ allotted < MaxBuffers
                                    /\ fresh = allotted + 1 /\ gcpc' = "copy" /\ gc_compacting' = 1
           \/ gcpc = "size" /\ gcpc' = "idle" /\ UNCHANGED gc_compacting
        /\ UNCHANGED <<gc_dead_tlab_list, gc_compact_dead_tlab_list, gc_compact_dead_tlab_list_prev, old>>
    BY <1>BeginCompact DEF BeginCompact, Map, MayFail
  <2>2. QED
    BY <2>1, <1>i, <1>k, <1>c DEF DoomListed, GivenUp, HasOld, Taking, Copying
<1>StoreHandle. CASE StoreHandle
  <2>1. /\ gcpc = "store" /\ old' = node_base[node]
        /\ gcpc' \in {"decrement", "copy"}
        /\ UNCHANGED <<gc_dead_tlab_list, gc_compact_dead_tlab_list, gc_compact_dead_tlab_list_prev,
           gc_compacting>>
    BY <1>StoreHandle DEF StoreHandle
  <2>2. node_base[node] = b => b \notin GivenUp
    BY <2>1, StoreKnown, NodeLives
  <2>3. QED
    BY <2>1, <2>2, <1>i, <1>k, <1>c DEF DoomListed, GivenUp, HasOld, Taking
<1>Defer. CASE Defer
  <2>1. /\ gcpc = "defer" /\ gcpc' = "copy"
        /\ gc_compact_dead_tlab_list' = gc_compact_dead_tlab_list \cup {old}
        /\ UNCHANGED <<gc_dead_tlab_list, gc_compact_dead_tlab_list_prev, old, gc_compacting>>
    BY <1>Defer DEF Defer
  <2>2. QED
    BY <2>1, <1>i, <1>k, <1>c DEF DoomListed, GivenUp, HasOld, Taking, Copying
<1>EndCompact. CASE EndCompact
  <2>1. /\ gcpc = "copy" /\ nodes = {} /\ left = {} /\ gcpc' = "idle" /\ gc_compacting' = 0 /\ old' = Null
        /\ UNCHANGED <<gc_dead_tlab_list, gc_compact_dead_tlab_list, gc_compact_dead_tlab_list_prev>>
    BY <1>EndCompact DEF EndCompact
  <2>2. QED
    BY <2>1, <1>i, <1>k, <1>c DEF DoomListed, GivenUp, HasOld, Taking, Copying
<1>q. QED
  BY <1>b, <1>f, <1>moves, <1>Cleanup, <1>Steal, <1>FreeInBuffer, <1>Recheck, <1>BeginCompact,
    <1>StoreHandle, <1>Defer, <1>EndCompact, Keeps_gc_compact_dead_tlab_list,
        Keeps_gc_compact_dead_tlab_list_prev, Keeps_gc_compacting, Keeps_gc_dead_tlab_list, Keeps_gcpc,
            Keeps_old

LEMMA EmptyStays ==
  ASSUME Ground, Ground', Kept, lapse' = {}, NEW b \in Buffer, b \in mapped, b \notin Moved,
         live_count[b] = 0, b \in Doomed, Step
  PROVE  live_count'[b] = 0
<1>b. bound.threads \subseteq Threads
  BY BoundKnown DEF Ground, TypeOK
<1>k. live_count[b] = 0 /\ b \in Buffer
  OBVIOUS
<1>m. b \notin {target, prev_buffer, prev_prev_buffer} /\ b # Null
  BY DEF Moved, Buffer, Null
<1>e. /\ \A o \in Listed : node_base[o] # b
      /\ ~(gcpc = "decrement" /\ old = b)
  BY <1>m, EmptyKnown
<1>l. live_count \in [Buffer -> Int]
  BY TypesSplit DEF Ground, Typed, MemoryTyped
<1>f. CASE UNCHANGED <<live_count>>
  BY <1>f, <1>k
<1>t. ASSUME NEW t \in Threads, t \in bound.threads, Count(t)
      PROVE  live_count'[b] = 0
  <2>Count. CASE Count(t)
    <3>1. base[t] # b \/ base[t] = Null
      BY <2>Count, <1>t, LapseStep
    <3>2. CASE base[t] = Null
      BY <2>Count, <3>2, <1>k DEF Count
    <3>3. CASE base[t] # Null
      <4>1. live_count' = [live_count EXCEPT ![base[t]] = @ + 1]
        BY <2>Count, <3>3 DEF Count
      <4>2. QED
        BY <4>1, <3>1, <3>3, <1>k, <1>l
    <3>4. QED
      BY <3>2, <3>3
  <2>q. QED
    BY <1>t, <2>Count
<1>Begin. CASE Begin
  <2>1. live_count' = [d \in Buffer |-> IF d = prev_buffer THEN Poison ELSE live_count[d]]
    BY <1>Begin DEF Begin
  <2>2. QED
    BY <2>1, <1>k, <1>m, <1>l
<1>FreeInBuffer. CASE FreeInBuffer
  <2>1. PICK o \in nodes : live_count' = [c \in Buffer |-> IF c = node_base[o] THEN live_count[c] - 1 ELSE live_count[c]]
    BY <1>FreeInBuffer DEF FreeInBuffer
  <2>2. node_base[o] # b
    BY <1>e DEF Listed
  <2>3. QED
    BY <2>1, <2>2, <1>k
<1>StoreHandle. CASE StoreHandle
  <2>1. live_count' = [live_count EXCEPT ![target] = @ + 1]
    BY <1>StoreHandle DEF StoreHandle
  <2>2. QED
    BY <2>1, <1>k, <1>m, <1>l
<1>Decrement. CASE Decrement
  <2>1. gcpc = "decrement" /\ live_count' = [live_count EXCEPT ![old] = @ - 1]
    BY <1>Decrement DEF Decrement, Touch
  <2>2. QED
    BY <2>1, <1>l, <1>e, <1>k, <1>m, <1>l
<1>q. QED
  BY <1>b, <1>f, <1>t, <1>Begin, <1>FreeInBuffer, <1>StoreHandle, <1>Decrement, Keeps_live_count

EmptyNow(b) == b \in Doomed \/ (live_count[b] = 0 /\ live_count' = live_count)

LEMMA EmptyGrows ==
  ASSUME Ground, Ground', Kept, lapse' = {}, NEW b \in Buffer, Step
  PROVE  (b \in GivenUp' \/ (gcpc' \in Taking \cup {"defer"} /\ gc_compacting' = 1 /\ old' = b)) => EmptyNow(b)
<1>b. bound.threads \subseteq Threads
  BY BoundKnown DEF Ground, TypeOK
<1>k. DoomBuffer(b)
  BY DoomReading DEF Kept, DoomRead
<1>z. b # Null
  BY DEF Buffer, Null
<1>c. /\ gc_dead_tlab_list # {} =>
           gc_compacting = 0 /\ gcpc \in {"steal", "sweep", "prepend", "recheck"} \cup Taking
      /\ gcpc \in Copying => gc_compacting = 1
      /\ gc_compacting = 1 => gcpc \in Copying \cup Taking
      /\ gc_compacting \in 0 .. 1
  BY TypesSplit DEF Ground, Typed, CompactTyped, CycleKnown
<1>f. CASE UNCHANGED <<gc_dead_tlab_list, gc_compact_dead_tlab_list,
                gc_compact_dead_tlab_list_prev, gcpc, old, gc_compacting>>
  BY <1>f, <1>c DEF EmptyNow, Doomed, GivenUp, Taking, Copying
<1>moves. CASE Begin \/ Mark \/ Steal \/ LoadOldHead \/ Prepend \/ IsCurrent \/ ResetBase \/ ResetCursor
               \/ ResetLimit \/ Copy \/ Decrement
  <2>1. UNCHANGED <<gc_dead_tlab_list, gc_compact_dead_tlab_list, gc_compact_dead_tlab_list_prev, old,
            gc_compacting>>
    BY <1>moves, SweepLeaves, ReleaseLeaves, CompactLeaves
  <2>2. QED
    BY <1>moves, <2>1, SweepMoves, CompactMoves, <1>c DEF EmptyNow, Doomed, GivenUp, Taking, Copying, Back
<1>Cleanup. CASE Cleanup
  <2>1. /\ gcpc = "cleanup" /\ gcpc' = "steal" /\ gc_compact_dead_tlab_list' = {}
        /\ gc_compact_dead_tlab_list_prev' = gc_compact_dead_tlab_list
        /\ UNCHANGED <<gc_dead_tlab_list, old, gc_compacting>>
    BY <1>Cleanup DEF Cleanup
  <2>2. QED
    BY <2>1, <1>c DEF EmptyNow, Doomed, GivenUp, Taking, Copying
<1>FreeInBuffer. CASE FreeInBuffer
  <2>1. gcpc = "sweep" /\ UNCHANGED <<gc_compacting, gc_compact_dead_tlab_list, gc_compact_dead_tlab_list_prev>>
    BY <1>FreeInBuffer DEF FreeInBuffer
  <2>2. QED
    BY <2>1, <1>c DEF EmptyNow, Doomed, GivenUp, Copying, Taking
<1>Recheck. CASE Recheck
  <2>1. /\ gcpc = "recheck" /\ gcpc' = "size" /\ UNCHANGED <<live_count, gc_compact_dead_tlab_list_prev>>
        /\ gc_compact_dead_tlab_list' = gc_compact_dead_tlab_list \cup {c \in gc_dead_tlab_list : live_count[c] = 0}
    BY <1>Recheck DEF Recheck
  <2>2. QED
    BY <2>1 DEF EmptyNow, Doomed, GivenUp, Taking
<1>BeginCompact. CASE BeginCompact
  <2>1. /\ \/ \E fresh \in Buffer : /\ gcpc = "size" /\ Listed # {} /\ allotted < MaxBuffers
                                    /\ fresh = allotted + 1 /\ gcpc' = "copy" /\ gc_compacting' = 1
           \/ gcpc = "size" /\ gcpc' = "idle" /\ UNCHANGED gc_compacting
        /\ UNCHANGED <<gc_dead_tlab_list, gc_compact_dead_tlab_list, gc_compact_dead_tlab_list_prev, old>>
    BY <1>BeginCompact DEF BeginCompact, Map, MayFail
  <2>2. QED
    BY <2>1, <1>c DEF EmptyNow, Doomed, GivenUp, Taking, Copying
<1>StoreHandle. CASE StoreHandle
  <2>1. /\ gcpc = "store"
        /\ (gcpc' = IF flag_tlab[node] /\ node_base[node] # Null THEN "decrement" ELSE "copy")
        /\ old' = node_base[node]
        /\ UNCHANGED <<gc_dead_tlab_list, gc_compact_dead_tlab_list, gc_compact_dead_tlab_list_prev,
           gc_compacting>>
    BY <1>StoreHandle DEF StoreHandle
  <2>2. QED
    BY <2>1, <1>c DEF EmptyNow, Doomed, GivenUp, Taking, Copying
<1>RecheckOld. CASE RecheckOld
  <2>1. gcpc = "recheck_old" /\ gcpc' = IF live_count[old] = 0 THEN "current" ELSE "copy"
    BY <1>RecheckOld DEF RecheckOld
  <2>2. UNCHANGED <<live_count, old, gc_compact_dead_tlab_list, gc_compact_dead_tlab_list_prev>>
    BY <1>RecheckOld DEF RecheckOld
  <2>3. QED
    BY <2>1, <2>2 DEF EmptyNow, Doomed, GivenUp, Taking
<1>Defer. CASE Defer
  <2>1. /\ gcpc = "defer" /\ gcpc' = "copy"
        /\ gc_compact_dead_tlab_list' = gc_compact_dead_tlab_list \cup {old}
        /\ UNCHANGED <<gc_dead_tlab_list, gc_compact_dead_tlab_list_prev, old, gc_compacting>>
    BY <1>Defer DEF Defer
  <2>2. QED
    BY <2>1, <1>c DEF EmptyNow, Doomed, GivenUp, Taking, Copying
<1>EndCompact. CASE EndCompact
  <2>1. /\ gcpc = "copy" /\ nodes = {} /\ left = {} /\ gcpc' = "idle" /\ gc_compacting' = 0 /\ old' = Null
        /\ UNCHANGED <<gc_dead_tlab_list, gc_compact_dead_tlab_list, gc_compact_dead_tlab_list_prev>>
    BY <1>EndCompact DEF EndCompact
  <2>2. QED
    BY <2>1, <1>c DEF EmptyNow, Doomed, GivenUp, Taking, Copying
<1>q. QED
  BY <1>b, <1>f, <1>moves, <1>Cleanup, <1>FreeInBuffer, <1>Recheck, <1>BeginCompact, <1>StoreHandle,
    <1>RecheckOld, <1>Defer, <1>EndCompact, Keeps_gc_compact_dead_tlab_list,
        Keeps_gc_compact_dead_tlab_list_prev, Keeps_gc_compacting, Keeps_gc_dead_tlab_list, Keeps_gcpc,
            Keeps_old

LEMMA DoomGrows ==
  ASSUME Ground, Ground', Kept, lapse' = {}, NEW b \in Buffer, Step
  PROVE  b \in GivenUp' \cup gc_dead_tlab_list' => b \in GivenUp \cup gc_dead_tlab_list
           \/ (gcpc = "sweep" /\ gcpc' = "current" /\ old' = b) \/ (gcpc = "defer" /\ old = b)
<1>b. bound.threads \subseteq Threads
  BY BoundKnown DEF Ground, TypeOK
<1>f. CASE UNCHANGED <<gc_dead_tlab_list, gc_compact_dead_tlab_list,
                gc_compact_dead_tlab_list_prev, gcpc, old>>
  BY <1>f DEF GivenUp
<1>moves. CASE Begin \/ Mark \/ Steal \/ LoadOldHead \/ Prepend \/ IsCurrent \/ ResetBase \/ ResetCursor
               \/ ResetLimit \/ BeginCompact \/ Copy \/ Decrement \/ RecheckOld
  <2>1. UNCHANGED <<gc_dead_tlab_list, gc_compact_dead_tlab_list, gc_compact_dead_tlab_list_prev, old>>
    BY <1>moves, SweepLeaves, ReleaseLeaves, CompactLeaves
  <2>2. QED
    BY <1>moves, <2>1, SweepMoves, CompactMoves DEF GivenUp, Back
<1>Cleanup. CASE Cleanup
  <2>1. /\ gcpc = "cleanup" /\ gcpc' = "steal" /\ gc_compact_dead_tlab_list' = {}
        /\ gc_compact_dead_tlab_list_prev' = gc_compact_dead_tlab_list /\ UNCHANGED <<gc_dead_tlab_list, old>>
    BY <1>Cleanup DEF Cleanup
  <2>2. QED
    BY <2>1 DEF GivenUp
<1>FreeInBuffer. CASE FreeInBuffer
  <2>1. /\ \/ \E n \in nodes : /\ gcpc = "sweep" /\ Dead(n) /\ flag_tlab[n] /\ node_base[n] # Null
                               /\ live_count'[node_base[n]] = 0 /\ gcpc' = "current"
                               /\ gc_dead_tlab_list' = gc_dead_tlab_list \cup {node_base[n]}
                               /\ old' = node_base[n]
           \/ \E n \in nodes : /\ gcpc = "sweep" /\ Dead(n) /\ flag_tlab[n]
                               /\ (node_base[n] = Null \/ live_count'[node_base[n]] # 0)
                               /\ UNCHANGED <<gcpc, gc_dead_tlab_list, old>>
        /\ UNCHANGED <<gc_compact_dead_tlab_list, gc_compact_dead_tlab_list_prev>>
    BY <1>FreeInBuffer DEF FreeInBuffer, Touch, Dead
  <2>2. QED
    BY <2>1 DEF GivenUp
<1>Recheck. CASE Recheck
  <2>1. /\ gcpc = "recheck" /\ gcpc' = "size" /\ gc_dead_tlab_list' = {}
        /\ gc_compact_dead_tlab_list' = gc_compact_dead_tlab_list \cup {d \in gc_dead_tlab_list : live_count[d] = 0}
        /\ UNCHANGED <<gc_compact_dead_tlab_list_prev, old>>
    BY <1>Recheck DEF Recheck
  <2>2. QED
    BY <2>1 DEF GivenUp
<1>StoreHandle. CASE StoreHandle
  <2>1. /\ gcpc = "store"
        /\ (gcpc' = IF flag_tlab[node] /\ node_base[node] # Null THEN "decrement" ELSE "copy")
        /\ old' = node_base[node]
        /\ UNCHANGED <<gc_dead_tlab_list, gc_compact_dead_tlab_list, gc_compact_dead_tlab_list_prev>>
    BY <1>StoreHandle DEF StoreHandle
  <2>2. QED
    BY <2>1 DEF GivenUp
<1>Defer. CASE Defer
  <2>1. /\ gcpc = "defer" /\ gcpc' = "copy"
        /\ gc_compact_dead_tlab_list' = gc_compact_dead_tlab_list \cup {old}
        /\ UNCHANGED <<gc_dead_tlab_list, gc_compact_dead_tlab_list_prev, old>>
    BY <1>Defer DEF Defer
  <2>2. QED
    BY <2>1 DEF GivenUp
<1>EndCompact. CASE EndCompact
  <2>1. /\ gcpc = "copy" /\ nodes = {} /\ left = {} /\ gcpc' = "idle" /\ old' = Null
        /\ UNCHANGED <<gc_dead_tlab_list, gc_compact_dead_tlab_list, gc_compact_dead_tlab_list_prev>>
    BY <1>EndCompact DEF EndCompact
  <2>2. QED
    BY <2>1 DEF GivenUp
<1>q. QED
  BY <1>b, <1>f, <1>moves, <1>Cleanup, <1>FreeInBuffer, <1>Recheck, <1>StoreHandle, <1>Defer,
    <1>EndCompact, Keeps_gc_compact_dead_tlab_list, Keeps_gc_compact_dead_tlab_list_prev,
        Keeps_gc_dead_tlab_list, Keeps_gcpc, Keeps_old

ThreadHeld == gcpc = "current" => thread \in Threads

LEMMA ThreadIsHeld == Ground => ThreadHeld
BY HandsKnown DEF Ground, Typed, ThreadHeld, HasOld, Taking

LEMMA DoomMoved ==
  ASSUME Ground, Ground', Kept, lapse' = {}, NEW b \in Buffer, Step
  PROVE  b \in GivenUp' \cup gc_dead_tlab_list' => b \notin Moved'
<1>1. /\ b \in GivenUp \cup gc_dead_tlab_list => b \notin Moved /\ b \in mapped
      /\ gcpc = "defer" => old \notin Moved /\ old \in mapped
  <2>1. DoomBuffer(b)
    BY DoomReading DEF Kept, DoomRead
  <2>2. gcpc = "defer" => old \notin Moved
    BY OldAlone DEF HasOld
  <2>3. gcpc = "defer" => old \in mapped
    BY DEF Kept, DoomKnown, HasOld
  <2>4. QED
    BY <2>1, <2>2, <2>3 DEF DoomBuffer
<1>2. ASSUME b \in mapped, b \notin Moved
      PROVE  b \notin Moved'
  <2>1. ~(b > allotted)
    BY <1>2, AllottedKnown DEF Kept, BuffersKnown
  <2>2. QED
    BY <1>2, <2>1, MovedStep
<1>3. ASSUME gcpc' = "current", old' = b
      PROVE  b \notin Moved'
  <2>1. UsesKnown'
    BY UsesStep
  <2>2. old' # prev_buffer' /\ gcpc' \in HasOld
    BY <1>3, <2>1 DEF UsesKnown, HasOld, Taking
  <2>3. (Ground => ThreadHeld)'
    BY ThreadIsHeld, PTL
  <2>4. Uses(thread, b)' /\ thread' \in Threads
    BY <1>3, <2>2, <2>3 DEF Uses, ThreadHeld, HasOld, Taking
  <2>5. QED
    BY <2>1, <2>4 DEF UsesKnown
<1>4. QED
  BY <1>1, <1>2, <1>3, DoomGrows

(* Who is to be nobody's.                                                  *)
Given(b) ==
  \/ b \in GivenUp
  \/ b \in gc_dead_tlab_list /\ ~(b = old /\ gcpc \in Taking \ {"reset_limit"})
  \/ gcpc \in {"reset_limit", "defer"} /\ old = b
KeptAway(b) == Detached(b) /\ (b \in GivenUp \cup gc_dead_tlab_list \/ (gcpc \in HasOld /\ old = b))

LEMMA GivenGrows ==
  ASSUME Ground, Ground', Kept, lapse' = {}, NEW b \in Buffer, Step
  PROVE  Given(b)' => KeptAway(b) \/ IsCurrent \/ ResetCursor
<1>b. bound.threads \subseteq Threads
  BY BoundKnown DEF Ground, TypeOK
<1>k. DoomBuffer(b)
  BY DoomReading DEF Kept, DoomRead
<1>z. b # Null
  BY DEF Buffer, Null
<1>f. CASE UNCHANGED <<gc_dead_tlab_list, gc_compact_dead_tlab_list,
                gc_compact_dead_tlab_list_prev, gcpc, old>>
  BY <1>f, <1>k DEF Given, KeptAway, DoomBuffer, GivenUp, HasOld, Taking
<1>moves. CASE Begin \/ Mark \/ Steal \/ LoadOldHead \/ Prepend \/ ResetBase \/ ResetLimit \/ BeginCompact
               \/ Copy \/ Decrement \/ RecheckOld
  <2>1. UNCHANGED <<gc_dead_tlab_list, gc_compact_dead_tlab_list, gc_compact_dead_tlab_list_prev, old>>
    BY <1>moves, SweepLeaves, ReleaseLeaves, CompactLeaves
  <2>2. QED
    BY <1>moves, <2>1, SweepMoves, CompactMoves, <1>k DEF Given, KeptAway, DoomBuffer, GivenUp, HasOld,
       Taking, Back
<1>Cleanup. CASE Cleanup
  <2>1. /\ gcpc = "cleanup" /\ gcpc' = "steal" /\ gc_compact_dead_tlab_list' = {}
        /\ gc_compact_dead_tlab_list_prev' = gc_compact_dead_tlab_list /\ UNCHANGED <<gc_dead_tlab_list, old>>
    BY <1>Cleanup DEF Cleanup
  <2>2. QED
    BY <2>1, <1>k DEF Given, KeptAway, DoomBuffer, GivenUp, HasOld, Taking
<1>FreeInBuffer. CASE FreeInBuffer
  <2>1. /\ \/ \E n \in nodes : /\ gcpc = "sweep" /\ Dead(n) /\ flag_tlab[n] /\ node_base[n] # Null
                               /\ live_count'[node_base[n]] = 0 /\ gcpc' = "current"
                               /\ gc_dead_tlab_list' = gc_dead_tlab_list \cup {node_base[n]}
                               /\ old' = node_base[n]
           \/ \E n \in nodes : /\ gcpc = "sweep" /\ Dead(n) /\ flag_tlab[n]
                               /\ (node_base[n] = Null \/ live_count'[node_base[n]] # 0)
                               /\ UNCHANGED <<gcpc, gc_dead_tlab_list, old>>
        /\ UNCHANGED <<gc_compact_dead_tlab_list, gc_compact_dead_tlab_list_prev>>
    BY <1>FreeInBuffer DEF FreeInBuffer, Touch, Dead
  <2>2. QED
    BY <2>1, <1>k DEF Given, KeptAway, DoomBuffer, GivenUp, HasOld, Taking
<1>Recheck. CASE Recheck
  <2>1. /\ gcpc = "recheck" /\ gcpc' = "size" /\ gc_dead_tlab_list' = {}
        /\ gc_compact_dead_tlab_list' = gc_compact_dead_tlab_list \cup {d \in gc_dead_tlab_list : live_count[d] = 0}
        /\ UNCHANGED <<gc_compact_dead_tlab_list_prev, old>>
    BY <1>Recheck DEF Recheck
  <2>2. QED
    BY <2>1, <1>k DEF Given, KeptAway, DoomBuffer, GivenUp, HasOld, Taking
<1>IsCurrent. CASE IsCurrent
  BY <1>IsCurrent
<1>ResetCursor. CASE ResetCursor
  BY <1>ResetCursor
<1>StoreHandle. CASE StoreHandle
  <2>1. /\ gcpc = "store"
        /\ (gcpc' = IF flag_tlab[node] /\ node_base[node] # Null THEN "decrement" ELSE "copy")
        /\ old' = node_base[node]
        /\ UNCHANGED <<gc_dead_tlab_list, gc_compact_dead_tlab_list, gc_compact_dead_tlab_list_prev>>
    BY <1>StoreHandle DEF StoreHandle
  <2>2. QED
    BY <2>1, <1>k DEF Given, KeptAway, DoomBuffer, GivenUp, HasOld, Taking
<1>Defer. CASE Defer
  <2>1. /\ gcpc = "defer" /\ gcpc' = "copy"
        /\ gc_compact_dead_tlab_list' = gc_compact_dead_tlab_list \cup {old}
        /\ UNCHANGED <<gc_dead_tlab_list, gc_compact_dead_tlab_list_prev, old>>
    BY <1>Defer DEF Defer
  <2>2. QED
    BY <2>1, <1>k DEF Given, KeptAway, DoomBuffer, GivenUp, HasOld, Taking
<1>EndCompact. CASE EndCompact
  <2>1. /\ gcpc = "copy" /\ nodes = {} /\ left = {} /\ gcpc' = "idle" /\ old' = Null
        /\ UNCHANGED <<gc_dead_tlab_list, gc_compact_dead_tlab_list, gc_compact_dead_tlab_list_prev>>
    BY <1>EndCompact DEF EndCompact
  <2>2. QED
    BY <2>1, <1>k DEF Given, KeptAway, DoomBuffer, GivenUp, HasOld, Taking
<1>q. QED
  BY <1>b, <1>f, <1>moves, <1>Cleanup, <1>FreeInBuffer, <1>Recheck, <1>IsCurrent, <1>ResetCursor,
    <1>StoreHandle, <1>Defer, <1>EndCompact, Keeps_gc_compact_dead_tlab_list,
        Keeps_gc_compact_dead_tlab_list_prev, Keeps_gc_dead_tlab_list, Keeps_gcpc, Keeps_old

LEMMA DetachStep ==
  ASSUME Ground, Ground', Kept, lapse' = {}, NEW b \in Buffer, Step
  PROVE  Given(b)' => Detached(b)'
<1> SUFFICES ASSUME Given(b)' PROVE Detached(b)'
  OBVIOUS
<1>k. DoomBuffer(b)
  BY DoomReading DEF Kept, DoomRead
<1>z. b # Null
  BY DEF Buffer, Null
<1>1. CASE KeptAway(b)
  BY <1>1, NotRefilled, DetachedKept DEF KeptAway
<1>2. CASE IsCurrent
  <2>1. /\ gcpc = "current" /\ gcpc' = IF tlab_base[thread] = old THEN "reset_base" ELSE Back
        /\ UNCHANGED <<pc, tlab_base, tlab_cursor, old, gc_dead_tlab_list, gc_compact_dead_tlab_list,
                       gc_compact_dead_tlab_list_prev>>
    BY <1>2 DEF IsCurrent
  <2>2. CASE b # old \/ tlab_base[thread] = old
    <3>1. Detached(b)
      BY <2>1, <2>2, <1>k DEF Given, DoomBuffer, GivenUp, Taking, Back
    <3>2. QED
      BY <2>1, <3>1 DEF Detached
  <2>3. CASE b = old /\ tlab_base[thread] # old
    <3>1. gcpc \in HasOld /\ gcpc \in HasOld \ {"decrement"}
      BY <2>1 DEF HasOld, Taking
    <3>2. FieldKnown(thread) /\ ~Unused(old)
      BY <3>1, OldAlone DEF Kept, FieldsKnown, Unused
    <3>3. tlab_cursor[thread].buffer = old => pc[thread] = "store_cursor"
      BY <2>1, <2>3, <3>2, <1>z DEF FieldKnown
    <3>4. Detached(b)
      BY <2>3, <3>1, <3>3, OldAlone DEF Detached
    <3>5. QED
      BY <2>1, <3>4 DEF Detached
  <2>4. QED
    BY <2>2, <2>3
<1>3. CASE ResetCursor
  <2>1. /\ gcpc = "reset_cursor" /\ gcpc' = "reset_limit"
           /\ tlab_cursor' = [tlab_cursor EXCEPT ![thread] = NoCursor]
        /\ UNCHANGED <<pc, tlab_base, old, gc_dead_tlab_list, gc_compact_dead_tlab_list,
                       gc_compact_dead_tlab_list_prev>>
    BY <1>3 DEF ResetCursor
  <2>2. gcpc \in HasOld \ {"decrement"}
    BY <2>1 DEF HasOld, Taking
  <2>3. tlab_cursor \in [Threads -> Cursor] /\ thread \in Threads
    BY <2>2, OldAlone, TypesSplit DEF Ground, Typed, CursorsTyped
  <2>4. \A t \in Threads : tlab_cursor'[t].buffer = IF t = thread THEN Null ELSE tlab_cursor[t].buffer
    BY <2>1, <2>3 DEF NoCursor
  <2>5. CASE b # old
    <3>1. Detached(b)
      BY <2>1, <2>5, <1>k DEF Given, DoomBuffer, GivenUp
    <3>2. QED
      BY <2>1, <2>4, <3>1, <1>z DEF Detached
  <2>6. CASE b = old
    <3>1. tlab_base[thread] # old
      BY <2>1 DEF Kept, DoomKnown
    <3>2. QED
      BY <2>1, <2>2, <2>4, <2>6, <3>1, <1>z, OldAlone DEF Detached
  <2>7. QED
    BY <2>5, <2>6
<1>4. QED
  BY <1>1, <1>2, <1>3, GivenGrows

LEMMA BaseReset ==
  ASSUME Ground, Ground', Kept, lapse' = {}, Step
  PROVE  gcpc' = "reset_cursor" => tlab_base'[thread'] # old'
<1>b. bound.threads \subseteq Threads
  BY BoundKnown DEF Ground, TypeOK
<1>k. gcpc = "reset_cursor" => tlab_base[thread] # old
  BY DEF Kept, DoomKnown
<1>o. gcpc \in {"reset_base", "reset_cursor"} => old \in Buffer /\ old # Null /\ thread \in Threads
  BY OldAlone DEF HasOld, Taking, Buffer, Null
<1>r. gcpc = "reset_cursor" => \A t \in Threads : pc[t] \in Refilling => buffer[t] # old
  BY <1>o, NotRefilled DEF HasOld, Taking
<1>j. tlab_base = [t \in Threads |-> tlab_base[t]]
  BY TypesSplit DEF Ground, Typed, FieldsTyped
<1>f. CASE UNCHANGED <<gcpc, tlab_base, thread, old>>
  BY <1>f, <1>k
<1>t. ASSUME NEW t \in Threads, t \in bound.threads, StoreBase(t)
      PROVE  gcpc' = "reset_cursor" => tlab_base'[thread'] # old'
  <2>StoreBase. CASE StoreBase(t)
    <3>1. /\ pc[t] = "store_base" /\ tlab_base' = [tlab_base EXCEPT ![t] = buffer[t]]
          /\ UNCHANGED <<gcpc, thread, old>>
      BY <2>StoreBase DEF StoreBase
    <3>2. QED
      BY <3>1, <1>k, <1>r, <1>o, <1>j DEF Refilling
  <2>q. QED
    BY <1>t, <2>StoreBase
<1>moves. CASE Begin \/ Mark \/ Cleanup \/ LoadOldHead \/ Prepend \/ Recheck \/ IsCurrent \/ ResetCursor
               \/ ResetLimit \/ BeginCompact \/ Copy \/ Decrement \/ RecheckOld \/ Defer
  <2>1. UNCHANGED <<tlab_base, thread, old>>
    BY <1>moves, SweepLeaves, ReleaseLeaves, CompactLeaves
  <2>2. QED
    BY <1>moves, <2>1, SweepMoves, CompactMoves, <1>k, <1>r, <1>o, <1>j DEF Refilling, Back
<1>Steal. CASE Steal
  <2>1. /\ \/ \E u \in left : gcpc = "steal" /\ gcpc' = "sweep" /\ thread' = u
           \/ gcpc = "steal" /\ left = {} /\ gcpc' = "recheck" /\ UNCHANGED thread
        /\ UNCHANGED <<tlab_base, old>>
    BY <1>Steal DEF Steal
  <2>2. QED
    BY <2>1, <1>k, <1>r, <1>o, <1>j DEF Refilling
<1>FreeInBuffer. CASE FreeInBuffer
  <2>1. /\ \/ \E n \in nodes : /\ gcpc = "sweep" /\ Dead(n) /\ flag_tlab[n] /\ node_base[n] # Null
                               /\ live_count'[node_base[n]] = 0 /\ gcpc' = "current" /\ old' = node_base[n]
           \/ \E n \in nodes : /\ gcpc = "sweep" /\ Dead(n) /\ flag_tlab[n]
                               /\ (node_base[n] = Null \/ live_count'[node_base[n]] # 0)
                               /\ UNCHANGED <<gcpc, old>>
        /\ UNCHANGED <<tlab_base, thread>>
    BY <1>FreeInBuffer DEF FreeInBuffer, Touch, Dead
  <2>2. QED
    BY <2>1, <1>k, <1>r, <1>o, <1>j DEF Refilling
<1>ResetBase. CASE ResetBase
  <2>1. /\ gcpc = "reset_base" /\ tlab_base' = [tlab_base EXCEPT ![thread] = Null] /\ gcpc' = "reset_cursor"
        /\ UNCHANGED <<thread, old>>
    BY <1>ResetBase DEF ResetBase
  <2>2. QED
    BY <2>1, <1>k, <1>r, <1>o, <1>j DEF Refilling
<1>CompactThread. CASE CompactThread
  <2>1. PICK u \in left :
            gcpc = "copy" /\ nodes = {} /\ thread' = u /\ UNCHANGED <<gcpc, tlab_base, old>>
    BY <1>CompactThread DEF CompactThread
  <2>2. QED
    BY <2>1, <1>k, <1>r, <1>o, <1>j DEF Refilling
<1>StoreHandle. CASE StoreHandle
  <2>1. /\ gcpc = "store"
        /\ (gcpc' = IF flag_tlab[node] /\ node_base[node] # Null THEN "decrement" ELSE "copy")
        /\ old' = node_base[node] /\ UNCHANGED <<tlab_base, thread>>
    BY <1>StoreHandle DEF StoreHandle
  <2>2. QED
    BY <2>1, <1>k, <1>r, <1>o, <1>j DEF Refilling
<1>EndCompact. CASE EndCompact
  <2>1. /\ gcpc = "copy" /\ nodes = {} /\ left = {} /\ gcpc' = "idle" /\ old' = Null
        /\ UNCHANGED <<tlab_base, thread>>
    BY <1>EndCompact DEF EndCompact
  <2>2. QED
    BY <2>1, <1>k, <1>r, <1>o, <1>j DEF Refilling
<1>q. QED
  BY <1>b, <1>f, <1>t, <1>moves, <1>Steal, <1>FreeInBuffer, <1>ResetBase, <1>CompactThread,
    <1>StoreHandle, <1>EndCompact, Keeps_gcpc, Keeps_old, Keeps_thread, Keeps_tlab_base

LEMMA CursorStep ==
  ASSUME Ground, Ground', Kept, lapse' = {}, NEW v \in Threads, Step
  PROVE  DoomThread(v)'
<1>b. bound.threads \subseteq Threads
  BY BoundKnown DEF Ground, TypeOK
<1>k. DoomThread(v)
  BY DoomReading DEF Kept, DoomRead
<1>n. Null \notin GivenUp
  BY TypesSplit DEF Ground, Typed, CompactTyped, GivenUp, Buffer, Null
<1>u. pc[v] = "cursor" =>
        tlab_cursor[v].buffer \notin gc_compact_dead_tlab_list \cup gc_compact_dead_tlab_list_prev
  <2>1. tlab_cursor[v].buffer \in GivenUp => pc[v] = "store_cursor"
    BY DEF Kept, DoomKnown, Detached
  <2>2. QED
    BY <2>1 DEF GivenUp
<1>i. /\ pc[v] = "idle" \/ v \notin bound.threads => cursor[v].buffer = Null
      /\ Null \notin gc_compact_dead_tlab_list \cup gc_compact_dead_tlab_list_prev
  <2>1. v \notin bound.threads => pc[v] = "idle"
    BY DEF Ground, Budget
  <2>2. AllocKnown(v)
    BY DEF Kept, AllocsKnown
  <2>3. QED
    BY <2>1, <2>2, <1>n DEF AllocKnown, NoCursor, GivenUp
<1>j. cursor = [t \in Threads |-> cursor[t]]
  BY TypesSplit DEF Ground, Typed, CursorsTyped
<1>f. CASE UNCHANGED <<cursor, gc_compact_dead_tlab_list, gc_compact_dead_tlab_list_prev, gcpc,
                acked>>
  BY <1>f, <1>k, <1>n, <1>u, <1>i, <1>j DEF DoomThread, Early
<1>t. ASSUME NEW t \in Threads, t \in bound.threads, LoadCursor(t) \/ Publish(t) \/ Safepoint(t)
      PROVE  DoomThread(v)'
  <2>LoadCursor. CASE LoadCursor(t)
    <3>1. /\ pc[t] = "cursor"
          /\ cursor' = [cursor EXCEPT ![t] = IF HasSpace(t) THEN tlab_cursor[t] ELSE NoCursor]
          /\ UNCHANGED <<gc_compact_dead_tlab_list, gc_compact_dead_tlab_list_prev, gcpc, acked>>
      BY <2>LoadCursor DEF LoadCursor, HasSpace
    <3>2. QED
      BY <3>1, <1>k, <1>n, <1>u, <1>i, <1>j DEF DoomThread, Early, NoCursor
  <2>Publish. CASE Publish(t)
    <3>1. /\ pc[t] = "publish" /\ cursor' = [cursor EXCEPT ![t] = NoCursor]
          /\ UNCHANGED <<gc_compact_dead_tlab_list, gc_compact_dead_tlab_list_prev, gcpc, acked>>
      BY <2>Publish DEF Publish
    <3>2. QED
      BY <3>1, <1>k, <1>n, <1>u, <1>i, <1>j DEF DoomThread, Early, NoCursor
  <2>Safepoint. CASE Safepoint(t)
    <3>1. /\ pc[t] = "idle" /\ gcpc = "wait" /\ t \notin acked /\ acked' = acked \cup {t}
          /\ UNCHANGED <<cursor, gc_compact_dead_tlab_list, gc_compact_dead_tlab_list_prev, gcpc>>
      BY <2>Safepoint DEF Safepoint
    <3>2. QED
      BY <3>1, <1>k, <1>n, <1>u, <1>i, <1>j DEF DoomThread, Early
  <2>q. QED
    BY <1>t, <2>LoadCursor, <2>Publish, <2>Safepoint
<1>moves. CASE Mark \/ Steal \/ FreeInBuffer \/ LoadOldHead \/ Prepend \/ IsCurrent \/ ResetBase \/
               ResetCursor \/ ResetLimit \/ BeginCompact \/ Copy \/ StoreHandle \/ Decrement \/ RecheckOld
               \/ EndCompact
  <2>1. UNCHANGED <<cursor, gc_compact_dead_tlab_list, gc_compact_dead_tlab_list_prev, acked>>
    BY <1>moves, SweepLeaves, ReleaseLeaves, CompactLeaves
  <2>2. QED
    BY <1>moves, <2>1, SweepMoves, CompactMoves, <1>k, <1>n, <1>u, <1>i, <1>j DEF DoomThread, Early, Back
<1>Begin. CASE Begin
  <2>1. /\ gcpc = "idle" /\ gc_current_mark_value <= bound.cycles /\ gcpc' = "wait" /\ acked' = {}
        /\ UNCHANGED <<cursor, gc_compact_dead_tlab_list, gc_compact_dead_tlab_list_prev>>
    BY <1>Begin DEF Begin
  <2>2. QED
    BY <2>1, <1>k, <1>n, <1>u, <1>i, <1>j DEF DoomThread, Early
<1>Cleanup. CASE Cleanup
  <2>1. /\ gcpc = "cleanup" /\ gcpc' = "steal" /\ gc_compact_dead_tlab_list' = {}
        /\ gc_compact_dead_tlab_list_prev' = gc_compact_dead_tlab_list /\ UNCHANGED <<cursor, acked>>
    BY <1>Cleanup DEF Cleanup
  <2>2. QED
    BY <2>1, <1>k, <1>n, <1>u, <1>i, <1>j DEF DoomThread, Early
<1>Recheck. CASE Recheck
  <2>1. /\ gcpc = "recheck" /\ gcpc' = "size"
        /\ gc_compact_dead_tlab_list' = gc_compact_dead_tlab_list \cup {d \in gc_dead_tlab_list : live_count[d] = 0}
        /\ UNCHANGED <<cursor, gc_compact_dead_tlab_list_prev, acked>>
    BY <1>Recheck DEF Recheck
  <2>2. QED
    BY <2>1, <1>k, <1>n, <1>u, <1>i, <1>j DEF DoomThread, Early
<1>Defer. CASE Defer
  <2>1. /\ gcpc = "defer" /\ gcpc' = "copy"
        /\ gc_compact_dead_tlab_list' = gc_compact_dead_tlab_list \cup {old}
        /\ UNCHANGED <<cursor, gc_compact_dead_tlab_list_prev, acked>>
    BY <1>Defer DEF Defer
  <2>2. QED
    BY <2>1, <1>k, <1>n, <1>u, <1>i, <1>j DEF DoomThread, Early
<1>q. QED
  BY <1>b, <1>f, <1>t, <1>moves, <1>Begin, <1>Cleanup, <1>Recheck, <1>Defer, Keeps_acked, Keeps_cursor,
     Keeps_gc_compact_dead_tlab_list, Keeps_gc_compact_dead_tlab_list_prev, Keeps_gcpc

LEMMA DoomStep ==
  ASSUME Ground, Ground', Kept, lapse' = {}, Step
  PROVE  DoomKnown'
<1>1. ASSUME NEW b \in Buffer
      PROVE  DoomBuffer(b)'
  <2>1. b \in GivenUp' \cup gc_dead_tlab_list' \/ (gcpc' \in HasOld /\ old' = b) => b \in mapped'
    BY DoomMapped
  <2>2. DoomListed(b)'
    BY DoomLists
  <2>3. b \in GivenUp' \cup gc_dead_tlab_list' => b \notin Moved'
    BY DoomMoved
  <2>4. Given(b)' => Detached(b)'
    BY DetachStep
  <2>5. b \in GivenUp' \/ (gcpc' \in Taking \cup {"defer"} /\ gc_compacting' = 1 /\ old' = b) =>
          live_count'[b] = 0
    <3>1. DoomBuffer(b)
      BY DoomReading DEF Kept, DoomRead
    <3>2. ASSUME b \in Doomed
          PROVE  live_count[b] = 0 /\ b \in mapped /\ b \notin Moved
      <4>1. CASE b \in GivenUp
        BY <4>1, <3>1 DEF DoomBuffer
      <4>2. CASE b \notin GivenUp
        <5>1. gc_compacting = 1 /\ gcpc \in Taking \cup {"defer"} /\ b = old
          BY <3>2, <4>2 DEF Doomed, GivenUp, Taking
        <5>2. QED
          BY <5>1, <3>1, OldAlone DEF DoomBuffer, HasOld, Taking
      <4>3. QED
        BY <4>1, <4>2
    <3>3. EmptyNow(b) => live_count'[b] = 0
      BY <3>2, EmptyStays DEF EmptyNow
    <3>4. QED
      BY <3>3, EmptyGrows
  <2>6. QED
    BY <2>1, <2>2, <2>3, <2>4, <2>5 DEF DoomBuffer, DoomListed, Given, HasOld
<1>2. (Ground => (DoomKnown <=> DoomRead))'
  BY DoomReading, PTL
<1>3. QED
  BY <1>1, <1>2, BaseReset, CursorStep DEF DoomRead

LEMMA ListedGrows ==
  ASSUME Ground, Step
  PROVE  \A o \in Listed' : o \in Listed \/ (o = next_object /\ \E t \in bound.threads : Publish(t))
<1>b. bound.threads \subseteq Threads
  BY BoundKnown DEF Ground, TypeOK
<1>1. ASSUME NEW t \in bound.threads, Publish(t)
      PROVE  Listed' = Listed \cup {next_object}
  BY <1>1, <1>b, PublishKnown
<1>2. ASSUME FreeBlock \/ FreeInBuffer
      PROVE  Listed' \subseteq Listed
  <2>1. PICK o \in nodes : gcpc = "sweep" /\ nodes' = nodes \ {o} /\ UNCHANGED <<alloc_list, survivors>>
    BY <1>2 DEF FreeBlock, FreeInBuffer
  <2>2. QED
    BY <2>1, FreeListed
<1>3. QED
  BY <1>1, <1>2, ListedSame

LEMMA ObjectStays ==
  ASSUME Ground, Step
  PROVE  Object' = Object \/ \E t \in bound.threads : Publish(t)
BY Keeps_next_object DEF Object

(* Only the compaction gives a node another buffer.                        *)
LEMMA NodeBaseStep ==
  ASSUME Ground, Kept, Step, NEW o \in Object
  PROVE  \/ node_base'[o] = node_base[o]
         \/ /\ StoreHandle /\ o = node /\ node_base'[o] = target /\ target \in Buffer
            /\ target \in mapped' /\ target # prev_prev_buffer'
<1>b. bound.threads \subseteq Threads
  BY BoundKnown DEF Ground, TypeOK
<1>1. ASSUME NEW t \in bound.threads, Publish(t)
      PROVE  node_base'[o] = node_base[o]
  BY <1>1, <1>b, PublishKnown
<1>2. ASSUME StoreHandle
      PROVE  \/ node_base'[o] = node_base[o]
             \/ /\ o = node /\ node_base'[o] = target /\ target \in Buffer
                /\ target \in mapped' /\ target # prev_prev_buffer'
  <2>1. /\ gcpc = "store" /\ node_base' = [node_base EXCEPT ![node] = target]
        /\ UNCHANGED <<mapped, prev_prev_buffer>>
    BY <1>2 DEF StoreHandle
  <2>2. target \in Buffer /\ node \in Object
    BY <2>1, StoreKnown
  <2>3. target \in mapped /\ target # prev_prev_buffer
    BY <2>2 DEF Kept, BuffersKnown, Moved, Buffer, Null
  <2>4. node_base \in [Object -> Buffer \cup {Null}]
    BY TypesSplit DEF Ground, Typed, ObjectsTyped
  <2>5. QED
    BY <2>1, <2>2, <2>3, <2>4
<1>3. QED
  BY <1>1, <1>2, Keeps_node_base

PlacesAgree == \A o \in Object : place[o] = node_base[o] /\ (flag_tlab[o] <=> node_base[o] # Null)

LEMMA PlacesAgreeStep ==
  ASSUME Ground, Ground', Kept, Step
  PROVE  PlacesAgree'
<1>b. bound.threads \subseteq Threads
  BY BoundKnown DEF Ground, TypeOK
<1>k. PlacesAgree
  BY DEF Kept, PlacesKnown, PlacesAgree
<1>f. CASE UNCHANGED <<place, node_base, flag_tlab, next_object>>
  BY <1>f, <1>k DEF PlacesAgree, Object
<1>t. ASSUME NEW t \in Threads, t \in bound.threads, Publish(t)
      PROVE  PlacesAgree'
  <2>Publish. CASE Publish(t)
    <3>1. base[t] = cursor[t].buffer
      <4>1. pc[t] = "publish"
        BY <2>Publish DEF Publish
      <4>2. QED
        BY <4>1 DEF Kept, AllocsKnown, AllocKnown
    <3>2. \A o \in Object : place'[o] = node_base'[o] /\ (flag_tlab'[o] <=> node_base'[o] # Null)
      BY <2>Publish, <1>k, PublishKnown DEF PlacesAgree
    <3>3. place'[next_object] = node_base'[next_object]
              /\ (flag_tlab'[next_object] <=> node_base'[next_object] # Null)
      BY <2>Publish, <3>1, PublishKnown
    <3>4. Object' = Object \cup {next_object}
      BY <2>Publish, PublishKnown
    <3>5. QED
      BY <3>2, <3>3, <3>4 DEF PlacesAgree
  <2>q. QED
    BY <1>t, <2>Publish
<1>StoreHandle. CASE StoreHandle
  <2>1. /\ gcpc = "store" /\ place' = [place EXCEPT ![node] = target]
        /\ node_base' = [node_base EXCEPT ![node] = target]
        /\ flag_tlab' = [flag_tlab EXCEPT ![node] = TRUE] /\ UNCHANGED next_object
    BY <1>StoreHandle DEF StoreHandle
  <2>2. target \in Buffer /\ node \in Object /\ target # Null
    BY <2>1, StoreKnown DEF Buffer, Null
  <2>3. /\ place \in [Object -> Buffer \cup {Null}] /\ node_base \in [Object -> Buffer \cup {Null}]
        /\ flag_tlab \in [Object -> BOOLEAN] /\ Object' = Object
    BY <2>1, TypesSplit DEF Ground, Typed, ObjectsTyped, Object
  <2>4. QED
    BY <2>1, <2>2, <2>3, <1>k DEF PlacesAgree
<1>q. QED
  BY <1>b, <1>f, <1>t, <1>StoreHandle, Keeps_flag_tlab, Keeps_next_object, Keeps_node_base, Keeps_place

LEMMA BlockKept ==
  ASSUME Ground, Ground', Kept, NEW o \in Listed, o \in Listed',
         node_base[o] = Null, node_base'[o] = Null, Step
  PROVE  o \notin freed' \cup deferred_free'
<1>b. bound.threads \subseteq Threads
  BY BoundKnown DEF Ground, TypeOK
<1>k. o \notin freed \cup deferred_free /\ o \in Listed' /\ node_base'[o] = Null
  BY DEF Kept, PlacesKnown
<1>f. CASE UNCHANGED <<freed, deferred_free>>
  BY <1>f, <1>k
<1>Cleanup. CASE Cleanup
  <2>1. freed' = freed \cup deferred_free /\ deferred_free' = {}
    BY <1>Cleanup DEF Cleanup
  <2>2. QED
    BY <2>1, <1>k
<1>FreeBlock. CASE FreeBlock
  <2>1. PICK p \in nodes : /\ gcpc = "sweep" /\ nodes' = nodes \ {p} /\ UNCHANGED <<alloc_list, survivors>>
                          /\ freed' = freed \cup {p} /\ UNCHANGED deferred_free
    BY <1>FreeBlock DEF FreeBlock
  <2>2. Listed' = Listed \ {p}
    BY <2>1, FreeListed
  <2>3. QED
    BY <2>1, <2>2, <1>k
<1>StoreHandle. CASE StoreHandle
  <2>1. /\ gcpc = "store" /\ deferred_free' = IF flag_tlab[node] THEN deferred_free ELSE deferred_free \cup {node}
        /\ node_base' = [node_base EXCEPT ![node] = target] /\ UNCHANGED freed
    BY <1>StoreHandle DEF StoreHandle
  <2>2. target \in Buffer /\ node \in Object /\ target # Null
    BY <2>1, StoreKnown DEF Buffer, Null
  <2>3. node_base \in [Object -> Buffer \cup {Null}]
    BY TypesSplit DEF Ground, Typed, ObjectsTyped
  <2>4. QED
    BY <2>1, <2>2, <2>3, <1>k
<1>q. QED
  BY <1>b, <1>f, <1>Cleanup, <1>FreeBlock, <1>StoreHandle, Keeps_deferred_free, Keeps_freed

LEMMA NodeKept ==
  ASSUME Ground, Ground', Kept, NEW o \in Listed, NEW b \in Buffer, node_base[o] = b, Step
  PROVE  b \in mapped' \ {prev_prev_buffer'}
<1>b. bound.threads \subseteq Threads
  BY BoundKnown DEF Ground, TypeOK
<1>k. b \in mapped /\ b \notin GivenUp /\ b # prev_prev_buffer
  BY NodeLives
<1>r. gcpc = "copy" /\ nodes = {} /\ left = {} => b # prev_buffer
  <2>1. gcpc = "copy" => gc_compacting = 1
    BY DEF Ground, CycleKnown, Copying
  <2>2. nodes = {} /\ left = {} => o \notin Remaining
    BY DEF Remaining
  <2>3. b # Null
    BY DEF Buffer, Null
  <2>4. QED
    BY <2>1, <2>2, <2>3 DEF Kept, RoomKnown
<1>f. CASE UNCHANGED <<mapped, prev_prev_buffer>>
  BY <1>f, <1>k
<1>t. ASSUME NEW t \in Threads, t \in bound.threads, Refill(t)
      PROVE  b \in mapped' \ {prev_prev_buffer'}
  <2>Refill. CASE Refill(t)
    <3>1. PICK fresh \in Buffer :
              mapped' = mapped \cup {fresh} /\ UNCHANGED prev_prev_buffer
      BY <2>Refill DEF Refill, Map
    <3>2. QED
      BY <3>1, <1>k, <1>r
  <2>q. QED
    BY <1>t, <2>Refill
<1>Cleanup. CASE Cleanup
  <2>1. /\ mapped' = mapped \ {d \in gc_compact_dead_tlab_list_prev : live_count[d] = 0}
        /\ UNCHANGED prev_prev_buffer
    BY <1>Cleanup DEF Cleanup
  <2>2. QED
    BY <2>1, <1>k, <1>r DEF GivenUp
<1>BeginCompact. CASE BeginCompact
  <2>1. /\ \/ \E fresh \in Buffer : mapped' = mapped \cup {fresh}
           \/ UNCHANGED mapped
        /\ UNCHANGED prev_prev_buffer
    BY <1>BeginCompact DEF BeginCompact, Map, MayFail
  <2>2. QED
    BY <2>1, <1>k, <1>r
<1>EndCompact. CASE EndCompact
  <2>1. /\ gcpc = "copy" /\ nodes = {} /\ left = {} /\ mapped' = mapped \ {prev_prev_buffer}
        /\ prev_prev_buffer' = prev_buffer
    BY <1>EndCompact DEF EndCompact
  <2>2. QED
    BY <2>1, <1>k, <1>r
<1>q. QED
  BY <1>b, <1>f, <1>t, <1>Cleanup, <1>BeginCompact, <1>EndCompact, Keeps_mapped, Keeps_prev_prev_buffer

LEMMA PlacesStep ==
  ASSUME Ground, Ground', Kept, Step
  PROVE  PlacesKnown'
<1>b. bound.threads \subseteq Threads
  BY BoundKnown DEF Ground, TypeOK
<1>1. ASSUME NEW o \in Listed, o \in Listed'
      PROVE  IF node_base'[o] = Null THEN o \notin freed' \cup deferred_free'
                                     ELSE node_base'[o] \in mapped' \ {prev_prev_buffer'}
  <2>1. o \in Object
    BY ListedFinite DEF Ground, Typed
  <2>2. CASE node_base'[o] = node_base[o]
    <3>1. CASE node_base[o] = Null
      BY <1>1, <2>2, <3>1, BlockKept
    <3>2. CASE node_base[o] # Null
      <4>1. node_base[o] \in Buffer
        BY <2>1, <3>2, TypesSplit DEF Ground, Typed, ObjectsTyped
      <4>2. QED
        BY <2>2, <3>2, <4>1, NodeKept
    <3>3. QED
      BY <3>1, <3>2
  <2>3. CASE node_base'[o] # node_base[o]
    BY <2>1, <2>3, NodeBaseStep DEF Buffer, Null
  <2>4. QED
    BY <2>2, <2>3
<1>2. ASSUME NEW t \in bound.threads, Publish(t)
      PROVE  LET o == next_object
             IN  IF node_base'[o] = Null THEN o \notin freed' \cup deferred_free'
                                         ELSE node_base'[o] \in mapped' \ {prev_prev_buffer'}
  <2>1. pc[t] = "publish" /\ UNCHANGED <<freed, deferred_free, mapped, prev_prev_buffer>> /\ t \in Threads
    BY <1>2, <1>b DEF Publish
  <2>2. node_base'[next_object] = base[t] /\ next_object \notin Object
    BY <1>2, <2>1, PublishKnown
  <2>3. freed \cup deferred_free \subseteq Object
    BY TypesSplit DEF Ground, Typed, ListsTyped
  <2>4. ASSUME base[t] # Null
        PROVE  base[t] \in mapped /\ base[t] # prev_prev_buffer
    <3>1. base[t] \in Buffer
      BY <2>1, <2>4, TypesSplit DEF Ground, Typed, FieldsTyped
    <3>2. base[t] \in mapped
      BY <2>1, <2>4 DEF Kept, AllocsKnown, AllocKnown
    <3>3. Uses(t, base[t])
      BY DEF Uses
    <3>4. base[t] \notin Moved
      BY <2>1, <3>1, <3>3 DEF Kept, UsesKnown
    <3>5. QED
      BY <2>4, <3>2, <3>4 DEF Moved
  <2>5. QED
    BY <2>1, <2>2, <2>3, <2>4
<1>3. PlacesAgree'
  BY PlacesAgreeStep
<1>4. QED
  BY <1>1, <1>2, <1>3, ListedGrows DEF PlacesKnown, PlacesAgree

LEMMA WildStep ==
  ASSUME Ground, Ground', Kept, Step
  PROVE  wild' = FALSE
<1>b. bound.threads \subseteq Threads
  BY BoundKnown DEF Ground, TypeOK
<1>k. /\ wild = FALSE
      /\ gc_compact_dead_tlab_list_prev \subseteq mapped
      /\ gcpc \in HasOld => old \in mapped
      /\ gcpc = "defer" => old \notin GivenUp
  <2>1. wild = FALSE
    BY DEF Kept
  <2>2. gc_compact_dead_tlab_list_prev \subseteq mapped /\ (gcpc \in HasOld => old \in mapped)
    BY DEF Kept, DoomKnown, GivenUp
  <2>3. gcpc = "defer" => old \notin GivenUp
    BY DEF Kept, DoomKnown, Ground, CycleKnown, HasOld, Copying
  <2>4. QED
    BY <2>1, <2>2, <2>3
<1>f. CASE UNCHANGED <<wild>>
  BY <1>f, <1>k
<1>t. ASSUME NEW t \in Threads, t \in bound.threads, Count(t)
      PROVE  wild' = FALSE
  <2>Count. CASE Count(t)
    <3>1. pc[t] = "count" /\ (wild' = wild \/ (base[t] # Null /\ wild' = (wild \/ base[t] \notin mapped)))
      BY <2>Count DEF Count, Touch
    <3>2. base[t] # Null => base[t] \in mapped
      BY <3>1 DEF Kept, AllocsKnown, AllocKnown
    <3>3. QED
      BY <3>1, <3>2, <1>k
  <2>q. QED
    BY <1>t, <2>Count
<1>Cleanup. CASE Cleanup
  <2>1. wild' = (wild \/ ~(gc_compact_dead_tlab_list_prev \subseteq mapped))
    BY <1>Cleanup DEF Cleanup
  <2>2. QED
    BY <2>1, <1>k
<1>FreeInBuffer. CASE FreeInBuffer
  <2>1. PICK o \in nodes : flag_tlab[o] /\ wild' = (wild \/ node_base[o] \notin mapped)
    BY <1>FreeInBuffer DEF FreeInBuffer, Touch
  <2>2. o \in Listed /\ o \in Object
    BY ListedFinite DEF Ground, Typed, Listed
  <2>3. node_base[o] \in mapped
    BY <2>1, <2>2 DEF Kept, PlacesKnown
  <2>4. QED
    BY <2>1, <2>3, <1>k
<1>Decrement. CASE Decrement
  <2>1. gcpc = "decrement" /\ wild' = (wild \/ old \notin mapped)
    BY <1>Decrement DEF Decrement, Touch
  <2>2. QED
    BY <2>1, <1>k DEF HasOld
<1>Defer. CASE Defer
  <2>1. gcpc = "defer" /\ wild' = (wild \/ old \in gc_compact_dead_tlab_list)
    BY <1>Defer DEF Defer
  <2>2. QED
    BY <2>1, <1>k DEF HasOld, GivenUp, Copying
<1>q. QED
  BY <1>b, <1>f, <1>t, <1>Cleanup, <1>FreeInBuffer, <1>Decrement, <1>Defer, Keeps_wild

LEMMA NewbornStep ==
  ASSUME Ground, Ground', Kept, NEW o \in Object, Step
  PROVE  Newborn(o)' => Newborn(o)
<1>b. bound.threads \subseteq Threads
  BY BoundKnown DEF Ground, TypeOK
<1>j. /\ generation \in [Object -> Nat] /\ born \in [Object -> Nat] /\ next_object \notin Object
      /\ node_base \in [Object -> Buffer \cup {Null}] /\ Listed \subseteq Object
      /\ gc_current_mark_value \in Nat \ {0}
  <2>1. gc_current_mark_value \in Nat \ {0} /\ next_object \in Nat
    BY BoundKnown, TypesSplit DEF Ground, Typed, CycleTyped, ObjectsTyped
  <2>2. QED
    BY <2>1, TypesSplit, ListedFinite DEF Ground, Typed, ObjectsTyped, Object
<1>n. /\ born[o] <= gc_current_mark_value
      /\ \A t \in bound.threads : Publish(t) => UNCHANGED gc_current_mark_value
  BY DEF Kept, BirthsKnown, Publish
<1>f. CASE UNCHANGED <<born, generation, gc_current_mark_value>>
  BY <1>f, <1>j, <1>n DEF Newborn
<1>t. ASSUME NEW t \in Threads, t \in bound.threads, Publish(t)
      PROVE  Newborn(o)' => Newborn(o)
  <2>Publish. CASE Publish(t)
    BY <1>t, <2>Publish, <1>n, PublishKnown DEF Newborn
  <2>q. QED
    BY <1>t, <2>Publish
<1>Begin. CASE Begin
  <2>1. gc_current_mark_value' = gc_current_mark_value + 1 /\ UNCHANGED <<born, generation>>
    BY <1>Begin DEF Begin
  <2>2. QED
    BY <2>1, <1>j, <1>n DEF Newborn
<1>Mark. CASE Mark
  <2>1. PICK reached \in SUBSET Listed :
            /\ generation' = [n \in Object |-> IF n \in reached THEN gc_current_mark_value + 1 ELSE generation[n]]
            /\ UNCHANGED <<born, gc_current_mark_value>>
    BY <1>Mark DEF Mark, Marking
  <2>2. QED
    BY <2>1, <1>j, <1>n DEF Newborn
<1>Copy. CASE Copy
  <2>1. PICK p \in nodes : UNCHANGED born \/ born' = [born EXCEPT ![p] = 0]
    BY <1>Copy DEF Copy
  <2>2. UNCHANGED <<generation, gc_current_mark_value>>
    BY <1>Copy DEF Copy
  <2>3. QED
    BY <2>1, <2>2, <1>j DEF Newborn
<1>q. QED
  BY <1>b, <1>f, <1>t, <1>Begin, <1>Mark, <1>Copy, Keeps_born, Keeps_gc_current_mark_value, Keeps_generation

LEMMA BornStep ==
  ASSUME Ground, Ground', Kept, NEW o \in Object, Step
  PROVE  born'[o] <= gc_current_mark_value'
<1>b. bound.threads \subseteq Threads
  BY BoundKnown DEF Ground, TypeOK
<1>j. /\ generation \in [Object -> Nat] /\ born \in [Object -> Nat] /\ next_object \notin Object
      /\ node_base \in [Object -> Buffer \cup {Null}] /\ Listed \subseteq Object
      /\ gc_current_mark_value \in Nat \ {0}
  <2>1. gc_current_mark_value \in Nat \ {0} /\ next_object \in Nat
    BY BoundKnown, TypesSplit DEF Ground, Typed, CycleTyped, ObjectsTyped
  <2>2. QED
    BY <2>1, TypesSplit, ListedFinite DEF Ground, Typed, ObjectsTyped, Object
<1>n. /\ born[o] <= gc_current_mark_value
      /\ \A t \in bound.threads : Publish(t) => UNCHANGED gc_current_mark_value
  BY DEF Kept, BirthsKnown, Publish
<1>f. CASE UNCHANGED <<born, gc_current_mark_value>>
  BY <1>f, <1>n
<1>t. ASSUME NEW t \in Threads, t \in bound.threads, Publish(t)
      PROVE  born'[o] <= gc_current_mark_value'
  <2>Publish. CASE Publish(t)
    BY <1>t, <2>Publish, <1>n, PublishKnown
  <2>q. QED
    BY <1>t, <2>Publish
<1>Begin. CASE Begin
  <2>1. gc_current_mark_value' = gc_current_mark_value + 1 /\ UNCHANGED born
    BY <1>Begin DEF Begin
  <2>2. QED
    BY <2>1, <1>j, <1>n
<1>Copy. CASE Copy
  <2>1. PICK n \in nodes :
            /\ (born' = IF node_base[n] = Null THEN [born EXCEPT ![n] = 0] ELSE born)
            /\ UNCHANGED gc_current_mark_value
    BY <1>Copy DEF Copy, Stays
  <2>2. QED
    BY <2>1, <1>j, <1>n
<1>q. QED
  BY <1>b, <1>f, <1>t, <1>Begin, <1>Copy, Keeps_born, Keeps_gc_current_mark_value

StampKnown(t) ==
  pc[t] \in {"count", "publish"} =>
    /\ stamp[t] <= gc_current_mark_value
    /\ Heard(t) => stamp[t] = gc_current_mark_value

LEMMA StampStep ==
  ASSUME Ground, Ground', Kept, NEW v \in Threads, Step
  PROVE  StampKnown(v)'
<1>b. bound.threads \subseteq Threads
  BY BoundKnown DEF Ground, TypeOK
<1>k. StampKnown(v)
  BY DEF Kept, BirthsKnown, StampKnown
<1>i. v \notin bound.threads => pc[v] = "idle"
  BY DEF Ground, Budget
<1>j. /\ pc = [t \in Threads |-> pc[t]] /\ stamp \in [Threads -> Nat] /\ gc_current_mark_value \in Nat
  BY BoundKnown, TypesSplit DEF Ground, Typed, CycleTyped, PcTyped, FlagsTyped
<1>f. CASE UNCHANGED <<pc, stamp, gcpc, acked, gc_current_mark_value>>
  BY <1>f, <1>k, <1>i, <1>j DEF StampKnown, Heard
<1>t. ASSUME NEW t \in Threads, t \in bound.threads,
               Start(t) \/ LoadLimit(t) \/ LoadCursor(t) \/ CasCursor(t) \/ LoadBase(t) \/ Malloc(t)
             \/ Count(t) \/ Publish(t) \/ Refill(t) \/ RefillFails(t) \/ StoreBase(t) \/
             StoreCursor(t) \/ StoreLimit(t) \/ Safepoint(t)
      PROVE  StampKnown(v)'
  <2>Start. CASE Start(t)
    <3>1. /\ pc[t] = "idle" /\ next_object + Cardinality({u \in Threads : pc[u] # "idle"}) <= bound.objects
          /\ pc' = [pc EXCEPT ![t] = "limit"] /\ UNCHANGED <<stamp, gcpc, acked, gc_current_mark_value>>
      BY <2>Start DEF Start
    <3>2. QED
      BY <3>1, <1>k, <1>i, <1>j DEF StampKnown, Heard
  <2>LoadLimit. CASE LoadLimit(t)
    <3>1. /\ pc[t] = "limit" /\ pc' = [pc EXCEPT ![t] = "cursor"]
          /\ UNCHANGED <<stamp, gcpc, acked, gc_current_mark_value>>
      BY <2>LoadLimit DEF LoadLimit
    <3>2. QED
      BY <3>1, <1>k, <1>i, <1>j DEF StampKnown, Heard
  <2>LoadCursor. CASE LoadCursor(t)
    <3>1. /\ pc[t] = "cursor"
          /\ pc' = [pc EXCEPT ![t] = IF HasSpace(t) THEN "cas" ELSE IF tried[t] THEN "malloc" ELSE "refill"]
          /\ UNCHANGED <<stamp, gcpc, acked, gc_current_mark_value>>
      BY <2>LoadCursor DEF LoadCursor, HasSpace
    <3>2. QED
      BY <3>1, <1>k, <1>i, <1>j DEF StampKnown, Heard
  <2>CasCursor. CASE CasCursor(t)
    <3>1. /\ \/ pc[t] = "cas" /\ tlab_cursor[t] = cursor[t] /\ pc' = [pc EXCEPT ![t] = "base"]
             \/ pc[t] = "cas" /\ pc' = [pc EXCEPT ![t] = "cursor"]
          /\ UNCHANGED <<stamp, gcpc, acked, gc_current_mark_value>>
      BY <2>CasCursor DEF CasCursor
    <3>2. QED
      BY <3>1, <1>k, <1>i, <1>j DEF StampKnown, Heard
  <2>LoadBase. CASE LoadBase(t)
    <3>1. /\ pc[t] = "base" /\ pc' = [pc EXCEPT ![t] = "count"]
          /\ stamp' = [stamp EXCEPT ![t] = gc_current_mark_value]
          /\ UNCHANGED <<gcpc, acked, gc_current_mark_value>>
      BY <2>LoadBase DEF LoadBase
    <3>2. QED
      BY <3>1, <1>k, <1>i, <1>j DEF StampKnown, Heard
  <2>Malloc. CASE Malloc(t)
    <3>1. /\ pc[t] = "malloc" /\ pc' = [pc EXCEPT ![t] = "count"]
          /\ stamp' = [stamp EXCEPT ![t] = gc_current_mark_value]
          /\ UNCHANGED <<gcpc, acked, gc_current_mark_value>>
      BY <2>Malloc DEF Malloc
    <3>2. QED
      BY <3>1, <1>k, <1>i, <1>j DEF StampKnown, Heard
  <2>Count. CASE Count(t)
    <3>1. /\ \/ pc[t] = "count" /\ base[t] = Null /\ pc' = [pc EXCEPT ![t] = "publish"]
             \/ pc[t] = "count" /\ base[t] # Null /\ pc' = [pc EXCEPT ![t] = "publish"]
          /\ UNCHANGED <<stamp, gcpc, acked, gc_current_mark_value>>
      BY <2>Count DEF Count, Touch
    <3>2. QED
      BY <3>1, <1>k, <1>i, <1>j DEF StampKnown, Heard
  <2>Publish. CASE Publish(t)
    <3>1. /\ pc[t] = "publish" /\ pc' = [pc EXCEPT ![t] = "idle"] /\ stamp' = [stamp EXCEPT ![t] = 0]
          /\ UNCHANGED <<gcpc, acked, gc_current_mark_value>>
      BY <2>Publish DEF Publish
    <3>2. QED
      BY <3>1, <1>k, <1>i, <1>j DEF StampKnown, Heard
  <2>Refill. CASE Refill(t)
    <3>1. PICK fresh \in Buffer :
              /\ pc[t] = "refill" /\ allotted < MaxBuffers /\ fresh = allotted + 1
              /\ pc' = [pc EXCEPT ![t] = "store_base"]
              /\ UNCHANGED <<stamp, gcpc, acked, gc_current_mark_value>>
      BY <2>Refill DEF Refill, Map
    <3>2. QED
      BY <3>1, <1>k, <1>i, <1>j DEF StampKnown, Heard
  <2>RefillFails. CASE RefillFails(t)
    <3>1. /\ pc[t] = "refill" /\ pc' = [pc EXCEPT ![t] = "limit"]
          /\ UNCHANGED <<stamp, gcpc, acked, gc_current_mark_value>>
      BY <2>RefillFails DEF RefillFails, MayFail
    <3>2. QED
      BY <3>1, <1>k, <1>i, <1>j DEF StampKnown, Heard
  <2>StoreBase. CASE StoreBase(t)
    <3>1. /\ pc[t] = "store_base" /\ pc' = [pc EXCEPT ![t] = "store_cursor"]
          /\ UNCHANGED <<stamp, gcpc, acked, gc_current_mark_value>>
      BY <2>StoreBase DEF StoreBase
    <3>2. QED
      BY <3>1, <1>k, <1>i, <1>j DEF StampKnown, Heard
  <2>StoreCursor. CASE StoreCursor(t)
    <3>1. /\ pc[t] = "store_cursor" /\ pc' = [pc EXCEPT ![t] = "store_limit"]
          /\ UNCHANGED <<stamp, gcpc, acked, gc_current_mark_value>>
      BY <2>StoreCursor DEF StoreCursor
    <3>2. QED
      BY <3>1, <1>k, <1>i, <1>j DEF StampKnown, Heard
  <2>StoreLimit. CASE StoreLimit(t)
    <3>1. /\ pc[t] = "store_limit" /\ pc' = [pc EXCEPT ![t] = "limit"]
          /\ UNCHANGED <<stamp, gcpc, acked, gc_current_mark_value>>
      BY <2>StoreLimit DEF StoreLimit
    <3>2. QED
      BY <3>1, <1>k, <1>i, <1>j DEF StampKnown, Heard
  <2>Safepoint. CASE Safepoint(t)
    <3>1. /\ pc[t] = "idle" /\ gcpc = "wait" /\ t \notin acked /\ acked' = acked \cup {t}
          /\ UNCHANGED <<pc, stamp, gcpc, gc_current_mark_value>>
      BY <2>Safepoint DEF Safepoint
    <3>2. QED
      BY <3>1, <1>k, <1>i, <1>j DEF StampKnown, Heard
  <2>q. QED
    BY <1>t, <2>Start, <2>LoadLimit, <2>LoadCursor, <2>CasCursor, <2>LoadBase, <2>Malloc, <2>Count,
      <2>Publish, <2>Refill, <2>RefillFails, <2>StoreBase, <2>StoreCursor, <2>StoreLimit,
      <2>Safepoint
<1>moves. CASE Mark \/ Cleanup \/ Steal \/ FreeInBuffer \/ LoadOldHead \/ Prepend \/ Recheck \/ IsCurrent
               \/ ResetBase \/ ResetCursor \/ ResetLimit \/ BeginCompact \/ Copy \/ StoreHandle \/
               Decrement \/ RecheckOld \/ Defer \/ EndCompact
  <2>1. UNCHANGED <<pc, stamp, acked, gc_current_mark_value>>
    BY <1>moves, SweepLeaves, ReleaseLeaves, CompactLeaves
  <2>2. QED
    BY <1>moves, <2>1, SweepMoves, CompactMoves, <1>k, <1>i, <1>j DEF StampKnown, Heard, Back
<1>Begin. CASE Begin
  <2>1. /\ gcpc = "idle" /\ gc_current_mark_value <= bound.cycles /\ gcpc' = "wait" /\ acked' = {}
        /\ gc_current_mark_value' = gc_current_mark_value + 1 /\ UNCHANGED <<pc, stamp>>
    BY <1>Begin DEF Begin
  <2>2. QED
    BY <2>1, <1>k, <1>i, <1>j DEF StampKnown, Heard
<1>q. QED
  BY <1>b, <1>f, <1>t, <1>moves, <1>Begin, Keeps_acked, Keeps_gc_current_mark_value, Keeps_gcpc, Keeps_pc,
     Keeps_stamp

LEMMA OpenedStep ==
  ASSUME Ground, Ground', Kept, NEW o \in Object, Step
  PROVE  (gcpc' = "store" /\ node' = o) => ~Newborn(o)'
<1>b. bound.threads \subseteq Threads
  BY BoundKnown DEF Ground, TypeOK
<1>j. /\ generation \in [Object -> Nat] /\ born \in [Object -> Nat] /\ next_object \notin Object
      /\ node_base \in [Object -> Buffer \cup {Null}] /\ Listed \subseteq Object
      /\ gc_current_mark_value \in Nat \ {0}
  <2>1. gc_current_mark_value \in Nat \ {0} /\ next_object \in Nat
    BY BoundKnown, TypesSplit DEF Ground, Typed, CycleTyped, ObjectsTyped
  <2>2. QED
    BY <2>1, TypesSplit, ListedFinite DEF Ground, Typed, ObjectsTyped, Object
<1>n. Newborn(o)' => Newborn(o)
  BY NewbornStep
<1>s. gcpc = "store" /\ node = o => ~Newborn(o)
  BY DEF Kept, BirthsKnown
<1>f. CASE UNCHANGED <<gcpc, node, born, generation, gc_current_mark_value>>
  BY <1>f, <1>n, <1>s
<1>t. ASSUME NEW t \in Threads, t \in bound.threads, Publish(t)
      PROVE  (gcpc' = "store" /\ node' = o) => ~Newborn(o)'
  <2>Publish. CASE Publish(t)
    BY <2>Publish, <1>n, <1>s, PublishKnown DEF Publish, Newborn
  <2>q. QED
    BY <1>t, <2>Publish
<1>moves. CASE Cleanup \/ Steal \/ FreeInBuffer \/ LoadOldHead \/ Prepend \/ Recheck \/ IsCurrent \/
               ResetBase \/ ResetCursor \/ ResetLimit \/ BeginCompact \/ Decrement \/ RecheckOld \/ Defer
               \/ EndCompact
  <2>1. UNCHANGED <<node, born, generation, gc_current_mark_value>>
    BY <1>moves, SweepLeaves, ReleaseLeaves, CompactLeaves
  <2>2. QED
    BY <1>moves, <2>1, SweepMoves, CompactMoves, <1>n, <1>s DEF Back
<1>Begin. CASE Begin
  <2>1. /\ gcpc = "idle" /\ gc_current_mark_value <= bound.cycles /\ gcpc' = "wait"
        /\ gc_current_mark_value' = gc_current_mark_value + 1 /\ UNCHANGED <<node, born, generation>>
    BY <1>Begin DEF Begin
  <2>2. QED
    BY <2>1, <1>n, <1>s
<1>Mark. CASE Mark
  <2>1. PICK reached \in SUBSET Listed :
            /\ gcpc = "wait" /\ acked = bound.threads
            /\ generation' = [n \in Object |-> IF n \in reached THEN gc_current_mark_value + 1 ELSE generation[n]]
            /\ gcpc' = "cleanup" /\ UNCHANGED <<node, born, gc_current_mark_value>>
    BY <1>Mark DEF Mark, Marking
  <2>2. QED
    BY <2>1, <1>n, <1>s
<1>Copy. CASE Copy
  <2>1. PICK p \in nodes : /\ ~Stays(p) /\ node' = p
                           /\ born' = IF node_base[p] = Null THEN [born EXCEPT ![p] = 0] ELSE born
                           /\ UNCHANGED <<generation, gc_current_mark_value>>
    BY <1>Copy DEF Copy
  <2>2. CASE node_base[p] = Null /\ p = o
    BY <2>1, <2>2, <1>j DEF Newborn
  <2>3. CASE node_base[p] # Null /\ p = o
    <3>1. p \in Listed
      BY DEF Listed
    <3>2. Newborn(p) => node_base[p] # prev_buffer
      BY <2>3, <3>1 DEF Kept, BirthsKnown
    <3>3. QED
      BY <2>1, <2>3, <3>2 DEF Newborn, Stays
  <2>4. QED
    BY <2>1, <2>2, <2>3
<1>StoreHandle. CASE StoreHandle
  <2>1. /\ gcpc = "store"
        /\ (gcpc' = IF flag_tlab[node] /\ node_base[node] # Null THEN "decrement" ELSE "copy") /\ node' = 0
        /\ UNCHANGED <<born, generation, gc_current_mark_value>>
    BY <1>StoreHandle DEF StoreHandle
  <2>2. QED
    BY <2>1, <1>n, <1>s
<1>q. QED
  BY <1>b, <1>f, <1>t, <1>moves, <1>Begin, <1>Mark, <1>Copy, <1>StoreHandle, Keeps_born,
     Keeps_gc_current_mark_value, Keeps_gcpc, Keeps_generation, Keeps_node

LEMMA NewbornsBuffers ==
  ASSUME Ground, Ground', Kept, NEW o \in Listed, NEW b \in Buffer,
         node_base[o] = b, Newborn(o), Step
  PROVE  b \notin {target', prev_buffer'}
<1>b. bound.threads \subseteq Threads
  BY BoundKnown DEF Ground, TypeOK
<1>k. b \notin {target, prev_buffer} /\ b # Null
  BY DEF Kept, BirthsKnown, Buffer, Null
<1>f. CASE UNCHANGED <<target, prev_buffer>>
  BY <1>f, <1>k
<1>BeginCompact. CASE BeginCompact
  <2>1. UNCHANGED target \/ (target' = allotted + 1 /\ target' \in Buffer)
    BY <1>BeginCompact DEF BeginCompact, Map
  <2>2. UNCHANGED prev_buffer
    BY <1>BeginCompact DEF BeginCompact
  <2>3. b # allotted + 1
    <3>1. b \in mapped /\ allotted \in Int
      BY NodeLives, AllottedKnown
    <3>2. QED
      BY <3>1 DEF Kept, BuffersKnown
  <2>4. QED
    BY <2>1, <2>2, <2>3, <1>k
<1>EndCompact. CASE EndCompact
  <2>1. target' = Null /\ prev_buffer' = target
    BY <1>EndCompact DEF EndCompact
  <2>2. QED
    BY <2>1, <1>k
<1>q. QED
  BY <1>b, <1>f, <1>BeginCompact, <1>EndCompact, Keeps_prev_buffer, Keeps_target

Opened == \A o \in Object : gcpc = "store" /\ node = o => ~Newborn(o)
NewApart == \A o \in Listed : \A b \in Buffer : Newborn(o) /\ node_base[o] = b => b \notin {target, prev_buffer}
Stamped == \A t \in Threads : StampKnown(t)
BirthsRead == (\A o \in Object : born[o] <= gc_current_mark_value) /\ NewApart /\ Opened /\ Stamped

LEMMA BirthsReading == Ground => (BirthsKnown <=> BirthsRead)
<1> SUFFICES ASSUME Ground PROVE BirthsKnown <=> BirthsRead
  OBVIOUS
<1>1. /\ node_base \in [Object -> Buffer \cup {Null}] /\ Listed \subseteq Object
      /\ gcpc = "store" => node \in Object
  BY HandsKnown, TypesSplit, ListedFinite DEF Ground, Typed, ObjectsTyped
<1>2. (\A o \in Listed : Newborn(o) /\ node_base[o] # Null => node_base[o] \notin {target,
          prev_buffer}) <=> NewApart
  BY <1>1 DEF NewApart, Buffer, Null
<1>3. (gcpc = "store" => ~Newborn(node)) <=> Opened
  BY <1>1 DEF Opened
<1>4. QED
  BY <1>2, <1>3 DEF BirthsKnown, BirthsRead, Stamped, StampKnown

LEMMA BirthsStep ==
  ASSUME Ground, Ground', Kept, Step
  PROVE  BirthsKnown'
<1>b. bound.threads \subseteq Threads
  BY BoundKnown DEF Ground, TypeOK
<1>n. ASSUME NEW t \in bound.threads, Publish(t)
      PROVE  /\ born'[next_object] <= gc_current_mark_value' /\ next_object \notin Object
             /\ gcpc' = "store" => node' \in Object
             /\ \A b \in Buffer : node_base'[next_object] = b => b \notin {target', prev_buffer'}
  <2>1. /\ t \in Threads /\ pc[t] = "publish"
        /\ UNCHANGED <<gc_current_mark_value, gcpc, node, target, prev_buffer>>
    BY <1>b, <1>n DEF Publish
  <2>2. born'[next_object] = stamp[t] /\ node_base'[next_object] = base[t] /\ next_object \notin Object
    BY <1>n, <2>1, PublishKnown
  <2>3. stamp[t] <= gc_current_mark_value
    BY <2>1 DEF Kept, BirthsKnown
  <2>4. gcpc = "store" => node \in Object
    BY HandsKnown DEF Ground, Typed
  <2>5. ASSUME NEW b \in Buffer, base[t] = b
        PROVE  b \notin {target, prev_buffer}
    <3>1. Uses(t, b)
      BY <2>5 DEF Uses
    <3>2. b \notin Moved /\ b # Null
      BY <2>1, <3>1 DEF Kept, UsesKnown, Buffer, Null
    <3>3. QED
      BY <3>2 DEF Moved
  <2>6. QED
    BY <2>1, <2>2, <2>3, <2>4, <2>5
<1>o. \A o \in Object' : o \in Object \/ (o = next_object /\ \E t \in bound.threads : Publish(t))
  BY <1>b, ObjectStays, PublishKnown
<1>1. \A o \in Object' : born'[o] <= gc_current_mark_value'
  BY <1>n, <1>o, BornStep
<1>2. ASSUME NEW o \in Listed', NEW b \in Buffer, Newborn(o)', node_base'[o] = b
      PROVE  b \notin {target', prev_buffer'}
  <2>1. CASE o \in Listed
    <3>1. o \in Object /\ Newborn(o)
      BY <1>2, <2>1, NewbornStep, ListedFinite DEF Ground, Typed
    <3>2. CASE node_base[o] = b
      BY <2>1, <3>1, <3>2, NewbornsBuffers
    <3>3. CASE node_base[o] # b
      <4>1. StoreHandle /\ o = node
        BY <1>2, <3>1, <3>3, NodeBaseStep
      <4>2. gcpc = "store"
        BY <4>1 DEF StoreHandle
      <4>3. QED
        BY <3>1, <4>1, <4>2 DEF Kept, BirthsKnown
    <3>4. QED
      BY <3>2, <3>3
  <2>2. CASE o \notin Listed
    BY <1>2, <2>2, <1>n, ListedGrows
  <2>3. QED
    BY <2>1, <2>2
<1>3. ASSUME NEW o \in Object'
      PROVE  gcpc' = "store" /\ node' = o => ~Newborn(o)'
  <2>1. CASE o \in Object
    BY <2>1, OpenedStep
  <2>2. CASE o \notin Object
    BY <1>3, <1>n, <1>o, <2>2
  <2>3. QED
    BY <2>1, <2>2
<1>4. (Ground => (BirthsKnown <=> BirthsRead))'
  BY BirthsReading, PTL
<1>5. NewApart' /\ Opened'
  BY <1>2, <1>3 DEF NewApart, Opened
<1>6. QED
  BY <1>1, <1>4, <1>5, StampStep DEF BirthsRead, Stamped

(* A thread's pointer, to an object at a place.                            *)
PointerAt(t, o, at) ==
  /\ Present(o, at)
  /\ generation[o] >= gc_current_mark_value - (IF Heard(t) THEN 1 ELSE 2)
  /\ at \notin gc_compact_dead_tlab_list_prev
  /\ Early(t) => at \notin gc_compact_dead_tlab_list /\ (at = Null => o \notin deferred_free)
  /\ gcpc # "idle" /\ Heard(t) /\ at # Null => at # prev_prev_buffer
  /\ Newborn(o) => at = place[o]

(* Its parts.                                                              *)
PointerYoungAt(t, o) == generation[o] >= gc_current_mark_value - (IF Heard(t) THEN 1 ELSE 2)
PointerListed(t, o, at) ==
  /\ at \notin gc_compact_dead_tlab_list_prev
  /\ Early(t) => at \notin gc_compact_dead_tlab_list /\ (at = Null => o \notin deferred_free)
PointerApart(t, at) == gcpc # "idle" /\ Heard(t) /\ at # Null => at # prev_prev_buffer

LEMMA PointerReading ==
  ASSUME NEW t \in Threads
  PROVE  PointerKnown(t) <=> /\ held[t].object = 0 => held[t].place = Null
                             /\ held[t].object # 0 => PointerAt(t, held[t].object, held[t].place)
BY DEF PointerKnown, PointerAt, Newborn

LEMMA PointerPresent ==
  ASSUME Ground, Ground', Kept, NEW v \in Threads, v \in bound.threads, NEW o \in Object,
         NEW at \in Buffer \cup {Null}, PointerAt(v, o, at), ~Safepoint(v), Step
  PROVE  Present(o, at)'
<1>b. bound.threads \subseteq Threads
  BY BoundKnown DEF Ground, TypeOK
<1>j. /\ generation \in [Object -> Nat] /\ born \in [Object -> Nat] /\ next_object \notin Object
      /\ node_base \in [Object -> Buffer \cup {Null}] /\ Listed \subseteq Object
      /\ gc_current_mark_value \in Nat \ {0}
  <2>1. gc_current_mark_value \in Nat \ {0} /\ next_object \in Nat
    BY BoundKnown, TypesSplit DEF Ground, Typed, CycleTyped, ObjectsTyped
  <2>2. QED
    BY <2>1, TypesSplit, ListedFinite DEF Ground, Typed, ObjectsTyped, Object
<1>k. PointerAt(v, o, at) /\ v \in bound.threads /\ ~Safepoint(v)
  OBVIOUS
<1>f. CASE UNCHANGED <<mapped, freed>>
  BY <1>f, <1>k DEF PointerAt, Present
<1>t. ASSUME NEW t \in Threads, t \in bound.threads, Refill(t)
      PROVE  Present(o, at)'
  <2>Refill. CASE Refill(t)
    <3>1. PICK fresh \in Buffer :
              mapped' = mapped \cup {fresh} /\ UNCHANGED freed
      BY <2>Refill DEF Refill, Map
    <3>2. QED
      BY <3>1, <1>k DEF PointerAt, Present
  <2>q. QED
    BY <1>t, <2>Refill
<1>Cleanup. CASE Cleanup
  <2>1. /\ gcpc = "cleanup" /\ mapped' = mapped \ {d \in gc_compact_dead_tlab_list_prev : live_count[d] = 0}
        /\ freed' = freed \cup deferred_free
    BY <1>Cleanup DEF Cleanup
  <2>2. QED
    BY <2>1, <1>k DEF PointerAt, Present, Early
<1>FreeBlock. CASE FreeBlock
  <2>1. PICK p \in nodes : gcpc = "sweep" /\ Dead(p) /\ freed' = freed \cup {p} /\ UNCHANGED mapped
    BY <1>FreeBlock DEF FreeBlock
  <2>2. generation[o] >= gc_current_mark_value - 1
    BY <2>1, <1>k DEF PointerAt, Heard
  <2>3. p # o
    BY <2>1, <2>2, <1>j DEF Dead
  <2>4. QED
    BY <2>1, <2>3, <1>k DEF PointerAt, Present
<1>BeginCompact. CASE BeginCompact
  <2>1. /\ \/ \E fresh \in Buffer : mapped' = mapped \cup {fresh}
           \/ UNCHANGED mapped
        /\ UNCHANGED freed
    BY <1>BeginCompact DEF BeginCompact, Map, MayFail
  <2>2. QED
    BY <2>1, <1>k DEF PointerAt, Present
<1>EndCompact. CASE EndCompact
  <2>1. gcpc = "copy" /\ nodes = {} /\ left = {} /\ mapped' = mapped \ {prev_prev_buffer} /\ UNCHANGED freed
    BY <1>EndCompact DEF EndCompact
  <2>2. QED
    BY <2>1, <1>k DEF PointerAt, Present, Heard
<1>q. QED
  BY <1>b, <1>f, <1>t, <1>Cleanup, <1>FreeBlock, <1>BeginCompact, <1>EndCompact, Keeps_freed, Keeps_mapped

LEMMA PointerYoung ==
  ASSUME Ground, Ground', Kept, NEW v \in Threads, v \in bound.threads, NEW o \in Object,
         NEW at \in Buffer \cup {Null}, PointerAt(v, o, at), ~Safepoint(v), Step
  PROVE  PointerYoungAt(v, o)'
<1>b. bound.threads \subseteq Threads
  BY BoundKnown DEF Ground, TypeOK
<1>j. /\ generation \in [Object -> Nat] /\ born \in [Object -> Nat] /\ next_object \notin Object
      /\ node_base \in [Object -> Buffer \cup {Null}] /\ Listed \subseteq Object
      /\ gc_current_mark_value \in Nat \ {0}
  <2>1. gc_current_mark_value \in Nat \ {0} /\ next_object \in Nat
    BY BoundKnown, TypesSplit DEF Ground, Typed, CycleTyped, ObjectsTyped
  <2>2. QED
    BY <2>1, TypesSplit, ListedFinite DEF Ground, Typed, ObjectsTyped, Object
<1>k. PointerAt(v, o, at) /\ v \in bound.threads /\ ~Safepoint(v)
  OBVIOUS
<1>f. CASE UNCHANGED <<generation, gc_current_mark_value, gcpc, acked>>
  BY <1>f, <1>k, <1>j DEF PointerAt, PointerYoungAt, Heard
<1>t. ASSUME NEW t \in Threads, t \in bound.threads, Publish(t) \/ Safepoint(t)
      PROVE  PointerYoungAt(v, o)'
  <2>Publish. CASE Publish(t)
    BY <2>Publish, <1>k, <1>j, PublishKnown DEF Publish, PointerAt, PointerYoungAt, Heard
  <2>Safepoint. CASE Safepoint(t)
    <3>1. v # t /\ acked' = acked \cup {t} /\ UNCHANGED <<generation, gc_current_mark_value, gcpc>>
      BY <2>Safepoint, <1>k DEF Safepoint
    <3>2. QED
      BY <3>1, <1>k, <1>j DEF PointerAt, PointerYoungAt, Heard
  <2>q. QED
    BY <1>t, <2>Publish, <2>Safepoint
<1>moves. CASE Cleanup \/ Steal \/ LoadOldHead \/ Prepend \/ Recheck \/ IsCurrent \/ ResetBase \/
               ResetCursor \/ ResetLimit \/ BeginCompact \/ Copy \/ StoreHandle \/ Decrement \/ RecheckOld
               \/ Defer \/ EndCompact
  <2>1. UNCHANGED <<generation, gc_current_mark_value, acked>>
    BY <1>moves, SweepLeaves, ReleaseLeaves, CompactLeaves
  <2>2. QED
    BY <1>moves, <2>1, SweepMoves, CompactMoves, <1>k, <1>j DEF PointerAt, PointerYoungAt, Heard, Back
<1>Begin. CASE Begin
  <2>1. /\ gcpc = "idle" /\ gc_current_mark_value <= bound.cycles /\ gcpc' = "wait" /\ acked' = {}
        /\ gc_current_mark_value' = gc_current_mark_value + 1 /\ UNCHANGED generation
    BY <1>Begin DEF Begin
  <2>2. QED
    BY <2>1, <1>k, <1>j DEF PointerAt, PointerYoungAt, Heard
<1>Mark. CASE Mark
  <2>1. PICK reached \in SUBSET Listed :
            /\ gcpc = "wait" /\ acked = bound.threads
            /\ generation' = [n \in Object |-> IF n \in reached THEN gc_current_mark_value + 1 ELSE generation[n]]
            /\ gcpc' = "cleanup" /\ UNCHANGED <<gc_current_mark_value, acked>>
    BY <1>Mark DEF Mark, Marking
  <2>2. QED
    BY <2>1, <1>k, <1>j DEF PointerAt, PointerYoungAt, Heard
<1>FreeInBuffer. CASE FreeInBuffer
  <2>1. /\ gcpc = "sweep" /\ gcpc' \in {"sweep", "current"}
        /\ UNCHANGED <<generation, gc_current_mark_value, acked>>
    BY <1>FreeInBuffer DEF FreeInBuffer
  <2>2. QED
    BY <2>1, <1>k, <1>j DEF PointerAt, PointerYoungAt, Heard
<1>q. QED
  BY <1>b, <1>f, <1>t, <1>moves, <1>Begin, <1>Mark, <1>FreeInBuffer, Keeps_acked, Keeps_gc_current_mark_value,
     Keeps_gcpc, Keeps_generation

LEMMA PointerLists ==
  ASSUME Ground, Ground', Kept, NEW v \in Threads, v \in bound.threads, NEW o \in Object,
         NEW at \in Buffer \cup {Null}, PointerAt(v, o, at), ~Safepoint(v), Step
  PROVE  PointerListed(v, o, at)'
<1>b. bound.threads \subseteq Threads
  BY BoundKnown DEF Ground, TypeOK
<1>j. /\ generation \in [Object -> Nat] /\ born \in [Object -> Nat] /\ next_object \notin Object
      /\ node_base \in [Object -> Buffer \cup {Null}] /\ Listed \subseteq Object
      /\ gc_current_mark_value \in Nat \ {0}
  <2>1. gc_current_mark_value \in Nat \ {0} /\ next_object \in Nat
    BY BoundKnown, TypesSplit DEF Ground, Typed, CycleTyped, ObjectsTyped
  <2>2. QED
    BY <2>1, TypesSplit, ListedFinite DEF Ground, Typed, ObjectsTyped, Object
<1>k. PointerAt(v, o, at) /\ v \in bound.threads /\ ~Safepoint(v)
  OBVIOUS
<1>f. CASE UNCHANGED <<gc_compact_dead_tlab_list, gc_compact_dead_tlab_list_prev,
                deferred_free, gcpc, acked>>
  BY <1>f, <1>k DEF PointerAt, PointerListed, Early
<1>t. ASSUME NEW t \in Threads, t \in bound.threads, Safepoint(t)
      PROVE  PointerListed(v, o, at)'
  <2>Safepoint. CASE Safepoint(t)
    <3>1. /\ v # t /\ acked' = acked \cup {t}
          /\ UNCHANGED <<gc_compact_dead_tlab_list, gc_compact_dead_tlab_list_prev, deferred_free, gcpc>>
      BY <2>Safepoint, <1>k DEF Safepoint
    <3>2. QED
      BY <3>1, <1>k DEF PointerAt, PointerListed, Early
  <2>q. QED
    BY <1>t, <2>Safepoint
<1>moves. CASE Mark \/ Steal \/ LoadOldHead \/ Prepend \/ IsCurrent \/ ResetBase \/ ResetCursor \/
               ResetLimit \/ BeginCompact \/ Copy \/ Decrement \/ RecheckOld \/ EndCompact
  <2>1. UNCHANGED <<gc_compact_dead_tlab_list, gc_compact_dead_tlab_list_prev, deferred_free, acked>>
    BY <1>moves, SweepLeaves, ReleaseLeaves, CompactLeaves
  <2>2. QED
    BY <1>moves, <2>1, SweepMoves, CompactMoves, <1>k DEF PointerAt, PointerListed, Early, Back
<1>Begin. CASE Begin
  <2>1. /\ gcpc = "idle" /\ gc_current_mark_value <= bound.cycles /\ gcpc' = "wait" /\ acked' = {}
        /\ UNCHANGED <<gc_compact_dead_tlab_list, gc_compact_dead_tlab_list_prev, deferred_free>>
    BY <1>Begin DEF Begin
  <2>2. QED
    BY <2>1, <1>k DEF PointerAt, PointerListed, Early
<1>Cleanup. CASE Cleanup
  <2>1. /\ gcpc = "cleanup" /\ gcpc' = "steal" /\ gc_compact_dead_tlab_list' = {}
        /\ gc_compact_dead_tlab_list_prev' = gc_compact_dead_tlab_list /\ deferred_free' = {}
        /\ UNCHANGED acked
    BY <1>Cleanup DEF Cleanup
  <2>2. QED
    BY <2>1, <1>k DEF PointerAt, PointerListed, Early
<1>FreeInBuffer. CASE FreeInBuffer
  <2>1. /\ gcpc = "sweep" /\ gcpc' \in {"sweep", "current"}
        /\ UNCHANGED <<gc_compact_dead_tlab_list, gc_compact_dead_tlab_list_prev, deferred_free, acked>>
    BY <1>FreeInBuffer DEF FreeInBuffer
  <2>2. QED
    BY <2>1, <1>k DEF PointerAt, PointerListed, Early
<1>Recheck. CASE Recheck
  <2>1. /\ gcpc = "recheck" /\ gcpc' = "size"
        /\ gc_compact_dead_tlab_list' = gc_compact_dead_tlab_list \cup {d \in gc_dead_tlab_list : live_count[d] = 0}
        /\ UNCHANGED <<gc_compact_dead_tlab_list_prev, deferred_free, acked>>
    BY <1>Recheck DEF Recheck
  <2>2. QED
    BY <2>1, <1>k DEF PointerAt, PointerListed, Early
<1>StoreHandle. CASE StoreHandle
  <2>1. /\ gcpc = "store"
        /\ (gcpc' = IF flag_tlab[node] /\ node_base[node] # Null THEN "decrement" ELSE "copy")
        /\ (deferred_free' = IF flag_tlab[node] THEN deferred_free ELSE deferred_free \cup {node})
        /\ UNCHANGED <<gc_compact_dead_tlab_list, gc_compact_dead_tlab_list_prev, acked>>
    BY <1>StoreHandle DEF StoreHandle
  <2>2. QED
    BY <2>1, <1>k DEF PointerAt, PointerListed, Early
<1>Defer. CASE Defer
  <2>1. /\ gcpc = "defer" /\ gcpc' = "copy"
        /\ gc_compact_dead_tlab_list' = gc_compact_dead_tlab_list \cup {old}
        /\ UNCHANGED <<gc_compact_dead_tlab_list_prev, deferred_free, acked>>
    BY <1>Defer DEF Defer
  <2>2. QED
    BY <2>1, <1>k DEF PointerAt, PointerListed, Early
<1>q. QED
  BY <1>b, <1>f, <1>t, <1>moves, <1>Begin, <1>Cleanup, <1>FreeInBuffer, <1>Recheck, <1>StoreHandle,
    <1>Defer, Keeps_acked, Keeps_deferred_free, Keeps_gc_compact_dead_tlab_list,
        Keeps_gc_compact_dead_tlab_list_prev, Keeps_gcpc

LEMMA PointerPrev ==
  ASSUME Ground, Ground', Kept, NEW v \in Threads, v \in bound.threads, NEW o \in Object,
         NEW at \in Buffer \cup {Null}, PointerAt(v, o, at), ~Safepoint(v), Step
  PROVE  PointerApart(v, at)'
<1>b. bound.threads \subseteq Threads
  BY BoundKnown DEF Ground, TypeOK
<1>j. /\ generation \in [Object -> Nat] /\ born \in [Object -> Nat] /\ next_object \notin Object
      /\ node_base \in [Object -> Buffer \cup {Null}] /\ Listed \subseteq Object
      /\ gc_current_mark_value \in Nat \ {0}
  <2>1. gc_current_mark_value \in Nat \ {0} /\ next_object \in Nat
    BY BoundKnown, TypesSplit DEF Ground, Typed, CycleTyped, ObjectsTyped
  <2>2. QED
    BY <2>1, TypesSplit, ListedFinite DEF Ground, Typed, ObjectsTyped, Object
<1>k. PointerAt(v, o, at) /\ v \in bound.threads /\ ~Safepoint(v)
  OBVIOUS
<1>f. CASE UNCHANGED <<prev_prev_buffer, gcpc, acked>>
  BY <1>f, <1>k DEF PointerAt, PointerApart, Heard
<1>t. ASSUME NEW t \in Threads, t \in bound.threads, Safepoint(t)
      PROVE  PointerApart(v, at)'
  <2>Safepoint. CASE Safepoint(t)
    <3>1. /\ v # t /\ acked' = acked \cup {t} /\ UNCHANGED <<prev_prev_buffer, gcpc>>
      BY <2>Safepoint, <1>k DEF Safepoint
    <3>2. QED
      BY <3>1, <1>k DEF PointerAt, PointerApart, Heard
  <2>q. QED
    BY <1>t, <2>Safepoint
<1>moves. CASE Mark \/ Cleanup \/ Steal \/ FreeInBuffer \/ LoadOldHead \/ Prepend \/ Recheck \/ IsCurrent
               \/ ResetBase \/ ResetCursor \/ ResetLimit \/ BeginCompact \/ Copy \/ StoreHandle \/
               Decrement \/ RecheckOld \/ Defer
  <2>1. UNCHANGED <<prev_prev_buffer, acked>>
    BY <1>moves, SweepLeaves, ReleaseLeaves, CompactLeaves
  <2>2. QED
    BY <1>moves, <2>1, SweepMoves, CompactMoves, <1>k DEF PointerAt, PointerApart, Heard, Back
<1>Begin. CASE Begin
  <2>1. /\ gcpc = "idle" /\ gc_current_mark_value <= bound.cycles /\ gcpc' = "wait" /\ acked' = {}
        /\ UNCHANGED prev_prev_buffer
    BY <1>Begin DEF Begin
  <2>2. QED
    BY <2>1, <1>k DEF PointerAt, PointerApart, Heard
<1>EndCompact. CASE EndCompact
  <2>1. /\ gcpc = "copy" /\ nodes = {} /\ left = {} /\ gcpc' = "idle" /\ prev_prev_buffer' = prev_buffer
        /\ UNCHANGED acked
    BY <1>EndCompact DEF EndCompact
  <2>2. QED
    BY <2>1, <1>k DEF PointerAt, PointerApart, Heard
<1>q. QED
  BY <1>b, <1>f, <1>t, <1>moves, <1>Begin, <1>EndCompact, Keeps_acked, Keeps_gcpc, Keeps_prev_prev_buffer

LEMMA PointerPlace ==
  ASSUME Ground, Ground', Kept, NEW v \in Threads, v \in bound.threads, NEW o \in Object,
         NEW at \in Buffer \cup {Null}, PointerAt(v, o, at), ~Safepoint(v), Step
  PROVE  Newborn(o)' => at = place'[o]
<1>b. bound.threads \subseteq Threads
  BY BoundKnown DEF Ground, TypeOK
<1>j. /\ generation \in [Object -> Nat] /\ born \in [Object -> Nat] /\ next_object \notin Object
      /\ node_base \in [Object -> Buffer \cup {Null}] /\ Listed \subseteq Object
      /\ gc_current_mark_value \in Nat \ {0}
  <2>1. gc_current_mark_value \in Nat \ {0} /\ next_object \in Nat
    BY BoundKnown, TypesSplit DEF Ground, Typed, CycleTyped, ObjectsTyped
  <2>2. QED
    BY <2>1, TypesSplit, ListedFinite DEF Ground, Typed, ObjectsTyped, Object
<1>k. PointerAt(v, o, at) /\ v \in bound.threads /\ ~Safepoint(v)
  OBVIOUS
<1>n. Newborn(o)' => Newborn(o)
  BY NewbornStep
<1>f. CASE UNCHANGED <<place>>
  BY <1>f, <1>k, <1>n DEF PointerAt
<1>t. ASSUME NEW t \in Threads, t \in bound.threads, Publish(t)
      PROVE  Newborn(o)' => at = place'[o]
  <2>Publish. CASE Publish(t)
    BY <1>t, <2>Publish, <1>k, <1>n, PublishKnown DEF PointerAt
  <2>q. QED
    BY <1>t, <2>Publish
<1>StoreHandle. CASE StoreHandle
  <2>1. gcpc = "store" /\ place' = [place EXCEPT ![node] = target]
    BY <1>StoreHandle DEF StoreHandle
  <2>2. o = node => ~Newborn(o)
    BY <2>1 DEF Kept, BirthsKnown
  <2>3. place \in [Object -> Buffer \cup {Null}]
    BY TypesSplit DEF Ground, Typed, ObjectsTyped
  <2>4. QED
    BY <2>1, <2>2, <2>3, <1>k, <1>n DEF PointerAt
<1>q. QED
  BY <1>b, <1>f, <1>t, <1>StoreHandle, Keeps_place

LEMMA HeldStep ==
  ASSUME Ground, NEW v \in Threads, Step
  PROVE  held'[v] = NoHeld \/ Deref(v) \/ (held'[v] = held[v] /\ ~Safepoint(v))
<1>b. bound.threads \subseteq Threads
  BY BoundKnown DEF Ground, TypeOK
<1>j. held = [t \in Threads |-> held[t]]
  BY TypesSplit DEF Ground, Typed, HeldTyped
<1>s. Safepoint(v) => held' = [held EXCEPT ![v] = NoHeld]
  BY DEF Safepoint
<1>f. CASE UNCHANGED <<held>>
  BY <1>f, <1>s, <1>j DEF NoHeld
<1>t. ASSUME NEW t \in Threads, t \in bound.threads, Deref(t) \/ Write(t) \/ Safepoint(t)
      PROVE  held'[v] = NoHeld \/ Deref(v) \/ (held'[v] = held[v] /\ ~Safepoint(v))
  <2>Deref. CASE Deref(t)
    BY <2>Deref, <1>j DEF Deref, Safepoint, NoHeld
  <2>Write. CASE Write(t)
    <3>1. held' = [held EXCEPT ![t] = NoHeld] /\ UNCHANGED acked
      BY <2>Write DEF Write
    <3>2. ~Safepoint(v)
      BY <3>1 DEF Safepoint
    <3>3. QED
      BY <3>1, <3>2, <1>j DEF NoHeld
  <2>Safepoint. CASE Safepoint(t)
    <3>1. held' = [held EXCEPT ![t] = NoHeld] /\ t \notin acked /\ acked' = acked \cup {t}
      BY <2>Safepoint DEF Safepoint
    <3>2. CASE v = t
      BY <3>1, <3>2, <1>j DEF NoHeld
    <3>3. CASE v # t
      <4>1. ~Safepoint(v)
        BY <3>1, <3>3 DEF Safepoint
      <4>2. QED
        BY <3>1, <3>3, <4>1, <1>j
    <3>4. QED
      BY <3>2, <3>3
  <2>q. QED
    BY <1>t, <2>Deref, <2>Write, <2>Safepoint
<1>q. QED
  BY <1>b, <1>f, <1>t, Keeps_held

LEMMA PointersStep ==
  ASSUME Ground, Ground', Kept, Step
  PROVE  PointersKnown'
<1>b. bound.threads \subseteq Threads
  BY BoundKnown DEF Ground, TypeOK
<1>o. Object \subseteq Object'
  BY <1>b, ObjectStays, PublishKnown
<1>1. ASSUME NEW v \in Threads, held'[v].object # 0
      PROVE  PointerAt(v, held[v].object, held[v].place)'
  <2>1. CASE Deref(v)
    <3>1. PICK o \in Object :
            /\ pc[v] = "idle" /\ InUse(o) /\ held' = [held EXCEPT ![v] = [object |-> o, place |-> place[o]]]
            /\ UNCHANGED <<mapped, freed, generation, gc_current_mark_value, gcpc, acked, place, born, dead,
                           prev_prev_buffer>>
      BY <2>1 DEF Deref
    <3>2. held' [v] = [object |-> o, place |-> place[o]]
      BY <3>1, TypesSplit DEF Ground, Typed, HeldTyped
    <3>3. /\ o \in Listed /\ generation[o] >= gc_current_mark_value - 1
          /\ generation[o] \in Nat /\ gc_current_mark_value \in Nat
          /\ place[o] = node_base[o] /\ place[o] \in Buffer \cup {Null}
      BY <3>1, BoundKnown, TypesSplit DEF InUse, Kept, PlacesKnown, Ground, Typed, CycleTyped, ObjectsTyped
    <3>4. CASE place[o] = Null
      <4>1. o \notin freed \cup deferred_free
        BY <3>3, <3>4 DEF Kept, PlacesKnown
      <4>2. Null \notin GivenUp
        BY TypesSplit DEF Ground, Typed, CompactTyped, GivenUp, Buffer, Null
      <4>3. PointerAt(v, o, place[o])
        BY <3>3, <3>4, <4>1, <4>2 DEF PointerAt, Present, GivenUp
      <4>4. QED
        BY <3>1, <3>2, <4>3 DEF PointerAt, Present, Heard, Early, Newborn
    <3>5. CASE place[o] # Null
      <4>1. place[o] \in mapped /\ place[o] \notin GivenUp /\ place[o] # prev_prev_buffer
        BY <3>3, <3>5, NodeLives
      <4>2. PointerAt(v, o, place[o])
        BY <3>3, <3>5, <4>1 DEF PointerAt, Present, GivenUp
      <4>3. QED
        BY <3>1, <3>2, <4>2 DEF PointerAt, Present, Heard, Early, Newborn
    <3>6. QED
      BY <3>4, <3>5
  <2>2. CASE held'[v] = held[v] /\ ~Safepoint(v)
    <3>1. v \in bound.threads
      BY <1>1, <2>2 DEF Ground, Budget, NoHeld
    <3>2. held[v].object \in Object /\ held[v].place \in Buffer \cup {Null}
      BY <1>1, <2>2, TypesSplit DEF Ground, Typed, HeldTyped
    <3>3. PointerAt(v, held[v].object, held[v].place)
      BY <1>1, <2>2, PointerReading DEF Kept, PointersKnown
    <3>4. ASSUME NEW o \in Object, NEW at \in Buffer \cup {Null}, PointerAt(v, o, at)
          PROVE  PointerAt(v, o, at)'
      BY <2>2, <3>1, <3>4, PointerPresent, PointerYoung, PointerLists, PointerPrev, PointerPlace
      DEF PointerAt, PointerYoungAt, PointerListed, PointerApart
    <3>5. QED
      BY <2>2, <3>2, <3>3, <3>4 DEF PointerAt, Present, Heard, Early, Newborn
  <2>3. QED
    BY <1>1, <2>1, <2>2, HeldStep DEF NoHeld
<1>2. ASSUME NEW v \in Threads
      PROVE  PointerKnown(v)'
  <2>1. held'[v].object = 0 => held'[v].place = Null
    <3>1. CASE Deref(v)
      <4>1. PICK o \in Object : held' = [held EXCEPT ![v] = [object |-> o, place |-> place[o]]]
        BY <3>1 DEF Deref
      <4>2. held'[v].object = o /\ o # 0
        BY <4>1, TypesSplit DEF Ground, Typed, HeldTyped, ObjectsTyped, Object
      <4>3. QED
        BY <4>2
    <3>2. CASE ~Deref(v)
      BY <3>2, HeldStep, PointerReading DEF NoHeld, Kept, PointersKnown
    <3>3. QED
      BY <3>1, <3>2
  <2>2. QED
    BY <1>1, <2>1 DEF PointerKnown, PointerAt, Newborn
<1>3. QED
  BY <1>2 DEF PointersKnown

LEMMA LostStep ==
  ASSUME Ground, lost = FALSE, lapse = {} => Kept, Step
  PROVE  lost' = FALSE
<1>b. bound.threads \subseteq Threads
  BY BoundKnown DEF Ground, TypeOK
<1>k. lost = FALSE
  OBVIOUS
<1>f. CASE UNCHANGED <<lost>>
  BY <1>f, <1>k
<1>t. ASSUME NEW t \in Threads, t \in bound.threads, Write(t)
      PROVE  lost' = FALSE
  <2>Write. CASE Write(t)
    <3>0. CASE lapse # {}
      BY <2>Write, <3>0, <1>k DEF Write
    <3> SUFFICES ASSUME lapse = {} PROVE lost' = FALSE
      BY <3>0
    <3>1. held[t] # NoHeld
      BY <2>Write DEF Write
    <3>2. held[t].object # 0 /\ PointerAt(t, held[t].object, held[t].place)
      <4>1. held[t] = [object |-> held[t].object, place |-> held[t].place]
        BY TypesSplit DEF Ground, Typed, HeldTyped
      <4>2. QED
        BY <3>1, <4>1, PointerReading DEF NoHeld, Kept, PointersKnown
    <3>3. Newborn(held[t].object) => held[t].place = place[held[t].object]
      BY <3>2 DEF PointerAt
    <3>4. gcpc = "store" => ~Newborn(node)
      BY DEF Kept, BirthsKnown
    <3>5. lost = FALSE
      BY <1>k
    <3>6. QED
      BY <2>Write, <3>3, <3>4, <3>5 DEF Write, Newborn
  <2>q. QED
    BY <1>t, <2>Write
<1>q. QED
  BY <1>b, <1>f, <1>t, Keeps_lost

LEMMA RoomStep ==
  ASSUME Ground, Ground', Kept, lapse' = {}, Step
  PROVE  RoomKnown'
<1>b. bound.threads \subseteq Threads
  BY BoundKnown DEF Ground, TypeOK
<1>k. RoomKnown /\ room \in Int
  BY TypesSplit DEF Ground, Typed, CompactTyped, Kept
<1>c. gc_compacting = 1 => gcpc \in Copying \cup Taking
  BY DEF Ground, CycleKnown
<1>m. IsFiniteSet(ToMove) /\ Cardinality(ToMove) \in Nat /\ IsFiniteSet(Listed)
  <2>1. Listed \subseteq Object /\ left \subseteq Threads
    BY HandsKnown, ListedFinite DEF Ground, Typed
  <2>2. ToMove \subseteq Object
    BY <2>1 DEF ToMove, Remaining, Listed
  <2>3. QED
    BY <2>1, <2>2, ObjectsFinite, TypesSplit DEF Ground, Typed, ObjectsTyped
<1>f. CASE UNCHANGED <<nodes, left, alloc_list, survivors, generation, node_base, target,
                prev_buffer, gcpc, node, room, gc_compacting, gc_current_mark_value>>
  <2>1. Listed' = Listed /\ Remaining' = Remaining /\ ToMove' = ToMove
    BY <1>f DEF Listed, Remaining, ToMove
  <2>2. QED
    BY <1>f, <2>1, <1>k DEF RoomKnown
<1>t. ASSUME NEW t \in Threads, t \in bound.threads, Publish(t)
      PROVE  RoomKnown'
  <2>Publish. CASE Publish(t)
    <3>1. CASE gc_compacting # 1
      <4>1. UNCHANGED gc_compacting
        BY <2>Publish DEF Publish
      <4>2. QED
        BY <3>1, <4>1 DEF RoomKnown
    <3>2. CASE gc_compacting = 1
      <4>1. /\ pc[t] = "publish" /\ alloc_list' = [alloc_list EXCEPT ![t] = @ \cup {next_object}]
            /\ UNCHANGED <<nodes, left, survivors, target, prev_buffer, gcpc, node, room, gc_compacting,
                           gc_current_mark_value>>
        BY <2>Publish DEF Publish
      <4>2. /\ next_object \notin Object /\ Listed' = Listed \cup {next_object} /\ Listed \subseteq Object
            /\ node_base'[next_object] = base[t] /\ generation'[next_object] = stamp[t]
            /\ \A o \in Object : node_base'[o] = node_base[o] /\ generation'[o] = generation[o]
        BY <2>Publish, PublishKnown
      <4>3. stamp[t] = gc_current_mark_value
        <5>1. gcpc # "wait"
          BY <3>2 DEF Ground, CycleKnown, Copying, Taking
        <5>2. QED
          BY <4>1, <5>1 DEF Kept, BirthsKnown, Heard
      <4>4. base[t] \notin Moved
        <5>1. base[t] \in Buffer \cup {Null}
          BY TypesSplit DEF Ground, Typed, FieldsTyped
        <5>2. Uses(t, base[t])
          BY DEF Uses
        <5>3. QED
          BY <5>1, <5>2 DEF Kept, UsesKnown, Moved
      <4>5. base[t] # target /\ (prev_buffer # Null => base[t] # prev_buffer)
        <5>1. target # Null
          BY <3>2 DEF Ground, CycleKnown
        <5>2. QED
          BY <4>4, <5>1 DEF Moved
      <4>6. Remaining' = Remaining \/ Remaining' = Remaining \cup {next_object}
        <5>1. alloc_list \in [Threads -> SUBSET Object] /\ left \subseteq Threads
          BY HandsKnown, TypesSplit DEF Ground, Typed, ListsTyped
        <5>2. QED
          BY <4>1, <5>1 DEF Remaining
      <4>7. Remaining \subseteq Object /\ (gcpc = "store" => node \in Object)
        <5>1. left \subseteq Threads
          BY HandsKnown DEF Ground, Typed
        <5>2. QED
          BY <4>2, <5>1, HandsKnown DEF Ground, Typed, Remaining, Listed
      <4>8. prev_buffer # Null => ToMove' = ToMove
        BY <4>1, <4>2, <4>3, <4>5, <4>6, <4>7 DEF ToMove
      <4>9. QED
        BY <3>2, <4>1, <4>2, <4>5, <4>6, <4>7, <4>8, <1>k DEF RoomKnown
    <3>3. QED
      BY <3>1, <3>2
  <2>q. QED
    BY <1>t, <2>Publish
<1>Begin. CASE Begin
  <2>1. gcpc = "idle" /\ UNCHANGED gc_compacting
    BY <1>Begin DEF Begin
  <2>2. QED
    BY <2>1, <1>c DEF RoomKnown, Copying, Taking
<1>Mark. CASE Mark
  <2>1. gcpc = "wait" /\ UNCHANGED gc_compacting
    BY <1>Mark DEF Mark, Marking
  <2>2. QED
    BY <2>1, <1>c DEF RoomKnown, Copying, Taking
<1>Cleanup. CASE Cleanup
  <2>1. gcpc = "cleanup" /\ UNCHANGED gc_compacting
    BY <1>Cleanup DEF Cleanup
  <2>2. QED
    BY <2>1, <1>c DEF RoomKnown, Copying, Taking
<1>Steal. CASE Steal
  <2>1. gcpc = "steal" /\ UNCHANGED gc_compacting
    BY <1>Steal DEF Steal
  <2>2. QED
    BY <2>1, <1>c DEF RoomKnown, Copying, Taking
<1>Keep. CASE Keep
  <2>1. gcpc = "sweep" /\ UNCHANGED gc_compacting
    BY <1>Keep DEF Keep, Dead
  <2>2. QED
    BY <2>1, <1>c DEF RoomKnown, Copying, Taking
<1>FreeBlock. CASE FreeBlock
  <2>1. gcpc = "sweep" /\ UNCHANGED gc_compacting
    BY <1>FreeBlock DEF FreeBlock, Dead
  <2>2. QED
    BY <2>1, <1>c DEF RoomKnown, Copying, Taking
<1>FreeInBuffer. CASE FreeInBuffer
  <2>1. gcpc = "sweep" /\ UNCHANGED gc_compacting
    BY <1>FreeInBuffer DEF FreeInBuffer, Touch, Dead
  <2>2. QED
    BY <2>1, <1>c DEF RoomKnown, Copying, Taking
<1>LoadOldHead. CASE LoadOldHead
  <2>1. gcpc = "sweep" /\ UNCHANGED gc_compacting
    BY <1>LoadOldHead DEF LoadOldHead
  <2>2. QED
    BY <2>1, <1>c DEF RoomKnown, Copying, Taking
<1>Prepend. CASE Prepend
  <2>1. gcpc = "prepend" /\ UNCHANGED gc_compacting
    BY <1>Prepend DEF Prepend
  <2>2. QED
    BY <2>1, <1>c DEF RoomKnown, Copying, Taking
<1>Recheck. CASE Recheck
  <2>1. gcpc = "recheck" /\ UNCHANGED gc_compacting
    BY <1>Recheck DEF Recheck
  <2>2. QED
    BY <2>1, <1>c DEF RoomKnown, Copying, Taking
<1>IsCurrent. CASE IsCurrent
  <2>1. /\ gcpc # "store" /\ gcpc' # "store"
        /\ UNCHANGED <<nodes, left, alloc_list, survivors, generation, node_base,
                      target, prev_buffer, node, room, gc_compacting, gc_current_mark_value>>
    BY <1>IsCurrent DEF IsCurrent, Back
  <2>2. Listed' = Listed /\ Remaining' = Remaining /\ ToMove' = ToMove
    BY <2>1 DEF Listed, Remaining, ToMove
  <2>3. QED
    BY <2>1, <2>2, <1>k DEF RoomKnown
<1>ResetBase. CASE ResetBase
  <2>1. /\ gcpc # "store" /\ gcpc' # "store"
        /\ UNCHANGED <<nodes, left, alloc_list, survivors, generation, node_base,
                      target, prev_buffer, node, room, gc_compacting, gc_current_mark_value>>
    BY <1>ResetBase DEF ResetBase
  <2>2. Listed' = Listed /\ Remaining' = Remaining /\ ToMove' = ToMove
    BY <2>1 DEF Listed, Remaining, ToMove
  <2>3. QED
    BY <2>1, <2>2, <1>k DEF RoomKnown
<1>ResetCursor. CASE ResetCursor
  <2>1. /\ gcpc # "store" /\ gcpc' # "store"
        /\ UNCHANGED <<nodes, left, alloc_list, survivors, generation, node_base,
                      target, prev_buffer, node, room, gc_compacting, gc_current_mark_value>>
    BY <1>ResetCursor DEF ResetCursor
  <2>2. Listed' = Listed /\ Remaining' = Remaining /\ ToMove' = ToMove
    BY <2>1 DEF Listed, Remaining, ToMove
  <2>3. QED
    BY <2>1, <2>2, <1>k DEF RoomKnown
<1>ResetLimit. CASE ResetLimit
  <2>1. /\ gcpc # "store" /\ gcpc' # "store"
        /\ UNCHANGED <<nodes, left, alloc_list, survivors, generation, node_base,
                      target, prev_buffer, node, room, gc_compacting, gc_current_mark_value>>
    BY <1>ResetLimit DEF ResetLimit, Back
  <2>2. Listed' = Listed /\ Remaining' = Remaining /\ ToMove' = ToMove
    BY <2>1 DEF Listed, Remaining, ToMove
  <2>3. QED
    BY <2>1, <2>2, <1>k DEF RoomKnown
<1>BeginCompact. CASE BeginCompact
  <2>1. CASE UNCHANGED gc_compacting
    <3>1. gcpc = "size"
      BY <1>BeginCompact DEF BeginCompact
    <3>2. QED
      BY <2>1, <3>1, <1>c DEF RoomKnown, Copying, Taking
  <2>2. CASE ~(UNCHANGED gc_compacting)
    <3>1. /\ gcpc = "size" /\ gcpc' = "copy" /\ target' = allotted + 1 /\ target' \in Buffer
          /\ room' = Cardinality(Listed) /\ left' = bound.threads
          /\ UNCHANGED <<nodes, alloc_list, survivors, generation, node_base, prev_buffer>>
      BY <1>BeginCompact, <2>2 DEF BeginCompact, Map
    <3>2. nodes = {} /\ survivors = {}
      BY <3>1, <1>c, TypesSplit DEF Ground, Typed, CompactTyped, CycleKnown, Copying, Taking
    <3>3. \A t \in Threads \ bound.threads : alloc_list[t] = {}
      BY DEF Ground, Budget
    <3>4. Listed' = Listed /\ Remaining' = Listed
      BY <3>1, <3>2, <3>3, <1>b DEF Listed, Remaining
    <3>5. ToMove' \subseteq Listed
      BY <3>4 DEF ToMove
    <3>6. room' >= Cardinality(ToMove')
      BY <3>1, <3>5, <1>m, FS_Subset, FS_CardinalityType
    <3>7. \A o \in Listed : node_base[o] # target'
      <4>1. target' > allotted
        BY <3>1, AllottedKnown
      <4>2. QED
        BY <3>1, <4>1, FreshKnown
    <3>8. QED
      BY <3>1, <3>4, <3>6, <3>7 DEF RoomKnown
  <2>3. QED
    BY <2>1, <2>2
<1>CompactThread. CASE CompactThread
  <2>1. PICK u \in left : /\ gcpc = "copy" /\ nodes = {} /\ left' = left \ {u} /\ nodes' = alloc_list[u]
                          /\ UNCHANGED <<alloc_list, survivors, generation, node_base, target, prev_buffer,
                             gcpc,
                                         node, room, gc_compacting, gc_current_mark_value>>
    BY <1>CompactThread DEF CompactThread
  <2>2. u \in Threads
    BY HandsKnown DEF Ground, Typed
  <2>3. survivors = {}
    BY <2>1, <1>c DEF Ground, CycleKnown, Copying, Taking
  <2>4. Remaining' = Remaining
    BY <2>1 DEF Remaining
  <2>5. Listed' = Listed
    BY <2>1, <2>2 DEF Listed
  <2>6. ToMove' = ToMove
    BY <2>1, <2>4 DEF ToMove
  <2>7. QED
    BY <2>1, <2>4, <2>5, <2>6, <1>k DEF RoomKnown
<1>Skip. CASE Skip
  <2>1. PICK o \in nodes : /\ gcpc = "copy" /\ Stays(o) /\ nodes' = nodes \ {o}
                           /\ UNCHANGED <<left, alloc_list, survivors, generation, node_base, target,
                              prev_buffer,
                                          gcpc, node, room, gc_compacting, gc_current_mark_value>>
    BY <1>Skip DEF Skip
  <2>2. gc_compacting = 1 /\ nodes \subseteq alloc_list[thread] /\ thread \in Threads
    BY <2>1, HandsKnown DEF Ground, Typed, CycleKnown, ListsApart, Copying
  <2>3. Listed' = Listed /\ o \in Listed /\ Remaining' \subseteq Remaining
            /\ Remaining \ {o} \subseteq Remaining'
    BY <2>1, <2>2 DEF Listed, Remaining
  <2>4. ToMove' \subseteq ToMove
    BY <2>1, <2>3 DEF ToMove
  <2>5. prev_buffer # Null => room >= Cardinality(ToMove) /\ room >= Cardinality(ToMove')
    <3>1. prev_buffer # Null => room >= Cardinality(ToMove)
      BY <2>2, <1>k DEF RoomKnown
    <3>2. Cardinality(ToMove') <= Cardinality(ToMove) /\ Cardinality(ToMove') \in Nat
      BY <2>4, <1>m, FS_Subset, FS_CardinalityType
    <3>3. QED
      BY <3>1, <3>2, <1>m, <1>k
  <2>6. ASSUME prev_buffer # Null, node_base[o] = prev_buffer
        PROVE  FALSE
    <3>1. o \in ToMove
      BY <2>1, <2>6 DEF ToMove, Remaining
    <3>2. Cardinality(ToMove) # 0
      BY <3>1, <1>m, FS_EmptySet
    <3>3. room = 0
      BY <2>1, <2>6 DEF Stays
    <3>4. QED
      BY <2>5, <2>6, <3>2, <3>3, <1>m
  <2>7. QED
    BY <2>1, <2>2, <2>3, <2>5, <2>6, <1>k DEF RoomKnown
<1>Copy. CASE Copy
  <2>1. PICK o \in nodes : /\ gcpc = "copy" /\ gcpc' = "store" /\ ~Stays(o) /\ nodes' = nodes \ {o}
                           /\ node' = o /\ room' = room - 1
                           /\ UNCHANGED <<left, alloc_list, survivors, generation, node_base, target,
                              prev_buffer,
                                          gc_compacting, gc_current_mark_value>>
    BY <1>Copy DEF Copy
  <2>2. gc_compacting = 1 /\ nodes \subseteq alloc_list[thread] /\ thread \in Threads /\ thread \notin left
    BY <2>1, HandsKnown DEF Ground, Typed, CycleKnown, ListsApart, Copying
  <2>3. \A t \in left : o \notin alloc_list[t]
    <3>1. left \subseteq Threads
      BY HandsKnown DEF Ground, Typed
    <3>2. QED
      BY <2>1, <2>2, <3>1 DEF Ground, ListsApart
  <2>4. Listed' = Listed /\ o \in Remaining /\ Remaining' = Remaining \ {o}
    BY <2>1, <2>2, <2>3 DEF Listed, Remaining
  <2>5. o \in Listed
    BY DEF Listed
  <2>6. prev_buffer # Null => room' >= Cardinality(ToMove')
    <3>1. o \in ToMove
      BY <2>1, <2>4 DEF ToMove, Stays
    <3>2. ToMove' = ToMove \ {o}
      BY <2>1, <2>4 DEF ToMove
    <3>3. Cardinality(ToMove') = Cardinality(ToMove) - 1
      BY <3>1, <3>2, <1>m, FS_RemoveElement
    <3>4. prev_buffer # Null => room >= Cardinality(ToMove)
      BY <2>2, <1>k DEF RoomKnown
    <3>5. QED
      BY <2>1, <3>3, <3>4, <1>m, <1>k
  <2>7. QED
    BY <2>1, <2>2, <2>4, <2>5, <2>6, <1>k DEF RoomKnown
<1>StoreHandle. CASE StoreHandle
  <2>1. /\ gcpc = "store" /\ gcpc' # "store" /\ node_base' = [node_base EXCEPT ![node] = target]
        /\ UNCHANGED <<nodes, left, alloc_list, survivors, generation, target, prev_buffer, room,
           gc_compacting, gc_current_mark_value>>
    BY <1>StoreHandle DEF StoreHandle
  <2>2. node \in alloc_list[thread] /\ node \notin nodes /\ thread \in Threads /\ gc_compacting = 1
            /\ node \in Object
        /\ target \in Buffer
    BY <2>1, StoreKnown
  <2>3. thread \notin left
    BY <2>1, <2>2 DEF Ground, ListsApart
  <2>4. node \notin Remaining
    <3>1. left \subseteq Threads
      BY HandsKnown DEF Ground, Typed
    <3>2. QED
      BY <2>2, <2>3, <3>1 DEF Ground, ListsApart, Remaining
  <2>5. node_base \in [Object -> Buffer \cup {Null}] /\ Listed \subseteq Object /\ Remaining \subseteq Listed
    <3>1. left \subseteq Threads
      BY HandsKnown DEF Ground, Typed
    <3>2. Remaining \subseteq Listed
      BY <3>1 DEF Remaining, Listed
    <3>3. QED
      BY <3>2, ListedFinite, TypesSplit DEF Ground, Typed, ObjectsTyped
  <2>6. Listed' = Listed /\ Remaining' = Remaining
    BY <2>1 DEF Listed, Remaining
  <2>7. \A o \in Object : node_base'[o] = IF o = node THEN target ELSE node_base[o]
    BY <2>1, <2>2, <2>5
  <2>8. ToMove' = ToMove
    BY <2>1, <2>4, <2>5, <2>6, <2>7 DEF ToMove
  <2>9. target # prev_buffer
    BY <2>2 DEF Kept, BuffersKnown, Buffer, Null
  <2>10. QED
    BY <2>1, <2>2, <2>4, <2>5, <2>6, <2>7, <2>8, <2>9, <1>k DEF RoomKnown
<1>Decrement. CASE Decrement
  <2>1. /\ gcpc # "store" /\ gcpc' # "store"
        /\ UNCHANGED <<nodes, left, alloc_list, survivors, generation, node_base,
                      target, prev_buffer, node, room, gc_compacting, gc_current_mark_value>>
    BY <1>Decrement DEF Decrement, Touch
  <2>2. Listed' = Listed /\ Remaining' = Remaining /\ ToMove' = ToMove
    BY <2>1 DEF Listed, Remaining, ToMove
  <2>3. QED
    BY <2>1, <2>2, <1>k DEF RoomKnown
<1>RecheckOld. CASE RecheckOld
  <2>1. /\ gcpc # "store" /\ gcpc' # "store"
        /\ UNCHANGED <<nodes, left, alloc_list, survivors, generation, node_base,
                      target, prev_buffer, node, room, gc_compacting, gc_current_mark_value>>
    BY <1>RecheckOld DEF RecheckOld
  <2>2. Listed' = Listed /\ Remaining' = Remaining /\ ToMove' = ToMove
    BY <2>1 DEF Listed, Remaining, ToMove
  <2>3. QED
    BY <2>1, <2>2, <1>k DEF RoomKnown
<1>Defer. CASE Defer
  <2>1. /\ gcpc # "store" /\ gcpc' # "store"
        /\ UNCHANGED <<nodes, left, alloc_list, survivors, generation, node_base,
                      target, prev_buffer, node, room, gc_compacting, gc_current_mark_value>>
    BY <1>Defer DEF Defer
  <2>2. Listed' = Listed /\ Remaining' = Remaining /\ ToMove' = ToMove
    BY <2>1 DEF Listed, Remaining, ToMove
  <2>3. QED
    BY <2>1, <2>2, <1>k DEF RoomKnown
<1>EndCompact. CASE EndCompact
  <2>1. gc_compacting' = 0
    BY <1>EndCompact DEF EndCompact
  <2>2. QED
    BY <2>1 DEF RoomKnown
<1>q. QED
  BY <1>b, <1>f, <1>t, <1>Begin, <1>Mark, <1>Cleanup, <1>Steal, <1>Keep, <1>FreeBlock,
    <1>FreeInBuffer, <1>LoadOldHead, <1>Prepend, <1>Recheck, <1>IsCurrent, <1>ResetBase,
    <1>ResetCursor, <1>ResetLimit, <1>BeginCompact, <1>CompactThread, <1>Skip, <1>Copy,
    <1>StoreHandle, <1>Decrement, <1>RecheckOld, <1>Defer, <1>EndCompact, Keeps_alloc_list,
        Keeps_gc_compacting, Keeps_gc_current_mark_value, Keeps_gcpc, Keeps_generation, Keeps_left,
            Keeps_node, Keeps_node_base, Keeps_nodes, Keeps_prev_buffer, Keeps_room, Keeps_survivors,
                Keeps_target

-----------------------------------------------------------------------------
(* The beginning.                                                          *)

LEMMA FirstKnown ==
  /\ FirstBuffer \in [Threads -> 1 .. Cardinality(Threads)]
  /\ \A t, u \in Threads : FirstBuffer[t] = FirstBuffer[u] => t = u
  /\ Cardinality(Threads) \in 0 .. MaxBuffers
<1>1. /\ IsFiniteSet(Threads) /\ Cardinality(Threads) \in Nat /\ Cardinality(Threads) <= MaxBuffers
      /\ ExistsBijection(1 .. Cardinality(Threads), Threads) /\ MaxBuffers \in Nat
  BY HeapAssumption, FS_CardinalityType
<1>2. IsFiniteSet(1 .. Cardinality(Threads)) /\ Cardinality(1 .. Cardinality(Threads)) = Cardinality(Threads)
  BY <1>1, FS_Interval
<1>3. ExistsBijection(Threads, 1 .. Cardinality(Threads))
  BY <1>1, <1>2, FS_SameCardinalityBij
<1>4. \E first \in [Threads -> 1 .. Cardinality(Threads)] :
        \A t, u \in Threads : first[t] = first[u] => t = u
  <2>1. PICK f : f \in Bijection(Threads, 1 .. Cardinality(Threads))
    BY <1>3 DEF ExistsBijection
  <2>2. f \in Injection(Threads, 1 .. Cardinality(Threads))
    BY <2>1 DEF Bijection
  <2>3. f \in [Threads -> 1 .. Cardinality(Threads)] /\ \A t, u \in Threads : f[t] = f[u] => t = u
    BY <2>2 DEF Injection, IsInjective
  <2>4. QED
    BY <2>3
<1>5. QED
  BY <1>1, <1>4 DEF FirstBuffer

LEMMA GroundInit == Init => Ground
<1> SUFFICES ASSUME Init PROVE Ground
  OBVIOUS
<1>1. /\ bound \in Bounds /\ bound.threads \subseteq Threads /\ bound.objects \in Nat /\ bound.cycles \in Nat
      /\ MaxBuffers \in Nat /\ Slots \in Nat \ {0}
  BY BoundKnown, ConstantsKnown DEF Init
<1>2. /\ FirstBuffer \in [Threads -> Buffer] /\ 1 .. Cardinality(Threads) \subseteq Buffer
      /\ Cardinality(Threads) \in 0 .. MaxBuffers
  BY FirstKnown, <1>1 DEF Buffer
<1>3. Object = {} /\ Listed = {}
  BY DEF Init, Object, Listed
<1>4. ASSUME NEW S PROVE <<>> \in [Object -> S]
  BY <1>3
<1>5. ObjectsTyped
  <2>1. next_object \in Nat \ {0}
    BY DEF Init
  <2>2. place \in [Object -> Buffer \cup {Null}] /\ node_base \in [Object -> Buffer \cup {Null}]
    BY <1>4 DEF Init
  <2>3. flag_tlab \in [Object -> BOOLEAN] /\ generation \in [Object -> Nat] /\ born \in [Object -> Nat]
    BY <1>4 DEF Init
  <2>4. QED
    BY <2>1, <2>2, <2>3 DEF ObjectsTyped
<1>6. MemoryTyped /\ HistoryTyped /\ FieldsTyped /\ FlagsTyped
  <2>1. MemoryTyped
    BY <1>1, <1>2 DEF Init, MemoryTyped
  <2>2. HistoryTyped /\ FlagsTyped
    BY DEF Init, HistoryTyped, FlagsTyped
  <2>3. FieldsTyped
    BY <1>2 DEF Init, FieldsTyped
  <2>4. QED
    BY <2>1, <2>2, <2>3
<1>7. CursorsTyped /\ PcTyped /\ RefillTyped
  BY <1>1, <1>2 DEF Init, CursorsTyped, PcTyped, RefillTyped, Cursor, NoCursor, Null, Refilling
<1>8. ListsTyped /\ HeldTyped /\ CycleTyped /\ GcPcTyped /\ CompactTyped
  BY <1>1 DEF Init, ListsTyped, HeldTyped, CycleTyped, GcPcTyped, CompactTyped, NoHeld, Null
<1>9. Typed
  BY <1>5, <1>6, <1>7, <1>8, TypesSplit
<1>10. CycleKnown
  BY DEF Init, CycleKnown, Copying, HasOld, Taking, Null
<1>11. Budget
  <2>1. {u \in Threads : pc[u] # "idle"} = {}
    BY DEF Init
  <2>2. Cardinality({u \in Threads : pc[u] # "idle"}) = 0
    BY <2>1, FS_EmptySet
  <2>3. QED
    BY <1>1, <2>2 DEF Init, Budget
<1>12. ListsApart
  BY DEF Init, ListsApart
<1>13. QED
  BY <1>9, <1>10, <1>11, <1>12 DEF Ground, Typed

LEMMA KeptInit == Init => Kept
<1> SUFFICES ASSUME Init PROVE Kept
  OBVIOUS
<1>1. /\ Object = {} /\ Listed = {} /\ Moved = {} /\ GivenUp = {} /\ gcpc = "idle"
      /\ \A t \in Threads : /\ pc[t] = "idle" /\ alloc_list[t] = {} /\ held[t] = NoHeld /\ cursor[t] = NoCursor
                            /\ base[t] = Null /\ buffer[t] = Null /\ tlab_base[t] = FirstBuffer[t]
                            /\ tlab_cursor[t] = [buffer |-> FirstBuffer[t], next |-> 1]
  BY DEF Init, Object, Listed, Moved, GivenUp
<1>2. /\ \A t \in Threads : FirstBuffer[t] \in mapped /\ FirstBuffer[t] # Null /\ FirstBuffer[t] <= allotted
      /\ \A t, u \in Threads : FirstBuffer[t] = FirstBuffer[u] => t = u
      /\ \A b \in Buffer : b # Null
  BY FirstKnown DEF Init, Buffer, Null
<1>0. ASSUME NEW t \in Threads
      PROVE  /\ tlab_cursor[t].buffer = FirstBuffer[t] /\ cursor[t].buffer = Null
             /\ held[t].object = 0 /\ held[t].place = Null
             /\ buffer[t] = Null /\ base[t] = Null /\ tlab_base[t] = FirstBuffer[t]
  <2>1. tlab_cursor[t] = [buffer |-> FirstBuffer[t], next |-> 1]
    BY DEF Init
  <2>2. cursor[t] = [buffer |-> Null, next |-> 0]
    BY DEF Init, NoCursor
  <2>3. held[t] = [object |-> 0, place |-> Null]
    BY DEF Init, NoHeld
  <2>4. tlab_cursor[t].buffer = FirstBuffer[t]
    BY <2>1
  <2>5. cursor[t].buffer = Null
    BY <2>2
  <2>6. held[t].object = 0 /\ held[t].place = Null
    BY <2>3
  <2>7. buffer[t] = Null /\ base[t] = Null /\ tlab_base[t] = FirstBuffer[t]
    BY DEF Init
  <2>8. QED
    BY <2>4, <2>5, <2>6, <2>7
<1>3. BuffersKnown
  BY <1>1 DEF Init, BuffersKnown
<1>4. CountsKnown
  <2>1. ASSUME NEW b \in Buffer PROVE Exact(b)
    <3>1. InBuffer(b) = {} /\ Counted(b) = {} /\ Due(b) = 0 /\ live_count[b] = 0
      BY <1>1 DEF Init, InBuffer, Counted, Due
    <3>2. QED
      BY <3>1, FS_EmptySet DEF Exact, Weight
  <2>2. mapped \subseteq Buffer
    BY GroundInit DEF Ground, TypeOK
  <2>3. QED
    BY <2>1, <2>2 DEF Init, CountsKnown
<1>5. UsesKnown
  <2>1. \A t \in Threads : Own(t) = {}
    BY <1>1 DEF Init, Own
  <2>2. ASSUME NEW t \in Threads, NEW b \in Buffer, Uses(t, b) PROVE b = FirstBuffer[t]
    <3>1. \/ b \in {tlab_base[t], tlab_cursor[t].buffer, cursor[t].buffer, buffer[t], base[t]}
          \/ gcpc \in HasOld
      BY <2>1, <2>2 DEF Uses
    <3>2. gcpc \notin HasOld
      BY <1>1 DEF HasOld, Taking
    <3>3. b # Null
      BY <1>2
    <3>4. QED
      BY <1>0, <3>1, <3>2, <3>3
  <2>3. QED
    BY <1>1, <1>2, <2>2 DEF UsesKnown, HasOld, Taking
<1>6. FieldsKnown
  <2>1. ASSUME NEW t \in Threads PROVE FieldKnown(t)
    <3>1. pc[t] = "idle" /\ tlab_base[t] # Null /\ tlab_cursor[t].buffer = tlab_base[t]
      BY <1>0, <1>1, <1>2
    <3>2. tlab_cursor[t].buffer \in mapped /\ buffer[t] = Null
      BY <1>0, <1>2
    <3>3. QED
      BY <3>1, <3>2 DEF FieldKnown, Refilling
  <2>2. QED
    BY <2>1 DEF FieldsKnown
<1>7. AllocsKnown
  BY <1>1 DEF AllocsKnown, AllocKnown, NoCursor
<1>8. DoomKnown
  BY <1>1 DEF Init, DoomKnown, HasOld, Taking, Early
<1>9. PlacesKnown /\ BirthsKnown
  BY <1>1 DEF PlacesKnown, BirthsKnown
<1>10. PointersKnown
  BY <1>0, <1>1 DEF PointersKnown, PointerKnown
<1>11. RoomKnown /\ ~wild
  BY DEF Init, RoomKnown
<1>12. QED
  BY <1>3, <1>4, <1>5, <1>6, <1>7, <1>8, <1>9, <1>10, <1>11 DEF Kept

-----------------------------------------------------------------------------
(* The theorems.                                                           *)

LEMMA InvariantStep == IInv /\ Step => IInv'
<1> SUFFICES ASSUME IInv, Step PROVE IInv'
  OBVIOUS
<1>1. Ground /\ Ground'
  BY GroundStep DEF IInv
<1>2. ASSUME lapse' = {} PROVE Kept'
  <2>1. Kept
    BY <1>2, LapseStep DEF IInv
  <2>2. BuffersKnown' /\ CountsKnown' /\ UsesKnown'
    BY <1>1, <1>2, <2>1, BuffersStep, CountsStep, UsesStep
  <2>3. FieldsKnown' /\ AllocsKnown' /\ DoomKnown'
    BY <1>1, <1>2, <2>1, FieldsStep, AllocsStep, DoomStep
  <2>4. PlacesKnown' /\ PointersKnown' /\ BirthsKnown' /\ RoomKnown'
    BY <1>1, <1>2, <2>1, PlacesStep, PointersStep, BirthsStep, RoomStep
  <2>5. wild' = FALSE
    BY <1>1, <2>1, WildStep
  <2>6. QED
    BY <2>2, <2>3, <2>4, <2>5 DEF Kept
<1>3. lost' = FALSE
  <2>1. lost = FALSE /\ (lapse = {} => Kept)
    BY DEF IInv
  <2>2. QED
    BY <1>1, <2>1, LostStep
<1>4. QED
  BY <1>1, <1>2, <1>3 DEF IInv

LEMMA InvariantTimeout == IInv /\ WaitTimeout => IInv'
BY TimeoutStep DEF IInv

LEMMA InvariantStays == IInv /\ UNCHANGED vars => IInv'
<1> SUFFICES ASSUME IInv, UNCHANGED vars PROVE IInv'
  OBVIOUS
<1> USE DEF vars, Object, Listed, Moved, GivenUp
<1>1. TypeOK' = TypeOK
  BY DEF TypeOK
<1>2. TypesKnown' = TypesKnown
  BY DEF TypesKnown
<1>3. CycleKnown' = CycleKnown /\ Budget' = Budget /\ ListsApart' = ListsApart
  BY DEF CycleKnown, Budget, ListsApart
<1>4. BuffersKnown' = BuffersKnown
  BY DEF BuffersKnown
<1>5. CountsKnown' = CountsKnown
  BY DEF CountsKnown, Exact, Poisoned, Weight, InBuffer, Counted, Due
<1>6. UsesKnown' = UsesKnown
  BY DEF UsesKnown, Uses, Own
<1>7. FieldsKnown' = FieldsKnown
  BY DEF FieldsKnown, FieldKnown, Unused
<1>8. AllocsKnown' = AllocsKnown
  BY DEF AllocsKnown, AllocKnown
<1>9. DoomKnown' = DoomKnown
  BY DEF DoomKnown, Detached, Early
<1>10. PlacesKnown' = PlacesKnown
  BY DEF PlacesKnown
<1>11. PointersKnown' = PointersKnown
  BY DEF PointersKnown, PointerKnown, Present, Heard, Early
<1>12. BirthsKnown' = BirthsKnown
  BY DEF BirthsKnown, Newborn, Heard
<1>13. RoomKnown' = RoomKnown
  BY DEF RoomKnown, Remaining, ToMove
<1>14. QED
  BY <1>1, <1>2, <1>3, <1>4, <1>5, <1>6, <1>7, <1>8, <1>9, <1>10, <1>11, <1>12, <1>13 DEF IInv, Ground, Kept

(* The inductive invariant holds: the buffers are counted, used and given  *)
(* up as its parts say, as long as no count went wrong.                    *)
THEOREM Invariant == Spec => []IInv
<1>1. Init => IInv
  BY GroundInit, KeptInit DEF IInv, Init
<1>2. IInv /\ [Next]_vars => IInv'
  BY InvariantStep, InvariantTimeout, InvariantStays DEF Next, Step
<1>3. QED
  BY <1>1, <1>2, PTL DEF Spec

LEMMA InvariantGivesMemory == IInv => MemoryPresent
<1> SUFFICES ASSUME IInv, lapse = {}
             PROVE  /\ ~wild
                    /\ \A o \in Listed : Present(o, place[o])
                    /\ \A t \in Threads :
                         /\ held[t].object # 0 => Present(held[t].object, held[t].place)
                         /\ cursor[t].buffer # Null /\ pc[t] \in {"base", "count", "publish"} =>
                              cursor[t].buffer \in mapped
  BY DEF MemoryPresent
<1>1. Ground /\ Kept
  BY DEF IInv
<1>2. ASSUME NEW o \in Listed PROVE Present(o, place[o])
  <2>1. o \in Object
    BY <1>1, ListedFinite DEF Ground, Typed
  <2>2. QED
    BY <1>1, <2>1 DEF Kept, PlacesKnown, Present
<1>3. \A t \in Threads : held[t].object # 0 => Present(held[t].object, held[t].place)
  BY <1>1 DEF Kept, PointersKnown, PointerKnown
<1>4. \A t \in Threads : cursor[t].buffer # Null /\ pc[t] \in {"base", "count", "publish"} =>
                           cursor[t].buffer \in mapped
  BY <1>1 DEF Kept, AllocsKnown, AllocKnown
<1>5. QED
  BY <1>1, <1>2, <1>3, <1>4 DEF Kept

LEMMA InvariantGivesCounts == IInv => CountExact
<1> SUFFICES ASSUME IInv PROVE CountExact
  OBVIOUS
<1>1. Ground
  BY DEF IInv
<1>2. ASSUME lapse = {}, NEW b \in mapped, live_count[b] < Poison \div 2
      PROVE  Exact(b)
  <2>1. Kept
    BY <1>2 DEF IInv
  <2>2. b \in Buffer /\ bound.objects \in Nat /\ 2 * bound.objects < Poison /\ Poison \in Int
    BY <1>1, BoundKnown, ConstantsKnown DEF Ground, TypeOK
  <2>3. ~Poisoned(b)
    <3>1. Weight(b) \in Nat /\ live_count[b] \in Int
      BY <1>1, <2>2, WeightKnown
    <3>2. QED
      BY <1>2, <2>2, <3>1 DEF Poisoned
  <2>4. b # Null
    BY <2>2 DEF Buffer, Null
  <2>5. CASE b = prev_prev_buffer
    BY <2>1, <2>3, <2>4, <2>5 DEF Kept, CountsKnown
  <2>6. CASE b = prev_buffer
    BY <2>1, <2>3, <2>4, <2>6 DEF Kept, CountsKnown
  <2>7. CASE b \notin {prev_buffer, prev_prev_buffer}
    BY <2>1, <2>7 DEF Kept, CountsKnown
  <2>8. QED
    BY <2>5, <2>6, <2>7
<1>3. TypeOK
  BY <1>1 DEF Ground
<1>4. QED
  BY <1>2, <1>3 DEF CountExact, Exact, Weight, InBuffer, Counted, Due

(* Memory is given back only when nobody uses it: the object of every      *)
(* node, the block an allocation is filling and the copy a raw pointer is  *)
(* of are in memory that is still there, and the collector touches the     *)
(* headers of mapped buffers only (gc_compact_deferred_cleanup, the sweep  *)
(* and gc_compact_impl), until an allocation finds its base gone or counts *)
(* in a buffer already given up.                                           *)
THEOREM MemoryIsPresent == Spec => []MemoryPresent
<1> QED
  BY Invariant, InvariantGivesMemory, PTL

(* The live count of a buffer is the number of the objects in it, counted  *)
(* by the threads and the collector without a lock (gc_alloc,              *)
(* gc_sweep_thread_lists, gc_compact_impl), but for the poisoned ones and  *)
(* under the same proviso; and the state is well typed throughout.         *)
THEOREM CountIsExact == Spec => []CountExact
<1> QED
  BY Invariant, InvariantGivesCounts, PTL

(* What a thread writes into an object younger than the running collection *)
(* is in the object: gc_compact_impl moves no such object under it.        *)
THEOREM NewbornWritesAreKept == Spec => []NewbornWritesKept
<1>1. IInv => NewbornWritesKept
  BY DEF IInv, NewbornWritesKept
<1> QED
  BY <1>1, Invariant, PTL
==============================================================================
