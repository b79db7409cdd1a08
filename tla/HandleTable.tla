---------------------------- MODULE HandleTable ----------------------------
(***************************************************************************)
(* The handle table of coex_gc.py: where gc_alloc gets a handle from (the  *)
(* thread's pool, the free list by compare-and-swap, a range claimed by    *)
(* fetch-and-add), how the table grows under the threads that use it, and  *)
(* how a collection promotes the retired handles, retires those of the     *)
(* objects it sweeps, and stores new addresses when it compacts.           *)
(*                                                                         *)
(* A slot holds the address of an object or the next handle of a list.     *)
(* A thread may stop anywhere for any number of collections: the collector *)
(* does not wait for its answer for ever.                                  *)
(* What a collection keeps alive is GcCycle's subject: here the sweep may  *)
(* retire any object that was published before its cycle began.            *)
(***************************************************************************)
EXTENDS Integers, FiniteSets

CONSTANTS
  Threads,
  PoolSize,     \* HANDLE_POOL_SIZE: the handles of a claimed range
  MaxSize,      \* the slots of the largest table of any bound
  Bounds        \* bounds: the slots of the first table and of the last, the collections run

ASSUME SizeAssumption ==
  /\ PoolSize \in Nat \ {0} /\ MaxSize \in Nat
  /\ Bounds \subseteq [first : PoolSize + 1 .. MaxSize, largest : PoolSize + 1 .. MaxSize, cycles : Nat]

Handle  == 1 .. MaxSize - 1
Address == MaxSize .. MaxSize + 1      \* an object is at the one or, once moved, at the other
Word    == 0 .. MaxSize + 1

VARIABLES
  bound,                 \* the bounds of this run
  gc_handle_table,       \* the slots of the table in use
  gc_handle_table_size,
  gc_handle_free_list, gc_handle_retired_list, gc_next_handle,
  gc_table_growing, gc_compacting,
  pool_next, pool_end,   \* the handle pool of each thread
  pc,                    \* where each thread is
  expected, next_free,   \* the head a pop has read and the link it found there
  start_handle,          \* the range a thread has claimed
  handle,                \* the handle gc_alloc is about to publish
  seen,                  \* the size of the table whose address a thread has loaded
  copied,                \* what the grower copied
  gcpc, acked, gc_cycle_id,
  tail, gc_seen, gc_expected,  \* of a promotion: the tail, the table it was read in, the head it is linked to
  old,                   \* the handles published before this cycle
  live,                  \* the handles of published objects
  address,               \* where the object of each handle is
  straddled,             \* history: a claim was pending when a larger table came into use
  stale,                 \* history: a slot was used in a table being or already replaced
  unheard,               \* history: a collection went on although a thread had not answered
  overtaken              \* history: a pop stored a link that its handle had no more

table   == <<gc_handle_table, gc_handle_table_size>>
lists   == <<gc_handle_free_list, gc_handle_retired_list, gc_next_handle>>
flags   == <<gc_table_growing, gc_compacting>>
pools   == <<pool_next, pool_end>>
locals  == <<expected, next_free, start_handle, handle, seen, copied>>
own     == <<tail, gc_seen, gc_expected>>
gc      == <<bound, gcpc, acked, own, gc_cycle_id, old>>
objects == <<live, address>>
answers == <<unheard, overtaken>>
history == <<straddled, stale, answers>>
vars    == <<table, lists, flags, pools, pc, locals, gc, objects, history>>

TypeOK ==
  /\ gc_handle_table \in [Handle -> Word] /\ gc_handle_table_size \in 0 .. MaxSize
  /\ bound \in Bounds
  /\ gc_handle_free_list \in Word /\ gc_handle_retired_list \in Word
  /\ gc_next_handle \in 1 .. MaxSize
  /\ gc_table_growing \in 0 .. 1 /\ gc_compacting \in 0 .. 1
  /\ pool_next \in [Threads -> 0 .. MaxSize] /\ pool_end \in [Threads -> 0 .. MaxSize]
  /\ pc \in [Threads -> {"idle", "alloc", "link", "read", "cas", "clear", "clear_slot", "bump", "check",
                         "undo", "claim", "wait", "grow", "swap", "release", "store", "store_slot"}]
  /\ expected \in [Threads -> Word] /\ next_free \in [Threads -> Word]
  /\ start_handle \in [Threads -> 0 .. MaxSize] /\ handle \in [Threads -> Handle \cup {0}]
  /\ seen \in [Threads -> 0 .. MaxSize] /\ copied \in [Handle -> Word]
  /\ gcpc \in {"idle", "wait", "promote", "link", "cas", "sweep", "compact", "move"}
  /\ acked \subseteq Threads /\ tail \in Handle \cup {0} /\ gc_seen \in 0 .. MaxSize /\ gc_expected \in Word
  /\ gc_cycle_id \in 0 .. bound.cycles /\ old \subseteq live /\ live \subseteq Handle
  /\ address \in [Handle -> Address]
  /\ {straddled, stale, unheard, overtaken} \subseteq BOOLEAN

Init ==
  /\ gc_handle_table = [h \in Handle |-> 0] /\ bound \in Bounds /\ gc_handle_table_size = bound.first
  /\ gc_handle_free_list = 0 /\ gc_handle_retired_list = 0 /\ gc_next_handle = 1
  /\ gc_table_growing = 0 /\ gc_compacting = 0
  /\ pool_next = [t \in Threads |-> 0] /\ pool_end = [t \in Threads |-> 0]
  /\ pc = [t \in Threads |-> "idle"]
  /\ expected = [t \in Threads |-> 0] /\ next_free = [t \in Threads |-> 0]
  /\ start_handle = [t \in Threads |-> 0] /\ handle = [t \in Threads |-> 0]
  /\ seen = [t \in Threads |-> 0] /\ copied = [h \in Handle |-> 0]
  /\ gcpc = "idle" /\ acked = {} /\ tail = 0 /\ gc_seen = 0 /\ gc_expected = 0 /\ gc_cycle_id = 0
  /\ old = {} /\ live = {} /\ address = [h \in Handle |-> MaxSize]
  /\ straddled = FALSE /\ stale = FALSE /\ unheard = FALSE /\ overtaken = FALSE

-----------------------------------------------------------------------------
(* Slots.  The address of the table is loaded in one step, the slot used   *)
(* in a later one.                                                         *)

Goto(t, from, to) == pc[t] = from /\ pc' = [pc EXCEPT ![t] = to]

LoadTable(t) == seen' = [seen EXCEPT ![t] = gc_handle_table_size]

Copying == \E t \in Threads : pc[t] = "swap"

Freed(size)      == size # gc_handle_table_size
Store(size, h, w) ==
  gc_handle_table' = IF Freed(size) THEN gc_handle_table ELSE [gc_handle_table EXCEPT ![h] = w]
WriteSlot(size, h, w) ==
  /\ Store(size, h, w)
  /\ stale' = (stale \/ Freed(size) \/ Copying)

-----------------------------------------------------------------------------
(* gc_alloc and gc_handle_pool_refill.                                     *)

\* gc_handle_pool_alloc: the pool is the thread's own.
PoolAlloc(t) ==
  /\ pc[t] \in {"idle", "alloc"} /\ pool_next[t] < pool_end[t]
  /\ pc' = [pc EXCEPT ![t] = "store"]
  /\ handle' = [handle EXCEPT ![t] = pool_next[t]]
  /\ pool_next' = [pool_next EXCEPT ![t] = @ + 1]
  /\ UNCHANGED <<table, lists, flags, pool_end, expected, next_free, start_handle, seen, copied, gc,
                 objects, history>>

LoadHead(t) ==
  /\ pc[t] \in {"idle", "alloc"} /\ pool_next[t] >= pool_end[t]
  /\ pc' = [pc EXCEPT ![t] = IF gc_handle_free_list # 0 THEN "link" ELSE "bump"]
  /\ expected' = [expected EXCEPT ![t] = gc_handle_free_list]
  /\ UNCHANGED <<table, lists, flags, pools, next_free, start_handle, handle, seen, copied, gc, objects,
                 history>>

LoadTableForLink(t) ==
  /\ expected[t] \in Handle                        \* any other word is no slot: the program ends here
  /\ Goto(t, "link", "read") /\ LoadTable(t)
  /\ UNCHANGED <<table, lists, flags, pools, expected, next_free, start_handle, handle, copied, gc,
                 objects, history>>

ReadLink(t) ==
  /\ Goto(t, "read", "cas") /\ stale' = (stale \/ Freed(seen[t]))
  /\ next_free' = [next_free EXCEPT ![t] = gc_handle_table[expected[t]]]
  /\ UNCHANGED <<table, lists, flags, pools, expected, start_handle, handle, seen, copied, gc, objects,
                 straddled, answers>>

\* The head is replaced whatever it is by now (mutation).
PopUnchecked(t) ==
  /\ Goto(t, "cas", "clear")
  /\ gc_handle_free_list' = next_free[t]
  /\ UNCHANGED <<table, gc_handle_retired_list, gc_next_handle, flags, pools, locals, gc, objects, history>>

\* The head may be the same again although its slot holds another link by now.
CasPop(t) ==
  IF gc_handle_free_list = expected[t]
  THEN /\ Goto(t, "cas", "clear")
       /\ gc_handle_free_list' = next_free[t]
       /\ overtaken' = (overtaken \/ gc_handle_table[expected[t]] # next_free[t])
       /\ UNCHANGED <<table, gc_handle_retired_list, gc_next_handle, flags, pools, locals, gc, objects,
                      straddled, stale, unheard>>
  ELSE /\ Goto(t, "cas", IF gc_handle_free_list # 0 THEN "link" ELSE "bump")
       /\ expected' = [expected EXCEPT ![t] = gc_handle_free_list]
       /\ UNCHANGED <<table, lists, flags, pools, next_free, start_handle, handle, seen, copied, gc,
                      objects, history>>

LoadTableForClear(t) ==
  /\ Goto(t, "clear", "clear_slot") /\ LoadTable(t)
  /\ UNCHANGED <<table, lists, flags, pools, expected, next_free, start_handle, handle, copied, gc,
                 objects, history>>

\* The popped handle's slot is cleared and the handle is the whole pool.
ClearSlot(t) ==
  /\ Goto(t, "clear_slot", "alloc")
  /\ WriteSlot(seen[t], expected[t], 0)
  /\ pool_next' = [pool_next EXCEPT ![t] = expected[t]]
  /\ pool_end' = [pool_end EXCEPT ![t] = expected[t] + 1]
  /\ expected' = [expected EXCEPT ![t] = 0] /\ next_free' = [next_free EXCEPT ![t] = 0]
  /\ seen' = [seen EXCEPT ![t] = 0]
  /\ UNCHANGED <<gc_handle_table_size, lists, flags, start_handle, handle, copied, gc, objects,
                 straddled, answers>>

Bump(t) ==
  /\ gc_next_handle + PoolSize <= bound.largest   \* bound
  /\ Goto(t, "bump", "check")
  /\ start_handle' = [start_handle EXCEPT ![t] = gc_next_handle]
  /\ gc_next_handle' = gc_next_handle + PoolSize
  /\ expected' = [expected EXCEPT ![t] = 0] /\ next_free' = [next_free EXCEPT ![t] = 0]
  /\ UNCHANGED <<table, gc_handle_free_list, gc_handle_retired_list, flags, pools, handle, seen, copied,
                 gc, objects, history>>

\* The claim is compared with the size of the table after it was made.
CheckSize(t) ==
  LET end == start_handle[t] + PoolSize
  IN  /\ Goto(t, "check", IF end > gc_handle_table_size THEN "undo" ELSE "alloc")
      /\ IF end > gc_handle_table_size
         THEN UNCHANGED <<pools, start_handle>>
         ELSE /\ pool_next' = [pool_next EXCEPT ![t] = start_handle[t]]
              /\ pool_end' = [pool_end EXCEPT ![t] = end]
              /\ start_handle' = [start_handle EXCEPT ![t] = 0]
      /\ UNCHANGED <<table, lists, flags, expected, next_free, handle, seen, copied, gc, objects, history>>

UndoBump(t) ==
  /\ Goto(t, "undo", "claim")
  /\ gc_next_handle' = gc_next_handle - PoolSize
  /\ start_handle' = [start_handle EXCEPT ![t] = 0]
  /\ UNCHANGED <<table, gc_handle_free_list, gc_handle_retired_list, flags, pools, expected, next_free,
                 handle, seen, copied, gc, objects, history>>

ClaimGrower(t) ==
  /\ Goto(t, "claim", IF gc_table_growing = 0 THEN "grow" ELSE "wait")
  /\ gc_table_growing' = 1
  /\ UNCHANGED <<table, lists, gc_compacting, pools, locals, gc, objects, history>>

WaitGrower(t) ==
  /\ gc_table_growing = 0
  /\ Goto(t, "wait", "bump")
  /\ UNCHANGED <<table, lists, flags, pools, locals, gc, objects, history>>

\* The copy is made also while the collector is storing new addresses (mutation).
GrowCopyAlways(t) ==
  /\ Goto(t, "grow", "swap")
  /\ copied' = gc_handle_table
  /\ UNCHANGED <<table, lists, flags, pools, expected, next_free, start_handle, handle, seen, gc, objects,
                 history>>

\* gc_handle_table_grow gives up while gc_compacting is set; else it copies ...
GrowCopy(t) ==
  /\ Goto(t, "grow", IF gc_compacting = 1 THEN "release" ELSE "swap")
  /\ copied' = IF gc_compacting = 1 THEN copied ELSE gc_handle_table
  /\ UNCHANGED <<table, lists, flags, pools, expected, next_free, start_handle, handle, seen, gc, objects,
                 history>>

\* ... and then puts the copy, of twice the size, into use and frees the old table.
GrowSwap(t) ==
  /\ Goto(t, "swap", "release")
  /\ gc_handle_table' = copied
  /\ gc_handle_table_size' = IF 2 * gc_handle_table_size > MaxSize THEN MaxSize
                             ELSE 2 * gc_handle_table_size
  /\ copied' = [h \in Handle |-> 0]
  /\ straddled' = (straddled \/ \E u \in Threads : pc[u] \in {"check", "undo"})
  /\ UNCHANGED <<lists, flags, pools, expected, next_free, start_handle, handle, seen, gc, objects,
                 stale, answers>>

ReleaseGrower(t) ==
  /\ Goto(t, "release", "bump")
  /\ gc_table_growing' = 0
  /\ UNCHANGED <<table, lists, gc_compacting, pools, locals, gc, objects, history>>

LoadTableForStore(t) ==
  /\ Goto(t, "store", "store_slot") /\ LoadTable(t)
  /\ UNCHANGED <<table, lists, flags, pools, expected, next_free, start_handle, handle, copied, gc,
                 objects, history>>

\* gc_handle_store; then the object is added to the allocation list of its thread.
StoreSlot(t) ==
  /\ Goto(t, "store_slot", "idle")
  /\ WriteSlot(seen[t], handle[t], MaxSize)
  /\ address' = [address EXCEPT ![handle[t]] = MaxSize]
  /\ live' = live \cup {handle[t]}
  /\ handle' = [handle EXCEPT ![t] = 0] /\ seen' = [seen EXCEPT ![t] = 0]
  /\ UNCHANGED <<gc_handle_table_size, lists, flags, pools, expected, next_free, start_handle, copied, gc,
                 straddled, answers>>

\* A thread acknowledges also inside the loop of the pop (mutation).
AnswerAnywhere(t) ==
  /\ pc[t] \in {"idle", "cas"} /\ gcpc = "wait" /\ t \notin acked
  /\ acked' = acked \cup {t}
  /\ UNCHANGED <<table, lists, flags, pools, pc, locals, bound, gcpc, own, gc_cycle_id, old, objects,
                 history>>

\* A thread acknowledges a collection at a safepoint, never inside gc_alloc.
Safepoint(t) ==
  /\ pc[t] = "idle" /\ gcpc = "wait" /\ t \notin acked
  /\ acked' = acked \cup {t}
  /\ UNCHANGED <<table, lists, flags, pools, pc, locals, bound, gcpc, own, gc_cycle_id, old, objects,
                 history>>

Allocate(t) ==
  \/ PoolAlloc(t) \/ LoadHead(t) \/ LoadTableForLink(t) \/ ReadLink(t) \/ CasPop(t)
  \/ LoadTableForClear(t) \/ ClearSlot(t) \/ Bump(t) \/ CheckSize(t) \/ UndoBump(t) \/ ClaimGrower(t)
  \/ WaitGrower(t) \/ GrowCopy(t) \/ GrowSwap(t) \/ ReleaseGrower(t) \/ LoadTableForStore(t)
  \/ StoreSlot(t) \/ Safepoint(t)

-----------------------------------------------------------------------------
(* The collector.                                                          *)

GcGoto(from, to) == gcpc = from /\ gcpc' = to

BeginCycle ==
  /\ gc_cycle_id < bound.cycles
  /\ GcGoto("idle", "wait")
  /\ gc_cycle_id' = gc_cycle_id + 1 /\ acked' = {} /\ old' = live
  /\ UNCHANGED <<table, lists, flags, pools, pc, locals, bound, own, objects, history>>

\* gc_wait_for_watermarks returns when every thread has answered, and after MAX_ITERATIONS
\* rounds also without; an answer of the cycle before (GcCycle) passes for one as well.
EndWait ==
  /\ GcGoto("wait", "promote")
  /\ unheard' = (unheard \/ acked # Threads)
  /\ UNCHANGED <<table, lists, flags, pools, pc, locals, bound, acked, own, gc_cycle_id, old,
                 objects, straddled, stale, overtaken>>

\* The handles of a list: from its head along the links.
Chain(slots, head) ==
  LET Upto[n \in Nat] ==
        IF n = 0 THEN {head} \cap Handle
        ELSE LET before == Upto[n - 1] IN before \cup ({slots[h] : h \in before} \cap Handle)
  IN  Upto[MaxSize]

\* gc_promote_retired_handles: the walk to the tail, and its slot's address.
PromoteTail ==
  /\ GcGoto("promote", IF gc_handle_retired_list = 0 THEN "sweep" ELSE "link")
  /\ IF gc_handle_retired_list = 0
     THEN tail' = 0
     ELSE \E h \in Chain(gc_handle_table, gc_handle_retired_list) :
            gc_handle_table[h] = 0 /\ tail' = h      \* a list broken by a lost link ends the run
  /\ gc_seen' = gc_handle_table_size
  /\ gc_expected' = gc_handle_free_list
  /\ UNCHANGED <<table, lists, flags, pools, pc, locals, bound, acked, gc_cycle_id, old, objects, history>>

\* The tail is linked to the head of the free list as last seen ...
PromoteLink ==
  /\ GcGoto("link", "cas")
  /\ WriteSlot(gc_seen, tail, gc_expected)
  /\ UNCHANGED <<gc_handle_table_size, lists, flags, pools, pc, locals, bound, acked, own, gc_cycle_id, old,
                 objects, straddled, answers>>

\* A retry compares with the new head, but has not linked the tail to it (mutation).
PromoteWithoutRelink ==
  /\ GcGoto("cas", "sweep")
  /\ gc_handle_free_list' = gc_handle_retired_list /\ gc_handle_retired_list' = 0
  /\ tail' = 0 /\ gc_seen' = 0 /\ gc_expected' = 0
  /\ UNCHANGED <<table, gc_next_handle, flags, pools, pc, locals, bound, acked, gc_cycle_id, old, objects,
                 history>>

\* ... and the retired list takes its place if it is still the same.
PromoteCas ==
  /\ gcpc = "cas"
  /\ IF gc_handle_free_list = gc_expected
     THEN /\ gcpc' = "sweep"
          /\ gc_handle_free_list' = gc_handle_retired_list /\ gc_handle_retired_list' = 0
          /\ tail' = 0 /\ gc_seen' = 0 /\ gc_expected' = 0
     ELSE /\ gcpc' = "link"
          /\ gc_expected' = gc_handle_free_list
          /\ UNCHANGED <<gc_handle_free_list, gc_handle_retired_list, tail, gc_seen>>
  /\ UNCHANGED <<table, gc_next_handle, flags, pools, pc, locals, bound, acked, gc_cycle_id, old, objects,
                 history>>

\* gc_handle_retire, from the sweep: only the collector reads the retired list.
Retire(h) ==
  /\ gcpc = "sweep" /\ h \in old
  /\ WriteSlot(gc_handle_table_size, h, gc_handle_retired_list)
  /\ gc_handle_retired_list' = h
  /\ live' = live \ {h} /\ old' = old \ {h}
  /\ UNCHANGED <<gc_handle_table_size, gc_handle_free_list, gc_next_handle, flags, pools, pc, locals, bound,
                 gcpc, acked, own, gc_cycle_id, address, straddled, answers>>

BeginCompact ==
  /\ GcGoto("sweep", "compact")
  /\ gc_compacting' = 1
  /\ stale' = (stale \/ Copying)
  /\ UNCHANGED <<table, lists, gc_table_growing, pools, pc, locals, bound, acked, own, gc_cycle_id, old,
                 objects, straddled, answers>>

\* The copy pass: the table is loaded, then the new address stored in the slot.
CompactObject ==
  /\ GcGoto("compact", "move")
  /\ gc_seen' = gc_handle_table_size
  /\ UNCHANGED <<table, lists, flags, pools, pc, locals, bound, acked, tail, gc_expected, gc_cycle_id, old,
                 objects, history>>

Move(h) ==
  /\ GcGoto("move", "compact")
  /\ h \in old /\ address[h] = MaxSize
  /\ Store(gc_seen, h, MaxSize + 1)
  /\ stale' = (stale \/ Freed(gc_seen))
  /\ address' = [address EXCEPT ![h] = MaxSize + 1]
  /\ UNCHANGED <<gc_handle_table_size, lists, flags, pools, pc, locals, bound, acked, own, gc_cycle_id,
                 old, live, straddled, answers>>

EndCompact ==
  /\ GcGoto("compact", "idle")
  /\ gc_compacting' = 0 /\ gc_seen' = 0 /\ acked' = {} /\ old' = {}
  /\ UNCHANGED <<table, lists, gc_table_growing, pools, pc, locals, bound, tail, gc_expected, gc_cycle_id,
                 objects, history>>

Collect ==
  \/ BeginCycle \/ EndWait \/ PromoteTail \/ PromoteLink \/ PromoteCas
  \/ BeginCompact \/ CompactObject \/ EndCompact
  \/ \E h \in Handle : Retire(h) \/ Move(h)

Next == Collect \/ \E t \in Threads : Allocate(t)

Spec == Init /\ [][Next]_vars

-----------------------------------------------------------------------------
(* Who has a handle.                                                       *)

Pool(t)   == pool_next[t] .. pool_end[t] - 1
Popped(t) == IF pc[t] \in {"clear", "clear_slot"} THEN {expected[t]} ELSE {}
Taken(t)  == {handle[t]} \ {0}

Free    == Chain(gc_handle_table, gc_handle_free_list)
Retired == Chain(IF tail = 0 THEN gc_handle_table ELSE [gc_handle_table EXCEPT ![tail] = 0],
                 gc_handle_retired_list)

OfThread(t) == Pool(t) \cup Popped(t) \cup Taken(t)

\* What the code relies on without enforcing it: no claim is pending when the table
\* grows, no slot is used in a table that is being replaced, and the head of the free
\* list does not come back during a pop.
Undisturbed == ~straddled /\ ~stale /\ ~overtaken

\* No handle is in two pools, or in a pool and in use, free or retired: two objects
\* never share a handle.  (The state is well typed besides.)
OneOwner ==
  /\ TypeOK
  /\ Undisturbed =>
       LET free == Free
           retired == Retired
       IN  /\ \A t, u \in Threads : t # u => OfThread(t) \cap OfThread(u) = {}
           /\ \A t \in Threads :
                /\ OfThread(t) \cap (live \cup free \cup retired) = {}
                /\ Taken(t) \cap Pool(t) = {} /\ Popped(t) \cap Pool(t) = {}
           /\ live \cap free = {} /\ live \cap retired = {} /\ free \cap retired = {}

\* Every handle below gc_next_handle is somewhere, once no claim is pending: none is
\* lost by a pop and a promotion that meet, or by a range that did not fit.
NoHandleLost ==
  Undisturbed /\ (\A t \in Threads : pc[t] \notin {"check", "undo"}) =>
    1 .. gc_next_handle - 1 \subseteq live \cup Free \cup Retired \cup UNION {OfThread(t) : t \in Threads}

\* Retirement puts a handle off until every thread has answered once more, so that no
\* thread is still in the pop that saw it as the head: as long as every collection heard
\* every thread, a pop stores the link its handle has.
PopsCurrentLink == ~unheard /\ ~straddled /\ ~stale => ~overtaken

\* "To prevent ABA problems, handles should not be reused for at least 2 epochs"
\* (coex-gc-implementation-prompt.md): the same of every run.
NeverOvertaken == ~straddled /\ ~stale => ~overtaken

\* The slot of a published object holds the address the object was last moved to.
PointerCurrent ==
  Undisturbed => \A h \in live : gc_handle_table[h] = address[h]

\* gc_alloc: "no lock needed - this thread owns the handle".
ThreadOwnsHandle ==
  \A t, u \in Threads : t # u /\ handle[t] # 0 => handle[t] # handle[u]
=============================================================================
