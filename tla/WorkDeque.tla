----------------------------- MODULE WorkDeque -----------------------------
(***************************************************************************)
(* The Chase-Lev deque of runtime/coex_scheduler.c, an atomic access of    *)
(* the code per action: the owner's push (with growth) and pop at the      *)
(* bottom, the thieves' steal at the top.  Old buffers are leaked by       *)
(* deque_grow, so a thief that holds one may still read it: all buffers    *)
(* are kept.  The fences of the code order its relaxed accesses; the model *)
(* is sequentially consistent.                                             *)
(***************************************************************************)
EXTENDS Integers, Sequences

CONSTANTS
  Owner, Thieves,  \* the worker that owns the deque, and the others
  Null,            \* no task
  InitialCapacity, \* DEQUE_INITIAL_CAPACITY
  MaxPush          \* bound: how many tasks are pushed

ASSUME CapacityAssumption == InitialCapacity \in Nat \ {0, 1}
ASSUME BoundAssumption    == MaxPush \in Nat
ASSUME WorkerAssumption   == Owner \notin Thieves
ASSUME NullAssumption     == Null \notin 1 .. MaxPush

Task    == 1 .. MaxPush
Workers == Thieves \cup {Owner}

VARIABLES
  top, bottom,  \* dq->top, dq->bottom
  buffers,      \* every DequeBuffer allocated so far, the last is dq->buffer
  pushed,       \* how many tasks have been pushed: the next one is pushed + 1
  pc,           \* where each worker is
  b, t,         \* a worker's local copies of bottom and top
  buf,          \* the buffer a thief has read from dq->buffer
  item,         \* the task a thief has read from its buffer
  got           \* what a worker's last operation returned

locals == <<b, t, buf, item>>
vars   == <<top, bottom, buffers, pushed, pc, locals, got>>

Capacity(k)    == Len(buffers[k])
Slot(k, i)     == (i % Capacity(k)) + 1
At(k, i)       == buffers[k][Slot(k, i)]
Current        == Len(buffers)
EmptyBuffer(n) == [s \in 1 .. n |-> Null]

TypeOK ==
  /\ top \in Nat /\ bottom \in Nat \cup {-1}
  /\ buffers \in Seq(Seq(Task \cup {Null})) /\ buffers # <<>>
  /\ pushed \in 0 .. MaxPush
  /\ pc \in [Workers -> {"idle", "grow", "store", "publish", "poptop", "race", "restore",
                         "bottom", "buffer", "read", "cas"}]
  /\ b \in [Workers -> Nat \cup {-1}] /\ t \in [Workers -> Nat]
  /\ buf \in [Thieves -> 1 .. Current]
  /\ item \in [Thieves -> Task \cup {Null}]
  /\ got \in [Workers -> Task \cup {Null}]

Init ==
  /\ top = 0 /\ bottom = 0
  /\ buffers = <<EmptyBuffer(InitialCapacity)>>
  /\ pushed = 0
  /\ pc = [p \in Workers |-> "idle"]
  /\ b = [p \in Workers |-> 0] /\ t = [p \in Workers |-> 0]
  /\ buf = [p \in Thieves |-> 1]
  /\ item = [p \in Thieves |-> Null]
  /\ got = [p \in Workers |-> Null]

Goto(p, from, to) == pc[p] = from /\ pc' = [pc EXCEPT ![p] = to]

(* The locals of a finished operation are forgotten. *)
Forget(p) ==
  /\ b' = [b EXCEPT ![p] = 0] /\ t' = [t EXCEPT ![p] = 0]
  /\ IF p = Owner THEN UNCHANGED <<buf, item>>
                  ELSE buf' = [buf EXCEPT ![p] = 1] /\ item' = [item EXCEPT ![p] = Null]

Return(p, x) == got' = [got EXCEPT ![p] = x] /\ Forget(p)

-----------------------------------------------------------------------------
(* deque_push_bottom *)

(* The loads of bottom and top, and the test for a full buffer.            *)
PushLoad ==
  /\ pushed < MaxPush
  /\ b' = [b EXCEPT ![Owner] = bottom] /\ t' = [t EXCEPT ![Owner] = top]
  /\ Goto(Owner, "idle",
          IF bottom - top >= Capacity(Current) - 1 THEN "grow" ELSE "store")
  /\ UNCHANGED <<top, bottom, buffers, pushed, buf, item, got>>

GrowCopy ==                   \* mutation: the slots are copied without re-indexing
  /\ Goto(Owner, "grow", "store")
  /\ buffers' = Append(buffers, buffers[Current] \o EmptyBuffer(Capacity(Current)))
  /\ UNCHANGED <<top, bottom, pushed, locals, got>>

(* deque_grow: the new buffer is filled before it is published.            *)
Grow ==
  /\ Goto(Owner, "grow", "store")
  /\ LET capacity == 2 * Capacity(Current)
         copied   == {i % capacity : i \in top .. bottom - 1}
     IN buffers' = Append(buffers,
          [s \in 1 .. capacity |->
             IF s - 1 \in copied
             THEN At(Current, CHOOSE i \in top .. bottom - 1 : i % capacity = s - 1)
             ELSE Null])
  /\ UNCHANGED <<top, bottom, pushed, locals, got>>

PushStore ==
  /\ Goto(Owner, "store", "publish")
  /\ buffers' = [buffers EXCEPT ![Current][Slot(Current, b[Owner])] = pushed + 1]
  /\ pushed' = pushed + 1
  /\ UNCHANGED <<top, bottom, locals, got>>

PushPublish ==
  /\ Goto(Owner, "publish", "idle")
  /\ bottom' = b[Owner] + 1
  /\ Forget(Owner)
  /\ UNCHANGED <<top, buffers, pushed, got>>

-----------------------------------------------------------------------------
(* deque_pop_bottom *)

PopReserve ==
  /\ Goto(Owner, "idle", "poptop")
  /\ b' = [b EXCEPT ![Owner] = bottom - 1]
  /\ bottom' = bottom - 1
  /\ UNCHANGED <<top, buffers, pushed, t, buf, item, got>>

(* The load of top decides: more than one task, the last one, or none.     *)
PopMany ==
  /\ top < b[Owner]
  /\ Goto(Owner, "poptop", "idle")
  /\ Return(Owner, At(Current, b[Owner]))
  /\ UNCHANGED <<top, bottom, buffers, pushed>>

PopLast ==
  /\ top = b[Owner]
  /\ Goto(Owner, "poptop", "race")
  /\ t' = [t EXCEPT ![Owner] = top]
  /\ UNCHANGED <<top, bottom, buffers, pushed, b, buf, item, got>>

PopEmpty ==
  /\ top > b[Owner]
  /\ Goto(Owner, "poptop", "restore")
  /\ got' = [got EXCEPT ![Owner] = Null]
  /\ UNCHANGED <<top, bottom, buffers, pushed, locals>>

PopRaceUnchecked ==           \* mutation: the last task is taken without a compare
  /\ Goto(Owner, "race", "restore")
  /\ top' = t[Owner] + 1 /\ got' = [got EXCEPT ![Owner] = At(Current, b[Owner])]
  /\ UNCHANGED <<bottom, buffers, pushed, locals>>

(* The last task: the owner competes with the thieves for it.              *)
PopRace ==
  /\ Goto(Owner, "race", "restore")
  /\ IF top = t[Owner]
     THEN top' = top + 1 /\ got' = [got EXCEPT ![Owner] = At(Current, b[Owner])]
     ELSE UNCHANGED top /\ got' = [got EXCEPT ![Owner] = Null]
  /\ UNCHANGED <<bottom, buffers, pushed, locals>>

PopRestore ==
  /\ Goto(Owner, "restore", "idle")
  /\ bottom' = b[Owner] + 1
  /\ Forget(Owner)
  /\ UNCHANGED <<top, buffers, pushed, got>>

-----------------------------------------------------------------------------
(* deque_steal *)

StealTop(p) ==
  /\ Goto(p, "idle", "bottom")
  /\ t' = [t EXCEPT ![p] = top]
  /\ UNCHANGED <<top, bottom, buffers, pushed, b, buf, item, got>>

StealBottom(p) ==
  /\ pc[p] = "bottom" /\ t[p] < bottom
  /\ Goto(p, "bottom", "buffer")
  /\ UNCHANGED <<top, bottom, buffers, pushed, locals, got>>

StealNothing(p) ==
  /\ pc[p] = "bottom" /\ t[p] >= bottom
  /\ Goto(p, "bottom", "idle")
  /\ Return(p, Null)
  /\ UNCHANGED <<top, bottom, buffers, pushed>>

StealBuffer(p) ==
  /\ Goto(p, "buffer", "read")
  /\ buf' = [buf EXCEPT ![p] = Current]
  /\ UNCHANGED <<top, bottom, buffers, pushed, b, t, item, got>>

StealRead(p) ==
  /\ Goto(p, "read", "cas")
  /\ item' = [item EXCEPT ![p] = At(buf[p], t[p])]
  /\ UNCHANGED <<top, bottom, buffers, pushed, b, t, buf, got>>

StealCas(p) ==
  /\ Goto(p, "cas", "idle")
  /\ IF top = t[p] THEN top' = top + 1 /\ Return(p, item[p])
                   ELSE UNCHANGED top /\ Return(p, Null)
  /\ UNCHANGED <<bottom, buffers, pushed>>

-----------------------------------------------------------------------------
OwnerStep ==
  \/ PushLoad \/ Grow \/ PushStore \/ PushPublish
  \/ PopReserve \/ PopMany \/ PopLast \/ PopEmpty \/ PopRace \/ PopRestore

ThiefStep(p) ==
  \/ StealTop(p) \/ StealBottom(p) \/ StealNothing(p)
  \/ StealBuffer(p) \/ StealRead(p) \/ StealCas(p)

Next == OwnerStep \/ \E p \in Thieves : ThiefStep(p)

Spec == Init /\ [][Next]_vars

-----------------------------------------------------------------------------
(* The deque the accesses amount to: while the owner pops, the slot it has *)
(* reserved by lowering bottom still belongs to the deque.                 *)
Popping  == pc[Owner] \in {"poptop", "race", "restore"}
End      == IF Popping THEN bottom + 1 ELSE bottom
Contents == [i \in 1 .. End - top |-> At(Current, top + i - 1)]

Abstract == INSTANCE TaskDeque WITH contents <- Contents

(* The deque implements TaskDeque: every task pushed is popped or stolen   *)
(* once and only once, thieves get the oldest, the owner the newest, and   *)
(* the owner is told NULL only when nothing is left.                       *)
ImplementsDeque == Abstract!Spec

(* The order of the two indices, and a buffer that always has room for the *)
(* tasks between them: what makes the slots of different tasks different.  *)
IndicesInRange ==
  /\ top <= End
  /\ End - top <= Capacity(Current) - 1

(* The indices stay in range, and a thief whose compare-and-swap would     *)
(* succeed holds the task at the top: neither growth nor the owner's       *)
(* pushes have changed it under its hands.                                 *)
ReadIsFresh ==
  /\ IndicesInRange
  /\ \A p \in Thieves :
       pc[p] = "cas" /\ t[p] = top => top < End /\ item[p] = At(Current, top)
=============================================================================
