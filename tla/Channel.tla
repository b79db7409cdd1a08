------------------------------ MODULE Channel ------------------------------
(***************************************************************************)
(* The channel of runtime/coex_channel.c: a Vyukov queue (producers swap   *)
(* mpsc_tail and then link the node; the consumer follows the links from a *)
(* sentinel) with a mutex and a condition variable for a receiver that     *)
(* finds it empty.  An atomic access of the code is one action.            *)
(*                                                                         *)
(* Generated programs never register a task waiter (coex_channel_add_waiter*)
(* has no caller), so the waiter stack is empty: coex_channel_send's pop   *)
(* of it is a load that finds NULL, part of SendCheckBlocked.              *)
(*                                                                         *)
(* The linking store of a producer may be delayed past its later loads, as *)
(* a release store followed by an acquire load of another variable may be  *)
(* (on x86 too: the store waits in the store buffer); the swap of the tail *)
(* and the mutex drain the buffer.                                         *)
(***************************************************************************)
EXTENDS Integers, SequencesExt

CONSTANTS
  Producers, Receivers,
  MaxSend,     \* bound: how many values are sent
  NoOne        \* no holder of the mutex

ASSUME BoundAssumption  == MaxSend \in Nat \ {0}
ASSUME ThreadAssumption == Producers \cap Receivers = {} /\ NoOne \notin Producers \cup Receivers

Stub   == 0                 \* the sentinel inside the channel
Node   == 1 .. MaxSend      \* the nodes in the order of their allocation
Null   == MaxSend + 1
Thread == Producers \cup Receivers

VARIABLES
  next,      \* the link of each node
  head,      \* ch->mpsc_head
  tail,      \* ch->mpsc_tail
  blocking,  \* ch->blocking_count
  mutex,     \* the holder of ch->block_mutex
  pc,        \* where each thread is
  allocated, \* nodes 1 .. allocated have been allocated
  node,      \* the node of a producer, or the `next` a receiver loaded
  old,       \* the `prev` of a producer, or the `head` a receiver loaded
  pending,   \* the linking store in a producer's buffer: <<node, its link>>
  mode,      \* which call of the pop a receiver is in
  early,     \* history: blocking_count was tested, and 0, before the link was visible
  freed,     \* nodes whose memory has been freed
  order,     \* history: the nodes in the order of the swaps of the tail
  received   \* history: the nodes whose values were received, in order

queue  == <<next, head, tail>>
locals == <<node, old, mode>>
vars   == <<queue, blocking, mutex, pc, allocated, locals, pending, early, freed, order, received>>

TypeOK ==
  /\ next \in [{Stub} \cup Node -> Node \cup {Null}]
  /\ head \in {Stub} \cup Node /\ tail \in {Stub} \cup Node
  /\ blocking \in Nat /\ mutex \in Thread \cup {NoOne}
  /\ pc \in [Thread -> {"idle", "swap", "link", "check", "lock", "signal",
                        "head", "next", "advance", "free", "enter", "sleep", "asleep",
                        "leave", "unlock"}]
  /\ allocated \in 0 .. MaxSend
  /\ node \in [Thread -> Node \cup {Null}]
  /\ old \in [Thread -> {Stub} \cup Node]
  /\ pending \in [Producers -> {<<>>} \cup (({Stub} \cup Node) \X Node)]
  /\ mode \in [Receivers -> {"try", "fast", "block"}]
  /\ early \in BOOLEAN /\ freed \subseteq Node
  /\ order \in Seq(Node) /\ received \in Seq(Node)

Init ==
  /\ next = [n \in {Stub} \cup Node |-> Null] /\ head = Stub /\ tail = Stub
  /\ blocking = 0 /\ mutex = NoOne
  /\ pc = [x \in Thread |-> "idle"]
  /\ allocated = 0
  /\ node = [x \in Thread |-> Null] /\ old = [x \in Thread |-> Stub]
  /\ pending = [p \in Producers |-> <<>>]
  /\ mode = [r \in Receivers |-> "try"]
  /\ early = FALSE /\ freed = {} /\ order = <<>> /\ received = <<>>

Goto(x, from, to) == pc[x] = from /\ pc' = [pc EXCEPT ![x] = to]

-----------------------------------------------------------------------------
(* coex_channel_send *)

SendAllocate(p) ==
  /\ Goto(p, "idle", "swap") /\ allocated < MaxSend
  /\ allocated' = allocated + 1
  /\ node' = [node EXCEPT ![p] = allocated + 1]
  /\ UNCHANGED <<queue, blocking, mutex, old, mode, pending, early, freed, order, received>>

SendSwapTail(p) ==
  /\ Goto(p, "swap", "link") /\ pending[p] = <<>>
  /\ old' = [old EXCEPT ![p] = tail] /\ tail' = node[p]
  /\ order' = Append(order, node[p])
  /\ UNCHANGED <<next, head, blocking, mutex, allocated, node, mode, pending, early, freed, received>>

(* "Linearization point: prev->next = node makes value visible": at once,  *)
(* or when the store leaves the producer's buffer.                         *)
SendLink(p) ==
  /\ Goto(p, "link", "check")
  /\ \/ next' = [next EXCEPT ![old[p]] = node[p]] /\ UNCHANGED pending
     \/ pending' = [pending EXCEPT ![p] = <<old[p], node[p]>>] /\ UNCHANGED next
  /\ UNCHANGED <<head, tail, blocking, mutex, allocated, locals, early, freed, order, received>>

Drain(p) ==
  /\ pending[p] # <<>> /\ pending' = [pending EXCEPT ![p] = <<>>]
  /\ next' = [next EXCEPT ![pending[p][1]] = pending[p][2]]
  /\ UNCHANGED <<head, tail, blocking, mutex, pc, allocated, locals, early, freed, order, received>>

SendUnsignalled(p) ==         \* mutation: a blocked receiver is not looked for
  /\ Goto(p, "check", "idle")
  /\ UNCHANGED <<queue, blocking, mutex, allocated, locals, pending, early, freed, order, received>>

SendCheckBlocked(p) ==
  /\ Goto(p, "check", IF blocking > 0 THEN "lock" ELSE "idle")
  /\ early' = (early \/ (blocking = 0 /\ pending[p] # <<>>))
  /\ UNCHANGED <<queue, blocking, mutex, allocated, locals, pending, freed, order, received>>

SendLock(p) ==
  /\ Goto(p, "lock", "signal") /\ mutex = NoOne /\ pending[p] = <<>>
  /\ mutex' = p
  /\ UNCHANGED <<queue, blocking, allocated, locals, pending, early, freed, order, received>>

(* pthread_cond_signal wakes one receiver, which then needs the mutex.     *)
SendSignal(p) ==
  /\ pc[p] = "signal" /\ mutex' = NoOne
  /\ LET pcs == [pc EXCEPT ![p] = "idle"]
     IN IF \E r \in Receivers : pc[r] = "asleep"
        THEN \E r \in Receivers : pc[r] = "asleep" /\ pc' = [pcs EXCEPT ![r] = "lock"]
        ELSE pc' = pcs
  /\ UNCHANGED <<queue, blocking, allocated, locals, pending, early, freed, order, received>>

-----------------------------------------------------------------------------
(* coex_channel_try_receive, coex_channel_receive *)

Begin(r, m) ==
  /\ Goto(r, "idle", "head") /\ mode' = [mode EXCEPT ![r] = m]
  /\ UNCHANGED <<queue, blocking, mutex, allocated, node, old, pending, early, freed, order, received>>

TryReceive(r) == Begin(r, "try")
Receive(r)    == Begin(r, "fast")

PopLoadHead(r) ==
  /\ Goto(r, "head", "next") /\ old' = [old EXCEPT ![r] = head]
  /\ UNCHANGED <<queue, blocking, mutex, allocated, node, mode, pending, early, freed, order, received>>

(* No link: empty, or a producer has swapped the tail and not linked yet.  *)
Empty(r) ==
  CASE mode[r] = "try"   -> "idle"
    [] mode[r] = "fast"  -> "lock"
    [] mode[r] = "block" -> "sleep"

PopLoadNext(r) ==
  /\ Goto(r, "next", IF next[old[r]] = Null THEN Empty(r) ELSE "advance")
  /\ node' = [node EXCEPT ![r] = next[old[r]]]
  /\ UNCHANGED <<queue, blocking, mutex, allocated, old, mode, pending, early, freed, order, received>>

AdvanceToTail(r) ==           \* mutation: the head skips to the tail
  /\ Goto(r, "advance", "free") /\ head' = tail /\ node' = [node EXCEPT ![r] = tail]
  /\ UNCHANGED <<next, tail, blocking, mutex, allocated, old, mode, pending, early, freed, order,
                 received>>

PopAdvance(r) ==
  /\ Goto(r, "advance", "free") /\ head' = node[r]
  /\ UNCHANGED <<next, tail, blocking, mutex, allocated, locals, pending, early, freed, order, received>>

FreeNew(r) ==                 \* mutation: the node that was popped is freed
  /\ Goto(r, "free", IF mode[r] = "block" THEN "leave" ELSE "idle")
  /\ freed' = freed \cup {node[r]}
  /\ received' = Append(received, node[r])
  /\ UNCHANGED <<queue, blocking, mutex, allocated, locals, pending, early, order>>

(* The old sentinel is freed, unless it is the stub, and the value of the  *)
(* new one is read.                                                        *)
PopFree(r) ==
  /\ Goto(r, "free", IF mode[r] = "block" THEN "leave" ELSE "idle")
  /\ freed' = IF old[r] = Stub THEN freed ELSE freed \cup {old[r]}
  /\ received' = Append(received, node[r])
  /\ UNCHANGED <<queue, blocking, mutex, allocated, locals, pending, early, order>>

(* The slow path; a receiver that was woken comes through here as well.    *)
ReceiveLock(r) ==
  /\ Goto(r, "lock", IF mode[r] = "block" THEN "head" ELSE "enter") /\ mutex = NoOne
  /\ mutex' = r
  /\ UNCHANGED <<queue, blocking, allocated, locals, pending, early, freed, order, received>>

ReceiveEnter(r) ==
  /\ Goto(r, "enter", "head") /\ mode' = [mode EXCEPT ![r] = "block"]
  /\ blocking' = blocking + 1
  /\ UNCHANGED <<queue, mutex, allocated, node, old, pending, early, freed, order, received>>

ReceiveSleep(r) ==
  /\ Goto(r, "sleep", "asleep") /\ mutex' = NoOne
  /\ UNCHANGED <<queue, blocking, allocated, locals, pending, early, freed, order, received>>

SpuriousWakeup(r) ==
  /\ Goto(r, "asleep", "lock")
  /\ UNCHANGED <<queue, blocking, mutex, allocated, locals, pending, early, freed, order, received>>

ReceiveLeave(r) ==
  /\ Goto(r, "leave", "unlock") /\ blocking' = blocking - 1
  /\ UNCHANGED <<queue, mutex, allocated, locals, pending, early, freed, order, received>>

ReceiveUnlock(r) ==
  /\ Goto(r, "unlock", "idle") /\ mutex' = NoOne
  /\ UNCHANGED <<queue, blocking, allocated, locals, pending, early, freed, order, received>>

-----------------------------------------------------------------------------
SendStep(p) ==
  SendSwapTail(p) \/ SendLink(p) \/ SendCheckBlocked(p) \/ SendLock(p) \/ SendSignal(p)

ReceiveStep(r) ==
  \/ PopLoadHead(r) \/ PopLoadNext(r) \/ PopAdvance(r) \/ PopFree(r)
  \/ ReceiveLock(r) \/ ReceiveEnter(r) \/ ReceiveSleep(r) \/ ReceiveLeave(r) \/ ReceiveUnlock(r)

Next ==
  \/ \E p \in Producers : SendAllocate(p) \/ SendStep(p) \/ Drain(p)
  \/ \E r \in Receivers : TryReceive(r) \/ Receive(r) \/ ReceiveStep(r) \/ SpuriousWakeup(r)

(* Threads are scheduled, a buffered store is drained, and a thread that   *)
(* keeps asking for the mutex gets it.  Nobody has to send or receive, and *)
(* no wakeup is spurious for ever.                                         *)
Fairness ==
  /\ \A p \in Producers : WF_vars(SendStep(p)) /\ SF_vars(SendLock(p)) /\ WF_vars(Drain(p))
  /\ \A r \in Receivers : WF_vars(ReceiveStep(r)) /\ SF_vars(ReceiveLock(r))

Spec     == Init /\ [][Next]_vars
FairSpec == Spec /\ Fairness

-----------------------------------------------------------------------------
(* Properties *)

(* "FIFO order preserved": the values come out once each, in the order in  *)
(* which the producers swapped the tail.  (coex_channel.h:9)               *)
FifoOrder == IsPrefix(received, order)

(* A sentinel is freed only when nobody links to it or starts from it any  *)
(* more: a producer's `prev`, the head, the tail are live nodes.  (The     *)
(* state is well typed besides.)                                           *)
LinksAreLive ==
  /\ TypeOK
  /\ {head, tail} \cap freed = {}
  /\ \A p \in Producers : /\ pc[p] = "link" => old[p] \notin freed
                         /\ pending[p] # <<>> => pending[p][1] \notin freed

(* A receiver that waits in coex_channel_receive gets a value if there is  *)
(* one, and a value whose producer was slow to link it is waited for: "the *)
(* condvar while-loop retries" (coex_channel.c:25).  The one exception is  *)
(* a producer that tests blocking_count before its own link is visible.    *)
ReceiveReturns ==
  \A r \in Receivers :
    (pc[r] # "idle" /\ Len(order) > Len(received)) ~> (pc[r] = "idle" \/ early)

(* "If blocking receivers exist, signals condvar" (coex_channel.h:86):     *)
(* the same without the exception.                                         *)
BlockedReceiverWoken ==
  \A r \in Receivers :
    (pc[r] # "idle" /\ Len(order) > Len(received)) ~> (pc[r] = "idle")

(* The worker pool of coex_specification_revised.txt:597-626, several      *)
(* tasks receiving from one channel: no value goes to two of them.         *)
ReceivedOnce == \A i, j \in DOMAIN received : received[i] = received[j] => i = j
=============================================================================
