--------------------------- MODULE Channel_proofs ---------------------------
(***************************************************************************)
(* Proofs about the channel, for every set of producers and any number of  *)
(* messages: with one consumer at a time, as the queue requires, values    *)
(* come out in the order of the swaps and no link is written to, or read   *)
(* from, a node whose memory was freed.                                    *)
(***************************************************************************)
EXTENDS Channel, SequenceTheorems, TLAPS

(* "MPSC": the queue has a single consumer.  (coex_channel.h:4)            *)
SingleConsumer == \A r, s \in Receivers : r = s

(* The queue, once every link is written: the sentinel, then the nodes in  *)
(* the order of the swaps.  The consumer is ahead of what it has received  *)
(* between advancing the head and reading the value.                       *)
At(nodes, i) == IF i = 0 THEN Stub ELSE nodes[i]
Moved        == IF \E r \in Receivers : pc[r] = "free" THEN 1 ELSE 0
HeadPos      == Len(received) + Moved

(* The link that a producer has still to make visible, if any.             *)
Due(p) == IF pc[p] = "link" THEN <<old[p], node[p]>> ELSE pending[p]

(* A node is new until the tail is swapped for it, and enters the queue    *)
(* once.                                                                   *)
NodesDistinct ==
  /\ \A i \in 1 .. Len(order) : order[i] <= allocated
  /\ \A i, j \in 1 .. Len(order) : order[i] = order[j] => i = j
  /\ \A p \in Producers : pc[p] = "swap" =>
        /\ node[p] \in 1 .. allocated
        /\ \A i \in 1 .. Len(order) : order[i] # node[p]
  /\ \A p, q \in Producers : p # q /\ pc[p] = "swap" /\ pc[q] = "swap" => node[p] # node[q]

(* Each node links to the next in the queue or, until its producer's store *)
(* is visible, to nothing; a link that is due is of two neighbours, and no *)
(* two producers owe the same.                                             *)
LinksFollowOrder ==
  /\ tail = At(order, Len(order))
  /\ \A n \in Node : next[n] # Null => \E i \in 1 .. Len(order) : n = order[i]
  /\ \A i \in 0 .. Len(order) :
        next[At(order, i)] # Null => i < Len(order) /\ next[At(order, i)] = order[i + 1]
  /\ \A p \in Producers :
        /\ pc[p] = "link" => pending[p] = <<>>
        /\ Due(p) # <<>> => \E i \in 0 .. Len(order) - 1 :
                              Due(p) = <<At(order, i), order[i + 1]>> /\ next[At(order, i)] = Null
  /\ \A p, q \in Producers : p # q /\ Due(p) # <<>> => Due(p) # Due(q)

(* The consumer follows the links, behind the head nothing is missing, and *)
(* only what is behind the head is freed.                                  *)
ConsumerFollows ==
  /\ HeadPos <= Len(order) /\ head = At(order, HeadPos)
  /\ \A i \in 1 .. Len(received) : received[i] = order[i]
  /\ \A i \in 0 .. HeadPos - 1 : next[At(order, i)] # Null
  /\ \A n \in freed : \E i \in 1 .. HeadPos - 1 : n = order[i]
  /\ \A r \in Receivers :
        /\ pc[r] \in {"next", "advance"} => old[r] = head
        /\ pc[r] = "advance" => node[r] # Null /\ node[r] = next[head]
        /\ pc[r] = "free" => node[r] = head /\ old[r] = At(order, HeadPos - 1)

SenderPc   == {"idle", "swap", "link", "check", "lock", "signal"}
ReceiverPc == {"idle", "head", "next", "advance", "free", "lock", "enter", "sleep", "asleep",
               "leave", "unlock"}
Slow(r)    == mode[r] = "block" /\ pc[r] \notin {"idle", "unlock"}

(* blocking_count counts the receiver that is on the slow path.            *)
BlockingExact ==
  /\ \A p \in Producers : pc[p] \in SenderPc
  /\ \A r \in Receivers :
        /\ pc[r] \in ReceiverPc /\ blocking = IF Slow(r) THEN 1 ELSE 0
        /\ pc[r] \in {"sleep", "asleep", "leave"} => mode[r] = "block"
        /\ pc[r] = "lock" => mode[r] \in {"fast", "block"}
        /\ pc[r] = "enter" => mode[r] = "fast"

(* The inductive invariant.                                                *)
IInv == TypeOK /\ NodesDistinct /\ LinksFollowOrder /\ ConsumerFollows /\ BlockingExact

-----------------------------------------------------------------------------
(* The queue *)

(* What Append does to a sequence of nodes.                                *)
LEMMA AppendNode ==
  ASSUME NEW s \in Seq(Node), NEW n \in Node
  PROVE  /\ Append(s, n) \in Seq(Node) /\ Len(Append(s, n)) = Len(s) + 1
         /\ \A i \in 1 .. Len(s) : Append(s, n)[i] = s[i]
         /\ Append(s, n)[Len(s) + 1] = n
  OBVIOUS

(* The places of the queue hold distinct nodes, the first of them the      *)
(* sentinel.                                                               *)
LEMMA PlacesDistinct ==
  ASSUME TypeOK, NodesDistinct
  PROVE  /\ \A i \in 0 .. Len(order) : At(order, i) \in {Stub} \cup Node
         /\ \A i \in 1 .. Len(order) : At(order, i) = order[i] /\ order[i] \in Node
         /\ \A i, j \in 0 .. Len(order) : At(order, i) = At(order, j) => i = j
<1>1. Len(order) \in Nat /\ \A i \in 1 .. Len(order) : order[i] \in Node
  BY DEF TypeOK
<1>2. \A i \in 0 .. Len(order) : i = 0 \/ i \in 1 .. Len(order)
  BY <1>1
<1>3. \A i \in 1 .. Len(order) : At(order, i) = order[i]
  BY <1>1 DEF At
<1>4. At(order, 0) = Stub /\ Stub \notin Node
  BY DEF At, Stub, Node
<1> QED
  BY <1>1, <1>2, <1>3, <1>4 DEF NodesDistinct

(* A step of a receiver, or of a producer that is neither about to swap    *)
(* the tail nor about to write a link, leaves the queue as it is.          *)
LEMMA SameQueue ==
  ASSUME NodesDistinct, LinksFollowOrder,
         UNCHANGED <<next, tail, order, allocated, pending>>,
         \A p \in Producers : pc[p] \in {"swap", "link"} \/ pc'[p] \in {"swap", "link"} =>
                                pc'[p] = pc[p] /\ node'[p] = node[p] /\ old'[p] = old[p]
  PROVE  NodesDistinct' /\ LinksFollowOrder'
<1>1. NodesDistinct'
  BY DEF NodesDistinct
<1>2. \A i : At(order', i) = At(order, i)
  BY DEF At
<1>3. \A p \in Producers : Due(p)' = Due(p)
  BY DEF Due
<1>4. LinksFollowOrder'
  BY <1>2, <1>3 DEF LinksFollowOrder
<1> QED
  BY <1>1, <1>4

(* The tail is swapped for a new node: one more place, and a link that is  *)
(* due before it.                                                          *)
LEMMA SwapKeepsQueue ==
  ASSUME TypeOK, NodesDistinct, LinksFollowOrder, NEW p \in Producers, SendSwapTail(p)
  PROVE  NodesDistinct' /\ LinksFollowOrder'
<1> DEFINE n == node[p]
           L == Len(order)
<1>1. /\ pc[p] = "swap" /\ pc' = [pc EXCEPT ![p] = "link"] /\ pending[p] = <<>>
      /\ old' = [old EXCEPT ![p] = tail] /\ tail' = n /\ order' = Append(order, n)
      /\ UNCHANGED <<next, allocated, node, pending>>
  BY DEF SendSwapTail, Goto
<1>2. /\ n \in Node /\ n <= allocated /\ \A i \in 1 .. L : order[i] # n
  BY <1>1, BoundAssumption DEF NodesDistinct, TypeOK, Node
<1>3. L \in Nat /\ Len(order') = L + 1 /\ order'[L + 1] = n /\ \A i \in 1 .. L : order'[i] = order[i]
  BY <1>1, <1>2, AppendNode DEF TypeOK
<1>4. /\ pc'[p] = "link" /\ old'[p] = tail /\ node'[p] = n
      /\ \A q \in Producers \ {p} : pc'[q] = pc[q] /\ old'[q] = old[q] /\ node'[q] = node[q]
  BY <1>1 DEF TypeOK, Thread
<1>5. /\ \A i \in 0 .. L : At(order', i) = At(order, i)
      /\ At(order', L + 1) = n
  BY <1>3 DEF At
<1>6. NodesDistinct'
  <2>1. \A i \in 1 .. L + 1 : order'[i] <= allocated
    BY <1>2, <1>3 DEF NodesDistinct
  <2>2. \A i, j \in 1 .. L + 1 : order'[i] = order'[j] => i = j
    BY <1>2, <1>3 DEF NodesDistinct
  <2>3. \A q \in Producers : pc'[q] = "swap" =>
          /\ node'[q] \in 1 .. allocated
          /\ \A i \in 1 .. L + 1 : order'[i] # node'[q]
    BY <1>1, <1>3, <1>4 DEF NodesDistinct
  <2>4. \A q, r \in Producers : q # r /\ pc'[q] = "swap" /\ pc'[r] = "swap" => node'[q] # node'[r]
    BY <1>4 DEF NodesDistinct
  <2> QED
    BY <1>1, <1>3, <2>1, <2>2, <2>3, <2>4 DEF NodesDistinct
<1>7. LinksFollowOrder'
  <2>1. tail' = At(order', Len(order'))
    BY <1>1, <1>3, <1>5
  <2>2. next[n] = Null /\ next[tail] = Null
    BY <1>2, <1>3 DEF LinksFollowOrder
  <2>3. \A m \in Node : next[m] # Null => \E i \in 1 .. L + 1 : m = order'[i]
    BY <1>3 DEF LinksFollowOrder
  <2>4. \A i \in 0 .. L + 1 : next[At(order', i)] # Null => i < L + 1 /\ next[At(order', i)] = order'[i + 1]
    BY <1>3, <1>5, <2>2 DEF LinksFollowOrder
  <2>5. Due(p)' = <<At(order, L), n>> /\ Due(p) = <<>>
    BY <1>1, <1>4 DEF Due, LinksFollowOrder
  <2>6. \A q \in Producers \ {p} : Due(q)' = Due(q)
    BY <1>1, <1>4 DEF Due
  <2>7. \A q \in Producers : Due(q)' # <<>> => \E i \in 0 .. L :
          Due(q)' = <<At(order', i), order'[i + 1]>> /\ next[At(order', i)] = Null
    <3> SUFFICES ASSUME NEW q \in Producers, Due(q)' # <<>>
                 PROVE  \E i \in 0 .. L : Due(q)' = <<At(order', i), order'[i + 1]>> /\ next[At(order', i)] = Null
      OBVIOUS
    <3>1. CASE q = p
      <4>1. Due(q)' = <<At(order', L), order'[L + 1]>> /\ next[At(order', L)] = Null
        BY <3>1, <2>1, <2>2, <2>5, <1>3, <1>5 DEF LinksFollowOrder
      <4> QED
        BY <4>1, <1>3
    <3>2. CASE q # p
      <4>1. PICK i \in 0 .. L - 1 : Due(q) = <<At(order, i), order[i + 1]>> /\ next[At(order, i)] = Null
        BY <3>2, <2>6 DEF LinksFollowOrder
      <4>2. At(order', i) = At(order, i) /\ order'[i + 1] = order[i + 1] /\ i \in 0 .. L
        BY <4>1, <1>3, <1>5
      <4> QED
        BY <3>2, <2>6, <4>1, <4>2
    <3> QED
      BY <3>1, <3>2
  <2>8. \A q, r \in Producers : q # r /\ Due(q)' # <<>> => Due(q)' # Due(r)'
    <3>1. \A q \in Producers \ {p} : Due(q)' # <<At(order, L), n>>
      <4> SUFFICES ASSUME NEW q \in Producers \ {p}, Due(q) = <<At(order, L), n>>
                   PROVE  FALSE
        BY <2>6
      <4>1. Due(q) # <<>>
        OBVIOUS
      <4>2. PICK i \in 0 .. L - 1 : Due(q) = <<At(order, i), order[i + 1]>>
        BY <4>1 DEF LinksFollowOrder
      <4> QED
        BY <4>2, <1>2, <1>3
    <3> QED
      BY <2>5, <2>6, <3>1 DEF LinksFollowOrder
  <2>9. \A q \in Producers : pc'[q] = "link" => pending'[q] = <<>>
    BY <1>1, <1>4 DEF LinksFollowOrder
  <2> QED
    BY <1>1, <1>3, <2>1, <2>3, <2>4, <2>7, <2>8, <2>9 DEF LinksFollowOrder
<1> QED
  BY <1>6, <1>7

(* A link that was due becomes visible.                                    *)
LEMMA LinkKeepsQueue ==
  ASSUME TypeOK, NodesDistinct, LinksFollowOrder, NEW p \in Producers, Due(p) # <<>>,
         next' = [next EXCEPT ![Due(p)[1]] = Due(p)[2]],
         UNCHANGED <<tail, order, allocated, node>>,
         Due(p)' = <<>>, \A q \in Producers \ {p} : Due(q)' = Due(q),
         \A q \in Producers : /\ pc'[q] = "swap" => pc[q] = "swap"
                              /\ pc'[q] = "link" => pending'[q] = <<>>
  PROVE  /\ NodesDistinct' /\ LinksFollowOrder'
         /\ \A n \in {Stub} \cup Node : next[n] # Null => next'[n] = next[n]
<1> DEFINE L == Len(order)
<1>1. L \in Nat /\ \A i : At(order', i) = At(order, i)
  BY DEF At, TypeOK
<1>2. PICK k \in 0 .. L - 1 : Due(p) = <<At(order, k), order[k + 1]>> /\ next[At(order, k)] = Null
  BY DEF LinksFollowOrder
<1>3. next' = [next EXCEPT ![At(order, k)] = order[k + 1]]
  BY <1>2
<1>4. /\ At(order, k) \in {Stub} \cup Node /\ order[k + 1] \in Node
      /\ \A i \in 0 .. L : At(order, i) = At(order, k) => i = k
  BY <1>1, PlacesDistinct
<1>5. /\ next'[At(order, k)] = order[k + 1]
      /\ \A n \in {Stub} \cup Node : n # At(order, k) => next'[n] = next[n]
  BY <1>3, <1>4 DEF TypeOK
<1>6. \A n \in {Stub} \cup Node : next[n] # Null => next'[n] = next[n]
  BY <1>2, <1>5
<1>7. NodesDistinct'
  BY DEF NodesDistinct
<1>8. \A n \in Node : next'[n] # Null => \E i \in 1 .. L : n = order[i]
  <2> SUFFICES ASSUME NEW n \in Node, next'[n] # Null
               PROVE  \E i \in 1 .. L : n = order[i]
    OBVIOUS
  <2>1. CASE n = At(order, k)
    <3>1. k # 0
      BY <2>1 DEF At, Stub, Node
    <3> QED
      BY <2>1, <3>1, <1>1 DEF At
  <2>2. CASE n # At(order, k)
    BY <2>2, <1>5 DEF LinksFollowOrder
  <2> QED
    BY <2>1, <2>2
<1>9. \A i \in 0 .. L : next'[At(order, i)] # Null => i < L /\ next'[At(order, i)] = order[i + 1]
  <2> SUFFICES ASSUME NEW i \in 0 .. L, next'[At(order, i)] # Null
               PROVE  i < L /\ next'[At(order, i)] = order[i + 1]
    OBVIOUS
  <2>1. CASE i = k
    BY <2>1, <1>5, <1>1
  <2>2. CASE i # k
    <3>1. next'[At(order, i)] = next[At(order, i)]
      BY <2>2, <1>4, <1>5, PlacesDistinct
    <3> QED
      BY <3>1 DEF LinksFollowOrder
  <2> QED
    BY <2>1, <2>2
<1>10. \A q \in Producers : Due(q)' # <<>> => \E i \in 0 .. L - 1 :
          Due(q)' = <<At(order, i), order[i + 1]>> /\ next'[At(order, i)] = Null
  <2> SUFFICES ASSUME NEW q \in Producers, Due(q)' # <<>>
               PROVE  \E i \in 0 .. L - 1 : Due(q)' = <<At(order, i), order[i + 1]>> /\ next'[At(order, i)] = Null
    OBVIOUS
  <2>1. q # p /\ Due(q)' = Due(q)
    OBVIOUS
  <2>2. PICK i \in 0 .. L - 1 : Due(q) = <<At(order, i), order[i + 1]>> /\ next[At(order, i)] = Null
    BY <2>1 DEF LinksFollowOrder
  <2>3. Due(q) # Due(p)
    BY <2>1 DEF LinksFollowOrder
  <2>4. i # k
    BY <2>2, <2>3, <1>2
  <2>5. next'[At(order, i)] = next[At(order, i)]
    BY <2>4, <1>1, <1>4, <1>5, PlacesDistinct
  <2> QED
    BY <2>1, <2>2, <2>5
<1>11. \A q, r \in Producers : q # r /\ Due(q)' # <<>> => Due(q)' # Due(r)'
  BY DEF LinksFollowOrder
<1>12. LinksFollowOrder'
  BY <1>1, <1>8, <1>9, <1>10, <1>11 DEF LinksFollowOrder
<1> QED
  BY <1>6, <1>7, <1>12

(* Every step keeps the queue.                                             *)
LEMMA QueueStep ==
  ASSUME TypeOK, NodesDistinct, LinksFollowOrder, BlockingExact, [Next]_vars
  PROVE  /\ NodesDistinct' /\ LinksFollowOrder'
         /\ \A n \in {Stub} \cup Node : next[n] # Null => next'[n] = next[n]
         /\ Len(order) <= Len(order') /\ \A i \in 1 .. Len(order) : order'[i] = order[i]
<1> DEFINE Goal == /\ NodesDistinct' /\ LinksFollowOrder'
                   /\ \A n \in {Stub} \cup Node : next[n] # Null => next'[n] = next[n]
                   /\ Len(order) <= Len(order') /\ \A i \in 1 .. Len(order) : order'[i] = order[i]
<1>a. Len(order) \in Nat
  BY DEF TypeOK
<1> USE ThreadAssumption, <1>a DEF TypeOK, Thread
<1>1. ASSUME NEW p \in Producers, SendAllocate(p) PROVE Goal
  <2>1. /\ pc[p] = "idle" /\ pc' = [pc EXCEPT ![p] = "swap"] /\ allocated' = allocated + 1
        /\ node' = [node EXCEPT ![p] = allocated + 1]
        /\ UNCHANGED <<next, tail, old, pending, order>> /\ allocated < MaxSend
    BY <1>1 DEF SendAllocate, Goto, queue
  <2>2. /\ pc'[p] = "swap" /\ node'[p] = allocated + 1
        /\ \A q \in Producers \ {p} : pc'[q] = pc[q] /\ node'[q] = node[q]
    BY <2>1
  <2>3. NodesDistinct'
    <3>1. \A i \in 1 .. Len(order) : order[i] <= allocated
      BY DEF NodesDistinct
    <3>2. \A i \in 1 .. Len(order) : order[i] \in Nat
      BY BoundAssumption DEF Node
    <3>3. \A i \in 1 .. Len(order) : order[i] <= allocated + 1
      BY <3>1, <3>2
    <3>4. \A q \in Producers : pc'[q] = "swap" =>
            /\ node'[q] \in 1 .. allocated + 1
            /\ \A i \in 1 .. Len(order) : order[i] # node'[q]
      BY <2>2, <3>1, <3>2 DEF NodesDistinct
    <3>5. \A q \in Producers \ {p} : pc'[q] = "swap" => node'[q] # node'[p]
      BY <2>2 DEF NodesDistinct
    <3>6. \A q, r \in Producers : q # r /\ pc'[q] = "swap" /\ pc'[r] = "swap" => node'[q] # node'[r]
      BY <2>2, <3>5 DEF NodesDistinct
    <3> QED
      BY <2>1, <3>3, <3>4, <3>6 DEF NodesDistinct
  <2>4. \A q \in Producers : Due(q)' = Due(q) /\ (pc'[q] = "link" => pc[q] = "link")
    BY <2>1, <2>2 DEF Due
  <2>5. LinksFollowOrder'
    BY <2>1, <2>4 DEF LinksFollowOrder
  <2> QED
    BY <2>1, <2>3, <2>5
<1>2. ASSUME NEW p \in Producers, SendSwapTail(p) PROVE Goal
  <2>1. node[p] \in Node /\ order' = Append(order, node[p]) /\ next' = next
    BY <1>2, BoundAssumption DEF SendSwapTail, Goto, NodesDistinct, Node
  <2>2. Len(order') = Len(order) + 1 /\ \A i \in 1 .. Len(order) : order'[i] = order[i]
    BY <2>1, AppendNode
  <2> QED
    BY <1>2, <2>1, <2>2, SwapKeepsQueue
<1>3. ASSUME NEW p \in Producers, SendLink(p) PROVE Goal
  <2>1. /\ pc[p] = "link" /\ pc' = [pc EXCEPT ![p] = "check"]
        /\ UNCHANGED <<tail, allocated, node, old, order>>
        /\ pending[p] = <<>> /\ Due(p) = <<old[p], node[p]>>
    BY <1>3 DEF SendLink, Goto, locals, Due, LinksFollowOrder
  <2>2. Due(p) # <<>> /\ Due(p)[1] = old[p] /\ Due(p)[2] = node[p]
    BY <2>1
  <2>3. pc'[p] = "check" /\ \A q \in Producers \ {p} : pc'[q] = pc[q]
    BY <2>1
  <2>4. CASE next' = [next EXCEPT ![old[p]] = node[p]] /\ UNCHANGED pending
    <3>1. Due(p)' = <<>> /\ \A q \in Producers \ {p} : Due(q)' = Due(q)
      BY <2>1, <2>3, <2>4 DEF Due
    <3>2. \A q \in Producers : /\ pc'[q] = "swap" => pc[q] = "swap"
                               /\ pc'[q] = "link" => pending'[q] = <<>>
      BY <2>3, <2>4 DEF LinksFollowOrder
    <3>3. next' = [next EXCEPT ![Due(p)[1]] = Due(p)[2]]
      BY <2>2, <2>4
    <3>4. /\ NodesDistinct' /\ LinksFollowOrder'
          /\ \A n \in {Stub} \cup Node : next[n] # Null => next'[n] = next[n]
      BY <2>1, <2>2, <3>1, <3>2, <3>3, LinkKeepsQueue
    <3> QED
      BY <2>1, <3>4
  <2>5. CASE pending' = [pending EXCEPT ![p] = <<old[p], node[p]>>] /\ UNCHANGED next
    <3>1. pending'[p] = <<old[p], node[p]>> /\ \A q \in Producers \ {p} : pending'[q] = pending[q]
      BY <2>5
    <3>2. \A q \in Producers : Due(q)' = Due(q)
      BY <2>1, <2>3, <3>1 DEF Due
    <3>3. \A q \in Producers : /\ pc'[q] = "swap" => pc[q] = "swap"
                               /\ pc'[q] = "link" => pending'[q] = <<>>
      BY <2>3, <3>1 DEF LinksFollowOrder
    <3>4. NodesDistinct'
      BY <2>1, <3>3 DEF NodesDistinct
    <3>5. LinksFollowOrder'
      BY <2>1, <2>5, <3>2, <3>3 DEF LinksFollowOrder
    <3> QED
      BY <2>1, <2>5, <3>4, <3>5
  <2> QED
    BY <1>3, <2>4, <2>5 DEF SendLink
<1>4. ASSUME NEW p \in Producers, Drain(p) PROVE Goal
  <2>1. /\ pending[p] # <<>> /\ pending' = [pending EXCEPT ![p] = <<>>]
        /\ next' = [next EXCEPT ![pending[p][1]] = pending[p][2]]
        /\ UNCHANGED <<tail, pc, allocated, node, old, order>>
    BY <1>4 DEF Drain, locals
  <2>2. pc[p] # "link" /\ Due(p) = pending[p]
    BY <2>1 DEF LinksFollowOrder, Due
  <2>3. pending'[p] = <<>> /\ \A q \in Producers \ {p} : pending'[q] = pending[q]
    BY <2>1
  <2>4. Due(p)' = <<>> /\ \A q \in Producers \ {p} : Due(q)' = Due(q)
    BY <2>1, <2>2, <2>3 DEF Due
  <2>5. \A q \in Producers : /\ pc'[q] = "swap" => pc[q] = "swap"
                             /\ pc'[q] = "link" => pending'[q] = <<>>
    BY <2>1, <2>3 DEF LinksFollowOrder
  <2>6. /\ NodesDistinct' /\ LinksFollowOrder'
        /\ \A n \in {Stub} \cup Node : next[n] # Null => next'[n] = next[n]
    <3>1. Due(p) # <<>> /\ next' = [next EXCEPT ![Due(p)[1]] = Due(p)[2]]
      BY <2>1, <2>2
    <3> QED
      BY <2>1, <2>4, <2>5, <3>1, LinkKeepsQueue
  <2> QED
    BY <2>1, <2>6
<1>5. ASSUME NEW p \in Producers, SendCheckBlocked(p) \/ SendLock(p) PROVE Goal
  BY <1>5, SameQueue DEF SendCheckBlocked, SendLock, Goto, queue, locals
<1>6. ASSUME NEW p \in Producers, SendSignal(p) PROVE Goal
  <2>1. UNCHANGED <<next, tail, order, allocated, pending, node, old>>
    BY <1>6 DEF SendSignal, queue, locals
  <2>2. \A q \in Producers \ {p} : pc'[q] = pc[q]
    BY <1>6 DEF SendSignal
  <2>3. pc[p] = "signal" /\ pc'[p] \notin {"swap", "link"}
    BY <1>6 DEF SendSignal
  <2> QED
    BY <2>1, <2>2, <2>3, SameQueue
<1>7. ASSUME NEW r \in Receivers, TryReceive(r) \/ Receive(r) PROVE Goal
  BY <1>7, SameQueue DEF TryReceive, Receive, Begin, Goto, queue
<1>8. ASSUME NEW r \in Receivers, PopLoadHead(r) PROVE Goal
  BY <1>8, SameQueue DEF PopLoadHead, Goto, queue
<1>9. ASSUME NEW r \in Receivers, PopLoadNext(r) PROVE Goal
  BY <1>9, SameQueue DEF PopLoadNext, Goto, queue
<1>10. ASSUME NEW r \in Receivers, PopAdvance(r) \/ PopFree(r) PROVE Goal
  BY <1>10, SameQueue DEF PopAdvance, PopFree, Goto, queue, locals
<1>11. ASSUME NEW r \in Receivers, ReceiveLock(r) \/ ReceiveEnter(r) \/ ReceiveSleep(r) PROVE Goal
  BY <1>11, SameQueue DEF ReceiveLock, ReceiveEnter, ReceiveSleep, Goto, queue, locals
<1>12. ASSUME NEW r \in Receivers, ReceiveLeave(r) \/ ReceiveUnlock(r) \/ SpuriousWakeup(r) PROVE Goal
  BY <1>12, SameQueue DEF ReceiveLeave, ReceiveUnlock, SpuriousWakeup, Goto, queue, locals
<1>13. CASE UNCHANGED vars
  BY <1>13, SameQueue DEF vars, queue, locals
<1> QED
  BY <1>1, <1>2, <1>3, <1>4, <1>5, <1>6, <1>7, <1>8, <1>9, <1>10, <1>11, <1>12, <1>13
  DEF Next, SendStep, ReceiveStep

-----------------------------------------------------------------------------
(* The consumer *)

(* The consumer is ahead of what it has received at "free" only.           *)
LEMMA SingleMoved ==
  ASSUME SingleConsumer, NEW r \in Receivers
  PROVE  /\ Moved = IF pc[r] = "free" THEN 1 ELSE 0
         /\ Moved' = IF pc'[r] = "free" THEN 1 ELSE 0
  BY DEF SingleConsumer, Moved

(* A step that leaves the consumer where it is keeps it on the links: the  *)
(* queue only grows behind its back, and the links it has seen stay.       *)
LEMMA SameConsumer ==
  ASSUME TypeOK, ConsumerFollows, UNCHANGED <<head, freed, received>>,
         \A n \in {Stub} \cup Node : next[n] # Null => next'[n] = next[n],
         Len(order') \in Nat,
         Len(order) <= Len(order'), \A i \in 1 .. Len(order) : order'[i] = order[i],
         \A r \in Receivers : pc[r] \in {"next", "advance", "free"}
                                \/ pc'[r] \in {"next", "advance", "free"} =>
                                pc'[r] = pc[r] /\ node'[r] = node[r] /\ old'[r] = old[r]
  PROVE  ConsumerFollows'
<1>1. Len(order) \in Nat /\ Len(received) \in Nat /\ \A i \in 1 .. Len(order) : order[i] \in Node
  BY DEF TypeOK
<1>2. Moved' = Moved /\ HeadPos' = HeadPos
  BY DEF Moved, HeadPos
<1>3. Moved \in {0, 1} /\ HeadPos \in 0 .. Len(order) /\ Len(received) <= HeadPos
  BY <1>1 DEF Moved, HeadPos, ConsumerFollows
<1>4. \A i \in 0 .. Len(order) : At(order', i) = At(order, i) /\ At(order, i) \in {Stub} \cup Node
  BY <1>1 DEF At
<1>5. HeadPos' <= Len(order') /\ head' = At(order', HeadPos)
  BY <1>1, <1>2, <1>3, <1>4 DEF ConsumerFollows
<1>6. \A i \in 1 .. Len(received) : received[i] = order'[i]
  BY <1>1, <1>3 DEF ConsumerFollows
<1>7. \A i \in 0 .. HeadPos - 1 : next'[At(order', i)] # Null
  BY <1>3, <1>4 DEF ConsumerFollows
<1>8. \A n \in freed : \E i \in 1 .. HeadPos - 1 : n = order'[i]
  <2> SUFFICES ASSUME NEW n \in freed
               PROVE  \E i \in 1 .. HeadPos - 1 : n = order'[i]
    OBVIOUS
  <2>1. PICK i \in 1 .. HeadPos - 1 : n = order[i]
    BY DEF ConsumerFollows
  <2> QED
    BY <2>1, <1>1, <1>3
<1>9. \A r \in Receivers :
        /\ pc'[r] \in {"next", "advance"} => old'[r] = head
        /\ pc'[r] = "advance" => node'[r] # Null /\ node'[r] = next'[head]
        /\ pc'[r] = "free" => node'[r] = head /\ old'[r] = At(order', HeadPos - 1)
  <2> SUFFICES ASSUME NEW r \in Receivers, pc'[r] \in {"next", "advance", "free"}
               PROVE  /\ pc'[r] \in {"next", "advance"} => old'[r] = head
                      /\ pc'[r] = "advance" => node'[r] # Null /\ node'[r] = next'[head]
                      /\ pc'[r] = "free" => node'[r] = head /\ old'[r] = At(order', HeadPos - 1)
    OBVIOUS
  <2>1. pc'[r] = pc[r] /\ node'[r] = node[r] /\ old'[r] = old[r]
    OBVIOUS
  <2>2. pc[r] = "advance" => next'[head] = next[head]
    BY DEF ConsumerFollows, TypeOK
  <2>3. pc[r] = "free" => HeadPos - 1 \in 0 .. Len(order)
    BY <1>1, <1>3 DEF HeadPos, Moved
  <2> QED
    BY <2>1, <2>2, <2>3, <1>4 DEF ConsumerFollows
<1> QED
  BY <1>2, <1>5, <1>6, <1>7, <1>8, <1>9 DEF ConsumerFollows

(* The head is loaded, its link is loaded, and the head moves over it.     *)
LEMMA PopKeepsConsumer ==
  ASSUME SingleConsumer, TypeOK, NodesDistinct, LinksFollowOrder, ConsumerFollows,
         NEW r \in Receivers, PopLoadHead(r) \/ PopLoadNext(r) \/ PopAdvance(r) \/ PopFree(r)
  PROVE  ConsumerFollows'
<1>a. Len(order) \in Nat /\ Len(received) \in Nat
  BY DEF TypeOK
<1>b. r \in Thread /\ \A s \in Receivers : s = r
  BY DEF Thread, SingleConsumer
<1>c. /\ Moved = IF pc[r] = "free" THEN 1 ELSE 0
      /\ Moved' = IF pc'[r] = "free" THEN 1 ELSE 0
  BY SingleMoved
<1>d. HeadPos \in 0 .. Len(order) /\ head = At(order, HeadPos) /\ HeadPos = Len(received) + Moved
  BY <1>a, <1>c DEF HeadPos, ConsumerFollows
<1>e. head \in {Stub} \cup Node /\ node \in [Thread -> Node \cup {Null}] /\ old \in [Thread -> {Stub} \cup Node]
  BY DEF TypeOK
<1>1. CASE PopLoadHead(r)
  <2>1. /\ pc'[r] = "next" /\ pc[r] = "head" /\ old'[r] = head
        /\ UNCHANGED <<next, head, order, freed, received>>
    BY <1>1, <1>b, <1>e DEF PopLoadHead, Goto, queue, TypeOK
  <2>2. HeadPos' = HeadPos
    BY <2>1, <1>c DEF HeadPos
  <2> QED
    BY <2>1, <2>2, <1>b DEF ConsumerFollows
<1>2. CASE PopLoadNext(r)
  <2>1. /\ pc[r] = "next" /\ pc'[r] = IF next[old[r]] = Null THEN Empty(r) ELSE "advance"
        /\ node'[r] = next[old[r]]
        /\ UNCHANGED <<next, head, order, freed, received, old>>
    BY <1>2, <1>b, <1>e DEF PopLoadNext, Goto, queue, TypeOK
  <2>2. old[r] = head /\ mode[r] \in {"try", "fast", "block"}
    BY <2>1 DEF ConsumerFollows, TypeOK
  <2>3. pc'[r] \notin {"next", "free"} /\ (pc'[r] = "advance" => node'[r] # Null)
    BY <2>1, <2>2 DEF Empty
  <2>4. HeadPos' = HeadPos
    BY <2>1, <2>3, <1>c DEF HeadPos
  <2> QED
    BY <2>1, <2>2, <2>3, <2>4, <1>b DEF ConsumerFollows
<1>3. CASE PopAdvance(r)
  <2>1. /\ pc[r] = "advance" /\ pc'[r] = "free" /\ head' = node[r]
        /\ UNCHANGED <<next, order, freed, received, old, node>>
    BY <1>3, <1>b DEF PopAdvance, Goto, locals, TypeOK
  <2>2. old[r] = head /\ node[r] = next[head] /\ next[head] # Null
    BY <2>1 DEF ConsumerFollows
  <2>3. HeadPos' = HeadPos + 1 /\ HeadPos = Len(received)
    BY <2>1, <1>c, <1>d DEF HeadPos
  <2>4. HeadPos < Len(order) /\ next[head] = order[HeadPos + 1]
    BY <2>2, <1>d DEF LinksFollowOrder
  <2>5. head' = At(order, HeadPos + 1)
    BY <2>1, <2>2, <2>4, <1>d DEF At
  <2>6. \A i \in 0 .. HeadPos : next[At(order, i)] # Null
    <3> SUFFICES ASSUME NEW i \in 0 .. HeadPos
                 PROVE  next[At(order, i)] # Null
      OBVIOUS
    <3>1. i = HeadPos \/ i \in 0 .. HeadPos - 1
      BY <1>d, <1>a
    <3> QED
      BY <3>1, <2>2, <1>d DEF ConsumerFollows
  <2>7. \A n \in freed : \E i \in 1 .. HeadPos : n = order[i]
    BY <1>d, <1>a DEF ConsumerFollows
  <2>8. HeadPos' - 1 = HeadPos
    BY <2>3, <1>d, <1>a
  <2> QED
    BY <2>1, <2>2, <2>3, <2>4, <2>5, <2>6, <2>7, <2>8, <1>b, <1>d DEF ConsumerFollows
<1>4. CASE PopFree(r)
  <2>1. /\ pc[r] = "free" /\ pc'[r] \in {"leave", "idle"}
        /\ freed' = IF old[r] = Stub THEN freed ELSE freed \cup {old[r]}
        /\ received' = Append(received, node[r])
        /\ UNCHANGED <<next, head, order, old, node>>
    BY <1>4, <1>b DEF PopFree, Goto, queue, locals, TypeOK
  <2>2. node[r] = head /\ old[r] = At(order, HeadPos - 1) /\ HeadPos = Len(received) + 1
    BY <2>1, <1>c, <1>d DEF ConsumerFollows
  <2>3. head = order[HeadPos] /\ head \in Node
    BY <2>2, <1>d, <1>a, PlacesDistinct DEF At
  <2>4. /\ Len(received') = HeadPos /\ received'[HeadPos] = head
        /\ \A i \in 1 .. Len(received) : received'[i] = received[i]
    <3>1. received \in Seq(Node)
      BY DEF TypeOK
    <3> QED
      BY <3>1, <2>1, <2>2, <2>3, AppendNode
  <2>5. HeadPos' = HeadPos
    BY <2>1, <2>4, <1>c, <1>d DEF HeadPos
  <2>6. \A i \in 1 .. HeadPos : received'[i] = order[i]
    BY <2>2, <2>3, <2>4, <1>a DEF ConsumerFollows
  <2>7. \A n \in freed' : \E i \in 1 .. HeadPos - 1 : n = order[i]
    <3> SUFFICES ASSUME NEW n \in freed', n \notin freed
                 PROVE  \E i \in 1 .. HeadPos - 1 : n = order[i]
      BY DEF ConsumerFollows
    <3>1. n = old[r] /\ n # Stub
      BY <2>1
    <3>2. HeadPos - 1 # 0 /\ n = order[HeadPos - 1]
      BY <3>1, <2>2 DEF At
    <3> QED
      BY <3>2, <2>2, <1>a
  <2> QED
    BY <2>1, <2>4, <2>5, <2>6, <2>7, <1>b, <1>d DEF ConsumerFollows
<1> QED
  BY <1>1, <1>2, <1>3, <1>4

(* A thread that goes from one point to another moves nobody else.         *)
LEMMA GotoMoves ==
  ASSUME TypeOK, NEW x \in Thread, NEW a, NEW b, Goto(x, a, b)
  PROVE  pc[x] = a /\ pc'[x] = b /\ \A y \in Thread \ {x} : pc'[y] = pc[y]
  BY DEF Goto, TypeOK

(* Every step keeps the consumer on the links.                             *)
LEMMA ConsumerStep ==
  ASSUME SingleConsumer, TypeOK, TypeOK', NodesDistinct, LinksFollowOrder, ConsumerFollows,
         BlockingExact, [Next]_vars
  PROVE  ConsumerFollows'
<1>a. /\ \A n \in {Stub} \cup Node : next[n] # Null => next'[n] = next[n]
      /\ Len(order) <= Len(order') /\ \A i \in 1 .. Len(order) : order'[i] = order[i]
      /\ Len(order') \in Nat
  BY QueueStep DEF TypeOK
<1>b. pc = [x \in Thread |-> pc[x]] /\ Producers \cap Receivers = {}
  BY ThreadAssumption DEF TypeOK
<1>1. ASSUME NEW p \in Producers, SendAllocate(p) PROVE ConsumerFollows'
  <2>1. \A r \in Receivers : pc'[r] = pc[r] /\ node'[r] = node[r]
    BY <1>1, <1>b DEF SendAllocate, Goto, TypeOK, Thread
  <2> QED
    BY <1>1, <1>a, <2>1, SameConsumer DEF SendAllocate, queue
<1>2. ASSUME NEW p \in Producers, SendSwapTail(p) PROVE ConsumerFollows'
  <2>1. \A r \in Receivers : pc'[r] = pc[r] /\ old'[r] = old[r]
    BY <1>2, <1>b DEF SendSwapTail, Goto, TypeOK, Thread
  <2> QED
    BY <1>2, <1>a, <2>1, SameConsumer DEF SendSwapTail
<1>3. ASSUME NEW p \in Producers, SendLink(p) \/ SendCheckBlocked(p) \/ SendLock(p)
      PROVE  ConsumerFollows'
  <2>1. p \in Thread /\ \E a, b : Goto(p, a, b)
    BY <1>3 DEF SendLink, SendCheckBlocked, SendLock, Thread
  <2>2. \A r \in Receivers : pc'[r] = pc[r]
    BY <2>1, <1>b, GotoMoves DEF Thread
  <2> QED
    BY <1>3, <1>a, <2>2, SameConsumer DEF SendLink, SendCheckBlocked, SendLock, queue, locals
<1>4. ASSUME NEW p \in Producers, Drain(p) PROVE ConsumerFollows'
  BY <1>4, <1>a, SameConsumer DEF Drain, locals
<1>5. ASSUME NEW p \in Producers, SendSignal(p) PROVE ConsumerFollows'
  <2>1. \A r \in Receivers : pc'[r] = pc[r] \/ (pc[r] = "asleep" /\ pc'[r] = "lock")
    <3>1. \A r \in Receivers : [pc EXCEPT ![p] = "idle"][r] = pc[r]
      BY <1>b DEF TypeOK, Thread
    <3>2. \/ pc' = [pc EXCEPT ![p] = "idle"]
          \/ \E s \in Receivers : pc[s] = "asleep"
                /\ pc' = [[pc EXCEPT ![p] = "idle"] EXCEPT ![s] = "lock"]
      BY <1>5 DEF SendSignal
    <3> QED
      BY <3>1, <3>2 DEF TypeOK, Thread
  <2> QED
    BY <1>5, <1>a, <2>1, SameConsumer DEF SendSignal, queue, locals
<1>6. ASSUME NEW r \in Receivers, TryReceive(r) \/ Receive(r) PROVE ConsumerFollows'
  <2>1. \A s \in Receivers : pc'[s] = pc[s] \/ (pc[s] = "idle" /\ pc'[s] = "head")
    BY <1>6, <1>b DEF TryReceive, Receive, Begin, Goto, TypeOK, Thread
  <2> QED
    BY <1>6, <1>a, <2>1, SameConsumer DEF TryReceive, Receive, Begin, queue
<1>7. ASSUME NEW r \in Receivers, PopLoadHead(r) \/ PopLoadNext(r) \/ PopAdvance(r) \/ PopFree(r)
      PROVE  ConsumerFollows'
  BY <1>7, PopKeepsConsumer
<1>8. ASSUME NEW r \in Receivers,
             \/ ReceiveLock(r) \/ ReceiveEnter(r) \/ ReceiveSleep(r)
             \/ ReceiveLeave(r) \/ ReceiveUnlock(r) \/ SpuriousWakeup(r)
      PROVE  ConsumerFollows'
  <2>1. \A s \in Receivers : pc'[s] = pc[s] \/ {pc[s], pc'[s]} \cap {"next", "advance", "free"} = {}
    BY <1>8, <1>b
    DEF ReceiveLock, ReceiveEnter, ReceiveSleep, ReceiveLeave, ReceiveUnlock, SpuriousWakeup, Goto,
        TypeOK, Thread
  <2>2. UNCHANGED <<head, freed, received, node, old>>
    BY <1>8
    DEF ReceiveLock, ReceiveEnter, ReceiveSleep, ReceiveLeave, ReceiveUnlock, SpuriousWakeup, queue, locals
  <2> QED
    BY <1>a, <2>1, <2>2, SameConsumer
<1>9. CASE UNCHANGED vars
  BY <1>9, <1>a, SameConsumer DEF vars, queue, locals
<1> QED
  BY <1>1, <1>2, <1>3, <1>4, <1>5, <1>6, <1>7, <1>8, <1>9 DEF Next, SendStep, ReceiveStep

-----------------------------------------------------------------------------
(* The slow path and the types *)

(* Every step keeps blocking_count at the number of receivers on the slow  *)
(* path.                                                                   *)
LEMMA BlockingStep ==
  ASSUME SingleConsumer, TypeOK, BlockingExact, [Next]_vars
  PROVE  BlockingExact'
<1>a. Producers \cap Receivers = {}
  BY ThreadAssumption
<1> USE DEF TypeOK, Thread, BlockingExact, SenderPc, ReceiverPc, Slow
<1>1. ASSUME NEW p \in Producers, SendAllocate(p) \/ SendSwapTail(p) PROVE BlockingExact'
  BY <1>1, <1>a DEF SendAllocate, SendSwapTail, Goto
<1>2. ASSUME NEW p \in Producers, SendLink(p) \/ SendCheckBlocked(p) \/ SendLock(p)
      PROVE  BlockingExact'
  <2>1. p \in Thread /\ \E a, b : Goto(p, a, b) /\ b \in SenderPc
    BY <1>2 DEF SendLink, SendCheckBlocked, SendLock
  <2>2. pc'[p] \in SenderPc /\ \A y \in Thread \ {p} : pc'[y] = pc[y]
    BY <2>1, GotoMoves
  <2>3. UNCHANGED <<mode, blocking>>
    BY <1>2 DEF SendLink, SendCheckBlocked, SendLock, locals
  <2> QED
    BY <2>2, <2>3, <1>a
<1>3. ASSUME NEW p \in Producers, Drain(p) PROVE BlockingExact'
  BY <1>3 DEF Drain, locals
<1>4. ASSUME NEW p \in Producers, SendSignal(p) PROVE BlockingExact'
  <2>1. /\ \A q \in Producers : pc'[q] = IF q = p THEN "idle" ELSE pc[q]
        /\ \A r \in Receivers : pc'[r] = pc[r] \/ (pc[r] = "asleep" /\ pc'[r] = "lock")
    BY <1>4, <1>a DEF SendSignal
  <2> QED
    BY <1>4, <2>1 DEF SendSignal, locals
<1>5. ASSUME NEW r \in Receivers, TryReceive(r) \/ Receive(r) PROVE BlockingExact'
  <2>1. /\ pc[r] = "idle" /\ pc'[r] = "head" /\ \A q \in Producers : pc'[q] = pc[q]
        /\ mode'[r] \in {"try", "fast"} /\ blocking' = blocking
    BY <1>5, <1>a DEF TryReceive, Receive, Begin, Goto
  <2>2. blocking = 0
    BY <2>1
  <2> QED
    BY <2>1, <2>2 DEF SingleConsumer
<1>6. ASSUME NEW r \in Receivers, PopLoadHead(r) PROVE BlockingExact'
  BY <1>6, <1>a DEF PopLoadHead, Goto
<1>7. ASSUME NEW r \in Receivers, PopLoadNext(r) PROVE BlockingExact'
  BY <1>7, <1>a DEF PopLoadNext, Goto, Empty
<1>8. ASSUME NEW r \in Receivers, PopAdvance(r) PROVE BlockingExact'
  BY <1>8, <1>a DEF PopAdvance, Goto, locals
<1>9. ASSUME NEW r \in Receivers, PopFree(r) PROVE BlockingExact'
  BY <1>9, <1>a DEF PopFree, Goto, locals
<1>10. ASSUME NEW r \in Receivers, ReceiveLock(r) PROVE BlockingExact'
  <2>1. /\ pc[r] = "lock" /\ pc'[r] = IF mode[r] = "block" THEN "head" ELSE "enter"
        /\ \A q \in Producers : pc'[q] = pc[q]
        /\ UNCHANGED <<mode, blocking>>
    BY <1>10, <1>a DEF ReceiveLock, Goto, locals
  <2> QED
    BY <2>1 DEF SingleConsumer
<1>11. ASSUME NEW r \in Receivers, ReceiveEnter(r) PROVE BlockingExact'
  BY <1>11, <1>a DEF ReceiveEnter, Goto, SingleConsumer
<1>12. ASSUME NEW r \in Receivers, ReceiveSleep(r) \/ SpuriousWakeup(r) PROVE BlockingExact'
  BY <1>12, <1>a DEF ReceiveSleep, SpuriousWakeup, Goto, locals
<1>13. ASSUME NEW r \in Receivers, ReceiveLeave(r) PROVE BlockingExact'
  BY <1>13, <1>a DEF ReceiveLeave, Goto, locals, SingleConsumer
<1>14. ASSUME NEW r \in Receivers, ReceiveUnlock(r) PROVE BlockingExact'
  BY <1>14, <1>a DEF ReceiveUnlock, Goto, locals
<1>15. CASE UNCHANGED vars
  BY <1>15 DEF vars, locals
<1> QED
  BY <1>1, <1>2, <1>3, <1>4, <1>5, <1>6, <1>7, <1>8, <1>9, <1>10, <1>11, <1>12, <1>13, <1>14, <1>15
  DEF Next, SendStep, ReceiveStep

(* Every step keeps the types: the links that are stored, and the heads    *)
(* that are taken, are nodes.                                              *)
LEMMA TypeStep ==
  ASSUME SingleConsumer, TypeOK, NodesDistinct, LinksFollowOrder, ConsumerFollows, BlockingExact,
         [Next]_vars
  PROVE  TypeOK'
<1>a. MaxSend \in Nat /\ allocated \in Nat
  BY BoundAssumption DEF TypeOK
<1> USE DEF TypeOK, Thread
<1>1. ASSUME NEW p \in Producers, SendAllocate(p) PROVE TypeOK'
  <2>1. allocated + 1 \in Node
    BY <1>1, <1>a DEF SendAllocate, Goto, Node
  <2> QED
    BY <1>1, <1>a, <2>1 DEF SendAllocate, Goto, queue
<1>2. ASSUME NEW p \in Producers, SendSwapTail(p) PROVE TypeOK'
  <2>1. node[p] \in Node
    BY <1>2, <1>a DEF SendSwapTail, Goto, NodesDistinct, Node
  <2>2. order' \in Seq(Node)
    BY <1>2, <2>1, AppendNode DEF SendSwapTail
  <2> QED
    BY <1>2, <2>1, <2>2 DEF SendSwapTail, Goto
<1>3. ASSUME NEW p \in Producers, SendLink(p) PROVE TypeOK'
  <2>1. Due(p) = <<old[p], node[p]>>
    BY <1>3 DEF SendLink, Goto, Due
  <2>2. Due(p) # <<>>
    BY <2>1
  <2>3. PICK i \in 0 .. Len(order) - 1 : Due(p) = <<At(order, i), order[i + 1]>>
    BY <2>2 DEF LinksFollowOrder
  <2>4. node[p] = order[i + 1]
    BY <2>1, <2>3
  <2>5. node[p] \in Node /\ old[p] \in {Stub} \cup Node
    BY <2>4
  <2> QED
    BY <1>3, <2>5 DEF SendLink, Goto, locals
<1>4. ASSUME NEW p \in Producers, Drain(p) PROVE TypeOK'
  <2>1. pending[p] \in ({Stub} \cup Node) \X Node
    BY <1>4 DEF Drain
  <2>2. pending[p][1] \in {Stub} \cup Node /\ pending[p][2] \in Node
    BY <2>1
  <2>3. next' \in [{Stub} \cup Node -> Node \cup {Null}]
    BY <1>4, <2>2 DEF Drain
  <2>4. pending' \in [Producers -> {<<>>} \cup (({Stub} \cup Node) \X Node)]
    BY <1>4 DEF Drain
  <2> QED
    BY <1>4, <2>3, <2>4 DEF Drain, locals
<1>5. ASSUME NEW p \in Producers, SendCheckBlocked(p) \/ SendLock(p) PROVE TypeOK'
  BY <1>5 DEF SendCheckBlocked, SendLock, Goto, queue, locals
<1>6. ASSUME NEW p \in Producers, SendSignal(p) PROVE TypeOK'
  <2>1. \/ pc' = [pc EXCEPT ![p] = "idle"]
        \/ \E s \in Receivers : pc' = [[pc EXCEPT ![p] = "idle"] EXCEPT ![s] = "lock"]
    BY <1>6 DEF SendSignal
  <2>2. pc' \in [Thread -> {"idle", "swap", "link", "check", "lock", "signal",
                            "head", "next", "advance", "free", "enter", "sleep", "asleep",
                            "leave", "unlock"}]
    BY <2>1
  <2> QED
    BY <1>6, <2>2 DEF SendSignal, queue, locals
<1>7. ASSUME NEW r \in Receivers, TryReceive(r) \/ Receive(r) PROVE TypeOK'
  BY <1>7 DEF TryReceive, Receive, Begin, Goto, queue
<1>8. ASSUME NEW r \in Receivers, PopLoadHead(r) PROVE TypeOK'
  BY <1>8 DEF PopLoadHead, Goto, queue
<1>9. ASSUME NEW r \in Receivers, PopLoadNext(r) PROVE TypeOK'
  <2>1. Empty(r) \in {"idle", "lock", "sleep"}
    BY DEF Empty
  <2> QED
    BY <1>9, <2>1 DEF PopLoadNext, Goto, queue
<1>10. ASSUME NEW r \in Receivers, PopAdvance(r) PROVE TypeOK'
  <2>1. node[r] \in Node
    BY <1>10 DEF PopAdvance, Goto, ConsumerFollows
  <2> QED
    BY <1>10, <2>1 DEF PopAdvance, Goto, locals
<1>11. ASSUME NEW r \in Receivers, PopFree(r) PROVE TypeOK'
  <2>1. pc[r] = "free" /\ Moved = 1
    BY <1>11, SingleMoved DEF PopFree, Goto
  <2>2. node[r] = At(order, HeadPos) /\ HeadPos \in 1 .. Len(order)
    BY <2>1 DEF ConsumerFollows, HeadPos
  <2>3. node[r] \in Node
    BY <2>2 DEF At
  <2>4. received' \in Seq(Node)
    BY <1>11, <2>3, AppendNode DEF PopFree
  <2>5. freed' \subseteq Node
    BY <1>11 DEF PopFree
  <2> QED
    BY <1>11, <2>4, <2>5 DEF PopFree, Goto, queue, locals
<1>12. ASSUME NEW r \in Receivers, ReceiveLock(r) \/ ReceiveEnter(r) PROVE TypeOK'
  BY <1>12 DEF ReceiveLock, ReceiveEnter, Goto, queue, locals
<1>13. ASSUME NEW r \in Receivers, ReceiveSleep(r) \/ SpuriousWakeup(r) \/ ReceiveUnlock(r)
       PROVE  TypeOK'
  BY <1>13 DEF ReceiveSleep, SpuriousWakeup, ReceiveUnlock, Goto, queue, locals
<1>14. ASSUME NEW r \in Receivers, ReceiveLeave(r) PROVE TypeOK'
  <2>1. blocking = 1
    BY <1>14 DEF ReceiveLeave, Goto, BlockingExact, Slow
  <2> QED
    BY <1>14, <2>1 DEF ReceiveLeave, Goto, queue, locals
<1>15. CASE UNCHANGED vars
  BY <1>15 DEF vars, queue, locals
<1> QED
  BY <1>1, <1>2, <1>3, <1>4, <1>5, <1>6, <1>7, <1>8, <1>9, <1>10, <1>11, <1>12, <1>13, <1>14, <1>15
  DEF Next, SendStep, ReceiveStep

-----------------------------------------------------------------------------
(* The invariant and what follows from it *)

(* It holds of a new channel.                                              *)
LEMMA InvariantInit == Init => IInv
<1> SUFFICES ASSUME Init
             PROVE  IInv
  OBVIOUS
<1> USE BoundAssumption, ThreadAssumption DEF Init
<1>1. TypeOK
  BY DEF TypeOK, Thread, Stub, Node, Null
<1>2. Len(order) = 0 /\ Len(received) = 0 /\ \A p \in Producers : Due(p) = <<>>
  BY DEF Due, Thread
<1>3. Moved = 0 /\ HeadPos = 0
  BY <1>2 DEF Moved, HeadPos, Thread
<1>4. NodesDistinct /\ LinksFollowOrder
  BY <1>2 DEF NodesDistinct, LinksFollowOrder, At, Thread, Stub
<1>5. ConsumerFollows /\ BlockingExact
  BY <1>2, <1>3 DEF ConsumerFollows, BlockingExact, At, Thread, SenderPc, ReceiverPc, Slow
<1> QED
  BY <1>1, <1>4, <1>5 DEF IInv

(* With one consumer, every step keeps it.                                 *)
LEMMA InvariantStep ==
  ASSUME SingleConsumer
  PROVE  IInv /\ [Next]_vars => IInv'
<1> SUFFICES ASSUME IInv, [Next]_vars
             PROVE  IInv'
  OBVIOUS
<1>1. TypeOK'
  BY TypeStep DEF IInv
<1>2. NodesDistinct' /\ LinksFollowOrder'
  BY QueueStep DEF IInv
<1>3. ConsumerFollows'
  BY <1>1, ConsumerStep DEF IInv
<1>4. BlockingExact'
  BY BlockingStep DEF IInv
<1> QED
  BY <1>1, <1>2, <1>3, <1>4 DEF IInv

(* What was received is a prefix of the queue.                             *)
LEMMA InvariantGivesFifo == IInv => FifoOrder
<1> SUFFICES ASSUME IInv
             PROVE  FifoOrder
  OBVIOUS
<1>1. order \in Seq(Node) /\ received \in Seq(Node) /\ Len(received) <= Len(order)
  BY DEF IInv, TypeOK, ConsumerFollows, HeadPos, Moved
<1>2. \A i \in 1 .. Len(received) : received[i] = order[i]
  BY DEF IInv, ConsumerFollows
<1>3. SubSeq(received, 1, Len(received)) = SubSeq(order, 1, Len(received))
  BY <1>1, <1>2, Len(received) \in Nat
<1> QED
  BY <1>1, <1>3 DEF FifoOrder, IsPrefix

(* What was freed is behind the head and has its link, so that the head,   *)
(* the tail and the nodes whose link is due are not freed.                 *)
LEMMA InvariantGivesLive == IInv => LinksAreLive
<1> SUFFICES ASSUME IInv
             PROVE  LinksAreLive
  OBVIOUS
<1>1. /\ TypeOK /\ Len(order) \in Nat /\ HeadPos \in 0 .. Len(order)
      /\ \A i \in 1 .. Len(order) : At(order, i) = order[i]
      /\ \A i, j \in 0 .. Len(order) : At(order, i) = At(order, j) => i = j
  BY PlacesDistinct DEF IInv, TypeOK, ConsumerFollows, HeadPos, Moved
<1>2. \A n \in freed : \E i \in 1 .. HeadPos - 1 : n = At(order, i) /\ next[n] # Null
  <2> SUFFICES ASSUME NEW n \in freed
               PROVE  \E i \in 1 .. HeadPos - 1 : n = At(order, i) /\ next[n] # Null
    OBVIOUS
  <2>1. PICK i \in 1 .. HeadPos - 1 : n = order[i]
    BY DEF IInv, ConsumerFollows
  <2>2. n = At(order, i) /\ i \in 0 .. HeadPos - 1
    BY <2>1, <1>1
  <2> QED
    BY <2>2 DEF IInv, ConsumerFollows
<1>3. head \notin freed /\ tail \notin freed
  <2>1. head = At(order, HeadPos) /\ tail = At(order, Len(order))
    BY DEF IInv, ConsumerFollows, LinksFollowOrder
  <2> QED
    BY <2>1, <1>1, <1>2
<1>4. \A p \in Producers : Due(p) # <<>> => Due(p)[1] \notin freed
  <2> SUFFICES ASSUME NEW p \in Producers, Due(p) # <<>>
               PROVE  Due(p)[1] \notin freed
    OBVIOUS
  <2>1. PICK i \in 0 .. Len(order) - 1 :
          Due(p) = <<At(order, i), order[i + 1]>> /\ next[At(order, i)] = Null
    BY DEF IInv, LinksFollowOrder
  <2> QED
    BY <2>1, <1>2
<1>5. \A p \in Producers : pc[p] = "link" => old[p] \notin freed
  <2> SUFFICES ASSUME NEW p \in Producers, pc[p] = "link"
               PROVE  old[p] \notin freed
    OBVIOUS
  <2>1. Due(p) = <<old[p], node[p]>>
    BY DEF Due
  <2>2. Due(p) # <<>> /\ Due(p)[1] = old[p]
    BY <2>1
  <2> QED
    BY <2>2, <1>4
<1>6. \A p \in Producers : pending[p] # <<>> => pending[p][1] \notin freed
  <2>1. \A p \in Producers : pending[p] # <<>> => Due(p) = pending[p]
    BY DEF Due, IInv, LinksFollowOrder
  <2> QED
    BY <2>1, <1>4
<1> QED
  BY <1>1, <1>3, <1>5, <1>6 DEF LinksAreLive

(* The invariant holds throughout.                                         *)
THEOREM Invariant ==
  ASSUME SingleConsumer
  PROVE  Spec => []IInv
<1> QED
  BY InvariantInit, InvariantStep, PTL DEF Spec

(* "FIFO order preserved", whatever the producers do and however long      *)
(* their links stay invisible: with one consumer, the values that came out *)
(* are the first of those whose producers swapped the tail.                *)
THEOREM FifoDelivery ==
  ASSUME SingleConsumer
  PROVE  Spec => []FifoOrder
<1> QED
  BY Invariant, InvariantGivesFifo, PTL

(* coex_channel_send and the pop never touch a sentinel that was freed:    *)
(* with one consumer, a node is freed when the head is past it, and the    *)
(* head passes a node only when the link of that node is visible, so that  *)
(* no producer has it for its `prev` any more.                             *)
THEOREM LiveLinks ==
  ASSUME SingleConsumer
  PROVE  Spec => []LinksAreLive
<1> QED
  BY Invariant, InvariantGivesLive, PTL
=============================================================================
