-------------------------- MODULE WorkDeque_proofs --------------------------
(***************************************************************************)
(* Proofs about the Chase-Lev deque, for every number of thieves and of    *)
(* pushes and every initial capacity: the indices and the slots agree, and *)
(* the accesses of the code implement the operations of TaskDeque.         *)
(***************************************************************************)
EXTENDS WorkDeque, SequenceTheorems, TLAPS

(* The task that index i stands for.                                       *)
Held(i) == At(Current, i)

Capacities == \A k \in 1 .. Current : Capacity(k) \in Nat \ {0, 1}

(* What the owner knows between two accesses: bottom is its own, a push    *)
(* that has tested the capacity has room, and what it stores is in the     *)
(* slot it publishes.                                                      *)
OwnerKnown ==
  /\ pc[Owner] \in {"grow", "store", "publish", "poptop", "race", "restore"} => b[Owner] = bottom
  /\ pc[Owner] \in {"grow", "store"} => pushed < MaxPush
  /\ pc[Owner] \in {"store", "publish"} => bottom - top < Capacity(Current) - 1
  /\ pc[Owner] = "publish" => pushed \in Task /\ Held(bottom) = pushed
  /\ pc[Owner] = "race" => t[Owner] = bottom /\ t[Owner] <= top

(* What a thief knows if top is still what it read: there was a task, and  *)
(* the buffer it has chosen holds it as the current one does.              *)
ThiefKnown(p) ==
  /\ t[p] <= top
  /\ pc[p] \in {"buffer", "read", "cas"} /\ t[p] = top => top < End
  /\ pc[p] = "read" /\ t[p] = top => At(buf[p], top) = Held(top)
  /\ pc[p] = "cas" /\ t[p] = top => item[p] = Held(top)

ThievesKnown == \A p \in Thieves : ThiefKnown(p)

(* The inductive invariant.                                                *)
IInv == TypeOK /\ Capacities /\ IndicesInRange /\ OwnerKnown /\ ThievesKnown

-----------------------------------------------------------------------------
(* Slots *)

(* Remainder and quotient.                                                 *)
LEMMA Remainder ==
  ASSUME NEW i \in Int, NEW c \in Nat \ {0}
  PROVE  i % c \in 0 .. c - 1 /\ i \div c \in Int /\ i = c * (i \div c) + (i % c)
OBVIOUS

(* Indices less than a capacity apart have different slots.                *)
LEMMA SlotsDiffer ==
  ASSUME NEW c \in Nat \ {0}, NEW i \in Int, NEW j \in Int, i < j, j - i < c
  PROVE  i % c # j % c
<1> DEFINE p == i \div c  q == j \div c  r == i % c  s == j % c
<1>1. /\ p \in Int /\ q \in Int /\ r \in 0 .. c - 1 /\ s \in 0 .. c - 1
      /\ i = c * p + r /\ j = c * q + s
  BY Remainder
<1> HIDE DEF p, q, r, s
<1>2. ASSUME r = s PROVE FALSE
  <2>1. j - i = c * (q - p)
    BY <1>1, <1>2
  <2>2. (q - p >= 1 => c * (q - p) >= c) /\ (q - p <= 0 => c * (q - p) <= 0)
    BY <1>1
  <2> QED
    BY <1>1, <2>1, <2>2
<1> QED
  BY <1>2 DEF r, s

(* The types of the indices and of the current buffer.                     *)
LEMMA Indices ==
  ASSUME IInv
  PROVE  /\ top \in Nat /\ bottom \in Nat \cup {-1} /\ bottom \in Int
         /\ End \in Nat /\ top <= End /\ End - top <= Capacity(Current) - 1
         /\ Current \in Nat \ {0} /\ Capacity(Current) \in Nat \ {0, 1}
         /\ Popping => End = bottom + 1
         /\ ~Popping => End = bottom
<1>1. /\ top \in Nat /\ bottom \in Nat \cup {-1} /\ buffers \in Seq(Seq(Task \cup {Null}))
      /\ buffers # <<>> /\ top <= End /\ End - top <= Capacity(Current) - 1
  BY DEF IInv, TypeOK, IndicesInRange
<1>2. Current \in Nat \ {0}
  BY <1>1 DEF Current
<1>3. Capacity(Current) \in Nat \ {0, 1}
  BY <1>2 DEF IInv, Capacities
<1> QED
  BY <1>1, <1>2, <1>3 DEF End

(* A slot is in its buffer.                                                *)
LEMMA SlotInside ==
  ASSUME TypeOK, Capacities, NEW k \in 1 .. Current, NEW i \in Int
  PROVE  /\ Slot(k, i) \in 1 .. Capacity(k) /\ At(k, i) \in Task \cup {Null}
         /\ buffers[k] \in Seq(Task \cup {Null}) /\ Capacity(k) \in Nat \ {0, 1}
<1>1. Capacity(k) \in Nat \ {0, 1} /\ buffers[k] \in Seq(Task \cup {Null})
  BY DEF Capacities, TypeOK, Current
<1>2. i % Capacity(k) \in 0 .. Capacity(k) - 1
  BY <1>1, Remainder
<1>3. Slot(k, i) \in 1 .. Capacity(k)
  BY <1>1, <1>2 DEF Slot
<1> QED
  BY <1>1, <1>3 DEF At, Capacity

(* A step that leaves the buffers alone.                                   *)
LEMMA SlotsStay ==
  ASSUME UNCHANGED buffers
  PROVE  /\ Current' = Current
         /\ \A i \in Int : Held(i)' = Held(i)
         /\ \A k \in 1 .. Current, i \in Int : At(k, i)' = At(k, i)
         /\ \A k \in 1 .. Current : Capacity(k)' = Capacity(k)
         /\ Capacity(Current)' = Capacity(Current)
BY DEF Held, At, Slot, Capacity, Current

(* deque_grow: a buffer of twice the capacity that holds the same tasks.   *)
LEMMA GrowEffect ==
  ASSUME IInv, Grow
  PROVE  /\ Current' = Current + 1
         /\ \A k \in 1 .. Current : Capacity(k)' = Capacity(k)
         /\ \A k \in 1 .. Current, i \in Int : At(k, i)' = At(k, i)
         /\ Capacity(Current)' = 2 * Capacity(Current)
         /\ \A i \in top .. bottom - 1 : Held(i)' = Held(i)
         /\ buffers' \in Seq(Seq(Task \cup {Null}))
<1> DEFINE n == Current
           c == Capacity(Current)
           copied == {i % (2 * c) : i \in top .. bottom - 1}
           new == [s \in 1 .. 2 * c |->
                     IF s - 1 \in copied
                     THEN At(n, CHOOSE i \in top .. bottom - 1 : i % (2 * c) = s - 1)
                     ELSE Null]
<1>a. /\ n \in Nat \ {0} /\ c \in Nat \ {0, 1} /\ top \in Nat /\ bottom \in Int
      /\ bottom - top <= c - 1 /\ n \in 1 .. n
      /\ buffers \in Seq(Seq(Task \cup {Null})) /\ TypeOK /\ Capacities
  <2>1. ~Popping
    BY DEF Grow, Goto, Popping
  <2> QED
    BY <2>1, Indices DEF IInv, TypeOK
<1>1. buffers' = Append(buffers, new)
  BY DEF Grow
<1>b. \A i \in Int : At(n, i) \in Task \cup {Null}
  BY <1>a, SlotInside
<1> HIDE DEF n, c
<1>2. new \in Seq(Task \cup {Null}) /\ Len(new) = 2 * c
  <2>1. \A s \in 1 .. 2 * c : new[s] \in Task \cup {Null}
    <3> SUFFICES ASSUME NEW s \in 1 .. 2 * c, s - 1 \in copied PROVE new[s] \in Task \cup {Null}
      OBVIOUS
    <3>1. \E i \in top .. bottom - 1 : i % (2 * c) = s - 1
      OBVIOUS
    <3> DEFINE j == CHOOSE i \in top .. bottom - 1 : i % (2 * c) = s - 1
    <3>2. j \in top .. bottom - 1
      BY <3>1
    <3>3. new[s] = At(n, j)
      OBVIOUS
    <3> HIDE DEF j, new
    <3> QED
      BY <1>a, <1>b, <3>2, <3>3
  <2>2. 2 * c \in Nat
    BY <1>a
  <2>3. new = [s \in 1 .. 2 * c |-> new[s]]
    OBVIOUS
  <2> HIDE DEF new
  <2> QED
    BY <2>1, <2>2, <2>3
<1>3. \A i \in top .. bottom - 1 : (i % (2 * c)) + 1 \in 1 .. 2 * c /\ new[(i % (2 * c)) + 1] = At(n, i)
  <2> SUFFICES ASSUME NEW i \in top .. bottom - 1
               PROVE  (i % (2 * c)) + 1 \in 1 .. 2 * c /\ new[(i % (2 * c)) + 1] = At(n, i)
    OBVIOUS
  <2>1. i % (2 * c) \in 0 .. 2 * c - 1 /\ 2 * c \in Nat \ {0} /\ i \in Int
    BY <1>a, Remainder
  <2>2. \A j \in top .. bottom - 1 : j % (2 * c) = i % (2 * c) => j = i
    <3> SUFFICES ASSUME NEW j \in top .. bottom - 1, j % (2 * c) = i % (2 * c), j # i PROVE FALSE
      OBVIOUS
    <3>1. j \in Int /\ i - j < 2 * c /\ j - i < 2 * c
      BY <1>a
    <3> QED
      BY <2>1, <3>1, SlotsDiffer
  <2>3. (CHOOSE j \in top .. bottom - 1 : j % (2 * c) = i % (2 * c)) = i
    BY <2>2
  <2>4. (i % (2 * c)) + 1 \in 1 .. 2 * c /\ ((i % (2 * c)) + 1) - 1 = i % (2 * c)
    BY <2>1
  <2>5. i % (2 * c) \in copied
    OBVIOUS
  <2> QED
    BY <2>3, <2>4, <2>5
<1> HIDE DEF new
<1>4. /\ Len(buffers') = n + 1 /\ buffers'[n + 1] = new
      /\ \A k \in 1 .. n : buffers'[k] = buffers[k]
      /\ buffers' \in Seq(Seq(Task \cup {Null}))
  BY <1>a, <1>1, <1>2 DEF n, Current
<1>5. \A k \in 1 .. n, i \in Int : At(k, i)' = At(k, i)
  BY <1>4 DEF At, Slot, Capacity
<1>6. \A k \in 1 .. n : Capacity(k)' = Capacity(k)
  BY <1>4 DEF Capacity
<1>7. Current' = n + 1 /\ Capacity(Current)' = 2 * c
  BY <1>2, <1>4 DEF Current, Capacity
<1>8. \A i \in top .. bottom - 1 : Held(i)' = At(n, i)
  <2> SUFFICES ASSUME NEW i \in top .. bottom - 1 PROVE Held(i)' = At(n, i)
    OBVIOUS
  <2>1. Held(i)' = new[(i % (2 * c)) + 1]
    BY <1>2, <1>4 DEF Held, At, Slot, Capacity, Current
  <2> QED
    BY <1>3, <2>1
<1> QED
  BY <1>4, <1>5, <1>6, <1>7, <1>8 DEF n, c, Held

(* The store of a push changes no slot but that of bottom.                 *)
LEMMA StoreEffect ==
  ASSUME IInv, PushStore
  PROVE  /\ Current' = Current
         /\ \A k \in 1 .. Current : Capacity(k)' = Capacity(k)
         /\ \A k \in 1 .. Current, i \in top .. bottom - 1 : At(k, i)' = At(k, i)
         /\ Held(bottom)' = pushed + 1
         /\ \A i \in top .. bottom - 1 : Held(i)' = Held(i)
         /\ buffers' \in Seq(Seq(Task \cup {Null})) /\ buffers' # <<>>
<1>a. /\ TypeOK /\ Capacities /\ buffers \in Seq(Seq(Task \cup {Null}))
      /\ bottom' = bottom /\ b[Owner] = bottom /\ pushed + 1 \in Task
  <2>1. ~Popping /\ pc[Owner] = "store" /\ bottom' = bottom
    BY DEF PushStore, Goto, Popping
  <2>2. pushed \in 0 .. MaxPush /\ pushed < MaxPush /\ b[Owner] = bottom
    BY <2>1 DEF IInv, TypeOK, OwnerKnown
  <2>3. pushed + 1 \in Task
    BY <2>2, BoundAssumption DEF Task
  <2> QED
    BY <2>1, <2>2, <2>3 DEF IInv, TypeOK
<1>1. PICK n \in Nat \ {0}, c \in Nat \ {0, 1}, x \in Nat :
         n = Current /\ c = Capacity(Current) /\ x = bottom /\ bottom - top < c - 1 /\ top \in Nat
  <2>1. ~Popping /\ pc[Owner] = "store"
    BY DEF PushStore, Goto, Popping
  <2>2. bottom \in Nat /\ top \in Nat
    BY <2>1, Indices
  <2>3. bottom - top < Capacity(Current) - 1
    BY <2>1 DEF IInv, OwnerKnown
  <2> QED
    BY <2>2, <2>3, Indices
<1>b. n \in 1 .. n /\ n \in 1 .. Current /\ Capacity(n) = c /\ x \in Int
  BY <1>1
<1>2. buffers' = [buffers EXCEPT ![n] = [buffers[n] EXCEPT ![Slot(n, x)] = pushed + 1]]
  BY <1>a, <1>1 DEF PushStore
<1>3. /\ Slot(n, x) \in 1 .. c /\ buffers[n] \in Seq(Task \cup {Null}) /\ Len(buffers[n]) = c
  BY <1>a, <1>b, SlotInside DEF Capacity
<1>4. \A i \in top .. bottom - 1 : i \in Int /\ Slot(n, i) # Slot(n, x)
  <2> SUFFICES ASSUME NEW i \in top .. bottom - 1 PROVE i \in Int /\ Slot(n, i) # Slot(n, x)
    OBVIOUS
  <2>1. i \in Int /\ x \in Int /\ i < x /\ x - i < c
    BY <1>a, <1>1
  <2>2. c \in Nat \ {0}
    BY <1>1
  <2>3. i % c # x % c
    BY <2>1, <2>2, SlotsDiffer
  <2>4. i % c \in Int /\ x % c \in Int
    BY <2>1, <2>2, Remainder
  <2> QED
    BY <1>b, <2>1, <2>3, <2>4 DEF Slot
<1>5. PICK new : new = [buffers[n] EXCEPT ![Slot(n, x)] = pushed + 1]
  OBVIOUS
<1>6. /\ new \in Seq(Task \cup {Null}) /\ Len(new) = c /\ new[Slot(n, x)] = pushed + 1
      /\ \A i \in top .. bottom - 1 : new[Slot(n, i)] = buffers[n][Slot(n, i)]
  <2>1. \A i \in top .. bottom - 1 : Slot(n, i) \in 1 .. c
    BY <1>a, <1>b, <1>4, SlotInside
  <2> QED
    BY <1>a, <1>3, <1>4, <1>5, <2>1
<1>7. /\ Len(buffers') = n /\ buffers'[n] = new /\ \A k \in 1 .. n \ {n} : buffers'[k] = buffers[k]
      /\ buffers' \in Seq(Seq(Task \cup {Null})) /\ buffers' # <<>>
  <2>1. Len(buffers) = n
    BY <1>1 DEF Current
  <2>2. buffers' = [buffers EXCEPT ![n] = new]
    BY <1>2, <1>5
  <2> QED
    BY <1>a, <1>b, <1>6, <2>1, <2>2
<1>8. Current' = n /\ \A k \in 1 .. n : Len(buffers'[k]) = Len(buffers[k])
  BY <1>3, <1>6, <1>7 DEF Current
<1>9. \A k \in 1 .. n, i \in Int : Slot(k, i)' = Slot(k, i)
  <2> SUFFICES ASSUME NEW k \in 1 .. n, NEW i \in Int PROVE Slot(k, i)' = Slot(k, i)
    OBVIOUS
  <2>1. Len(buffers'[k]) = Len(buffers[k])
    BY <1>8
  <2> QED
    BY <2>1 DEF Slot, Capacity
<1>10. \A k \in 1 .. n, i \in top .. bottom - 1 : At(k, i)' = At(k, i)
  <2> SUFFICES ASSUME NEW k \in 1 .. n, NEW i \in top .. bottom - 1 PROVE At(k, i)' = At(k, i)
    OBVIOUS
  <2>1. Slot(k, i)' = Slot(k, i)
    BY <1>4, <1>9
  <2> QED
    BY <1>6, <1>7, <2>1 DEF At
<1>11. At(n, x)' = pushed + 1
  BY <1>b, <1>6, <1>7, <1>9 DEF At
<1>12. \A i \in Int : Held(i)' = At(n, i)' /\ Held(i) = At(n, i)
  BY <1>1, <1>8 DEF Held, At, Slot, Capacity, Current
<1>13. Held(bottom)' = pushed + 1
  <2>1. Held(bottom)' = Held(x)'
    BY <1>a, <1>1 DEF Held, At, Slot
  <2> QED
    BY <1>11, <1>12, <2>1
<1> QED
  BY <1>1, <1>b, <1>4, <1>7, <1>8, <1>10, <1>12, <1>13, <1>a DEF Capacity

-----------------------------------------------------------------------------
(* The invariant *)

(* What a thief knows stays true while it does nothing, if top only rises, *)
(* the deque is not emptied but by a rise of top, and the task at the top  *)
(* stays in its slots.                                                     *)
LEMMA ThiefKeeps ==
  ASSUME IInv, NEW p \in Thieves, UNCHANGED <<pc[p], t[p], buf[p], item[p]>>,
         top' \in Nat, top <= top',
         top' = top /\ top < End => top < End',
         \A i \in Nat : i = top /\ top' = top /\ top < End =>
            Held(i)' = Held(i) /\ \A k \in 1 .. Current : At(k, i)' = At(k, i)
  PROVE  ThiefKnown(p)'
<1>1. ThiefKnown(p) /\ t[p] \in Nat /\ buf[p] \in 1 .. Current
  BY DEF IInv, ThievesKnown, TypeOK, Workers
<1>2. top \in Nat
  BY Indices
<1>3. t'[p] <= top'
  BY <1>1, <1>2 DEF ThiefKnown
<1>4. ASSUME pc'[p] \in {"buffer", "read", "cas"}, t'[p] = top'
      PROVE  /\ top' = top /\ t[p] = top /\ top < End /\ top' < End'
             /\ pc'[p] = "read" => At(buf[p], top)' = Held(top)'
             /\ pc'[p] = "cas" => item'[p] = Held(top)'
  <2>1. top' = top /\ t[p] = top /\ top < End
    BY <1>1, <1>2, <1>4 DEF ThiefKnown
  <2>2. top' < End'
    BY <2>1
  <2>3. PICK i \in Nat, k \in 1 .. Current : i = top /\ k = buf[p]
    BY <1>1, <1>2
  <2>4. Held(i)' = Held(i) /\ At(k, i)' = At(k, i)
    BY <2>1, <2>3
  <2>5. Held(top)' = Held(i)' /\ Held(i) = Held(top) /\ At(buf[p], top)' = At(k, i)' /\ At(buf[p], top) = At(k, i)
    BY <2>1, <2>3 DEF Held, At, Slot, Capacity
  <2>6. /\ pc'[p] = "read" => At(buf[p], top) = Held(top)
        /\ pc'[p] = "cas" => item'[p] = Held(top)
    BY <1>1, <2>1 DEF ThiefKnown
  <2> QED
    BY <2>1, <2>2, <2>4, <2>5, <2>6
<1> QED
  BY <1>3, <1>4 DEF ThiefKnown

(* The owner's steps that leave top and the buffers alone.                 *)
LEMMA OwnerQuiet ==
  ASSUME IInv, UNCHANGED <<top, buffers, buf, item>>, \A p \in Thieves : pc'[p] = pc[p] /\ t'[p] = t[p],
         top < End => top < End'
  PROVE  ThievesKnown' /\ Capacities'
<1>1. /\ \A i \in Int : Held(i)' = Held(i)
      /\ \A k \in 1 .. Current, i \in Int : At(k, i)' = At(k, i)
      /\ Current' = Current /\ \A k \in 1 .. Current : Capacity(k)' = Capacity(k)
  BY SlotsStay
<1>2. top \in Nat
  BY Indices
<1>3. ASSUME NEW p \in Thieves PROVE ThiefKnown(p)'
  BY <1>1, <1>2, <1>3, ThiefKeeps
<1>4. ThievesKnown'
  BY <1>3 DEF ThievesKnown
<1>5. Capacities'
  BY <1>1 DEF Capacities, IInv
<1> QED
  BY <1>4, <1>5

(* A worker goes from one access to the next.                              *)
LEMMA GotoEffect ==
  ASSUME TypeOK, NEW p \in Workers, NEW from, NEW to \in {"idle", "grow", "store", "publish", "poptop",
           "race", "restore", "bottom", "buffer", "read", "cas"},
         Goto(p, from, to)
  PROVE  /\ pc[p] = from /\ pc'[p] = to /\ \A q \in Workers \ {p} : pc'[q] = pc[q]
         /\ pc' \in [Workers -> {"idle", "grow", "store", "publish", "poptop", "race", "restore",
                                 "bottom", "buffer", "read", "cas"}]
BY DEF TypeOK, Goto

(* The end of an operation.                                                *)
LEMMA ForgetEffect ==
  ASSUME TypeOK, NEW p \in Workers, Forget(p)
  PROVE  /\ b' \in [Workers -> Nat \cup {-1}] /\ t' \in [Workers -> Nat]
         /\ buf' \in [Thieves -> 1 .. Current] /\ item' \in [Thieves -> Task \cup {Null}]
         /\ t'[p] = 0 /\ \A q \in Workers \ {p} : b'[q] = b[q] /\ t'[q] = t[q]
         /\ \A q \in Thieves \ {p} : buf'[q] = buf[q] /\ item'[q] = item[q]
         /\ p = Owner => UNCHANGED <<buf, item>>
<1>1. 1 \in 1 .. Current
  BY DEF TypeOK, Current
<1>2. b' \in [Workers -> Nat \cup {-1}] /\ t' \in [Workers -> Nat]
      /\ t'[p] = 0 /\ \A q \in Workers \ {p} : b'[q] = b[q] /\ t'[q] = t[q]
  BY DEF TypeOK, Forget
<1>3. CASE p = Owner
  BY <1>2, <1>3 DEF TypeOK, Forget
<1>4. CASE p # Owner
  BY <1>1, <1>2, <1>4 DEF TypeOK, Forget
<1> QED
  BY <1>3, <1>4

(* A push reads the indices, and has room or grows.                        *)
LEMMA PushLoadStep ==
  ASSUME IInv, PushLoad
  PROVE  IInv'
<1>a. /\ TypeOK /\ Owner \in Workers /\ Owner \notin Thieves
      /\ UNCHANGED <<top, bottom, buffers, pushed, buf, item, got>>
  BY WorkerAssumption DEF IInv, Workers, PushLoad
<1>b. /\ pc[Owner] = "idle" /\ pc'[Owner] \in {"grow", "store"}
      /\ pc'[Owner] = "store" => bottom - top < Capacity(Current) - 1
      /\ \A q \in Workers \ {Owner} : pc'[q] = pc[q]
      /\ pc' \in [Workers -> {"idle", "grow", "store", "publish", "poptop", "race", "restore",
                              "bottom", "buffer", "read", "cas"}]
  <2>1. CASE bottom - top >= Capacity(Current) - 1
    BY <1>a, <2>1, GotoEffect DEF PushLoad
  <2>2. CASE ~(bottom - top >= Capacity(Current) - 1)
    <3>1. bottom - top < Capacity(Current) - 1
      BY <2>2, Indices
    <3> QED
      BY <1>a, <2>2, <3>1, GotoEffect DEF PushLoad
  <2> QED
    BY <2>1, <2>2
<1>1. ~Popping /\ ~Popping' /\ End' = End /\ End = bottom
  BY <1>a, <1>b DEF Popping, End
<1>2. bottom \in Nat /\ top \in Nat
  BY <1>1, Indices
<1>3. /\ b' \in [Workers -> Nat \cup {-1}] /\ t' \in [Workers -> Nat] /\ b'[Owner] = bottom
      /\ \A p \in Thieves : t'[p] = t[p] /\ pc'[p] = pc[p]
  BY <1>a, <1>b, <1>2 DEF PushLoad, TypeOK, Workers
<1>4. TypeOK'
  BY <1>a, <1>b, <1>3 DEF TypeOK, Current
<1>5. ThievesKnown' /\ Capacities'
  BY <1>a, <1>1, <1>3, OwnerQuiet
<1>6. Capacity(Current)' = Capacity(Current)
  BY <1>a, SlotsStay
<1>7. IndicesInRange'
  BY <1>a, <1>1, <1>6 DEF IInv, IndicesInRange
<1>8. OwnerKnown'
  BY <1>a, <1>b, <1>3, <1>6 DEF OwnerKnown, PushLoad
<1> QED
  BY <1>4, <1>5, <1>7, <1>8 DEF IInv

(* A grown deque has room.                                                 *)
LEMMA GrowStep ==
  ASSUME IInv, Grow
  PROVE  IInv'
<1>a. /\ TypeOK /\ Owner \in Workers /\ Owner \notin Thieves
      /\ UNCHANGED <<top, bottom, pushed, locals, got>>
  BY WorkerAssumption DEF IInv, Workers, Grow
<1>b. /\ pc[Owner] = "grow" /\ pc'[Owner] = "store"
      /\ \A q \in Workers \ {Owner} : pc'[q] = pc[q]
      /\ pc' \in [Workers -> {"idle", "grow", "store", "publish", "poptop", "race", "restore",
                              "bottom", "buffer", "read", "cas"}]
  BY <1>a, GotoEffect DEF Grow
<1>1. ~Popping /\ ~Popping' /\ End' = End /\ End = bottom
  BY <1>a, <1>b DEF Popping, End
<1>2. /\ bottom \in Nat /\ top \in Nat /\ top <= bottom /\ bottom - top <= Capacity(Current) - 1
      /\ Capacity(Current) \in Nat \ {0, 1} /\ Current \in Nat \ {0}
  BY <1>1, Indices
<1>3. /\ Current' = Current + 1
      /\ \A k \in 1 .. Current : Capacity(k)' = Capacity(k)
      /\ \A k \in 1 .. Current, i \in Int : At(k, i)' = At(k, i)
      /\ Capacity(Current)' = 2 * Capacity(Current)
      /\ \A i \in top .. bottom - 1 : Held(i)' = Held(i)
      /\ buffers' \in Seq(Seq(Task \cup {Null}))
  BY GrowEffect
<1>4. TypeOK'
  <2>1. buffers' # <<>>
    BY <1>2, <1>3 DEF Current
  <2>2. buf' \in [Thieves -> 1 .. Current']
    BY <1>a, <1>2, <1>3 DEF TypeOK, locals
  <2> QED
    BY <1>a, <1>b, <1>3, <2>1, <2>2 DEF TypeOK, locals
<1>5. Capacities'
  <2> SUFFICES ASSUME NEW k \in 1 .. Current + 1 PROVE Capacity(k)' \in Nat \ {0, 1}
    BY <1>3 DEF Capacities
  <2>1. CASE k \in 1 .. Current
    BY <1>3, <2>1 DEF IInv, Capacities
  <2>2. CASE k = Current + 1
    <3>1. k = Current'
      BY <1>3, <2>2
    <3>2. Capacity(k)' = Capacity(Current)'
      BY <3>1 DEF Capacity
    <3> QED
      BY <1>2, <1>3, <3>2
  <2> QED
    BY <1>2, <2>1, <2>2
<1>6. ASSUME NEW p \in Thieves PROVE ThiefKnown(p)'
  <2>1. UNCHANGED <<pc[p], t[p], buf[p], item[p]>>
    BY <1>a, <1>b DEF locals, Workers
  <2>2. \A i \in Nat : i = top /\ top' = top /\ top < End =>
           Held(i)' = Held(i) /\ \A k \in 1 .. Current : At(k, i)' = At(k, i)
    BY <1>1, <1>2, <1>3
  <2> QED
    BY <1>a, <1>1, <1>2, <2>1, <2>2, ThiefKeeps
<1>7. ThievesKnown'
  BY <1>6 DEF ThievesKnown
<1>8. IndicesInRange'
  BY <1>a, <1>1, <1>2, <1>3 DEF IndicesInRange
<1>9. OwnerKnown'
  BY <1>a, <1>b, <1>2, <1>3 DEF OwnerKnown, IInv, locals
<1> QED
  BY <1>4, <1>5, <1>7, <1>8, <1>9 DEF IInv

(* The task is stored before it is published.                              *)
LEMMA PushStoreStep ==
  ASSUME IInv, PushStore
  PROVE  IInv'
<1>a. /\ TypeOK /\ Owner \in Workers /\ Owner \notin Thieves
      /\ UNCHANGED <<top, bottom, locals, got>> /\ pushed' = pushed + 1
  BY WorkerAssumption DEF IInv, Workers, PushStore
<1>b. /\ pc[Owner] = "store" /\ pc'[Owner] = "publish"
      /\ \A q \in Workers \ {Owner} : pc'[q] = pc[q]
      /\ pc' \in [Workers -> {"idle", "grow", "store", "publish", "poptop", "race", "restore",
                              "bottom", "buffer", "read", "cas"}]
  BY <1>a, GotoEffect DEF PushStore
<1>1. ~Popping /\ ~Popping' /\ End' = End /\ End = bottom
  BY <1>a, <1>b DEF Popping, End
<1>2. /\ bottom \in Nat /\ top \in Nat /\ top <= bottom /\ bottom - top <= Capacity(Current) - 1
      /\ Capacity(Current) \in Nat \ {0, 1} /\ Current \in Nat \ {0}
  BY <1>1, Indices
<1>3. /\ Current' = Current
      /\ \A k \in 1 .. Current : Capacity(k)' = Capacity(k)
      /\ \A k \in 1 .. Current, i \in top .. bottom - 1 : At(k, i)' = At(k, i)
      /\ Held(bottom)' = pushed + 1
      /\ \A i \in top .. bottom - 1 : Held(i)' = Held(i)
      /\ buffers' \in Seq(Seq(Task \cup {Null})) /\ buffers' # <<>>
  BY StoreEffect
<1>4. pushed + 1 \in 0 .. MaxPush /\ pushed + 1 \in Task
  <2>1. pushed < MaxPush /\ pushed \in 0 .. MaxPush
    BY <1>b DEF IInv, OwnerKnown, TypeOK
  <2> QED
    BY <2>1, BoundAssumption DEF Task
<1>5. TypeOK'
  BY <1>a, <1>b, <1>3, <1>4 DEF TypeOK, locals
<1>6. Capacities'
  BY <1>3 DEF IInv, Capacities
<1>7. ASSUME NEW p \in Thieves PROVE ThiefKnown(p)'
  <2>1. UNCHANGED <<pc[p], t[p], buf[p], item[p]>>
    BY <1>a, <1>b DEF locals, Workers
  <2>2. \A i \in Nat : i = top /\ top' = top /\ top < End =>
           Held(i)' = Held(i) /\ \A k \in 1 .. Current : At(k, i)' = At(k, i)
    BY <1>1, <1>2, <1>3
  <2> QED
    BY <1>a, <1>1, <1>2, <2>1, <2>2, ThiefKeeps
<1>8. ThievesKnown'
  BY <1>7 DEF ThievesKnown
<1>9. Capacity(Current)' = Capacity(Current)
  <2>1. PICK n \in 1 .. Current : n = Current
    BY <1>2
  <2>2. Capacity(Current)' = Capacity(n)'
    BY <1>3, <2>1 DEF Capacity
  <2> QED
    BY <1>3, <2>1, <2>2
<1>10. IndicesInRange'
  BY <1>a, <1>1, <1>2, <1>9 DEF IndicesInRange
<1>11. OwnerKnown'
  BY <1>a, <1>b, <1>3, <1>4, <1>9 DEF OwnerKnown, IInv, locals
<1> QED
  BY <1>5, <1>6, <1>8, <1>10, <1>11 DEF IInv

(* The owner's steps at the bottom: what they have in common.              *)
BottomStep(to) ==
  /\ pc'[Owner] = to /\ \A q \in Workers \ {Owner} : pc'[q] = pc[q]
  /\ pc' \in [Workers -> {"idle", "grow", "store", "publish", "poptop", "race", "restore",
                          "bottom", "buffer", "read", "cas"}]
  /\ b' \in [Workers -> Nat \cup {-1}] /\ t' \in [Workers -> Nat]
  /\ \A q \in Thieves : t'[q] = t[q]
  /\ got' \in [Workers -> Task \cup {Null}]
  /\ UNCHANGED <<top, buffers, pushed, buf, item>>

(* They keep the invariant if they keep the ends in order.                 *)
LEMMA BottomKeeps ==
  ASSUME IInv, NEW to \in {"idle", "poptop", "race", "restore"}, BottomStep(to),
         bottom' \in Nat \cup {-1}, top <= End', End' - top <= Capacity(Current) - 1,
         top < End => top < End',
         to # "idle" => b'[Owner] = bottom',
         to = "race" => t'[Owner] = bottom' /\ t'[Owner] <= top
  PROVE  IInv'
<1>a. TypeOK /\ Owner \notin Thieves /\ Capacity(Current)' = Capacity(Current) /\ Current' = Current
  BY SlotsStay, WorkerAssumption DEF IInv, BottomStep
<1>1. TypeOK'
  BY <1>a DEF TypeOK, BottomStep
<1>2. ThievesKnown' /\ Capacities'
  BY <1>a, OwnerQuiet DEF BottomStep, Workers
<1>3. IndicesInRange'
  BY <1>a DEF IndicesInRange, BottomStep
<1>4. OwnerKnown'
  BY <1>a DEF OwnerKnown, BottomStep
<1> QED
  BY <1>1, <1>2, <1>3, <1>4 DEF IInv

(* The steps at the bottom that leave top alone.                           *)
LEMMA BottomStepKeeps ==
  ASSUME IInv, PushPublish \/ PopReserve \/ PopMany \/ PopLast \/ PopEmpty \/ PopRestore
  PROVE  IInv'
<1>a. TypeOK /\ Owner \in Workers /\ Owner \notin Thieves
  BY WorkerAssumption DEF IInv, Workers
<1>b. /\ top \in Nat /\ bottom \in Nat \cup {-1} /\ End \in Nat
      /\ top <= End /\ End - top <= Capacity(Current) - 1 /\ Capacity(Current) \in Nat
      /\ Popping => End = bottom + 1
      /\ ~Popping => End = bottom
  BY Indices
<1>c. /\ got \in [Workers -> Task \cup {Null}] /\ b \in [Workers -> Nat \cup {-1}]
      /\ t \in [Workers -> Nat]
  BY <1>a DEF TypeOK
<1>1. CASE PushPublish
  <2>1. pc[Owner] = "publish" /\ BottomStep("idle")
    BY <1>1, <1>a, <1>c, GotoEffect, ForgetEffect DEF PushPublish, BottomStep, Workers
  <2>2. bottom' = bottom + 1 /\ bottom - top < Capacity(Current) - 1
    BY <1>1, <2>1 DEF PushPublish, IInv, OwnerKnown
  <2>3. ~Popping /\ ~Popping'
    BY <2>1 DEF Popping, BottomStep
  <2>4. End' = End + 1 /\ bottom' \in Nat
    BY <1>b, <2>2, <2>3 DEF End
  <2> QED
    BY <1>b, <2>1, <2>2, <2>3, <2>4, BottomKeeps
<1>2. CASE PopReserve
  <2>1. /\ pc[Owner] = "idle" /\ bottom' = bottom - 1 /\ b' = [b EXCEPT ![Owner] = bottom - 1]
        /\ UNCHANGED <<top, buffers, t, buf, item, got>>
    BY <1>2 DEF PopReserve, Goto
  <2>2. ~Popping
    BY <2>1 DEF Popping
  <2>3. bottom' \in Nat \cup {-1} /\ bottom' + 1 = bottom
    BY <1>b, <2>1, <2>2
  <2>4. BottomStep("poptop")
    BY <1>2, <1>a, <1>c, <2>1, <2>3, GotoEffect DEF PopReserve, BottomStep
  <2>5. Popping' /\ b'[Owner] = bottom'
    BY <1>a, <1>c, <2>1, <2>4 DEF Popping, BottomStep
  <2>6. End' = End
    BY <1>b, <2>2, <2>3, <2>5 DEF End
  <2> QED
    BY <1>b, <2>3, <2>4, <2>5, <2>6, BottomKeeps
<1>3. CASE PopMany
  <2>1. pc[Owner] = "poptop" /\ bottom' = bottom /\ top < b[Owner] /\ b[Owner] = bottom
    BY <1>3 DEF PopMany, Goto, IInv, OwnerKnown
  <2>2. Held(b[Owner]) \in Task \cup {Null}
    <3>1. b[Owner] \in Int /\ Current \in 1 .. Current
      BY <1>b, <2>1, Indices
    <3> QED
      BY <3>1, SlotInside DEF IInv, Held
  <2>3. BottomStep("idle")
    BY <1>3, <1>a, <1>c, <2>2, GotoEffect, ForgetEffect DEF PopMany, Return, BottomStep, Held, Workers
  <2>4. Popping /\ ~Popping'
    BY <2>1, <2>3 DEF Popping, BottomStep
  <2>5. End = bottom + 1 /\ End' = bottom
    BY <1>b, <2>1, <2>4 DEF End
  <2> QED
    BY <1>b, <2>1, <2>3, <2>5, BottomKeeps
<1>4. CASE PopLast
  <2>1. /\ pc[Owner] = "poptop" /\ bottom' = bottom /\ top = b[Owner] /\ b[Owner] = bottom
        /\ t' = [t EXCEPT ![Owner] = top]
    BY <1>4 DEF PopLast, Goto, IInv, OwnerKnown
  <2>2. BottomStep("race") /\ b' = b /\ t'[Owner] = top
    BY <1>4, <1>a, <1>b, <1>c, <2>1, GotoEffect DEF PopLast, BottomStep, Workers
  <2>3. Popping /\ Popping'
    BY <2>1, <2>2 DEF Popping, BottomStep
  <2>4. End' = End
    BY <2>1, <2>3 DEF End
  <2> QED
    BY <1>b, <2>1, <2>2, <2>4, BottomKeeps
<1>5. CASE PopEmpty
  <2>1. /\ pc[Owner] = "poptop" /\ bottom' = bottom /\ b[Owner] = bottom
        /\ got' = [got EXCEPT ![Owner] = Null]
    BY <1>5 DEF PopEmpty, Goto, IInv, OwnerKnown
  <2>2. BottomStep("restore") /\ b' = b
    BY <1>5, <1>a, <1>c, <2>1, GotoEffect DEF PopEmpty, BottomStep, locals
  <2>3. Popping /\ Popping'
    BY <2>1, <2>2 DEF Popping, BottomStep
  <2>4. End' = End
    BY <2>1, <2>3 DEF End
  <2> QED
    BY <1>b, <2>1, <2>2, <2>4, BottomKeeps
<1>6. CASE PopRestore
  <2>1. pc[Owner] = "restore" /\ bottom' = b[Owner] + 1 /\ b[Owner] = bottom
    BY <1>6 DEF PopRestore, Goto, IInv, OwnerKnown
  <2>2. BottomStep("idle")
    BY <1>6, <1>a, <1>c, GotoEffect, ForgetEffect DEF PopRestore, BottomStep, Workers
  <2>3. Popping /\ ~Popping'
    BY <2>1, <2>2 DEF Popping, BottomStep
  <2>4. End' = End /\ bottom' \in Nat
    BY <1>b, <2>1, <2>3 DEF End
  <2> QED
    BY <1>b, <2>2, <2>4, BottomKeeps
<1> QED
  BY <1>1, <1>2, <1>3, <1>4, <1>5, <1>6

(* The owner and the thieves raise top, by one, when it is what they read: *)
(* what the others know of an older top no longer matters.                 *)
LEMMA Raised ==
  ASSUME IInv, top' = top + 1, top < End, End' = End, UNCHANGED <<bottom, buffers>>,
         NEW p \in Thieves, UNCHANGED <<pc[p], t[p], buf[p], item[p]>>
  PROVE  ThiefKnown(p)'
<1>1. top \in Nat /\ top' \in Nat /\ top <= top' /\ top' # top
  BY Indices
<1> QED
  BY <1>1, ThiefKeeps

(* The last task is the owner's if no thief was faster.                    *)
LEMMA PopRaceStep ==
  ASSUME IInv, PopRace
  PROVE  IInv'
<1>a. /\ TypeOK /\ Owner \in Workers /\ Owner \notin Thieves /\ UNCHANGED <<bottom, buffers, pushed, locals>>
  BY WorkerAssumption DEF IInv, Workers, PopRace
<1>b. /\ pc[Owner] = "race" /\ pc'[Owner] = "restore"
      /\ \A q \in Workers \ {Owner} : pc'[q] = pc[q]
      /\ pc' \in [Workers -> {"idle", "grow", "store", "publish", "poptop", "race", "restore",
                              "bottom", "buffer", "read", "cas"}]
  BY <1>a, GotoEffect DEF PopRace
<1>c. /\ top \in Nat /\ bottom \in Nat \cup {-1} /\ top <= End /\ End - top <= Capacity(Current) - 1
      /\ Capacity(Current) \in Nat
  BY Indices
<1>1. Popping /\ Popping' /\ End' = End /\ End = bottom + 1
  BY <1>a, <1>b DEF Popping, End
<1>2. b[Owner] = bottom /\ t[Owner] = bottom /\ bottom \in Nat
  BY <1>b, <1>a DEF IInv, OwnerKnown, TypeOK
<1>3. Capacity(Current)' = Capacity(Current) /\ Current' = Current
  BY <1>a, SlotsStay
<1>4. CASE top = t[Owner]
  <2>1. top' = top + 1 /\ got' = [got EXCEPT ![Owner] = Held(bottom)] /\ top < End
    BY <1>1, <1>2, <1>4, <1>c DEF PopRace, Held
  <2>2. Held(bottom) \in Task \cup {Null}
    <3>1. Current \in 1 .. Current /\ bottom \in Int
      BY <1>2, Indices
    <3> QED
      BY <3>1, SlotInside DEF IInv, Held
  <2>3. TypeOK'
    BY <1>a, <1>b, <1>c, <1>3, <2>1, <2>2 DEF TypeOK, locals
  <2>4. ASSUME NEW p \in Thieves PROVE ThiefKnown(p)'
    BY <1>a, <1>b, <1>1, <2>1, Raised DEF locals, Workers
  <2>5. ThievesKnown' /\ Capacities'
    BY <1>a, <2>4, SlotsStay DEF ThievesKnown, Capacities, IInv
  <2>6. IndicesInRange'
    BY <1>c, <1>1, <1>3, <2>1 DEF IndicesInRange
  <2>7. OwnerKnown'
    BY <1>a, <1>b, <1>2 DEF OwnerKnown, locals
  <2> QED
    BY <2>3, <2>5, <2>6, <2>7 DEF IInv
<1>5. CASE top # t[Owner]
  <2>1. top' = top /\ got' = [got EXCEPT ![Owner] = Null]
    BY <1>5 DEF PopRace
  <2>2. BottomStep("restore") /\ b' = b
    BY <1>a, <1>b, <2>1 DEF BottomStep, locals, TypeOK
  <2> QED
    BY <1>a, <1>c, <1>1, <1>2, <2>1, <2>2, BottomKeeps
<1> QED
  BY <1>4, <1>5

(* A thief's step: the others keep what they know.                         *)
LEMMA ThiefKeepsAll ==
  ASSUME IInv, NEW p \in Thieves,
         UNCHANGED <<bottom, buffers, pushed>>, top' = top \/ (top' = top + 1 /\ top < End),
         \A q \in Workers \ {p} : pc'[q] = pc[q] /\ t'[q] = t[q] /\ b'[q] = b[q],
         \A q \in Thieves \ {p} : buf'[q] = buf[q] /\ item'[q] = item[q],
         TypeOK', ThiefKnown(p)'
  PROVE  IInv'
<1>a. Owner \in Workers \ {p} /\ Thieves \subseteq Workers
  BY WorkerAssumption DEF Workers
<1>b. /\ top \in Nat /\ End \in Nat /\ top <= End /\ End - top <= Capacity(Current) - 1 /\ Capacity(Current) \in Nat
      /\ bottom \in Int
  BY Indices
<1>1. /\ \A i \in Int : Held(i)' = Held(i)
      /\ \A k \in 1 .. Current, i \in Int : At(k, i)' = At(k, i)
      /\ Current' = Current /\ \A k \in 1 .. Current : Capacity(k)' = Capacity(k)
      /\ Capacity(Current)' = Capacity(Current)
  BY SlotsStay
<1>2. End' = End
  BY <1>a DEF End, Popping
<1>3. ASSUME NEW q \in Thieves PROVE ThiefKnown(q)'
  <2>1. CASE q = p
    BY <2>1
  <2>2. CASE q # p
    BY <1>a, <1>b, <1>1, <1>2, <2>2, ThiefKeeps
  <2> QED
    BY <2>1, <2>2
<1>4. ThievesKnown' /\ Capacities'
  BY <1>1, <1>3 DEF ThievesKnown, Capacities, IInv
<1>5. IndicesInRange'
  BY <1>b, <1>1, <1>2 DEF IndicesInRange
<1>6. OwnerKnown'
  <2>1. /\ pc'[Owner] = pc[Owner] /\ b'[Owner] = b[Owner] /\ t'[Owner] = t[Owner]
        /\ OwnerKnown /\ top' \in Nat /\ top <= top'
    BY <1>a, <1>b DEF IInv
  <2>2. Held(bottom)' = Held(bottom)
    <3>1. PICK i \in Int : i = bottom
      BY <1>b
    <3>2. Held(bottom)' = Held(i)' /\ Held(bottom) = Held(i)
      BY <3>1 DEF Held, At, Slot
    <3> QED
      BY <1>1, <3>2
  <2>3. /\ bottom' = bottom /\ pushed' = pushed /\ t[Owner] \in Nat
    BY <1>a DEF IInv, TypeOK
  <2> QED
    BY <1>b, <1>1, <2>1, <2>2, <2>3 DEF OwnerKnown
<1> QED
  BY <1>4, <1>5, <1>6 DEF IInv

(* A thief's read of top, its tests and its reads of the buffer.           *)
LEMMA StealReads ==
  ASSUME IInv, NEW p \in Thieves,
         StealTop(p) \/ StealBottom(p) \/ StealNothing(p) \/ StealBuffer(p) \/ StealRead(p)
  PROVE  IInv'
<1>a. /\ TypeOK /\ p \in Workers /\ p # Owner /\ UNCHANGED <<top, bottom, buffers, pushed>>
      /\ t[p] \in Nat /\ buf[p] \in 1 .. Current /\ ThiefKnown(p)
  BY WorkerAssumption
  DEF IInv, TypeOK, Workers, ThievesKnown, StealTop, StealBottom, StealNothing, StealBuffer, StealRead
<1>b. /\ top \in Nat /\ End \in Nat /\ bottom \in Int /\ top <= End /\ bottom <= End
      /\ Current \in 1 .. Current
  BY Indices
<1>c. Current' = Current /\ \A i \in Int : Held(i)' = Held(i)
  BY <1>a, SlotsStay
<1>1. CASE StealTop(p)
  <2>1. /\ pc'[p] = "bottom" /\ \A q \in Workers \ {p} : pc'[q] = pc[q]
        /\ pc' \in [Workers -> {"idle", "grow", "store", "publish", "poptop", "race", "restore",
                                "bottom", "buffer", "read", "cas"}]
    BY <1>1, <1>a, GotoEffect DEF StealTop
  <2>2. /\ t' = [t EXCEPT ![p] = top] /\ UNCHANGED <<b, buf, item, got>>
    BY <1>1 DEF StealTop
  <2>3. TypeOK'
    BY <1>a, <1>b, <1>c, <2>1, <2>2 DEF TypeOK
  <2>4. ThiefKnown(p)'
    BY <1>a, <1>b, <2>1, <2>2 DEF ThiefKnown, TypeOK
  <2>5. \A q \in Workers \ {p} : t'[q] = t[q]
    BY <1>a, <2>2 DEF TypeOK
  <2> QED
    BY <1>a, <2>1, <2>2, <2>3, <2>4, <2>5, ThiefKeepsAll
<1>2. CASE StealBottom(p)
  <2>1. /\ pc'[p] = "buffer" /\ \A q \in Workers \ {p} : pc'[q] = pc[q]
        /\ pc' \in [Workers -> {"idle", "grow", "store", "publish", "poptop", "race", "restore",
                                "bottom", "buffer", "read", "cas"}]
    BY <1>2, <1>a, GotoEffect DEF StealBottom
  <2>2. UNCHANGED <<t, b, buf, item, got>> /\ t[p] < bottom
    BY <1>2 DEF StealBottom, locals
  <2>3. TypeOK'
    BY <1>a, <1>b, <1>c, <2>1, <2>2 DEF TypeOK
  <2>4. End' = End
    BY <1>a, <2>1 DEF End, Popping, Workers
  <2>5. ThiefKnown(p)'
    BY <1>a, <1>b, <2>1, <2>2, <2>4 DEF ThiefKnown
  <2> QED
    BY <1>a, <2>1, <2>2, <2>3, <2>5, ThiefKeepsAll
<1>3. CASE StealNothing(p)
  <2>1. /\ pc'[p] = "idle" /\ \A q \in Workers \ {p} : pc'[q] = pc[q]
        /\ pc' \in [Workers -> {"idle", "grow", "store", "publish", "poptop", "race", "restore",
                                "bottom", "buffer", "read", "cas"}]
    BY <1>3, <1>a, GotoEffect DEF StealNothing
  <2>2. /\ b' \in [Workers -> Nat \cup {-1}] /\ t' \in [Workers -> Nat]
        /\ buf' \in [Thieves -> 1 .. Current] /\ item' \in [Thieves -> Task \cup {Null}]
        /\ t'[p] = 0 /\ \A q \in Workers \ {p} : b'[q] = b[q] /\ t'[q] = t[q]
        /\ \A q \in Thieves \ {p} : buf'[q] = buf[q] /\ item'[q] = item[q]
        /\ got' = [got EXCEPT ![p] = Null]
    BY <1>3, <1>a, ForgetEffect DEF StealNothing, Return
  <2>3. TypeOK'
    BY <1>a, <1>b, <1>c, <2>1, <2>2 DEF TypeOK
  <2>4. ThiefKnown(p)'
    BY <1>a, <1>b, <2>1, <2>2 DEF ThiefKnown
  <2> QED
    BY <1>a, <2>1, <2>2, <2>3, <2>4, ThiefKeepsAll
<1>4. CASE StealBuffer(p)
  <2>1. /\ pc'[p] = "read" /\ \A q \in Workers \ {p} : pc'[q] = pc[q] /\ pc[p] = "buffer"
        /\ pc' \in [Workers -> {"idle", "grow", "store", "publish", "poptop", "race", "restore",
                                "bottom", "buffer", "read", "cas"}]
    BY <1>4, <1>a, GotoEffect DEF StealBuffer
  <2>2. UNCHANGED <<t, b, item, got>> /\ buf' = [buf EXCEPT ![p] = Current]
    BY <1>4 DEF StealBuffer
  <2>3. TypeOK'
    BY <1>a, <1>b, <1>c, <2>1, <2>2 DEF TypeOK
  <2>4. End' = End
    BY <1>a, <2>1 DEF End, Popping, Workers
  <2>5. pc[p] = "buffer" /\ buf'[p] = Current
    BY <1>a, <1>4, <2>2 DEF StealBuffer, Goto, TypeOK
  <2>6. At(buf[p], top)' = Held(top)'
    BY <1>c, <2>5 DEF Held
  <2>7. ThiefKnown(p)'
    BY <1>a, <2>1, <2>2, <2>4, <2>5, <2>6 DEF ThiefKnown
  <2>8. \A q \in Thieves \ {p} : buf'[q] = buf[q]
    BY <1>a, <2>2 DEF TypeOK
  <2> QED
    BY <1>a, <2>1, <2>2, <2>3, <2>7, <2>8, ThiefKeepsAll
<1>5. CASE StealRead(p)
  <2>1. /\ pc'[p] = "cas" /\ \A q \in Workers \ {p} : pc'[q] = pc[q]
        /\ pc' \in [Workers -> {"idle", "grow", "store", "publish", "poptop", "race", "restore",
                                "bottom", "buffer", "read", "cas"}]
    BY <1>5, <1>a, GotoEffect DEF StealRead
  <2>2. /\ UNCHANGED <<t, b, buf, got>> /\ item' = [item EXCEPT ![p] = At(buf[p], t[p])]
        /\ pc[p] = "read"
    BY <1>5 DEF StealRead, Goto
  <2>3. At(buf[p], t[p]) \in Task \cup {Null}
    BY <1>a, SlotInside DEF IInv
  <2>4. TypeOK'
    BY <1>a, <1>b, <1>c, <2>1, <2>2, <2>3 DEF TypeOK
  <2>5. End' = End
    BY <1>a, <2>1 DEF End, Popping, Workers
  <2>6. Held(top)' = Held(top)
    BY <1>a DEF Held, At, Slot, Capacity, Current
  <2>7. item'[p] = At(buf[p], t[p])
    BY <1>a, <2>2 DEF TypeOK
  <2>8. ThiefKnown(p)'
    BY <1>a, <2>1, <2>2, <2>5, <2>6, <2>7 DEF ThiefKnown
  <2>9. \A q \in Thieves \ {p} : item'[q] = item[q]
    BY <1>a, <2>2 DEF TypeOK
  <2> QED
    BY <1>a, <2>1, <2>2, <2>4, <2>8, <2>9, ThiefKeepsAll
<1> QED
  BY <1>1, <1>2, <1>3, <1>4, <1>5

(* The compare-and-swap of a thief.                                        *)
LEMMA StealCasStep ==
  ASSUME IInv, NEW p \in Thieves, StealCas(p)
  PROVE  IInv'
<1>a. /\ TypeOK /\ p \in Workers /\ p # Owner /\ UNCHANGED <<bottom, buffers, pushed>>
      /\ t[p] \in Nat /\ item[p] \in Task \cup {Null} /\ ThiefKnown(p)
  BY WorkerAssumption DEF IInv, TypeOK, Workers, ThievesKnown, StealCas
<1>b. top \in Nat /\ End \in Nat
  BY Indices
<1>1. /\ pc[p] = "cas" /\ pc'[p] = "idle" /\ \A q \in Workers \ {p} : pc'[q] = pc[q]
      /\ pc' \in [Workers -> {"idle", "grow", "store", "publish", "poptop", "race", "restore",
                              "bottom", "buffer", "read", "cas"}]
  BY <1>a, GotoEffect DEF StealCas
<1>2. /\ Forget(p) /\ got' \in [Workers -> Task \cup {Null}]
      /\ top' = top \/ (top' = top + 1 /\ top < End)
  <2>1. CASE top = t[p]
    BY <1>a, <1>1, <2>1 DEF StealCas, Return, TypeOK, ThiefKnown
  <2>2. CASE top # t[p]
    BY <1>a, <2>2 DEF StealCas, Return, TypeOK
  <2> QED
    BY <2>1, <2>2
<1>3. /\ b' \in [Workers -> Nat \cup {-1}] /\ t' \in [Workers -> Nat]
      /\ buf' \in [Thieves -> 1 .. Current] /\ item' \in [Thieves -> Task \cup {Null}]
      /\ t'[p] = 0 /\ \A q \in Workers \ {p} : b'[q] = b[q] /\ t'[q] = t[q]
      /\ \A q \in Thieves \ {p} : buf'[q] = buf[q] /\ item'[q] = item[q]
  BY <1>a, <1>2, ForgetEffect
<1>4. top' \in Nat /\ Current' = Current
  BY <1>a, <1>b, <1>2, SlotsStay
<1>5. TypeOK'
  BY <1>a, <1>1, <1>2, <1>3, <1>4 DEF TypeOK
<1>6. ThiefKnown(p)'
  BY <1>1, <1>3, <1>4 DEF ThiefKnown
<1> QED
  BY <1>a, <1>1, <1>2, <1>3, <1>5, <1>6, ThiefKeepsAll

(* An empty deque.                                                         *)
LEMMA InvariantInit == Init => IInv
<1> SUFFICES ASSUME Init PROVE IInv
  OBVIOUS
<1>a. /\ InitialCapacity \in Nat \ {0, 1} /\ MaxPush \in Nat /\ Owner \in Workers
      /\ EmptyBuffer(InitialCapacity) \in Seq(Task \cup {Null})
      /\ Len(EmptyBuffer(InitialCapacity)) = InitialCapacity
  BY CapacityAssumption, BoundAssumption DEF Workers, EmptyBuffer
<1>1. Current = 1 /\ Capacity(Current) = InitialCapacity /\ Capacity(1) = InitialCapacity
  BY <1>a DEF Init, Current, Capacity
<1>2. TypeOK
  BY <1>a, <1>1 DEF Init, TypeOK
<1>3. Capacities
  BY <1>a, <1>1 DEF Capacities
<1>4. ~Popping /\ End = 0
  BY <1>a DEF Init, Popping, End
<1>5. IndicesInRange
  BY <1>a, <1>1, <1>4 DEF Init, IndicesInRange
<1>6. OwnerKnown /\ ThievesKnown
  BY <1>a DEF Init, OwnerKnown, ThievesKnown, ThiefKnown, Workers
<1> QED
  BY <1>2, <1>3, <1>5, <1>6 DEF IInv

(* Every step keeps the inductive invariant.                               *)
LEMMA InvariantStep == IInv /\ [Next]_vars => IInv'
<1> SUFFICES ASSUME IInv, [Next]_vars PROVE IInv'
  OBVIOUS
<1>1. CASE OwnerStep
  BY <1>1, PushLoadStep, GrowStep, PushStoreStep, BottomStepKeeps, PopRaceStep DEF OwnerStep
<1>2. ASSUME NEW p \in Thieves, ThiefStep(p) PROVE IInv'
  BY <1>2, StealReads, StealCasStep DEF ThiefStep
<1>3. CASE UNCHANGED vars
  BY <1>3 DEF vars, locals, IInv, TypeOK, Capacities, IndicesInRange, OwnerKnown, ThievesKnown,
              ThiefKnown, Held, At, Slot, Capacity, Current, End, Popping
<1> QED
  BY <1>1, <1>2, <1>3 DEF Next

(* Every reachable state satisfies the inductive invariant: what the owner *)
(* and the thieves have read agrees with the deque, as far as top and      *)
(* bottom are what they were.                                              *)
THEOREM Invariant == Spec => []IInv
  BY InvariantInit, InvariantStep, PTL DEF Spec

(* top and bottom keep room for another task, and a thief whose            *)
(* compare-and-swap would succeed has read the task that is at the top,    *)
(* although the owner may have grown the buffer and pushed in between.     *)
THEOREM ThievesReadFresh == Spec => []ReadIsFresh
<1>1. IInv => ReadIsFresh
  BY DEF IInv, ThievesKnown, ThiefKnown, ReadIsFresh, Held
<1> QED
  BY <1>1, Invariant, PTL

-----------------------------------------------------------------------------
(* The deque implements TaskDeque *)

(* The contents as a sequence of the tasks held between top and End.       *)
Described ==
  /\ top \in Nat /\ End \in Nat /\ top <= End
  /\ Contents \in Seq(Task \cup {Null}) /\ Len(Contents) = End - top
  /\ \A i \in 1 .. End - top : Contents[i] = Held(top + i - 1)

LEMMA ContentsDescribed == IInv => Described
<1> SUFFICES ASSUME IInv PROVE Described
  OBVIOUS
<1>1. /\ top \in Nat /\ End \in Nat /\ top <= End /\ Current \in 1 .. Current
  BY Indices
<1>2. PICK n \in Nat, T \in Nat : n = End - top /\ T = top
  BY <1>1
<1>3. Contents = [i \in 1 .. n |-> Held(T + i - 1)]
  BY <1>2 DEF Contents, Held
<1>4. \A i \in 1 .. n : Held(T + i - 1) \in Task \cup {Null}
  <2> SUFFICES ASSUME NEW i \in 1 .. n PROVE Held(T + i - 1) \in Task \cup {Null}
    OBVIOUS
  <2>1. T + i - 1 \in Int
    BY <1>2
  <2> QED
    BY <1>1, <2>1, SlotInside DEF IInv, Held
<1>5. Contents \in Seq(Task \cup {Null}) /\ Len(Contents) = n
  BY <1>3, <1>4
<1> QED
  BY <1>1, <1>2, <1>3, <1>5 DEF Described

(* The same in the next state.                                             *)
LEMMA ContentsDescribedNext == IInv' => Described'
  BY ContentsDescribed, PTL

(* Neither the ends move nor what is held.                                 *)
LEMMA SameContents ==
  ASSUME Described, Described', top' = top, End' = End,
         \A i \in top .. End - 1 : Held(i)' = Held(i)
  PROVE  Contents' = Contents
<1>1. PICK n \in Nat, T \in Nat : n = End - top /\ T = top /\ n = End' - top' /\ T = top'
  BY DEF Described
<1>2. /\ Contents \in Seq(Task \cup {Null}) /\ Len(Contents) = n
      /\ Contents' \in Seq(Task \cup {Null}) /\ Len(Contents') = n
  BY <1>1 DEF Described
<1>3. \A i \in 1 .. n : Contents[i] = Held(T + i - 1) /\ Contents'[i] = Held(T + i - 1)'
  BY <1>1 DEF Described, Held, At, Slot
<1>4. \A i \in 1 .. n : Held(T + i - 1)' = Held(T + i - 1)
  BY <1>1 DEF Described
<1>5. \A i \in 1 .. n : Contents'[i] = Contents[i]
  BY <1>3, <1>4
<1> QED
  BY <1>2, <1>5, SeqEqual

(* A task is published behind the last.                                    *)
LEMMA OneMore ==
  ASSUME Described, Described', top' = top, End' = End + 1, NEW x \in Task,
         \A i \in Nat : i = End => Held(i)' = x,
         \A i \in top .. End - 1 : Held(i)' = Held(i)
  PROVE  Contents' = Append(Contents, x)
<1>1. PICK n \in Nat, T \in Nat, e \in Nat :
         /\ n = End - top /\ T = top /\ n + 1 = End' - top' /\ T = top' /\ e = End /\ e = T + n
  BY DEF Described
<1>2. /\ Contents \in Seq(Task \cup {Null}) /\ Len(Contents) = n
      /\ Contents' \in Seq(Task \cup {Null}) /\ Len(Contents') = n + 1
  BY <1>1 DEF Described
<1>3. /\ \A i \in 1 .. n : Contents[i] = Held(T + i - 1)
      /\ \A i \in 1 .. n + 1 : Contents'[i] = Held(T + i - 1)'
  BY <1>1 DEF Described, Held, At, Slot
<1>4. \A i \in 1 .. n : Held(T + i - 1)' = Held(T + i - 1)
  <2>1. \A i \in 1 .. n : T + i - 1 \in top .. End - 1
    BY <1>1
  <2> QED
    BY <2>1
<1>5. Contents'[n + 1] = x
  <2>1. Held(e)' = x
    BY <1>1
  <2>2. T + (n + 1) - 1 = e /\ n + 1 \in 1 .. n + 1
    BY <1>1
  <2> QED
    BY <1>3, <2>1, <2>2
<1>6. /\ Append(Contents, x) \in Seq(Task \cup {Null}) /\ Len(Append(Contents, x)) = n + 1
      /\ \A i \in 1 .. n : Append(Contents, x)[i] = Contents[i]
      /\ Append(Contents, x)[n + 1] = x
  BY <1>2
<1>7. \A i \in 1 .. n + 1 : Contents'[i] = Append(Contents, x)[i]
  BY <1>3, <1>4, <1>5, <1>6
<1> QED
  BY <1>2, <1>6, <1>7, SeqEqual

(* The first is taken.                                                     *)
LEMMA WithoutFirst ==
  ASSUME Described, Described', top' = top + 1, End' = End, top < End, UNCHANGED buffers
  PROVE  Contents # <<>> /\ Contents' = Tail(Contents) /\ Head(Contents) = Held(top)
<1>1. PICK n \in Nat \ {0}, T \in Nat :
         /\ n = End - top /\ T = top /\ n - 1 = End' - top' /\ T + 1 = top'
  BY DEF Described
<1>2. /\ Contents \in Seq(Task \cup {Null}) /\ Len(Contents) = n
      /\ Contents' \in Seq(Task \cup {Null}) /\ Len(Contents') = n - 1
  BY <1>1 DEF Described
<1>3. /\ \A i \in 1 .. n : Contents[i] = Held(T + i - 1)
      /\ \A i \in 1 .. n - 1 : Contents'[i] = Held(T + 1 + i - 1)'
  BY <1>1 DEF Described, Held, At, Slot
<1>4. \A i \in 1 .. n - 1 : Contents'[i] = Contents[i + 1]
  <2> SUFFICES ASSUME NEW i \in 1 .. n - 1 PROVE Contents'[i] = Contents[i + 1]
    OBVIOUS
  <2>1. T + 1 + i - 1 = T + (i + 1) - 1 /\ i + 1 \in 1 .. n /\ T + 1 + i - 1 \in Int
    BY <1>1
  <2>2. Held(T + 1 + i - 1)' = Held(T + 1 + i - 1)
    BY <2>1, SlotsStay
  <2> QED
    BY <1>3, <2>1, <2>2
<1>5. /\ Contents # <<>> /\ Tail(Contents) \in Seq(Task \cup {Null}) /\ Len(Tail(Contents)) = n - 1
      /\ \A i \in 1 .. n - 1 : Tail(Contents)[i] = Contents[i + 1]
  BY <1>2
<1>6. Contents' = Tail(Contents)
  <2>1. Len(Contents') = Len(Tail(Contents)) /\ \A i \in 1 .. Len(Contents') : Contents'[i] = Tail(Contents)[i]
    BY <1>2, <1>4, <1>5
  <2> QED
    BY <1>2, <1>5, <2>1, SeqEqual
<1>7. Head(Contents) = Held(top)
  <2>1. 1 \in 1 .. n /\ T + 1 - 1 = T
    BY <1>1
  <2> QED
    BY <1>1, <1>2, <1>3, <1>5, <2>1
<1> QED
  BY <1>5, <1>6, <1>7

(* The last is taken: bottom is lowered past it, or top raised past the    *)
(* only one.                                                               *)
LEMMA WithoutLast ==
  ASSUME Described, Described', UNCHANGED buffers, top < End,
         \/ top' = top /\ End' = End - 1
         \/ top' = top + 1 /\ End' = End /\ End = top + 1
  PROVE  /\ Contents # <<>> /\ Contents' = Abstract!Front(Contents)
         /\ Abstract!Last(Contents) = Held(End - 1)
<1>1. PICK n \in Nat \ {0}, T \in Nat, e \in Nat :
         /\ n = End - top /\ T = top /\ n - 1 = End' - top' /\ e = End - 1 /\ e = T + n - 1
         /\ n # 1 => T = top'
  <2>1. top \in Nat /\ End \in Nat /\ End - top \in Nat \ {0} /\ End - 1 \in Nat
    BY DEF Described
  <2>2. CASE top' = top /\ End' = End - 1
    BY <2>1, <2>2
  <2>3. CASE top' = top + 1 /\ End' = End /\ End = top + 1
    BY <2>1, <2>3
  <2> QED
    BY <2>2, <2>3
<1>2. /\ Contents \in Seq(Task \cup {Null}) /\ Len(Contents) = n
      /\ Contents' \in Seq(Task \cup {Null}) /\ Len(Contents') = n - 1
  BY <1>1 DEF Described
<1>3. /\ \A i \in 1 .. n : Contents[i] = Held(T + i - 1)
      /\ n # 1 => \A i \in 1 .. n - 1 : Contents'[i] = Held(T + i - 1)'
  BY <1>1 DEF Described, Held, At, Slot
<1>4. \A i \in 1 .. n - 1 : Contents'[i] = Contents[i]
  <2> SUFFICES ASSUME NEW i \in 1 .. n - 1 PROVE Contents'[i] = Contents[i]
    OBVIOUS
  <2>1. T + i - 1 \in Int /\ i \in 1 .. n /\ n # 1
    BY <1>1
  <2>2. Held(T + i - 1)' = Held(T + i - 1)
    BY <2>1, SlotsStay
  <2> QED
    BY <1>3, <2>1, <2>2
<1>5. /\ Abstract!Front(Contents) \in Seq(Task \cup {Null}) /\ Len(Abstract!Front(Contents)) = n - 1
      /\ \A i \in 1 .. n - 1 : Abstract!Front(Contents)[i] = Contents[i]
  <2>1. Abstract!Front(Contents) = SubSeq(Contents, 1, n - 1)
    BY <1>2 DEF Abstract!Front
  <2>2. 1 \in Int /\ n - 1 \in Int /\ \A i \in 1 .. n - 1 : Contents[i] \in Task \cup {Null}
    BY <1>1, <1>2
  <2>3. /\ SubSeq(Contents, 1, n - 1) \in Seq(Task \cup {Null})
        /\ Len(SubSeq(Contents, 1, n - 1)) = IF 1 <= n - 1 THEN n - 1 - 1 + 1 ELSE 0
        /\ \A i \in 1 .. n - 1 - 1 + 1 : SubSeq(Contents, 1, n - 1)[i] = Contents[1 + i - 1]
    BY <2>2, SubSeqProperties
  <2>4. n - 1 - 1 + 1 = n - 1 /\ (IF 1 <= n - 1 THEN n - 1 - 1 + 1 ELSE 0) = n - 1
    BY <1>1
  <2>5. \A i \in 1 .. n - 1 : 1 + i - 1 = i
    OBVIOUS
  <2>6. \A i \in 1 .. n - 1 : SubSeq(Contents, 1, n - 1)[i] = Contents[i]
    BY <2>3, <2>4, <2>5
  <2> QED
    BY <2>1, <2>3, <2>4, <2>6
<1>6. Contents' = Abstract!Front(Contents)
  <2>1. /\ Len(Contents') = Len(Abstract!Front(Contents))
        /\ \A i \in 1 .. Len(Contents') : Contents'[i] = Abstract!Front(Contents)[i]
    BY <1>2, <1>4, <1>5
  <2> QED
    BY <1>2, <1>5, <2>1, SeqEqual
<1>7. Abstract!Last(Contents) = Held(End - 1) /\ Contents # <<>>
  <2>1. n \in 1 .. n
    BY <1>1
  <2> QED
    BY <1>1, <1>2, <1>3, <2>1 DEF Abstract!Last
<1> QED
  BY <1>6, <1>7

(* Steps that neither move the ends nor touch a task.                      *)
LEMMA Stutters ==
  ASSUME IInv, IInv', top' = top, End' = End, got' = got,
         UNCHANGED buffers \/ Grow \/ PushStore
  PROVE  UNCHANGED <<Contents, got>>
<1>1. Described /\ Described'
  BY ContentsDescribed, ContentsDescribedNext
<1>2. \A i \in top .. End - 1 : Held(i)' = Held(i)
  <2>1. CASE UNCHANGED buffers
    BY <1>1, <2>1, SlotsStay DEF Described
  <2>2. CASE Grow
    <3>1. End = bottom
      BY <2>2 DEF Grow, Goto, End, Popping
    <3> QED
      BY <2>2, <3>1, GrowEffect
  <2>3. CASE PushStore
    <3>1. End = bottom
      BY <2>3 DEF PushStore, Goto, End, Popping
    <3> QED
      BY <2>3, <3>1, StoreEffect
  <2> QED
    BY <2>1, <2>2, <2>3
<1>3. Contents' = Contents
  BY <1>1, <1>2, SameContents
<1> QED
  BY <1>3

(* The abstract steps of the owner.                                        *)
LEMMA OwnerRefines ==
  ASSUME IInv, IInv', OwnerStep
  PROVE  UNCHANGED <<Contents, got>> \/ Abstract!Next
<1>a. /\ TypeOK /\ Owner \in Workers /\ Described /\ Described'
      /\ pc \in [Workers -> {"idle", "grow", "store", "publish", "poptop", "race", "restore",
                             "bottom", "buffer", "read", "cas"}]
  BY ContentsDescribed, ContentsDescribedNext DEF IInv, TypeOK, Workers
<1>b. /\ Popping => End = bottom + 1
      /\ ~Popping => End = bottom
      /\ bottom \in Int /\ top \in Nat /\ top <= End /\ End \in Nat
  BY Indices
<1>c. OwnerKnown
  BY DEF IInv
<1>d. ASSUME NEW from, NEW to \in {"idle", "grow", "store", "publish", "poptop", "race", "restore"},
             Goto(Owner, from, to)
      PROVE  pc[Owner] = from /\ pc'[Owner] = to
  BY <1>a, <1>d DEF Goto
<1>1. CASE PushLoad
  <2>1. ~Popping /\ ~Popping'
    BY <1>1, <1>a DEF PushLoad, Goto, Popping
  <2>2. End' = End /\ UNCHANGED <<top, buffers, got>>
    BY <1>1, <2>1 DEF PushLoad, End
  <2> QED
    BY <2>2, Stutters
<1>2. CASE Grow
  <2>1. ~Popping /\ ~Popping'
    BY <1>2, <1>d DEF Grow, Popping
  <2>2. End' = End /\ UNCHANGED <<top, got>>
    BY <1>2, <2>1 DEF Grow, End
  <2> QED
    BY <1>2, <2>2, Stutters
<1>3. CASE PushStore
  <2>1. ~Popping /\ ~Popping'
    BY <1>3, <1>d DEF PushStore, Popping
  <2>2. End' = End /\ UNCHANGED <<top, got>>
    BY <1>3, <2>1 DEF PushStore, End
  <2> QED
    BY <1>3, <2>2, Stutters
<1>4. CASE PushPublish
  <2>1. pc[Owner] = "publish" /\ pc'[Owner] = "idle"
    BY <1>4, <1>d DEF PushPublish
  <2>2. ~Popping /\ ~Popping' /\ UNCHANGED <<top, buffers, got>> /\ bottom' = b[Owner] + 1
    BY <1>4, <2>1 DEF PushPublish, Popping
  <2>3. pushed \in Task /\ Held(bottom) = pushed /\ b[Owner] = bottom
    BY <1>c, <2>1 DEF OwnerKnown
  <2>4. End = bottom /\ End' = End + 1
    BY <1>b, <2>2, <2>3 DEF End
  <2>5. \A i \in Int : Held(i)' = Held(i)
    BY <2>2, SlotsStay
  <2>6. \A i \in Nat : i = End => Held(i)' = pushed
    BY <2>3, <2>4, <2>5
  <2>7. \A i \in top .. End - 1 : Held(i)' = Held(i)
    BY <1>b, <2>5
  <2>8. Contents' = Append(Contents, pushed)
    BY <1>a, <2>2, <2>3, <2>4, <2>6, <2>7, OneMore
  <2> QED
    BY <2>2, <2>3, <2>8 DEF Abstract!Next, Abstract!PushBottom
<1>5. CASE PopReserve
  <2>1. pc[Owner] = "idle" /\ pc'[Owner] = "poptop"
    BY <1>5, <1>d DEF PopReserve
  <2>2. ~Popping /\ Popping' /\ UNCHANGED <<top, buffers, got>> /\ bottom' = bottom - 1
    BY <1>5, <2>1 DEF PopReserve, Popping
  <2>3. End' = End
    BY <1>b, <2>2 DEF End
  <2> QED
    BY <2>2, <2>3, Stutters
<1>6. CASE PopMany
  <2>1. pc[Owner] = "poptop" /\ pc'[Owner] = "idle"
    BY <1>6, <1>d DEF PopMany
  <2>2. /\ Popping /\ ~Popping' /\ UNCHANGED <<top, buffers>> /\ bottom' = bottom
        /\ b[Owner] = bottom /\ top < bottom
    BY <1>6, <1>c, <2>1 DEF PopMany, Popping, OwnerKnown
  <2>3. End = bottom + 1 /\ End' = End - 1 /\ top < End
    BY <1>b, <2>2 DEF End
  <2>4. End - 1 = bottom
    BY <1>b, <2>3
  <2>5. got' = [got EXCEPT ![Owner] = Held(End - 1)]
    BY <1>6, <2>2, <2>4 DEF PopMany, Return, Held
  <2>6. /\ Contents # <<>> /\ Contents' = Abstract!Front(Contents)
        /\ Abstract!Last(Contents) = Held(End - 1)
    BY <1>a, <2>2, <2>3, WithoutLast
  <2> QED
    BY <2>5, <2>6 DEF Abstract!Next, Abstract!PopBottom
<1>7. CASE PopLast
  <2>1. pc[Owner] = "poptop" /\ pc'[Owner] = "race"
    BY <1>7, <1>d DEF PopLast
  <2>2. Popping /\ Popping' /\ UNCHANGED <<top, bottom, buffers, got>>
    BY <1>7, <2>1 DEF PopLast, Popping
  <2>3. End' = End
    BY <2>2 DEF End
  <2> QED
    BY <2>2, <2>3, Stutters
<1>8. CASE PopEmpty
  <2>1. pc[Owner] = "poptop" /\ pc'[Owner] = "restore"
    BY <1>8, <1>d DEF PopEmpty
  <2>2. /\ Popping /\ Popping' /\ UNCHANGED <<top, bottom, buffers>> /\ top > b[Owner]
        /\ got' = [got EXCEPT ![Owner] = Null] /\ b[Owner] = bottom
    BY <1>8, <1>c, <2>1 DEF PopEmpty, Popping, OwnerKnown
  <2>3. End' = End /\ End = top
    BY <1>b, <2>2 DEF End
  <2>4. Contents = <<>>
    BY <1>a, <2>3 DEF Described
  <2>5. Contents' = Contents
    BY <1>a, <1>b, <2>2, <2>3, SameContents, SlotsStay
  <2> QED
    BY <2>2, <2>4, <2>5 DEF Abstract!Next, Abstract!PopBottom
<1>9. CASE PopRace
  <2>1. pc[Owner] = "race" /\ pc'[Owner] = "restore"
    BY <1>9, <1>d DEF PopRace
  <2>2. /\ Popping /\ Popping' /\ UNCHANGED <<bottom, buffers>>
        /\ b[Owner] = bottom /\ t[Owner] = bottom /\ t[Owner] <= top
    BY <1>9, <1>c, <2>1 DEF PopRace, Popping, OwnerKnown
  <2>3. End' = End /\ End = bottom + 1
    BY <1>b, <2>2 DEF End
  <2>4. CASE top = t[Owner]
    <3>1. top' = top + 1 /\ End = top + 1 /\ top < End /\ End - 1 = bottom
      BY <1>9, <1>b, <2>2, <2>3, <2>4 DEF PopRace
    <3>2. got' = [got EXCEPT ![Owner] = Held(End - 1)]
      BY <1>9, <2>2, <2>4, <3>1 DEF PopRace, Held
    <3>3. /\ Contents # <<>> /\ Contents' = Abstract!Front(Contents)
          /\ Abstract!Last(Contents) = Held(End - 1)
      BY <1>a, <2>2, <2>3, <3>1, WithoutLast
    <3> QED
      BY <3>2, <3>3 DEF Abstract!Next, Abstract!PopBottom
  <2>5. CASE top # t[Owner]
    <3>1. top' = top /\ got' = [got EXCEPT ![Owner] = Null] /\ End = top
      BY <1>9, <1>b, <2>2, <2>3, <2>5 DEF PopRace
    <3>2. Contents = <<>>
      BY <1>a, <3>1 DEF Described
    <3>3. Contents' = Contents
      BY <1>a, <1>b, <2>2, <2>3, <3>1, SameContents, SlotsStay
    <3> QED
      BY <3>1, <3>2, <3>3 DEF Abstract!Next, Abstract!PopBottom
  <2> QED
    BY <2>4, <2>5
<1>10. CASE PopRestore
  <2>1. pc[Owner] = "restore" /\ pc'[Owner] = "idle"
    BY <1>10, <1>d DEF PopRestore
  <2>2. Popping /\ ~Popping' /\ UNCHANGED <<top, buffers, got>> /\ bottom' = bottom + 1
    BY <1>10, <1>c, <2>1 DEF PopRestore, Popping, OwnerKnown
  <2>3. End' = End
    BY <1>b, <2>2 DEF End
  <2> QED
    BY <2>2, <2>3, Stutters
<1> QED
  BY <1>1, <1>2, <1>3, <1>4, <1>5, <1>6, <1>7, <1>8, <1>9, <1>10 DEF OwnerStep

(* The abstract steps of a thief.                                          *)
LEMMA ThiefRefines ==
  ASSUME IInv, IInv', NEW p \in Thieves, ThiefStep(p)
  PROVE  UNCHANGED <<Contents, got>> \/ Abstract!Next
<1>a. /\ p \in Workers /\ p # Owner /\ Owner \in Workers /\ Described /\ Described' /\ ThiefKnown(p)
      /\ pc \in [Workers -> {"idle", "grow", "store", "publish", "poptop", "race", "restore",
                             "bottom", "buffer", "read", "cas"}]
  BY ContentsDescribed, ContentsDescribedNext, WorkerAssumption DEF IInv, TypeOK, Workers, ThievesKnown
<1>b. top \in Nat /\ End \in Nat
  BY Indices
<1>1. /\ UNCHANGED <<bottom, buffers>> /\ pc'[Owner] = pc[Owner]
  BY <1>a DEF ThiefStep, StealTop, StealBottom, StealNothing, StealBuffer, StealRead, StealCas, Goto
<1>2. End' = End
  BY <1>1 DEF End, Popping
<1>3. CASE StealTop(p) \/ StealBottom(p) \/ StealBuffer(p) \/ StealRead(p)
  <2>1. UNCHANGED <<top, got>>
    BY <1>3 DEF StealTop, StealBottom, StealBuffer, StealRead
  <2> QED
    BY <1>1, <1>2, <2>1, Stutters
<1>4. ASSUME top' = top, got' = [got EXCEPT ![p] = Null] PROVE Abstract!Next
  <2>1. Contents' = Contents
    BY <1>a, <1>b, <1>1, <1>2, <1>4, SameContents, SlotsStay
  <2> QED
    BY <1>4, <2>1 DEF Abstract!Next, Abstract!Steal
<1>5. CASE StealNothing(p)
  BY <1>4, <1>5 DEF StealNothing, Return
<1>6. CASE StealCas(p)
  <2>1. CASE top = t[p]
    <3>1. top' = top + 1 /\ got' = [got EXCEPT ![p] = item[p]]
      BY <1>6, <2>1 DEF StealCas, Return
    <3>2. top < End /\ item[p] = Held(top)
      BY <1>6, <1>a, <2>1 DEF ThiefKnown, StealCas, Goto
    <3>3. Contents # <<>> /\ Contents' = Tail(Contents) /\ Head(Contents) = Held(top)
      BY <1>a, <1>1, <1>2, <3>1, <3>2, WithoutFirst
    <3> QED
      BY <3>1, <3>2, <3>3 DEF Abstract!Next, Abstract!Steal
  <2>2. CASE top # t[p]
    BY <1>4, <1>6, <2>2 DEF StealCas, Return
  <2> QED
    BY <2>1, <2>2
<1> QED
  BY <1>3, <1>5, <1>6 DEF ThiefStep

(* The Chase-Lev code implements the deque of TaskDeque: each access of    *)
(* the code is one of its operations or changes nothing that it promises,  *)
(* so that every task is taken once, in order, and the owner is told NULL  *)
(* only of an empty deque.                                                 *)
THEOREM Refinement == Spec => ImplementsDeque
<1>1. Init => Abstract!Init
  <2> SUFFICES ASSUME Init PROVE Abstract!Init
    OBVIOUS
  <2>1. Described /\ End = 0 /\ top = 0
    BY InvariantInit, ContentsDescribed DEF Init, End, Popping, Workers
  <2>2. Contents = <<>>
    BY <2>1 DEF Described
  <2> QED
    BY <2>2 DEF Init, Abstract!Init, Workers
<1>2. IInv /\ IInv' /\ [Next]_vars => [Abstract!Next]_<<Contents, got>>
  <2> SUFFICES ASSUME IInv, IInv', [Next]_vars PROVE UNCHANGED <<Contents, got>> \/ Abstract!Next
    OBVIOUS
  <2>1. CASE OwnerStep
    BY <2>1, OwnerRefines
  <2>2. CASE \E p \in Thieves : ThiefStep(p)
    BY <2>2, ThiefRefines
  <2>3. CASE UNCHANGED vars
    BY <2>3, Stutters DEF vars, End, Popping
  <2> QED
    BY <2>1, <2>2, <2>3 DEF Next
<1> QED
  BY <1>1, <1>2, Invariant, PTL DEF Spec, ImplementsDeque, Abstract!Spec
=============================================================================
