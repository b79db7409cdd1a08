-------------------------- MODULE Scheduler_proofs --------------------------
(***************************************************************************)
(* Proofs about the scheduler, for every number of program threads,        *)
(* workers and tasks: a task is in one queue or in one hand, or suspended, *)
(* and a resumed task has the value of the subtask it waited for.          *)
(***************************************************************************)
EXTENDS Scheduler, FiniteSetTheorems, SequenceTheorems, TLAPS

(* The queues: the workers' deques, and the global stack as number N.      *)
Queue(q) == IF q = N THEN global ELSE deque[q]

(* Task i is at position k of queue q; position 0 is the worker's hand.    *)
Holds(q, k, i) == \/ k = 0 /\ q \in Workers /\ task[q] = i
                  \/ k \in 1 .. Len(Queue(q)) /\ Queue(q)[k] = i

Somewhere(i) == \E q \in 0 .. N, k \in Nat : Holds(q, k, i)

(* In one place at most.                                                   *)
Once(i) == \A q, r \in 0 .. N, k, l \in Nat : Holds(q, k, i) /\ Holds(r, l, i) => q = r /\ k = l

(* Where the threads are: a worker that runs a task has it in its hand, a  *)
(* thread that joins has something to join.                                *)
ThreadsKnown ==
  /\ \A w \in Workers : pc[w] = "run" <=> task[w] # None
  /\ \A m \in Mains : mpc[m] = "join" => handles[m] # <<>>

(* What is known of a task by its number: an uncreated task has left no    *)
(* trace; somebody waits for each of the others, a thread or a parent.     *)
TasksKnown ==
  \A i \in Task :
    /\ i > created => /\ waiter[i] = None /\ submitter[i] = None /\ awaited[i] = None
                      /\ i \notin done /\ i \notin freed
    /\ i <= created => (submitter[i] = None <=> waiter[i] # None)

(* A parent is live, and it awaits its live child: there is one at most.   *)
ParentsAwait ==
  \A i \in Task : Live(i) /\ waiter[i] # None =>
    Live(waiter[i]) /\ awaited[waiter[i]] = i /\ waiter[i] # i

(* A live task that is not suspended is in a place, and no other is.       *)
Placed == \A i \in Task : Once(i) /\ (Somewhere(i) <=> Live(i) /\ ~Suspended(i))

(* A task that is not suspended has the value it waited for.               *)
Answered == \A i \in Task : Live(i) /\ ~Suspended(i) /\ awaited[i] # None => resolved[i] = awaited[i]

(* The inductive invariant.                                                *)
IInv == TypeOK /\ ThreadsKnown /\ TasksKnown /\ ParentsAwait /\ Placed /\ Answered

-----------------------------------------------------------------------------
(* Places *)

(* Worker numbers and queues.                                              *)
LEMMA QueuesKnown ==
  ASSUME TypeOK
  PROVE  /\ Workers \subseteq 0 .. N /\ N \in 0 .. N /\ N \notin Workers /\ 0 .. N = Workers \cup {N}
         /\ \A q \in 0 .. N : Queue(q) \in Seq(Task)
         /\ None \notin Task /\ 0 \notin Task
<1>1. Workers \subseteq 0 .. N /\ N \in 0 .. N /\ N \notin Workers /\ 0 .. N = Workers \cup {N}
  BY WorkersAssumption DEF Workers
<1>2. None \notin Task /\ 0 \notin Task
  BY NoneAssumption, BoundAssumption DEF Task
<1> QED
  BY <1>1, <1>2 DEF TypeOK, Queue

(* The head of a queue goes to a free hand: the others move up.            *)
LEMMA TakeHead ==
  ASSUME TypeOK, NEW w \in Workers, task[w] = None, NEW v \in 0 .. N, Queue(v) # <<>>,
         Queue(v)' = Tail(Queue(v)), \A q \in 0 .. N \ {v} : Queue(q)' = Queue(q),
         task' = [task EXCEPT ![w] = Head(Queue(v))],
         NEW i \in Task
  PROVE  (Somewhere(i)' <=> Somewhere(i)) /\ (Once(i) => Once(i)')
<1>a. Queue(v) \in Seq(Task) /\ None \notin Task /\ w \in 0 .. N /\ N \notin Workers
  BY QueuesKnown
<1>1. /\ Len(Queue(v)) \in Nat \ {0} /\ Queue(v)[1] = Head(Queue(v))
      /\ Len(Tail(Queue(v))) = Len(Queue(v)) - 1
      /\ \A k \in 1 .. Len(Queue(v)) - 1 : Tail(Queue(v))[k] = Queue(v)[k + 1]
  BY <1>a
<1>2. /\ task'[w] = Queue(v)[1]
      /\ \A u \in Workers \ {w} : task'[u] = task[u]
  BY <1>1 DEF TypeOK
<1>3. \A q \in 0 .. N, k \in Nat :
        Holds(q, k, i)' <=> \/ k = 0 /\ q = w /\ Holds(v, 1, i)
                            \/ k = 0 /\ q # w /\ Holds(q, 0, i)
                            \/ k # 0 /\ q = v /\ Holds(v, k + 1, i)
                            \/ k # 0 /\ q # v /\ Holds(q, k, i)
  <2> SUFFICES ASSUME NEW q \in 0 .. N, NEW k \in Nat
               PROVE  Holds(q, k, i)' <=> \/ k = 0 /\ q = w /\ Holds(v, 1, i)
                                          \/ k = 0 /\ q # w /\ Holds(q, 0, i)
                                          \/ k # 0 /\ q = v /\ Holds(v, k + 1, i)
                                          \/ k # 0 /\ q # v /\ Holds(q, k, i)
    OBVIOUS
  <2>1. CASE k = 0
    BY <1>a, <1>1, <1>2, <2>1 DEF Holds
  <2>2. CASE k # 0 /\ q = v
    BY <1>1, <2>2 DEF Holds
  <2>3. CASE k # 0 /\ q # v
    BY <2>3 DEF Holds
  <2> QED
    BY <2>1, <2>2, <2>3
<1>5. \A q \in 0 .. N, k \in Nat : Holds(q, k, i) =>
        \/ k = 0 /\ q # w /\ Holds(q, 0, i)' 
        \/ k # 0 /\ q # v /\ Holds(q, k, i)'
        \/ k = 1 /\ q = v /\ Holds(w, 0, i)'
        \/ k - 1 \in Nat /\ k - 1 # 0 /\ q = v /\ Holds(v, k - 1, i)'
  <2> SUFFICES ASSUME NEW q \in 0 .. N, NEW k \in Nat, Holds(q, k, i)
               PROVE  \/ k = 0 /\ q # w /\ Holds(q, 0, i)' 
                      \/ k # 0 /\ q # v /\ Holds(q, k, i)'
                      \/ k = 1 /\ q = v /\ Holds(w, 0, i)'
                      \/ k - 1 \in Nat /\ k - 1 # 0 /\ q = v /\ Holds(v, k - 1, i)'
    OBVIOUS
  <2>1. CASE k = 0
    <3>1. q # w
      BY <1>a, <2>1 DEF Holds
    <3> QED
      BY <1>3, <2>1, <3>1
  <2>2. CASE k # 0 /\ q # v
    BY <1>3, <2>2
  <2>3. CASE k = 1 /\ q = v
    BY <1>3, <1>a, <2>3
  <2>4. CASE k > 1 /\ q = v
    BY <1>3, <2>4
  <2> QED
    BY <2>1, <2>2, <2>3, <2>4
<1>6. Somewhere(i)' <=> Somewhere(i)
  <2>1. Somewhere(i)' => Somewhere(i)
    BY <1>3 DEF Somewhere
  <2>2. Somewhere(i) => Somewhere(i)'
    BY <1>5, <1>a DEF Somewhere
  <2> QED
    BY <2>1, <2>2
<1>7. ASSUME Once(i) PROVE Once(i)'
  <2> SUFFICES ASSUME NEW q \in 0 .. N, NEW r \in 0 .. N, NEW k \in Nat, NEW l \in Nat,
                      Holds(q, k, i)', Holds(r, l, i)'
               PROVE  q = r /\ k = l
    BY DEF Once
  <2>a. \A x \in 0 .. N, j \in Nat : Holds(x, j, i)' =>
          \E p \in 0 .. N, m \in Nat :
            /\ Holds(p, m, i)
            /\ \/ x = w /\ j = 0 /\ p = v /\ m = 1
               \/ j = 0 /\ x # w /\ p = x /\ m = 0
               \/ j # 0 /\ x = v /\ p = v /\ m = j + 1
               \/ j # 0 /\ x # v /\ p = x /\ m = j
    BY <1>3
  <2>1. PICK p \in 0 .. N, m \in Nat :
          /\ Holds(p, m, i)
          /\ \/ q = w /\ k = 0 /\ p = v /\ m = 1
             \/ k = 0 /\ q # w /\ p = q /\ m = 0
             \/ k # 0 /\ q = v /\ p = v /\ m = k + 1
             \/ k # 0 /\ q # v /\ p = q /\ m = k
    BY <2>a
  <2>2. PICK s \in 0 .. N, n \in Nat :
          /\ Holds(s, n, i)
          /\ \/ r = w /\ l = 0 /\ s = v /\ n = 1
             \/ l = 0 /\ r # w /\ s = r /\ n = 0
             \/ l # 0 /\ r = v /\ s = v /\ n = l + 1
             \/ l # 0 /\ r # v /\ s = r /\ n = l
    BY <2>a
  <2>3. p = s /\ m = n
    BY <1>7, <2>1, <2>2 DEF Once
  <2> QED
    BY <2>1, <2>2, <2>3
<1> QED
  BY <1>6, <1>7

(* The last of a worker's own deque goes to its hand.                      *)
LEMMA TakeLast ==
  ASSUME TypeOK, NEW w \in Workers, task[w] = None, Queue(w) # <<>>,
         Queue(w)' = Front(Queue(w)), \A q \in 0 .. N \ {w} : Queue(q)' = Queue(q),
         task' = [task EXCEPT ![w] = Last(Queue(w))],
         NEW i \in Task
  PROVE  (Somewhere(i)' <=> Somewhere(i)) /\ (Once(i) => Once(i)')
<1> DEFINE n == Len(Queue(w))
<1>a. Queue(w) \in Seq(Task) /\ None \notin Task /\ w \in 0 .. N
  BY QueuesKnown
<1>1. /\ n \in Nat \ {0} /\ Len(Queue(w)') = n - 1 /\ Last(Queue(w)) = Queue(w)[n]
      /\ \A k \in 1 .. n - 1 : Queue(w)'[k] = Queue(w)[k]
  <2>1. n \in Nat \ {0} /\ Last(Queue(w)) = Queue(w)[n]
    BY <1>a DEF Last
  <2>2. Queue(w)' = SubSeq(Queue(w), 1, n - 1)
    BY DEF Front
  <2>3. 1 \in Int /\ n - 1 \in Int /\ \A k \in 1 .. n - 1 : Queue(w)[k] \in Task
    BY <1>a, <2>1
  <2>4. /\ Len(SubSeq(Queue(w), 1, n - 1)) = n - 1
        /\ \A k \in 1 .. n - 1 : SubSeq(Queue(w), 1, n - 1)[k] = Queue(w)[k]
    <3> HIDE DEF n
    <3>1. /\ Len(SubSeq(Queue(w), 1, n - 1)) = IF 1 <= n - 1 THEN n - 1 - 1 + 1 ELSE 0
          /\ \A k \in 1 .. n - 1 - 1 + 1 : SubSeq(Queue(w), 1, n - 1)[k] = Queue(w)[1 + k - 1]
      BY <2>3, SubSeqProperties
    <3> QED
      BY <2>1, <3>1
  <2> QED
    BY <2>1, <2>2, <2>4
<1>2. /\ task'[w] = Queue(w)[n]
      /\ \A u \in Workers \ {w} : task'[u] = task[u]
  BY <1>1 DEF TypeOK
<1>3. \A q \in 0 .. N, k \in Nat :
        Holds(q, k, i)' <=> \/ k = 0 /\ q = w /\ Holds(w, n, i)
                            \/ ~(q = w /\ k \in {0, n}) /\ Holds(q, k, i)
  <2> SUFFICES ASSUME NEW q \in 0 .. N, NEW k \in Nat
               PROVE  Holds(q, k, i)' <=> \/ k = 0 /\ q = w /\ Holds(w, n, i)
                                          \/ ~(q = w /\ k \in {0, n}) /\ Holds(q, k, i)
    OBVIOUS
  <2>1. CASE k = 0
    BY <1>a, <1>1, <1>2, <2>1 DEF Holds
  <2>2. CASE k # 0 /\ q = w
    BY <1>1, <2>2 DEF Holds
  <2>3. CASE k # 0 /\ q # w
    BY <2>3 DEF Holds
  <2> QED
    BY <2>1, <2>2, <2>3
<1>4. ~Holds(w, 0, i) /\ n \in Nat /\ n # 0
  BY <1>a, <1>1 DEF Holds
<1> HIDE DEF n
<1>5. Somewhere(i)' <=> Somewhere(i)
  BY <1>a, <1>3, <1>4 DEF Somewhere
<1>6. ASSUME Once(i) PROVE Once(i)'
  <2>1. \A x \in 0 .. N, j \in Nat : Holds(x, j, i)' =>
          \E p \in 0 .. N, m \in Nat :
            /\ Holds(p, m, i)
            /\ \/ x = w /\ j = 0 /\ p = w /\ m = n
               \/ ~(x = w /\ j \in {0, n}) /\ p = x /\ m = j
    BY <1>a, <1>3, <1>4
  <2> SUFFICES ASSUME NEW q \in 0 .. N, NEW r \in 0 .. N, NEW k \in Nat, NEW l \in Nat,
                      Holds(q, k, i)', Holds(r, l, i)'
               PROVE  q = r /\ k = l
    BY DEF Once
  <2>2. PICK p \in 0 .. N, m \in Nat :
          /\ Holds(p, m, i)
          /\ \/ q = w /\ k = 0 /\ p = w /\ m = n
             \/ ~(q = w /\ k \in {0, n}) /\ p = q /\ m = k
    BY <2>1
  <2>3. PICK s \in 0 .. N, o \in Nat :
          /\ Holds(s, o, i)
          /\ \/ r = w /\ l = 0 /\ s = w /\ o = n
             \/ ~(r = w /\ l \in {0, n}) /\ s = r /\ o = l
    BY <2>1
  <2>4. p = s /\ m = o
    BY <1>6, <2>2, <2>3 DEF Once
  <2> QED
    BY <2>2, <2>3, <2>4
<1> QED
  BY <1>5, <1>6

(* A worker's hand is emptied and another task goes to the bottom of its   *)
(* deque.                                                                  *)
LEMMA PutLast ==
  ASSUME TypeOK, NEW w \in Workers, NEW i \in Task, task[w] = i,
         NEW x \in Task, x # i, ~Somewhere(x),
         Queue(w)' = Append(Queue(w), x), \A q \in 0 .. N \ {w} : Queue(q)' = Queue(q),
         task' = [task EXCEPT ![w] = None],
         Once(i),
         NEW j \in Task
  PROVE  /\ j # i /\ j # x => (Somewhere(j)' <=> Somewhere(j)) /\ (Once(j) => Once(j)')
         /\ j = x => Somewhere(j)' /\ Once(j)'
         /\ j = i => ~Somewhere(j)' /\ Once(j)'
<1> DEFINE n == Len(Queue(w))
<1>a. Queue(w) \in Seq(Task) /\ None \notin Task /\ w \in 0 .. N
  BY QueuesKnown
<1>1. /\ n \in Nat /\ Len(Queue(w)') = n + 1 /\ Queue(w)'[n + 1] = x
      /\ \A k \in 1 .. n : Queue(w)'[k] = Queue(w)[k]
  BY <1>a
<1>2. /\ task'[w] = None
      /\ \A u \in Workers \ {w} : task'[u] = task[u]
  BY DEF TypeOK
<1>3. \A q \in 0 .. N, k \in Nat :
        Holds(q, k, j)' <=> \/ j = x /\ q = w /\ k = n + 1
                            \/ ~(q = w /\ k = 0) /\ Holds(q, k, j)
  <2> SUFFICES ASSUME NEW q \in 0 .. N, NEW k \in Nat
               PROVE  Holds(q, k, j)' <=> \/ j = x /\ q = w /\ k = n + 1
                                          \/ ~(q = w /\ k = 0) /\ Holds(q, k, j)
    OBVIOUS
  <2>1. CASE k = 0
    BY <1>a, <1>1, <1>2, <2>1 DEF Holds
  <2>2. CASE k # 0 /\ q = w
    BY <1>1, <2>2 DEF Holds
  <2>3. CASE k # 0 /\ q # w
    BY <2>3 DEF Holds
  <2> QED
    BY <2>1, <2>2, <2>3
<1>4. Holds(w, 0, i) /\ \A k \in Task : Holds(w, 0, k) => k = i
  BY DEF Holds
<1>5. n + 1 \in Nat
  BY <1>1
<1> HIDE DEF n
<1>6. CASE j # i /\ j # x
  BY <1>3, <1>4, <1>6 DEF Somewhere, Once
<1>7. CASE j = x
  BY <1>a, <1>3, <1>5, <1>7 DEF Somewhere, Once
<1>8. CASE j = i
  <2>1. \A q \in 0 .. N, k \in Nat : Holds(q, k, i) => q = w /\ k = 0
    BY <1>a, <1>4 DEF Once
  <2>2. \A q \in 0 .. N, k \in Nat : ~Holds(q, k, j)'
    BY <1>3, <1>8, <2>1
  <2> QED
    BY <1>8, <2>2 DEF Somewhere, Once
<1> QED
  BY <1>6, <1>7, <1>8

(* A worker's hand is emptied, the queues stay.                            *)
LEMMA Drop ==
  ASSUME TypeOK, NEW w \in Workers, NEW i \in Task, task[w] = i, Once(i),
         \A q \in 0 .. N : Queue(q)' = Queue(q), task' = [task EXCEPT ![w] = None],
         NEW j \in Task
  PROVE  /\ j # i => (Somewhere(j)' <=> Somewhere(j)) /\ (Once(j) => Once(j)')
         /\ j = i => ~Somewhere(j)' /\ Once(j)'
<1>a. None \notin Task /\ w \in 0 .. N
  BY QueuesKnown
<1>1. task'[w] = None /\ \A u \in Workers \ {w} : task'[u] = task[u]
  BY DEF TypeOK
<1>2. \A q \in 0 .. N, k \in Nat : Holds(q, k, j)' <=> ~(q = w /\ k = 0) /\ Holds(q, k, j)
  BY <1>a, <1>1 DEF Holds
<1>3. Holds(w, 0, i) /\ \A k \in Task : Holds(w, 0, k) => k = i
  BY DEF Holds
<1>4. CASE j # i
  BY <1>2, <1>3, <1>4 DEF Somewhere, Once
<1>5. CASE j = i
  <2>1. \A q \in 0 .. N, k \in Nat : ~Holds(q, k, j)'
    BY <1>a, <1>2, <1>3, <1>5 DEF Once
  <2> QED
    BY <1>5, <2>1 DEF Somewhere, Once
<1> QED
  BY <1>4, <1>5

(* A task that was nowhere goes to the top of the global stack: the others *)
(* move down.                                                              *)
LEMMA PutFirst ==
  ASSUME TypeOK, NEW x \in Task, ~Somewhere(x), global' = <<x>> \o global,
         UNCHANGED <<deque, task>>, NEW j \in Task
  PROVE  /\ j # x => (Somewhere(j)' <=> Somewhere(j)) /\ (Once(j) => Once(j)')
         /\ j = x => Somewhere(j)' /\ Once(j)'
<1>a. global \in Seq(Task) /\ N \in 0 .. N /\ N \notin Workers
  BY QueuesKnown DEF TypeOK
<1>1. /\ Len(global) \in Nat /\ Len(global') = Len(global) + 1 /\ global'[1] = x
      /\ \A k \in 1 .. Len(global) : global'[k + 1] = global[k]
  BY <1>a
<1>2. \A q \in 0 .. N, k \in Nat :
        Holds(q, k, j)' <=> \/ q # N /\ Holds(q, k, j)
                            \/ q = N /\ k = 1 /\ j = x
                            \/ q = N /\ k > 1 /\ Holds(N, k - 1, j)
  <2> SUFFICES ASSUME NEW q \in 0 .. N, NEW k \in Nat
               PROVE  Holds(q, k, j)' <=> \/ q # N /\ Holds(q, k, j)
                                          \/ q = N /\ k = 1 /\ j = x
                                          \/ q = N /\ k > 1 /\ Holds(N, k - 1, j)
    OBVIOUS
  <2>1. CASE q # N
    BY <2>1 DEF Holds, Queue
  <2>2. CASE q = N /\ k > 1
    <3>1. k - 1 \in 1 .. Len(global) <=> k \in 1 .. Len(global')
      BY <1>1, <2>2
    <3>2. k - 1 \in 1 .. Len(global) => global'[k] = global[k - 1]
      BY <1>1, <2>2
    <3> QED
      BY <1>a, <2>2, <3>1, <3>2 DEF Holds, Queue
  <2>3. CASE q = N /\ k <= 1
    BY <1>a, <1>1, <2>3 DEF Holds, Queue
  <2> QED
    BY <2>1, <2>2, <2>3
<1>3. \A k \in Nat : Holds(N, k, j) => k + 1 > 1 /\ k + 1 \in Nat /\ Holds(N, k + 1, j)'
  <2> SUFFICES ASSUME NEW k \in Nat, Holds(N, k, j)
               PROVE  k + 1 > 1 /\ Holds(N, k + 1, j)'
    OBVIOUS
  <2>1. k > 0 /\ (k + 1) - 1 = k
    BY <1>a DEF Holds
  <2> QED
    BY <1>a, <1>2, <2>1
<1>4. CASE j # x
  <2>1. Somewhere(j)' <=> Somewhere(j)
    <3>1. Somewhere(j)' => Somewhere(j)
      BY <1>a, <1>2, <1>4 DEF Somewhere
    <3>2. Somewhere(j) => Somewhere(j)'
      BY <1>a, <1>2, <1>3 DEF Somewhere
    <3> QED
      BY <3>1, <3>2
  <2>2. ASSUME Once(j) PROVE Once(j)'
    <3> SUFFICES ASSUME NEW q \in 0 .. N, NEW r \in 0 .. N, NEW k \in Nat, NEW l \in Nat,
                        Holds(q, k, j)', Holds(r, l, j)'
                 PROVE  q = r /\ k = l
      BY DEF Once
    <3>1. \/ q # N /\ Holds(q, k, j)
          \/ q = N /\ k - 1 \in Nat /\ Holds(N, k - 1, j)
      BY <1>2, <1>4
    <3>2. \/ r # N /\ Holds(r, l, j)
          \/ r = N /\ l - 1 \in Nat /\ Holds(N, l - 1, j)
      BY <1>2, <1>4
    <3> QED
      BY <1>a, <2>2, <3>1, <3>2 DEF Once
  <2> QED
    BY <1>4, <2>1, <2>2
<1>5. CASE j = x
  BY <1>a, <1>2, <1>5 DEF Somewhere, Once
<1> QED
  BY <1>4, <1>5

-----------------------------------------------------------------------------
(* Types and threads *)

(* What a worker that runs a task has in its hand.                         *)
LEMMA InHand ==
  ASSUME IInv, NEW w \in Workers, pc[w] = "run"
  PROVE  /\ task[w] \in Task /\ Live(task[w]) /\ ~Suspended(task[w]) /\ Once(task[w])
         /\ submitter[task[w]] = None => waiter[task[w]] \in Task /\ Live(waiter[task[w]])
<1>1. task[w] \in Task
  BY DEF IInv, ThreadsKnown, TypeOK
<1>2. Holds(w, 0, task[w]) /\ w \in 0 .. N /\ 0 \in Nat
  BY WorkersAssumption DEF Holds, Workers
<1>3. Somewhere(task[w])
  BY <1>2 DEF Somewhere
<1>4. Live(task[w]) /\ ~Suspended(task[w]) /\ Once(task[w])
  BY <1>1, <1>3 DEF IInv, Placed
<1>5. submitter[task[w]] = None => waiter[task[w]] # None
  BY <1>1, <1>4 DEF IInv, TasksKnown, Live
<1> QED
  BY <1>1, <1>4, <1>5 DEF IInv, TypeOK, ParentsAwait

(* Waking moves a parked worker to its own deque, if it moves any.         *)
LEMMA WakeOneEffect ==
  ASSUME NEW pcs \in [Workers -> {"own", "global", "steal", "park", "parked", "run", "wake"}],
         WakeOne(pcs)
  PROVE  /\ pc' \in [Workers -> {"own", "global", "steal", "park", "parked", "run", "wake"}]
         /\ \A u \in Workers : pc'[u] = "run" <=> pcs[u] = "run"
<1>1. CASE \E v \in Workers : pcs[v] = "parked"
  <2>1. PICK v \in Workers : pcs[v] = "parked" /\ pc' = [pcs EXCEPT ![v] = "own"]
    BY <1>1 DEF WakeOne
  <2> QED
    BY <2>1
<1>2. CASE ~ \E v \in Workers : pcs[v] = "parked"
  BY <1>2 DEF WakeOne
<1> QED
  BY <1>1, <1>2

(* The ends of a deque that is not empty.                                  *)
LEMMA DequeEnds ==
  ASSUME NEW s \in Seq(Task), s # <<>>
  PROVE  Last(s) \in Task /\ Head(s) \in Task /\ Front(s) \in Seq(Task) /\ Tail(s) \in Seq(Task)
<1>1. Len(s) \in Nat \ {0} /\ Last(s) \in Task /\ Head(s) \in Task /\ Tail(s) \in Seq(Task)
  BY DEF Last
<1>2. 1 \in Int /\ Len(s) - 1 \in Int /\ \A k \in 1 .. Len(s) - 1 : s[k] \in Task
  BY <1>1
<1>3. Front(s) \in Seq(Task)
  BY <1>2, SubSeqProperties DEF Front
<1> QED
  BY <1>1, <1>3

(* A look at another deque takes its head, or goes on to the next.         *)
Stolen(w, v) ==
  /\ v # w /\ deque[v] # <<>> /\ Run(w, Head(deque[v]), "steal")
  /\ deque' = [deque EXCEPT ![v] = Tail(deque[v])]
  /\ victim' = [victim EXCEPT ![w] = 0]

NotStolen(w, v) == victim' = [victim EXCEPT ![w] = v + 1] /\ UNCHANGED <<deque, pc, task>>

(* These are the two outcomes.                                             *)
LEMMA StealEffect ==
  ASSUME TypeOK, NEW w \in Workers, StealNext(w)
  PROVE  /\ victim[w] \in Workers /\ (Stolen(w, victim[w]) \/ NotStolen(w, victim[w]))
         /\ UNCHANGED <<created, global, taskVars, mpc, handles>>
<1>1. victim[w] \in Workers
  BY WorkersAssumption DEF StealNext, Workers, TypeOK
<1>2. deque \in [Workers -> Seq(Task)]
  BY DEF TypeOK
<1> QED
  BY <1>1, <1>2 DEF StealNext, Stolen, NotStolen

(* Every step keeps the types.                                             *)
LEMMA TypeStep ==
  ASSUME IInv, [Next]_vars
  PROVE  TypeOK'
<1>a. TypeOK /\ ThreadsKnown /\ MaxTasks \in Nat /\ N \in Nat \ {0} /\ 0 \in 0 .. N
  BY BoundAssumption, WorkersAssumption DEF IInv
<1>b. created < MaxTasks => created + 1 \in Task /\ created + 1 \in 0 .. MaxTasks
  BY <1>a DEF TypeOK, Task
<1> USE <1>a DEF TypeOK
<1>1. ASSUME NEW m \in Mains, SpawnAsync(m) PROVE TypeOK'
  <2>1. created + 1 \in Task /\ created + 1 \in 0 .. MaxTasks
    BY <1>1, <1>b DEF SpawnAsync
  <2>2. global' \in Seq(Task) /\ handles' \in [Mains -> Seq(Task)]
    BY <1>1, <2>1 DEF SpawnAsync
  <2> QED
    BY <1>1, <2>1, <2>2 DEF SpawnAsync
<1>2. ASSUME NEW m \in Mains, SpawnWake(m) PROVE TypeOK'
  BY <1>2, WakeOneEffect DEF SpawnWake, taskVars
<1>3. ASSUME NEW m \in Mains, BeginJoin(m) PROVE TypeOK'
  BY <1>3 DEF BeginJoin, taskVars
<1>4. ASSUME NEW m \in Mains, JoinTask(m) PROVE TypeOK'
  <2>1. handles[m] \in Seq(Task) /\ handles[m] # <<>>
    BY <1>4 DEF JoinTask, ThreadsKnown
  <2>2. Head(handles[m]) \in Task /\ Tail(handles[m]) \in Seq(Task)
    BY <2>1
  <2> QED
    BY <1>4, <2>2 DEF JoinTask
<1>5. ASSUME NEW w \in Workers, PopOwn(w) PROVE TypeOK'
  <2>1. CASE deque[w] # <<>>
    <3>1. Last(deque[w]) \in Task /\ Front(deque[w]) \in Seq(Task)
      BY <2>1, DequeEnds
    <3> QED
      BY <1>5, <2>1, <3>1 DEF PopOwn, Run, Goto, taskVars
  <2>2. CASE deque[w] = <<>>
    BY <1>5, <2>2 DEF PopOwn, Run, Goto, taskVars
  <2> QED
    BY <2>1, <2>2
<1>6. ASSUME NEW w \in Workers, PopGlobal(w) PROVE TypeOK'
  <2>1. CASE global # <<>>
    <3>1. Head(global) \in Task /\ Tail(global) \in Seq(Task)
      BY <2>1, DequeEnds
    <3>2. /\ global' = Tail(global) /\ task' = [task EXCEPT ![w] = Head(global)]
          /\ pc' = [pc EXCEPT ![w] = "run"] /\ victim' = victim
          /\ UNCHANGED <<created, deque, taskVars, mpc, handles>>
      BY <1>6, <2>1 DEF PopGlobal, Run, Goto
    <3> QED
      BY <3>1, <3>2 DEF taskVars
  <2>2. CASE global = <<>>
    <3>1. /\ UNCHANGED <<global, task>> /\ pc' = [pc EXCEPT ![w] = "steal"]
          /\ victim' = [victim EXCEPT ![w] = 0]
          /\ UNCHANGED <<created, deque, taskVars, mpc, handles>>
      BY <1>6, <2>2 DEF PopGlobal, Run, Goto
    <3> QED
      BY <3>1 DEF taskVars
  <2> QED
    BY <2>1, <2>2
<1>7. ASSUME NEW w \in Workers, StealNext(w) PROVE TypeOK'
  <2>1. victim[w] \in Workers /\ victim[w] + 1 \in 0 .. N
    BY <1>7 DEF StealNext, Workers
  <2>2. CASE Stolen(w, victim[w])
    <3>1. Head(deque[victim[w]]) \in Task /\ Tail(deque[victim[w]]) \in Seq(Task)
      BY <2>1, <2>2, DequeEnds DEF Stolen
    <3> QED
      BY <1>7, <2>1, <2>2, <3>1 DEF StealNext, Stolen, Run, Goto, taskVars
  <2>3. CASE NotStolen(w, victim[w])
    BY <1>7, <2>1, <2>3 DEF StealNext, NotStolen, taskVars
  <2> QED
    BY <1>7, <2>2, <2>3, StealEffect
<1>8. ASSUME NEW w \in Workers, FoundNothing(w) \/ Park(w) \/ ParkTimeout(w) PROVE TypeOK'
  <2>1. /\ UNCHANGED <<created, global, deque, taskVars, task, mpc, handles>>
        /\ pc' \in [Workers -> {"own", "global", "steal", "park", "parked", "run", "wake"}]
        /\ victim' \in [Workers -> 0 .. N]
    BY <1>8 DEF FoundNothing, Park, ParkTimeout, Goto
  <2> QED
    BY <2>1 DEF taskVars
<1>9. ASSUME NEW w \in Workers, RunSpawn(w) PROVE TypeOK'
  <2>1. created + 1 \in Task /\ created + 1 \in 0 .. MaxTasks /\ task[w] \in Task
    BY <1>9, <1>b, InHand DEF RunSpawn, Goto
  <2>2. deque' \in [Workers -> Seq(Task)]
    BY <1>9, <2>1 DEF RunSpawn
  <2> QED
    BY <1>9, <2>1, <2>2 DEF RunSpawn, Goto
<1>10. ASSUME NEW w \in Workers, DoneForMain(w) PROVE TypeOK'
  BY <1>10, InHand DEF DoneForMain, Goto
<1>11. ASSUME NEW w \in Workers, DoneForParent(w) PROVE TypeOK'
  <2>1. task[w] \in Task /\ waiter[task[w]] \in Task
    BY <1>11, InHand DEF DoneForParent, Goto
  <2>2. deque' \in [Workers -> Seq(Task)]
    BY <1>11, <2>1 DEF DoneForParent
  <2> QED
    BY <1>11, <2>1, <2>2 DEF DoneForParent, Goto
<1>12. ASSUME NEW w \in Workers, WakeAfterPush(w) PROVE TypeOK'
  BY <1>12, WakeOneEffect DEF WakeAfterPush, taskVars
<1>13. CASE UNCHANGED vars
  BY <1>13 DEF vars, taskVars
<1> QED
  BY <1>1, <1>2, <1>3, <1>4, <1>5, <1>6, <1>7, <1>8, <1>9, <1>10, <1>11, <1>12, <1>13
  DEF Next, MainStep, WorkerStep, SearchStep, RunTaskStep

(* A worker takes up a task when it runs, and gives it away when it stops. *)
LEMMA ThreadsStep ==
  ASSUME IInv, [Next]_vars
  PROVE  ThreadsKnown'
<1>a. TypeOK /\ ThreadsKnown /\ None \notin Task
  BY QueuesKnown DEF IInv
<1> USE <1>a DEF ThreadsKnown
<1>1. ASSUME NEW m \in Mains, SpawnAsync(m) PROVE ThreadsKnown'
  <2>1. /\ handles' = [handles EXCEPT ![m] = Append(@, created + 1)] /\ handles[m] \in Seq(Task)
        /\ mpc' = [mpc EXCEPT ![m] = "wake"] /\ UNCHANGED <<pc, task>>
    BY <1>1 DEF SpawnAsync, TypeOK
  <2>2. \A n \in Mains : mpc'[n] = "join" => n # m /\ mpc[n] = "join" /\ handles'[n] = handles[n]
    BY <2>1 DEF TypeOK
  <2> QED
    BY <2>1, <2>2
<1>2. ASSUME NEW m \in Mains, SpawnWake(m) PROVE ThreadsKnown'
  BY <1>2, WakeOneEffect DEF SpawnWake, TypeOK
<1>3. ASSUME NEW m \in Mains, BeginJoin(m) PROVE ThreadsKnown'
  BY <1>3 DEF BeginJoin, TypeOK
<1>4. ASSUME NEW m \in Mains, JoinTask(m) PROVE ThreadsKnown'
  <2>1. \A n \in Mains : mpc'[n] = "join" => mpc[n] = "join" /\ handles'[n] = handles[n]
    BY <1>4 DEF JoinTask, TypeOK
  <2> QED
    BY <1>4, <2>1 DEF JoinTask
<1>5. ASSUME UNCHANGED <<mpc, handles>>, NEW w \in Workers, NEW i \in Task, NEW from \in {"own", "global", "steal"},
             Run(w, i, from)
      PROVE  ThreadsKnown'
  BY <1>5 DEF Run, Goto, TypeOK
<1>6. ASSUME UNCHANGED <<mpc, handles, task>>, NEW w \in Workers, \A u \in Workers \ {w} : pc'[u] = pc[u],
             pc[w] # "run", pc'[w] # "run"
      PROVE  ThreadsKnown'
  BY <1>6
<1>7. ASSUME NEW w \in Workers, PopOwn(w) PROVE ThreadsKnown'
  <2>1. deque[w] # <<>> => Last(deque[w]) \in Task
    BY DequeEnds DEF TypeOK
  <2>2. CASE deque[w] # <<>>
    BY <1>5, <1>7, <2>1, <2>2 DEF PopOwn
  <2>3. CASE deque[w] = <<>>
    BY <1>6, <1>7, <2>3 DEF PopOwn, Goto, TypeOK
  <2> QED
    BY <2>2, <2>3
<1>8. ASSUME NEW w \in Workers, PopGlobal(w) PROVE ThreadsKnown'
  <2>1. global # <<>> => Head(global) \in Task
    BY DequeEnds DEF TypeOK
  <2>2. CASE global # <<>>
    BY <1>5, <1>8, <2>1, <2>2 DEF PopGlobal
  <2>3. CASE global = <<>>
    BY <1>6, <1>8, <2>3 DEF PopGlobal, Goto, TypeOK
  <2> QED
    BY <2>2, <2>3
<1>9. ASSUME NEW w \in Workers, StealNext(w) PROVE ThreadsKnown'
  <2>1. victim[w] \in Workers /\ UNCHANGED <<mpc, handles>>
    BY <1>9, StealEffect
  <2>2. CASE Stolen(w, victim[w])
    <3>1. Head(deque[victim[w]]) \in Task
      BY <2>1, <2>2, DequeEnds DEF Stolen, TypeOK
    <3> QED
      BY <1>5, <2>1, <2>2, <3>1 DEF Stolen
  <2>3. CASE NotStolen(w, victim[w])
    BY <2>1, <2>3 DEF NotStolen
  <2> QED
    BY <1>9, <2>2, <2>3, StealEffect
<1>10. ASSUME NEW w \in Workers, FoundNothing(w) \/ Park(w) \/ ParkTimeout(w) PROVE ThreadsKnown'
  BY <1>6, <1>10 DEF FoundNothing, Park, ParkTimeout, Goto, TypeOK
<1>11. ASSUME NEW w \in Workers, RunSpawn(w) \/ DoneForMain(w) \/ DoneForParent(w) PROVE ThreadsKnown'
  <2>1. /\ UNCHANGED <<mpc, handles>> /\ task' = [task EXCEPT ![w] = None]
        /\ pc' = [pc EXCEPT ![w] = "wake"] \/ pc' = [pc EXCEPT ![w] = "own"]
    BY <1>11 DEF RunSpawn, DoneForMain, DoneForParent, Goto
  <2> QED
    BY <2>1 DEF TypeOK
<1>12. ASSUME NEW w \in Workers, WakeAfterPush(w) PROVE ThreadsKnown'
  <2> DEFINE pcs == [pc EXCEPT ![w] = "own"]
  <2>1. /\ pcs \in [Workers -> {"own", "global", "steal", "park", "parked", "run", "wake"}]
        /\ \A u \in Workers : pcs[u] = "run" <=> pc[u] = "run"
    BY <1>12 DEF WakeAfterPush, TypeOK
  <2>2. WakeOne(pcs) /\ UNCHANGED <<mpc, handles, task>>
    BY <1>12 DEF WakeAfterPush
  <2> HIDE DEF pcs
  <2>3. \A u \in Workers : pc'[u] = "run" <=> pcs[u] = "run"
    BY <2>1, <2>2, WakeOneEffect
  <2> QED
    BY <2>1, <2>2, <2>3
<1>13. CASE UNCHANGED vars
  BY <1>13 DEF vars
<1> QED
  BY <1>1, <1>2, <1>3, <1>4, <1>7, <1>8, <1>9, <1>10, <1>11, <1>12, <1>13
  DEF Next, MainStep, WorkerStep, SearchStep, RunTaskStep

-----------------------------------------------------------------------------
(* Tasks *)

Settled == TasksKnown /\ ParentsAwait /\ Placed /\ Answered

(* A step that creates and ends no task, and only moves them.              *)
LEMMA OnlyMoved ==
  ASSUME IInv, TypeOK', UNCHANGED <<created, waiter, submitter, resolved, awaited>>,
         done' = done, freed \subseteq freed', freed' \subseteq freed \cup done,
         \A i \in Task : (Somewhere(i)' <=> Somewhere(i)) /\ (Once(i) => Once(i)')
  PROVE  Settled'
<1>1. \A i \in Task : Live(i)' <=> Live(i)
  BY DEF Live
<1>2. \A i \in Task : Suspended(i)' <=> Suspended(i)
  BY <1>1 DEF Suspended
<1>3. TasksKnown'
  BY DEF IInv, TasksKnown
<1>4. ParentsAwait'
  <2> SUFFICES ASSUME NEW i \in Task, Live(i), waiter[i] # None
               PROVE  Live(waiter[i])' /\ awaited[waiter[i]] = i /\ waiter[i] # i
    BY <1>1 DEF ParentsAwait
  <2>1. PICK p \in Task : p = waiter[i]
    BY DEF IInv, TypeOK
  <2>2. Live(p) /\ awaited[p] = i /\ p # i
    BY <2>1 DEF IInv, ParentsAwait
  <2>3. Live(p)' /\ waiter'[i] = p
    BY <1>1, <2>1, <2>2
  <2> QED
    BY <2>1, <2>2, <2>3 DEF Live
<1>5. Placed'
  BY <1>1, <1>2 DEF IInv, Placed
<1>6. Answered'
  BY <1>1, <1>2 DEF IInv, Answered
<1> QED
  BY <1>3, <1>4, <1>5, <1>6 DEF Settled

(* A parent awaits one live child, so the next task number has no child    *)
(* and is nowhere.                                                         *)
LEMMA NextTask ==
  ASSUME IInv, created < MaxTasks, NEW c, c = created + 1
  PROVE  /\ c \in Task /\ ~Live(c) /\ ~Suspended(c) /\ ~Somewhere(c) /\ Once(c)
         /\ waiter[c] = None /\ submitter[c] = None /\ awaited[c] = None /\ c \notin done /\ c \notin freed
         /\ \A j \in Task : /\ j <= created + 1 <=> j <= created \/ j = c
                            /\ Live(j) => j # c
<1>1. c \in Task /\ ~Live(c) /\ created \in Nat
  BY BoundAssumption DEF IInv, TypeOK, Task, Live
<1>2. ~Suspended(c)
  BY <1>1, QueuesKnown DEF IInv, ParentsAwait, Suspended
<1>3. \A j \in Task : j <= created + 1 <=> j <= created \/ j = c
  BY <1>1 DEF Task
<1>4. c > created
  BY <1>1
<1> QED
  BY <1>1, <1>2, <1>3, <1>4 DEF IInv, Placed, TasksKnown

(* Submitting a task adds one, in the global stack, that its thread awaits. *)
LEMMA SubmitStep ==
  ASSUME IInv, TypeOK', NEW m \in Mains, SpawnAsync(m)
  PROVE  Settled'
<1>a. m # None /\ None \notin Task
  BY NoneAssumption, QueuesKnown DEF IInv
<1>b. TypeOK /\ created \in Nat
  BY DEF IInv, TypeOK
<1>1. PICK c : c = created + 1
  OBVIOUS
<1>2. /\ c \in Task /\ ~Live(c) /\ ~Suspended(c) /\ ~Somewhere(c) /\ Once(c)
      /\ waiter[c] = None /\ submitter[c] = None /\ awaited[c] = None /\ c \notin done /\ c \notin freed
      /\ \A j \in Task : /\ j <= created + 1 <=> j <= created \/ j = c
                         /\ Live(j) => j # c
  BY <1>1, NextTask DEF SpawnAsync
<1>3. /\ created' = created + 1 /\ submitter' = [submitter EXCEPT ![c] = m]
      /\ UNCHANGED <<waiter, resolved, awaited, done, freed>>
  BY <1>1 DEF SpawnAsync
<1>4. \A j \in Task : Live(j)' <=> Live(j) \/ j = c
  BY <1>2, <1>3 DEF Live
<1>5. \A j \in Task : Suspended(j)' <=> Suspended(j)
  BY <1>a, <1>2, <1>3, <1>4 DEF Suspended
<1>6. TasksKnown'
  <2> SUFFICES ASSUME NEW j \in Task
               PROVE  /\ j > created + 1 => /\ waiter[j] = None /\ submitter'[j] = None /\ awaited[j] = None
                                            /\ j \notin done /\ j \notin freed
                      /\ j <= created + 1 => (submitter'[j] = None <=> waiter[j] # None)
    BY <1>3 DEF TasksKnown
  <2>1. j \in Nat
    BY DEF Task
  <2>2. CASE j = c
    BY <1>a, <1>b, <1>1, <1>2, <1>3, <2>2 DEF TypeOK
  <2>3. CASE j # c
    <3>1. submitter'[j] = submitter[j] /\ (j > created + 1 => j > created)
      BY <1>b, <1>3, <2>1, <2>3 DEF TypeOK
    <3> QED
      BY <1>2, <2>3, <3>1 DEF IInv, TasksKnown
  <2> QED
    BY <2>2, <2>3
<1>7. ParentsAwait'
  <2> SUFFICES ASSUME NEW j \in Task, Live(j)', waiter[j] # None
               PROVE  Live(waiter[j])' /\ awaited[waiter[j]] = j /\ waiter[j] # j
    BY <1>3 DEF ParentsAwait
  <2>1. PICK p \in Task : p = waiter[j]
    BY <1>b DEF TypeOK
  <2>2. Live(p) /\ awaited[p] = j /\ p # j
    BY <1>2, <1>4, <2>1 DEF IInv, ParentsAwait
  <2>3. Live(p)' /\ waiter'[j] = p
    BY <1>3, <1>4, <2>1, <2>2
  <2> QED
    BY <2>1, <2>2, <2>3 DEF Live
<1>8. Placed'
  <2>1. global' = <<c>> \o global /\ UNCHANGED <<deque, task>>
    BY <1>1 DEF SpawnAsync
  <2>2. \A j \in Task : /\ j # c => (Somewhere(j)' <=> Somewhere(j)) /\ (Once(j) => Once(j)')
                        /\ j = c => Somewhere(j)' /\ Once(j)'
    BY <1>b, <1>2, <2>1, PutFirst
  <2> QED
    BY <1>2, <1>4, <1>5, <2>2 DEF IInv, Placed
<1>9. Answered'
  BY <1>2, <1>3, <1>4, <1>5 DEF IInv, Answered
<1> QED
  BY <1>6, <1>7, <1>8, <1>9 DEF Settled

(* A task that spawns a subtask leaves its place to it and awaits it.      *)
LEMMA SpawnStep ==
  ASSUME IInv, TypeOK', NEW w \in Workers, RunSpawn(w)
  PROVE  Settled'
<1>b. TypeOK
  BY DEF IInv
<1>a. None \notin Task /\ created \in Nat
  BY <1>b, QueuesKnown DEF TypeOK
<1>1. PICK c : c = created + 1
  OBVIOUS
<1>2. /\ c \in Task /\ ~Live(c) /\ ~Suspended(c) /\ ~Somewhere(c) /\ Once(c)
      /\ waiter[c] = None /\ submitter[c] = None /\ awaited[c] = None /\ c \notin done /\ c \notin freed
      /\ \A j \in Task : /\ j <= created + 1 <=> j <= created \/ j = c
                         /\ Live(j) => j # c
  BY <1>1, NextTask DEF RunSpawn
<1>3. PICK i \in Task : i = task[w] /\ Live(i) /\ ~Suspended(i) /\ Once(i)
  BY InHand DEF RunSpawn, Goto
<1>4. /\ created' = created + 1 /\ waiter' = [waiter EXCEPT ![c] = i]
      /\ awaited' = [awaited EXCEPT ![i] = c]
      /\ UNCHANGED <<submitter, resolved, done, freed>>
  BY <1>1, <1>3 DEF RunSpawn
<1>5. i # c /\ waiter'[c] = i /\ awaited'[i] = c
      /\ \A j \in Task : /\ j # c => waiter'[j] = waiter[j]
                         /\ j # i => awaited'[j] = awaited[j]
  BY <1>a, <1>b, <1>2, <1>3, <1>4 DEF TypeOK
<1>6. \A j \in Task : Live(j)' <=> Live(j) \/ j = c
  BY <1>2, <1>4 DEF Live
<1>7. \A j \in Task : Suspended(j)' <=> Suspended(j) \/ j = i
  BY <1>2, <1>5, <1>6 DEF Suspended
<1>8. TasksKnown'
  <2> SUFFICES ASSUME NEW j \in Task
               PROVE  /\ j > created + 1 => /\ waiter'[j] = None /\ submitter[j] = None /\ awaited'[j] = None
                                            /\ j \notin done /\ j \notin freed
                      /\ j <= created + 1 => (submitter[j] = None <=> waiter'[j] # None)
    BY <1>4 DEF TasksKnown
  <2>1. j \in Nat
    BY DEF Task
  <2>2. CASE j = c
    BY <1>a, <1>1, <1>2, <1>3, <1>5, <2>1, <2>2
  <2>3. CASE j # c
    <3>1. waiter'[j] = waiter[j] /\ (j > created + 1 => j > created /\ j # i)
      BY <1>a, <1>3, <1>5, <2>1, <2>3 DEF Live
    <3> QED
      BY <1>2, <1>5, <2>3, <3>1 DEF IInv, TasksKnown
  <2> QED
    BY <2>2, <2>3
<1>9. ParentsAwait'
  <2> SUFFICES ASSUME NEW j \in Task, Live(j)', waiter'[j] # None
               PROVE  Live(waiter[j])' /\ awaited'[waiter'[j]] = j /\ waiter'[j] # j
    BY DEF ParentsAwait
  <2>1. CASE j = c
    BY <1>3, <1>5, <1>6, <2>1 DEF Live
  <2>2. CASE j # c
    <3>1. PICK p \in Task : p = waiter[j] /\ waiter'[j] = p
      BY <1>a, <1>b, <1>5, <2>2 DEF TypeOK
    <3>2. Live(j) /\ Live(p) /\ awaited[p] = j /\ p # j
      BY <1>6, <2>2, <3>1 DEF IInv, ParentsAwait
    <3>3. p # i
      BY <1>3, <3>1, <3>2 DEF Suspended
    <3>4. Live(p)' /\ awaited'[p] = j
      BY <1>5, <1>6, <3>2, <3>3
    <3> QED
      BY <3>1, <3>2, <3>4 DEF Live
  <2> QED
    BY <2>1, <2>2
<1>10. Placed'
  <2>1. /\ Queue(w)' = Append(Queue(w), c) /\ \A q \in 0 .. N \ {w} : Queue(q)' = Queue(q)
        /\ task' = [task EXCEPT ![w] = None]
    BY <1>a, <1>b, <1>1, QueuesKnown DEF RunSpawn, Queue, TypeOK
  <2>2. \A j \in Task :
          /\ j # i /\ j # c => (Somewhere(j)' <=> Somewhere(j)) /\ (Once(j) => Once(j)')
          /\ j = c => Somewhere(j)' /\ Once(j)'
          /\ j = i => ~Somewhere(j)' /\ Once(j)'
    BY <1>a, <1>b, <1>2, <1>3, <1>5, <2>1, PutLast
  <2> QED
    BY <1>2, <1>3, <1>5, <1>6, <1>7, <2>2 DEF IInv, Placed
<1>11. Answered'
  BY <1>2, <1>4, <1>5, <1>6, <1>7 DEF IInv, Answered
<1> QED
  BY <1>8, <1>9, <1>10, <1>11 DEF Settled

(* A task that a thread waits for is nobody's child and has no child left. *)
LEMMA DoneForMainStep ==
  ASSUME IInv, TypeOK', NEW w \in Workers, DoneForMain(w)
  PROVE  Settled'
<1>b. TypeOK
  BY DEF IInv
<1>a. None \notin Task /\ created \in Nat
  BY <1>b, QueuesKnown DEF TypeOK
<1>1. PICK i \in Task : i = task[w] /\ Live(i) /\ ~Suspended(i) /\ Once(i)
  BY InHand DEF DoneForMain, Goto
<1>2. /\ submitter[i] # None /\ done' = done \cup {i} /\ task' = [task EXCEPT ![w] = None]
      /\ UNCHANGED <<created, global, deque, waiter, submitter, resolved, awaited, freed>>
  BY <1>1 DEF DoneForMain
<1>3. waiter[i] = None /\ i <= created
  BY <1>1, <1>2 DEF IInv, TasksKnown, Live
<1>4. \A j \in Task : Live(j)' <=> Live(j) /\ j # i
  BY <1>2 DEF Live
<1>5. \A j \in Task : Suspended(j)' <=> Suspended(j)
  BY <1>a, <1>2, <1>3, <1>4 DEF Suspended
<1>6. TasksKnown'
  <2>1. i > created => FALSE
    BY <1>a, <1>3 DEF Task
  <2> QED
    BY <1>2, <2>1 DEF IInv, TasksKnown
<1>7. ParentsAwait'
  <2> SUFFICES ASSUME NEW j \in Task, Live(j)', waiter[j] # None
               PROVE  Live(waiter[j])' /\ awaited[waiter[j]] = j /\ waiter[j] # j
    BY <1>2 DEF ParentsAwait
  <2>1. PICK p \in Task : p = waiter[j]
    BY <1>b DEF TypeOK
  <2>2. Live(p) /\ awaited[p] = j /\ p # j /\ p # i
    BY <1>1, <1>4, <2>1 DEF IInv, ParentsAwait, Suspended
  <2>3. Live(p)' /\ waiter'[j] = p
    BY <1>2, <1>4, <2>1, <2>2
  <2> QED
    BY <2>1, <2>2, <2>3 DEF Live
<1>8. Placed'
  <2>1. \A q \in 0 .. N : Queue(q)' = Queue(q)
    BY <1>2 DEF Queue
  <2>2. \A j \in Task : /\ j # i => (Somewhere(j)' <=> Somewhere(j)) /\ (Once(j) => Once(j)')
                        /\ j = i => ~Somewhere(j)' /\ Once(j)'
    BY <1>b, <1>1, <1>2, <2>1, Drop
  <2> QED
    BY <1>4, <1>5, <2>2 DEF IInv, Placed
<1>9. Answered'
  BY <1>2, <1>4, <1>5 DEF IInv, Answered
<1> QED
  BY <1>6, <1>7, <1>8, <1>9 DEF Settled

(* A subtask that ends leaves its place to its parent, which has no other  *)
(* child, with its value.                                                  *)
LEMMA DoneForParentStep ==
  ASSUME IInv, TypeOK', NEW w \in Workers, DoneForParent(w)
  PROVE  Settled'
<1>b. TypeOK
  BY DEF IInv
<1>a. None \notin Task /\ created \in Nat
  BY <1>b, QueuesKnown DEF TypeOK
<1>1. PICK i \in Task : i = task[w] /\ Live(i) /\ ~Suspended(i) /\ Once(i)
  BY InHand DEF DoneForParent, Goto
<1>2. PICK p \in Task : p = waiter[i]
  BY <1>1, InHand DEF DoneForParent, Goto
<1>3. /\ resolved' = [resolved EXCEPT ![p] = i] /\ freed' = freed \cup {i}
      /\ task' = [task EXCEPT ![w] = None]
      /\ UNCHANGED <<created, global, waiter, submitter, awaited, done>>
  BY <1>1, <1>2 DEF DoneForParent
<1>4. Live(p) /\ awaited[p] = i /\ p # i /\ Suspended(p) /\ i <= created
  BY <1>a, <1>1, <1>2 DEF IInv, ParentsAwait, Suspended, Live
<1>5. \A j \in Task : Live(j)' <=> Live(j) /\ j # i
  BY <1>3 DEF Live
<1>6. \A j \in Task : Live(j) /\ waiter[j] = p => j = i
  BY <1>a, <1>4 DEF IInv, ParentsAwait
<1>7. \A j \in Task : Suspended(j)' <=> Suspended(j) /\ j # p
  BY <1>2, <1>3, <1>5, <1>6 DEF Suspended
<1>8. TasksKnown'
  <2>1. i > created => FALSE
    BY <1>a, <1>4 DEF Task
  <2> QED
    BY <1>3, <2>1 DEF IInv, TasksKnown
<1>9. ParentsAwait'
  <2> SUFFICES ASSUME NEW j \in Task, Live(j)', waiter[j] # None
               PROVE  Live(waiter[j])' /\ awaited[waiter[j]] = j /\ waiter[j] # j
    BY <1>3 DEF ParentsAwait
  <2>1. PICK q \in Task : q = waiter[j]
    BY <1>b DEF TypeOK
  <2>2. Live(q) /\ awaited[q] = j /\ q # j /\ q # i
    BY <1>1, <1>5, <2>1 DEF IInv, ParentsAwait, Suspended
  <2>3. Live(q)' /\ waiter'[j] = q
    BY <1>3, <1>5, <2>1, <2>2
  <2> QED
    BY <2>1, <2>2, <2>3 DEF Live
<1>10. Placed'
  <2>1. /\ Queue(w)' = Append(Queue(w), p) /\ \A q \in 0 .. N \ {w} : Queue(q)' = Queue(q)
    BY <1>b, <1>1, <1>2, QueuesKnown DEF DoneForParent, Queue, TypeOK
  <2>2. ~Somewhere(p)
    BY <1>4 DEF IInv, Placed
  <2>3. \A j \in Task :
          /\ j # i /\ j # p => (Somewhere(j)' <=> Somewhere(j)) /\ (Once(j) => Once(j)')
          /\ j = p => Somewhere(j)' /\ Once(j)'
          /\ j = i => ~Somewhere(j)' /\ Once(j)'
    BY <1>b, <1>1, <1>3, <1>4, <2>1, <2>2, PutLast
  <2> QED
    BY <1>4, <1>5, <1>7, <2>3 DEF IInv, Placed
<1>11. Answered'
  <2> SUFFICES ASSUME NEW j \in Task, Live(j)', ~Suspended(j)', awaited[j] # None
               PROVE  resolved'[j] = awaited[j]
    BY <1>3 DEF Answered
  <2>1. CASE j = p
    BY <1>b, <1>3, <1>4, <2>1 DEF TypeOK
  <2>2. CASE j # p
    BY <1>b, <1>3, <1>5, <1>7, <2>2 DEF IInv, Answered, TypeOK
  <2> QED
    BY <2>1, <2>2
<1> QED
  BY <1>8, <1>9, <1>10, <1>11 DEF Settled

(* A worker that takes a task moves it from a queue to its hand.           *)
LEMMA TakeStep ==
  ASSUME IInv, TypeOK', NEW w \in Workers, PopOwn(w) \/ PopGlobal(w) \/ StealNext(w)
  PROVE  Settled'
<1>b. TypeOK
  BY DEF IInv
<1>a. Workers \subseteq 0 .. N /\ N \in 0 .. N /\ N \notin Workers
  BY <1>b, QueuesKnown
<1>1. UNCHANGED <<created, taskVars>>
  BY DEF PopOwn, PopGlobal, StealNext
<1>2. pc[w] # "run" => task[w] = None
  BY <1>b DEF IInv, ThreadsKnown
<1>3. ASSUME UNCHANGED <<global, deque, task>> PROVE \A i \in Task : Somewhere(i)' = Somewhere(i) /\ Once(i)' = Once(i)
  BY <1>3 DEF Somewhere, Once, Holds, Queue
<1>4. \A i \in Task : (Somewhere(i)' <=> Somewhere(i)) /\ (Once(i) => Once(i)')
  <2>1. CASE PopOwn(w)
    <3>1. CASE deque[w] # <<>>
      <4>1. /\ Queue(w) # <<>> /\ Queue(w)' = Front(Queue(w)) /\ task[w] = None
            /\ \A q \in 0 .. N \ {w} : Queue(q)' = Queue(q)
            /\ task' = [task EXCEPT ![w] = Last(Queue(w))]
        <5>1. /\ pc[w] = "own" /\ deque' = [deque EXCEPT ![w] = Front(deque[w])]
              /\ global' = global /\ task' = [task EXCEPT ![w] = Last(deque[w])]
          BY <2>1, <3>1 DEF PopOwn, Run, Goto
        <5>2. deque'[w] = Front(deque[w]) /\ \A q \in Workers \ {w} : deque'[q] = deque[q]
          BY <1>b, <5>1 DEF TypeOK
        <5>3. task[w] = None
          BY <1>2, <5>1
        <5>4. \A q \in 0 .. N \ {w} : Queue(q)' = Queue(q)
          BY <1>a, <5>1, <5>2 DEF Queue, Workers
        <5> QED
          BY <1>a, <3>1, <5>1, <5>2, <5>3, <5>4 DEF Queue
      <4> QED
        BY <1>b, <4>1, TakeLast
    <3>2. CASE deque[w] = <<>>
      BY <1>3, <2>1, <3>2 DEF PopOwn
    <3> QED
      BY <3>1, <3>2
  <2>2. CASE PopGlobal(w)
    <3>1. CASE global # <<>>
      <4>1. /\ Queue(N) # <<>> /\ Queue(N)' = Tail(Queue(N)) /\ task[w] = None
            /\ \A q \in 0 .. N \ {N} : Queue(q)' = Queue(q)
            /\ task' = [task EXCEPT ![w] = Head(Queue(N))]
        <5>1. /\ pc[w] = "global" /\ global' = Tail(global) /\ deque' = deque
              /\ task' = [task EXCEPT ![w] = Head(global)]
          BY <2>2, <3>1 DEF PopGlobal, Run, Goto
        <5>2. task[w] = None
          BY <1>2, <5>1
        <5> QED
          BY <1>a, <3>1, <5>1, <5>2 DEF Queue
      <4> QED
        BY <1>a, <1>b, <4>1, TakeHead
    <3>2. CASE global = <<>>
      BY <1>3, <2>2, <3>2 DEF PopGlobal
    <3> QED
      BY <3>1, <3>2
  <2>3. CASE StealNext(w)
    <3>1. PICK v \in Workers : v = victim[w] /\ (Stolen(w, v) \/ NotStolen(w, v)) /\ global' = global
      BY <1>b, <2>3, StealEffect
    <3>2. CASE Stolen(w, v)
      <4>1. /\ Queue(v) # <<>> /\ Queue(v)' = Tail(Queue(v)) /\ task[w] = None
            /\ \A q \in 0 .. N \ {v} : Queue(q)' = Queue(q)
            /\ task' = [task EXCEPT ![w] = Head(Queue(v))]
        <5>1. /\ pc[w] = "steal" /\ deque' = [deque EXCEPT ![v] = Tail(deque[v])]
              /\ task' = [task EXCEPT ![w] = Head(deque[v])] /\ deque[v] # <<>>
          BY <3>2 DEF Stolen, Run, Goto
        <5>2. deque'[v] = Tail(deque[v]) /\ \A q \in Workers \ {v} : deque'[q] = deque[q]
          BY <1>b, <5>1 DEF TypeOK
        <5>3. task[w] = None
          BY <1>2, <5>1
        <5>4. \A q \in 0 .. N \ {v} : Queue(q)' = Queue(q)
          BY <1>a, <3>1, <5>2 DEF Queue, Workers
        <5> QED
          BY <1>a, <5>1, <5>2, <5>3, <5>4 DEF Queue
      <4> QED
        BY <1>a, <1>b, <4>1, TakeHead
    <3>3. CASE NotStolen(w, v)
      BY <1>3, <3>1, <3>3 DEF NotStolen
    <3> QED
      BY <3>1, <3>2, <3>3
  <2> QED
    BY <2>1, <2>2, <2>3
<1> QED
  BY <1>1, <1>4, OnlyMoved DEF taskVars

(* The other steps move no task; a join frees a task that is done.         *)
LEMMA OtherStep ==
  ASSUME IInv, TypeOK', UNCHANGED <<created, global, deque, task>>,
         UNCHANGED taskVars \/ \E m \in Mains : JoinTask(m)
  PROVE  Settled'
<1>1. \A i \in Task : (Somewhere(i)' <=> Somewhere(i)) /\ (Once(i) => Once(i)')
  BY DEF Somewhere, Once, Holds, Queue
<1>2. /\ UNCHANGED <<waiter, submitter, resolved, awaited>>
      /\ done' = done /\ freed \subseteq freed' /\ freed' \subseteq freed \cup done
  BY DEF JoinTask, taskVars
<1> QED
  BY <1>1, <1>2, OnlyMoved

-----------------------------------------------------------------------------
(* The invariant *)

(* No task has been created.                                               *)
LEMMA InvariantInit == Init => IInv
<1> SUFFICES ASSUME Init PROVE IInv
  OBVIOUS
<1>a. MaxTasks \in Nat /\ N \in Nat \ {0} /\ None \notin Task /\ 0 \in 0 .. N
  BY BoundAssumption, WorkersAssumption, NoneAssumption DEF Task
<1>1. TypeOK
  BY <1>a DEF Init, TypeOK
<1>2. ThreadsKnown
  BY DEF Init, ThreadsKnown
<1>3. \A i \in Task : i > created /\ ~Live(i)
  BY <1>a DEF Init, Task, Live
<1>4. TasksKnown
  <2>1. \A i \in Task : ~(i <= created)
    BY <1>a DEF Init, Task
  <2> QED
    BY <2>1 DEF Init, TasksKnown
<1>5. ParentsAwait /\ Answered
  BY <1>3 DEF ParentsAwait, Answered
<1>6. Placed
  <2>1. \A q \in 0 .. N : Queue(q) = <<>>
    BY <1>1, QueuesKnown DEF Init, Queue
  <2>2. \A q \in Workers : task[q] = None
    BY DEF Init
  <2>3. \A i \in Task, q \in 0 .. N, k \in Nat : ~Holds(q, k, i)
    BY <1>a, <2>1, <2>2 DEF Holds
  <2> QED
    BY <1>3, <2>3 DEF Placed, Once, Somewhere
<1> QED
  BY <1>1, <1>2, <1>4, <1>5, <1>6 DEF IInv

(* Every step keeps the inductive invariant.                               *)
LEMMA InvariantStep == IInv /\ [Next]_vars => IInv'
<1> SUFFICES ASSUME IInv, [Next]_vars PROVE IInv'
  OBVIOUS
<1>1. TypeOK' /\ ThreadsKnown'
  BY TypeStep, ThreadsStep
<1>2. ASSUME NEW m \in Mains, SpawnAsync(m) PROVE Settled'
  BY <1>1, <1>2, SubmitStep
<1>3. ASSUME NEW m \in Mains, SpawnWake(m) \/ BeginJoin(m) PROVE Settled'
  BY <1>1, <1>3, OtherStep DEF SpawnWake, BeginJoin
<1>4. ASSUME NEW m \in Mains, JoinTask(m) PROVE Settled'
  <2>1. UNCHANGED <<created, global, deque, task>>
    BY <1>4 DEF JoinTask
  <2> QED
    BY <1>1, <1>4, <2>1, OtherStep
<1>5. ASSUME NEW w \in Workers, PopOwn(w) \/ PopGlobal(w) \/ StealNext(w) PROVE Settled'
  BY <1>1, <1>5, TakeStep
<1>6. ASSUME NEW w \in Workers, FoundNothing(w) \/ Park(w) \/ ParkTimeout(w) \/ WakeAfterPush(w)
      PROVE  Settled'
  <2>1. UNCHANGED <<created, global, deque, task, taskVars>>
    BY <1>6 DEF FoundNothing, Park, ParkTimeout, WakeAfterPush
  <2> QED
    BY <1>1, <2>1, OtherStep
<1>7. ASSUME NEW w \in Workers, RunSpawn(w) PROVE Settled'
  BY <1>1, <1>7, SpawnStep
<1>8. ASSUME NEW w \in Workers, DoneForMain(w) PROVE Settled'
  BY <1>1, <1>8, DoneForMainStep
<1>9. ASSUME NEW w \in Workers, DoneForParent(w) PROVE Settled'
  BY <1>1, <1>9, DoneForParentStep
<1>10. ASSUME UNCHANGED vars PROVE Settled'
  BY <1>1, <1>10, OtherStep DEF vars
<1>11. Settled'
  BY <1>2, <1>3, <1>4, <1>5, <1>6, <1>7, <1>8, <1>9, <1>10
  DEF Next, MainStep, WorkerStep, SearchStep, RunTaskStep
<1> QED
  BY <1>1, <1>11 DEF IInv, Settled

(* Every reachable state satisfies the inductive invariant: queues, hands  *)
(* and the wait-for relation of tasks agree.                               *)
THEOREM Invariant == Spec => []IInv
  BY InvariantInit, InvariantStep, PTL DEF Spec

-----------------------------------------------------------------------------
(* The properties *)

(* The set of places of a task is the relation of Holds.                   *)
LEMMA PlacesHold ==
  ASSUME TypeOK, NEW i \in Task
  PROVE  /\ \A p \in Places(i) : \E q \in 0 .. N, k \in Nat : p = <<q, k>> /\ Holds(q, k, i)
         /\ \A q \in 0 .. N, k \in Nat : Holds(q, k, i) => <<q, k>> \in Places(i)
<1>a. /\ Workers \subseteq 0 .. N /\ N \in 0 .. N /\ N \notin Workers /\ 0 .. N = Workers \cup {N}
      /\ global \in Seq(Task) /\ \A w \in Workers : deque[w] \in Seq(Task)
  BY QueuesKnown DEF TypeOK
<1>b. /\ DOMAIN global = 1 .. Len(global)
      /\ \A w \in Workers : DOMAIN deque[w] = 1 .. Len(deque[w])
  BY <1>a
<1>1. ASSUME NEW p \in Places(i) PROVE \E q \in 0 .. N, k \in Nat : p = <<q, k>> /\ Holds(q, k, i)
  <2>1. CASE p \in {<<N, k>> : k \in {k \in DOMAIN global : global[k] = i}}
    BY <1>a, <1>b, <2>1 DEF Holds, Queue
  <2>2. ASSUME NEW w \in Workers, p \in {<<w, k>> : k \in {k \in DOMAIN deque[w] : deque[w][k] = i}}
        PROVE  \E q \in 0 .. N, k \in Nat : p = <<q, k>> /\ Holds(q, k, i)
    BY <1>a, <1>b, <2>2 DEF Holds, Queue
  <2>3. CASE p \in {<<w, 0>> : w \in {w \in Workers : task[w] = i}}
    BY <1>a, <2>3 DEF Holds
  <2> QED
    BY <2>1, <2>2, <2>3 DEF Places
<1>2. ASSUME NEW q \in 0 .. N, NEW k \in Nat, Holds(q, k, i) PROVE <<q, k>> \in Places(i)
  <2>1. CASE k = 0 /\ q \in Workers /\ task[q] = i
    BY <2>1 DEF Places
  <2>2. CASE q = N /\ k \in 1 .. Len(global) /\ global[k] = i
    BY <1>b, <2>2 DEF Places
  <2>3. CASE q \in Workers /\ k \in 1 .. Len(deque[q]) /\ deque[q][k] = i
    BY <1>b, <2>3 DEF Places
  <2> QED
    BY <1>a, <1>2, <2>1, <2>2, <2>3 DEF Holds, Queue
<1> QED
  BY <1>1, <1>2

(* The inductive invariant says where a task is, and how often.            *)
LEMMA PlacesCounted ==
  ASSUME IInv, NEW i \in Task
  PROVE  /\ Places(i) # {} <=> Live(i) /\ ~Suspended(i)
         /\ Cardinality(Places(i)) = IF Live(i) /\ ~Suspended(i) THEN 1 ELSE 0
<1>a. Once(i) /\ (Somewhere(i) <=> Live(i) /\ ~Suspended(i))
  BY DEF IInv, Placed
<1>b. /\ \A p \in Places(i) : \E q \in 0 .. N, k \in Nat : p = <<q, k>> /\ Holds(q, k, i)
      /\ \A q \in 0 .. N, k \in Nat : Holds(q, k, i) => <<q, k>> \in Places(i)
  BY PlacesHold DEF IInv
<1>1. CASE Somewhere(i)
  <2>1. PICK q \in 0 .. N, k \in Nat : Holds(q, k, i)
    BY <1>1 DEF Somewhere
  <2>2. Places(i) = {<<q, k>>}
    BY <1>a, <1>b, <2>1 DEF Once
  <2>3. Cardinality({<<q, k>>}) = 1
    BY FS_Singleton
  <2> QED
    BY <1>1, <1>a, <2>2, <2>3
<1>2. CASE ~Somewhere(i)
  <2>1. Places(i) = {}
    BY <1>b, <1>2 DEF Somewhere
  <2> QED
    BY <1>2, <1>a, <2>1, FS_EmptySet
<1> QED
  BY <1>1, <1>2

(* A live task is in exactly one queue position or hand unless it is       *)
(* suspended on a live subtask, and a task that ended is in none: no       *)
(* interleaving of pushes, pops, steals and resumptions loses or doubles   *)
(* one.                                                                    *)
THEOREM TasksNeitherLostNorDoubled == Spec => []NoTaskLostOrDoubled
<1>1. IInv => NoTaskLostOrDoubled
  BY PlacesCounted DEF NoTaskLostOrDoubled, IInv
<1> QED
  BY <1>1, Invariant, PTL

(* A task that is in a queue or in a hand after it awaited a subtask has   *)
(* that subtask's value.                                                   *)
THEOREM ResumedWithTheValue == Spec => []ResumedWithItsValue
<1>1. IInv => ResumedWithItsValue
  BY PlacesCounted DEF ResumedWithItsValue, IInv, Answered
<1> QED
  BY <1>1, Invariant, PTL
=============================================================================
