------------------------ MODULE MostCollect_proofs ------------------------
(***************************************************************************)
(* Proofs about the `most` group, for every length of the collection and   *)
(* every set of workers: type correctness, that each counter is the number *)
(* of tasks past one point of handle_most_completion, and that most_wait   *)
(* returns a complete array of results.                                    *)
(***************************************************************************)
EXTENDS MostCollect, FiniteSetTheorems, TLAPS

Busy == {"run", "claim", "store", "stored", "leave"}

(* Each task has one holder: it is not yet spawned, in a queue, in the     *)
(* hands of one worker, or it has left the group.                          *)
OneHolder ==
  /\ ready \subseteq 0 .. nspawn - 1
  /\ \A w \in Workers : pc[w] \in Busy => task[w] \in 0 .. nspawn - 1 /\ task[w] \notin ready
  /\ \A v, w \in Workers : v # w /\ pc[v] \in Busy /\ pc[w] \in Busy => task[v] # task[w]

(* A task has stored its value when its worker is past the store, and not  *)
(* before it is spawned, while it is queued or on the way to the store.    *)
StoredKnown ==
  /\ \A i \in Tasks : i >= nspawn \/ i \in ready => slotOf[i] = -1
  /\ \A w \in Workers : /\ pc[w] \in {"run", "claim", "store"} => slotOf[task[w]] = -1
                        /\ pc[w] \in {"stored", "leave"} => slotOf[task[w]] # -1

Stored == {i \in Tasks : slotOf[i] # -1}
HeldAt(pcs) == {i \in Tasks : \E w \in Workers : pc[w] \in pcs /\ task[w] = i}

(* The tasks behind the fetch-and-add of result_count, that of             *)
(* results_stored, and the decrement of remaining.                         *)
Claimed == Stored \cup HeldAt({"store"})
Counted == Stored \ HeldAt({"stored"})
Left    == Stored \ HeldAt({"stored", "leave"})

(* Each counter is the number of tasks behind its atomic operation.        *)
CountersExact ==
  /\ result_count = Cardinality(Claimed)
  /\ results_stored = Cardinality(Counted)
  /\ remaining = Count - Cardinality(Left)

(* Slots are below result_count and no two tasks have the same; a slot     *)
(* that was stored holds the value of its task.                            *)
SlotsDistinct ==
  /\ \A i \in Stored : slotOf[i] < result_count /\ results[slotOf[i]] = Value[i]
  /\ \A i, j \in Stored : i # j => slotOf[i] # slotOf[j]
  /\ \A w \in Workers : pc[w] = "store" =>
        idx[w] < result_count /\ \A i \in Stored : slotOf[i] # idx[w]
  /\ \A v, w \in Workers : v # w /\ pc[v] = "store" /\ pc[w] = "store" => idx[v] # idx[w]

(* The main thread is past the spin only when every store was counted.     *)
DoneCounted == main = "done" => results_stored >= Count

(* The inductive invariant: the parts rest on one another.                 *)
IInv == TypeOK /\ OneHolder /\ StoredKnown /\ CountersExact /\ SlotsDistinct /\ DoneCounted

-----------------------------------------------------------------------------
(* Holders of tasks *)

(* No step gives a task a second holder, and a task stores its value only  *)
(* in the hands of a worker at the store.                                  *)
LEMMA HolderStep ==
  ASSUME TypeOK, OneHolder, StoredKnown, SlotsDistinct, result_count <= Count, [Next]_vars
  PROVE  OneHolder' /\ StoredKnown'
<1> USE CountAssumption, NoTaskAssumption DEF TypeOK, OneHolder, StoredKnown, Tasks, Slots, Busy
<1>1. CASE MostSpawnTask
  BY <1>1 DEF MostSpawnTask, workVars
<1>2. CASE MostWait
  BY <1>2 DEF MostWait, workVars
<1>3. CASE MostWaitTest
  BY <1>3 DEF MostWaitTest, workVars
<1>4. CASE MostWaitReturn
  BY <1>4 DEF MostWaitReturn, workVars
<1>5. CASE SpuriousWakeup
  BY <1>5 DEF SpuriousWakeup, workVars
<1>6. ASSUME NEW w \in Workers, NEW i \in Tasks, Take(w, i) PROVE OneHolder' /\ StoredKnown'
  <2>1. i \in ready /\ ready' = ready \ {i} /\ UNCHANGED <<nspawn, slotOf>>
    BY <1>6 DEF Take, mainVars
  <2>2. pc[w] = "idle" /\ pc' = [pc EXCEPT ![w] = "run"] /\ task' = [task EXCEPT ![w] = i]
    BY <1>6 DEF Take, Goto
  <2>3. task'[w] = i /\ pc'[w] = "run" /\ \A v \in Workers \ {w} : task'[v] = task[v] /\ pc'[v] = pc[v]
    BY <2>2
  <2>4. \A v \in Workers : pc'[v] \in Busy =>
          task'[v] \in 0 .. nspawn - 1 /\ task'[v] \notin ready \ {i}
    BY <2>1, <2>2, <2>3
  <2>5. \A v \in Workers \ {w} : pc'[v] \in Busy => task'[v] # i
    BY <2>1, <2>3
  <2>6. /\ \A v \in Workers : pc'[v] \in {"run", "claim", "store"} => slotOf[task'[v]] = -1
        /\ \A v \in Workers : pc'[v] \in {"stored", "leave"} => slotOf[task'[v]] # -1
    <3> SUFFICES ASSUME NEW v \in Workers
                 PROVE  /\ pc'[v] \in {"run", "claim", "store"} => slotOf[task'[v]] = -1
                        /\ pc'[v] \in {"stored", "leave"} => slotOf[task'[v]] # -1
      OBVIOUS
    <3>1. CASE v = w
      BY <2>1, <2>3, <3>1
    <3>2. CASE v # w
      BY <2>3, <3>2
    <3> QED
      BY <3>1, <3>2
  <2>7. \A u, v \in Workers :
          u # v /\ pc'[u] \in Busy /\ pc'[v] \in Busy => task'[u] # task'[v]
    <3> SUFFICES ASSUME NEW u \in Workers, NEW v \in Workers, u # v,
                        pc'[u] \in Busy, pc'[v] \in Busy
                 PROVE  task'[u] # task'[v]
      OBVIOUS
    <3>1. CASE u = w
      BY <2>3, <2>5, <3>1
    <3>2. CASE v = w
      BY <2>3, <2>5, <3>2
    <3>3. CASE u # w /\ v # w
      BY <2>3, <3>3
    <3> QED
      BY <3>1, <3>2, <3>3
  <2> QED
    BY <2>1, <2>4, <2>6, <2>7
<1>7. ASSUME NEW w \in Workers, RunDone(w) PROVE OneHolder' /\ StoredKnown'
  BY <1>7 DEF RunDone, Goto, mainVars
<1>8. ASSUME NEW w \in Workers, RunSuspend(w) PROVE OneHolder' /\ StoredKnown'
  BY <1>8 DEF RunSuspend, Goto, mainVars
<1>9. ASSUME NEW w \in Workers, ClaimSlot(w) PROVE OneHolder' /\ StoredKnown'
  BY <1>9 DEF ClaimSlot, Goto, mainVars
<1>10. ASSUME NEW w \in Workers, StoreResult(w) PROVE OneHolder' /\ StoredKnown'
  <2>1. idx[w] < Count /\ idx[w] \in Nat
    BY <1>10 DEF StoreResult, Goto, SlotsDistinct
  <2>2. /\ pc[w] = "store" /\ pc' = [pc EXCEPT ![w] = "stored"]
        /\ slotOf' = [slotOf EXCEPT ![task[w]] = idx[w]]
        /\ UNCHANGED <<nspawn, ready, task>>
    BY <1>10, <2>1 DEF StoreResult, Goto, mainVars
  <2>3. OneHolder'
    BY <2>2
  <2>4. task[w] \in 0 .. nspawn - 1 /\ task[w] \notin ready /\ slotOf'[task[w]] = idx[w]
    BY <2>2
  <2>5. \A i \in Tasks : i >= nspawn \/ i \in ready => slotOf'[i] = -1
    BY <2>2, <2>4
  <2>6. \A v \in Workers \ {w} : pc[v] \in Busy => slotOf'[task[v]] = slotOf[task[v]]
    BY <2>2
  <2> QED
    BY <2>1, <2>2, <2>3, <2>4, <2>5, <2>6
<1>11. ASSUME NEW w \in Workers, CountStored(w) PROVE OneHolder' /\ StoredKnown'
  BY <1>11 DEF CountStored, Goto, mainVars
<1>12. ASSUME NEW w \in Workers, LeaveGroup(w) PROVE OneHolder' /\ StoredKnown'
  BY <1>12 DEF LeaveGroup, Goto, mainVars
<1>13. ASSUME NEW w \in Workers, SignalMain(w) PROVE OneHolder' /\ StoredKnown'
  BY <1>13 DEF SignalMain, Goto
<1>14. CASE UNCHANGED vars
  BY <1>14 DEF vars, mainVars, workVars
<1> QED
  BY <1>1, <1>2, <1>3, <1>4, <1>5, <1>6, <1>7, <1>8, <1>9, <1>10, <1>11, <1>12, <1>13, <1>14
  DEF Next, MainStep, WorkerStep

-----------------------------------------------------------------------------
(* The counters *)

(* The sets of tasks that the counters count are finite, and no larger     *)
(* than the collection.                                                    *)
LEMMA TaskSetsFinite ==
  ASSUME NEW S \in SUBSET Tasks
  PROVE  /\ IsFiniteSet(S) /\ Cardinality(S) \in 0 .. Count
         /\ Cardinality(S) = Count => S = Tasks
         /\ \A i \in Tasks \ S : Cardinality(S \cup {i}) = Cardinality(S) + 1
<1>1. IsFiniteSet(0 .. Count - 1) /\ Cardinality(0 .. Count - 1) = Count
  BY CountAssumption, FS_Interval
<1>2. IsFiniteSet(S) /\ Cardinality(S) <= Count /\ (Cardinality(S) = Count => S = Tasks)
  BY <1>1, FS_Subset DEF Tasks
<1>3. Cardinality(S) \in Nat
  BY <1>2, FS_CardinalityType
<1>4. \A i \in Tasks \ S : Cardinality(S \cup {i}) = Cardinality(S) + 1
  BY <1>2, FS_AddElement
<1> QED
  BY <1>2, <1>3, <1>4, CountAssumption

(* The counters stay within the length of the collection.                  *)
LEMMA CountersBounded ==
  ASSUME CountersExact
  PROVE  result_count \in 0 .. Count /\ results_stored \in 0 .. Count /\ remaining \in 0 .. Count
<1>1. Claimed \in SUBSET Tasks /\ Counted \in SUBSET Tasks /\ Left \in SUBSET Tasks
  BY DEF Claimed, Counted, Left, Stored, HeldAt
<1>2. /\ Cardinality(Claimed) \in 0 .. Count /\ Cardinality(Counted) \in 0 .. Count
      /\ Cardinality(Left) \in 0 .. Count
  BY <1>1, TaskSetsFinite
<1> QED
  BY <1>2, CountAssumption DEF CountersExact

Handling == {"store", "stored", "leave"}

(* A step that moves no worker through the handler, and stores nothing,    *)
(* keeps the counters exact.                                               *)
LEMMA SameCounters ==
  ASSUME CountersExact, UNCHANGED <<slotOf, remaining, result_count, results_stored>>,
         \A w \in Workers : pc[w] \in Handling \/ pc'[w] \in Handling =>
                              pc'[w] = pc[w] /\ task'[w] = task[w]
  PROVE  CountersExact'
<1>1. Stored' = Stored
  BY DEF Stored
<1>2. /\ HeldAt({"store"})' = HeldAt({"store"})
      /\ HeldAt({"stored"})' = HeldAt({"stored"})
      /\ HeldAt({"stored", "leave"})' = HeldAt({"stored", "leave"})
  BY DEF HeldAt, Handling
<1> QED
  BY <1>1, <1>2 DEF CountersExact, Claimed, Counted, Left

(* Every step keeps the counters exact: a task adds one to a counter when  *)
(* it passes the operation, and no task passes it twice.                   *)
LEMMA CountersStep ==
  ASSUME TypeOK, OneHolder, StoredKnown, CountersExact, SlotsDistinct, [Next]_vars
  PROVE  CountersExact'
<1>a. Claimed \in SUBSET Tasks /\ Counted \in SUBSET Tasks /\ Left \in SUBSET Tasks
  BY DEF Claimed, Counted, Left, Stored, HeldAt
<1> USE CountAssumption, NoTaskAssumption DEF TypeOK
<1>1. CASE MostSpawnTask
  BY <1>1, SameCounters DEF MostSpawnTask, workVars, ctxVars
<1>2. CASE MostWait
  BY <1>2, SameCounters DEF MostWait, workVars, ctxVars
<1>3. CASE MostWaitTest
  BY <1>3, SameCounters DEF MostWaitTest, workVars, ctxVars
<1>4. CASE MostWaitReturn
  BY <1>4, SameCounters DEF MostWaitReturn, workVars, ctxVars
<1>5. CASE SpuriousWakeup
  BY <1>5, SameCounters DEF SpuriousWakeup, workVars, ctxVars
<1>6. ASSUME NEW w \in Workers, NEW i \in Tasks, Take(w, i) PROVE CountersExact'
  BY <1>6, SameCounters DEF Take, Goto, ctxVars, Handling
<1>7. ASSUME NEW w \in Workers, RunDone(w) PROVE CountersExact'
  BY <1>7, SameCounters DEF RunDone, Goto, ctxVars, Handling
<1>8. ASSUME NEW w \in Workers, RunSuspend(w) PROVE CountersExact'
  BY <1>8, SameCounters DEF RunSuspend, Goto, ctxVars, Handling
<1>9. ASSUME NEW w \in Workers, ClaimSlot(w) PROVE CountersExact'
  <2>1. /\ pc[w] = "claim" /\ pc' = [pc EXCEPT ![w] = "store"]
        /\ UNCHANGED <<task, slotOf, remaining, results_stored>> /\ result_count' = result_count + 1
    BY <1>9 DEF ClaimSlot, Goto
  <2>2. task[w] \in Tasks /\ task[w] \notin Claimed
    BY <2>1 DEF OneHolder, StoredKnown, Busy, Claimed, Stored, HeldAt, Tasks
  <2>3. Stored' = Stored
    BY <2>1 DEF Stored
  <2>4. HeldAt({"store"})' = HeldAt({"store"}) \cup {task[w]}
    BY <2>1, <2>2 DEF HeldAt
  <2>5. HeldAt({"stored"})' = HeldAt({"stored"}) /\ HeldAt({"stored", "leave"})' = HeldAt({"stored", "leave"})
    BY <2>1 DEF HeldAt
  <2>6. Claimed' = Claimed \cup {task[w]} /\ Counted' = Counted /\ Left' = Left
    BY <2>3, <2>4, <2>5 DEF Claimed, Counted, Left
  <2>7. Cardinality(Claimed') = Cardinality(Claimed) + 1
    BY <1>a, <2>2, <2>6, TaskSetsFinite
  <2> QED
    BY <2>1, <2>6, <2>7 DEF CountersExact
<1>10. ASSUME NEW w \in Workers, StoreResult(w) PROVE CountersExact'
  <2>1. idx[w] < Count /\ idx[w] \in Nat
    BY <1>10, CountersBounded DEF StoreResult, Goto, SlotsDistinct
  <2>2. /\ pc[w] = "store" /\ pc' = [pc EXCEPT ![w] = "stored"] /\ UNCHANGED task
        /\ slotOf' = [slotOf EXCEPT ![task[w]] = idx[w]]
        /\ UNCHANGED <<remaining, result_count, results_stored>>
    BY <1>10, <2>1 DEF StoreResult, Goto
  <2>3. task[w] \in Tasks /\ slotOf[task[w]] = -1
    BY <2>2 DEF OneHolder, StoredKnown, Busy, Tasks
  <2>4. \A v \in Workers \ {w} : pc'[v] = pc[v] /\ (pc[v] \in Busy => task[v] # task[w])
    BY <2>2 DEF OneHolder, Busy
  <2>5. Stored' = Stored \cup {task[w]}
    BY <2>1, <2>2, <2>3 DEF Stored
  <2>6. HeldAt({"store"})' \cup {task[w]} = HeldAt({"store"})
    BY <2>2, <2>3 DEF HeldAt
  <2>7. /\ HeldAt({"stored"})' = HeldAt({"stored"}) \cup {task[w]}
        /\ HeldAt({"stored", "leave"})' = HeldAt({"stored", "leave"}) \cup {task[w]}
    BY <2>2, <2>3 DEF HeldAt
  <2>8. Claimed' = Claimed
    BY <2>5, <2>6 DEF Claimed
  <2>9. Counted' = Counted /\ Left' = Left
    BY <2>3, <2>5, <2>7 DEF Counted, Left, Stored
  <2> QED
    BY <2>2, <2>8, <2>9 DEF CountersExact
<1>11. ASSUME NEW w \in Workers, CountStored(w) PROVE CountersExact'
  <2>1. /\ pc[w] = "stored" /\ pc' = [pc EXCEPT ![w] = "leave"]
        /\ UNCHANGED <<task, slotOf, remaining, result_count>> /\ results_stored' = results_stored + 1
    BY <1>11 DEF CountStored, Goto
  <2>2. task[w] \in Tasks /\ task[w] \in Stored /\ task[w] \notin Counted
    BY <2>1 DEF OneHolder, StoredKnown, Busy, Counted, Stored, HeldAt, Tasks
  <2>3. \A v \in Workers \ {w} : pc'[v] = pc[v] /\ (pc[v] \in Busy => task[v] # task[w])
    BY <2>1 DEF OneHolder, Busy
  <2>4. Stored' = Stored /\ HeldAt({"store"})' = HeldAt({"store"})
    BY <2>1 DEF Stored, HeldAt
  <2>5. HeldAt({"stored"})' = HeldAt({"stored"}) \ {task[w]}
    BY <2>1, <2>3 DEF HeldAt, Busy
  <2>6. HeldAt({"stored", "leave"})' = HeldAt({"stored", "leave"})
    BY <2>1 DEF HeldAt
  <2>7. Claimed' = Claimed /\ Counted' = Counted \cup {task[w]} /\ Left' = Left
    BY <2>2, <2>4, <2>5, <2>6 DEF Claimed, Counted, Left
  <2>8. Cardinality(Counted') = Cardinality(Counted) + 1
    BY <1>a, <2>2, <2>7, TaskSetsFinite
  <2> QED
    BY <2>1, <2>7, <2>8 DEF CountersExact
<1>12. ASSUME NEW w \in Workers, LeaveGroup(w) PROVE CountersExact'
  <2>1. /\ pc[w] = "leave" /\ pc'[w] \in {"signal", "idle"}
        /\ UNCHANGED <<slotOf, results_stored, result_count>> /\ remaining' = remaining - 1
    BY <1>12 DEF LeaveGroup, Goto
  <2>2. task[w] \in Tasks /\ task[w] \in Stored /\ task[w] \notin Left
    BY <2>1 DEF OneHolder, StoredKnown, Busy, Left, Stored, HeldAt, Tasks
  <2>3. \A v \in Workers \ {w} : pc'[v] = pc[v] /\ task'[v] = task[v] /\ (pc[v] \in Busy => task[v] # task[w])
    BY <1>12, <2>1 DEF OneHolder, Busy, LeaveGroup, Goto
  <2>4. /\ Stored' = Stored /\ HeldAt({"store"})' = HeldAt({"store"})
        /\ HeldAt({"stored"})' = HeldAt({"stored"})
    BY <2>1, <2>3 DEF Stored, HeldAt
  <2>5. HeldAt({"stored", "leave"})' = HeldAt({"stored", "leave"}) \ {task[w]}
    BY <2>1, <2>3 DEF HeldAt, Busy
  <2>6. Claimed' = Claimed /\ Counted' = Counted /\ Left' = Left \cup {task[w]}
    BY <2>2, <2>4, <2>5 DEF Claimed, Counted, Left
  <2>7. Cardinality(Left') = Cardinality(Left) + 1 /\ Cardinality(Left) \in Nat
    BY <1>a, <2>2, <2>6, TaskSetsFinite
  <2> QED
    BY <2>1, <2>6, <2>7 DEF CountersExact
<1>13. ASSUME NEW w \in Workers, SignalMain(w) PROVE CountersExact'
  BY <1>13, SameCounters DEF SignalMain, Goto, ctxVars, Handling
<1>14. CASE UNCHANGED vars
  BY <1>14, SameCounters DEF vars, workVars, ctxVars
<1> QED
  BY <1>1, <1>2, <1>3, <1>4, <1>5, <1>6, <1>7, <1>8, <1>9, <1>10, <1>11, <1>12, <1>13, <1>14
  DEF Next, MainStep, WorkerStep

-----------------------------------------------------------------------------
(* Types *)

(* Every step keeps the types: the slot claimed by a task, and the         *)
(* counters, stay within the arrays.                                       *)
LEMMA TypeStep ==
  ASSUME TypeOK, OneHolder, CountersExact', SlotsDistinct, result_count' \in Nat, [Next]_vars
  PROVE  TypeOK'
<1>c. result_count' \in 0 .. Count /\ results_stored' \in 0 .. Count /\ remaining' \in 0 .. Count
  <2>1. Claimed' \in SUBSET Tasks /\ Counted' \in SUBSET Tasks /\ Left' \in SUBSET Tasks
    BY DEF Claimed, Counted, Left, Stored, HeldAt
  <2>2. /\ Cardinality(Claimed') \in 0 .. Count /\ Cardinality(Counted') \in 0 .. Count
        /\ Cardinality(Left') \in 0 .. Count
    BY <2>1, TaskSetsFinite
  <2> QED
    BY <2>2, CountAssumption DEF CountersExact
<1> USE CountAssumption, ValueAssumption, NoTaskAssumption DEF TypeOK, Tasks, Slots
<1>1. CASE MostSpawnTask
  BY <1>1, <1>c DEF MostSpawnTask, workVars, ctxVars
<1>2. CASE MostWait
  BY <1>2, <1>c DEF MostWait, workVars, ctxVars
<1>3. CASE MostWaitTest
  BY <1>3, <1>c DEF MostWaitTest, workVars, ctxVars
<1>4. CASE MostWaitReturn
  BY <1>4, <1>c DEF MostWaitReturn, workVars, ctxVars
<1>5. CASE SpuriousWakeup
  BY <1>5, <1>c DEF SpuriousWakeup, workVars, ctxVars
<1>6. ASSUME NEW w \in Workers, NEW i \in Tasks, Take(w, i) PROVE TypeOK'
  BY <1>6, <1>c DEF Take, Goto, mainVars, ctxVars
<1>7. ASSUME NEW w \in Workers, RunDone(w) PROVE TypeOK'
  BY <1>7, <1>c DEF RunDone, Goto, mainVars, ctxVars
<1>8. ASSUME NEW w \in Workers, RunSuspend(w) PROVE TypeOK'
  <2>1. task[w] \in Tasks
    BY <1>8 DEF RunSuspend, Goto, OneHolder, Busy
  <2> QED
    BY <1>8, <1>c, <2>1 DEF RunSuspend, Goto, mainVars, ctxVars
<1>9. ASSUME NEW w \in Workers, ClaimSlot(w) PROVE TypeOK'
  BY <1>9, <1>c DEF ClaimSlot, Goto, mainVars
<1>10. ASSUME NEW w \in Workers, StoreResult(w) PROVE TypeOK'
  <2>1. task[w] \in Tasks
    BY <1>10 DEF StoreResult, Goto, OneHolder, Busy
  <2>2. results' \in [Slots -> Int] /\ slotOf' \in [Tasks -> Slots \cup {-1}]
    <3>1. CASE idx[w] < Count
      <4>1. idx[w] \in Slots /\ Value[task[w]] \in Int
        BY <2>1, <3>1
      <4> QED
        BY <1>10, <3>1, <4>1, <2>1 DEF StoreResult
    <3>2. CASE ~(idx[w] < Count)
      BY <1>10, <3>2 DEF StoreResult
    <3> QED
      BY <3>1, <3>2
  <2> QED
    BY <1>10, <1>c, <2>2 DEF StoreResult, Goto, mainVars
<1>11. ASSUME NEW w \in Workers, CountStored(w) PROVE TypeOK'
  BY <1>11, <1>c DEF CountStored, Goto, mainVars
<1>12. ASSUME NEW w \in Workers, LeaveGroup(w) PROVE TypeOK'
  BY <1>12, <1>c DEF LeaveGroup, Goto, mainVars
<1>13. ASSUME NEW w \in Workers, SignalMain(w) PROVE TypeOK'
  BY <1>13, <1>c DEF SignalMain, Goto, ctxVars
<1>14. CASE UNCHANGED vars
  BY <1>14, <1>c DEF vars, mainVars, workVars, ctxVars
<1> QED
  BY <1>1, <1>2, <1>3, <1>4, <1>5, <1>6, <1>7, <1>8, <1>9, <1>10, <1>11, <1>12, <1>13, <1>14
  DEF Next, MainStep, WorkerStep

-----------------------------------------------------------------------------
(* Slots *)

(* A step that claims and stores nothing keeps the slots distinct.         *)
LEMMA SameSlots ==
  ASSUME SlotsDistinct, UNCHANGED <<slotOf, results, result_count>>,
         \A w \in Workers : pc'[w] = "store" => pc[w] = "store" /\ idx'[w] = idx[w]
  PROVE  SlotsDistinct'
<1>1. Stored' = Stored
  BY DEF Stored
<1> QED
  BY <1>1 DEF SlotsDistinct

(* Every step keeps the slots distinct: the fetch-and-add gives each task  *)
(* a slot that no other has, and only its own store goes there.            *)
LEMMA SlotsStep ==
  ASSUME TypeOK, OneHolder, StoredKnown, SlotsDistinct, result_count <= Count, [Next]_vars
  PROVE  SlotsDistinct'
<1> USE CountAssumption, NoTaskAssumption DEF TypeOK
<1>1. CASE MostSpawnTask
  BY <1>1, SameSlots DEF MostSpawnTask, workVars, ctxVars
<1>2. CASE MostWait
  BY <1>2, SameSlots DEF MostWait, workVars, ctxVars
<1>3. CASE MostWaitTest
  BY <1>3, SameSlots DEF MostWaitTest, workVars, ctxVars
<1>4. CASE MostWaitReturn
  BY <1>4, SameSlots DEF MostWaitReturn, workVars, ctxVars
<1>5. CASE SpuriousWakeup
  BY <1>5, SameSlots DEF SpuriousWakeup, workVars, ctxVars
<1>6. ASSUME NEW w \in Workers, NEW i \in Tasks, Take(w, i) PROVE SlotsDistinct'
  BY <1>6, SameSlots DEF Take, Goto, ctxVars
<1>7. ASSUME NEW w \in Workers, RunDone(w) PROVE SlotsDistinct'
  BY <1>7, SameSlots DEF RunDone, Goto, ctxVars
<1>8. ASSUME NEW w \in Workers, RunSuspend(w) PROVE SlotsDistinct'
  BY <1>8, SameSlots DEF RunSuspend, Goto, ctxVars
<1>9. ASSUME NEW w \in Workers, ClaimSlot(w) PROVE SlotsDistinct'
  <2>1. /\ pc' = [pc EXCEPT ![w] = "store"] /\ idx' = [idx EXCEPT ![w] = result_count]
        /\ UNCHANGED <<slotOf, results>> /\ result_count' = result_count + 1
    BY <1>9 DEF ClaimSlot, Goto
  <2>2. Stored' = Stored
    BY <2>1 DEF Stored
  <2>3. \A i \in Stored : slotOf[i] \in Int /\ slotOf[i] < result_count
    BY DEF SlotsDistinct, Stored, Slots
  <2>4. idx'[w] = result_count
        /\ \A v \in Workers \ {w} : pc'[v] = pc[v] /\ idx'[v] = idx[v]
    BY <2>1
  <2>5. /\ \A i \in Stored : slotOf[i] < result_count + 1 /\ results[slotOf[i]] = Value[i]
        /\ \A i, j \in Stored : i # j => slotOf[i] # slotOf[j]
    BY <2>3 DEF SlotsDistinct
  <2>6. \A v \in Workers : pc'[v] = "store" =>
          idx'[v] < result_count + 1 /\ \A i \in Stored : slotOf[i] # idx'[v]
    BY <2>3, <2>4 DEF SlotsDistinct
  <2>7. \A u, v \in Workers : u # v /\ pc'[u] = "store" /\ pc'[v] = "store" => idx'[u] # idx'[v]
    <3> SUFFICES ASSUME NEW u \in Workers, NEW v \in Workers, u # v,
                        pc'[u] = "store", pc'[v] = "store"
                 PROVE  idx'[u] # idx'[v]
      OBVIOUS
    <3>1. \A x \in Workers \ {w} : pc[x] = "store" => idx[x] < result_count
      BY DEF SlotsDistinct
    <3>2. CASE u = w
      BY <2>4, <3>1, <3>2
    <3>3. CASE v = w
      BY <2>4, <3>1, <3>3
    <3>4. CASE u # w /\ v # w
      BY <2>4, <3>4 DEF SlotsDistinct
    <3> QED
      BY <3>2, <3>3, <3>4
  <2> QED
    BY <2>1, <2>2, <2>5, <2>6, <2>7 DEF SlotsDistinct
<1>10. ASSUME NEW w \in Workers, StoreResult(w) PROVE SlotsDistinct'
  <2>1. pc[w] = "store" /\ pc' = [pc EXCEPT ![w] = "stored"] /\ UNCHANGED <<task, idx, result_count>>
    BY <1>10 DEF StoreResult, Goto
  <2>2. /\ idx[w] \in Slots /\ idx[w] < result_count
        /\ \A i \in Stored : slotOf[i] # idx[w]
    BY <2>1 DEF SlotsDistinct, Slots
  <2>3. /\ slotOf' = [slotOf EXCEPT ![task[w]] = idx[w]]
        /\ results' = [results EXCEPT ![idx[w]] = Value[task[w]]]
    BY <1>10, <2>2 DEF StoreResult, Slots
  <2>4. task[w] \in Tasks /\ task[w] \notin Stored
    BY <2>1 DEF OneHolder, StoredKnown, Busy, Tasks, Stored
  <2>5. Stored' = Stored \cup {task[w]}
    BY <2>2, <2>3, <2>4 DEF Stored, Slots
  <2>6. /\ slotOf'[task[w]] = idx[w] /\ results'[idx[w]] = Value[task[w]]
        /\ \A i \in Stored : slotOf'[i] = slotOf[i] /\ results'[slotOf[i]] = results[slotOf[i]]
    BY <2>2, <2>3, <2>4 DEF Stored, Slots
  <2>7. /\ \A i \in Stored' : slotOf'[i] < result_count /\ results'[slotOf'[i]] = Value[i]
        /\ \A i, j \in Stored' : i # j => slotOf'[i] # slotOf'[j]
    BY <2>2, <2>5, <2>6 DEF SlotsDistinct
  <2>8. \A v \in Workers : pc'[v] = "store" => pc[v] = "store" /\ v # w
    BY <2>1
  <2>9. \A v \in Workers : pc'[v] = "store" =>
          idx[v] < result_count /\ \A i \in Stored' : slotOf'[i] # idx[v]
    BY <2>1, <2>5, <2>6, <2>8 DEF SlotsDistinct
  <2>10. \A u, v \in Workers : u # v /\ pc'[u] = "store" /\ pc'[v] = "store" => idx[u] # idx[v]
    BY <2>8 DEF SlotsDistinct
  <2> QED
    BY <2>1, <2>7, <2>9, <2>10 DEF SlotsDistinct
<1>11. ASSUME NEW w \in Workers, CountStored(w) PROVE SlotsDistinct'
  BY <1>11, SameSlots DEF CountStored, Goto
<1>12. ASSUME NEW w \in Workers, LeaveGroup(w) PROVE SlotsDistinct'
  BY <1>12, SameSlots DEF LeaveGroup, Goto
<1>13. ASSUME NEW w \in Workers, SignalMain(w) PROVE SlotsDistinct'
  BY <1>13, SameSlots DEF SignalMain, Goto, ctxVars
<1>14. CASE UNCHANGED vars
  BY <1>14, SameSlots DEF vars, workVars, ctxVars
<1> QED
  BY <1>1, <1>2, <1>3, <1>4, <1>5, <1>6, <1>7, <1>8, <1>9, <1>10, <1>11, <1>12, <1>13, <1>14
  DEF Next, MainStep, WorkerStep

-----------------------------------------------------------------------------
(* The results *)

(* The main thread leaves the spin when the count says so, and the count   *)
(* never falls.                                                            *)
LEMMA DoneStep ==
  ASSUME TypeOK, TypeOK', DoneCounted, [Next]_vars
  PROVE  DoneCounted'
<1> USE CountAssumption DEF TypeOK, DoneCounted
<1>1. CASE MostSpawnTask \/ MostWait \/ MostWaitTest \/ SpuriousWakeup
  BY <1>1 DEF MostSpawnTask, MostWait, MostWaitTest, SpuriousWakeup
<1>2. CASE MostWaitReturn
  BY <1>2 DEF MostWaitReturn, ctxVars
<1>3. ASSUME NEW w \in Workers, WorkerStep(w) \/ RunSuspend(w) PROVE DoneCounted'
  <2>1. main' = "done" => main = "done"
    BY <1>3
    DEF WorkerStep, Take, RunDone, RunSuspend, ClaimSlot, StoreResult, CountStored, LeaveGroup,
        SignalMain, mainVars
  <2>2. results_stored' \in {results_stored, results_stored + 1}
    BY <1>3
    DEF WorkerStep, Take, RunDone, RunSuspend, ClaimSlot, StoreResult, CountStored, LeaveGroup,
        SignalMain, ctxVars
  <2> QED
    BY <2>1, <2>2
<1>4. CASE UNCHANGED vars
  BY <1>4 DEF vars, mainVars, ctxVars
<1> QED
  BY <1>1, <1>2, <1>3, <1>4 DEF Next, MainStep

(* The inductive invariant gives the complete array: when all stores are   *)
(* counted every task has stored, so that every slot is claimed.           *)
LEMMA InvariantGivesResults ==
  ASSUME IInv
  PROVE  ResultsComplete
<1>1. /\ Stored \in SUBSET Tasks /\ Counted \in SUBSET Stored /\ Claimed \in SUBSET Tasks
      /\ Counted \in SUBSET Tasks /\ Stored \subseteq Claimed
  BY DEF Stored, Counted, Claimed, HeldAt
<1>2. IsFiniteSet(Stored) /\ Cardinality(Counted) \in 0 .. Count
  BY <1>1, TaskSetsFinite
<1>3. CountedIsStored
  <2>1. Cardinality(Counted) <= Cardinality(Stored)
    BY <1>1, <1>2, FS_Subset
  <2> QED
    BY <2>1 DEF IInv, CountersExact, CountedIsStored, Stored
<1>4. ASSUME main = "done"
      PROVE  /\ result_count = Count
             /\ \A i \in Tasks : slotOf[i] \in Slots /\ results[slotOf[i]] = Value[i]
             /\ \A i, j \in Tasks : i # j => slotOf[i] # slotOf[j]
  <2>1. Cardinality(Counted) = Count
    BY <1>2, <1>4, CountAssumption DEF IInv, DoneCounted, CountersExact
  <2>2. Counted = Tasks
    BY <1>1, <2>1, TaskSetsFinite
  <2>3. Stored = Tasks /\ Claimed = Tasks
    BY <1>1, <2>2
  <2>4. result_count = Count
    BY <2>1, <2>2, <2>3 DEF IInv, CountersExact
  <2>5. \A i \in Tasks : slotOf[i] \in Slots
    BY <2>3 DEF Stored, IInv, TypeOK
  <2> QED
    BY <2>3, <2>4, <2>5 DEF IInv, SlotsDistinct
<1> QED
  BY <1>3, <1>4 DEF ResultsComplete

-----------------------------------------------------------------------------
(* The invariant is inductive.                                             *)

(* It holds before the main thread spawns the first task.                  *)
LEMMA InvariantInit == Init => IInv
<1> SUFFICES ASSUME Init
             PROVE  IInv
  OBVIOUS
<1> USE CountAssumption, ValueAssumption, NoTaskAssumption DEF Init
<1>1. TypeOK
  BY DEF TypeOK, Tasks, Slots
<1>2. OneHolder /\ StoredKnown
  BY DEF OneHolder, StoredKnown, Busy
<1>3. CountersExact
  <2>1. Claimed = {} /\ Counted = {} /\ Left = {}
    BY DEF Claimed, Counted, Left, Stored, HeldAt
  <2> QED
    BY <2>1, FS_EmptySet DEF CountersExact
<1>4. SlotsDistinct /\ DoneCounted
  BY DEF SlotsDistinct, DoneCounted, Stored
<1> QED
  BY <1>1, <1>2, <1>3, <1>4 DEF IInv

(* Every step of the main thread and of the workers keeps it.              *)
LEMMA InvariantStep == IInv /\ [Next]_vars => IInv'
<1> SUFFICES ASSUME IInv, [Next]_vars
             PROVE  IInv'
  OBVIOUS
<1>1. result_count \in 0 .. Count
  BY CountersBounded DEF IInv
<1>2. OneHolder' /\ StoredKnown'
  BY <1>1, HolderStep, CountAssumption DEF IInv
<1>3. CountersExact'
  BY CountersStep DEF IInv
<1>4. result_count' \in Nat
  <2>1. Claimed' \in SUBSET Tasks
    BY DEF Claimed, Stored, HeldAt
  <2>2. Cardinality(Claimed') \in 0 .. Count
    BY <2>1, TaskSetsFinite
  <2> QED
    BY <1>3, <2>2, CountAssumption DEF CountersExact
<1>5. TypeOK'
  BY <1>3, <1>4, TypeStep DEF IInv
<1>6. SlotsDistinct'
  BY <1>1, SlotsStep, CountAssumption DEF IInv
<1>7. DoneCounted'
  BY <1>5, DoneStep DEF IInv
<1> QED
  BY <1>2, <1>3, <1>5, <1>6, <1>7 DEF IInv

(* The invariant holds throughout.                                         *)
THEOREM Invariant == Spec => []IInv
<1> QED
  BY InvariantInit, InvariantStep, PTL DEF Spec

(* The variables of the group keep their types: no claim goes past the     *)
(* arrays and no counter past the number of tasks.                         *)
THEOREM TypeCorrect == Spec => []TypeOK
<1>1. IInv => TypeOK
  BY DEF IInv
<1> QED
  BY <1>1, Invariant, PTL

(* most_wait hands a complete array to its caller, however many tasks the  *)
(* group has and however their workers interleave: no store is counted     *)
(* before it was made, each value has a slot of its own, and the slots are *)
(* those below result_count.                                               *)
THEOREM CompleteResults == Spec => []ResultsComplete
<1> QED
  BY Invariant, InvariantGivesResults, PTL
=============================================================================
