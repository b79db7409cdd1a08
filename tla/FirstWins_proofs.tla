------------------------- MODULE FirstWins_proofs -------------------------
(***************************************************************************)
(* Proofs about the `first` group, for every length of the collection and  *)
(* every set of workers: type correctness, the tally of the tasks, and     *)
(* that first_wait returns the value of element 0.                         *)
(***************************************************************************)
EXTENDS FirstWins, FiniteSetTheorems, TLAPS

(* Each task has one holder: it is not yet spawned, in a queue, suspended, *)
(* or in the hands of one worker.                                          *)
OneHolder ==
  /\ ready \subseteq 0 .. nspawn - 1 /\ suspended \subseteq 0 .. nspawn - 1
  /\ ready \cap suspended = {}
  /\ \A w \in Workers : pc[w] # "idle" =>
        task[w] \in 0 .. nspawn - 1 /\ task[w] \notin ready \cup suspended
  /\ \A v, w \in Workers : v # w /\ pc[v] # "idle" /\ pc[w] # "idle" => task[v] # task[w]

(* What a worker knows of winner_index and of the flag of its task.        *)
WorkerKnows ==
  \A w \in Workers :
    /\ pc[w] = "cas" => task[w] < seen[w]
    /\ pc[w] = "cancel" => winner_index < nth[w]
    /\ pc[w] \in {"drop", "countDrop"} => task[w] \in cancelled

(* Task 0 has won, or has not yet tried to.                                *)
ZeroWinsOrWill ==
  \/ winner_index = 0
  \/ nspawn = 0 \/ 0 \in ready \cup suspended
  \/ \E w \in Workers : /\ task[w] = 0
                        /\ pc[w] \in {"check", "run", "recheckDone", "recheckSpawn",
                                      "load", "cas"}

(* The inductive invariant: the parts rest on one another.                *)
IInv ==
  /\ TypeOK /\ OneHolder /\ TallyExact
  /\ CancelledOnlyBehindWinner /\ WorkerKnows
  /\ WinnerValueSettled /\ ZeroWinsOrWill /\ ReturnsLowestIndex

-----------------------------------------------------------------------------
(* Each task has one holder *)

(* No step gives a task a second holder, or none.                          *)
LEMMA HolderStep ==
  ASSUME TypeOK, OneHolder, [Next]_vars
  PROVE  OneHolder'
<1> USE CountAssumption, NoTaskAssumption DEF TypeOK, OneHolder, Tasks
<1>1. CASE FirstSpawnTask
  BY <1>1 DEF FirstSpawnTask, workVars
<1>2. CASE FirstWait
  BY <1>2 DEF FirstWait, taskVars, workVars
<1>3. CASE FirstWaitLock
  BY <1>3 DEF FirstWaitLock, taskVars, workVars
<1>4. CASE FirstWaitSleep
  BY <1>4 DEF FirstWaitSleep, taskVars, workVars
<1>5. CASE FirstWaitReturn
  BY <1>5 DEF FirstWaitReturn, taskVars, workVars
<1>6. CASE FirstContextDestroy
  BY <1>6 DEF FirstContextDestroy, taskVars, workVars
<1>7. CASE SpuriousWakeup
  BY <1>7 DEF SpuriousWakeup, taskVars, workVars
<1>8. ASSUME NEW i \in Tasks, Resume(i) PROVE OneHolder'
  BY <1>8 DEF Resume, mainVars, workVars
<1>9. ASSUME NEW w \in Workers, NEW i \in Tasks, Take(w, i) PROVE OneHolder'
  <2>1. i \in ready /\ ready' = ready \ {i} /\ UNCHANGED <<suspended, nspawn>>
    BY <1>9 DEF Take, mainVars
  <2>2. pc[w] = "idle" /\ pc' = [pc EXCEPT ![w] = "check"] /\ task' = [task EXCEPT ![w] = i]
    BY <1>9 DEF Take, Goto
  <2>3. task'[w] = i /\ \A v \in Workers \ {w} : task'[v] = task[v] /\ pc'[v] = pc[v]
    BY <2>2
  <2>4. \A v \in Workers : pc'[v] # "idle" =>
          task'[v] \in 0 .. nspawn - 1 /\ task'[v] \notin (ready \ {i}) \cup suspended
    BY <2>1, <2>2, <2>3
  <2>5. \A v \in Workers \ {w} : pc'[v] # "idle" => task'[v] # i
    BY <2>1, <2>3
  <2>6. \A u, v \in Workers :
          u # v /\ pc'[u] # "idle" /\ pc'[v] # "idle" => task'[u] # task'[v]
    <3> SUFFICES ASSUME NEW u \in Workers, NEW v \in Workers, u # v,
                        pc'[u] # "idle", pc'[v] # "idle"
                 PROVE  task'[u] # task'[v]
      OBVIOUS
    <3>1. CASE u = w
      BY <2>3, <2>5, <3>1
    <3>2. CASE v = w
      BY <2>3, <2>5, <3>2
    <3>3. CASE u # w /\ v # w
      BY <2>3, <3>3
    <3> QED
      BY <3>1, <3>2, <3>3
  <2> QED
    BY <2>1, <2>4, <2>6
<1>10. ASSUME NEW w \in Workers, CheckCancelled(w) PROVE OneHolder'
  BY <1>10 DEF CheckCancelled, Goto, taskVars, mainVars
<1>11. ASSUME NEW w \in Workers, DropBeforeRun(w) PROVE OneHolder'
  BY <1>11 DEF DropBeforeRun, Goto, mainVars
<1>12. ASSUME NEW w \in Workers, RunStep(w) PROVE OneHolder'
  BY <1>12 DEF RunStep, Goto, mainVars
<1>13. ASSUME NEW w \in Workers, RecheckCancelled(w) PROVE OneHolder'
  BY <1>13 DEF RecheckCancelled, Goto, taskVars, mainVars
<1>14. ASSUME NEW w \in Workers, RecheckDone(w) PROVE OneHolder'
  BY <1>14 DEF RecheckDone, Goto, taskVars, mainVars
<1>15. ASSUME NEW w \in Workers, Suspend(w) PROVE OneHolder'
  BY <1>15 DEF Suspend, Goto, mainVars
<1>16. ASSUME NEW w \in Workers, LoadWinner(w) PROVE OneHolder'
  BY <1>16 DEF LoadWinner, Goto, taskVars, mainVars
<1>17. ASSUME NEW w \in Workers, CasWinner(w) PROVE OneHolder'
  BY <1>17 DEF CasWinner, Goto, taskVars, mainVars
<1>18. ASSUME NEW w \in Workers, LockContext(w) PROVE OneHolder'
  BY <1>18 DEF LockContext, Goto, taskVars, mainVars
<1>19. ASSUME NEW w \in Workers, StoreValue(w) PROVE OneHolder'
  BY <1>19 DEF StoreValue, Goto, taskVars, mainVars
<1>20. ASSUME NEW w \in Workers, CancelSibling(w) PROVE OneHolder'
  BY <1>20 DEF CancelSibling, mainVars
<1>21. ASSUME NEW w \in Workers, CancelDone(w) PROVE OneHolder'
  BY <1>21 DEF CancelDone, Goto, taskVars, mainVars
<1>22. ASSUME NEW w \in Workers, SignalUnlock(w) PROVE OneHolder'
  BY <1>22 DEF SignalUnlock, Goto, taskVars
<1>23. ASSUME NEW w \in Workers, CountTask(w) PROVE OneHolder'
  BY <1>23 DEF CountTask, Goto, taskVars, mainVars
<1>24. ASSUME NEW w \in Workers, NEW drops \in BOOLEAN, LastTest(w, drops) PROVE OneHolder'
  BY <1>24 DEF LastTest, Goto, Leave, mainVars
<1>25. ASSUME NEW w \in Workers, NEW drops \in BOOLEAN, SignalLast(w, drops) PROVE OneHolder'
  BY <1>25 DEF SignalLast, Goto, Leave
<1>26. CASE UNCHANGED vars
  BY <1>26 DEF vars, ctxVars, taskVars, mainVars, workVars
<1> QED
  BY <1>1, <1>2, <1>3, <1>4, <1>5, <1>6, <1>7, <1>8, <1>9, <1>10, <1>11, <1>12, <1>13,
     <1>14, <1>15, <1>16, <1>17, <1>18, <1>19, <1>20, <1>21, <1>22, <1>23, <1>24, <1>25,
     <1>26
  DEF Next, MainStep, RunTaskStep, HandlerStep

-----------------------------------------------------------------------------
(* The tally of the tasks *)

(* The tasks still to be counted are finitely many.                        *)
LEMMA UncountedFinite == IsFiniteSet(Uncounted)
<1>1. IsFiniteSet(0 .. Count - 1)
  BY CountAssumption, FS_Interval
<1> QED
  BY <1>1, FS_Subset DEF Uncounted, Tasks

(* A step that moves no task past its count keeps the tally.               *)
LEMMA SameTally ==
  ASSUME TallyExact, Uncounted' = Uncounted, completed' = completed
  PROVE  TallyExact'
BY DEF TallyExact

(* A step that counts one task keeps the tally.                            *)
LEMMA OneCounted ==
  ASSUME TypeOK, TallyExact, NEW i \in Uncounted,
         Uncounted' = Uncounted \ {i}, completed' = completed + 1
  PROVE  TallyExact' /\ completed' \in 0 .. Count
<1>1. /\ IsFiniteSet(Uncounted') /\ Cardinality(Uncounted') = Cardinality(Uncounted) - 1
  BY UncountedFinite, FS_RemoveElement
<1>2. Cardinality(Uncounted') \in Nat /\ Cardinality(Uncounted) \in Nat
  BY <1>1, UncountedFinite, FS_CardinalityType
<1> QED
  BY <1>1, <1>2, CountAssumption DEF TallyExact, TypeOK

(* A busy worker holds a task, and the next index is in range.             *)
LEMMA HeldIsTask ==
  ASSUME OneHolder, TypeOK, NEW w \in Workers, pc[w] # "idle"
  PROVE  task[w] \in Tasks /\ task[w] + 1 \in 0 .. Count
BY CountAssumption DEF OneHolder, TypeOK, Tasks

(* A worker that passes its count takes its task off the rest.             *)
LEMMA CountsHeld ==
  ASSUME TypeOK, OneHolder, NEW w \in Workers, pc[w] \notin Past, pc'[w] \in Past,
         \A v \in Workers \ {w} : pc'[v] = pc[v] /\ task'[v] = task[v],
         nspawn' = nspawn, ready' = ready, suspended' = suspended
  PROVE  task[w] \in Uncounted /\ Uncounted' = Uncounted \ {task[w]}
<1>1. pc[w] # "idle" /\ task[w] \in Tasks
  BY HeldIsTask DEF Past
<1>2. task[w] \in Uncounted
  BY <1>1 DEF Uncounted
<1>3. task[w] < nspawn /\ task[w] \notin ready \cup suspended
  BY <1>1, CountAssumption DEF OneHolder, TypeOK
<1>4. \A v \in Workers \ {w} : pc[v] \notin Past => task[v] # task[w]
  BY <1>1 DEF OneHolder, Past
<1>5. task[w] \notin Uncounted'
  <2>1. \A v \in Workers : task'[v] = task[w] => pc'[v] \in Past
    BY <1>4
  <2>2. ~(task[w] >= nspawn)
    BY <1>1, <1>3, CountAssumption DEF TypeOK, Tasks
  <2> QED
    BY <1>3, <2>1, <2>2 DEF Uncounted
<1>6. ASSUME NEW i \in Tasks, i # task[w]
      PROVE  i \in Uncounted' <=> i \in Uncounted
  <2>1. (\E v \in Workers : task'[v] = i /\ pc'[v] \notin Past)
          <=> (\E v \in Workers : task[v] = i /\ pc[v] \notin Past)
    BY <1>6
  <2> QED
    BY <2>1 DEF Uncounted
<1>7. Uncounted \subseteq Tasks /\ Uncounted' \subseteq Tasks
  BY DEF Uncounted
<1> QED
  BY <1>2, <1>5, <1>6, <1>7

(* The two places that add to completed count one task each.               *)
LEMMA CountingStep ==
  ASSUME TypeOK, OneHolder, TallyExact, NEW w \in Workers, CountTask(w) \/ DropBeforeRun(w)
  PROVE  TallyExact' /\ completed' \in Nat /\ completed' \in 0 .. Count
<1>1. pc[w] \notin Past /\ pc'[w] \in Past
  BY DEF CountTask, DropBeforeRun, Goto, Past, TypeOK
<1>2. \A v \in Workers \ {w} : pc'[v] = pc[v] /\ task'[v] = task[v]
  BY DEF CountTask, DropBeforeRun, Goto, TypeOK
<1>3. /\ nspawn' = nspawn /\ ready' = ready /\ suspended' = suspended
      /\ completed' = completed + 1
  BY DEF CountTask, DropBeforeRun, mainVars, taskVars
<1>4. task[w] \in Uncounted /\ Uncounted' = Uncounted \ {task[w]}
  BY <1>1, <1>2, <1>3, CountsHeld
<1>5. TallyExact' /\ completed' \in 0 .. Count
  BY <1>3, <1>4, OneCounted
<1> QED
  BY <1>5, CountAssumption

(* Every step keeps the tally.                                             *)
LEMMA TallyStep ==
  ASSUME TypeOK, OneHolder, TallyExact, [Next]_vars
  PROVE  TallyExact'
<1> USE CountAssumption, NoTaskAssumption 
<1>1. CASE FirstSpawnTask
  BY <1>1, SameTally
  DEF TypeOK, OneHolder, Tasks, Uncounted, Past, FirstSpawnTask, ctxVars, workVars
<1>2. CASE FirstWait
  BY <1>2, SameTally
  DEF TypeOK, OneHolder, Tasks, Uncounted, Past, FirstWait, ctxVars, taskVars, workVars
<1>3. CASE FirstWaitLock
  BY <1>3, SameTally
  DEF TypeOK, OneHolder, Tasks, Uncounted, Past, FirstWaitLock, ctxVars, taskVars, workVars
<1>4. CASE FirstWaitSleep
  BY <1>4, SameTally
  DEF TypeOK, OneHolder, Tasks, Uncounted, Past, FirstWaitSleep, ctxVars, taskVars, workVars
<1>5. CASE FirstWaitReturn
  BY <1>5, SameTally
  DEF TypeOK, OneHolder, Tasks, Uncounted, Past, FirstWaitReturn, ctxVars, taskVars,
      workVars
<1>6. CASE FirstContextDestroy
  BY <1>6, SameTally
  DEF TypeOK, OneHolder, Tasks, Uncounted, Past, FirstContextDestroy, ctxVars, taskVars,
      workVars
<1>7. CASE SpuriousWakeup
  BY <1>7, SameTally
  DEF TypeOK, OneHolder, Tasks, Uncounted, Past, SpuriousWakeup, ctxVars, taskVars, workVars
<1>8. ASSUME NEW i \in Tasks, Resume(i) PROVE TallyExact'
  BY <1>8, SameTally
  DEF TypeOK, OneHolder, Tasks, Uncounted, Past, Resume, ctxVars, mainVars, workVars
<1>9. ASSUME NEW w \in Workers, NEW i \in Tasks, Take(w, i) PROVE TallyExact'
  BY <1>9, SameTally
  DEF TypeOK, OneHolder, Tasks, Uncounted, Past, Take, Goto, ctxVars, mainVars
<1>10. ASSUME NEW w \in Workers, CheckCancelled(w) PROVE TallyExact'
  BY <1>10, SameTally
  DEF TypeOK, OneHolder, Tasks, Uncounted, Past, CheckCancelled, Goto, ctxVars, taskVars,
      mainVars
<1>11. ASSUME NEW w \in Workers, DropBeforeRun(w) PROVE TallyExact'
  BY <1>11, CountingStep
<1>12. ASSUME NEW w \in Workers, RunStep(w) PROVE TallyExact'
  BY <1>12, SameTally
  DEF TypeOK, OneHolder, Tasks, Uncounted, Past, RunStep, Goto, ctxVars, mainVars
<1>13. ASSUME NEW w \in Workers, RecheckCancelled(w) PROVE TallyExact'
  BY <1>13, SameTally
  DEF TypeOK, OneHolder, Tasks, Uncounted, Past, RecheckCancelled, Goto, ctxVars, taskVars,
      mainVars
<1>14. ASSUME NEW w \in Workers, RecheckDone(w) PROVE TallyExact'
  BY <1>14, SameTally
  DEF TypeOK, OneHolder, Tasks, Uncounted, Past, RecheckDone, Goto, ctxVars, taskVars,
      mainVars
<1>15. ASSUME NEW w \in Workers, Suspend(w) PROVE TallyExact'
  BY <1>15, SameTally
  DEF TypeOK, OneHolder, Tasks, Uncounted, Past, Suspend, Goto, ctxVars, mainVars
<1>16. ASSUME NEW w \in Workers, LoadWinner(w) PROVE TallyExact'
  BY <1>16, SameTally
  DEF TypeOK, OneHolder, Tasks, Uncounted, Past, LoadWinner, Goto, ctxVars, taskVars,
      mainVars
<1>17. ASSUME NEW w \in Workers, CasWinner(w) PROVE TallyExact'
  BY <1>17, SameTally
  DEF TypeOK, OneHolder, Tasks, Uncounted, Past, CasWinner, Goto, taskVars, mainVars
<1>18. ASSUME NEW w \in Workers, LockContext(w) PROVE TallyExact'
  BY <1>18, SameTally
  DEF TypeOK, OneHolder, Tasks, Uncounted, Past, LockContext, Goto, ctxVars, taskVars,
      mainVars
<1>19. ASSUME NEW w \in Workers, StoreValue(w) PROVE TallyExact'
  BY <1>19, SameTally
  DEF TypeOK, OneHolder, Tasks, Uncounted, Past, StoreValue, Goto, taskVars, mainVars
<1>20. ASSUME NEW w \in Workers, CancelSibling(w) PROVE TallyExact'
  BY <1>20, SameTally
  DEF TypeOK, OneHolder, Tasks, Uncounted, Past, CancelSibling, ctxVars, mainVars
<1>21. ASSUME NEW w \in Workers, CancelDone(w) PROVE TallyExact'
  BY <1>21, SameTally
  DEF TypeOK, OneHolder, Tasks, Uncounted, Past, CancelDone, Goto, ctxVars, taskVars,
      mainVars
<1>22. ASSUME NEW w \in Workers, SignalUnlock(w) PROVE TallyExact'
  BY <1>22, SameTally
  DEF TypeOK, OneHolder, Tasks, Uncounted, Past, SignalUnlock, Goto, ctxVars, taskVars
<1>23. ASSUME NEW w \in Workers, CountTask(w) PROVE TallyExact'
  BY <1>23, CountingStep
<1>24. ASSUME NEW w \in Workers, NEW drops \in BOOLEAN, LastTest(w, drops) PROVE TallyExact'
  BY <1>24, SameTally
  DEF TypeOK, OneHolder, Tasks, Uncounted, Past, LastTest, Goto, Leave, ctxVars, mainVars
<1>25. ASSUME NEW w \in Workers, NEW drops \in BOOLEAN, SignalLast(w, drops) PROVE TallyExact'
  BY <1>25, SameTally
  DEF TypeOK, OneHolder, Tasks, Uncounted, Past, SignalLast, Goto, Leave, ctxVars
<1>26. CASE UNCHANGED vars
  BY <1>26, SameTally
  DEF TypeOK, OneHolder, Tasks, Uncounted, Past, vars, ctxVars, taskVars, mainVars, workVars
<1> QED
  BY <1>1, <1>2, <1>3, <1>4, <1>5, <1>6, <1>7, <1>8, <1>9, <1>10, <1>11, <1>12, <1>13,
     <1>14, <1>15, <1>16, <1>17, <1>18, <1>19, <1>20, <1>21, <1>22, <1>23, <1>24, <1>25,
     <1>26
  DEF Next, MainStep, RunTaskStep, HandlerStep

-----------------------------------------------------------------------------
(* Types *)

(* Dropping the locals of run_task keeps their types.                      *)
LEMMA LeaveType ==
  ASSUME TypeOK, NEW w \in Workers, NEW drops \in BOOLEAN, task[w] \in Tasks, Leave(w, drops)
  PROVE  /\ freed' \subseteq Tasks /\ task' \in [Workers -> Tasks \cup {NoOne}]
         /\ seen' \in [Workers -> 0 .. Count] /\ nth' \in [Workers -> 0 .. Count]
<1>1. freed' \subseteq Tasks
  BY DEF Leave, TypeOK
<1>2. task' \in [Workers -> Tasks \cup {NoOne}]
  BY DEF Leave, TypeOK
<1>3. NoWinner \in 0 .. Count /\ 0 \in 0 .. Count
  BY CountAssumption DEF NoWinner
<1>4. seen' \in [Workers -> 0 .. Count] /\ nth' \in [Workers -> 0 .. Count]
  BY <1>3 DEF Leave, TypeOK
<1> QED
  BY <1>1, <1>2, <1>4

(* Every step keeps the types.                                             *)
LEMMA TypeStep ==
  ASSUME TypeOK, OneHolder, TallyExact, [Next]_vars
  PROVE  TypeOK'
<1>0. ASSUME NEW w \in Workers, NEW drops \in BOOLEAN, Leave(w, drops), task[w] \in Tasks
      PROVE  /\ freed' \subseteq Tasks /\ task' \in [Workers -> Tasks \cup {NoOne}]
             /\ seen' \in [Workers -> 0 .. Count] /\ nth' \in [Workers -> 0 .. Count]
  BY <1>0, LeaveType
<1> USE CountAssumption, ValueAssumption, BoundAssumption, WorkersAssumption, NoTaskAssumption
    DEF TypeOK, OneHolder, Tasks, NoWinner, MainPcs, WorkPcs
<1>1. CASE FirstSpawnTask
  BY <1>1
  DEF FirstSpawnTask, ctxVars, workVars
<1>2. CASE FirstWait
  BY <1>2
  DEF FirstWait, ctxVars, taskVars, workVars
<1>3. CASE FirstWaitLock
  BY <1>3
  DEF FirstWaitLock, ctxVars, taskVars, workVars
<1>4. CASE FirstWaitSleep
  BY <1>4
  DEF FirstWaitSleep, ctxVars, taskVars, workVars
<1>5. CASE FirstWaitReturn
  BY <1>5
  DEF FirstWaitReturn, ctxVars, taskVars, workVars
<1>6. CASE FirstContextDestroy
  BY <1>6
  DEF FirstContextDestroy, ctxVars, taskVars, workVars
<1>7. CASE SpuriousWakeup
  BY <1>7
  DEF SpuriousWakeup, ctxVars, taskVars, workVars
<1>8. ASSUME NEW i \in Tasks, Resume(i) PROVE TypeOK'
  BY <1>8 DEF Resume, ctxVars, mainVars, workVars
<1>9. ASSUME NEW w \in Workers, NEW i \in Tasks, Take(w, i) PROVE TypeOK'
  BY <1>9 DEF Take, Goto, ctxVars, mainVars
<1>10. ASSUME NEW w \in Workers, CheckCancelled(w) PROVE TypeOK'
  BY <1>10
  DEF CheckCancelled, Goto, ctxVars, taskVars, mainVars
<1>11. ASSUME NEW w \in Workers, DropBeforeRun(w) PROVE TypeOK'
  <2>1. completed' \in Nat
    BY <1>11, CountingStep
  <2>2. task[w] \in Tasks
    BY <1>11, HeldIsTask DEF DropBeforeRun, Goto
  <2>3. freed' \subseteq Tasks
    BY <1>11, <2>2 DEF DropBeforeRun
  <2>4. pc' \in [Workers -> WorkPcs] /\ task' \in [Workers -> Tasks \cup {NoOne}]
    BY <1>11 DEF DropBeforeRun, Goto
  <2>5. misuse' \in BOOLEAN
    BY <1>11 DEF DropBeforeRun, TouchContext, ctxLive
  <2> QED
    BY <1>11, <2>1, <2>3, <2>4, <2>5 DEF DropBeforeRun, mainVars
<1>12. ASSUME NEW w \in Workers, RunStep(w) PROVE TypeOK'
  <2>1. task[w] \in Tasks
    BY <1>12, HeldIsTask DEF RunStep, Goto
  <2>2. ASSUME suspends[task[w]] < MaxSuspends,
               suspends' = [suspends EXCEPT ![task[w]] = @ + 1]
        PROVE  suspends' \in [Tasks -> 0 .. MaxSuspends]
    <3>1. suspends[task[w]] + 1 \in 0 .. MaxSuspends
      BY <2>1, <2>2
    <3> QED
      BY <2>1, <2>2, <3>1
  <2>3. suspends' \in [Tasks -> 0 .. MaxSuspends]
    BY <1>12, <2>2 DEF RunStep
  <2>4. pc' \in [Workers -> WorkPcs]
    BY <1>12 DEF RunStep, Goto
  <2> QED
    BY <1>12, <2>3, <2>4 DEF RunStep, ctxVars, mainVars
<1>13. ASSUME NEW w \in Workers, RecheckCancelled(w) PROVE TypeOK'
  BY <1>13
  DEF RecheckCancelled, Goto, ctxVars, taskVars, mainVars
<1>14. ASSUME NEW w \in Workers, RecheckDone(w) PROVE TypeOK'
  BY <1>14
  DEF RecheckDone, Goto, ctxVars, taskVars, mainVars
<1>15. ASSUME NEW w \in Workers, Suspend(w) PROVE TypeOK'
  <2>1. task[w] \in Tasks /\ task[w] + 1 \in 0 .. Count
    BY <1>15, HeldIsTask DEF Suspend, Goto
  <2> QED
    BY <1>15, <2>1
    DEF Suspend, Goto, ctxVars, mainVars
<1>16. ASSUME NEW w \in Workers, LoadWinner(w) PROVE TypeOK'
  BY <1>16
  DEF LoadWinner, Goto, ctxVars, taskVars, mainVars, TouchContext
<1>17. ASSUME NEW w \in Workers, CasWinner(w) PROVE TypeOK'
  <2>1. task[w] \in 0 .. Count
    BY <1>17, HeldIsTask DEF CasWinner, Goto
  <2>2. winner_index' \in 0 .. Count
    BY <1>17, <2>1 DEF CasWinner
  <2>3. pc' \in [Workers -> WorkPcs] /\ misuse' \in BOOLEAN
    BY <1>17 DEF CasWinner, Goto, TouchContext, ctxLive
  <2> QED
    BY <1>17, <2>2, <2>3 DEF CasWinner, taskVars, mainVars
<1>18. ASSUME NEW w \in Workers, LockContext(w) PROVE TypeOK'
  BY <1>18
  DEF LockContext, Goto, ctxVars, taskVars, mainVars, TouchContext
<1>19. ASSUME NEW w \in Workers, StoreValue(w) PROVE TypeOK'
  <2>1. task[w] \in Tasks /\ task[w] + 1 \in 0 .. Count
    BY <1>19, HeldIsTask DEF StoreValue, Goto
  <2>2. nth' \in [Workers -> 0 .. Count]
    BY <1>19, <2>1 DEF StoreValue
  <2>3. winner_value' \in Int
    BY <1>19, <2>1 DEF StoreValue
  <2>4. pc' \in [Workers -> WorkPcs] /\ misuse' \in BOOLEAN
    BY <1>19 DEF StoreValue, Goto, TouchContext, ctxLive
  <2> QED
    BY <1>19, <2>2, <2>3, <2>4 DEF StoreValue, taskVars, mainVars
<1>20. ASSUME NEW w \in Workers, CancelSibling(w) PROVE TypeOK'
  <2>1. nth[w] + 1 \in 0 .. Count /\ nth[w] \in Tasks
    BY <1>20 DEF CancelSibling
  <2>2. nth' = [nth EXCEPT ![w] = nth[w] + 1]
    BY <1>20 DEF CancelSibling
  <2>3. nth' \in [Workers -> 0 .. Count]
    BY <2>1, <2>2
  <2>4. cancelled' \subseteq Tasks
    BY <1>20, <2>1 DEF CancelSibling
  <2>5. misuse' \in BOOLEAN
    BY <1>20 DEF CancelSibling, TouchContext, ctxLive
  <2> QED
    BY <1>20, <2>3, <2>4, <2>5 DEF CancelSibling, ctxVars, mainVars
<1>21. ASSUME NEW w \in Workers, CancelDone(w) PROVE TypeOK'
  BY <1>21
  DEF CancelDone, Goto, ctxVars, taskVars, mainVars
<1>22. ASSUME NEW w \in Workers, SignalUnlock(w) PROVE TypeOK'
  BY <1>22
  DEF SignalUnlock, Goto, ctxVars, taskVars, TouchContext, SignalMain
<1>23. ASSUME NEW w \in Workers, CountTask(w) PROVE TypeOK'
  <2>1. completed' \in Nat /\ completed' \in 0 .. Count /\ completed' = completed + 1
    BY <1>23, CountingStep DEF CountTask
  <2>2. nth' = [nth EXCEPT ![w] = completed']
    BY <1>23, <2>1 DEF CountTask
  <2>3. nth' \in [Workers -> 0 .. Count]
    BY <2>1, <2>2
  <2>5. pc' \in [Workers -> WorkPcs]
    BY <1>23 DEF CountTask, Goto
  <2>4. misuse' \in BOOLEAN
    BY <1>23 DEF CountTask, TouchContext, ctxLive
  <2> QED
    BY <1>23, <2>1, <2>3, <2>4, <2>5 DEF CountTask, taskVars, mainVars
<1>24. ASSUME NEW w \in Workers, NEW drops \in BOOLEAN, LastTest(w, drops) PROVE TypeOK'
  <2>1. task[w] \in Tasks
    BY <1>24, HeldIsTask DEF LastTest, Goto
  <2>2. pc' \in [Workers -> WorkPcs]
    BY <1>24 DEF LastTest, Goto
  <2>3. Leave(w, drops) \/ UNCHANGED <<freed, task, seen, nth>>
    BY <1>24 DEF LastTest
  <2>4. /\ freed' \subseteq Tasks /\ task' \in [Workers -> Tasks \cup {NoOne}]
        /\ seen' \in [Workers -> 0 .. Count] /\ nth' \in [Workers -> 0 .. Count]
    <3>1. CASE Leave(w, drops)
      BY <2>1, <3>1, <1>0
    <3>2. CASE UNCHANGED <<freed, task, seen, nth>>
      BY <3>2
    <3> QED
      BY <2>3, <3>1, <3>2
  <2>5. misuse' \in BOOLEAN
    BY <1>24 DEF LastTest, TouchContext, ctxLive
  <2> QED
    BY <1>24, <2>2, <2>4, <2>5 DEF LastTest, ctxVars, mainVars
<1>25. ASSUME NEW w \in Workers, NEW drops \in BOOLEAN, SignalLast(w, drops) PROVE TypeOK'
  <2>1. task[w] \in Tasks /\ Leave(w, drops)
    BY <1>25, HeldIsTask DEF SignalLast, Goto
  <2>2. pc' \in [Workers -> WorkPcs]
    BY <1>25 DEF SignalLast, Goto
  <2>3. misuse' \in BOOLEAN /\ main' \in MainPcs
    BY <1>25 DEF SignalLast, TouchContext, ctxLive, SignalMain
  <2> QED
    BY <1>25, <2>1, <2>2, <2>3, <1>0 DEF SignalLast, ctxVars
<1>26. CASE UNCHANGED vars
  BY <1>26 DEF vars, ctxVars, taskVars, mainVars, workVars
<1> HIDE DEF TypeOK, OneHolder, Tasks, NoWinner, MainPcs, WorkPcs
<1> QED
  BY <1>1, <1>2, <1>3, <1>4, <1>5, <1>6, <1>7, <1>8, <1>9, <1>10, <1>11, <1>12, <1>13,
     <1>14, <1>15, <1>16, <1>17, <1>18, <1>19, <1>20, <1>21, <1>22, <1>23, <1>24, <1>25,
     <1>26
  DEF Next, MainStep, RunTaskStep, HandlerStep

-----------------------------------------------------------------------------
(* The winner *)

(* Cancellation only reaches past the winner.                              *)
LEMMA OrderStep ==
  ASSUME TypeOK, OneHolder, CancelledOnlyBehindWinner, WorkerKnows, [Next]_vars
  PROVE  CancelledOnlyBehindWinner' /\ WorkerKnows'
<1> USE CountAssumption, NoTaskAssumption
    DEF TypeOK, OneHolder, Tasks, CancelledOnlyBehindWinner, WorkerKnows
<1>1. CASE FirstSpawnTask
  BY <1>1 DEF FirstSpawnTask, ctxVars, workVars
<1>2. CASE FirstWait
  BY <1>2 DEF FirstWait, ctxVars, taskVars, workVars
<1>3. CASE FirstWaitLock
  BY <1>3 DEF FirstWaitLock, ctxVars, taskVars, workVars
<1>4. CASE FirstWaitSleep
  BY <1>4 DEF FirstWaitSleep, ctxVars, taskVars, workVars
<1>5. CASE FirstWaitReturn
  BY <1>5 DEF FirstWaitReturn, ctxVars, taskVars, workVars
<1>6. CASE FirstContextDestroy
  BY <1>6 DEF FirstContextDestroy, ctxVars, taskVars, workVars
<1>7. CASE SpuriousWakeup
  BY <1>7 DEF SpuriousWakeup, ctxVars, taskVars, workVars
<1>8. ASSUME NEW i \in Tasks, Resume(i) PROVE CancelledOnlyBehindWinner' /\ WorkerKnows'
  BY <1>8 DEF Resume, ctxVars, mainVars, workVars
<1>9. ASSUME NEW w \in Workers, NEW i \in Tasks, Take(w, i)
      PROVE  CancelledOnlyBehindWinner' /\ WorkerKnows'
  BY <1>9 DEF Take, Goto, ctxVars, mainVars
<1>10. ASSUME NEW w \in Workers, CheckCancelled(w) PROVE CancelledOnlyBehindWinner' /\ WorkerKnows'
  BY <1>10 DEF CheckCancelled, Goto, ctxVars, taskVars, mainVars
<1>11. ASSUME NEW w \in Workers, DropBeforeRun(w) PROVE CancelledOnlyBehindWinner' /\ WorkerKnows'
  BY <1>11 DEF DropBeforeRun, Goto, mainVars
<1>12. ASSUME NEW w \in Workers, RunStep(w) PROVE CancelledOnlyBehindWinner' /\ WorkerKnows'
  BY <1>12 DEF RunStep, Goto, ctxVars, mainVars
<1>13. ASSUME NEW w \in Workers, RecheckCancelled(w)
      PROVE  CancelledOnlyBehindWinner' /\ WorkerKnows'
  BY <1>13 DEF RecheckCancelled, Goto, ctxVars, taskVars, mainVars
<1>14. ASSUME NEW w \in Workers, RecheckDone(w) PROVE CancelledOnlyBehindWinner' /\ WorkerKnows'
  BY <1>14 DEF RecheckDone, Goto, ctxVars, taskVars, mainVars
<1>15. ASSUME NEW w \in Workers, Suspend(w) PROVE CancelledOnlyBehindWinner' /\ WorkerKnows'
  BY <1>15 DEF Suspend, Goto, ctxVars, mainVars
<1>16. ASSUME NEW w \in Workers, LoadWinner(w) PROVE CancelledOnlyBehindWinner' /\ WorkerKnows'
  BY <1>16 DEF LoadWinner, Goto, ctxVars, taskVars, mainVars
<1>17. ASSUME NEW w \in Workers, CasWinner(w) PROVE CancelledOnlyBehindWinner' /\ WorkerKnows'
  <2>1. pc[w] = "cas" /\ winner_index' <= winner_index /\ winner_index' \in Int
    BY <1>17 DEF CasWinner, Goto
  <2>2. UNCHANGED <<cancelled, task, seen, nth>> /\ pc'[w] \in {"lock", "load"}
    BY <1>17 DEF CasWinner, Goto, taskVars
  <2>3. \A v \in Workers \ {w} : pc'[v] = pc[v]
    BY <1>17 DEF CasWinner, Goto
  <2>4. CancelledOnlyBehindWinner'
    BY <2>1, <2>2
  <2>5. ASSUME NEW v \in Workers
        PROVE  /\ pc'[v] = "cas" => task'[v] < seen'[v]
               /\ pc'[v] = "cancel" => winner_index' < nth'[v]
               /\ pc'[v] \in {"drop", "countDrop"} => task'[v] \in cancelled'
    <3>1. CASE v = w
      BY <2>2, <3>1
    <3>2. CASE v # w
      BY <2>1, <2>2, <2>3, <3>2
    <3> QED
      BY <3>1, <3>2
  <2> QED
    BY <2>4, <2>5
<1>18. ASSUME NEW w \in Workers, LockContext(w) PROVE CancelledOnlyBehindWinner' /\ WorkerKnows'
  BY <1>18 DEF LockContext, Goto, ctxVars, taskVars, mainVars
<1>19. ASSUME NEW w \in Workers, StoreValue(w) PROVE CancelledOnlyBehindWinner' /\ WorkerKnows'
  BY <1>19 DEF StoreValue, Goto, taskVars, mainVars
<1>20. ASSUME NEW w \in Workers, CancelSibling(w) PROVE CancelledOnlyBehindWinner' /\ WorkerKnows'
  <2>1. pc[w] = "cancel" /\ pc' = pc /\ winner_index' = winner_index /\ winner_index < nth[w]
    BY <1>20 DEF CancelSibling, ctxVars
  <2>2. cancelled \subseteq cancelled' /\ cancelled' \subseteq cancelled \cup {nth[w]}
    BY <1>20 DEF CancelSibling
  <2>3. task' = task /\ seen' = seen /\ nth' = [nth EXCEPT ![w] = nth[w] + 1]
    BY <1>20 DEF CancelSibling
  <2>4. CancelledOnlyBehindWinner'
    BY <2>1, <2>2
  <2>5. \A v \in Workers : nth'[v] >= nth[v] /\ nth'[v] \in Int
    BY <2>3
  <2>6. ASSUME NEW v \in Workers
        PROVE  /\ pc'[v] = "cas" => task'[v] < seen'[v]
               /\ pc'[v] = "cancel" => winner_index' < nth'[v]
               /\ pc'[v] \in {"drop", "countDrop"} => task'[v] \in cancelled'
    <3>1. winner_index \in Int /\ nth[v] \in Int
      BY CountAssumption
    <3>2. pc[v] = "cancel" => winner_index' < nth'[v]
      BY <2>1, <2>5, <3>1
    <3> QED
      BY <2>1, <2>2, <2>3, <3>2
  <2> QED
    BY <2>4, <2>6
<1>21. ASSUME NEW w \in Workers, CancelDone(w) PROVE CancelledOnlyBehindWinner' /\ WorkerKnows'
  BY <1>21 DEF CancelDone, Goto, ctxVars, taskVars, mainVars
<1>22. ASSUME NEW w \in Workers, SignalUnlock(w) PROVE CancelledOnlyBehindWinner' /\ WorkerKnows'
  BY <1>22 DEF SignalUnlock, Goto, ctxVars, taskVars
<1>23. ASSUME NEW w \in Workers, CountTask(w) PROVE CancelledOnlyBehindWinner' /\ WorkerKnows'
  BY <1>23 DEF CountTask, Goto, taskVars, mainVars
<1>24. ASSUME NEW w \in Workers, NEW drops \in BOOLEAN, LastTest(w, drops)
      PROVE  CancelledOnlyBehindWinner' /\ WorkerKnows'
  BY <1>24 DEF LastTest, Goto, Leave, ctxVars, mainVars
<1>25. ASSUME NEW w \in Workers, NEW drops \in BOOLEAN, SignalLast(w, drops)
      PROVE  CancelledOnlyBehindWinner' /\ WorkerKnows'
  BY <1>25 DEF SignalLast, Goto, Leave, ctxVars
<1>26. CASE UNCHANGED vars
  BY <1>26 DEF vars, ctxVars, taskVars, mainVars, workVars
<1> HIDE DEF TypeOK, OneHolder, Tasks, CancelledOnlyBehindWinner, WorkerKnows
<1> QED
  BY <1>1, <1>2, <1>3, <1>4, <1>5, <1>6, <1>7, <1>8, <1>9, <1>10, <1>11, <1>12, <1>13,
     <1>14, <1>15, <1>16, <1>17, <1>18, <1>19, <1>20, <1>21, <1>22, <1>23, <1>24, <1>25,
     <1>26
  DEF Next, MainStep, RunTaskStep, HandlerStep

(* Only the worker that has just won leaves the value behind.              *)
LEMMA SettledStep ==
  ASSUME TypeOK, WinnerValueSettled, [Next]_vars
  PROVE  WinnerValueSettled'
<1> USE CountAssumption, NoTaskAssumption DEF TypeOK, Tasks, NoWinner, WinnerValueSettled
<1>1. CASE FirstSpawnTask
  BY <1>1 DEF FirstSpawnTask, ctxVars, workVars
<1>2. CASE FirstWait
  BY <1>2 DEF FirstWait, ctxVars, taskVars, workVars
<1>3. CASE FirstWaitLock
  BY <1>3 DEF FirstWaitLock, ctxVars, taskVars, workVars
<1>4. CASE FirstWaitSleep
  BY <1>4 DEF FirstWaitSleep, ctxVars, taskVars, workVars
<1>5. CASE FirstWaitReturn
  BY <1>5 DEF FirstWaitReturn, ctxVars, taskVars, workVars
<1>6. CASE FirstContextDestroy
  BY <1>6 DEF FirstContextDestroy, ctxVars, taskVars, workVars
<1>7. CASE SpuriousWakeup
  BY <1>7 DEF SpuriousWakeup, ctxVars, taskVars, workVars
<1>8. ASSUME NEW i \in Tasks, Resume(i) PROVE WinnerValueSettled'
  BY <1>8 DEF Resume, ctxVars, mainVars, workVars
<1>9. ASSUME NEW w \in Workers, NEW i \in Tasks, Take(w, i) PROVE WinnerValueSettled'
  BY <1>9 DEF Take, Goto, ctxVars, mainVars
<1>10. ASSUME NEW w \in Workers, CheckCancelled(w) PROVE WinnerValueSettled'
  BY <1>10 DEF CheckCancelled, Goto, ctxVars, taskVars, mainVars
<1>11. ASSUME NEW w \in Workers, DropBeforeRun(w) PROVE WinnerValueSettled'
  BY <1>11 DEF DropBeforeRun, Goto, mainVars
<1>12. ASSUME NEW w \in Workers, RunStep(w) PROVE WinnerValueSettled'
  BY <1>12 DEF RunStep, Goto, ctxVars, mainVars
<1>13. ASSUME NEW w \in Workers, RecheckCancelled(w) PROVE WinnerValueSettled'
  BY <1>13 DEF RecheckCancelled, Goto, ctxVars, taskVars, mainVars
<1>14. ASSUME NEW w \in Workers, RecheckDone(w) PROVE WinnerValueSettled'
  BY <1>14 DEF RecheckDone, Goto, ctxVars, taskVars, mainVars
<1>15. ASSUME NEW w \in Workers, Suspend(w) PROVE WinnerValueSettled'
  BY <1>15 DEF Suspend, Goto, ctxVars, mainVars
<1>16. ASSUME NEW w \in Workers, LoadWinner(w) PROVE WinnerValueSettled'
  BY <1>16 DEF LoadWinner, Goto, ctxVars, taskVars, mainVars
<1>17. ASSUME NEW w \in Workers, CasWinner(w) PROVE WinnerValueSettled'
  BY <1>17 DEF CasWinner, Goto, taskVars, mainVars
<1>18. ASSUME NEW w \in Workers, LockContext(w) PROVE WinnerValueSettled'
  BY <1>18 DEF LockContext, Goto, ctxVars, taskVars, mainVars
<1>19. ASSUME NEW w \in Workers, StoreValue(w) PROVE WinnerValueSettled'
  BY <1>19 DEF StoreValue, Goto, taskVars, mainVars
<1>20. ASSUME NEW w \in Workers, CancelSibling(w) PROVE WinnerValueSettled'
  BY <1>20 DEF CancelSibling, ctxVars, mainVars
<1>21. ASSUME NEW w \in Workers, CancelDone(w) PROVE WinnerValueSettled'
  BY <1>21 DEF CancelDone, Goto, ctxVars, taskVars, mainVars
<1>22. ASSUME NEW w \in Workers, SignalUnlock(w) PROVE WinnerValueSettled'
  BY <1>22 DEF SignalUnlock, Goto, ctxVars, taskVars
<1>23. ASSUME NEW w \in Workers, CountTask(w) PROVE WinnerValueSettled'
  BY <1>23 DEF CountTask, Goto, taskVars, mainVars
<1>24. ASSUME NEW w \in Workers, NEW drops \in BOOLEAN, LastTest(w, drops) PROVE WinnerValueSettled'
  BY <1>24 DEF LastTest, Goto, Leave, ctxVars, mainVars
<1>25. ASSUME NEW w \in Workers, NEW drops \in BOOLEAN, SignalLast(w, drops)
      PROVE  WinnerValueSettled'
  BY <1>25 DEF SignalLast, Goto, Leave, ctxVars
<1>26. CASE UNCHANGED vars
  BY <1>26 DEF vars, ctxVars, taskVars, mainVars, workVars
<1> HIDE DEF TypeOK, Tasks, NoWinner, WinnerValueSettled
<1> QED
  BY <1>1, <1>2, <1>3, <1>4, <1>5, <1>6, <1>7, <1>8, <1>9, <1>10, <1>11, <1>12, <1>13,
     <1>14, <1>15, <1>16, <1>17, <1>18, <1>19, <1>20, <1>21, <1>22, <1>23, <1>24, <1>25,
     <1>26
  DEF Next, MainStep, RunTaskStep, HandlerStep

(* Task 0 is not cancelled: it stays on its way until it has won.          *)
LEMMA ZeroStep ==
  ASSUME TypeOK, OneHolder, CancelledOnlyBehindWinner, WorkerKnows, ZeroWinsOrWill, [Next]_vars
  PROVE  ZeroWinsOrWill'
<1> USE CountAssumption, NoTaskAssumption
    DEF TypeOK, Tasks, CancelledOnlyBehindWinner, WorkerKnows, ZeroWinsOrWill
<1>1. CASE FirstSpawnTask
  BY <1>1 DEF FirstSpawnTask, ctxVars, workVars
<1>2. CASE FirstWait
  BY <1>2 DEF FirstWait, ctxVars, taskVars, workVars
<1>3. CASE FirstWaitLock
  BY <1>3 DEF FirstWaitLock, ctxVars, taskVars, workVars
<1>4. CASE FirstWaitSleep
  BY <1>4 DEF FirstWaitSleep, ctxVars, taskVars, workVars
<1>5. CASE FirstWaitReturn
  BY <1>5 DEF FirstWaitReturn, ctxVars, taskVars, workVars
<1>6. CASE FirstContextDestroy
  BY <1>6 DEF FirstContextDestroy, ctxVars, taskVars, workVars
<1>7. CASE SpuriousWakeup
  BY <1>7 DEF SpuriousWakeup, ctxVars, taskVars, workVars
<1>8. ASSUME NEW i \in Tasks, Resume(i) PROVE ZeroWinsOrWill'
  BY <1>8 DEF Resume, ctxVars, mainVars, workVars
<1>9. ASSUME NEW w \in Workers, NEW i \in Tasks, Take(w, i) PROVE ZeroWinsOrWill'
  BY <1>9 DEF Take, Goto, ctxVars, mainVars
<1>10. ASSUME NEW w \in Workers, CheckCancelled(w) PROVE ZeroWinsOrWill'
  BY <1>10 DEF CheckCancelled, Goto, ctxVars, taskVars, mainVars
<1>11. ASSUME NEW w \in Workers, DropBeforeRun(w) PROVE ZeroWinsOrWill'
  BY <1>11 DEF DropBeforeRun, Goto, mainVars
<1>12. ASSUME NEW w \in Workers, RunStep(w) PROVE ZeroWinsOrWill'
  BY <1>12 DEF RunStep, Goto, ctxVars, mainVars
<1>13. ASSUME NEW w \in Workers, RecheckCancelled(w) PROVE ZeroWinsOrWill'
  BY <1>13 DEF RecheckCancelled, Goto, ctxVars, taskVars, mainVars
<1>14. ASSUME NEW w \in Workers, RecheckDone(w) PROVE ZeroWinsOrWill'
  BY <1>14 DEF RecheckDone, Goto, ctxVars, taskVars, mainVars
<1>15. ASSUME NEW w \in Workers, Suspend(w) PROVE ZeroWinsOrWill'
  BY <1>15 DEF Suspend, Goto, ctxVars, mainVars
<1>16. ASSUME NEW w \in Workers, LoadWinner(w) PROVE ZeroWinsOrWill'
  BY <1>16 DEF LoadWinner, Goto, ctxVars, taskVars, mainVars
<1>17. ASSUME NEW w \in Workers, CasWinner(w) PROVE ZeroWinsOrWill'
  <2>1. \/ winner_index' = winner_index /\ pc' = [pc EXCEPT ![w] = "load"]
        \/ winner_index' = task[w]
    BY <1>17 DEF CasWinner, Goto
  <2>2. UNCHANGED <<nspawn, ready, suspended, task>> /\ pc[w] = "cas"
    BY <1>17 DEF CasWinner, Goto, taskVars, mainVars
  <2>3. \A v \in Workers \ {w} : pc'[v] = pc[v]
    BY <1>17 DEF CasWinner, Goto
  <2>4. CASE task[w] = 0 /\ winner_index' = task[w]
    BY <2>4
  <2>5. CASE winner_index' = winner_index /\ pc' = [pc EXCEPT ![w] = "load"]
    <3>1. pc'[w] = "load"
      BY <2>5
    <3> QED
      BY <2>2, <2>3, <2>5, <3>1
  <2>6. CASE task[w] # 0 /\ winner_index' = task[w]
    <3>1. task[w] \in Tasks
      BY <2>2 DEF OneHolder
    <3>2. (winner_index = seen[w] /\ task[w] < seen[w]) \/ winner_index = task[w]
      BY <1>17, <2>2, <2>6 DEF CasWinner, Goto
    <3>3. winner_index # 0
      BY <2>6, <3>1, <3>2
    <3> QED
      BY <2>2, <2>3, <2>6, <3>3
  <2> QED
    BY <2>1, <2>4, <2>5, <2>6
<1>18. ASSUME NEW w \in Workers, LockContext(w) PROVE ZeroWinsOrWill'
  BY <1>18 DEF LockContext, Goto, ctxVars, taskVars, mainVars
<1>19. ASSUME NEW w \in Workers, StoreValue(w) PROVE ZeroWinsOrWill'
  BY <1>19 DEF StoreValue, Goto, taskVars, mainVars
<1>20. ASSUME NEW w \in Workers, CancelSibling(w) PROVE ZeroWinsOrWill'
  BY <1>20 DEF CancelSibling, ctxVars, mainVars
<1>21. ASSUME NEW w \in Workers, CancelDone(w) PROVE ZeroWinsOrWill'
  BY <1>21 DEF CancelDone, Goto, ctxVars, taskVars, mainVars
<1>22. ASSUME NEW w \in Workers, SignalUnlock(w) PROVE ZeroWinsOrWill'
  BY <1>22 DEF SignalUnlock, Goto, ctxVars, taskVars
<1>23. ASSUME NEW w \in Workers, CountTask(w) PROVE ZeroWinsOrWill'
  BY <1>23 DEF CountTask, Goto, taskVars, mainVars
<1>24. ASSUME NEW w \in Workers, NEW drops \in BOOLEAN, LastTest(w, drops) PROVE ZeroWinsOrWill'
  BY <1>24 DEF LastTest, Goto, Leave, ctxVars, mainVars
<1>25. ASSUME NEW w \in Workers, NEW drops \in BOOLEAN, SignalLast(w, drops) PROVE ZeroWinsOrWill'
  BY <1>25 DEF SignalLast, Goto, Leave, ctxVars
<1>26. CASE UNCHANGED vars
  BY <1>26 DEF vars, ctxVars, taskVars, mainVars, workVars
<1> HIDE DEF TypeOK, Tasks, CancelledOnlyBehindWinner, WorkerKnows, ZeroWinsOrWill
<1> QED
  BY <1>1, <1>2, <1>3, <1>4, <1>5, <1>6, <1>7, <1>8, <1>9, <1>10, <1>11, <1>12, <1>13,
     <1>14, <1>15, <1>16, <1>17, <1>18, <1>19, <1>20, <1>21, <1>22, <1>23, <1>24, <1>25,
     <1>26
  DEF Next, MainStep, RunTaskStep, HandlerStep

(* When all are counted, winner_value is the value of task 0.              *)
LEMMA AllCountedMeansZeroWon ==
  ASSUME TypeOK, TallyExact, WinnerValueSettled, ZeroWinsOrWill, completed >= Count
  PROVE  winner_value = Value[0]
<1>1. Uncounted = {}
  <2>1. Cardinality(Uncounted) \in Nat
    BY UncountedFinite, FS_CardinalityType
  <2>2. Cardinality(Uncounted) = 0
    BY <2>1, CountAssumption DEF TallyExact, TypeOK
  <2> QED
    BY <2>2, UncountedFinite, FS_EmptySet
<1>2. 0 \in Tasks /\ 0 # NoWinner
  BY CountAssumption DEF Tasks, NoWinner
<1>3. \A w \in Workers : task[w] = 0 => pc[w] \in Past
  BY <1>1, <1>2 DEF Uncounted
<1>4. winner_index = 0
  BY <1>1, <1>2, <1>3 DEF ZeroWinsOrWill, Uncounted, Past, TypeOK
<1> QED
  BY <1>2, <1>3, <1>4 DEF WinnerValueSettled, Past

(* What first_wait has returned is the value of task 0.                    *)
LEMMA ReturnStep ==
  ASSUME TypeOK, TallyExact, WinnerValueSettled, ZeroWinsOrWill, ReturnsLowestIndex, [Next]_vars
  PROVE  ReturnsLowestIndex'
<1> USE DEF ReturnsLowestIndex
<1>1. CASE FirstSpawnTask
  BY <1>1 DEF FirstSpawnTask, ctxVars, workVars
<1>2. CASE FirstWait
  BY <1>2 DEF FirstWait, ctxVars, taskVars, workVars
<1>3. CASE FirstWaitLock
  BY <1>3 DEF FirstWaitLock, ctxVars, taskVars, workVars
<1>4. CASE FirstWaitSleep
  BY <1>4 DEF FirstWaitSleep, ctxVars, taskVars, workVars
<1>5. CASE FirstWaitReturn
  BY <1>5, AllCountedMeansZeroWon
  DEF FirstWaitReturn, ctxVars, taskVars, workVars
<1>6. CASE FirstContextDestroy
  BY <1>6 DEF FirstContextDestroy, ctxVars, taskVars, workVars
<1>7. CASE SpuriousWakeup
  BY <1>7 DEF SpuriousWakeup, ctxVars, taskVars, workVars
<1>8. ASSUME NEW i \in Tasks, Resume(i) PROVE ReturnsLowestIndex'
  BY <1>8 DEF Resume, ctxVars, mainVars, workVars
<1>9. ASSUME NEW w \in Workers, NEW i \in Tasks, Take(w, i) PROVE ReturnsLowestIndex'
  BY <1>9 DEF Take, Goto, ctxVars, mainVars
<1>10. ASSUME NEW w \in Workers, CheckCancelled(w) PROVE ReturnsLowestIndex'
  BY <1>10 DEF CheckCancelled, Goto, ctxVars, taskVars, mainVars
<1>11. ASSUME NEW w \in Workers, DropBeforeRun(w) PROVE ReturnsLowestIndex'
  BY <1>11 DEF DropBeforeRun, Goto, mainVars
<1>12. ASSUME NEW w \in Workers, RunStep(w) PROVE ReturnsLowestIndex'
  BY <1>12 DEF RunStep, Goto, ctxVars, mainVars
<1>13. ASSUME NEW w \in Workers, RecheckCancelled(w) PROVE ReturnsLowestIndex'
  BY <1>13 DEF RecheckCancelled, Goto, ctxVars, taskVars, mainVars
<1>14. ASSUME NEW w \in Workers, RecheckDone(w) PROVE ReturnsLowestIndex'
  BY <1>14 DEF RecheckDone, Goto, ctxVars, taskVars, mainVars
<1>15. ASSUME NEW w \in Workers, Suspend(w) PROVE ReturnsLowestIndex'
  BY <1>15 DEF Suspend, Goto, ctxVars, mainVars
<1>16. ASSUME NEW w \in Workers, LoadWinner(w) PROVE ReturnsLowestIndex'
  BY <1>16 DEF LoadWinner, Goto, ctxVars, taskVars, mainVars
<1>17. ASSUME NEW w \in Workers, CasWinner(w) PROVE ReturnsLowestIndex'
  BY <1>17 DEF CasWinner, Goto, taskVars, mainVars
<1>18. ASSUME NEW w \in Workers, LockContext(w) PROVE ReturnsLowestIndex'
  BY <1>18 DEF LockContext, Goto, ctxVars, taskVars, mainVars
<1>19. ASSUME NEW w \in Workers, StoreValue(w) PROVE ReturnsLowestIndex'
  BY <1>19 DEF StoreValue, Goto, taskVars, mainVars
<1>20. ASSUME NEW w \in Workers, CancelSibling(w) PROVE ReturnsLowestIndex'
  BY <1>20 DEF CancelSibling, ctxVars, mainVars
<1>21. ASSUME NEW w \in Workers, CancelDone(w) PROVE ReturnsLowestIndex'
  BY <1>21 DEF CancelDone, Goto, ctxVars, taskVars, mainVars
<1>22. ASSUME NEW w \in Workers, SignalUnlock(w) PROVE ReturnsLowestIndex'
  BY <1>22 DEF SignalUnlock, Goto, ctxVars, taskVars, SignalMain
<1>23. ASSUME NEW w \in Workers, CountTask(w) PROVE ReturnsLowestIndex'
  BY <1>23 DEF CountTask, Goto, taskVars, mainVars
<1>24. ASSUME NEW w \in Workers, NEW drops \in BOOLEAN, LastTest(w, drops) PROVE ReturnsLowestIndex'
  BY <1>24 DEF LastTest, Goto, Leave, ctxVars, mainVars
<1>25. ASSUME NEW w \in Workers, NEW drops \in BOOLEAN, SignalLast(w, drops)
      PROVE  ReturnsLowestIndex'
  BY <1>25 DEF SignalLast, Goto, Leave, ctxVars, SignalMain
<1>26. CASE UNCHANGED vars
  BY <1>26 DEF vars, ctxVars, taskVars, mainVars, workVars
<1> HIDE DEF ReturnsLowestIndex
<1> QED
  BY <1>1, <1>2, <1>3, <1>4, <1>5, <1>6, <1>7, <1>8, <1>9, <1>10, <1>11, <1>12, <1>13,
     <1>14, <1>15, <1>16, <1>17, <1>18, <1>19, <1>20, <1>21, <1>22, <1>23, <1>24, <1>25,
     <1>26
  DEF Next, MainStep, RunTaskStep, HandlerStep

-----------------------------------------------------------------------------
(* The invariant *)

(* The initial state satisfies the invariant.                              *)
LEMMA InitIInv == Init => IInv
<1> SUFFICES ASSUME Init PROVE IInv
  OBVIOUS
<1> USE CountAssumption, ValueAssumption, BoundAssumption, WorkersAssumption
<1>1. TypeOK
  <2>1. suspends \in [Tasks -> 0 .. MaxSuspends]
    BY DEF Init
  <2>2. seen \in [Workers -> 0 .. Count] /\ nth \in [Workers -> 0 .. Count]
    BY DEF Init, NoWinner
  <2>3. pc \in [Workers -> WorkPcs] /\ task \in [Workers -> Tasks \cup {NoOne}]
    BY DEF Init, WorkPcs
  <2>4. /\ main \in MainPcs /\ nspawn \in 0 .. Count /\ result \in Int
        /\ winner_index \in 0 .. Count /\ winner_value \in Int /\ completed \in Nat
    BY DEF Init, MainPcs, NoWinner
  <2>5. /\ ready \subseteq Tasks /\ suspended \subseteq Tasks
        /\ freed \subseteq Tasks /\ cancelled \subseteq Tasks
        /\ mutex \in Workers \cup {Main, NoOne} /\ misuse \in BOOLEAN
    BY DEF Init
  <2> QED
    BY <2>1, <2>2, <2>3, <2>4, <2>5 DEF TypeOK
<1>2. OneHolder
  BY DEF Init, OneHolder
<1>3. TallyExact
  <2>1. Uncounted = 0 .. Count - 1
    BY DEF Init, Uncounted, Tasks
  <2>2. Cardinality(0 .. Count - 1) = Count
    BY FS_Interval
  <2> QED
    BY <2>1, <2>2 DEF Init, TallyExact
<1>4. CancelledOnlyBehindWinner /\ WorkerKnows
  BY DEF Init, CancelledOnlyBehindWinner, WorkerKnows
<1>5. WinnerValueSettled /\ ZeroWinsOrWill /\ ReturnsLowestIndex
  BY DEF Init, WinnerValueSettled, ZeroWinsOrWill, ReturnsLowestIndex
<1> QED
  BY <1>1, <1>2, <1>3, <1>4, <1>5 DEF IInv

(* Every step preserves the invariant.                                     *)
LEMMA NextIInv == IInv /\ [Next]_vars => IInv'
BY HolderStep, TallyStep, TypeStep, OrderStep, SettledStep, ZeroStep, ReturnStep DEF IInv

(* The invariant holds in every reachable state.                          *)
THEOREM SpecIInv == Spec => []IInv
BY InitIInv, NextIInv, PTL DEF Spec

-----------------------------------------------------------------------------
(* The theorems *)

(* The variables keep their types; that the loop index of a worker and its *)
(* copy of `completed` stay within task_count rests on the tally.          *)
THEOREM TypeCorrect == Spec => []TypeOK
<1>1. IInv => TypeOK
  BY DEF IInv
<1> QED
  BY <1>1, SpecIInv, PTL

(* Each task of the group is counted exactly once, by whichever path it    *)
(* leaves coex_scheduler_run_task.                                         *)
THEOREM TaskCountedOnce == Spec => []TallyExact
<1>1. IInv => TallyExact
  BY DEF IInv
<1> QED
  BY <1>1, SpecIInv, PTL

(* A task is cancelled only when one of lower index has won (BUG-027).     *)
THEOREM CancelsBehindWinner == Spec => []CancelledOnlyBehindWinner
<1>1. IInv => CancelledOnlyBehindWinner
  BY DEF IInv
<1> QED
  BY <1>1, SpecIInv, PTL

(* winner_value is the value of the task winner_index names, except while  *)
(* that task is between its compare-and-swap and its store.                *)
THEOREM ValueSettled == Spec => []WinnerValueSettled
<1>1. IInv => WinnerValueSettled
  BY DEF IInv
<1> QED
  BY <1>1, SpecIInv, PTL

(* The value first_wait returns is that of element 0, for every length of  *)
(* the collection, every number of workers and every interleaving.         *)
THEOREM LowestIndexReturned == Spec => []ReturnsLowestIndex
<1>1. IInv => ReturnsLowestIndex
  BY DEF IInv
<1> QED
  BY <1>1, SpecIInv, PTL
=============================================================================
