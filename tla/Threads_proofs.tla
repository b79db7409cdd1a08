--------------------------- MODULE Threads_proofs ---------------------------
(***************************************************************************)
(* Proofs about a function and the threads it starts, for every set of     *)
(* programs, every number of threads, every size of the nursery and every  *)
(* grace period of the collector: no closure and no waiter is freed while  *)
(* a thread uses it, a statement's results are those of its elements, and  *)
(* the function leaves nothing behind that runs.                           *)
(***************************************************************************)
EXTENDS Threads, SequenceTheorems, TLAPS

(* The waits of first, and the places inside a statement with threads.     *)
Waits == {"scan", "register", "lock", "check", "unregister"}
Inside == Waits \cup {"spawn", "cancel", "join", "collect"}

(* Where a thread's result is in its closure.                              *)
HasResult == {"stored", "popped", "toWaiter", "unlock", "leaving"}
Running == {"start", "body"} \cup HasResult

(* What is known of a thread: its closure lives as long as it runs, and is *)
(* locked while it signals; a partial result is that of a cancelled one.   *)
ThreadKnown(t) ==
  /\ child[t] \in {"none", "task"} => closure[t] = NoClosure
  /\ child[t] \in Running => closure[t].alive
  /\ child[t] \in HasResult \/ (child[t] = "ended" /\ closure[t].alive) => closure[t].result # "null"
  /\ closure[t].result = "partial" => closure[t].cancelled
  /\ closure[t].locked <=> child[t] \in {"toWaiter", "unlock"}
  /\ child[t] = "toWaiter" => closure[t].shared_waiter

ThreadsKnown == \A t \in Threads : ThreadKnown(t)

(* Threads are numbered as they are started.                               *)
SpawnedInOrder == \A t, u \in Threads : u < t /\ child[t] # "none" => child[u] # "none"

(* A list of started threads, one for each start.                          *)
Listed(s) == \A k \in DOMAIN s : s[k] >= k /\ child[s[k]] # "none"

ListsKnown ==
  /\ Listed(nursery) /\ Listed(tasks)
  /\ Len(nursery) <= MaxThreads /\ Len(tasks) <= MaxThreads
  /\ \A k \in DOMAIN tasks : child[tasks[k]] \in {"task", "ended"} /\ ~closure[tasks[k]].alive

(* The closures of the nursery, one for each bare call, are none of the    *)
(* statement's and live until the epilogue has freed them.                 *)
NurseryKnown ==
  /\ \A j, k \in DOMAIN nursery : j # k => nursery[j] # nursery[k]
  /\ pc \in Inside \cup {"next", "epilogue"} =>
       \A k \in DOMAIN nursery : (pc = "epilogue" => k >= i) => closure[nursery[k]].alive
  /\ pc \in Inside => \A k \in DOMAIN nursery : \A j \in DOMAIN group : nursery[k] # group[j]

(* The waiter is on the stack of wait_any, and only closures of the group  *)
(* point to it, fewer and fewer as it is taken out.                        *)
WaiterKnown ==
  /\ waiter.alive <=> pc \in Waits \ {"scan"}
  /\ \A t \in Threads : closure[t].shared_waiter =>
       waiter.alive /\ \E k \in DOMAIN group : group[k] = t /\ (pc = "unregister" => k >= i)

Over(t) == child[t] = "ended" /\ ~closure[t].alive

(* Which threads of the group are freed already.                           *)
Frees == pc = "collect" \/ (pc = "join" /\ Statement.op = "most")

(* How many results are read.                                              *)
Read ==
  IF ~Frees THEN 0 ELSE IF Statement.op = "first" THEN (IF i = 1 THEN 0 ELSE 1) ELSE i - 1

(* Inside a statement: the loop it is in has done its work for the threads *)
(* before the i-th, and only those of a first behind the first one are     *)
(* cancelled.                                                              *)
PlaceKnown ==
  /\ at <= Len(program) /\ Statement.op \in Groups \cup {"call"}
  /\ pc \in Waits \cup {"cancel"} => Statement.op = "first"
  /\ pc = "collect" => Statement.op # "most"
  /\ Statement.op = "first" /\ pc # "spawn" => Statement.n > 0
  /\ i <= Len(group) + 1
  /\ Len(group) <= Statement.n /\ (pc # "spawn" => Len(group) = Statement.n)
  /\ Len(group) <= MaxThreads
  /\ pc = "spawn" => i = 1

GroupKnown ==
  /\ Listed(group)
  /\ \A j, k \in DOMAIN group : j # k => group[j] # group[k]
  /\ \A k \in DOMAIN group :
       /\ child[group[k]] \in Running \cup {"ended"}
       /\ Frees /\ k < i => Over(group[k])
       /\ ~(Frees /\ k < i) => closure[group[k]].alive
       /\ pc = "collect" \/ (pc = "join" /\ k < i) => child[group[k]] = "ended"
       /\ closure[group[k]].cancelled => Statement.op = "first" /\ k > 1
       /\ closure[group[k]].param = k

OutKnown == Len(out) = Read /\ \A k \in DOMAIN out : out[k].value \in {"full", "swept"} /\ out[k].element = k

InsideKnown == pc \in Inside => PlaceKnown /\ GroupKnown /\ OutKnown

(* The epilogue has joined and freed what is before the i-th.              *)
EpilogueKnown ==
  /\ pc \in {"epilogue", "taskEpilogue"} => has_active_nursery(program, at)
  /\ pc = "epilogue" => i <= Len(nursery) + 1 /\ \A k \in DOMAIN nursery : k < i => Over(nursery[k])
  /\ pc = "taskEpilogue" =>
       /\ i <= Len(tasks) + 1
       /\ \A k \in DOMAIN nursery : Over(nursery[k])
       /\ \A k \in DOMAIN tasks : k < i => Over(tasks[k])

(* Whom the function will still wait for.                                  *)
Awaited(t) ==
  \/ \E k \in DOMAIN nursery : nursery[k] = t
  \/ \E k \in DOMAIN tasks : tasks[k] = t
  \/ pc \in Inside /\ \E k \in DOMAIN group : group[k] = t

(* As long as there is a nursery, every thread is waited for or over.      *)
Accounted ==
  has_active_nursery(program, at) /\ pc # "overrun" =>
    \A t \in Threads : child[t] # "none" /\ ~Awaited(t) => Over(t)

(* The inductive invariant.                                                *)
IInv ==
  /\ TypeOK /\ ThreadsKnown /\ SpawnedInOrder /\ ListsKnown /\ NurseryKnown /\ WaiterKnown
  /\ InsideKnown /\ EpilogueKnown /\ Accounted /\ ScopeJoined /\ ResultsInOrder
-----------------------------------------------------------------------------
(* Types *)

(* What the types say of the statement and of the lists.                   *)
LEMMA TypesKnown ==
  ASSUME TypeOK
  PROVE  /\ program \in Seq(Body) /\ Len(program) \in Nat /\ at \in Nat \ {0} /\ i \in Nat \ {0}
         /\ group \in Seq(Threads) /\ nursery \in Seq(Threads) /\ tasks \in Seq(Threads)
         /\ \A k \in DOMAIN group : group[k] \in Threads
         /\ \A k \in DOMAIN nursery : nursery[k] \in Threads
         /\ \A k \in DOMAIN tasks : tasks[k] \in Threads
         /\ at <= Len(program) => /\ Statement.n \in Nat
                                  /\ Statement.op = "call" => Statement.n = 1
                                  /\ Statement = program[at]
         /\ MaxThreads \in Nat /\ Slots \in Nat /\ Grace \in Nat \ {0}
<1>1. program \in Seq(Body) /\ Len(program) \in Nat /\ at \in 1 .. Len(program) + 1 /\ MaxThreads \in Nat
  BY ProgramsAssumption, SizesAssumption DEF TypeOK
<1>2. ASSUME at <= Len(program)
      PROVE  Statement.n \in Nat /\ (Statement.op = "call" => Statement.n = 1)
  <2>1. program[at] \in Body
    BY <1>1, <1>2
  <2>2. CASE program[at] \in [op : {"call", "bare", "task", "return"}, n : {1}]
    BY <2>2 DEF Statement
  <2>3. CASE program[at] \in [op : Groups, n : 0..MaxThreads]
    BY <1>1, <2>3 DEF Statement, Groups
  <2> QED
    BY <2>1, <2>2, <2>3 DEF Body
<1>3. /\ group \in Seq(Threads) /\ nursery \in Seq(Threads) /\ tasks \in Seq(Threads)
  BY DEF TypeOK
<1> QED
  BY <1>1, <1>2, <1>3, SizesAssumption DEF TypeOK, Statement
-----------------------------------------------------------------------------
(* Steps of the threads *)

(* A step of one thread, or a task's end, changes of its closure what no   *)
(* list depends on; it keeps the invariant if it keeps ThreadKnown.        *)
LEMMA ThreadMoves ==
  ASSUME IInv, NEW t \in Threads, NEW to, NEW c,
         UNCHANGED <<main, missed>>,
         child' = [child EXCEPT ![t] = to], closure' = [closure EXCEPT ![t] = c],
         c \in [alive : BOOLEAN, result : {"null", "full", "partial"}, cancelled : BOOLEAN,
                completed : BOOLEAN, locked : BOOLEAN, shared_waiter : BOOLEAN, param : Nat],
         c.alive = closure[t].alive, c.cancelled = closure[t].cancelled, c.param = closure[t].param,
         c.shared_waiter = closure[t].shared_waiter,
         \/ child[t] \in Running /\ to \in Running \cup {"ended"}
         \/ child[t] = "task" /\ to = "ended",
         waiter' \in [alive : BOOLEAN, held : BOOLEAN, asleep : BOOLEAN],
         waiter'.alive = waiter.alive,
         ThreadKnown(t)'
  PROVE  IInv'
<1>a. TypeOK /\ UNCHANGED <<program, at, pc, i, group, out, nursery, tasks, missed>>
  BY DEF IInv, main
<1>b. /\ child'[t] = to /\ \A u \in Threads \ {t} : child'[u] = child[u]
      /\ closure'[t] = c /\ \A u \in Threads \ {t} : closure'[u] = closure[u]
  BY <1>a DEF TypeOK
<1>c. /\ child[t] \notin {"none", "ended"} /\ child'[t] # "none" /\ ~Over(t)
      /\ \A u \in Threads : child[u] = "ended" => u # t
  BY <1>b DEF Over, Running, HasResult
<1>d. \A u \in Threads :
        /\ closure'[u].alive = closure[u].alive /\ closure'[u].cancelled = closure[u].cancelled
        /\ closure'[u].shared_waiter = closure[u].shared_waiter /\ closure'[u].param = closure[u].param
        /\ child'[u] = "none" <=> child[u] = "none"
        /\ child[u] \in Running => child'[u] \in Running \cup {"ended"}
        /\ child[u] \in {"task", "ended"} => child'[u] \in {"task", "ended"}
        /\ child[u] = "ended" => child'[u] = "ended"
        /\ Over(u) => Over(u)'
  BY <1>b, <1>c DEF Over, Running, HasResult
<1>e. /\ \A k \in DOMAIN group : group[k] \in Threads
      /\ \A k \in DOMAIN nursery : nursery[k] \in Threads
      /\ \A k \in DOMAIN tasks : tasks[k] \in Threads
  BY <1>a, TypesKnown
<1>1. TypeOK'
  <2>1. to \in Stages \cup {"task"}
    BY DEF Running, HasResult, Stages
  <2>2. child' \in [Threads -> Stages \cup {"task"}]
    BY <1>a, <2>1 DEF TypeOK
  <2>3. closure' \in [Threads -> [alive : BOOLEAN, result : {"null", "full", "partial"}, cancelled : BOOLEAN,
                                  completed : BOOLEAN, locked : BOOLEAN, shared_waiter : BOOLEAN, param : Nat]]
    BY <1>a DEF TypeOK
  <2> QED
    BY <1>a, <2>2, <2>3 DEF TypeOK
<1>2. ThreadsKnown'
  <2> SUFFICES ASSUME NEW u \in Threads PROVE ThreadKnown(u)'
    BY DEF ThreadsKnown
  <2>1. CASE u = t
    BY <2>1
  <2>2. CASE u # t
    BY <1>b, <2>2 DEF IInv, ThreadsKnown, ThreadKnown
  <2> QED
    BY <2>1, <2>2
<1>3. SpawnedInOrder'
  BY <1>d DEF IInv, SpawnedInOrder
<1>4. ListsKnown'
  BY <1>a, <1>d, <1>e DEF IInv, ListsKnown, Listed
<1>n. NurseryKnown'
  BY <1>a, <1>d, <1>e DEF IInv, NurseryKnown
<1>5. WaiterKnown'
  BY <1>a, <1>d DEF IInv, WaiterKnown
<1>6. InsideKnown'
  <2>1. ASSUME pc \in Inside PROVE GroupKnown'
    <3>1. GroupKnown /\ (Frees' <=> Frees) /\ Statement' = Statement
      BY <1>a, <2>1 DEF IInv, InsideKnown, Frees, Statement
    <3> QED
      BY <1>a, <1>d, <1>e, <3>1 DEF GroupKnown, Listed
  <2>2. (PlaceKnown' <=> PlaceKnown) /\ (OutKnown' <=> OutKnown)
    BY <1>a DEF PlaceKnown, OutKnown, Read, Frees, Statement
  <2> QED
    BY <1>a, <2>1, <2>2 DEF IInv, InsideKnown
<1>7. has_active_nursery(program, at)' <=> has_active_nursery(program, at)
  BY <1>a DEF has_active_nursery
<1>8. EpilogueKnown'
  BY <1>a, <1>7, <1>d, <1>e DEF IInv, EpilogueKnown
<1>9. Accounted'
  <2>1. \A u \in Threads : Awaited(u)' <=> Awaited(u)
    BY <1>a DEF Awaited
  <2> QED
    BY <1>a, <1>7, <1>d, <2>1 DEF IInv, Accounted
<1>10. ScopeJoined'
  BY <1>a, <1>7, <1>d, <1>c DEF IInv, ScopeJoined, Spawned, Over
<1>11. ResultsInOrder'
  BY <1>a, <1>d, <1>e DEF IInv, ResultsInOrder
<1> QED
  BY <1>1, <1>2, <1>3, <1>4, <1>5, <1>6, <1>8, <1>9, <1>10, <1>11, <1>n DEF IInv
(* Every step of a thread, and a task's end, keeps the invariant.          *)
LEMMA ThreadSteps ==
  ASSUME IInv, NEW t \in Threads, Thread(t)
  PROVE  IInv'
<1> DEFINE Closures == [alive : BOOLEAN, result : {"null", "full", "partial"}, cancelled : BOOLEAN,
                        completed : BOOLEAN, locked : BOOLEAN, shared_waiter : BOOLEAN, param : Nat]
           Waiters == [alive : BOOLEAN, held : BOOLEAN, asleep : BOOLEAN]
<1>a. /\ closure \in [Threads -> Closures] /\ closure[t] \in Closures
      /\ child \in [Threads -> Stages \cup {"task"}] /\ waiter \in Waiters
      /\ [closure EXCEPT ![t] = closure[t]] = closure
  BY DEF IInv, TypeOK
<1>b. ThreadKnown(t)
  BY DEF IInv, ThreadsKnown
<1>m. ASSUME NEW to, NEW c \in Closures, UNCHANGED <<main, missed>>,
             child' = [child EXCEPT ![t] = to], closure' = [closure EXCEPT ![t] = c],
             c.alive = closure[t].alive, c.cancelled = closure[t].cancelled, c.param = closure[t].param,
             c.shared_waiter = closure[t].shared_waiter,
             \/ child[t] \in Running /\ to \in Running \cup {"ended"}
             \/ child[t] = "task" /\ to = "ended",
             waiter' \in Waiters, waiter'.alive = waiter.alive,
             ThreadKnown(t)'
      PROVE  IInv'
  BY <1>m, ThreadMoves
<1>k. ASSUME NEW to \in Running \cup {"ended"}, child' = [child EXCEPT ![t] = to],
             child[t] \in Running, UNCHANGED <<main, missed, closure>>,
             waiter' \in Waiters, waiter'.alive = waiter.alive,
             ThreadKnown(t)'
      PROVE  IInv'
  <2>1. closure' = [closure EXCEPT ![t] = closure[t]]
    BY <1>a, <1>k
  <2> HIDE DEF Closures, Waiters
  <2> QED
    BY <1>a, <1>k, <2>1, <1>m
<1>1. CASE trampoline_enter(t)
  <2>1. child' = [child EXCEPT ![t] = "body"] /\ child[t] = "start" /\ UNCHANGED <<main, missed, closure, waiter>>
    BY <1>1 DEF trampoline_enter, Step
  <2>2. ThreadKnown(t)'
    BY <1>a, <1>b, <2>1 DEF ThreadKnown, Running, HasResult
  <2> QED
    BY <1>a, <1>k, <2>1, <2>2 DEF Running
<1>2. CASE trampoline_store(t)
  <2>1. child' = [child EXCEPT ![t] = "stored"] /\ child[t] = "body" /\ UNCHANGED <<main, missed, waiter>>
    BY <1>2 DEF trampoline_store, Step
  <2>2. PICK value \in inject_safepoint(t) : closure' = [closure EXCEPT ![t].result = value]
    BY <1>2 DEF trampoline_store
  <2> DEFINE c == [closure[t] EXCEPT !.result = value]
  <2>3. value \in {"full", "partial"} /\ (value = "partial" => closure[t].cancelled)
    BY <2>2 DEF inject_safepoint, coex_task_check_safepoint
  <2>4. c \in Closures /\ c.alive = closure[t].alive /\ c.cancelled = closure[t].cancelled /\ c.param = closure[t].param
        /\ c.shared_waiter = closure[t].shared_waiter /\ c.result = value /\ c.locked = closure[t].locked
    BY <1>a, <2>3
  <2>5. closure' = [closure EXCEPT ![t] = c] /\ closure'[t] = c
    BY <1>a, <2>2
  <2> HIDE DEF c
  <2>6. ThreadKnown(t)'
    BY <1>a, <1>b, <2>1, <2>3, <2>4, <2>5 DEF ThreadKnown, Running, HasResult
  <2> QED
    BY <1>a, <1>m, <2>1, <2>4, <2>5, <2>6 DEF Running, HasResult
<1>3. CASE trampoline_pop(t)
  <2>1. child' = [child EXCEPT ![t] = "popped"] /\ child[t] = "stored" /\ UNCHANGED <<main, missed, closure, waiter>>
    BY <1>3 DEF trampoline_pop, Step
  <2>2. ThreadKnown(t)'
    BY <1>a, <1>b, <2>1 DEF ThreadKnown, Running, HasResult
  <2> QED
    BY <1>a, <1>k, <2>1, <2>2 DEF Running, HasResult
<1>4. CASE signal_lock(t)
  <2> DEFINE to == IF closure[t].shared_waiter THEN "toWaiter" ELSE "unlock"
             c == [closure[t] EXCEPT !.completed = TRUE, !.locked = TRUE]
  <2>1. child' = [child EXCEPT ![t] = to] /\ child[t] = "popped" /\ UNCHANGED <<main, missed, waiter>>
    BY <1>4 DEF signal_lock, Step
  <2>2. closure' = [closure EXCEPT ![t].completed = TRUE, ![t].locked = TRUE]
    BY <1>4 DEF signal_lock
  <2>4. c \in Closures /\ c.alive = closure[t].alive /\ c.cancelled = closure[t].cancelled /\ c.param = closure[t].param
        /\ c.shared_waiter = closure[t].shared_waiter /\ c.result = closure[t].result /\ c.locked
    BY <1>a
  <2>5. closure' = [closure EXCEPT ![t] = c] /\ closure'[t] = c
    BY <1>a, <2>2
  <2>6. child'[t] = to /\ (to = "toWaiter" => closure[t].shared_waiter) /\ to \in {"toWaiter", "unlock"}
    BY <1>a, <2>1
  <2> HIDE DEF c, to
  <2>7. ThreadKnown(t)'
    BY <1>a, <1>b, <2>1, <2>4, <2>5, <2>6 DEF ThreadKnown, Running, HasResult
  <2> QED
    BY <1>a, <1>m, <2>1, <2>4, <2>5, <2>6, <2>7 DEF Running, HasResult
<1>5. CASE signal_waiter(t)
  <2>1. child' = [child EXCEPT ![t] = "unlock"] /\ child[t] = "toWaiter" /\ UNCHANGED <<main, missed, closure>>
        /\ waiter' = [waiter EXCEPT !.asleep = FALSE]
    BY <1>5 DEF signal_waiter, Step
  <2>2. ThreadKnown(t)'
    BY <1>a, <1>b, <2>1 DEF ThreadKnown, Running, HasResult
  <2>3. waiter' \in Waiters /\ waiter'.alive = waiter.alive
    BY <1>a, <2>1
  <2> QED
    BY <1>a, <1>k, <2>1, <2>2, <2>3 DEF Running, HasResult
<1>6. CASE signal_unlock(t)
  <2> DEFINE c == [closure[t] EXCEPT !.locked = FALSE]
  <2>1. child' = [child EXCEPT ![t] = "leaving"] /\ child[t] = "unlock" /\ UNCHANGED <<main, missed, waiter>>
        /\ closure' = [closure EXCEPT ![t].locked = FALSE]
    BY <1>6 DEF signal_unlock, Step
  <2>4. c \in Closures /\ c.alive = closure[t].alive /\ c.cancelled = closure[t].cancelled /\ c.param = closure[t].param
        /\ c.shared_waiter = closure[t].shared_waiter /\ c.result = closure[t].result /\ ~c.locked
    BY <1>a
  <2>5. closure' = [closure EXCEPT ![t] = c] /\ closure'[t] = c
    BY <1>a, <2>1
  <2> HIDE DEF c
  <2>7. ThreadKnown(t)'
    BY <1>a, <1>b, <2>1, <2>4, <2>5 DEF ThreadKnown, Running, HasResult
  <2> QED
    BY <1>a, <1>m, <2>1, <2>4, <2>5, <2>7 DEF Running, HasResult
<1>7. CASE trampoline_leave(t)
  <2>1. child' = [child EXCEPT ![t] = "ended"] /\ child[t] = "leaving" /\ UNCHANGED <<main, missed, closure, waiter>>
    BY <1>7 DEF trampoline_leave, Step
  <2>2. ThreadKnown(t)'
    BY <1>a, <1>b, <2>1 DEF ThreadKnown, Running, HasResult
  <2> QED
    BY <1>a, <1>k, <2>1, <2>2 DEF Running, HasResult
<1>8. CASE TaskEnds(t)
  <2>1. child' = [child EXCEPT ![t] = "ended"] /\ child[t] = "task" /\ UNCHANGED <<main, missed, closure, waiter>>
        /\ closure' = [closure EXCEPT ![t] = closure[t]]
    BY <1>a, <1>8 DEF TaskEnds, Step
  <2>2. ThreadKnown(t)'
    BY <1>a, <1>b, <2>1 DEF ThreadKnown, Running, HasResult, NoClosure
  <2> HIDE DEF Closures, Waiters
  <2> QED
    BY <1>a, <1>m, <2>1, <2>2
<1> QED
  BY <1>1, <1>2, <1>3, <1>4, <1>5, <1>6, <1>7, <1>8 DEF Thread
-----------------------------------------------------------------------------
(* Steps inside a statement *)

(* A step from one place inside a statement to another: what lies outside  *)
(* the statement is kept if no closure comes back to life.                 *)
LEMMA InsideMoves ==
  ASSUME IInv, pc \in Inside, pc' \in Inside,
         UNCHANGED <<program, at, group, nursery, tasks, child, missed>>,
         i' \in Nat \ {0}, out' \in Seq(Results),
         closure' \in [Threads -> [alive : BOOLEAN, result : {"null", "full", "partial"}, cancelled : BOOLEAN,
                                   completed : BOOLEAN, locked : BOOLEAN, shared_waiter : BOOLEAN, param : Nat]],
         waiter' \in [alive : BOOLEAN, held : BOOLEAN, asleep : BOOLEAN],
         ThreadsKnown', \A u \in Threads : closure'[u].alive => closure[u].alive,
         \A u \in Threads : closure[u].alive => closure'[u].alive \/ \E k \in DOMAIN group : group[k] = u,
         WaiterKnown', PlaceKnown', GroupKnown', OutKnown'
  PROVE  IInv'
<1>a. /\ TypeOK /\ group \in Seq(Threads)
      /\ \A k \in DOMAIN nursery : nursery[k] \in Threads
      /\ \A k \in DOMAIN tasks : tasks[k] \in Threads
      /\ MaxThreads \in Nat
  BY TypesKnown DEF IInv
<1>b. pc' \notin {"next", "epilogue", "taskEpilogue", "left", "overrun"}
      /\ pc \notin {"next", "epilogue", "taskEpilogue", "left", "overrun"}
  BY DEF Inside, Waits
<1>c. \A u \in Threads : Over(u) => Over(u)'
  BY DEF Over
<1>1. TypeOK'
  <2>1. i' \in 1 .. MaxThreads + 1
    <3>1. i' <= Len(group) + 1 /\ Len(group) <= MaxThreads /\ Len(group) \in Nat
      BY <1>a DEF PlaceKnown
    <3> QED
      BY <3>1, <1>a
  <2>2. pc' \in {"next", "spawn", "scan", "register", "lock", "check", "unregister", "cancel", "join",
                 "collect", "epilogue", "taskEpilogue", "left", "overrun"}
    BY DEF Inside, Waits
  <2> QED
    BY <1>a, <2>1, <2>2 DEF TypeOK
<1>2. SpawnedInOrder'
  BY DEF IInv, SpawnedInOrder
<1>3. ListsKnown'
  <2>1. ListsKnown
    BY DEF IInv
  <2> QED
    BY <1>a, <2>1 DEF ListsKnown, Listed
<1>n. NurseryKnown'
  <2>1. NurseryKnown
    BY DEF IInv
  <2> QED
    BY <1>a, <1>b, <2>1 DEF NurseryKnown
<1>4. InsideKnown'
  BY DEF InsideKnown
<1>5. EpilogueKnown'
  BY <1>b DEF EpilogueKnown
<1>6. Accounted'
  <2>1. \A u \in Threads : Awaited(u)' <=> Awaited(u)
    BY DEF Awaited
  <2>2. has_active_nursery(program, at)' <=> has_active_nursery(program, at)
    BY DEF has_active_nursery
  <2> QED
    BY <1>b, <1>c, <2>1, <2>2 DEF IInv, Accounted
<1>7. ScopeJoined' /\ ResultsInOrder'
  BY <1>b DEF ScopeJoined, ResultsInOrder
<1> QED
  BY <1>1, <1>2, <1>3, <1>n, <1>4, <1>5, <1>6, <1>7 DEF IInv

(* The same for a step that only moves.                                    *)
LEMMA InsideGoes ==
  ASSUME IInv, pc \in Inside, pc' \in Inside,
         UNCHANGED <<program, at, group, out, nursery, tasks, child, closure, missed>>,
         i' \in Nat \ {0},
         waiter' \in [alive : BOOLEAN, held : BOOLEAN, asleep : BOOLEAN],
         WaiterKnown', PlaceKnown', GroupKnown', OutKnown'
  PROVE  IInv'
<1>1. ThreadsKnown'
  <2>1. \A u \in Threads : ThreadKnown(u)' <=> ThreadKnown(u)
    BY DEF ThreadKnown
  <2> QED
    BY <2>1 DEF IInv, ThreadsKnown
<1>2. TypeOK
  BY DEF IInv
<1>3. /\ out' \in Seq(Results)
      /\ closure' \in [Threads -> [alive : BOOLEAN, result : {"null", "full", "partial"}, cancelled : BOOLEAN,
                                   completed : BOOLEAN, locked : BOOLEAN, shared_waiter : BOOLEAN, param : Nat]]
  BY <1>2 DEF TypeOK
<1> QED
  BY <1>1, <1>3, InsideMoves
(* All threads of the statement are started: on to the scan or to the join. *)
LEMMA SpawnEnds ==
  ASSUME IInv, NEW next, pc = "spawn", Len(group) = Statement.n, Goto(next),
         UNCHANGED <<program, at, group, out, nursery, tasks, child, closure, waiter, missed>>,
         IF Statement.op = "first" THEN next = "scan" /\ Statement.n # 0 ELSE next = "join"
  PROVE  IInv'
<1>a. /\ TypeOK /\ WaiterKnown /\ PlaceKnown /\ GroupKnown /\ OutKnown
      /\ pc' = next /\ i' = 1 /\ Statement' = Statement /\ Statement.n \in Nat
      /\ group \in Seq(Threads)
  BY TypesKnown DEF IInv, InsideKnown, Inside, Goto, Statement, PlaceKnown
<1>b. ~Frees
  BY DEF Frees
<1>c. pc \in Inside /\ next \in {"scan", "join"}
  BY DEF Inside
<1>1. WaiterKnown'
  BY <1>a, <1>c DEF WaiterKnown, Waits
<1>2. PlaceKnown'
  BY <1>a, <1>c DEF PlaceKnown, Waits
<1>3. GroupKnown'
  BY <1>a, <1>b, <1>c DEF GroupKnown, Listed, Over, Frees
<1>4. OutKnown'
  BY <1>a, <1>b, <1>c DEF OutKnown, Read, Frees
<1>5. pc' \in Inside /\ i' \in Nat \ {0}
  BY <1>a, <1>c DEF Inside, Waits
<1>6. waiter' \in [alive : BOOLEAN, held : BOOLEAN, asleep : BOOLEAN]
  BY <1>a DEF TypeOK
<1> QED
  BY <1>1, <1>2, <1>3, <1>4, <1>5, <1>6, <1>c, InsideGoes

(* The join of the statements that join all before they read: one ended    *)
(* thread is counted, or all are, and the results are collected.           *)
LEMMA Joins ==
  ASSUME IInv, pc = "join", Statement.op # "most", JoinLoop("collect")
  PROVE  IInv'
<1>a. /\ TypeOK /\ WaiterKnown /\ PlaceKnown /\ GroupKnown /\ OutKnown
      /\ i \in Nat \ {0} /\ group \in Seq(Threads)
  BY TypesKnown DEF IInv, InsideKnown, Inside
<1>b. UNCHANGED <<program, at, group, out, nursery, tasks, child, closure, waiter, missed>>
      /\ Statement' = Statement
  BY DEF JoinLoop, Statement
<1>c. ~Frees /\ pc \in Inside
  BY DEF Frees, Inside
<1>d. waiter' \in [alive : BOOLEAN, held : BOOLEAN, asleep : BOOLEAN]
  BY <1>a, <1>b DEF TypeOK
<1>1. CASE i <= Len(group) /\ child[group[i]] = "ended" /\ Advance
  <2>1. pc' = "join" /\ i' = i + 1
    BY <1>1 DEF Advance
  <2>2. WaiterKnown'
    BY <1>a, <1>b, <2>1 DEF WaiterKnown, Waits
  <2>3. PlaceKnown'
    BY <1>a, <1>b, <1>1, <2>1 DEF PlaceKnown, Waits
  <2>4. GroupKnown'
    BY <1>a, <1>b, <1>c, <1>1, <2>1 DEF GroupKnown, Listed, Over, Frees
  <2>5. OutKnown'
    BY <1>a, <1>b, <1>c, <2>1 DEF OutKnown, Read, Frees
  <2>6. pc' \in Inside /\ i' \in Nat \ {0}
    BY <1>a, <2>1 DEF Inside
  <2> QED
    BY <1>b, <1>c, <1>d, <2>2, <2>3, <2>4, <2>5, <2>6, InsideGoes
<1>2. CASE i > Len(group) /\ Goto("collect")
  <2>1. pc' = "collect" /\ i' = 1
    BY <1>2 DEF Goto
  <2>2. WaiterKnown'
    BY <1>a, <1>b, <2>1 DEF WaiterKnown, Waits
  <2>3. PlaceKnown'
    BY <1>a, <1>b, <2>1 DEF PlaceKnown, Waits
  <2>4. GroupKnown'
    BY <1>a, <1>b, <1>c, <1>2, <2>1 DEF GroupKnown, Listed, Over, Frees
  <2>5. OutKnown'
    BY <1>a, <1>b, <1>c, <2>1 DEF OutKnown, Read, Frees
  <2>6. pc' \in Inside /\ i' \in Nat \ {0}
    BY <2>1 DEF Inside
  <2> QED
    BY <1>b, <1>c, <1>d, <2>2, <2>3, <2>4, <2>5, <2>6, InsideGoes
<1> QED
  BY <1>1, <1>2 DEF JoinLoop
(* The closure of an ended thread is freed, its result read before: it is  *)
(* whole, as only threads behind the first one of a first are cancelled.   *)
LEMMA ClosureFreed ==
  ASSUME IInv, pc \in Inside, Frees, i <= Len(group), child[group[i]] = "ended", NEW reads \in BOOLEAN,
         reads <=> (Statement.op = "first" => i = 1),
         FreeClosure(reads)
  PROVE  IInv'
<1> DEFINE t == group[i]
<1>a. /\ TypeOK /\ ThreadsKnown /\ WaiterKnown /\ PlaceKnown /\ GroupKnown /\ OutKnown
      /\ i \in Nat \ {0} /\ group \in Seq(Threads) /\ i \in DOMAIN group /\ t \in Threads
      /\ \A k \in DOMAIN group : group[k] \in Threads
      /\ out \in Seq(Results)
  <2>1. TypeOK /\ out \in Seq(Results)
    BY DEF IInv, TypeOK
  <2> QED
    BY <2>1, TypesKnown DEF IInv, InsideKnown
<1>b. /\ UNCHANGED <<program, at, group, nursery, tasks, child, waiter, missed>>
      /\ pc' = pc /\ i' = i + 1 /\ Statement' = Statement
      /\ closure' = [closure EXCEPT ![t].alive = FALSE]
      /\ out' = IF reads THEN Append(out, result_of(t)) ELSE out
  BY DEF FreeClosure, Statement, Advance, coex_task_closure_free
<1>c. (Frees' <=> Frees) /\ pc \notin Waits
  BY <1>b DEF Frees, Waits
<1>d. /\ closure' \in [Threads -> [alive : BOOLEAN, result : {"null", "full", "partial"}, cancelled : BOOLEAN,
                                   completed : BOOLEAN, locked : BOOLEAN, shared_waiter : BOOLEAN, param : Nat]]
      /\ closure'[t] = [closure[t] EXCEPT !.alive = FALSE]
      /\ \A u \in Threads \ {t} : closure'[u] = closure[u]
      /\ \A u \in Threads : closure[u] \in [alive : BOOLEAN, result : {"null", "full", "partial"},
                 cancelled : BOOLEAN, completed : BOOLEAN, locked : BOOLEAN, shared_waiter : BOOLEAN, param : Nat]
  <2>1. closure \in [Threads -> [alive : BOOLEAN, result : {"null", "full", "partial"}, cancelled : BOOLEAN,
                                 completed : BOOLEAN, locked : BOOLEAN, shared_waiter : BOOLEAN, param : Nat]]
    BY <1>a DEF TypeOK
  <2> QED
    BY <1>a, <1>b, <2>1
<1>e. /\ ~closure'[t].alive /\ closure'[t].result = closure[t].result /\ closure'[t].locked = closure[t].locked
      /\ closure'[t].cancelled = closure[t].cancelled /\ closure'[t].shared_waiter = closure[t].shared_waiter
      /\ closure'[t].param = closure[t].param
  BY <1>a, <1>d
<1>f. closure[t].alive /\ closure[t].param = i /\ (closure[t].cancelled => Statement.op = "first" /\ i > 1)
  BY <1>a DEF GroupKnown
<1> HIDE DEF t
<1>1. ThreadsKnown'
  <2> SUFFICES ASSUME NEW u \in Threads PROVE ThreadKnown(u)'
    BY DEF ThreadsKnown
  <2>1. ThreadKnown(u)
    BY <1>a DEF ThreadsKnown
  <2>2. CASE u = t
    <3>1. child'[t] = "ended" /\ child[t] = "ended"
      BY <1>b DEF t
    <3> QED
      BY <1>e, <2>1, <2>2, <3>1 DEF ThreadKnown, Running, HasResult
  <2>3. CASE u # t
    BY <1>b, <1>d, <2>1, <2>3 DEF ThreadKnown
  <2> QED
    BY <2>2, <2>3
<1>2. \A u \in Threads : closure'[u].alive => closure[u].alive
  BY <1>d, <1>e
<1>g. \A u \in Threads : closure[u].alive => closure'[u].alive \/ \E k \in DOMAIN group : group[k] = u
  BY <1>a, <1>d DEF t
<1>3. WaiterKnown'
  <2>1. \A u \in Threads : closure'[u].shared_waiter = closure[u].shared_waiter
    BY <1>d, <1>e
  <2>2. pc # "unregister"
    BY <1>c DEF Waits
  <2> QED
    BY <1>a, <1>b, <2>1, <2>2 DEF WaiterKnown
<1>4. PlaceKnown'
  BY <1>a, <1>b, <1>c DEF PlaceKnown, Frees, Waits
<1>5. GroupKnown'
  <2>1. \A k \in DOMAIN group : k # i => group[k] # t
    BY <1>a DEF GroupKnown, t
  <2>2. \A k \in DOMAIN group : k < i + 1 <=> k < i \/ k = i
    BY <1>a
  <2>3. \A k \in DOMAIN group : k # i => Over(group[k])' = Over(group[k])
    BY <1>a, <1>b, <1>d, <2>1 DEF Over
  <2>4. child'[group[i]] = "ended" /\ ~closure'[group[i]].alive
    BY <1>b, <1>e DEF t
  <2>5. \A k \in DOMAIN group : group'[k] = group[k] /\ child'[group[k]] = child[group[k]]
                                /\ closure'[group[k]].cancelled = closure[group[k]].cancelled
                                /\ closure'[group[k]].param = closure[group[k]].param
                                /\ (k # i => closure'[group[k]].alive = closure[group[k]].alive)
    BY <1>a, <1>b, <1>d, <1>e, <2>1
  <2>6. Listed(group)' /\ \A j, k \in DOMAIN group : j # k => group'[j] # group'[k]
    BY <1>a, <1>b DEF GroupKnown, Listed
  <2>7. ASSUME NEW k \in DOMAIN group
        PROVE  /\ child'[group'[k]] \in Running \cup {"ended"}
               /\ k < i + 1 => child'[group'[k]] = "ended" /\ ~closure'[group'[k]].alive
               /\ ~(k < i + 1) => closure'[group'[k]].alive
               /\ pc = "collect" \/ (pc = "join" /\ k < i + 1) => child'[group'[k]] = "ended"
               /\ closure'[group'[k]].cancelled => Statement.op = "first" /\ k > 1
               /\ closure'[group'[k]].param = k
    <3>1. CASE k = i
      BY <1>a, <1>b, <1>e, <1>f, <2>4, <2>5, <3>1 DEF t, GroupKnown
    <3>2. CASE k # i
      <4>1. /\ group'[k] = group[k] /\ child'[group[k]] = child[group[k]] /\ (k < i + 1 <=> k < i)
            /\ closure'[group[k]].cancelled = closure[group[k]].cancelled
            /\ closure'[group[k]].alive = closure[group[k]].alive
            /\ closure'[group[k]].param = closure[group[k]].param
        BY <2>2, <2>5, <3>2
      <4>2. /\ child[group[k]] \in Running \cup {"ended"}
            /\ k < i => child[group[k]] = "ended" /\ ~closure[group[k]].alive
            /\ ~(k < i) => closure[group[k]].alive
            /\ pc = "collect" \/ (pc = "join" /\ k < i) => child[group[k]] = "ended"
            /\ closure[group[k]].cancelled => Statement.op = "first" /\ k > 1
            /\ closure[group[k]].param = k
        BY <1>a DEF GroupKnown, Over
      <4> QED
        BY <4>1, <4>2
    <3> QED
      BY <3>1, <3>2
  <2> QED
    BY <1>b, <1>c, <2>6, <2>7 DEF GroupKnown, Over
<1>6. OutKnown'
  <2>1. ASSUME reads
        PROVE  /\ result_of(t).value \in {"full", "swept"}
               /\ result_of(t).element = Len(out) + 1
    <3>1. closure[t].result \in {"null", "full", "partial"} /\ closure[t].result # "null"
      BY <1>a, <1>d, <1>f DEF ThreadsKnown, ThreadKnown, t
    <3>2. closure[t].result # "partial"
      BY <1>a, <1>f, <2>1 DEF ThreadsKnown, ThreadKnown
    <3>3. Len(out) + 1 = i
      BY <1>a, <2>1 DEF OutKnown, Read
    <3> QED
      BY <1>f, <3>1, <3>2, <3>3 DEF result_of
  <2>2. CASE reads
    <3>1. /\ Len(out') = Len(out) + 1
          /\ \A k \in DOMAIN out' : out'[k] = IF k = Len(out) + 1 THEN result_of(t) ELSE out[k]
          /\ \A k \in DOMAIN out' : k # Len(out) + 1 => k \in DOMAIN out
      BY <1>a, <1>b, <2>2
    <3>2. Read' = Read + 1
      BY <1>a, <1>b, <1>c, <2>2 DEF Read
    <3> QED
      BY <1>a, <2>1, <2>2, <3>1, <3>2 DEF OutKnown
  <2>3. CASE ~reads
    <3>1. Read' = Read
      BY <1>a, <1>b, <1>c, <2>3 DEF Read
    <3> QED
      BY <1>a, <1>b, <2>3, <3>1 DEF OutKnown
  <2> QED
    BY <2>2, <2>3
<1>7. out' \in Seq(Results) /\ pc' \in Inside /\ i' \in Nat \ {0}
  <2>1. result_of(t) \in Results
    BY <1>a, <1>d DEF result_of, Results
  <2> QED
    BY <1>a, <1>b, <2>1
<1>8. waiter' \in [alive : BOOLEAN, held : BOOLEAN, asleep : BOOLEAN]
  BY <1>a, <1>b DEF TypeOK
<1> QED
  BY <1>b, <1>d, <1>g, <1>1, <1>2, <1>3, <1>4, <1>5, <1>6, <1>7, <1>8, InsideMoves
(* A flag of the i-th closure is set or cleared, and the loop goes on: the *)
(* cancellation of all but the first, and the waiter's coming and going.   *)
LEMMA ClosureMarked ==
  ASSUME IInv, pc \in Waits \cup {"cancel"}, i <= Len(group), NEW c,
         c \in [alive : BOOLEAN, result : {"null", "full", "partial"}, cancelled : BOOLEAN,
                completed : BOOLEAN, locked : BOOLEAN, shared_waiter : BOOLEAN, param : Nat],
         c.alive = closure[group[i]].alive, c.result = closure[group[i]].result,
         c.locked = closure[group[i]].locked, c.param = closure[group[i]].param,
         c.cancelled # closure[group[i]].cancelled => c.cancelled /\ i > 1,
         child[group[i]] = "toWaiter" => c.shared_waiter,
         closure' = [closure EXCEPT ![group[i]] = c], Advance,
         UNCHANGED <<program, at, group, out, nursery, tasks, child, waiter, missed>>,
         WaiterKnown'
  PROVE  IInv'
<1> DEFINE t == group[i]
<1>a. /\ TypeOK /\ ThreadsKnown /\ PlaceKnown /\ GroupKnown /\ OutKnown
      /\ i \in Nat \ {0} /\ group \in Seq(Threads) /\ i \in DOMAIN group /\ t \in Threads
      /\ \A k \in DOMAIN group : group[k] \in Threads
  BY TypesKnown DEF IInv, InsideKnown, Inside
<1>b. pc' = pc /\ i' = i + 1 /\ Statement' = Statement /\ ~Frees /\ ~Frees' /\ pc \in Inside
      /\ pc \notin {"join", "collect"}
  BY DEF Advance, Statement, Frees, Inside, Waits
<1>c. /\ closure' \in [Threads -> [alive : BOOLEAN, result : {"null", "full", "partial"}, cancelled : BOOLEAN,
                                   completed : BOOLEAN, locked : BOOLEAN, shared_waiter : BOOLEAN, param : Nat]]
      /\ closure'[t] = c
      /\ \A u \in Threads \ {t} : closure'[u] = closure[u]
  <2>1. closure \in [Threads -> [alive : BOOLEAN, result : {"null", "full", "partial"}, cancelled : BOOLEAN,
                                 completed : BOOLEAN, locked : BOOLEAN, shared_waiter : BOOLEAN, param : Nat]]
    BY <1>a DEF TypeOK
  <2> QED
    BY <1>a, <2>1
<1>d. closure[t].alive /\ child[t] \in Running \cup {"ended"} /\ Statement.op = "first"
  BY <1>a, <1>b DEF GroupKnown, PlaceKnown
<1> HIDE DEF t
<1>1. ThreadsKnown'
  <2> SUFFICES ASSUME NEW u \in Threads PROVE ThreadKnown(u)'
    BY DEF ThreadsKnown
  <2>1. ThreadKnown(u)
    BY <1>a DEF ThreadsKnown
  <2>2. CASE u = t
    <3>1. child[t] \notin {"none", "task"}
      BY <1>d DEF Running, HasResult
    <3>2. c.result = "partial" => c.cancelled
      <4>1. c.result = "partial" => closure[t].cancelled
        BY <2>1, <2>2 DEF ThreadKnown, t
      <4> QED
        BY <4>1 DEF t
    <3> QED
      BY <1>c, <1>d, <2>1, <2>2, <3>1, <3>2 DEF ThreadKnown, t
  <2>3. CASE u # t
    BY <1>b, <1>c, <2>1, <2>3 DEF ThreadKnown
  <2> QED
    BY <2>2, <2>3
<1>2. \A u \in Threads : closure'[u].alive => closure[u].alive
  BY <1>c, <1>d
<1>g. \A u \in Threads : closure[u].alive => closure'[u].alive
  BY <1>c, <1>d DEF t
<1>3. PlaceKnown'
  BY <1>a, <1>b DEF PlaceKnown, Waits
<1>4. GroupKnown'
  <2>1. \A k \in DOMAIN group : k # i => group[k] # t
    BY <1>a DEF GroupKnown, t
  <2>2. Listed(group)' /\ \A j, k \in DOMAIN group : j # k => group'[j] # group'[k]
    BY <1>a, <1>b DEF GroupKnown, Listed
  <2>3. ASSUME NEW k \in DOMAIN group
        PROVE  /\ child'[group'[k]] \in Running \cup {"ended"}
               /\ closure'[group'[k]].alive
               /\ closure'[group'[k]].cancelled => k > 1
               /\ closure'[group'[k]].param = k
    <3>1. CASE k = i
      <4>1. group'[k] = t /\ c.alive /\ c.param = i /\ child'[t] = child[t] /\ (closure[t].cancelled => i > 1)
        BY <1>a, <1>d, <3>1 DEF t, GroupKnown
      <4>2. c.cancelled => i > 1
        BY <4>1 DEF t
      <4> QED
        BY <1>c, <1>d, <3>1, <4>1, <4>2
    <3>2. CASE k # i
      <4>1. closure'[group[k]] = closure[group[k]] /\ group'[k] = group[k]
        BY <1>a, <1>c, <2>1, <3>2
      <4> QED
        BY <1>a, <1>b, <4>1 DEF GroupKnown
    <3> QED
      BY <3>1, <3>2
  <2> QED
    BY <1>b, <1>d, <2>2, <2>3 DEF GroupKnown
<1>5. OutKnown'
  BY <1>a, <1>b DEF OutKnown, Read
<1>6. /\ out' \in Seq(Results) /\ pc' \in Inside /\ i' \in Nat \ {0}
      /\ waiter' \in [alive : BOOLEAN, held : BOOLEAN, asleep : BOOLEAN]
  BY <1>a, <1>b DEF TypeOK
<1> QED
  BY <1>b, <1>c, <1>g, <1>1, <1>2, <1>3, <1>4, <1>5, <1>6, InsideMoves

(* Cancelling, one closure after the other, all but the first.             *)
LEMMA Cancels ==
  ASSUME IInv, first_cancel
  PROVE  IInv'
<1> DEFINE t == group[i]
           c == IF i = 1 THEN closure[t] ELSE [closure[t] EXCEPT !.cancelled = TRUE]
<1>a. /\ TypeOK /\ WaiterKnown /\ ThreadsKnown /\ pc = "cancel" /\ i <= Len(group)
      /\ i \in Nat \ {0} /\ group \in Seq(Threads) /\ t \in Threads
  BY TypesKnown DEF IInv, first_cancel
<1>b. closure \in [Threads -> [alive : BOOLEAN, result : {"null", "full", "partial"}, cancelled : BOOLEAN,
                               completed : BOOLEAN, locked : BOOLEAN, shared_waiter : BOOLEAN, param : Nat]]
  BY <1>a DEF TypeOK
<1>c. /\ c \in [alive : BOOLEAN, result : {"null", "full", "partial"}, cancelled : BOOLEAN,
                completed : BOOLEAN, locked : BOOLEAN, shared_waiter : BOOLEAN, param : Nat]
      /\ c.alive = closure[t].alive /\ c.result = closure[t].result /\ c.locked = closure[t].locked
      /\ c.shared_waiter = closure[t].shared_waiter /\ c.param = closure[t].param
      /\ i = 1 => c = closure[t]
      /\ i # 1 => c.cancelled
  BY <1>a, <1>b
<1>d. closure' = [closure EXCEPT ![t] = c]
  BY <1>a, <1>b DEF first_cancel, coex_task_cancel
<1>e. UNCHANGED <<program, at, group, out, nursery, tasks, child, waiter, missed>> /\ Advance
  BY DEF first_cancel
<1>f. child[t] = "toWaiter" => closure[t].shared_waiter
  BY <1>a DEF ThreadsKnown, ThreadKnown
<1>g. WaiterKnown'
  <2>1. \A u \in Threads : closure'[u].shared_waiter = closure[u].shared_waiter
    BY <1>a, <1>b, <1>c, <1>d
  <2>2. pc' = "cancel"
    BY <1>a, <1>e DEF Advance
  <2> QED
    BY <1>a, <1>e, <2>1, <2>2 DEF WaiterKnown
<1> HIDE DEF c
<1>h. c.cancelled # closure[t].cancelled => c.cancelled /\ i > 1
  BY <1>a, <1>c
<1> QED
  BY <1>a, <1>c, <1>d, <1>e, <1>f, <1>g, <1>h, ClosureMarked
(* A step of first's wait that changes no closure.                         *)
LEMMA WaitGoes ==
  ASSUME IInv, pc \in Waits \cup {"cancel"}, pc' \in Waits \cup {"cancel", "join"},
         UNCHANGED <<program, at, group, out, nursery, tasks, child, closure, missed>>,
         i' \in Nat \ {0}, i' <= Len(group) + 1, pc' = "join" => i' = 1,
         waiter' \in [alive : BOOLEAN, held : BOOLEAN, asleep : BOOLEAN],
         WaiterKnown'
  PROVE  IInv'
<1>a. PlaceKnown /\ GroupKnown /\ OutKnown /\ pc \in Inside /\ pc' \in Inside /\ Statement' = Statement
  BY DEF IInv, InsideKnown, Inside, Statement
<1>b. Statement.op = "first" /\ ~Frees /\ ~Frees'
  <2>1. Statement.op = "first"
    BY <1>a DEF PlaceKnown
  <2> QED
    BY <1>a, <2>1 DEF Frees, Waits
<1>1. PlaceKnown'
  BY <1>a, <1>b DEF PlaceKnown, Waits
<1>2. GroupKnown'
  <2>1. pc' # "collect" /\ \A k \in DOMAIN group : ~(pc' = "join" /\ k < i')
    <3>1. \A k \in DOMAIN group : k \in Nat \ {0}
      BY TypesKnown DEF IInv
    <3> QED
      BY <3>1 DEF Waits
  <2> QED
    BY <1>a, <1>b, <2>1 DEF GroupKnown, Listed
<1>3. OutKnown'
  BY <1>a, <1>b DEF OutKnown, Read
<1> QED
  BY <1>a, <1>1, <1>2, <1>3, InsideGoes

(* All are cancelled: on to the join.                                      *)
LEMMA CancelEnds ==
  ASSUME IInv, pc = "cancel", Goto("join"),
         UNCHANGED <<program, at, group, out, nursery, tasks, child, closure, waiter, missed>>
  PROVE  IInv'
<1>a. TypeOK /\ WaiterKnown /\ group \in Seq(Threads) /\ pc' = "join" /\ i' = 1
  BY TypesKnown DEF IInv, Goto
<1>1. WaiterKnown'
  BY <1>a DEF WaiterKnown, Waits
<1>2. waiter' \in [alive : BOOLEAN, held : BOOLEAN, asleep : BOOLEAN]
  BY <1>a DEF TypeOK
<1> QED
  BY <1>a, <1>1, <1>2, WaitGoes DEF Waits

(* The waiter goes into the i-th closure, or comes out of it, under the    *)
(* closure's lock: a thread that is about to signal it holds that lock.    *)
LEMMA WaiterMoves ==
  ASSUME IInv, i <= Len(group), NEW value \in BOOLEAN, NEW next, EnterWaiter(value, next), UNCHANGED waiter,
         pc = IF value THEN "register" ELSE "unregister"
  PROVE  IInv'
<1> DEFINE t == group[i]
           c == [closure[t] EXCEPT !.shared_waiter = value]
<1>a. /\ TypeOK /\ WaiterKnown /\ ThreadsKnown /\ GroupKnown /\ pc \in Inside
      /\ i \in Nat \ {0} /\ group \in Seq(Threads) /\ i \in DOMAIN group /\ t \in Threads
      /\ \A k \in DOMAIN group : group[k] \in Threads
  BY TypesKnown DEF IInv, InsideKnown, Inside, Waits
<1>b. closure \in [Threads -> [alive : BOOLEAN, result : {"null", "full", "partial"}, cancelled : BOOLEAN,
                               completed : BOOLEAN, locked : BOOLEAN, shared_waiter : BOOLEAN, param : Nat]]
  BY <1>a DEF TypeOK
<1>c. /\ ~closure[t].locked /\ closure' = [closure EXCEPT ![t].shared_waiter = value] /\ Advance
      /\ UNCHANGED <<program, at, group, out, nursery, tasks, child, missed, waiter>>
  BY <1>a DEF EnterWaiter
<1>d. /\ c \in [alive : BOOLEAN, result : {"null", "full", "partial"}, cancelled : BOOLEAN,
                completed : BOOLEAN, locked : BOOLEAN, shared_waiter : BOOLEAN, param : Nat]
      /\ c.alive = closure[t].alive /\ c.result = closure[t].result /\ c.locked = closure[t].locked
      /\ c.cancelled = closure[t].cancelled /\ c.shared_waiter = value /\ c.param = closure[t].param
  <2>1. closure[t] \in [alive : BOOLEAN, result : {"null", "full", "partial"}, cancelled : BOOLEAN,
                        completed : BOOLEAN, locked : BOOLEAN, shared_waiter : BOOLEAN, param : Nat]
    BY <1>a, <1>b
  <2> QED
    BY <2>1
<1>e. closure' = [closure EXCEPT ![t] = c] /\ closure'[t] = c /\ \A u \in Threads \ {t} : closure'[u] = closure[u]
  BY <1>a, <1>b, <1>c
<1> HIDE DEF c
<1>f. child[t] # "toWaiter"
  BY <1>a, <1>c DEF ThreadsKnown, ThreadKnown
<1>g. WaiterKnown'
  <2>1. waiter'.alive /\ waiter.alive /\ pc' = pc /\ i' = i + 1
    BY <1>a, <1>c DEF WaiterKnown, Waits, Advance
  <2>2. ASSUME NEW u \in Threads, closure'[u].shared_waiter
        PROVE  \E k \in DOMAIN group : group[k] = u /\ (pc = "unregister" => k >= i + 1)
    <3>1. CASE u = t
      BY <1>a, <1>d, <1>e, <2>2, <3>1
    <3>2. CASE u # t
      <4>1. closure[u].shared_waiter
        BY <1>e, <2>2, <3>2
      <4>2. PICK k \in DOMAIN group : group[k] = u /\ (pc = "unregister" => k >= i)
        BY <1>a, <4>1 DEF WaiterKnown
      <4>3. k # i
        BY <3>2, <4>2
      <4>4. pc = "unregister" => k >= i + 1
        BY <1>a, <4>2, <4>3
      <4> QED
        BY <4>2, <4>4
    <3> QED
      BY <3>1, <3>2
  <2>3. pc' \in Waits \ {"scan"}
    BY <2>1 DEF Waits
  <2> QED
    BY <1>c, <2>1, <2>2, <2>3 DEF WaiterKnown
<1>h. pc \in Waits \cup {"cancel"}
  BY DEF Waits
<1> QED
  BY <1>a, <1>c, <1>d, <1>e, <1>f, <1>g, <1>h, ClosureMarked
(* Every step of coex_task_wait_any keeps the invariant.                   *)
LEMMA WaitSteps ==
  ASSUME IInv, wait_any
  PROVE  IInv'
<1> DEFINE Waiters == [alive : BOOLEAN, held : BOOLEAN, asleep : BOOLEAN]
<1>a. /\ TypeOK /\ WaiterKnown /\ ThreadsKnown /\ waiter \in Waiters
      /\ i \in Nat \ {0} /\ group \in Seq(Threads) /\ Len(group) \in Nat
  <2>1. TypeOK /\ WaiterKnown /\ ThreadsKnown
    BY DEF IInv
  <2>2. waiter \in Waiters
    BY <2>1 DEF TypeOK
  <2> QED
    BY <2>1, <2>2, TypesKnown
<1>b. pc \in Inside => i <= Len(group) + 1
  BY DEF IInv, InsideKnown, PlaceKnown
<1>m. ASSUME pc \in Waits, pc' \in Waits \cup {"cancel"},
             UNCHANGED <<program, at, group, out, nursery, tasks, child, closure, missed>>,
             (i <= Len(group) /\ i' = i + 1) \/ i' = 1,
             waiter' \in Waiters, WaiterKnown'
      PROVE  IInv'
  <2>1. i' \in Nat \ {0} /\ i' <= Len(group) + 1 /\ pc' # "join"
    BY <1>a, <1>m DEF Waits
  <2> QED
    BY <1>m, <2>1, WaitGoes
<1>n. ASSUME UNCHANGED <<group, closure>>, waiter'.alive <=> waiter.alive, waiter.alive <=> pc' \in Waits \ {"scan"},
             pc # "unregister", pc' = "unregister" => i' = 1
      PROVE  WaiterKnown'
  BY <1>a, <1>n DEF WaiterKnown
<1>1. CASE wait_any_scan
  <2>0. pc = "scan" /\ UNCHANGED <<program, at, group, out, nursery, tasks, child, closure, missed>>
        /\ ~waiter.alive
    BY <1>a, <1>1 DEF wait_any_scan, WaiterKnown
  <2>1. CASE i > Len(group)
    <3>1. pc' = "register" /\ i' = 1 /\ waiter' = [NoWaiter EXCEPT !.alive = TRUE]
      BY <1>1, <2>1 DEF wait_any_scan, Goto
    <3>2. waiter' \in Waiters /\ waiter'.alive
      BY <3>1 DEF NoWaiter
    <3>3. WaiterKnown'
      BY <1>a, <2>0, <3>1, <3>2 DEF WaiterKnown, Waits
    <3> QED
      BY <1>m, <2>0, <3>1, <3>2, <3>3 DEF Waits
  <2>2. CASE i <= Len(group)
    <3>1. /\ (pc' = "cancel" /\ i' = 1) \/ (pc' = pc /\ i' = i + 1)
          /\ waiter' = waiter
      BY <1>a, <1>1, <2>2 DEF wait_any_scan, Goto, Advance
    <3>2. WaiterKnown'
      BY <1>n, <2>0, <3>1 DEF Waits
    <3> QED
      BY <1>a, <1>m, <2>0, <2>2, <3>1, <3>2 DEF Waits
  <2> QED
    BY <1>a, <2>1, <2>2
<1>2. CASE wait_any_register
  <2>0. pc = "register" /\ EnterWaiter(TRUE, "lock") /\ UNCHANGED waiter /\ waiter.alive
    BY <1>a, <1>2 DEF wait_any_register, WaiterKnown, Waits
  <2>1. CASE i > Len(group)
    <3>1. pc' = "lock" /\ i' = 1
          /\ UNCHANGED <<program, at, group, out, nursery, tasks, child, closure, missed>>
      BY <2>0, <2>1 DEF EnterWaiter, Goto
    <3>2. WaiterKnown'
      BY <1>n, <2>0, <3>1 DEF Waits
    <3> QED
      BY <1>a, <1>m, <2>0, <3>1, <3>2 DEF Waits
  <2>2. CASE i <= Len(group)
    BY <2>0, <2>2, WaiterMoves
  <2> QED
    BY <1>a, <2>1, <2>2
<1>3. CASE wait_any_lock
  <2>1. /\ pc = "lock" /\ pc' = "check" /\ i' = 1 /\ waiter' = [waiter EXCEPT !.held = TRUE]
        /\ UNCHANGED <<program, at, group, out, nursery, tasks, child, closure, missed>>
    BY <1>3 DEF wait_any_lock, Goto
  <2>2. waiter' \in Waiters /\ waiter'.alive = waiter.alive /\ waiter.alive
    BY <1>a, <2>1 DEF WaiterKnown, Waits
  <2>3. WaiterKnown'
    BY <1>n, <2>1, <2>2 DEF Waits
  <2> QED
    BY <1>m, <2>1, <2>2, <2>3 DEF Waits
<1>4. CASE wait_any_check
  <2>1. /\ pc = "check" /\ waiter.alive
        /\ UNCHANGED <<program, at, group, out, nursery, tasks, child, closure, missed>>
    BY <1>a, <1>4 DEF wait_any_check, WaiterKnown, Waits
  <2>2. /\ \/ pc' = "lock" /\ i' = 1
           \/ pc' = "unregister" /\ i' = 1
           \/ pc' = pc /\ i' = i + 1 /\ i <= Len(group)
        /\ \/ waiter' = [waiter EXCEPT !.held = FALSE, !.asleep = TRUE]
           \/ waiter' = [waiter EXCEPT !.held = FALSE]
           \/ waiter' = waiter
    BY <1>a, <1>4 DEF wait_any_check, Goto, Advance
  <2>3. waiter' \in Waiters /\ waiter'.alive = waiter.alive
    BY <1>a, <2>2
  <2>4. WaiterKnown'
    BY <1>n, <2>1, <2>2, <2>3 DEF Waits
  <2> QED
    BY <1>m, <2>1, <2>2, <2>3, <2>4 DEF Waits
<1>5. CASE wait_any_unregister
  <2>0. pc = "unregister" /\ EnterWaiter(FALSE, "cancel")
    BY <1>5 DEF wait_any_unregister
  <2>1. CASE i > Len(group)
    <3>1. pc' = "cancel" /\ i' = 1 /\ waiter' = NoWaiter
          /\ UNCHANGED <<program, at, group, out, nursery, tasks, child, closure, missed>>
      BY <1>5, <2>0, <2>1 DEF EnterWaiter, Goto, wait_any_unregister
    <3>2. waiter' \in Waiters /\ ~waiter'.alive
      BY <3>1 DEF NoWaiter
    <3>3. \A u \in Threads : ~closure[u].shared_waiter
      BY <1>a, <2>0, <2>1 DEF WaiterKnown
    <3>4. WaiterKnown'
      BY <3>1, <3>2, <3>3 DEF WaiterKnown, Waits
    <3> QED
      BY <1>m, <2>0, <3>1, <3>2, <3>4 DEF Waits
  <2>2. CASE i <= Len(group)
    <3>1. UNCHANGED waiter
      BY <1>a, <1>5, <2>2 DEF wait_any_unregister
    <3> QED
      BY <2>0, <2>2, <3>1, WaiterMoves
  <2> QED
    BY <1>a, <2>1, <2>2
<1> QED
  BY <1>1, <1>2, <1>3, <1>4, <1>5 DEF wait_any
-----------------------------------------------------------------------------
(* Starting a thread *)

(* The next thread is started, or a task in its place: it is in no list    *)
(* yet, and its number is greater than the length of any.                  *)
LEMMA Starts ==
  ASSUME IInv, NEW t \in Threads, Started(t), NEW to \in {"start", "task"}, NEW e \in Nat,
         child' = [child EXCEPT ![t] = to],
         closure' = [closure EXCEPT ![t] = IF to = "start" THEN coex_task_closure_alloc(e) ELSE NoClosure],
         UNCHANGED waiter
  PROVE  /\ child' \in [Threads -> Stages \cup {"task"}]
         /\ closure' \in [Threads -> [alive : BOOLEAN, result : {"null", "full", "partial"}, cancelled : BOOLEAN,
                                      completed : BOOLEAN, locked : BOOLEAN, shared_waiter : BOOLEAN, param : Nat]]
         /\ child[t] = "none" /\ child'[t] = to /\ closure'[t] = IF to = "start" THEN coex_task_closure_alloc(e) ELSE NoClosure
         /\ \A u \in Threads \ {t} : child'[u] = child[u] /\ closure'[u] = closure[u]
         /\ ThreadsKnown' /\ SpawnedInOrder'
         /\ \A s \in Seq(Threads) : Listed(s) => Len(s) < t /\ \A k \in DOMAIN s : s[k] # t
         /\ \A u \in Threads : Over(u) => Over(u)'
         /\ \A u \in Threads : closure'[u].shared_waiter => closure[u].shared_waiter
         /\ closure'[t].alive <=> to = "start"
<1>a. /\ child \in [Threads -> Stages \cup {"task"}]
      /\ closure \in [Threads -> [alive : BOOLEAN, result : {"null", "full", "partial"}, cancelled : BOOLEAN,
                                  completed : BOOLEAN, locked : BOOLEAN, shared_waiter : BOOLEAN, param : Nat]]
      /\ MaxThreads \in Nat
  BY SizesAssumption DEF IInv, TypeOK
<1>b. child[t] = "none" /\ \A u \in 1 .. t - 1 : child[u] # "none"
  BY DEF Started
<1>1. child' \in [Threads -> Stages \cup {"task"}]
      /\ child'[t] = to /\ \A u \in Threads \ {t} : child'[u] = child[u]
  BY <1>a DEF Stages
<1> DEFINE c == IF to = "start" THEN coex_task_closure_alloc(e) ELSE NoClosure
<1>2. /\ c \in [alive : BOOLEAN, result : {"null", "full", "partial"}, cancelled : BOOLEAN,
                completed : BOOLEAN, locked : BOOLEAN, shared_waiter : BOOLEAN, param : Nat]
      /\ (c.alive <=> to = "start") /\ (to = "start" => c.param = e) /\ c.result = "null" /\ ~c.locked /\ ~c.shared_waiter
      /\ to = "task" => c = NoClosure
      /\ to = "start" => c = coex_task_closure_alloc(e)
  BY DEF NoClosure, coex_task_closure_alloc
<1>3. closure' = [closure EXCEPT ![t] = c]
  OBVIOUS
<1> HIDE DEF c
<1>4. /\ closure' \in [Threads -> [alive : BOOLEAN, result : {"null", "full", "partial"}, cancelled : BOOLEAN,
                                   completed : BOOLEAN, locked : BOOLEAN, shared_waiter : BOOLEAN, param : Nat]]
      /\ closure'[t] = c /\ \A u \in Threads \ {t} : closure'[u] = closure[u]
  BY <1>a, <1>2, <1>3
<1>5. ThreadsKnown'
  <2> SUFFICES ASSUME NEW u \in Threads PROVE ThreadKnown(u)'
    BY DEF ThreadsKnown
  <2>1. CASE u = t
    BY <1>1, <1>2, <1>4, <2>1 DEF ThreadKnown, Running, HasResult
  <2>2. CASE u # t
    <3>1. ThreadKnown(u)
      BY DEF IInv, ThreadsKnown
    <3> QED
      BY <1>1, <1>4, <2>2, <3>1 DEF ThreadKnown
  <2> QED
    BY <2>1, <2>2
<1>6. SpawnedInOrder'
  <2> SUFFICES ASSUME NEW v \in Threads, NEW u \in Threads, u < v, child'[v] # "none"
               PROVE  child'[u] # "none"
    BY DEF SpawnedInOrder
  <2>1. CASE v = t
    <3>1. u \in 1 .. t - 1
      BY <1>a, <2>1 DEF Threads
    <3> QED
      BY <1>1, <1>b, <2>1, <3>1
  <2>2. CASE v # t /\ u = t
    BY <1>1, <2>2
  <2>3. CASE v # t /\ u # t
    BY <1>1, <2>3 DEF IInv, SpawnedInOrder
  <2> QED
    BY <2>1, <2>2, <2>3
<1>7. ASSUME NEW s \in Seq(Threads), Listed(s)
      PROVE  Len(s) < t /\ \A k \in DOMAIN s : s[k] # t
  <2>1. \A k \in DOMAIN s : s[k] # t /\ s[k] \in Threads
    BY <1>7, <1>b DEF Listed
  <2>2. CASE s = <<>>
    BY <1>a, <2>1, <2>2 DEF Threads
  <2>3. CASE s # <<>>
    <3>1. Len(s) \in DOMAIN s /\ s[Len(s)] >= Len(s) /\ child[s[Len(s)]] # "none"
      BY <1>7, <2>3 DEF Listed
    <3>2. ~(t < s[Len(s)])
      BY <1>b, <2>1, <3>1 DEF IInv, SpawnedInOrder
    <3> QED
      BY <1>a, <2>1, <3>1, <3>2 DEF Threads
  <2> QED
    BY <2>1, <2>2, <2>3
<1>8. \A u \in Threads : Over(u) => Over(u)'
  BY <1>1, <1>4, <1>b DEF Over
<1> QED
  BY <1>1, <1>2, <1>4, <1>5, <1>6, <1>7, <1>8, <1>b DEF c

(* One more thread for the statement.                                      *)
LEMMA SpawnsMember ==
  ASSUME IInv, pc = "spawn", Len(group) < Statement.n, NEW t \in Threads, spawn_task(t, Len(group) + 1),
         group' = Append(group, t),
         UNCHANGED <<program, at, pc, i, out, nursery, tasks>>
  PROVE  IInv'
<1>a. /\ TypeOK /\ WaiterKnown /\ PlaceKnown /\ GroupKnown /\ OutKnown /\ ListsKnown
      /\ group \in Seq(Threads) /\ Statement' = Statement /\ Statement.n \in Nat
      /\ nursery \in Seq(Threads) /\ tasks \in Seq(Threads) /\ MaxThreads \in Nat
  BY TypesKnown DEF IInv, InsideKnown, Inside, PlaceKnown, Statement
<1>b. /\ Started(t) /\ child' = [child EXCEPT ![t] = "start"]
      /\ closure' = [closure EXCEPT ![t] = coex_task_closure_alloc(Len(group) + 1)]
      /\ UNCHANGED <<waiter, missed>>
  BY DEF spawn_task
<1>c. /\ child' \in [Threads -> Stages \cup {"task"}]
      /\ closure' \in [Threads -> [alive : BOOLEAN, result : {"null", "full", "partial"}, cancelled : BOOLEAN,
                                   completed : BOOLEAN, locked : BOOLEAN, shared_waiter : BOOLEAN, param : Nat]]
      /\ child[t] = "none" /\ child'[t] = "start" /\ closure'[t] = coex_task_closure_alloc(Len(group) + 1)
      /\ \A u \in Threads \ {t} : child'[u] = child[u] /\ closure'[u] = closure[u]
      /\ ThreadsKnown' /\ SpawnedInOrder'
      /\ \A s \in Seq(Threads) : Listed(s) => Len(s) < t /\ \A k \in DOMAIN s : s[k] # t
      /\ \A u \in Threads : Over(u) => Over(u)'
      /\ \A u \in Threads : closure'[u].shared_waiter => closure[u].shared_waiter
  <2>1. Len(group) + 1 \in Nat
    BY <1>a
  <2> QED
    BY <1>b, <2>1, Starts
<1>d. /\ group' \in Seq(Threads) /\ Len(group') = Len(group) + 1 /\ group'[Len(group) + 1] = t
      /\ \A k \in DOMAIN group : group'[k] = group[k] /\ group[k] \in Threads \ {t}
      /\ \A k \in DOMAIN group' : k \in DOMAIN group \/ k = Len(group) + 1
      /\ \A k \in DOMAIN group : k \in DOMAIN group'
      /\ Len(group) < t /\ t <= MaxThreads
  <2>1. Len(group) < t /\ \A k \in DOMAIN group : group[k] # t
    BY <1>a, <1>c DEF GroupKnown
  <2>2. t <= MaxThreads
    BY <1>a DEF Threads
  <2>3. group' = Append(group, t)
    OBVIOUS
  <2> QED
    BY <1>a, <2>1, <2>2, <2>3
<1>e. ~Frees /\ ~Frees'
  BY DEF Frees
<1>1. TypeOK'
  BY <1>a, <1>b, <1>c, <1>d DEF TypeOK
<1>2. ListsKnown'
  <2>1. /\ \A k \in DOMAIN nursery : nursery[k] \in Threads \ {t}
        /\ \A k \in DOMAIN tasks : tasks[k] \in Threads \ {t}
    BY <1>a, <1>c DEF ListsKnown
  <2>2. /\ \A k \in DOMAIN nursery : child'[nursery[k]] = child[nursery[k]]
        /\ \A k \in DOMAIN tasks : child'[tasks[k]] = child[tasks[k]] /\ closure'[tasks[k]] = closure[tasks[k]]
    BY <1>c, <2>1
  <2>3. nursery' = nursery /\ tasks' = tasks
    OBVIOUS
  <2>4. Listed(nursery) /\ Listed(tasks)
    BY <1>a DEF ListsKnown
  <2>5. Listed(nursery)'
    BY <2>2, <2>3, <2>4 DEF Listed
  <2>6. Listed(tasks)'
    BY <2>2, <2>3, <2>4 DEF Listed
  <2> QED
    BY <1>a, <2>2, <2>3, <2>5, <2>6 DEF ListsKnown
<1>n. NurseryKnown'
  <2>1. \A k \in DOMAIN nursery : nursery[k] \in Threads \ {t}
    BY <1>a, <1>c DEF ListsKnown
  <2>2. NurseryKnown /\ pc' = pc /\ pc \in Inside /\ nursery' = nursery
    BY DEF IInv, Inside
  <2>3. \A k \in DOMAIN nursery : closure'[nursery[k]].alive
    BY <1>c, <2>1, <2>2 DEF NurseryKnown
  <2>4. \A k \in DOMAIN nursery : \A j \in DOMAIN group' : nursery[k] # group'[j]
    BY <1>d, <2>1, <2>2 DEF NurseryKnown
  <2> QED
    BY <2>2, <2>3, <2>4 DEF NurseryKnown
<1>3. WaiterKnown'
  BY <1>a, <1>b, <1>c DEF WaiterKnown, Waits
<1>4. InsideKnown'
  <2>1. PlaceKnown'
    <3>1. Len(group') <= Statement.n /\ Len(group') <= MaxThreads /\ Len(group') \in Nat
      BY <1>a, <1>d DEF Threads
    <3>2. at' = at /\ program' = program /\ pc' = "spawn" /\ i' = i /\ i = 1
      BY <1>a DEF PlaceKnown
    <3> QED
      BY <1>a, <3>1, <3>2 DEF PlaceKnown, Waits
  <2>2. Listed(group)' /\ \A j, k \in DOMAIN group' : j # k => group'[j] # group'[k]
    <3>1. \A k \in DOMAIN group' : group'[k] >= k /\ child'[group'[k]] # "none"
      <4> SUFFICES ASSUME NEW k \in DOMAIN group' PROVE group'[k] >= k /\ child'[group'[k]] # "none"
        OBVIOUS
      <4>1. CASE k \in DOMAIN group
        <5>1. group'[k] = group[k] /\ child'[group[k]] = child[group[k]]
          BY <1>c, <1>d, <4>1
        <5>2. group[k] >= k /\ child[group[k]] # "none"
          BY <1>a, <4>1 DEF GroupKnown, Listed
        <5> QED
          BY <5>1, <5>2
      <4>2. CASE k = Len(group) + 1
        <5>1. t >= Len(group) + 1
          BY <1>a, <1>d DEF Threads
        <5> QED
          BY <1>c, <1>d, <4>2, <5>1
      <4> QED
        BY <1>d, <4>1, <4>2
    <3>2. \A j, k \in DOMAIN group' : j # k => group'[j] # group'[k]
      BY <1>a, <1>d DEF GroupKnown
    <3> QED
      BY <3>1, <3>2 DEF Listed
  <2>3. GroupKnown'
    <3> SUFFICES ASSUME NEW k \in DOMAIN group'
                 PROVE  /\ child'[group'[k]] \in Running \cup {"ended"}
                        /\ closure'[group'[k]].alive
                        /\ closure'[group'[k]].cancelled => Statement.op = "first" /\ k > 1
                        /\ closure'[group'[k]].param = k
      BY <1>a, <1>e, <2>2 DEF GroupKnown
    <3>1. CASE k \in DOMAIN group
      <4>1. group'[k] = group[k] /\ child'[group[k]] = child[group[k]] /\ closure'[group[k]] = closure[group[k]]
        BY <1>c, <1>d, <3>1
      <4>2. /\ child[group[k]] \in Running \cup {"ended"} /\ closure[group[k]].alive
            /\ closure[group[k]].cancelled => Statement.op = "first" /\ k > 1
            /\ closure[group[k]].param = k
        BY <1>a, <1>e, <3>1 DEF GroupKnown
      <4> QED
        BY <4>1, <4>2
    <3>2. CASE k = Len(group) + 1
      <4>1. group'[k] = t /\ child'[t] = "start" /\ closure'[t] = coex_task_closure_alloc(k)
        BY <1>c, <1>d, <3>2
      <4>2. /\ coex_task_closure_alloc(k).alive /\ ~coex_task_closure_alloc(k).cancelled
            /\ coex_task_closure_alloc(k).param = k
        BY DEF coex_task_closure_alloc, NoClosure
      <4> QED
        BY <4>1, <4>2 DEF Running
    <3> QED
      BY <1>d, <3>1, <3>2
  <2>4. OutKnown'
    BY <1>a, <1>e DEF OutKnown, Read
  <2> QED
    BY <2>1, <2>3, <2>4 DEF InsideKnown
<1>5. EpilogueKnown' /\ ScopeJoined' /\ ResultsInOrder'
  BY DEF EpilogueKnown, ScopeJoined, ResultsInOrder
<1>6. Accounted'
  <2>1. \A u \in Threads : Awaited(u) => Awaited(u)'
    BY <1>d DEF Awaited
  <2>2. Awaited(t)'
    <3>1. pc' \in Inside /\ Len(group) + 1 \in DOMAIN group' /\ group'[Len(group) + 1] = t
      BY <1>d DEF Inside
    <3> QED
      BY <3>1 DEF Awaited
  <2>3. has_active_nursery(program, at)' <=> has_active_nursery(program, at)
    BY DEF has_active_nursery
  <2> QED
    BY <1>c, <2>1, <2>2, <2>3 DEF IInv, Accounted
<1> QED
  BY <1>1, <1>2, <1>3, <1>4, <1>5, <1>6, <1>c, <1>n DEF IInv
-----------------------------------------------------------------------------
(* Between statements *)

(* What the steps outside the statements keep that neither start a thread  *)
(* nor free a closure: everything that does not speak of places.           *)
LEMMA OutsideKept ==
  ASSUME IInv, UNCHANGED <<program, nursery, tasks, child, closure, waiter>>
  PROVE  /\ ThreadsKnown' /\ SpawnedInOrder' /\ ListsKnown'
         /\ \A u \in Threads : Over(u)' <=> Over(u)
<1>1. ThreadsKnown'
  <2>1. \A u \in Threads : ThreadKnown(u)' <=> ThreadKnown(u)
    BY DEF ThreadKnown
  <2> QED
    BY <2>1 DEF IInv, ThreadsKnown
<1>2. SpawnedInOrder'
  BY DEF IInv, SpawnedInOrder
<1>3. ListsKnown'
  BY DEF IInv, ListsKnown, Listed
<1> QED
  BY <1>1, <1>2, <1>3 DEF Over

(* A statement ends when its threads are over: it has its results.         *)
LEMMA StatementEnds ==
  ASSUME IInv, pc \in {"spawn", "join", "collect"}, \A k \in DOMAIN group : Over(group[k]),
         Len(out) = IF Statement.op = "first" /\ Statement.n > 0 THEN 1 ELSE Statement.n,
         EndGroup
  PROVE  IInv'
<1>a. /\ TypeOK /\ WaiterKnown /\ PlaceKnown /\ OutKnown /\ at \in Nat \ {0} /\ Len(program) \in Nat
      /\ at <= Len(program) /\ program[at] = Statement /\ MaxThreads \in Nat
      /\ pc \notin Waits /\ pc \in Inside
  BY TypesKnown DEF IInv, InsideKnown, Inside, PlaceKnown, Waits
<1>b. /\ UNCHANGED <<program, group, out, nursery, tasks, child, closure, waiter, missed>>
      /\ at' = at + 1 /\ pc' = "next" /\ i' = 1
  BY DEF EndGroup, Leave, Goto
<1>c. /\ ThreadsKnown' /\ SpawnedInOrder' /\ ListsKnown'
      /\ \A u \in Threads : Over(u)' <=> Over(u)
  BY <1>b, OutsideKept
<1>1. TypeOK'
  <2>1. at' \in 1 .. Len(program) + 1 /\ i' \in 1 .. MaxThreads + 1
    BY <1>a, <1>b
  <2> QED
    BY <1>a, <1>b, <2>1 DEF TypeOK
<1>2. WaiterKnown'
  BY <1>a, <1>b DEF WaiterKnown, Waits
<1>n. NurseryKnown'
  BY <1>a, <1>b DEF IInv, NurseryKnown, Inside, Waits
<1>3. InsideKnown' /\ EpilogueKnown' /\ ScopeJoined'
  BY <1>b DEF InsideKnown, EpilogueKnown, ScopeJoined, Inside, Waits
<1>4. Accounted'
  <2>1. ASSUME has_active_nursery(program, at)'
        PROVE  has_active_nursery(program, at)
    BY <1>a, <1>b, <2>1 DEF has_active_nursery
  <2>2. pc # "overrun"
    BY <1>a DEF Inside, Waits
  <2>3. ASSUME NEW u \in Threads, has_active_nursery(program, at)', child[u] # "none", ~Awaited(u)'
        PROVE  Over(u)
    <3>1. CASE Awaited(u)
      <4>1. PICK k \in DOMAIN group : group[k] = u
        BY <1>b, <2>3, <3>1 DEF Awaited
      <4> QED
        BY <4>1
    <3>2. CASE ~Awaited(u)
      BY <2>1, <2>2, <2>3, <3>2 DEF IInv, Accounted
    <3> QED
      BY <3>1, <3>2
  <2> QED
    BY <1>b, <1>c, <2>3 DEF Accounted
<1>5. ResultsInOrder'
  <2>1. program'[at' - 1] = Statement /\ group' = group /\ out' = out /\ closure' = closure
    BY <1>a, <1>b
  <2> QED
    BY <1>a, <2>1 DEF ResultsInOrder, OutKnown, Over
<1> QED
  BY <1>1, <1>2, <1>3, <1>4, <1>5, <1>c, <1>n DEF IInv

(* A statement begins with no threads and no results.                      *)
LEMMA StatementBegins ==
  ASSUME IInv, BeginGroup
  PROVE  IInv'
<1>a. /\ TypeOK /\ WaiterKnown /\ at \in Nat \ {0} /\ MaxThreads \in Nat /\ pc = "next"
      /\ at <= Len(program) /\ Statement.op \in Groups \cup {"call"} /\ Statement.n \in Nat
  <2>1. TypeOK /\ WaiterKnown /\ pc = "next" /\ at <= Len(program) /\ Statement.op \in Groups \cup {"call"}
    BY DEF IInv, BeginGroup, Runs
  <2> QED
    BY <2>1, TypesKnown
<1>b. /\ UNCHANGED <<program, at, nursery, tasks, child, closure, waiter, missed>>
      /\ pc' = "spawn" /\ i' = 1 /\ group' = <<>> /\ out' = <<>> /\ Statement' = Statement
  BY DEF BeginGroup, Goto, Statement
<1>c. /\ ThreadsKnown' /\ SpawnedInOrder' /\ ListsKnown'
      /\ \A u \in Threads : Over(u)' <=> Over(u)
  BY <1>b, OutsideKept
<1>1. TypeOK'
  <2>1. i' \in 1 .. MaxThreads + 1 /\ group' \in Seq(Threads)
        /\ out' \in Seq(Results)
    BY <1>a, <1>b
  <2> QED
    BY <1>a, <1>b, <2>1 DEF TypeOK
<1>2. WaiterKnown'
  BY <1>a, <1>b DEF WaiterKnown, Waits
<1>n. NurseryKnown'
  BY <1>a, <1>b DEF IInv, NurseryKnown
<1>3. InsideKnown'
  <2>1. PlaceKnown'
    BY <1>a, <1>b DEF PlaceKnown, Waits
  <2>2. GroupKnown'
    BY <1>b DEF GroupKnown, Listed
  <2>3. OutKnown'
    BY <1>b DEF OutKnown, Read, Frees
  <2> QED
    BY <2>1, <2>2, <2>3 DEF InsideKnown
<1>4. EpilogueKnown' /\ ScopeJoined' /\ ResultsInOrder'
  BY <1>b DEF EpilogueKnown, ScopeJoined, ResultsInOrder
<1>5. Accounted'
  <2>1. \A u \in Threads : Awaited(u) => Awaited(u)'
    BY <1>a, <1>b DEF Awaited, Inside, Waits
  <2>2. has_active_nursery(program, at)' <=> has_active_nursery(program, at)
    BY <1>b DEF has_active_nursery
  <2> QED
    BY <1>a, <1>b, <1>c, <2>1, <2>2 DEF IInv, Accounted
<1> QED
  BY <1>1, <1>2, <1>3, <1>4, <1>5, <1>c, <1>n DEF IInv
(* A list of the epilogue gets the thread, or the array it is in is full.  *)
LEMMA ListGrows ==
  ASSUME TypeOK, NEW s \in Seq(Threads), Listed(s), NEW t \in Threads, Len(s) < t,
         child'[t] # "none", \A u \in Threads : child[u] # "none" => child'[u] # "none"
  PROVE  /\ Append(s, t) \in Seq(Threads) /\ Len(Append(s, t)) <= MaxThreads
         /\ \A k \in DOMAIN Append(s, t) : Append(s, t)[k] >= k /\ child'[Append(s, t)[k]] # "none"
         /\ \A k \in DOMAIN Append(s, t) : (k \in DOMAIN s /\ Append(s, t)[k] = s[k]) \/ Append(s, t)[k] = t
         /\ \A k \in DOMAIN s : k \in DOMAIN Append(s, t) /\ Append(s, t)[k] = s[k]
         /\ \E k \in DOMAIN Append(s, t) : Append(s, t)[k] = t
<1> DEFINE a == Append(s, t)
<1>1. /\ a \in Seq(Threads) /\ Len(a) = Len(s) + 1 /\ a[Len(s) + 1] = t /\ Len(s) \in Nat
      /\ \A k \in DOMAIN s : a[k] = s[k] /\ s[k] \in Threads
      /\ \A k \in DOMAIN a : k \in DOMAIN s \/ k = Len(s) + 1
      /\ \A k \in DOMAIN s : k \in DOMAIN a
  OBVIOUS
<1>2. t \in 1 .. MaxThreads /\ t >= Len(s) + 1 /\ Len(s) + 1 <= MaxThreads
  BY <1>1, SizesAssumption DEF Threads
<1>3. ASSUME NEW k \in DOMAIN a PROVE a[k] >= k /\ child'[a[k]] # "none"
  <2>1. CASE k \in DOMAIN s
    BY <1>1, <2>1 DEF Listed
  <2>2. CASE k = Len(s) + 1
    BY <1>1, <1>2, <2>2
  <2> QED
    BY <1>1, <1>3, <2>1, <2>2
<1>4. Len(s) + 1 \in DOMAIN a
  BY <1>1
<1> HIDE DEF a
<1>5. \A k \in DOMAIN a : (k \in DOMAIN s /\ a[k] = s[k]) \/ a[k] = t
  BY <1>1
<1>6. /\ a \in Seq(Threads) /\ Len(a) <= MaxThreads
      /\ \A k \in DOMAIN a : a[k] >= k /\ child'[a[k]] # "none"
      /\ \A k \in DOMAIN a : (k \in DOMAIN s /\ a[k] = s[k]) \/ a[k] = t
      /\ \A k \in DOMAIN s : k \in DOMAIN a /\ a[k] = s[k]
      /\ \E k \in DOMAIN a : a[k] = t
  BY <1>1, <1>2, <1>3, <1>4, <1>5
<1> QED
  BY <1>6 DEF a

(* Thread t is started for element e, or a task in its place.              *)
Starting(t, to, e) ==
  /\ Started(t) /\ child' = [child EXCEPT ![t] = to]
  /\ closure' = [closure EXCEPT ![t] = IF to = "start" THEN coex_task_closure_alloc(e) ELSE NoClosure]

(* The epilogue's lists lose nobody, and get t if there is an epilogue.    *)
ListsGetting(t) ==
  /\ \A u \in Threads : (\E k \in DOMAIN nursery : nursery[k] = u) => \E k \in DOMAIN nursery' : nursery'[k] = u
  /\ \A u \in Threads : (\E k \in DOMAIN tasks : tasks[k] = u) => \E k \in DOMAIN tasks' : tasks'[k] = u
  /\ pc' = "next" /\ has_active_nursery(program, at) =>
       (\E k \in DOMAIN nursery' : nursery'[k] = t) \/ \E k \in DOMAIN tasks' : tasks'[k] = t

(* On to the next statement, unless the array was full.                    *)
GoesOn == at' = at + 1 /\ pc' = "next"
Overruns == at' = at /\ pc' = "overrun"

(* What remains to be shown of a bare call.                                *)
LEMMA BareCalls ==
  ASSUME IInv, pc = "next", NEW t \in Threads, NEW to \in {"start", "task"}, NEW e \in Nat,
         at <= Len(program), Statement.op \in {"bare", "task"}, Starting(t, to, e),
         UNCHANGED <<program, group, out, waiter, missed>>, i' = 1,
         GoesOn \/ Overruns,
         nursery' \in Seq(Threads), tasks' \in Seq(Threads), ListsKnown', NurseryKnown', ListsGetting(t)
  PROVE  IInv'
<1>a. /\ TypeOK /\ WaiterKnown /\ at \in Nat \ {0} /\ Len(program) \in Nat /\ MaxThreads \in Nat
      /\ program[at] = Statement
  BY TypesKnown DEF IInv
<1>b. /\ child' \in [Threads -> Stages \cup {"task"}]
      /\ closure' \in [Threads -> [alive : BOOLEAN, result : {"null", "full", "partial"}, cancelled : BOOLEAN,
                                   completed : BOOLEAN, locked : BOOLEAN, shared_waiter : BOOLEAN, param : Nat]]
      /\ \A u \in Threads \ {t} : child'[u] = child[u] /\ closure'[u] = closure[u]
      /\ ThreadsKnown' /\ SpawnedInOrder'
      /\ \A u \in Threads : Over(u) => Over(u)'
      /\ \A u \in Threads : closure'[u].shared_waiter => closure[u].shared_waiter
  BY Starts DEF Starting
<1>c. pc' \notin Inside /\ pc \notin Inside
  BY DEF Inside, Waits, GoesOn, Overruns
<1>1. TypeOK'
  <2>1. at' \in 1 .. Len(program) + 1 /\ i' \in 1 .. MaxThreads + 1
    BY <1>a DEF GoesOn, Overruns
  <2>2. pc' \in {"next", "overrun"}
    BY DEF GoesOn, Overruns
  <2> QED
    BY <1>a, <1>b, <2>1, <2>2 DEF TypeOK
<1>2. WaiterKnown'
  BY <1>a, <1>b DEF WaiterKnown, Waits, GoesOn, Overruns
<1>3. InsideKnown' /\ EpilogueKnown' /\ ScopeJoined'
  BY <1>c DEF GoesOn, Overruns, InsideKnown, EpilogueKnown, ScopeJoined
<1>4. ResultsInOrder'
  <2>1. CASE pc' = "next"
    <3>1. program'[at' - 1] = Statement
      BY <1>a, <2>1 DEF GoesOn, Overruns
    <3> QED
      BY <3>1 DEF ResultsInOrder, Groups
  <2>2. CASE pc' # "next"
    BY <2>2 DEF ResultsInOrder
  <2> QED
    BY <2>1, <2>2
<1>5. Accounted'
  <2>1. ASSUME has_active_nursery(program, at)'
        PROVE  has_active_nursery(program, at)
    BY <1>a, <2>1 DEF has_active_nursery, GoesOn, Overruns
  <2>2. \A u \in Threads : Awaited(u) => Awaited(u)'
    BY <1>c DEF Awaited, ListsGetting
  <2>3. pc' = "next" /\ has_active_nursery(program, at) => Awaited(t)'
    BY DEF Awaited, ListsGetting
  <2>4. ASSUME NEW u \in Threads, has_active_nursery(program, at)', pc' = "next", child'[u] # "none", ~Awaited(u)'
        PROVE  Over(u)'
    <3>1. u # t
      BY <2>1, <2>3, <2>4
    <3>2. child[u] # "none" /\ ~Awaited(u)
      BY <1>b, <2>2, <2>4, <3>1
    <3> QED
      BY <1>b, <2>1, <2>4, <3>2 DEF IInv, Accounted
  <2> QED
    BY <2>4 DEF Accounted, GoesOn, Overruns
<1> QED
  BY <1>1, <1>2, <1>3, <1>4, <1>5, <1>b DEF IInv

(* A bare call of a thread or of a task keeps the invariant.               *)
LEMMA BareSteps ==
  ASSUME IInv, fire_and_forget_thread \/ fire_and_forget_task
  PROVE  IInv'
<1>a. TypeOK /\ ListsKnown /\ nursery \in Seq(Threads) /\ tasks \in Seq(Threads)
  BY TypesKnown DEF IInv
<1>b. pc = "next" /\ NurseryKnown /\ \A k \in DOMAIN nursery : closure[nursery[k]].alive
  BY DEF IInv, NurseryKnown, fire_and_forget_thread, fire_and_forget_task
<1>1. CASE fire_and_forget_thread
  <2>1. PICK t \in Threads : spawn_task(t, 1) /\ add_to_nursery(t)
    BY <1>1 DEF fire_and_forget_thread
  <2>2. /\ pc = "next" /\ at <= Len(program) /\ Statement.op = "bare"
        /\ UNCHANGED <<program, group, out, tasks, waiter, missed>>
        /\ Started(t) /\ child' = [child EXCEPT ![t] = "start"]
        /\ closure' = [closure EXCEPT ![t] = coex_task_closure_alloc(1)]
        /\ Starting(t, "start", 1)
    BY <1>1, <2>1 DEF Starting, fire_and_forget_thread, Runs, spawn_task
  <2>3. /\ child[t] = "none" /\ child'[t] = "start"
        /\ \A u \in Threads \ {t} : child'[u] = child[u] /\ closure'[u] = closure[u]
        /\ \A s \in Seq(Threads) : Listed(s) => Len(s) < t /\ \A k \in DOMAIN s : s[k] # t
        /\ closure'[t].alive
    <3>1. 1 \in Nat
      OBVIOUS
    <3> QED
      BY <2>2, <3>1, Starts
  <2>4. /\ \A u \in Threads : child[u] # "none" => child'[u] # "none"
        /\ Len(nursery) < t
        /\ \A k \in DOMAIN nursery : nursery[k] \in Threads \ {t}
        /\ \A k \in DOMAIN tasks : tasks[k] \in Threads \ {t}
    BY <1>a, <2>3 DEF ListsKnown
  <2>5. /\ \A k \in DOMAIN nursery : nursery[k] >= k /\ child'[nursery[k]] # "none"
        /\ \A k \in DOMAIN tasks : /\ tasks[k] >= k /\ child'[tasks[k]] # "none"
                                   /\ child'[tasks[k]] \in {"task", "ended"} /\ ~closure'[tasks[k]].alive
        /\ Len(nursery) <= MaxThreads /\ Len(tasks) <= MaxThreads
    BY <1>a, <2>3, <2>4 DEF ListsKnown, Listed
  <2>6. CASE Len(nursery) < Slots
    <3>1. nursery' = Append(nursery, t) /\ GoesOn /\ i' = 1
      BY <2>1, <2>6 DEF GoesOn, add_to_nursery, Leave, Goto
    <3>2. /\ nursery' \in Seq(Threads) /\ Len(nursery') <= MaxThreads
          /\ \A k \in DOMAIN nursery' : nursery'[k] >= k /\ child'[nursery'[k]] # "none"
          /\ \A k \in DOMAIN nursery : k \in DOMAIN nursery' /\ nursery'[k] = nursery[k]
          /\ \E k \in DOMAIN nursery' : nursery'[k] = t
      BY <1>a, <2>3, <2>4, <3>1, ListGrows DEF ListsKnown
    <3>3. ListsKnown'
      BY <2>2, <2>5, <3>2 DEF ListsKnown, Listed
    <3>6. NurseryKnown'
      <4>1. pc' = "next"
        BY <3>1 DEF GoesOn
      <4>2. \A k \in DOMAIN nursery' : (k \in DOMAIN nursery /\ nursery'[k] = nursery[k]) \/ k = Len(nursery) + 1
        BY <1>a, <3>1
      <4>3. nursery'[Len(nursery) + 1] = t
        BY <1>a, <3>1
      <4>4. \A k \in DOMAIN nursery : closure'[nursery[k]].alive
        BY <1>b, <2>3, <2>4
      <4>5. \A j, k \in DOMAIN nursery' : j # k => nursery'[j] # nursery'[k]
        BY <1>b, <2>4, <4>2, <4>3 DEF NurseryKnown
      <4>6. \A k \in DOMAIN nursery' : closure'[nursery'[k]].alive
        BY <2>3, <4>2, <4>3, <4>4
      <4> QED
        BY <4>1, <4>5, <4>6 DEF NurseryKnown, Inside, Waits
    <3>4. tasks' \in Seq(Threads) /\ tasks' = tasks
      BY <1>a, <2>2
    <3>5. ListsGetting(t)
      BY <3>2, <3>4 DEF ListsGetting
    <3> QED
      BY <2>2, <3>1, <3>2, <3>3, <3>4, <3>5, <3>6, BareCalls
  <2>7. CASE ~(Len(nursery) < Slots)
    <3>1. nursery' = nursery /\ Overruns /\ i' = 1
      BY <2>1, <2>7 DEF Overruns, add_to_nursery, Goto
    <3>2. ListsKnown' /\ nursery' \in Seq(Threads) /\ tasks' \in Seq(Threads)
      BY <1>a, <2>2, <2>5, <3>1 DEF ListsKnown, Listed
    <3>3. ListsGetting(t)
      BY <2>2, <3>1 DEF ListsGetting, Overruns
    <3>4. NurseryKnown'
      BY <1>b, <3>1 DEF NurseryKnown, Overruns, Inside, Waits
    <3> QED
      BY <2>2, <3>1, <3>2, <3>3, <3>4, BareCalls
  <2> QED
    BY <2>6, <2>7
<1>2. CASE fire_and_forget_task
  <2>1. PICK t \in Threads : Started(t) /\ child' = [child EXCEPT ![t] = "task"] /\ add_to_task_nursery(t)
    BY <1>2 DEF fire_and_forget_task
  <2>2. /\ pc = "next" /\ at <= Len(program) /\ Statement.op = "task"
        /\ UNCHANGED <<program, group, out, nursery, closure, waiter, missed>>
        /\ closure[t] = NoClosure
        /\ closure' = [closure EXCEPT ![t] = NoClosure]
    <3>1. closure[t] = NoClosure
      BY <2>1 DEF IInv, ThreadsKnown, ThreadKnown, Started
    <3>2. closure = [closure EXCEPT ![t] = closure[t]]
      BY <1>a DEF TypeOK
    <3> QED
      BY <1>2, <3>1, <3>2 DEF fire_and_forget_task, Runs
  <2>3. /\ child[t] = "none" /\ child'[t] = "task"
        /\ \A u \in Threads \ {t} : child'[u] = child[u] /\ closure'[u] = closure[u]
        /\ \A s \in Seq(Threads) : Listed(s) => Len(s) < t /\ \A k \in DOMAIN s : s[k] # t
    <3>1. 1 \in Nat
      OBVIOUS
    <3> QED
      BY <2>1, <2>2, <3>1, Starts
  <2>4. /\ \A u \in Threads : child[u] # "none" => child'[u] # "none"
        /\ Len(tasks) < t
        /\ \A k \in DOMAIN nursery : nursery[k] \in Threads \ {t}
        /\ \A k \in DOMAIN tasks : tasks[k] \in Threads \ {t}
        /\ ~closure'[t].alive
    BY <1>a, <2>2, <2>3 DEF ListsKnown, NoClosure
  <2>5. /\ \A k \in DOMAIN nursery : nursery[k] >= k /\ child'[nursery[k]] # "none"
        /\ \A k \in DOMAIN tasks : /\ tasks[k] >= k /\ child'[tasks[k]] # "none"
                                   /\ child'[tasks[k]] \in {"task", "ended"} /\ ~closure'[tasks[k]].alive
        /\ Len(nursery) <= MaxThreads /\ Len(tasks) <= MaxThreads
    BY <1>a, <2>3, <2>4 DEF ListsKnown, Listed
  <2>8. Starting(t, "task", 1)
    BY <2>1, <2>2 DEF Starting
  <2>9. NurseryKnown'
    <3>1. pc' \in {"next", "overrun"} /\ nursery' = nursery
      BY <2>1, <2>2, <1>b DEF add_to_task_nursery, Leave, Goto
    <3>2. \A k \in DOMAIN nursery : closure'[nursery[k]].alive
      BY <1>b, <2>2
    <3> QED
      BY <1>b, <3>1, <3>2 DEF NurseryKnown, Inside, Waits
  <2>6. CASE has_active_nursery(program, at) /\ Len(tasks) < Slots
    <3>1. tasks' = Append(tasks, t) /\ GoesOn /\ i' = 1
      BY <2>1, <2>6 DEF GoesOn, add_to_task_nursery, Leave, Goto
    <3>2. /\ tasks' \in Seq(Threads) /\ Len(tasks') <= MaxThreads
          /\ \A k \in DOMAIN tasks' : tasks'[k] >= k /\ child'[tasks'[k]] # "none"
          /\ \A k \in DOMAIN tasks' : (k \in DOMAIN tasks /\ tasks'[k] = tasks[k]) \/ tasks'[k] = t
          /\ \A k \in DOMAIN tasks : k \in DOMAIN tasks' /\ tasks'[k] = tasks[k]
          /\ \E k \in DOMAIN tasks' : tasks'[k] = t
      BY <1>a, <2>3, <2>4, <3>1, ListGrows DEF ListsKnown
    <3>3. \A k \in DOMAIN tasks' : child'[tasks'[k]] \in {"task", "ended"} /\ ~closure'[tasks'[k]].alive
      BY <2>3, <2>4, <2>5, <3>2
    <3>4. ListsKnown'
      BY <2>2, <2>5, <3>2, <3>3 DEF ListsKnown, Listed
    <3>5. nursery' \in Seq(Threads) /\ nursery' = nursery
      BY <1>a, <2>2
    <3>6. ListsGetting(t)
      BY <3>2, <3>5 DEF ListsGetting
    <3> QED
      BY <2>2, <2>8, <2>9, <3>1, <3>2, <3>4, <3>5, <3>6, BareCalls
  <2>7. CASE ~has_active_nursery(program, at) \/ ~(Len(tasks) < Slots)
    <3>1. /\ tasks' = tasks /\ i' = 1
          /\ GoesOn \/ Overruns
          /\ pc' = "next" => ~has_active_nursery(program, at)
      BY <2>1, <2>7 DEF GoesOn, Overruns, add_to_task_nursery, Goto, Leave
    <3>2. ListsKnown' /\ nursery' \in Seq(Threads) /\ tasks' \in Seq(Threads)
      BY <1>a, <2>2, <2>5, <3>1 DEF ListsKnown, Listed
    <3>3. ListsGetting(t)
      BY <2>2, <3>1 DEF ListsGetting
    <3> QED
      BY <2>2, <2>8, <2>9, <3>1, <3>2, <3>3, BareCalls
  <2> QED
    BY <2>6, <2>7
<1> QED
  BY <1>1, <1>2
-----------------------------------------------------------------------------
(* The returns and the epilogue *)

(* A step that only moves outside the statements.                          *)
LEMMA OutsideGoes ==
  ASSUME IInv, UNCHANGED <<program, group, out, nursery, tasks, child, closure, waiter, missed>>,
         pc \in {"next", "epilogue", "taskEpilogue"}, pc' \in {"next", "epilogue", "taskEpilogue", "left"},
         at' \in {at, at + 1}, at' <= Len(program) + 1, i' \in Nat \ {0}, i' <= MaxThreads + 1,
         EpilogueKnown', ScopeJoined', pc' \in {"next", "epilogue"} => pc = "next",
         pc' = "next" => at' = at + 1 /\ Statement.op = "return"
  PROVE  IInv'
<1>a. /\ TypeOK /\ WaiterKnown /\ at \in Nat \ {0} /\ Len(program) \in Nat /\ MaxThreads \in Nat
  BY TypesKnown DEF IInv
<1>b. /\ ThreadsKnown' /\ SpawnedInOrder' /\ ListsKnown'
      /\ \A u \in Threads : Over(u)' <=> Over(u)
  BY OutsideKept
<1>c. pc \notin Inside /\ pc' \notin Inside
  BY DEF Inside, Waits
<1>1. TypeOK'
  <2>1. at' \in 1 .. Len(program) + 1 /\ i' \in 1 .. MaxThreads + 1
    BY <1>a
  <2> QED
    BY <1>a, <2>1 DEF TypeOK
<1>2. WaiterKnown'
  BY <1>a DEF WaiterKnown, Waits
<1>n. NurseryKnown'
  <2>1. NurseryKnown /\ nursery' = nursery /\ closure' = closure
    BY DEF IInv
  <2> QED
    BY <1>c, <2>1 DEF NurseryKnown
<1>3. InsideKnown'
  BY <1>c DEF InsideKnown
<1>4. ResultsInOrder'
  <2>1. CASE pc' = "next"
    <3>1. program'[at' - 1] = Statement
      BY <1>a, <2>1 DEF Statement
    <3> QED
      BY <2>1, <3>1 DEF ResultsInOrder, Groups
  <2>2. CASE pc' # "next"
    BY <2>2 DEF ResultsInOrder
  <2> QED
    BY <2>1, <2>2
<1>5. Accounted'
  <2>1. ASSUME has_active_nursery(program, at)'
        PROVE  has_active_nursery(program, at)
    <3>0. at' = at \/ at' = at + 1
      OBVIOUS
    <3>1. \A j \in 1 .. at - 1 : j \in 1 .. at' - 1
      <4>1. CASE at' = at
        BY <4>1
      <4>2. CASE at' = at + 1
        <5>1. at + 1 - 1 = at /\ \A j \in 1 .. at - 1 : j \in 1 .. at
          BY <1>a
        <5> QED
          BY <4>2, <5>1
      <4> QED
        BY <3>0, <4>1, <4>2
    <3>2. \A j \in 1 .. at' - 1 : program[j].op # "return"
      BY <2>1 DEF has_active_nursery
    <3> QED
      BY <3>1, <3>2 DEF has_active_nursery
  <2>2. \A u \in Threads : Awaited(u) => Awaited(u)'
    BY <1>c DEF Awaited
  <2>3. pc # "overrun"
    OBVIOUS
  <2> QED
    BY <1>b, <2>1, <2>2, <2>3 DEF IInv, Accounted
<1> QED
  BY <1>1, <1>2, <1>3, <1>4, <1>5, <1>b, <1>n DEF IInv

(* A return leads to the epilogue as long as there is a nursery.           *)
LEMMA ReturnSteps ==
  ASSUME IInv, generate_return \/ implicit_return
  PROVE  IInv'
<1>a. /\ at \in Nat \ {0} /\ Len(program) \in Nat /\ MaxThreads \in Nat /\ at <= Len(program) + 1
      /\ nursery \in Seq(Threads)
  <2>1. TypeOK /\ at <= Len(program) + 1
    BY DEF IInv, TypeOK
  <2> QED
    BY <2>1, TypesKnown
<1>b. /\ UNCHANGED <<program, group, out, nursery, tasks, child, closure, waiter, missed>>
      /\ pc = "next" /\ i' = 1
  BY DEF generate_return, implicit_return, Leave, Goto
<1>c. 1 <= MaxThreads + 1 /\ 1 \in Nat \ {0} /\ at' <= Len(program) + 1 /\ at' \in {at, at + 1}
  BY <1>a DEF generate_return, implicit_return, Leave, Runs
<1>1. CASE generate_return /\ Leave
  <2>1. pc' = "next" /\ at' = at + 1 /\ Statement.op = "return"
    BY <1>1 DEF generate_return, Leave, Goto, Runs
  <2>2. EpilogueKnown' /\ ScopeJoined'
    BY <2>1 DEF EpilogueKnown, ScopeJoined
  <2> QED
    BY <1>b, <1>c, <2>1, <2>2, OutsideGoes
<1>2. CASE at' = at /\ pc' = IF has_active_nursery(program, at) THEN "epilogue" ELSE "left"
  <2>1. has_active_nursery(program, at)' <=> has_active_nursery(program, at)
    BY <1>b, <1>2 DEF has_active_nursery
  <2>2. EpilogueKnown'
    <3>1. \A k \in DOMAIN nursery : ~(k < 1)
      BY <1>a
    <3>2. 1 <= Len(nursery) + 1
      BY <1>a
    <3> QED
      BY <1>b, <1>2, <2>1, <3>1, <3>2 DEF EpilogueKnown
  <2>3. ScopeJoined'
    BY <1>2, <2>1 DEF ScopeJoined
  <2>4. pc' \in {"epilogue", "left"}
    BY <1>2
  <2> QED
    BY <1>b, <1>c, <1>2, <2>2, <2>3, <2>4, OutsideGoes
<1> QED
  BY <1>1, <1>2 DEF generate_return, implicit_return, Goto

(* The epilogue's join of the threads frees their closures.                *)
LEMMA NurserySteps ==
  ASSUME IInv, join_nursery
  PROVE  IInv'
<1>a. /\ TypeOK /\ ThreadsKnown /\ WaiterKnown /\ ListsKnown /\ EpilogueKnown /\ pc = "epilogue"
      /\ i \in Nat \ {0} /\ MaxThreads \in Nat /\ nursery \in Seq(Threads) /\ tasks \in Seq(Threads)
      /\ UNCHANGED <<program, at, group, out, nursery, tasks, child, waiter, missed>>
      /\ at \in Nat \ {0} /\ Len(program) \in Nat
  BY TypesKnown DEF IInv, join_nursery
<1>b. has_active_nursery(program, at) /\ i <= Len(nursery) + 1
      /\ \A k \in DOMAIN nursery : k < i => Over(nursery[k])
  BY <1>a DEF EpilogueKnown
<1>1. CASE i > Len(nursery)
  <2>1. pc' = "taskEpilogue" /\ i' = 1 /\ closure' = closure
    BY <1>1 DEF join_nursery, Goto
  <2>2. EpilogueKnown'
    <3>1. \A k \in DOMAIN nursery : Over(nursery[k])'
      BY <1>a, <1>b, <1>1, <2>1 DEF Over
    <3>2. has_active_nursery(program, at)'
      BY <1>a, <1>b DEF has_active_nursery
    <3>3. 1 <= Len(tasks) + 1 /\ \A k \in DOMAIN tasks : ~(k < 1)
      BY <1>a
    <3> QED
      BY <1>a, <2>1, <3>1, <3>2, <3>3 DEF EpilogueKnown
  <2>3. ScopeJoined'
    BY <2>1 DEF ScopeJoined
  <2>4. at' <= Len(program) + 1 /\ 1 <= MaxThreads + 1
    BY <1>a DEF TypeOK
  <2> QED
    BY <1>a, <2>1, <2>2, <2>3, <2>4, OutsideGoes
<1>2. CASE i <= Len(nursery)
  <2> DEFINE t == nursery[i]
  <2>1. /\ child[t] = "ended" /\ closure' = [closure EXCEPT ![t].alive = FALSE]
        /\ pc' = pc /\ i' = i + 1
        /\ i \in DOMAIN nursery /\ t \in Threads
    BY <1>a, <1>2 DEF join_nursery, Advance, coex_task_closure_free
  <2>2. closure \in [Threads -> [alive : BOOLEAN, result : {"null", "full", "partial"}, cancelled : BOOLEAN,
                                 completed : BOOLEAN, locked : BOOLEAN, shared_waiter : BOOLEAN, param : Nat]]
    BY <1>a DEF TypeOK
  <2>3. /\ closure' \in [Threads -> [alive : BOOLEAN, result : {"null", "full", "partial"}, cancelled : BOOLEAN,
                                     completed : BOOLEAN, locked : BOOLEAN, shared_waiter : BOOLEAN, param : Nat]]
        /\ closure'[t] = [closure[t] EXCEPT !.alive = FALSE]
        /\ \A u \in Threads \ {t} : closure'[u] = closure[u]
    BY <2>1, <2>2
  <2>4. /\ ~closure'[t].alive /\ closure'[t].result = closure[t].result /\ closure'[t].locked = closure[t].locked
        /\ closure'[t].cancelled = closure[t].cancelled /\ closure'[t].shared_waiter = closure[t].shared_waiter
    BY <2>1, <2>2, <2>3
  <2>5. \A u \in Threads : Over(u) => Over(u)'
    BY <1>a, <2>3, <2>4 DEF Over
  <2>6. \A u \in Threads : closure'[u].alive => closure[u].alive
    BY <2>1, <2>3, <2>4
  <2> HIDE DEF t
  <2>7. TypeOK'
    <3>1. i' \in 1 .. MaxThreads + 1
      BY <1>a, <1>2, <2>1 DEF ListsKnown
    <3> QED
      BY <1>a, <2>1, <2>3, <3>1 DEF TypeOK
  <2>8. ThreadsKnown'
    <3> SUFFICES ASSUME NEW u \in Threads PROVE ThreadKnown(u)'
      BY DEF ThreadsKnown
    <3>1. ThreadKnown(u)
      BY <1>a DEF ThreadsKnown
    <3>2. CASE u = t
      BY <1>a, <2>1, <2>4, <3>1, <3>2 DEF ThreadKnown, Running, HasResult
    <3>3. CASE u # t
      BY <1>a, <2>3, <3>1, <3>3 DEF ThreadKnown
    <3> QED
      BY <3>2, <3>3
  <2>9. SpawnedInOrder' /\ InsideKnown' /\ ScopeJoined' /\ ResultsInOrder'
    BY <1>a, <2>1 DEF IInv, SpawnedInOrder, InsideKnown, ScopeJoined, ResultsInOrder, Inside, Waits
  <2>10. ListsKnown'
    BY <1>a, <2>6 DEF ListsKnown, Listed
  <2>15. NurseryKnown'
    <3>1. NurseryKnown /\ pc' = "epilogue" /\ nursery' = nursery
      BY <1>a, <2>1 DEF IInv
    <3>2. \A k \in DOMAIN nursery : k >= i + 1 => k >= i /\ k # i
      BY <1>a
    <3>3. \A k \in DOMAIN nursery : k # i => nursery[k] \in Threads \ {t}
      BY <1>a, <2>1, <3>1 DEF NurseryKnown, t
    <3>4. \A k \in DOMAIN nursery : k >= i + 1 => closure'[nursery[k]].alive
      BY <1>a, <2>3, <3>1, <3>2, <3>3 DEF NurseryKnown
    <3> QED
      BY <2>1, <3>1, <3>4 DEF NurseryKnown, Inside, Waits
  <2>11. WaiterKnown'
    <3>1. \A u \in Threads : closure'[u].shared_waiter = closure[u].shared_waiter
      BY <2>3, <2>4
    <3> QED
      BY <1>a, <2>1, <3>1 DEF WaiterKnown
  <2>12. has_active_nursery(program, at)' <=> has_active_nursery(program, at)
    BY <1>a DEF has_active_nursery
  <2>13. EpilogueKnown'
    <3>1. \A k \in DOMAIN nursery : k < i + 1 => k < i \/ k = i
      BY <1>a
    <3>2. child'[t] = "ended" /\ ~closure'[t].alive
      BY <1>a, <2>1, <2>4
    <3>3. \A k \in DOMAIN nursery : k < i + 1 => Over(nursery[k])'
      <4> SUFFICES ASSUME NEW k \in DOMAIN nursery, k < i + 1 PROVE Over(nursery[k])'
        OBVIOUS
      <4>1. CASE k = i
        BY <1>a, <3>2, <4>1 DEF Over, t
      <4>2. CASE k # i
        <5>1. Over(nursery[k]) /\ nursery[k] \in Threads
          BY <1>a, <1>b, <3>1, <4>2
        <5> QED
          BY <1>a, <2>5, <5>1 DEF Over
      <4> QED
        BY <4>1, <4>2
    <3>4. i + 1 <= Len(nursery) + 1
      BY <1>a, <1>2
    <3> QED
      BY <1>a, <1>b, <2>1, <2>12, <3>3, <3>4 DEF EpilogueKnown
  <2>14. Accounted'
    <3>1. \A u \in Threads : Awaited(u)' <=> Awaited(u)
      BY <1>a, <2>1 DEF Awaited
    <3> QED
      BY <1>a, <2>1, <2>5, <2>12, <3>1 DEF IInv, Accounted
  <2> QED
    BY <2>7, <2>8, <2>9, <2>10, <2>11, <2>13, <2>14, <2>15 DEF IInv
<1> QED
  BY <1>a, <1>1, <1>2

(* The epilogue's join of the tasks; behind it everything is over.         *)
LEMMA TaskNurserySteps ==
  ASSUME IInv, join_task_nursery
  PROVE  IInv'
<1>a. /\ TypeOK /\ ListsKnown /\ EpilogueKnown /\ pc = "taskEpilogue"
      /\ i \in Nat \ {0} /\ MaxThreads \in Nat /\ nursery \in Seq(Threads) /\ tasks \in Seq(Threads)
      /\ UNCHANGED <<program, at, group, out, nursery, tasks, child, closure, waiter, missed>>
      /\ at \in Nat \ {0} /\ Len(program) \in Nat /\ at' <= Len(program) + 1
  <2>1. TypeOK /\ at <= Len(program) + 1
    BY DEF IInv, TypeOK
  <2> QED
    BY <2>1, TypesKnown DEF IInv, join_task_nursery
<1>b. has_active_nursery(program, at) /\ (\A k \in DOMAIN nursery : Over(nursery[k]))
      /\ (\A k \in DOMAIN tasks : k < i => Over(tasks[k]))
  BY <1>a DEF EpilogueKnown
<1>c. has_active_nursery(program, at)' /\ \A u \in Threads : Over(u)' <=> Over(u)
  BY <1>a, <1>b DEF has_active_nursery, Over
<1>d. /\ \A k \in DOMAIN nursery : nursery[k] \in Threads
      /\ \A k \in DOMAIN tasks : tasks[k] \in Threads
  BY <1>a
<1>1. CASE i > Len(tasks)
  <2>1. pc' = "left" /\ i' = 1
    BY <1>1 DEF join_task_nursery, Goto
  <2>2. \A k \in DOMAIN tasks : Over(tasks[k])
    BY <1>a, <1>b, <1>1
  <2>3. \A u \in Threads : Awaited(u) => Over(u)
    BY <1>a, <1>b, <2>2 DEF Awaited, Inside, Waits
  <2>4. \A u \in Threads : child[u] # "none" => Over(u)
    BY <1>a, <1>b, <2>3 DEF IInv, Accounted
  <2>5. ScopeJoined'
    BY <1>a, <2>4 DEF ScopeJoined, Spawned, Over
  <2>6. EpilogueKnown'
    BY <2>1 DEF EpilogueKnown
  <2>7. 1 <= MaxThreads + 1
    BY <1>a
  <2> QED
    BY <1>a, <2>1, <2>5, <2>6, <2>7, OutsideGoes
<1>2. CASE i <= Len(tasks)
  <2>1. pc' = pc /\ i' = i + 1 /\ child[tasks[i]] = "ended"
    BY <1>a, <1>2 DEF join_task_nursery, Advance
  <2>2. i \in DOMAIN tasks /\ Over(tasks[i])
    BY <1>a, <1>2, <2>1 DEF ListsKnown, Over
  <2>3. \A k \in DOMAIN tasks : k < i + 1 => Over(tasks[k])
    BY <1>a, <1>b, <2>2
  <2>4. i + 1 <= Len(tasks) + 1 /\ i + 1 <= MaxThreads + 1 /\ i + 1 \in Nat \ {0}
    BY <1>a, <1>2 DEF ListsKnown
  <2>5. EpilogueKnown'
    BY <1>a, <1>b, <1>c, <1>d, <2>1, <2>3, <2>4 DEF EpilogueKnown
  <2>6. ScopeJoined'
    BY <1>a, <2>1 DEF ScopeJoined
  <2> QED
    BY <1>a, <2>1, <2>4, <2>5, <2>6, OutsideGoes
<1> QED
  BY <1>a, <1>1, <1>2
-----------------------------------------------------------------------------
(* The specification *)

(* A collection only counts results without a root.                        *)
LEMMA CollectSteps ==
  ASSUME IInv, Collect
  PROVE  IInv'
<1>a. TypeOK /\ UNCHANGED <<program, at, pc, i, group, out, nursery, tasks, child, closure, waiter>>
  BY DEF IInv, Collect, main
<1>1. TypeOK'
  <2>1. PICK unrooted \in SUBSET Threads :
          missed' = [t \in Threads |-> IF t \in unrooted /\ missed[t] < Grace THEN missed[t] + 1 ELSE missed[t]]
    BY DEF Collect
  <2>2. missed' \in [Threads -> 0 .. Grace]
    BY <1>a, <2>1, SizesAssumption DEF TypeOK
  <2> QED
    BY <1>a, <2>2 DEF TypeOK
<1>2. ThreadsKnown' /\ SpawnedInOrder' /\ ListsKnown'
  BY <1>a, OutsideKept
<1>3. WaiterKnown'
  BY <1>a DEF IInv, WaiterKnown
<1>n. NurseryKnown'
  BY <1>a DEF IInv, NurseryKnown
<1>4. InsideKnown'
  BY <1>a DEF IInv, InsideKnown, PlaceKnown, GroupKnown, OutKnown, Read, Frees, Over, Statement, Listed
<1>5. has_active_nursery(program, at)' <=> has_active_nursery(program, at)
  BY <1>a DEF has_active_nursery
<1>6. EpilogueKnown'
  BY <1>a, <1>5 DEF IInv, EpilogueKnown, Over
<1>7. Accounted'
  BY <1>a, <1>5 DEF IInv, Accounted, Awaited, Over
<1>8. ScopeJoined'
  BY <1>a, <1>5 DEF IInv, ScopeJoined, Spawned
<1>9. ResultsInOrder'
  BY <1>a DEF IInv, ResultsInOrder
<1> QED
  BY <1>1, <1>2, <1>3, <1>4, <1>6, <1>7, <1>8, <1>9, <1>n DEF IInv

(* Stuttering keeps the invariant.                                         *)
LEMMA Stutters ==
  ASSUME IInv, UNCHANGED vars
  PROVE  IInv'
<1>a. TypeOK /\ UNCHANGED <<program, at, pc, i, group, out, nursery, tasks, child, closure, waiter, missed>>
  BY DEF IInv, vars, main
<1>1. TypeOK'
  BY <1>a DEF TypeOK
<1>2. ThreadsKnown' /\ SpawnedInOrder' /\ ListsKnown'
  BY <1>a, OutsideKept
<1>3. WaiterKnown'
  BY <1>a DEF IInv, WaiterKnown
<1>n. NurseryKnown'
  BY <1>a DEF IInv, NurseryKnown
<1>4. InsideKnown'
  BY <1>a DEF IInv, InsideKnown, PlaceKnown, GroupKnown, OutKnown, Read, Frees, Over, Statement, Listed
<1>5. has_active_nursery(program, at)' <=> has_active_nursery(program, at)
  BY <1>a DEF has_active_nursery
<1>6. EpilogueKnown'
  BY <1>a, <1>5 DEF IInv, EpilogueKnown, Over
<1>7. Accounted'
  BY <1>a, <1>5 DEF IInv, Accounted, Awaited, Over
<1>8. ScopeJoined'
  BY <1>a, <1>5 DEF IInv, ScopeJoined, Spawned
<1>9. ResultsInOrder'
  BY <1>a DEF IInv, ResultsInOrder
<1> QED
  BY <1>1, <1>2, <1>3, <1>4, <1>6, <1>7, <1>8, <1>9, <1>n DEF IInv

(* Starting the threads of a statement.                                    *)
LEMMA SpawnSteps ==
  ASSUME IInv, NEW next, SpawnLoop(next),
         IF Statement.op = "first" THEN next = "scan" /\ Statement.n # 0 ELSE next = "join"
  PROVE  IInv'
<1>1. CASE pc = "spawn" /\ Len(group) < Statement.n /\ \E t \in Threads :
             /\ spawn_task(t, Len(group) + 1) /\ group' = Append(group, t)
             /\ UNCHANGED <<program, at, pc, i, out, nursery, tasks>>
  <2>1. PICK t \in Threads : /\ spawn_task(t, Len(group) + 1) /\ group' = Append(group, t)
                             /\ UNCHANGED <<program, at, pc, i, out, nursery, tasks>>
    BY <1>1
  <2> QED
    BY <1>1, <2>1, SpawnsMember
<1>2. CASE /\ pc = "spawn" /\ Len(group) = Statement.n
           /\ Goto(next)
           /\ UNCHANGED <<program, at, group, out, nursery, tasks, child, closure, waiter, missed>>
  BY <1>2, SpawnEnds
<1> QED
  BY <1>1, <1>2 DEF SpawnLoop

(* Collecting the results, one after the other, and the statement's end.   *)
LEMMA CollectingSteps ==
  ASSUME IInv, pc = "collect" \/ (pc = "join" /\ Statement.op = "most"), NEW reads \in BOOLEAN,
         i <= Len(group) => (reads <=> (Statement.op = "first" => i = 1)),
         \/ i <= Len(group) /\ child[group[i]] = "ended" /\ FreeClosure(reads)
         \/ i > Len(group) /\ EndGroup
  PROVE  IInv'
<1>a. /\ PlaceKnown /\ GroupKnown /\ OutKnown /\ pc \in Inside /\ Frees /\ pc \in {"spawn", "join", "collect"}
      /\ i \in Nat \ {0} /\ group \in Seq(Threads) /\ Statement.n \in Nat
  BY TypesKnown DEF IInv, InsideKnown, Inside, Frees, PlaceKnown
<1>1. CASE i <= Len(group) /\ child[group[i]] = "ended" /\ FreeClosure(reads)
  BY <1>1, <1>a, ClosureFreed
<1>2. CASE i > Len(group) /\ EndGroup
  <2>1. i = Len(group) + 1 /\ Len(group) = Statement.n
    BY <1>a, <1>2 DEF PlaceKnown
  <2>2. \A k \in DOMAIN group : Over(group[k])
    BY <1>a, <2>1 DEF GroupKnown
  <2>3. Len(out) = IF Statement.op = "first" /\ Statement.n > 0 THEN 1 ELSE Statement.n
    BY <1>a, <2>1 DEF OutKnown, Read, PlaceKnown
  <2> QED
    BY <1>2, <1>a, <2>2, <2>3, StatementEnds
<1> QED
  BY <1>1, <1>2

(* Of all threads that are collected one knows that they have ended.       *)
LEMMA CollectedEnded ==
  ASSUME IInv, pc = "collect", i <= Len(group)
  PROVE  child[group[i]] = "ended"
<1>1. GroupKnown /\ i \in Nat \ {0} /\ group \in Seq(Threads)
  BY TypesKnown DEF IInv, InsideKnown, Inside
<1> QED
  BY <1>1 DEF GroupKnown

(* Every step of the function keeps the invariant.                         *)
LEMMA FunctionSteps ==
  ASSUME IInv, Function
  PROVE  IInv'
<1>1. CASE BeginGroup
  BY <1>1, StatementBegins
<1>2. CASE thread_call
  <2>0. Statement.op = "call"
    BY <1>2 DEF thread_call, Runs
  <2>1. CASE SpawnLoop("join")
    BY <2>0, <2>1, SpawnSteps
  <2>2. CASE JoinLoop("collect")
    BY <2>0, <2>2, Joins DEF JoinLoop
  <2>3. CASE pc = "collect" /\ ((i <= Len(group) /\ FreeClosure(TRUE)) \/ (i > Len(group) /\ EndGroup))
    BY <2>0, <2>3, CollectingSteps, CollectedEnded
  <2> QED
    BY <1>2, <2>1, <2>2, <2>3 DEF thread_call
<1>3. CASE parallel_for_spawn
  <2>0. Statement.op = "map"
    BY <1>3 DEF parallel_for_spawn, Runs
  <2>1. CASE SpawnLoop("join")
    BY <2>0, <2>1, SpawnSteps
  <2>2. CASE JoinLoop("collect")
    BY <2>0, <2>2, Joins DEF JoinLoop
  <2> QED
    BY <1>3, <2>1, <2>2 DEF parallel_for_spawn
<1>4. CASE parallel_for_collect
  <2>0. Statement.op = "map" /\ pc = "collect"
    BY <1>4 DEF parallel_for_collect, Runs
  <2>1. (i <= Len(group) /\ FreeClosure(TRUE)) \/ (i > Len(group) /\ EndGroup)
    BY <1>4 DEF parallel_for_collect
  <2> QED
    BY <2>0, <2>1, CollectingSteps, CollectedEnded
<1>5. CASE first_spawn
  <2>0. Statement.op = "first"
    BY <1>5 DEF first_spawn, Runs
  <2>1. CASE Statement.n = 0 /\ pc = "spawn" /\ EndGroup
    <3>1. PlaceKnown /\ OutKnown /\ group \in Seq(Threads)
      BY <2>1, TypesKnown DEF IInv, InsideKnown, Inside
    <3>2. \A k \in DOMAIN group : Over(group[k])
      BY <2>1, <3>1 DEF PlaceKnown
    <3>3. Len(out) = IF Statement.op = "first" /\ Statement.n > 0 THEN 1 ELSE Statement.n
      BY <2>1, <3>1 DEF OutKnown, Read, Frees
    <3> QED
      BY <2>1, <3>2, <3>3, StatementEnds
  <2>2. CASE ~(Statement.n = 0 /\ pc = "spawn") /\ SpawnLoop("scan")
    <3>1. Statement.n # 0
      BY <2>2 DEF SpawnLoop
    <3> QED
      BY <2>0, <2>2, <3>1, SpawnSteps
  <2> QED
    BY <1>5, <2>1, <2>2 DEF first_spawn
<1>6. CASE wait_any
  BY <1>6, WaitSteps
<1>7. CASE first_cancel
  BY <1>7, Cancels
<1>8. CASE first_join
  <2>0. Statement.op = "first"
    BY <1>8 DEF first_join, Runs
  <2>1. CASE /\ pc = "cancel" /\ Goto("join")
             /\ UNCHANGED <<program, at, group, out, nursery, tasks, child, closure, waiter, missed>>
    BY <2>1, CancelEnds
  <2>2. CASE JoinLoop("collect")
    BY <2>0, <2>2, Joins DEF JoinLoop
  <2>3. CASE pc = "collect" /\ i <= Len(group) /\ FreeClosure(i = 1)
    <3> DEFINE reads == i = 1
    <3>1. reads \in BOOLEAN /\ (reads <=> (Statement.op = "first" => i = 1)) /\ FreeClosure(reads)
      BY <2>0, <2>3
    <3> HIDE DEF reads
    <3> QED
      BY <2>3, <3>1, CollectingSteps, CollectedEnded
  <2>4. CASE pc = "collect" /\ i > Len(group) /\ EndGroup
    <3>1. ~(i <= Len(group))
      BY <2>4, TypesKnown DEF IInv
    <3> QED
      BY <2>4, <3>1, CollectingSteps
  <2> QED
    BY <1>8, <2>1, <2>2, <2>3, <2>4 DEF first_join
<1>9. CASE most_spawn
  <2>0. Statement.op = "most" /\ SpawnLoop("join")
    BY <1>9 DEF most_spawn, Runs
  <2> QED
    BY <2>0, SpawnSteps
<1>10. CASE most_join
  <2>0. Statement.op = "most" /\ pc = "join"
    BY <1>10 DEF most_join, Runs
  <2>1. \/ i <= Len(group) /\ child[group[i]] = "ended" /\ FreeClosure(TRUE)
        \/ i > Len(group) /\ EndGroup
    BY <1>10 DEF most_join
  <2> QED
    BY <2>0, <2>1, CollectingSteps
<1>11. CASE fire_and_forget_thread \/ fire_and_forget_task
  BY <1>11, BareSteps
<1>12. CASE generate_return \/ implicit_return
  BY <1>12, ReturnSteps
<1>13. CASE join_nursery
  BY <1>13, NurserySteps
<1>14. CASE join_task_nursery
  BY <1>14, TaskNurserySteps
<1> QED
  BY <1>1, <1>2, <1>3, <1>4, <1>5, <1>6, <1>7, <1>8, <1>9, <1>10, <1>11, <1>12, <1>13, <1>14 DEF Function

(* No thread, no statement yet.                                            *)
LEMMA Initially == Init => IInv
<1> SUFFICES ASSUME Init PROVE IInv
  OBVIOUS
<1>a. /\ program \in Programs /\ program \in Seq(Body) /\ MaxThreads \in Nat /\ at = 1 /\ i = 1 /\ pc = "next"
      /\ group = <<>> /\ out = <<>> /\ nursery = <<>> /\ tasks = <<>>
      /\ \A t \in Threads : child[t] = "none" /\ closure[t] = NoClosure
      /\ waiter = NoWaiter
  BY ProgramsAssumption, SizesAssumption DEF Init, init_nursery, init_task_nursery
<1>1. TypeOK
  <2>1. at \in 1 .. Len(program) + 1 /\ i \in 1 .. MaxThreads + 1
    BY <1>a
  <2>2. child \in [Threads -> Stages \cup {"task"}]
    BY DEF Init, Stages
  <2>3. closure \in [Threads -> [alive : BOOLEAN, result : {"null", "full", "partial"}, cancelled : BOOLEAN,
                                 completed : BOOLEAN, locked : BOOLEAN, shared_waiter : BOOLEAN, param : Nat]]
    BY DEF Init, NoClosure
  <2>4. waiter \in [alive : BOOLEAN, held : BOOLEAN, asleep : BOOLEAN]
    BY <1>a DEF NoWaiter
  <2>5. missed \in [Threads -> 0 .. Grace]
    BY SizesAssumption DEF Init
  <2>6. <<>> \in Seq(Threads) /\ <<>> \in Seq(Results)
    OBVIOUS
  <2> QED
    BY <1>a, <2>1, <2>2, <2>3, <2>4, <2>5, <2>6 DEF TypeOK
<1>2. ThreadsKnown
  BY <1>a DEF ThreadsKnown, ThreadKnown, NoClosure, Running, HasResult
<1>3. SpawnedInOrder
  BY <1>a DEF SpawnedInOrder
<1>4. ListsKnown
  BY <1>a DEF ListsKnown, Listed
<1>n. NurseryKnown
  BY <1>a DEF NurseryKnown
<1>5. WaiterKnown
  BY <1>a DEF WaiterKnown, NoWaiter, NoClosure, Waits
<1>6. InsideKnown /\ EpilogueKnown /\ ScopeJoined
  BY <1>a DEF InsideKnown, Inside, Waits, EpilogueKnown, ScopeJoined
<1>7. Accounted
  BY <1>a DEF Accounted
<1>8. ResultsInOrder
  BY <1>a DEF ResultsInOrder
<1> QED
  BY <1>1, <1>2, <1>3, <1>4, <1>5, <1>6, <1>7, <1>8, <1>n DEF IInv

(* The invariant holds of every state of a function and its threads.       *)
THEOREM Invariant == Spec => []IInv
<1>1. Init => IInv
  BY Initially
<1>2. IInv /\ [Next]_vars => IInv'
  <2> SUFFICES ASSUME IInv, [Next]_vars PROVE IInv'
    OBVIOUS
  <2>1. CASE Function
    BY <2>1, FunctionSteps
  <2>2. CASE \E t \in Threads : Thread(t)
    BY <2>2, ThreadSteps
  <2>3. CASE Collect
    BY <2>3, CollectSteps
  <2>4. CASE Returned \/ UNCHANGED vars
    BY <2>4, Stutters DEF Returned
  <2> QED
    BY <2>1, <2>2, <2>3, <2>4 DEF Next
<1> QED
  BY <1>1, <1>2, PTL DEF Spec

(* What a thread touches after its body has ended is there: its closure    *)
(* until it has unlocked it (coex_task.c:182), and the waiter on the stack *)
(* of coex_task_wait_any while it signals it.                              *)
THEOREM NothingUsedAfterFree == Spec => []NothingFreedInUse
<1>1. IInv => NothingFreedInUse
  <2> SUFFICES ASSUME IInv PROVE NothingFreedInUse
    OBVIOUS
  <2>1. \A t \in Threads :
          /\ child[t] \in {"start", "body", "stored", "popped", "toWaiter", "unlock"} => closure[t].alive
          /\ child[t] = "toWaiter" => waiter.alive
    BY DEF IInv, ThreadsKnown, ThreadKnown, WaiterKnown, Running, HasResult
  <2>2. ASSUME i \in DOMAIN Touched PROVE closure[Touched[i]].alive
    <3>1. CASE pc = "epilogue"
      <4>1. Touched = nursery /\ NurseryKnown
        BY <3>1 DEF IInv, Touched
      <4> QED
        BY <2>2, <3>1, <4>1, TypesKnown DEF NurseryKnown, IInv
    <3>2. CASE pc \in {"scan", "register", "check", "unregister", "cancel", "collect"} \/ (pc = "join" /\ Runs("most"))
      <4>1. Touched = group /\ pc \in Inside
        BY <3>2 DEF Touched, Inside, Waits
      <4>2. GroupKnown /\ ~(i < i)
        BY <4>1, TypesKnown DEF IInv, InsideKnown
      <4> QED
        BY <2>2, <4>1, <4>2 DEF GroupKnown
    <3>3. CASE ~(pc = "epilogue" \/ pc \in {"scan", "register", "check", "unregister", "cancel", "collect"}
                 \/ (pc = "join" /\ Runs("most")))
      BY <2>2, <3>3 DEF Touched
    <3> QED
      BY <3>1, <3>2, <3>3
  <2> QED
    BY <2>1, <2>2 DEF NothingFreedInUse
<1> QED
  BY <1>1, Invariant, PTL

(* A call, a map, a first or a most ends with as many results as it should *)
(* have, whole ones, and with every closure freed.                         *)
THEOREM ResultsAreInOrder == Spec => []ResultsInOrder
<1>1. IInv => ResultsInOrder
  BY DEF IInv
<1> QED
  BY <1>1, Invariant, PTL

(* A function that returns before its first return statement's epilogue    *)
(* has used up the nursery leaves no thread and no task behind.            *)
THEOREM ScopeIsJoined == Spec => []ScopeJoined
<1>1. IInv => ScopeJoined
  BY DEF IInv
<1> QED
  BY <1>1, Invariant, PTL
=============================================================================
