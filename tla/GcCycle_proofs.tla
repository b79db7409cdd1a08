--------------------------- MODULE GcCycle_proofs ---------------------------
(***************************************************************************)
(* Proofs about a collection, for every number of threads, objects, slots  *)
(* and cycles: a pop never goes below an acknowledged watermark, a traced  *)
(* object never hides an untraced one, what stays in a variable is traced, *)
(* and an object is freed only after two markings have missed it.          *)
(***************************************************************************)
EXTENDS GcCycle, TLAPS

(* Where the collector is in its cycle, and what it holds there.           *)
CycleKnown ==
  /\ gc_phase = CASE gcpc \in {"idle", "begun"} -> 0
                  [] gcpc = "wait" -> 1
                  [] gcpc = "scan" -> 2
                  [] OTHER -> 3
  /\ gc_current_mark_value = gc_cycle_id + (IF gcpc = "begun" THEN 2 ELSE 1)
  /\ gcpc = "begun" => gc_cycle_id < MaxCycles
  /\ gcpc \notin {"scan", "reset_slot"} => scanning = NoStack
  /\ gcpc = "reset_slot" \/ (gcpc = "scan" /\ ~Scanned) => scanning.thread \in Mutators
  /\ gcpc = "scan" => scanning.thread \notin queue
  /\ gcpc = "sweep" => queue = {} /\ worklist = {}

(* A variable is assigned within its frame, and a pop goes down.           *)
StacksKnown ==
  \A t \in Mutators :
    /\ assigned[t] \subseteq 1 .. slot_index[t] /\ slot_index[t] <= slot_count[t]
    /\ stable[t] \subseteq assigned[t]
    /\ pc[t] \in {"pop", "spin", "store"} => start[t] <= slot_index[t]

(* A thread that was heard is active until the reset, and what it is about *)
(* to store as the height of its stack is not below its watermark.         *)
Acknowledged ==
  /\ gcpc \notin {"wait", "scan", "sweep"} =>
       heard = {} /\ \A t \in Mutators : stable[t] = {}
  /\ \A t \in heard : /\ watermark_active[t] /\ slot_index[t] >= watermark_slot[t]
                      /\ pc[t] = "store" => start[t] >= watermark_slot[t]

(* Only a marking goes past the current mark value, by one.                *)
GenerationsBounded ==
  /\ \A o \in Objects : generation[o] <= gc_current_mark_value + 1
  /\ gcpc \in {"begun", "wait"} => \A o \in Objects : generation[o] <= gc_current_mark_value
  /\ \A t \in Mutators : stamp[t] <= gc_current_mark_value

(* As long as no sweep took it, what is held or referred to is in use.     *)
NothingDangles ==
  ~lost => /\ \A t \in Mutators : \A h \in Held(t) : handle[h] = "live"
           /\ \A o \in Objects : handle[o] = "live" /\ field[o] # Null => handle[field[o]] = "live"

(* Traced, or to be traced.                                                *)
Covered(o) == Marked(o) \/ o \in worklist

(* A traced object refers to covered ones.                                 *)
FieldsCovered ==
  gcpc \in {"scan", "sweep"} /\ ~lost =>
    \A o \in Objects : handle[o] = "live" /\ Marked(o) /\ field[o] # Null => Covered(field[o])

(* The scan has passed slot i of thread t.                                 *)
Passed(t, i) == t \notin queue /\ (scanning.thread = t => i < scanning.next)

(* What stayed in a variable is covered once the scan has passed it; the   *)
(* scan reads as far as there are such variables.                          *)
StableCovered ==
  gcpc \in {"scan", "sweep"} =>
    \A t \in Mutators : \A i \in stable[t] :
      /\ scanning.thread = t => i <= scanning.upto
      /\ ~lost /\ Passed(t, i) /\ slots[t][i] # Null => Covered(slots[t][i])

(* As long as every cycle heard every thread, an allocation is at most one *)
(* collection behind, and an object is as many behind as markings missed   *)
(* it.                                                                     *)
Collecting == gcpc \in {"begun", "wait", "scan", "sweep"}

MissesCounted ==
  /\ \A o \in Objects : handle[o] # "live" => missed[o] = 0
  /\ ~lapsed =>
       /\ \A o \in Objects : handle[o] = "live" =>
            gc_current_mark_value <= generation[o] + missed[o] + (IF Collecting THEN 1 ELSE 0)
       /\ \A t \in Mutators : pc[t] = "alloc" =>
            /\ gc_current_mark_value <= stamp[t] + (IF gcpc \in {"begun", "wait"} THEN 1 ELSE 0)
            /\ t \in heard => gc_current_mark_value <= stamp[t]

(* The inductive invariant.                                                *)
IInv == /\ TypeOK /\ CycleKnown /\ StacksKnown /\ Acknowledged /\ GenerationsBounded
        /\ NothingDangles /\ FieldsCovered /\ StableCovered /\ MissesCounted

-----------------------------------------------------------------------------
(* Types *)

(* The bounds are numbers, and fixed.                                      *)
LEMMA BoundsKnown ==
  ASSUME bounds \in Bounds
  PROVE  MaxSlots \in Nat \ {0} /\ MaxPushes \in Nat /\ MaxCycles \in Nat \ {0}
  BY BoundAssumption DEF MaxSlots, MaxPushes, MaxCycles

(* What an expression yields is a handle that is held or a field of one.   *)
LEMMA ValuesAreHandles ==
  ASSUME TypeOK, NEW t \in Mutators
  PROVE  Held(t) \subseteq Objects /\ Values(t) \subseteq Objects
<1>1. Held(t) \subseteq Objects
  BY DEF TypeOK, Held, Handle
<1>2. \A o \in Held(t) : field[o] \in Objects \cup {Null}
  BY <1>1 DEF TypeOK, Handle
<1> QED
  BY <1>1, <1>2 DEF Values

(* Every step of a mutator keeps the types.                                *)
LEMMA MutatorTypes ==
  ASSUME TypeOK, StacksKnown, NEW t \in Mutators, Mutate(t), bounds' = bounds
  PROVE  TypeOK'
<1>a. MaxSlots \in Nat \ {0} /\ MaxPushes \in Nat /\ MaxCycles \in Nat \ {0}
  BY BoundsKnown DEF TypeOK
<1>b. MaxSlots' = MaxSlots /\ MaxPushes' = MaxPushes /\ MaxCycles' = MaxCycles /\ Slot' = Slot
  BY DEF MaxSlots, MaxPushes, MaxCycles, Slot
<1>c. Null \notin Objects /\ Null \in Handle /\ Values(t) \subseteq Handle
  BY NullAssumption, ValuesAreHandles DEF Handle
<1>d. ASSUME Acknowledge(t)
      PROVE  /\ watermark_slot' \in [Mutators -> 0 .. MaxSlots]
             /\ watermark_active' \in [Mutators -> BOOLEAN]
             /\ heard' \subseteq Mutators /\ stable' \in [Mutators -> SUBSET Slot]
             /\ UNCHANGED <<missed, lapsed, lost>>
  <2>1. slot_index[t] \in 0 .. MaxSlots /\ assigned[t] \in SUBSET Slot
    BY DEF TypeOK
  <2>2. watermark_slot' \in [Mutators -> 0 .. MaxSlots] /\ watermark_active' \in [Mutators -> BOOLEAN]
    BY <1>d, <2>1 DEF Acknowledge, TypeOK
  <2>3. heard' \subseteq Mutators
    BY <1>d DEF Acknowledge, TypeOK
  <2>4. stable' \in [Mutators -> SUBSET Slot]
    BY <1>d, <2>1 DEF Acknowledge, TypeOK
  <2> QED
    BY <1>d, <2>2, <2>3, <2>4 DEF Acknowledge
<1> USE <1>a, <1>b DEF TypeOK
<1>1. CASE SafepointPhase(t)
  BY <1>1 DEF SafepointPhase, Goto, collector, marks, stacks, heap, history
<1>2. CASE SafepointAck(t)
  BY <1>2, <1>d DEF SafepointAck, Goto, collector, marks, stacks, heap, history
<1>3. CASE Push(t)
  <2>1. /\ slot_index[t] + 1 \in 0 .. MaxSlots /\ slot_count[t] + 1 \in 0 .. MaxPushes
    BY <1>3 DEF Push
  <2>2. slots' \in [Mutators -> [Slot -> Handle]]
    BY <1>3, <1>c DEF Push
  <2>3. slot_index' \in [Mutators -> 0 .. MaxSlots] /\ slot_count' \in [Mutators -> 0 .. MaxPushes]
    BY <1>3, <2>1 DEF Push
  <2> QED
    BY <1>3, <2>2, <2>3 DEF Push, collector, marks, locals, heap, history
<1>4. CASE PopPhase(t)
  <2>1. PICK s \in 0 .. slot_index[t] - 1, v \in Values(t) \cup {Null} :
          /\ pc' = [pc EXCEPT ![t] = IF gc_phase = 0 THEN "store" ELSE "pop"]
          /\ start' = [start EXCEPT ![t] = s]
          /\ reg' = [reg EXCEPT ![t] = v]
    BY <1>4 DEF PopPhase, Goto
  <2>2. s \in 0 .. MaxSlots /\ v \in Handle
    BY <1>c
  <2> QED
    BY <1>4, <2>1, <2>2 DEF PopPhase, collector, marks, stacks, heap, history
<1>5. CASE PopCheck(t)
  BY <1>5, <1>d DEF PopCheck, Goto, collector, marks, stacks, heap, history
<1>6. CASE PopSpin(t)
  BY <1>6 DEF PopSpin, Goto, collector, marks, stacks, heap, history
<1>7. CASE PopStore(t)
  <2>1. /\ assigned' \in [Mutators -> SUBSET Slot] /\ stable' \in [Mutators -> SUBSET Slot]
        /\ slot_index' \in [Mutators -> 0 .. MaxSlots] /\ start' \in [Mutators -> 0 .. MaxSlots]
    BY <1>7 DEF PopStore
  <2> QED
    BY <1>7, <2>1 DEF PopStore, Goto, collector, marks, heap
<1>8. CASE SetRoot(t)
  <2>1. PICK i \in 1 .. slot_index[t], v \in Values(t) :
          /\ slots' = [slots EXCEPT ![t][i] = v]
          /\ assigned' = [assigned EXCEPT ![t] = @ \cup {i}]
          /\ reg' = [reg EXCEPT ![t] = Null]
          /\ stable' = [stable EXCEPT ![t] = @ \ {i}]
    BY <1>8 DEF SetRoot
  <2>2. i \in Slot /\ v \in Handle
    BY <1>c DEF Slot
  <2>3. slots' \in [Mutators -> [Slot -> Handle]]
    BY <2>1, <2>2
  <2>4. assigned' \in [Mutators -> SUBSET Slot] /\ stable' \in [Mutators -> SUBSET Slot]
    BY <2>1, <2>2
  <2> QED
    BY <1>8, <1>c, <2>1, <2>3, <2>4 DEF SetRoot, collector, marks, heap
<1>9. CASE AllocStamp(t)
  BY <1>9 DEF AllocStamp, Goto, collector, marks, stacks, heap, history
<1>10. CASE AllocPublish(t)
  <2>1. PICK o \in Objects, f \in Values(t) \cup {Null} :
          /\ handle' = [handle EXCEPT ![o] = "live"]
          /\ generation' = [generation EXCEPT ![o] = stamp[t]]
          /\ field' = [field EXCEPT ![o] = f]
          /\ reg' = [reg EXCEPT ![t] = o]
          /\ Goto(t, "alloc", "run")
    BY <1>10 DEF AllocPublish
  <2>2. f \in Handle /\ o \in Handle /\ stamp[t] \in 0 .. MaxCycles + 2
    BY <1>c DEF Handle
  <2> QED
    BY <1>10, <2>1, <2>2 DEF AllocPublish, Goto, collector, marks, stacks, history
<1> QED
  BY <1>1, <1>2, <1>3, <1>4, <1>5, <1>6, <1>7, <1>8, <1>9, <1>10 DEF Mutate

(* The mark of an object, and what is left to mark.                        *)
LEMMA MarkTypes ==
  ASSUME TypeOK, CycleKnown, gcpc = "scan", NEW o \in Handle, MarkObject(o)
  PROVE  generation' \in [Objects -> 0 .. MaxCycles + 2] /\ worklist' \subseteq Objects
<1>1. gc_current_mark_value + 1 \in 0 .. MaxCycles + 2
  BY BoundsKnown DEF CycleKnown, TypeOK
<1>2. \A p \in Objects : field[p] \in Objects \cup {Null}
  BY DEF TypeOK, Handle
<1> QED
  BY <1>1, <1>2 DEF MarkObject, TypeOK

(* Every step of the collector keeps the types.                            *)
LEMMA CollectorTypes ==
  ASSUME TypeOK, CycleKnown, Collect, bounds' = bounds
  PROVE  TypeOK'
<1>a. MaxSlots \in Nat \ {0} /\ MaxPushes \in Nat /\ MaxCycles \in Nat \ {0}
  BY BoundsKnown DEF TypeOK
<1>b. MaxSlots' = MaxSlots /\ MaxPushes' = MaxPushes /\ MaxCycles' = MaxCycles /\ Slot' = Slot
  BY DEF MaxSlots, MaxPushes, MaxCycles, Slot
<1>c. NoStack \in [thread : Mutators \cup {Null}, next : 1 .. MaxSlots + 1, upto : 0 .. MaxSlots]
  BY <1>a DEF NoStack
<1> USE <1>a, <1>b DEF TypeOK
<1>1. CASE BeginCycle
  BY <1>1 DEF BeginCycle, GcGoto, marks, stacks, locals, heap, history, CycleKnown
<1>2. CASE BeginWatermark
  BY <1>2 DEF BeginWatermark, GcGoto, marks, stacks, locals, heap, history, CycleKnown
<1>3. CASE WaitDone \/ WaitTimeout
  <2>1. handle' \in [Objects -> {"free", "live", "retired"}]
    BY <1>3 DEF WaitDone, WaitTimeout, BeginMarking
  <2>2. lapsed' \in BOOLEAN
    BY <1>3 DEF WaitDone, WaitTimeout, BeginMarking
  <2> QED
    BY <1>3, <2>1, <2>2 DEF WaitDone, WaitTimeout, BeginMarking, GcGoto, marks, stacks, locals
<1>4. CASE ScanThread
  <2>1. PICK t \in queue :
          /\ scanning' = [thread |-> t, next |-> 1, upto |-> slot_index[t]]
          /\ queue' = queue \ {t}
    BY <1>4 DEF ScanThread
  <2>2. scanning' \in [thread : Mutators \cup {Null}, next : 1 .. MaxSlots + 1, upto : 0 .. MaxSlots]
    BY <2>1
  <2> QED
    BY <1>4, <2>1, <2>2 DEF ScanThread, marks, stacks, locals, heap, history
<1>5. CASE ScanSlot
  <2>1. gcpc = "scan" /\ scanning.thread \in Mutators /\ scanning.next <= scanning.upto
    BY <1>5 DEF ScanSlot, CycleKnown, Scanned
  <2>2. scanning.next \in Slot
    BY <2>1 DEF Slot
  <2>3. slots[scanning.thread][scanning.next] \in Handle
    BY <2>1, <2>2
  <2>4. generation' \in [Objects -> 0 .. MaxCycles + 2] /\ worklist' \subseteq Objects
    BY <1>5, <2>1, <2>3, MarkTypes DEF ScanSlot
  <2>5. scanning' \in [thread : Mutators \cup {Null}, next : 1 .. MaxSlots + 1, upto : 0 .. MaxSlots]
    <3>1. scanning' = [scanning EXCEPT !.next = scanning.next + 1]
      BY <1>5 DEF ScanSlot
    <3>2. scanning.next + 1 \in 1 .. MaxSlots + 1
      BY <2>1
    <3> QED
      BY <3>1, <3>2
  <2> QED
    BY <1>5, <2>4, <2>5 DEF ScanSlot, marks, stacks, locals, history
<1>6. CASE Drain
  <2>1. generation' \in [Objects -> 0 .. MaxCycles + 2] /\ worklist' \subseteq Objects
    BY <1>6, MarkTypes DEF Drain, Handle
  <2> QED
    BY <1>6, <2>1 DEF Drain, marks, stacks, locals, history
<1>7. CASE BeginSweep
  BY <1>7, <1>c DEF BeginSweep, GcGoto, marks, stacks, locals, heap, history
<1>8. CASE Sweep
  <2>1. Null \in Handle /\ 0 \in 0 .. MaxCycles + 2
    BY DEF Handle
  <2>2. /\ handle' \in [Objects -> {"free", "live", "retired"}]
        /\ generation' \in [Objects -> 0 .. MaxCycles + 2] /\ field' \in [Objects -> Handle]
    BY <1>8, <2>1 DEF Sweep
  <2>3. missed' \in [Objects -> Nat]
    BY <1>8 DEF Sweep
  <2>4. lost' \in BOOLEAN /\ heard' \subseteq Mutators /\ stable' \in [Mutators -> SUBSET Slot]
    BY <1>8 DEF Sweep
  <2> QED
    BY <1>8, <2>2, <2>3, <2>4 DEF Sweep, GcGoto, marks, stacks, locals
<1>9. CASE ResetActive
  <2>1. PICK t \in queue :
          /\ watermark_active' = [watermark_active EXCEPT ![t] = FALSE]
          /\ scanning' = [NoStack EXCEPT !.thread = t]
          /\ queue' = queue \ {t}
    BY <1>9 DEF ResetActive
  <2>2. scanning' \in [thread : Mutators \cup {Null}, next : 1 .. MaxSlots + 1, upto : 0 .. MaxSlots]
    BY <2>1, <1>c
  <2> QED
    BY <1>9, <2>1, <2>2 DEF ResetActive, GcGoto, stacks, locals, heap, history
<1>10. CASE ResetSlot
  <2>1. watermark_slot' \in [Mutators -> 0 .. MaxSlots]
    <3>1. watermark_slot' = [watermark_slot EXCEPT ![scanning.thread] = 0] /\ 0 \in 0 .. MaxSlots
      BY <1>10 DEF ResetSlot
    <3> QED
      BY <3>1
  <2>2. gcpc' \in {"end", "reset"}
    BY <1>10 DEF ResetSlot, GcGoto
  <2> QED
    BY <1>10, <1>c, <2>1, <2>2 DEF ResetSlot, stacks, locals, heap, history
<1>11. CASE EndCycle
  BY <1>11 DEF EndCycle, GcGoto, marks, stacks, locals, heap, history
<1> QED
  BY <1>1, <1>2, <1>3, <1>4, <1>5, <1>6, <1>7, <1>8, <1>9, <1>10, <1>11 DEF Collect

-----------------------------------------------------------------------------
(* The cycle, the stacks and the watermarks *)

(* No mutator moves the collector.                                         *)
LEMMA MutatorLeavesCollector ==
  ASSUME NEW t \in Mutators, Mutate(t)
  PROVE  UNCHANGED collector
  BY DEF Mutate, SafepointPhase, SafepointAck, Push, PopPhase, PopCheck, PopSpin, PopStore, SetRoot,
         AllocStamp, AllocPublish

(* The collector writes no stack and no register, and moves no mutator.    *)
LEMMA CollectorLeavesStacks ==
  ASSUME Collect
  PROVE  UNCHANGED <<slots, slot_index, slot_count, assigned, pc, start, stamp, reg>>
<1>1. CASE BeginCycle \/ BeginWatermark \/ WaitDone \/ WaitTimeout
  BY <1>1 DEF BeginCycle, BeginWatermark, WaitDone, WaitTimeout, BeginMarking, stacks, locals
<1>2. CASE ScanThread \/ ScanSlot \/ Drain \/ BeginSweep
  BY <1>2 DEF ScanThread, ScanSlot, Drain, BeginSweep, stacks, locals
<1>3. CASE Sweep \/ ResetActive \/ ResetSlot \/ EndCycle
  BY <1>3 DEF Sweep, ResetActive, ResetSlot, EndCycle, stacks, locals
<1> QED
  BY <1>1, <1>2, <1>3 DEF Collect

(* The steps of a cycle follow one another.                                *)
LEMMA CycleStep ==
  ASSUME TypeOK, CycleKnown, [Next]_vars
  PROVE  CycleKnown'
<1>a. MaxSlots \in Nat \ {0} /\ MaxCycles \in Nat \ {0}
  BY BoundsKnown DEF TypeOK
<1>b. bounds' = bounds /\ MaxCycles' = MaxCycles
  BY DEF Next, vars, MaxCycles
<1>c. NoStack.next > NoStack.upto
  BY DEF NoStack
<1> USE <1>a, <1>b DEF TypeOK, CycleKnown
<1>1. ASSUME NEW t \in Mutators, Mutate(t) PROVE CycleKnown'
  BY <1>1, MutatorLeavesCollector DEF collector, Scanned
<1>2. CASE BeginCycle
  BY <1>2 DEF BeginCycle, GcGoto, Scanned
<1>3. CASE BeginWatermark
  BY <1>3 DEF BeginWatermark, GcGoto, Scanned
<1>4. CASE WaitDone \/ WaitTimeout
  <2>1. NoStack.thread \notin Mutators
    BY NullAssumption DEF NoStack
  <2> QED
    BY <1>4, <1>c, <2>1 DEF WaitDone, WaitTimeout, BeginMarking, GcGoto, Scanned
<1>5. CASE ScanThread
  BY <1>5 DEF ScanThread
<1>6. CASE ScanSlot
  <2>1. scanning'.thread = scanning.thread /\ gcpc' = "scan" /\ gcpc = "scan" /\ scanning.thread \in Mutators
    BY <1>6 DEF ScanSlot
  <2> QED
    BY <1>6, <2>1 DEF ScanSlot
<1>7. CASE Drain
  BY <1>7 DEF Drain, Scanned
<1>8. CASE BeginSweep
  BY <1>8 DEF BeginSweep, GcGoto
<1>9. CASE Sweep
  BY <1>9 DEF Sweep, GcGoto
<1>10. CASE ResetActive
  <2>1. PICK t \in queue : scanning' = [NoStack EXCEPT !.thread = t]
    BY <1>10 DEF ResetActive
  <2>2. scanning'.thread \in Mutators
    BY <2>1 DEF NoStack
  <2> QED
    BY <1>10, <2>2 DEF ResetActive, GcGoto
<1>11. CASE ResetSlot
  BY <1>11 DEF ResetSlot, GcGoto
<1>12. CASE EndCycle
  BY <1>12 DEF EndCycle, GcGoto
<1>13. CASE UNCHANGED vars
  BY <1>13 DEF vars, collector, Scanned
<1> QED
  BY <1>1, <1>2, <1>3, <1>4, <1>5, <1>6, <1>7, <1>8, <1>9, <1>10, <1>11, <1>12, <1>13
  DEF Next, Collect

(* What an acknowledgement does, and that it happens once in a cycle.      *)
LEMMA AcknowledgeEffect ==
  ASSUME TypeOK, StacksKnown, Acknowledged, NEW t \in Mutators,
         IF watermark_active[t] THEN UNCHANGED <<marks, history>> ELSE Acknowledge(t)
  PROVE  /\ \A u \in Mutators \ {t} :
              /\ watermark_active'[u] = watermark_active[u] /\ watermark_slot'[u] = watermark_slot[u]
              /\ stable'[u] = stable[u] /\ (u \in heard' => u \in heard)
         /\ watermark_active'[t]
         /\ t \in heard' => \/ t \in heard /\ watermark_slot'[t] = watermark_slot[t]
                            \/ gcpc \in {"wait", "scan", "sweep"} /\ watermark_slot'[t] = slot_index[t]
         /\ stable'[t] \subseteq assigned[t]
         /\ \/ stable'[t] = stable[t] \/ stable'[t] = {}
            \/ gcpc = "wait" \/ (gcpc \in {"scan", "sweep"} /\ t \in queue)
         /\ gcpc \notin {"wait", "scan", "sweep"} => heard' = heard /\ stable' = stable
         /\ UNCHANGED <<missed, lapsed, lost>>
<1>1. CASE watermark_active[t]
  BY <1>1 DEF marks, history, StacksKnown
<1>2. CASE ~watermark_active[t]
  <2>1. Acknowledge(t) /\ t \notin heard
    BY <1>2 DEF Acknowledged
  <2> QED
    BY <2>1 DEF Acknowledge, TypeOK, StacksKnown
<1> QED
  BY <1>1, <1>2

(* Every step keeps the variables within their frames.                     *)
LEMMA StacksStep ==
  ASSUME TypeOK, TypeOK', StacksKnown, Acknowledged, [Next]_vars
  PROVE  StacksKnown'
<1>a. MaxSlots \in Nat \ {0} /\ MaxPushes \in Nat
  BY BoundsKnown DEF TypeOK
<1>1. ASSUME NEW t \in Mutators, SafepointAck(t) PROVE StacksKnown'
  <2>1. \A u \in Mutators : stable'[u] \subseteq assigned[u]
    BY <1>1, AcknowledgeEffect DEF SafepointAck, StacksKnown
  <2> QED
    BY <1>1, <2>1 DEF SafepointAck, Goto, stacks, StacksKnown, TypeOK
<1>2. ASSUME NEW t \in Mutators, PopCheck(t) PROVE StacksKnown'
  <2>1. \A u \in Mutators : stable'[u] \subseteq assigned[u]
    BY <1>2, AcknowledgeEffect DEF PopCheck, StacksKnown
  <2> QED
    BY <1>2, <2>1 DEF PopCheck, Goto, stacks, StacksKnown, TypeOK
<1>3. ASSUME NEW t \in Mutators, SafepointPhase(t) \/ PopSpin(t) \/ AllocStamp(t) \/ AllocPublish(t)
      PROVE  StacksKnown'
  <2>1. UNCHANGED <<slot_index, slot_count, assigned, stable, start>>
    BY <1>3 DEF SafepointPhase, PopSpin, AllocStamp, AllocPublish, stacks, history
  <2>2. \A u \in Mutators : pc'[u] \in {"pop", "spin", "store"} => pc[u] \in {"pop", "spin", "store"}
    BY <1>3 DEF SafepointPhase, PopSpin, AllocStamp, AllocPublish, Goto, TypeOK
  <2> QED
    BY <2>1, <2>2 DEF StacksKnown
<1>4. ASSUME NEW t \in Mutators, Push(t) PROVE StacksKnown'
  BY <1>4 DEF Push, locals, history, StacksKnown, TypeOK
<1>5. ASSUME NEW t \in Mutators, PopPhase(t) PROVE StacksKnown'
  <2>1. PICK s \in 0 .. slot_index[t] - 1 :
          /\ start' = [start EXCEPT ![t] = s] /\ \A u \in Mutators \ {t} : pc'[u] = pc[u]
          /\ UNCHANGED <<slot_index, slot_count, assigned, stable>>
    BY <1>5 DEF PopPhase, Goto, stacks, history, TypeOK
  <2>2. s <= slot_index[t]
    BY DEF TypeOK
  <2> QED
    BY <2>1, <2>2 DEF StacksKnown, TypeOK
<1>6. ASSUME NEW t \in Mutators, PopStore(t) PROVE StacksKnown'
  <2>1. /\ start[t] \in 0 .. MaxSlots /\ start[t] <= slot_index[t]
        /\ \A u \in Mutators : slot_index[u] \in 0 .. MaxSlots /\ slot_count[u] \in Nat
    BY <1>6 DEF PopStore, Goto, StacksKnown, TypeOK
  <2>2. assigned[t] \ (start[t] + 1 .. MaxSlots) \subseteq 1 .. start[t]
    <3>1. assigned[t] \subseteq 1 .. slot_index[t] /\ start[t] \in Nat
      BY <2>1, <1>a DEF StacksKnown
    <3> QED
      BY <2>1, <3>1, <1>a
  <2>3. pc'[t] = "run" /\ \A u \in Mutators \ {t} : pc'[u] = pc[u] /\ start'[u] = start[u]
    BY <1>6 DEF PopStore, Goto, TypeOK
  <2> QED
    BY <1>6, <2>1, <2>2, <2>3 DEF PopStore, StacksKnown, TypeOK
<1>7. ASSUME NEW t \in Mutators, SetRoot(t) PROVE StacksKnown'
  BY <1>7 DEF SetRoot, StacksKnown, TypeOK
<1>8. ASSUME Collect PROVE StacksKnown'
  <2>1. \A t \in Mutators : stable'[t] \subseteq stable[t]
    BY <1>8
    DEF Collect, BeginCycle, BeginWatermark, WaitDone, WaitTimeout, BeginMarking, ScanThread,
        ScanSlot, Drain, BeginSweep, Sweep, ResetActive, ResetSlot, EndCycle, history
  <2> QED
    BY <1>8, <2>1, CollectorLeavesStacks DEF StacksKnown
<1>9. CASE UNCHANGED vars
  BY <1>9 DEF vars, stacks, locals, history, StacksKnown
<1> QED
  BY <1>1, <1>2, <1>3, <1>4, <1>5, <1>6, <1>7, <1>8, <1>9 DEF Next, Mutate

(* The acknowledgement is before the pop's comparison, and the pop waits   *)
(* for the idle phase below it.                                            *)
LEMMA AcknowledgedStep ==
  ASSUME TypeOK, CycleKnown, StacksKnown, Acknowledged, [Next]_vars
  PROVE  Acknowledged'
<1>a. \A t \in Mutators : slot_index[t] \in Nat /\ start[t] \in Nat /\ watermark_slot[t] \in Nat
  BY BoundsKnown DEF TypeOK
<1>1. ASSUME NEW t \in Mutators, SafepointAck(t) PROVE Acknowledged'
  <2>1. UNCHANGED <<gcpc, slot_index, start>> /\ pc'[t] = "run" /\ \A u \in Mutators \ {t} : pc'[u] = pc[u]
    BY <1>1 DEF SafepointAck, Goto, collector, stacks, TypeOK
  <2>2. IF watermark_active[t] THEN UNCHANGED <<marks, history>> ELSE Acknowledge(t)
    BY <1>1 DEF SafepointAck
  <2>3. heard' \subseteq heard \cup {t} /\ heard \subseteq Mutators
    BY <2>2 DEF history, Acknowledge, TypeOK
  <2> QED
    BY <1>a, <2>1, <2>2, <2>3, AcknowledgeEffect DEF Acknowledged
<1>2. ASSUME NEW t \in Mutators, PopCheck(t) PROVE Acknowledged'
  <2>1. /\ UNCHANGED <<gcpc, slot_index, start>>
        /\ pc'[t] = "store" => start[t] >= watermark_slot'[t]
        /\ \A u \in Mutators \ {t} : pc'[u] = pc[u]
    BY <1>2 DEF PopCheck, Goto, collector, stacks, TypeOK
  <2>2. IF watermark_active[t] THEN UNCHANGED <<marks, history>> ELSE Acknowledge(t)
    BY <1>2 DEF PopCheck
  <2>3. heard' \subseteq heard \cup {t} /\ heard \subseteq Mutators
    BY <2>2 DEF history, Acknowledge, TypeOK
  <2> QED
    BY <1>a, <2>1, <2>2, <2>3, AcknowledgeEffect DEF Acknowledged
<1>3. ASSUME NEW t \in Mutators, SafepointPhase(t) \/ Push(t) \/ SetRoot(t) \/ AllocStamp(t) \/ AllocPublish(t)
      PROVE  Acknowledged'
  <2>1. UNCHANGED <<gcpc, heard, start>> /\ UNCHANGED marks
    BY <1>3
    DEF SafepointPhase, Push, SetRoot, AllocStamp, AllocPublish, collector, locals, history
  <2>2. \A u \in Mutators : slot_index'[u] \in {slot_index[u], slot_index[u] + 1}
    BY <1>3 DEF SafepointPhase, Push, SetRoot, AllocStamp, AllocPublish, stacks, TypeOK
  <2>3. \A u \in Mutators : stable'[u] \subseteq stable[u]
    <3>1. CASE SetRoot(t)
      BY <3>1 DEF SetRoot, TypeOK
    <3>2. CASE ~SetRoot(t)
      BY <1>3, <3>2 DEF SafepointPhase, Push, AllocStamp, AllocPublish, history
    <3> QED
      BY <3>1, <3>2
  <2>4. \A u \in Mutators : pc'[u] = "store" => pc[u] = "store"
    BY <1>3 DEF SafepointPhase, Push, SetRoot, AllocStamp, AllocPublish, Goto, locals, TypeOK
  <2>5. heard \subseteq Mutators
    BY DEF TypeOK
  <2> QED
    BY <1>a, <2>1, <2>2, <2>3, <2>4, <2>5 DEF Acknowledged, marks
<1>4. ASSUME NEW t \in Mutators, PopPhase(t) PROVE Acknowledged'
  <2>1. /\ UNCHANGED <<gcpc, heard, slot_index, stable>> /\ UNCHANGED marks
        /\ \A u \in Mutators \ {t} : pc'[u] = pc[u] /\ start'[u] = start[u]
        /\ pc'[t] = "store" => gc_phase = 0
    BY <1>4 DEF PopPhase, Goto, collector, stacks, history, TypeOK
  <2>2. gc_phase = 0 => heard = {}
    BY DEF CycleKnown, Acknowledged, TypeOK
  <2> QED
    BY <2>1, <2>2 DEF Acknowledged, marks, TypeOK
<1>5. ASSUME NEW t \in Mutators, PopSpin(t) PROVE Acknowledged'
  <2>1. heard = {} /\ gcpc \notin {"wait", "scan", "sweep"}
    BY <1>5 DEF PopSpin, CycleKnown, Acknowledged, TypeOK
  <2> QED
    BY <1>5, <2>1 DEF PopSpin, collector, history, Acknowledged
<1>6. ASSUME NEW t \in Mutators, PopStore(t) PROVE Acknowledged'
  <2>1. /\ UNCHANGED <<gcpc, heard>> /\ UNCHANGED marks /\ pc[t] = "store" /\ pc'[t] = "run"
        /\ slot_index'[t] = start[t]
        /\ \A u \in Mutators \ {t} : pc'[u] = pc[u] /\ start'[u] = start[u] /\ slot_index'[u] = slot_index[u]
        /\ \A u \in Mutators : stable'[u] \subseteq stable[u]
    BY <1>6 DEF PopStore, Goto, collector, TypeOK
  <2>2. heard \subseteq Mutators
    BY DEF TypeOK
  <2> QED
    BY <2>1, <2>2 DEF Acknowledged, marks
<1>7. ASSUME Collect PROVE Acknowledged'
  <2>1. UNCHANGED <<slot_index, start, pc>>
    BY <1>7, CollectorLeavesStacks
  <2>2. CASE Sweep
    BY <2>2 DEF Sweep, Acknowledged
  <2>3. CASE ResetActive \/ ResetSlot \/ EndCycle \/ BeginCycle
    BY <2>3 DEF ResetActive, ResetSlot, EndCycle, BeginCycle, GcGoto, history, Acknowledged
  <2>4. CASE BeginWatermark \/ WaitDone \/ WaitTimeout \/ ScanThread \/ ScanSlot \/ Drain \/ BeginSweep
    BY <2>1, <2>4
    DEF BeginWatermark, WaitDone, WaitTimeout, BeginMarking, ScanThread, ScanSlot, Drain, BeginSweep,
        GcGoto, marks, history, Acknowledged
  <2> QED
    BY <1>7, <2>2, <2>3, <2>4 DEF Collect
<1>8. CASE UNCHANGED vars
  BY <1>8 DEF vars, collector, marks, stacks, locals, history, Acknowledged
<1> QED
  BY <1>1, <1>2, <1>3, <1>4, <1>5, <1>6, <1>7, <1>8 DEF Next, Mutate

-----------------------------------------------------------------------------
(* Marking *)

(* Only a marking raises a generation past the mark value, and an object   *)
(* is born with a generation of the past.                                  *)
LEMMA GenerationsStep ==
  ASSUME TypeOK, CycleKnown, GenerationsBounded, [Next]_vars
  PROVE  GenerationsBounded'
<1>a. /\ gc_current_mark_value \in Nat
      /\ \A o \in Objects : generation[o] \in Nat
      /\ \A t \in Mutators : stamp[t] \in Nat
  BY BoundsKnown DEF TypeOK
<1>1. ASSUME NEW t \in Mutators, AllocStamp(t) PROVE GenerationsBounded'
  BY <1>1, <1>a DEF AllocStamp, collector, heap, GenerationsBounded, TypeOK
<1>2. ASSUME NEW t \in Mutators, AllocPublish(t) PROVE GenerationsBounded'
  <2>1. PICK o \in Objects : generation' = [generation EXCEPT ![o] = stamp[t]]
    BY <1>2 DEF AllocPublish
  <2>2. UNCHANGED collector /\ stamp' = [stamp EXCEPT ![t] = 0]
    BY <1>2 DEF AllocPublish
  <2>3. stamp[t] <= gc_current_mark_value
    BY DEF GenerationsBounded
  <2> QED
    BY <1>a, <2>1, <2>2, <2>3 DEF collector, GenerationsBounded, TypeOK
<1>3. ASSUME NEW t \in Mutators, Mutate(t), ~AllocStamp(t), ~AllocPublish(t) PROVE GenerationsBounded'
  <2>1. UNCHANGED <<gcpc, gc_current_mark_value, generation, stamp>>
    BY <1>3
    DEF Mutate, SafepointPhase, SafepointAck, Push, PopPhase, PopCheck, PopSpin, PopStore, SetRoot,
        collector, locals, heap
  <2> QED
    BY <2>1 DEF GenerationsBounded
<1>4. CASE BeginCycle
  BY <1>4, <1>a DEF BeginCycle, GcGoto, locals, heap, GenerationsBounded, TypeOK, CycleKnown
<1>5. CASE BeginWatermark \/ WaitDone \/ WaitTimeout
  BY <1>5, <1>a
  DEF BeginWatermark, WaitDone, WaitTimeout, BeginMarking, GcGoto, locals, heap, GenerationsBounded
<1>6. CASE ScanSlot \/ Drain
  <2>1. PICK o \in Handle : MarkObject(o)
    <3>1. CASE Drain
      BY <3>1 DEF Drain, TypeOK, Handle
    <3>2. CASE ScanSlot
      <4>1. scanning.thread \in Mutators /\ scanning.next \in Slot
        BY <3>2, BoundsKnown DEF ScanSlot, CycleKnown, Scanned, TypeOK, Slot
      <4>2. slots[scanning.thread][scanning.next] \in Handle
        BY <4>1 DEF TypeOK
      <4> QED
        BY <3>2, <4>2 DEF ScanSlot
    <3> QED
      BY <1>6, <3>1, <3>2
  <2>2. gcpc = "scan" /\ UNCHANGED <<gcpc, gc_current_mark_value, stamp>>
    BY <1>6 DEF ScanSlot, Drain, locals
  <2>3. \A p \in Objects : generation'[p] \in {generation[p], gc_current_mark_value + 1}
    BY <2>1 DEF MarkObject, TypeOK
  <2> QED
    BY <1>a, <2>2, <2>3 DEF GenerationsBounded
<1>7. CASE ScanThread \/ BeginSweep
  BY <1>7 DEF ScanThread, BeginSweep, GcGoto, locals, heap, GenerationsBounded
<1>8. CASE Sweep
  <2>1. \A o \in Objects : generation'[o] \in {generation[o], 0}
    BY <1>8 DEF Sweep
  <2> QED
    BY <1>8, <1>a, <2>1 DEF Sweep, GcGoto, locals, GenerationsBounded
<1>9. CASE ResetActive \/ ResetSlot \/ EndCycle
  BY <1>9 DEF ResetActive, ResetSlot, EndCycle, GcGoto, locals, heap, GenerationsBounded
<1>10. CASE UNCHANGED vars
  BY <1>10 DEF vars, collector, locals, heap, GenerationsBounded
<1> QED
  BY <1>1, <1>2, <1>3, <1>4, <1>5, <1>6, <1>7, <1>8, <1>9, <1>10 DEF Next, Collect

(* What an expression yields is in use.                                    *)
LEMMA ValuesLive ==
  ASSUME TypeOK, NothingDangles, ~lost, NEW t \in Mutators
  PROVE  \A v \in Values(t) : v \in Objects /\ handle[v] = "live"
<1>1. Held(t) \subseteq Objects /\ \A h \in Held(t) : handle[h] = "live"
  BY ValuesAreHandles DEF NothingDangles
<1>2. Values(t) \subseteq Objects
  BY ValuesAreHandles
<1> QED
  BY <1>1, <1>2 DEF Values, NothingDangles

(* A step that frees nothing, gives nobody another handle and changes no   *)
(* field leaves nothing dangling.                                          *)
LEMMA SameHolders ==
  ASSUME NothingDangles, lost' = lost, field' = field,
         \A o \in Objects \cup {Null} : handle'[o] = "live" <=> handle[o] = "live",
         \A t \in Mutators : Held(t)' \subseteq Held(t) /\ Held(t) \subseteq Objects,
         TypeOK
  PROVE  NothingDangles'
<1>1. \A o \in Objects : field[o] \in Objects \cup {Null}
  BY DEF TypeOK, Handle
<1> QED
  BY <1>1 DEF NothingDangles

(* Without a premature sweep no handle dangles: a new object refers to     *)
(* objects in use, and the sweep took nothing that was needed.             *)
LEMMA DanglesStep ==
  ASSUME TypeOK, StacksKnown, NothingDangles, [Next]_vars
  PROVE  NothingDangles'
<1>a. \A t \in Mutators : Held(t) \subseteq Objects
  BY ValuesAreHandles
<1>b. MaxSlots \in Nat \ {0} /\ Null \notin Objects
  BY BoundsKnown, NullAssumption DEF TypeOK
<1>1. ASSUME NEW t \in Mutators,
             SafepointPhase(t) \/ SafepointAck(t) \/ PopCheck(t) \/ PopSpin(t) \/ AllocStamp(t)
      PROVE  NothingDangles'
  <2>1. UNCHANGED <<slots, assigned, reg, handle, field>> /\ lost' = lost
    BY <1>1
    DEF SafepointPhase, SafepointAck, PopCheck, PopSpin, AllocStamp, Acknowledge, stacks, heap, history
  <2>2. \A u \in Mutators : Held(u)' = Held(u)
    BY <2>1 DEF Held
  <2> QED
    BY <1>a, <2>1, <2>2, SameHolders
<1>2. ASSUME NEW t \in Mutators, Push(t) PROVE NothingDangles'
  <2>1. UNCHANGED <<assigned, reg, handle, field, lost>>
    BY <1>2 DEF Push, locals, heap, history
  <2>2. \A u \in Mutators : \A i \in assigned[u] : slots'[u][i] = slots[u][i]
    <3> SUFFICES ASSUME NEW u \in Mutators, NEW i \in assigned[u]
                 PROVE  slots'[u][i] = slots[u][i]
      OBVIOUS
    <3>1. i \in Slot /\ i <= slot_index[u] /\ slot_index[u] <= slot_count[u]
          /\ slot_index[u] \in Nat /\ slot_count[u] \in Nat /\ i \in Nat
      BY <1>b, BoundsKnown DEF TypeOK, StacksKnown, Slot
    <3>2. i # slot_count[u] + 1
      BY <3>1
    <3> QED
      BY <1>2, <3>1, <3>2 DEF Push, TypeOK
  <2>3. \A u \in Mutators : Held(u)' = Held(u)
    BY <2>1, <2>2 DEF Held
  <2> QED
    BY <1>a, <2>1, <2>3, SameHolders
<1>3. ASSUME NEW t \in Mutators, PopPhase(t) PROVE NothingDangles'
  <2>1. PICK v \in Values(t) \cup {Null} : reg' = [reg EXCEPT ![t] = v]
    BY <1>3 DEF PopPhase
  <2>2. UNCHANGED <<slots, assigned, handle, field, lost>>
    BY <1>3 DEF PopPhase, stacks, heap, history
  <2>3. reg'[t] = v /\ \A u \in Mutators \ {t} : reg'[u] = reg[u]
    BY <2>1 DEF TypeOK
  <2>4. Held(t)' \subseteq Held(t) \cup Values(t) /\ \A u \in Mutators \ {t} : Held(u)' = Held(u)
    BY <2>2, <2>3 DEF Held
  <2>5. SUFFICES ASSUME ~lost
                 PROVE  \A u \in Mutators : \A h \in Held(u)' : handle[h] = "live"
    BY <2>2 DEF NothingDangles
  <2>6. \A h \in Held(t)' : handle[h] = "live"
    BY <2>4, <2>5, ValuesLive DEF NothingDangles
  <2> QED
    BY <2>4, <2>5, <2>6 DEF NothingDangles
<1>4. ASSUME NEW t \in Mutators, PopStore(t) PROVE NothingDangles'
  <2>1. UNCHANGED <<slots, reg, handle, field, lost>> /\ \A u \in Mutators : assigned'[u] \subseteq assigned[u]
    BY <1>4 DEF PopStore, heap, TypeOK
  <2>2. \A u \in Mutators : Held(u)' \subseteq Held(u)
    BY <2>1 DEF Held
  <2> QED
    BY <1>a, <2>1, <2>2, SameHolders
<1>5. ASSUME NEW t \in Mutators, SetRoot(t) PROVE NothingDangles'
  <2>1. PICK i \in 1 .. slot_index[t], v \in Values(t) :
          /\ slots' = [slots EXCEPT ![t][i] = v]
          /\ assigned' = [assigned EXCEPT ![t] = @ \cup {i}]
          /\ reg' = [reg EXCEPT ![t] = Null]
    BY <1>5 DEF SetRoot
  <2>2. UNCHANGED <<handle, field, lost>>
    BY <1>5 DEF SetRoot, heap
  <2>3. \A u \in Mutators \ {t} : Held(u)' = Held(u)
    BY <2>1 DEF Held, TypeOK
  <2>4. /\ assigned'[t] = assigned[t] \cup {i} /\ reg'[t] = Null
        /\ \A j \in assigned'[t] : slots'[t][j] \in {slots[t][j], v} /\ (j \in assigned[t] \/ slots'[t][j] = v)
    <3>1. i \in Slot /\ assigned[t] \subseteq Slot
      BY <1>b DEF TypeOK, Slot
    <3> QED
      BY <2>1, <3>1 DEF TypeOK
  <2>5. Held(t)' \subseteq Held(t) \cup {v}
    BY <2>4 DEF Held
  <2>6. SUFFICES ASSUME ~lost
                 PROVE  \A u \in Mutators : \A h \in Held(u)' : handle[h] = "live"
    BY <2>2 DEF NothingDangles
  <2>7. handle[v] = "live"
    BY <2>1, <2>6, ValuesLive
  <2>8. \A h \in Held(t)' : handle[h] = "live"
    BY <2>5, <2>6, <2>7 DEF NothingDangles
  <2> QED
    BY <2>3, <2>6, <2>8 DEF NothingDangles
<1>6. ASSUME NEW t \in Mutators, AllocPublish(t) PROVE NothingDangles'
  <2>1. PICK o \in Objects, f \in Values(t) \cup {Null} :
          /\ handle' = [handle EXCEPT ![o] = "live"]
          /\ field' = [field EXCEPT ![o] = f]
          /\ reg' = [reg EXCEPT ![t] = o]
    BY <1>6 DEF AllocPublish
  <2>2. UNCHANGED <<slots, assigned, lost>>
    BY <1>6 DEF AllocPublish, stacks, history
  <2>3. handle'[o] = "live" /\ \A p \in Objects : handle[p] = "live" => handle'[p] = "live"
    BY <2>1 DEF TypeOK
  <2>4. reg'[t] = o /\ \A u \in Mutators \ {t} : reg'[u] = reg[u]
    BY <2>1 DEF TypeOK
  <2>5. Held(t)' \subseteq Held(t) \cup {o} /\ \A u \in Mutators \ {t} : Held(u)' = Held(u)
    BY <2>2, <2>4 DEF Held
  <2>6. SUFFICES ASSUME ~lost
                 PROVE  /\ \A u \in Mutators : \A h \in Held(u)' : handle'[h] = "live"
                        /\ \A p \in Objects : handle'[p] = "live" /\ field'[p] # Null =>
                              handle'[field'[p]] = "live"
    BY <2>2 DEF NothingDangles
  <2>7. \A u \in Mutators : \A h \in Held(u)' : handle'[h] = "live"
    <3> SUFFICES ASSUME NEW u \in Mutators, NEW h \in Held(u)'
                 PROVE  handle'[h] = "live"
      OBVIOUS
    <3>1. h \in Held(u) \/ h = o
      BY <2>5
    <3> QED
      BY <1>a, <2>3, <2>6, <3>1 DEF NothingDangles
  <2>8. \A p \in Objects : handle'[p] = "live" /\ field'[p] # Null => handle'[field'[p]] = "live"
    <3> SUFFICES ASSUME NEW p \in Objects, handle'[p] = "live", field'[p] # Null
                 PROVE  handle'[field'[p]] = "live"
      OBVIOUS
    <3>1. CASE p = o
      <4>1. field'[p] = f
        BY <2>1, <3>1 DEF TypeOK
      <4> QED
        BY <2>3, <2>6, <4>1, ValuesLive
    <3>2. CASE p # o
      <4>1. field'[p] = field[p] /\ handle[p] = "live"
        BY <2>1, <3>2 DEF TypeOK
      <4>2. field[p] \in Objects /\ handle[field[p]] = "live"
        BY <4>1, <2>6 DEF NothingDangles, TypeOK, Handle
      <4> QED
        BY <2>3, <4>1, <4>2
    <3> QED
      BY <3>1, <3>2
  <2> QED
    BY <2>7, <2>8
<1>7. ASSUME Collect, UNCHANGED <<handle, field, lost>> PROVE NothingDangles'
  <2>1. \A u \in Mutators : Held(u)' = Held(u)
    BY <1>7, CollectorLeavesStacks DEF Held
  <2> QED
    BY <1>7, <1>a, <2>1, SameHolders
<1>8. CASE WaitDone \/ WaitTimeout
  <2>1. /\ \A o \in Objects : handle'[o] = "live" <=> handle[o] = "live"
        /\ UNCHANGED <<field, lost, slots, assigned, reg>>
    BY <1>8 DEF WaitDone, WaitTimeout, BeginMarking, stacks, locals, TypeOK
  <2>2. \A u \in Mutators : Held(u)' = Held(u)
    BY <2>1 DEF Held
  <2>3. \A o \in Objects : field[o] \in Objects \cup {Null}
    BY DEF TypeOK, Handle
  <2> QED
    BY <1>a, <2>1, <2>2, <2>3 DEF NothingDangles
<1>9. CASE Sweep
  <2>1. /\ \A o \in Objects : handle'[o] = IF o \in Swept THEN "retired" ELSE handle[o]
        /\ \A o \in Objects : field'[o] = IF o \in Swept THEN Null ELSE field[o]
        /\ UNCHANGED <<slots, assigned, reg>>
        /\ lost' = (lost \/ Swept \cap Needed # {})
    BY <1>9 DEF Sweep, stacks, locals
  <2>2. \A u \in Mutators : Held(u)' = Held(u)
    BY <2>1 DEF Held
  <2>3. SUFFICES ASSUME ~lost'
                 PROVE  /\ \A u \in Mutators : \A h \in Held(u) : handle'[h] = "live"
                        /\ \A p \in Objects : handle'[p] = "live" /\ field'[p] # Null =>
                              handle'[field'[p]] = "live"
    BY <2>2 DEF NothingDangles
  <2>4. ~lost /\ Swept \cap Needed = {}
    BY <2>1, <2>3
  <2>5. \A u \in Mutators : \A h \in Held(u) : h \notin Swept
    BY <2>4 DEF Needed
  <2>6. ASSUME NEW p \in Objects, handle[p] = "live", p \notin Swept
        PROVE  field[p] \notin Swept
    <3>1. field[p] \in Needed
      BY <2>6 DEF Needed
    <3> QED
      BY <2>4, <3>1
  <2>7. \A p \in Objects : handle'[p] = "live" => p \notin Swept /\ handle[p] = "live" /\ field'[p] = field[p]
    BY <2>1
  <2>8. \A p \in Objects : field[p] # Null => field[p] \in Objects
    BY DEF TypeOK, Handle
  <2>9. \A u \in Mutators : \A h \in Held(u) : handle'[h] = "live"
    BY <1>a, <2>1, <2>4, <2>5 DEF NothingDangles
  <2>10. \A p \in Objects : handle'[p] = "live" /\ field'[p] # Null => handle'[field'[p]] = "live"
    BY <2>1, <2>4, <2>6, <2>7, <2>8 DEF NothingDangles
  <2> QED
    BY <2>9, <2>10
<1>10. CASE UNCHANGED vars
  <2>1. \A u \in Mutators : Held(u)' = Held(u)
    BY <1>10 DEF Held, vars, stacks, locals
  <2> QED
    BY <1>10, <1>a, <2>1, SameHolders DEF vars, heap, history
<1>11. ASSUME Collect, ~Sweep, ~WaitDone, ~WaitTimeout PROVE UNCHANGED <<handle, field, lost>>
  BY <1>11
  DEF Collect, BeginCycle, BeginWatermark, ScanThread, ScanSlot, Drain, BeginSweep, ResetActive,
      ResetSlot, EndCycle, heap, history
<1> QED
  BY <1>1, <1>2, <1>3, <1>4, <1>5, <1>6, <1>7, <1>8, <1>9, <1>10, <1>11 DEF Next, Mutate

(* What an attempt to mark an object does: a covered object in use stays   *)
(* covered, the object is traced if it is in use, and its field is covered.*)
LEMMA MarkCovers ==
  ASSUME TypeOK, NothingDangles, FieldsCovered, ~lost, gcpc = "scan",
         NEW x \in Handle, MarkObject(x),
         UNCHANGED <<gc_current_mark_value, handle, field>>
  PROVE  /\ \A p \in Objects : handle[p] = "live" /\ Covered(p) => Covered(p)'
         /\ x \in Objects /\ handle[x] = "live" => Covered(x)'
         /\ \A p \in Objects : handle[p] = "live" /\ Marked(p)' /\ field[p] # Null => Covered(field[p])'
<1>a. /\ gc_current_mark_value \in Nat /\ \A o \in Objects : generation[o] \in Nat
      /\ \A o \in Objects : field[o] \in Objects \cup {Null}
  BY BoundsKnown DEF TypeOK, Handle
<1>b. \A p \in Objects : handle[p] = "live" /\ field[p] # Null =>
        field[p] \in Objects /\ handle[field[p]] = "live"
  BY <1>a DEF NothingDangles
<1>1. CASE x \in Objects /\ handle[x] = "live" /\ ~Marked(x)
  <2>1. /\ generation'[x] = gc_current_mark_value + 1
        /\ \A p \in Objects \ {x} : generation'[p] = generation[p]
        /\ worklist' = (worklist \ {x}) \cup ({field[x]} \ {Null})
    BY <1>1 DEF MarkObject, TypeOK
  <2>2. Marked(x)' /\ \A p \in Objects \ {x} : Marked(p)' <=> Marked(p)
    BY <1>a, <2>1 DEF Marked
  <2>3. \A p \in Objects : Covered(p) => Covered(p)'
    BY <2>1, <2>2 DEF Covered
  <2>4. field[x] # Null => Covered(field[x])'
    BY <2>1 DEF Covered
  <2>5. \A p \in Objects : handle[p] = "live" /\ Marked(p)' /\ field[p] # Null => Covered(field[p])'
    BY <1>b, <2>2, <2>3, <2>4 DEF FieldsCovered
  <2> QED
    BY <2>2, <2>3, <2>5 DEF Covered
<1>2. CASE ~(x \in Objects /\ handle[x] = "live" /\ ~Marked(x))
  <2>1. worklist' = worklist \ {x} /\ UNCHANGED generation
    BY <1>2 DEF MarkObject
  <2>2. \A p \in Objects : Marked(p)' <=> Marked(p)
    BY <2>1 DEF Marked
  <2>3. \A p \in Objects : handle[p] = "live" /\ Covered(p) => Covered(p)'
    BY <1>2, <2>1, <2>2 DEF Covered
  <2>4. \A p \in Objects : handle[p] = "live" /\ Marked(p)' /\ field[p] # Null => Covered(field[p])'
    BY <1>b, <2>2, <2>3 DEF FieldsCovered
  <2>5. x \in Objects /\ handle[x] = "live" => Covered(x)'
    BY <1>2, <2>2 DEF Covered
  <2> QED
    BY <2>3, <2>4, <2>5
<1> QED
  BY <1>1, <1>2

(* What the scan and the drain mark is a handle.                           *)
LEMMA ScannedSlot ==
  ASSUME TypeOK, CycleKnown, ScanSlot
  PROVE  /\ gcpc = "scan" /\ scanning.thread \in Mutators /\ scanning.next \in Slot
         /\ slots[scanning.thread][scanning.next] \in Handle
         /\ scanning'.thread = scanning.thread /\ scanning'.next = scanning.next + 1
         /\ scanning'.upto = scanning.upto
<1>1. gcpc = "scan" /\ scanning.thread \in Mutators /\ scanning.next <= scanning.upto
  BY DEF ScanSlot, CycleKnown, Scanned, TypeOK
<1>2. scanning.next \in Slot
  BY <1>1, BoundsKnown DEF TypeOK, Slot
<1>3. scanning' = [scanning EXCEPT !.next = scanning.next + 1]
  BY DEF ScanSlot
<1> QED
  BY <1>1, <1>2, <1>3 DEF TypeOK

(* An object is born with a generation that is not past the mark value,    *)
(* in a place where nothing covered was.                                   *)
LEMMA BirthEffect ==
  ASSUME TypeOK, GenerationsBounded, NEW t \in Mutators, AllocPublish(t)
  PROVE  \E o \in Objects : /\ handle[o] = "free" /\ ~Marked(o)'
                            /\ \A p \in Objects \ {o} : /\ handle'[p] = handle[p] /\ field'[p] = field[p]
                                                        /\ Marked(p)' <=> Marked(p)
<1>1. PICK o \in Objects, f \in Values(t) \cup {Null} :
        /\ handle[o] = "free" /\ handle' = [handle EXCEPT ![o] = "live"]
        /\ generation' = [generation EXCEPT ![o] = stamp[t]]
        /\ field' = [field EXCEPT ![o] = f]
  BY DEF AllocPublish
<1>2. gc_current_mark_value' = gc_current_mark_value
  BY DEF AllocPublish, collector
<1>3. stamp[t] <= gc_current_mark_value /\ stamp[t] \in Nat /\ gc_current_mark_value \in Nat
  BY BoundsKnown DEF GenerationsBounded, TypeOK
<1>4. ~Marked(o)' /\ \A p \in Objects \ {o} : Marked(p)' <=> Marked(p)
  BY <1>1, <1>2, <1>3 DEF Marked, TypeOK
<1> QED
  BY <1>1, <1>4 DEF TypeOK

(* A traced object refers to covered ones, whatever is allocated, assigned *)
(* and popped during the marking.                                          *)
LEMMA FieldsStep ==
  ASSUME TypeOK, CycleKnown, GenerationsBounded, NothingDangles, FieldsCovered, [Next]_vars
  PROVE  FieldsCovered'
<1>a. /\ gc_current_mark_value \in Nat /\ \A o \in Objects : generation[o] \in Nat
      /\ \A o \in Objects : field[o] \in Objects \cup {Null}
  BY BoundsKnown DEF TypeOK, Handle
<1>1. ASSUME UNCHANGED <<gc_current_mark_value, generation, field, worklist, lost>>,
             \A o \in Objects : handle'[o] = "live" <=> handle[o] = "live",
             gcpc' \in {"scan", "sweep"} => gcpc \in {"scan", "sweep"}
      PROVE  FieldsCovered'
  BY <1>1 DEF FieldsCovered, Covered, Marked
<1>2. ASSUME NEW t \in Mutators, Mutate(t), ~AllocPublish(t) PROVE FieldsCovered'
  <2>1. UNCHANGED collector
    BY <1>2, MutatorLeavesCollector
  <2>2. UNCHANGED heap
    BY <1>2
    DEF Mutate, SafepointPhase, SafepointAck, Push, PopPhase, PopCheck, PopSpin, PopStore, SetRoot,
        AllocStamp
  <2>3. CASE SafepointAck(t) \/ PopCheck(t)
    <3>1. lost' = lost
      BY <2>3 DEF SafepointAck, PopCheck, Acknowledge, history
    <3> QED
      BY <1>1, <2>1, <2>2, <3>1 DEF collector, heap
  <2>4. CASE ~SafepointAck(t) /\ ~PopCheck(t)
    <3>1. lost' = lost
      BY <1>2, <2>4
      DEF Mutate, SafepointPhase, Push, PopPhase, PopSpin, PopStore, SetRoot, AllocStamp, history
    <3> QED
      BY <1>1, <2>1, <2>2, <3>1 DEF collector, heap
  <2> QED
    BY <2>3, <2>4
<1>3. ASSUME NEW t \in Mutators, AllocPublish(t) PROVE FieldsCovered'
  <2>1. PICK o \in Objects :
          /\ handle[o] = "free" /\ ~Marked(o)'
          /\ \A p \in Objects \ {o} : /\ handle'[p] = handle[p] /\ field'[p] = field[p]
                                      /\ Marked(p)' <=> Marked(p)
    BY <1>3, BirthEffect
  <2>2. UNCHANGED <<gcpc, worklist, lost>>
    BY <1>3 DEF AllocPublish, collector, history
  <2>3. SUFFICES ASSUME gcpc \in {"scan", "sweep"}, ~lost, NEW p \in Objects,
                        handle'[p] = "live", Marked(p)', field'[p] # Null
                 PROVE  Covered(field[p])'
    BY <2>2 DEF FieldsCovered
  <2>4. p # o /\ field'[p] = field[p] /\ handle[p] = "live" /\ Marked(p) /\ field[p] # Null
    BY <2>1, <2>3
  <2>5. field[p] \in Objects /\ handle[field[p]] = "live" /\ Covered(field[p])
    BY <1>a, <2>3, <2>4 DEF NothingDangles, FieldsCovered
  <2>6. field[p] # o
    BY <2>1, <2>5
  <2> QED
    BY <2>1, <2>2, <2>4, <2>5, <2>6 DEF Covered
<1>4. CASE BeginCycle \/ BeginWatermark
  BY <1>4 DEF BeginCycle, BeginWatermark, GcGoto, FieldsCovered
<1>5. CASE WaitDone \/ WaitTimeout
  <2>1. gcpc = "wait" /\ UNCHANGED <<gc_current_mark_value, generation>>
    BY <1>5 DEF WaitDone, WaitTimeout, BeginMarking, GcGoto
  <2>2. \A o \in Objects : ~Marked(o)'
    BY <1>a, <2>1 DEF GenerationsBounded, Marked
  <2> QED
    BY <2>2 DEF FieldsCovered
<1>6. CASE ScanThread \/ BeginSweep
  BY <1>1, <1>6 DEF ScanThread, BeginSweep, GcGoto, heap, history
<1>7. ASSUME NEW x \in Handle, MarkObject(x), gcpc = "scan",
             UNCHANGED <<gcpc, gc_current_mark_value, handle, field, lost>>
      PROVE  FieldsCovered'
  <2> SUFFICES ASSUME ~lost
               PROVE  \A o \in Objects : handle[o] = "live" /\ Marked(o)' /\ field[o] # Null =>
                        Covered(field[o])'
    BY <1>7 DEF FieldsCovered
  <2> QED
    BY <1>7, MarkCovers
<1>8. CASE ScanSlot
  BY <1>7, <1>8, ScannedSlot DEF ScanSlot, history
<1>9. CASE Drain
  <2>1. PICK o \in worklist : MarkObject(o)
    BY <1>9 DEF Drain
  <2> QED
    BY <1>7, <1>9, <2>1 DEF Drain, history, TypeOK, Handle
<1>10. CASE Sweep \/ ResetActive \/ ResetSlot \/ EndCycle
  BY <1>10 DEF Sweep, ResetActive, ResetSlot, EndCycle, GcGoto, FieldsCovered
<1>11. CASE UNCHANGED vars
  BY <1>1, <1>11 DEF vars, collector, heap, history
<1> QED
  BY <1>2, <1>3, <1>4, <1>5, <1>6, <1>8, <1>9, <1>10, <1>11 DEF Next, Collect

(* What stayed in a variable is held, so it is in use.                     *)
LEMMA StableLive ==
  ASSUME TypeOK, StacksKnown, NothingDangles, ~lost,
         NEW t \in Mutators, NEW i \in stable[t], slots[t][i] # Null
  PROVE  i \in Slot /\ slots[t][i] \in Objects /\ handle[slots[t][i]] = "live"
<1>1. i \in assigned[t] /\ i \in Slot
  BY DEF TypeOK, StacksKnown
<1>2. slots[t][i] \in Held(t)
  BY <1>1 DEF Held
<1> QED
  BY <1>1, <1>2, ValuesAreHandles DEF NothingDangles

(* A step that leaves the scan where it is, that keeps covered objects     *)
(* covered and that adds variables of threads still to be scanned only.    *)
LEMMA SameScan ==
  ASSUME TypeOK, CycleKnown, StacksKnown, NothingDangles, StableCovered,
         UNCHANGED <<gcpc, scanning, queue, lost>>,
         \A t \in Mutators : \A i \in stable'[t] :
           t \in queue \/ (i \in stable[t] /\ slots'[t][i] = slots[t][i]),
         \A o \in Objects : handle[o] = "live" /\ Covered(o) => Covered(o)'
  PROVE  StableCovered'
<1> SUFFICES ASSUME gcpc \in {"scan", "sweep"}, NEW t \in Mutators, NEW i \in stable'[t]
             PROVE  /\ scanning.thread = t => i <= scanning.upto
                    /\ ~lost /\ Passed(t, i) /\ slots'[t][i] # Null => Covered(slots[t][i])'
  BY DEF StableCovered, Passed
<1>1. CASE t \in queue
  <2>1. scanning.thread # t /\ ~Passed(t, i)
    BY <1>1 DEF CycleKnown, Passed
  <2> QED
    BY <2>1
<1>2. CASE i \in stable[t] /\ slots'[t][i] = slots[t][i]
  <2>1. /\ scanning.thread = t => i <= scanning.upto
        /\ ~lost /\ Passed(t, i) /\ slots[t][i] # Null => Covered(slots[t][i])
    BY <1>2 DEF StableCovered
  <2>2. ASSUME ~lost, Passed(t, i), slots[t][i] # Null
        PROVE  Covered(slots[t][i])'
    <3>1. PICK x \in Objects : x = slots[t][i] /\ handle[x] = "live" /\ Covered(x)
      BY <1>2, <2>1, <2>2, StableLive
    <3>2. Covered(x)' /\ slots'[t][i] = x
      BY <1>2, <3>1
    <3> QED
      BY <3>2 DEF Covered, Marked
  <2> QED
    BY <1>2, <2>1, <2>2
<1> QED
  BY <1>1, <1>2

(* The scan passes no variable that has kept its value since its thread    *)
(* acknowledged, whatever the thread does with the others.                 *)
LEMMA StableStep ==
  ASSUME TypeOK, CycleKnown, StacksKnown, Acknowledged, GenerationsBounded, NothingDangles,
         FieldsCovered, StableCovered, [Next]_vars
  PROVE  StableCovered'
<1>a. Null \notin Mutators
  BY NullAssumption
<1>b. ASSUME UNCHANGED <<gc_current_mark_value, generation, worklist>>
      PROVE  \A o \in Objects : handle[o] = "live" /\ Covered(o) => Covered(o)'
  BY <1>b DEF Covered, Marked
<1>1. ASSUME NEW t \in Mutators, Mutate(t), ~AllocPublish(t)
      PROVE  \A o \in Objects : handle[o] = "live" /\ Covered(o) => Covered(o)'
  <2>1. UNCHANGED collector
    BY <1>1, MutatorLeavesCollector
  <2>2. UNCHANGED heap
    BY <1>1
    DEF Mutate, SafepointPhase, SafepointAck, Push, PopPhase, PopCheck, PopSpin, PopStore, SetRoot,
        AllocStamp
  <2> QED
    BY <1>b, <2>1, <2>2 DEF collector, heap
<1>2. ASSUME NEW t \in Mutators, SafepointAck(t) \/ PopCheck(t) PROVE StableCovered'
  <2>1. /\ IF watermark_active[t] THEN UNCHANGED <<marks, history>> ELSE Acknowledge(t)
        /\ UNCHANGED <<gcpc, scanning, queue, slots>>
    BY <1>2 DEF SafepointAck, PopCheck, collector, stacks
  <2>2. /\ \A u \in Mutators \ {t} : stable'[u] = stable[u]
        /\ \/ stable'[t] = stable[t] \/ stable'[t] = {}
           \/ gcpc = "wait" \/ (gcpc \in {"scan", "sweep"} /\ t \in queue)
        /\ lost' = lost
    BY <2>1, AcknowledgeEffect
  <2>3. CASE gcpc = "wait"
    BY <2>1, <2>3 DEF StableCovered
  <2>4. CASE gcpc # "wait"
    <3>1. \A u \in Mutators : \A i \in stable'[u] :
            u \in queue \/ (i \in stable[u] /\ slots'[u][i] = slots[u][i])
      BY <2>1, <2>2, <2>4
    <3>2. \A o \in Objects : handle[o] = "live" /\ Covered(o) => Covered(o)'
      <4>1. ~AllocPublish(t) /\ Mutate(t)
        BY <1>2 DEF SafepointAck, PopCheck, AllocPublish, Goto, Mutate
      <4> QED
        BY <1>1, <4>1
    <3> QED
      BY <2>1, <2>2, <3>1, <3>2, SameScan
  <2> QED
    BY <2>3, <2>4
<1>3. ASSUME NEW t \in Mutators,
             SafepointPhase(t) \/ PopPhase(t) \/ PopSpin(t) \/ PopStore(t) \/ AllocStamp(t)
      PROVE  StableCovered'
  <2>1. UNCHANGED <<gcpc, scanning, queue, lost, slots>>
    BY <1>3 DEF SafepointPhase, PopPhase, PopSpin, PopStore, AllocStamp, collector, stacks, history
  <2>2. \A u \in Mutators : stable'[u] \subseteq stable[u]
    BY <1>3 DEF SafepointPhase, PopPhase, PopSpin, PopStore, AllocStamp, history, TypeOK
  <2>3. \A o \in Objects : handle[o] = "live" /\ Covered(o) => Covered(o)'
    <3>1. UNCHANGED <<gc_current_mark_value, generation, worklist>>
      BY <1>3 DEF SafepointPhase, PopPhase, PopSpin, PopStore, AllocStamp, collector, heap
    <3> QED
      BY <1>b, <3>1
  <2> QED
    BY <2>1, <2>2, <2>3, SameScan
<1>4. ASSUME NEW t \in Mutators, Push(t) PROVE StableCovered'
  <2>1. UNCHANGED <<gcpc, scanning, queue, lost, stable>>
    BY <1>4 DEF Push, collector, history
  <2>2. \A u \in Mutators : \A i \in stable'[u] : i \in stable[u] /\ slots'[u][i] = slots[u][i]
    <3> SUFFICES ASSUME NEW u \in Mutators, NEW i \in stable[u]
                 PROVE  slots'[u][i] = slots[u][i]
      BY <2>1
    <3>1. i \in Slot /\ i <= slot_index[u] /\ slot_index[u] <= slot_count[u]
          /\ slot_index[u] \in Nat /\ slot_count[u] \in Nat /\ i \in Nat
      BY BoundsKnown DEF TypeOK, StacksKnown, Slot
    <3>2. i # slot_count[u] + 1
      BY <3>1
    <3> QED
      BY <1>4, <3>1, <3>2 DEF Push, TypeOK
  <2>3. \A o \in Objects : handle[o] = "live" /\ Covered(o) => Covered(o)'
    BY <1>b, <1>4 DEF Push, collector, heap
  <2> QED
    BY <2>1, <2>2, <2>3, SameScan
<1>5. ASSUME NEW t \in Mutators, SetRoot(t) PROVE StableCovered'
  <2>1. PICK i \in 1 .. slot_index[t], v \in Values(t) :
          /\ slots' = [slots EXCEPT ![t][i] = v]
          /\ stable' = [stable EXCEPT ![t] = @ \ {i}]
    BY <1>5 DEF SetRoot
  <2>2. UNCHANGED <<gcpc, scanning, queue, lost>>
    BY <1>5 DEF SetRoot, collector
  <2>3. \A u \in Mutators : \A j \in stable'[u] : j \in stable[u] /\ slots'[u][j] = slots[u][j]
    BY <2>1 DEF TypeOK
  <2>4. \A o \in Objects : handle[o] = "live" /\ Covered(o) => Covered(o)'
    BY <1>b, <1>5 DEF SetRoot, collector, heap
  <2> QED
    BY <2>2, <2>3, <2>4, SameScan
<1>6. ASSUME NEW t \in Mutators, AllocPublish(t) PROVE StableCovered'
  <2>1. UNCHANGED <<gcpc, scanning, queue, lost, stable, slots, worklist>>
    BY <1>6 DEF AllocPublish, collector, history, stacks
  <2>2. PICK o \in Objects :
          /\ handle[o] = "free"
          /\ \A p \in Objects \ {o} : Marked(p)' <=> Marked(p)
    BY <1>6, BirthEffect
  <2>3. \A p \in Objects : handle[p] = "live" /\ Covered(p) => Covered(p)'
    BY <2>1, <2>2 DEF Covered
  <2> QED
    BY <2>1, <2>3, SameScan
<1>7. CASE BeginCycle \/ BeginWatermark
  BY <1>7 DEF BeginCycle, BeginWatermark, GcGoto, StableCovered
<1>8. CASE WaitDone \/ WaitTimeout
  <2>1. queue' = Mutators /\ scanning' = NoStack
    BY <1>8 DEF WaitDone, WaitTimeout, BeginMarking, GcGoto, CycleKnown
  <2>2. \A t \in Mutators : \A i \in stable'[t] : scanning'.thread # t /\ t \in queue'
    BY <1>a, <2>1 DEF NoStack
  <2> QED
    BY <2>2 DEF StableCovered, Passed
<1>9. CASE ScanThread
  <2>1. PICK t \in queue :
          /\ scanning' = [thread |-> t, next |-> 1, upto |-> slot_index[t]]
          /\ queue' = queue \ {t}
    BY <1>9 DEF ScanThread
  <2>2. gcpc = "scan" /\ Scanned /\ UNCHANGED <<gcpc, lost, stable, slots, worklist, generation, gc_current_mark_value>>
    BY <1>9 DEF ScanThread, history, heap, stacks
  <2> SUFFICES ASSUME NEW u \in Mutators, NEW i \in stable[u]
               PROVE  /\ t = u => i <= slot_index[t]
                      /\ ~lost /\ Passed(u, i)' /\ slots[u][i] # Null => Covered(slots[u][i])
    BY <2>1, <2>2 DEF StableCovered, Covered, Marked
  <2>3. i \in 1 .. slot_index[u] /\ slot_index[u] \in Nat
    BY BoundsKnown DEF StacksKnown, TypeOK
  <2>4. CASE u = t
    BY <2>1, <2>3, <2>4 DEF Passed
  <2>5. CASE u # t
    <3>1. Passed(u, i)' => u \notin queue
      BY <2>1, <2>5 DEF Passed
    <3>2. scanning.thread = u => i <= scanning.upto /\ scanning.upto < scanning.next
      BY <2>2, BoundsKnown DEF StableCovered, Scanned, TypeOK
    <3>3. scanning.upto \in Nat /\ scanning.next \in Nat
      BY BoundsKnown DEF TypeOK
    <3>4. Passed(u, i)' => Passed(u, i)
      BY <2>3, <3>1, <3>2, <3>3 DEF Passed
    <3> QED
      BY <2>2, <2>5, <3>4 DEF StableCovered
  <2> QED
    BY <2>4, <2>5
<1>10. CASE ScanSlot
  <2> DEFINE x == slots[scanning.thread][scanning.next]
  <2>1. /\ gcpc = "scan" /\ scanning.thread \in Mutators /\ scanning.next \in Slot /\ x \in Handle
        /\ scanning'.thread = scanning.thread /\ scanning'.next = scanning.next + 1
        /\ scanning'.upto = scanning.upto
    BY <1>10, ScannedSlot
  <2>2. /\ MarkObject(x)
        /\ UNCHANGED <<gcpc, queue, gc_current_mark_value, handle, field, lost, stable, slots>>
    BY <1>10 DEF ScanSlot, history, stacks
  <2> SUFFICES ASSUME NEW u \in Mutators, NEW i \in stable[u]
               PROVE  /\ scanning.thread = u => i <= scanning.upto
                      /\ ~lost /\ Passed(u, i)' /\ slots[u][i] # Null => Covered(slots[u][i])'
    BY <2>1, <2>2 DEF StableCovered, Covered, Marked
  <2>3. i \in 1 .. slot_index[u] /\ slot_index[u] \in Nat
    BY BoundsKnown DEF StacksKnown, TypeOK
  <2>4. SUFFICES ASSUME ~lost, Passed(u, i)', slots[u][i] # Null
                 PROVE  Covered(slots[u][i])'
    BY <2>1 DEF StableCovered
  <2>5. PICK v \in Objects : v = slots[u][i] /\ handle[v] = "live"
    BY <2>4, StableLive
  <2>6. /\ \A p \in Objects : handle[p] = "live" /\ Covered(p) => Covered(p)'
        /\ x = v => Covered(v)'
    <3>1. PICK y \in Handle : y = x
      BY <2>1
    <3> QED
      BY <2>1, <2>2, <2>4, <2>5, <3>1, MarkCovers
  <2>7. Covered(v) \/ x = v
    <3>1. CASE Passed(u, i)
      BY <2>1, <2>4, <2>5, <3>1 DEF StableCovered
    <3>2. CASE ~Passed(u, i)
      <4>1. scanning.thread = u /\ i < scanning.next + 1 /\ ~(i < scanning.next)
        BY <2>1, <2>2, <2>4, <3>2 DEF Passed
      <4>2. scanning.next \in Nat
        BY BoundsKnown DEF TypeOK
      <4>3. i = scanning.next
        BY <2>3, <4>1, <4>2
      <4> QED
        BY <2>5, <4>1, <4>3
    <3> QED
      BY <3>1, <3>2
  <2>8. Covered(v)' /\ slots'[u][i] = v
    BY <2>2, <2>5, <2>6, <2>7
  <2> QED
    BY <2>8 DEF Covered, Marked
<1>11. CASE Drain
  <2>1. PICK o \in worklist : MarkObject(o)
    BY <1>11 DEF Drain
  <2>2. gcpc = "scan" /\ UNCHANGED <<gcpc, scanning, queue, gc_current_mark_value, handle, field, lost, stable, slots>>
    BY <1>11 DEF Drain, history, stacks
  <2>3. CASE lost
    BY <2>2, <2>3 DEF StableCovered
  <2>4. CASE ~lost
    <3>1. \A p \in Objects : handle[p] = "live" /\ Covered(p) => Covered(p)'
      BY <2>1, <2>2, <2>4, MarkCovers DEF TypeOK, Handle
    <3> QED
      BY <2>2, <3>1, SameScan
  <2> QED
    BY <2>3, <2>4
<1>12. CASE BeginSweep
  <2>1. /\ gcpc = "scan" /\ queue = {} /\ Scanned /\ scanning' = NoStack
        /\ UNCHANGED <<lost, stable, slots, worklist, generation, gc_current_mark_value>>
    BY <1>12 DEF BeginSweep, GcGoto, history, heap, stacks
  <2>2. \A t \in Mutators : scanning'.thread # t
    BY <1>a, <2>1 DEF NoStack
  <2>3. \A t \in Mutators : \A i \in stable[t] : Passed(t, i)
    <3> SUFFICES ASSUME NEW t \in Mutators, NEW i \in stable[t], scanning.thread = t
                 PROVE  i < scanning.next
      BY <2>1 DEF Passed
    <3>1. i <= scanning.upto /\ scanning.upto < scanning.next
      BY <2>1, BoundsKnown DEF StableCovered, Scanned, TypeOK
    <3>2. i \in Nat /\ scanning.upto \in Nat /\ scanning.next \in Nat
      BY BoundsKnown DEF TypeOK, Slot
    <3> QED
      BY <3>1, <3>2
  <2> QED
    BY <2>1, <2>2, <2>3 DEF StableCovered, Covered, Marked
<1>13. CASE Sweep \/ ResetActive \/ ResetSlot \/ EndCycle
  BY <1>13 DEF Sweep, ResetActive, ResetSlot, EndCycle, GcGoto, StableCovered
<1>14. CASE UNCHANGED vars
  BY <1>14, <1>b, SameScan DEF vars, collector, stacks, heap, history
<1> QED
  BY <1>2, <1>3, <1>4, <1>5, <1>6, <1>7, <1>8, <1>9, <1>10, <1>11, <1>12, <1>13, <1>14
  DEF Next, Mutate, Collect

(* An allocation that raced with the new generation is over when its       *)
(* thread acknowledges; each marking adds at most one miss.                *)
LEMMA MissesStep ==
  ASSUME TypeOK, CycleKnown, Acknowledged, GenerationsBounded, MissesCounted, [Next]_vars
  PROVE  MissesCounted'
<1>a. /\ gc_current_mark_value \in Nat
      /\ \A o \in Objects : generation[o] \in Nat /\ missed[o] \in Nat
      /\ \A t \in Mutators : stamp[t] \in Nat
  BY BoundsKnown DEF TypeOK
<1>1. ASSUME NEW t \in Mutators, SafepointAck(t) \/ PopCheck(t) PROVE MissesCounted'
  <2>1. /\ UNCHANGED <<gcpc, gc_current_mark_value, handle, generation, stamp, missed, lapsed>>
        /\ heard' \subseteq heard \cup {t}
    BY <1>1 DEF SafepointAck, PopCheck, Acknowledge, collector, heap, history
  <2>2. pc'[t] # "alloc" /\ \A u \in Mutators \ {t} : pc'[u] = pc[u]
    BY <1>1 DEF SafepointAck, PopCheck, Goto, TypeOK
  <2> QED
    BY <2>1, <2>2 DEF MissesCounted, Collecting
<1>2. ASSUME NEW t \in Mutators,
             SafepointPhase(t) \/ Push(t) \/ PopPhase(t) \/ PopSpin(t) \/ PopStore(t) \/ SetRoot(t)
      PROVE  MissesCounted'
  <2>1. UNCHANGED <<gcpc, gc_current_mark_value, handle, generation, stamp, missed, lapsed, heard>>
    BY <1>2
    DEF SafepointPhase, Push, PopPhase, PopSpin, PopStore, SetRoot, collector, locals, heap, history
  <2>2. \A u \in Mutators : pc'[u] = "alloc" => pc[u] = "alloc"
    BY <1>2 DEF SafepointPhase, Push, PopPhase, PopSpin, PopStore, SetRoot, Goto, locals, TypeOK
  <2> QED
    BY <2>1, <2>2 DEF MissesCounted, Collecting
<1>3. ASSUME NEW t \in Mutators, AllocStamp(t) PROVE MissesCounted'
  <2>1. UNCHANGED <<gcpc, gc_current_mark_value, handle, generation, missed, lapsed, heard>>
    BY <1>3 DEF AllocStamp, collector, heap, history
  <2>2. /\ stamp'[t] = gc_current_mark_value
        /\ \A u \in Mutators \ {t} : pc'[u] = pc[u] /\ stamp'[u] = stamp[u]
    BY <1>3 DEF AllocStamp, Goto, TypeOK
  <2> QED
    BY <1>a, <2>1, <2>2 DEF MissesCounted, Collecting
<1>4. ASSUME NEW t \in Mutators, AllocPublish(t) PROVE MissesCounted'
  <2>1. PICK o \in Objects :
          /\ handle[o] = "free" /\ handle' = [handle EXCEPT ![o] = "live"]
          /\ generation' = [generation EXCEPT ![o] = stamp[t]]
    BY <1>4 DEF AllocPublish
  <2>2. UNCHANGED <<gcpc, gc_current_mark_value, missed, lapsed, heard>>
    BY <1>4 DEF AllocPublish, collector, history
  <2>3. /\ pc[t] = "alloc" /\ pc'[t] = "run"
        /\ \A u \in Mutators \ {t} : pc'[u] = pc[u] /\ stamp'[u] = stamp[u]
    BY <1>4 DEF AllocPublish, Goto, TypeOK
  <2>4. /\ handle'[o] = "live" /\ generation'[o] = stamp[t] /\ missed[o] = 0
        /\ \A p \in Objects \ {o} : handle'[p] = handle[p] /\ generation'[p] = generation[p]
    BY <2>1 DEF TypeOK, MissesCounted
  <2>5. ~lapsed => gc_current_mark_value <= generation'[o] + missed[o] + (IF Collecting THEN 1 ELSE 0)
    BY <1>a, <2>3, <2>4 DEF MissesCounted, Collecting
  <2> QED
    BY <2>2, <2>3, <2>4, <2>5 DEF MissesCounted, Collecting
<1>5. CASE BeginCycle
  <2>1. /\ gcpc = "idle" /\ gcpc' = "begun" /\ gc_current_mark_value' = gc_current_mark_value + 1
        /\ UNCHANGED <<handle, generation, pc, stamp, missed, lapsed, heard>>
    BY <1>5 DEF BeginCycle, GcGoto, locals, heap, history
  <2>2. heard = {}
    BY <2>1 DEF Acknowledged
  <2> QED
    BY <1>a, <2>1, <2>2 DEF MissesCounted, Collecting
<1>6. CASE BeginWatermark
  BY <1>6 DEF BeginWatermark, GcGoto, locals, heap, history, MissesCounted, Collecting
<1>7. CASE WaitDone \/ WaitTimeout
  <2>1. /\ gcpc = "wait" /\ gcpc' = "scan"
        /\ UNCHANGED <<gc_current_mark_value, generation, pc, stamp, missed, heard>>
        /\ ~lapsed' => ~lapsed /\ heard = Mutators
    BY <1>7 DEF WaitDone, WaitTimeout, BeginMarking, GcGoto, locals
  <2>2. \A o \in Objects : handle'[o] = "live" <=> handle[o] = "live"
    BY <1>7 DEF WaitDone, WaitTimeout, BeginMarking
  <2>3. \A o \in Objects : handle'[o] # "live" => missed'[o] = 0
    BY <2>1, <2>2 DEF MissesCounted
  <2>4. ~lapsed' => \A o \in Objects : handle'[o] = "live" =>
                       gc_current_mark_value <= generation[o] + missed[o] + 1
    BY <2>1, <2>2 DEF MissesCounted, Collecting
  <2>5. ~lapsed' => \A t \in Mutators : pc[t] = "alloc" => gc_current_mark_value <= stamp[t]
    BY <2>1 DEF MissesCounted
  <2> QED
    BY <1>a, <2>1, <2>3, <2>4, <2>5 DEF MissesCounted, Collecting
<1>8. CASE ScanThread \/ BeginSweep
  BY <1>8 DEF ScanThread, BeginSweep, GcGoto, locals, heap, history, MissesCounted, Collecting
<1>9. CASE ScanSlot \/ Drain
  <2>1. PICK x : MarkObject(x)
    BY <1>9 DEF ScanSlot, Drain
  <2>2. UNCHANGED <<gcpc, gc_current_mark_value, handle, pc, stamp, missed, lapsed, heard>>
    BY <1>9 DEF ScanSlot, Drain, locals, history
  <2>3. \A o \in Objects : generation'[o] = generation[o]
                           \/ (generation'[o] = gc_current_mark_value + 1 /\ ~Marked(o))
    BY <2>1 DEF MarkObject, TypeOK
  <2>4. \A o \in Objects : generation'[o] \in Nat /\ generation[o] <= generation'[o]
    BY <1>a, <2>3 DEF Marked
  <2> QED
    BY <1>a, <2>2, <2>4 DEF MissesCounted, Collecting
<1>10. CASE Sweep
  <2>1. /\ gcpc = "sweep" /\ gcpc' = "reset" /\ heard' = {}
        /\ UNCHANGED <<gc_current_mark_value, pc, stamp, lapsed>>
    BY <1>10 DEF Sweep, GcGoto, locals
  <2>2. \A o \in Objects :
          /\ handle'[o] = IF o \in Swept THEN "retired" ELSE handle[o]
          /\ generation'[o] = IF o \in Swept THEN 0 ELSE generation[o]
          /\ missed'[o] = IF handle[o] # "live" \/ o \in Swept \/ Marked(o) THEN 0 ELSE missed[o] + 1
    BY <1>10 DEF Sweep
  <2>3. \A o \in Objects : handle'[o] # "live" => missed'[o] = 0
    BY <2>2
  <2>4. ~lapsed => \A o \in Objects : handle'[o] = "live" =>
                      gc_current_mark_value <= generation'[o] + missed'[o]
    BY <1>a, <2>1, <2>2 DEF MissesCounted, Collecting, Marked
  <2> QED
    BY <1>a, <2>1, <2>2, <2>3, <2>4 DEF MissesCounted, Collecting
<1>11. CASE ResetActive \/ ResetSlot \/ EndCycle
  BY <1>11
  DEF ResetActive, ResetSlot, EndCycle, GcGoto, locals, heap, history, MissesCounted, Collecting
<1>12. CASE UNCHANGED vars
  BY <1>12 DEF vars, collector, locals, heap, history, MissesCounted, Collecting
<1> QED
  BY <1>1, <1>2, <1>3, <1>4, <1>5, <1>6, <1>7, <1>8, <1>9, <1>10, <1>11, <1>12
  DEF Next, Mutate, Collect

-----------------------------------------------------------------------------
(* The theorems *)

(* At the start nothing is allocated and the collector is idle.            *)
LEMMA InvariantInit ==
  ASSUME Init
  PROVE  IInv
<1>a. MaxSlots \in Nat \ {0} /\ MaxPushes \in Nat /\ MaxCycles \in Nat \ {0} /\ Null \notin Mutators
  BY BoundsKnown, NullAssumption DEF Init
<1>1. NoStack \in [thread : Mutators \cup {Null}, next : 1 .. MaxSlots + 1, upto : 0 .. MaxSlots]
  BY <1>a DEF NoStack
<1>2. TypeOK
  <2>1. /\ bounds \in Bounds /\ gc_phase \in 0 .. 3 /\ gc_cycle_id \in 0 .. MaxCycles
        /\ gc_current_mark_value \in 1 .. MaxCycles + 1 /\ gcpc = "idle"
        /\ queue = {} /\ worklist = {} /\ heard = {} /\ scanning = NoStack
        /\ lapsed = FALSE /\ lost = FALSE
    BY <1>a DEF Init
  <2>2. Null \in Handle /\ 0 \in 0 .. MaxSlots /\ 0 \in 0 .. MaxPushes
        /\ 0 \in 0 .. MaxCycles + 1 /\ 0 \in 0 .. MaxCycles + 2
    BY <1>a DEF Handle
  <2>3. /\ slots \in [Mutators -> [Slot -> Handle]] /\ slot_index \in [Mutators -> 0 .. MaxSlots]
        /\ slot_count \in [Mutators -> 0 .. MaxPushes] /\ assigned \in [Mutators -> SUBSET Slot]
        /\ watermark_slot \in [Mutators -> 0 .. MaxSlots] /\ watermark_active \in [Mutators -> BOOLEAN]
    BY <2>2 DEF Init
  <2>4. /\ pc \in [Mutators -> {"run", "safe", "pop", "spin", "store", "alloc"}]
        /\ start \in [Mutators -> 0 .. MaxSlots] /\ stamp \in [Mutators -> 0 .. MaxCycles + 1]
        /\ reg \in [Mutators -> Handle] /\ stable \in [Mutators -> SUBSET Slot]
    BY <2>2 DEF Init
  <2>5. /\ handle \in [Objects -> {"free", "live", "retired"}]
        /\ generation \in [Objects -> 0 .. MaxCycles + 2] /\ field \in [Objects -> Handle]
        /\ missed \in [Objects -> Nat]
    BY <2>2 DEF Init
  <2> QED
    BY <1>1, <2>1, <2>3, <2>4, <2>5 DEF TypeOK
<1>3. CycleKnown
  BY <1>a DEF Init, CycleKnown, Scanned
<1>4. StacksKnown /\ Acknowledged
  BY <1>a DEF Init, StacksKnown, Acknowledged
<1>5. GenerationsBounded /\ FieldsCovered /\ StableCovered /\ MissesCounted
  BY DEF Init, GenerationsBounded, FieldsCovered, StableCovered, MissesCounted
<1>6. NothingDangles
  BY DEF Init, NothingDangles, Held
<1> QED
  BY <1>2, <1>3, <1>4, <1>5, <1>6 DEF IInv

(* Every step keeps the invariant.                                         *)
LEMMA InvariantStep ==
  ASSUME IInv, [Next]_vars
  PROVE  IInv'
<1> USE DEF IInv
<1>1. TypeOK'
  <2>1. CASE UNCHANGED vars
    BY <2>1
    DEF TypeOK, vars, collector, marks, stacks, locals, heap, history, Slot, MaxSlots, MaxPushes,
        MaxCycles
  <2>2. CASE Next
    BY <2>2, MutatorTypes, CollectorTypes DEF Next
  <2> QED
    BY <2>1, <2>2
<1>2. CycleKnown' /\ StacksKnown' /\ Acknowledged'
  BY <1>1, CycleStep, StacksStep, AcknowledgedStep
<1>3. GenerationsBounded' /\ NothingDangles' /\ FieldsCovered'
  BY GenerationsStep, DanglesStep, FieldsStep
<1>4. StableCovered' /\ MissesCounted'
  BY StableStep, MissesStep
<1> QED
  BY <1>1, <1>2, <1>3, <1>4

(* The inductive invariant holds of every state.                           *)
THEOREM Invariant == Spec => []IInv
<1>1. Init => IInv
  BY InvariantInit
<1>2. IInv /\ [Next]_vars => IInv'
  BY InvariantStep
<1> QED
  BY <1>1, <1>2, PTL DEF Spec

(* A thread never takes its stack below the watermark it acknowledged      *)
(* before the collector has reset it: gc_segment_pop waits.                *)
THEOREM WatermarkIsHeld == Spec => []WatermarkHeld
<1>1. IInv => WatermarkHeld
  BY DEF IInv, Acknowledged, WatermarkHeld
<1> QED
  BY <1>1, Invariant, PTL

(* A traced object refers to objects in use that are traced or about to    *)
(* be, however allocations race with the marking: gc_mark_object traces    *)
(* objects born marked.                                                    *)
THEOREM TracedIsTraced == Spec => []NoTracedToUntraced
<1>1. IInv => NoTracedToUntraced
  <2> SUFFICES ASSUME IInv, gcpc \in {"scan", "sweep"}, ~lost,
                      NEW o \in Objects, handle[o] = "live", Marked(o), field[o] # Null
               PROVE  handle[field[o]] = "live" /\ (Marked(field[o]) \/ field[o] \in worklist)
    BY DEF NoTracedToUntraced, IInv
  <2> QED
    BY DEF IInv, NothingDangles, FieldsCovered, Covered
<1> QED
  BY <1>1, Invariant, PTL

(* What a variable has held since its thread acknowledged is traced when   *)
(* the sweep begins, and so is all it refers to: the traced objects in use *)
(* are closed under the fields, and the scan put its value among them.     *)
THEOREM StableIsMarked == Spec => []StableRootMarked
<1>1. IInv => StableRootMarked
  <2> SUFFICES ASSUME IInv, gcpc = "sweep", ~lost, NEW t \in Mutators, NEW i \in stable[t],
                      slots[t][i] # Null, NEW o \in Reachable(slots[t][i])
               PROVE  handle[o] = "live" /\ Marked(o)
    BY DEF StableRootMarked
  <2> DEFINE S == {p \in Objects : handle[p] = "live" /\ Marked(p)}
  <2>1. Closed(S)
    <3> SUFFICES ASSUME NEW p \in S, field[p] # Null
                 PROVE  field[p] \in S
      BY DEF Closed
    <3>1. field[p] \in Objects /\ handle[field[p]] = "live" /\ Covered(field[p])
      BY DEF IInv, TypeOK, Handle, NothingDangles, FieldsCovered
    <3>2. worklist = {}
      BY DEF IInv, CycleKnown
    <3> QED
      BY <3>1, <3>2 DEF Covered
  <2>2. slots[t][i] \in S
    <3>1. Passed(t, i)
      BY NullAssumption DEF IInv, CycleKnown, Passed, NoStack
    <3>2. Covered(slots[t][i]) /\ worklist = {}
      BY <3>1 DEF IInv, StableCovered, CycleKnown
    <3>3. slots[t][i] \in Objects /\ handle[slots[t][i]] = "live"
      BY StableLive DEF IInv
    <3> QED
      BY <3>2, <3>3 DEF Covered
  <2>3. S \in SUBSET Objects
    OBVIOUS
  <2> HIDE DEF S
  <2>4. o \in S
    BY <2>1, <2>2, <2>3 DEF Reachable
  <2> QED
    BY <2>4 DEF S
<1> QED
  BY <1>1, Invariant, PTL

(* As long as every cycle has heard every thread, the sweep frees an       *)
(* object only after two markings have missed it: the grace of two         *)
(* generations covers an allocation that raced with the increment.         *)
THEOREM SweptAfterTwo == Spec => SurvivesTwoMisses
<1> DEFINE Grace == ~lapsed => \A o \in Objects :
                       handle[o] = "live" /\ handle'[o] = "retired" => missed[o] >= 2
<1>1. ASSUME IInv, [Next]_vars
      PROVE  [Grace]_vars
  <2> SUFFICES ASSUME Next, ~lapsed, NEW o \in Objects, handle[o] = "live", handle'[o] = "retired"
               PROVE  missed[o] >= 2
    BY <1>1
  <2>a. gc_current_mark_value \in Nat /\ generation[o] \in Nat /\ missed[o] \in Nat
    BY <1>1, BoundsKnown DEF IInv, TypeOK
  <2>1. CASE Sweep
    <3>1. o \in Swept /\ gcpc = "sweep"
      BY <2>1 DEF Sweep, GcGoto
    <3>2. generation[o] < gc_current_mark_value - 2
      BY <3>1 DEF Swept
    <3>3. gc_current_mark_value <= generation[o] + missed[o] + 1
      BY <1>1, <3>1 DEF IInv, MissesCounted, Collecting
    <3> QED
      BY <2>a, <3>2, <3>3
  <2>2. CASE WaitDone \/ WaitTimeout
    BY <2>2 DEF WaitDone, WaitTimeout, BeginMarking
  <2>3. ASSUME Collect, ~Sweep, ~WaitDone, ~WaitTimeout PROVE handle' = handle
    BY <2>3
    DEF Collect, BeginCycle, BeginWatermark, ScanThread, ScanSlot, Drain, BeginSweep, ResetActive,
        ResetSlot, EndCycle, heap
  <2>4. ASSUME NEW t \in Mutators, Mutate(t) PROVE handle'[o] # "retired"
    <3>1. CASE AllocPublish(t)
      BY <1>1, <3>1 DEF AllocPublish, IInv, TypeOK
    <3>2. CASE ~AllocPublish(t)
      <4>1. handle' = handle
        BY <2>4, <3>2
        DEF Mutate, SafepointPhase, SafepointAck, Push, PopPhase, PopCheck, PopSpin, PopStore,
            SetRoot, AllocStamp, heap
      <4> QED
        BY <4>1
    <3> QED
      BY <3>1, <3>2
  <2> QED
    BY <2>1, <2>2, <2>3, <2>4 DEF Next
<1> QED
  BY <1>1, Invariant, PTL DEF Spec, SurvivesTwoMisses
=============================================================================
