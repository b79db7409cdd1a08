----------------------------- MODULE TaskDeque -----------------------------
(***************************************************************************)
(* What a worker's deque promises (runtime/coex_scheduler.h, "Deque        *)
(* Operations"): a double-ended queue whose owner pushes and pops at the   *)
(* bottom and from whose top the other workers steal, each operation as if *)
(* it happened at one instant.  The owner is told the deque is empty only  *)
(* when it is; a thief may also be turned away because of contention.      *)
(***************************************************************************)
EXTENDS Sequences, SequencesExt

CONSTANTS
  Task,    \* the tasks
  Owner,   \* the worker that owns the deque
  Thieves, \* the other workers
  Null     \* no task

VARIABLES
  contents,  \* from top (head) to bottom (last)
  got        \* what the last operation of each worker returned

Init == contents = <<>> /\ got = [p \in Thieves \cup {Owner} |-> Null]

PushBottom(x) == contents' = Append(contents, x) /\ UNCHANGED got

PopBottom ==
  \/ /\ contents # <<>> /\ contents' = Front(contents)
     /\ got' = [got EXCEPT ![Owner] = Last(contents)]
  \/ /\ contents = <<>> /\ UNCHANGED contents
     /\ got' = [got EXCEPT ![Owner] = Null]

Steal(p) ==
  \/ /\ contents # <<>> /\ contents' = Tail(contents)
     /\ got' = [got EXCEPT ![p] = Head(contents)]
  \/ /\ UNCHANGED contents
     /\ got' = [got EXCEPT ![p] = Null]

Next == (\E x \in Task : PushBottom(x)) \/ PopBottom \/ (\E p \in Thieves : Steal(p))

Spec == Init /\ [][Next]_<<contents, got>>
=============================================================================
