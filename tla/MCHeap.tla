------------------------------- MODULE MCHeap -------------------------------
(* Small instances of Heap: two threads; more objects than a buffer holds; *)
(* the collections an emptied buffer and a compacted one take to be        *)
(* unmapped; those an object takes to die where it was allocated.          *)
EXTENDS Heap

CONSTANTS t1, t2

Mixed == {[threads |-> {t1, t2}, objects |-> 2, cycles |-> 1, failures |-> FALSE],
          [threads |-> {t1}, objects |-> 3, cycles |-> 1, failures |-> FALSE],
          [threads |-> {t1}, objects |-> 2, cycles |-> 3, failures |-> TRUE],
          [threads |-> {t1}, objects |-> 1, cycles |-> 5, failures |-> TRUE]}

\* Nothing is claimed of a run in which a count went wrong or a thread did not answer.
Unlapsed == lapse = {}
=============================================================================
