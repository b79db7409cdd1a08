-------------------------- MODULE MCThreadRegistry --------------------------
(* Small instances of ThreadRegistry: three threads, whose stacks stay     *)
(* empty, for a collection; two, with frames, for as many collections as   *)
(* an entry takes to be deferred, swept and freed, and an acknowledgement  *)
(* to be mistaken for one of the next collection.                          *)
EXTENDS ThreadRegistry, TLC

Symmetry == Permutations(Threads)

Mixed == {[threads |-> 3, height |-> 0, cycles |-> 1], [threads |-> 2, height |-> 1, cycles |-> 3]}
=============================================================================
