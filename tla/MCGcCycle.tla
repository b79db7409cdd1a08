----------------------------- MODULE MCGcCycle -----------------------------
(* Small instances of GcCycle: deep enough stacks for a root to be moved   *)
(* under the scan; enough collections for an object to be missed, to be    *)
(* retired and to be promoted.                                             *)
EXTENDS GcCycle, TLC

Symmetry == Permutations(Mutators) \cup Permutations(Objects)

Single == {[slots |-> 1, pushes |-> 1, cycles |-> 2]}

Mixed == {[slots |-> 2, pushes |-> 2, cycles |-> 2], [slots |-> 1, pushes |-> 2, cycles |-> 3],
          [slots |-> 1, pushes |-> 1, cycles |-> 4]}
=============================================================================
