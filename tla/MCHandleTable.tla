--------------------------- MODULE MCHandleTable ---------------------------
(* Small instances of HandleTable: a table that grows, over two            *)
(* collections, and one that does not, over the four it takes for a handle *)
(* to be freed, popped, freed again and promoted.                          *)
EXTENDS HandleTable, TLC

GrowAndReuse == {[first |-> 2, largest |-> 4, cycles |-> 2], [first |-> 3, largest |-> 3, cycles |-> 4]}
GrowOnly     == {[first |-> 2, largest |-> 4, cycles |-> 1]}

Symmetry == Permutations(Threads)
=============================================================================
