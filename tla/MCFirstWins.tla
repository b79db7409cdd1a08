---------------------------- MODULE MCFirstWins ----------------------------
(* A small instance of FirstWins: the value of a task tells its index.     *)
EXTENDS FirstWins, TLC
MCValue == [i \in Tasks |-> 10 + i]
Threads == Permutations(Workers)
=============================================================================
