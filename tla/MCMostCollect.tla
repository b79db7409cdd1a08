--------------------------- MODULE MCMostCollect ---------------------------
(* A small instance of MostCollect: the value of a task tells its element. *)
EXTENDS MostCollect
MCValue == [i \in Tasks |-> 10 + i]
=============================================================================
