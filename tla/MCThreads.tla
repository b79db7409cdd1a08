----------------------------- MODULE MCThreads -----------------------------
EXTENDS Threads

S(op) == [op |-> op, n |-> 1]
G(op, n) == [op |-> op, n |-> n]

(* A first of three threads; each other statement with a bare call around; *)
(* early returns before and behind what is started; a nursery too small.   *)
MCPrograms ==
    { <<G("first", 3)>>, <<G("first", 0), G("first", 1)>>, <<S("bare"), G("first", 2)>>,
      <<G("map", 2), S("bare")>>, <<G("map", 3)>>, <<S("bare"), G("most", 2)>>, <<G("map", 0), S("call"), S("call")>>,
      <<S("bare"), S("return"), S("task"), S("return")>>, <<S("task"), S("bare"), S("return")>>,
      <<S("bare"), S("bare"), S("bare")>>, <<S("task"), S("task"), S("task")>>, <<S("return"), G("first", 2)>> }
============================================================================
