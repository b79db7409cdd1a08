--------------------------- MODULE MCCollections ---------------------------
EXTENDS Data

TextDef == <<"a", "a", "b", "c">>

MaxLenDef == [list |-> [int |-> 7, string |-> 4], array |-> [int |-> 3, string |-> 3]]

\* Digits that differ early, and digits that are shared to the last.
HashesDef ==
  {[word |-> << <<0, 0, 0>>, <<1, 0, 0>>, <<0, 1, 0>>, <<1, 1, 0>> >>,
    text |-> [a |-> <<0, 0, 1>>, b |-> <<1, 0, 1>>, c |-> <<0, 1, 1>>]],
   [word |-> << <<1, 1, 0>>, <<0, 1, 0>>, <<1, 1, 1>>, <<0, 0, 0>> >>,
    text |-> [a |-> <<1, 0, 0>>, b |-> <<0, 1, 1>>, c |-> <<1, 0, 1>>]]}

TypesDef ==
  {[kind |-> "map", elem |-> e, val |-> v] : e, v \in {"int", "string"}} \cup
  {[kind |-> k, elem |-> e, val |-> "int"] : k \in {"set", "list", "array"}, e \in {"int", "string"}}

PiecesDef == {<<"1">>, <<".">>, <<"L", "C">>, <<Quote>>, <<"[">>}

ScalarsDef ==
  {[tag |-> "bool", text |-> <<"t">>], [tag |-> "int", text |-> <<"-", "1">>],
   [tag |-> "string", text |-> <<"L", "C">>], [tag |-> "string", text |-> <<Quote>>]}

SourcesDef == {<<>>, <<3>>, <<1, 3, 3>>}
=============================================================================
