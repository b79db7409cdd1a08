-------------------------- MODULE PersistentVector --------------------------
(***************************************************************************)
(* The lists of codegen/list.py: a trie of full leaves, of Branch elements *)
(* each, and a tail that the next elements go into. A list is never        *)
(* changed: an operation copies the path to what it changes and shares the *)
(* rest. Indices count from 0, as in the code.                             *)
(***************************************************************************)
EXTENDS Integers, Sequences, SequencesExt

CONSTANT Branch        \* the children of a node and the elements of a leaf: 32

ASSUME VectorAssumption == Branch \in Nat /\ Branch > 1

Nil       == <<>>
EmptyNode == [i \in 0 .. Branch - 1 |-> Nil]
list_new  == [root |-> Nil, depth |-> 0, tail |-> <<>>, len |-> 0]
list_len(l) == l.len

tail_start(l) == l.len - Len(l.tail)

\* Which child of a node of this level leads to the leaf.
Slot(leaf_idx, level) == (leaf_idx \div (Branch ^ level)) % Branch

\* A copy of the path to a leaf, with nodes where there were none.
RECURSIVE WithLeaf(_, _, _, _)
WithLeaf(node, level, leaf_idx, leaf) ==
  LET slot == Slot(leaf_idx, level)
      below == IF node[slot] = Nil THEN EmptyNode ELSE node[slot]
  IN [node EXCEPT ![slot] = IF level = 0 THEN leaf ELSE WithLeaf(below, level - 1, leaf_idx, leaf)]

RECURSIVE LeafOf(_, _, _)
LeafOf(node, level, leaf_idx) ==
  LET child == node[Slot(leaf_idx, level)]
  IN IF level = 0 THEN child ELSE LeafOf(child, level - 1, leaf_idx)

\* The tree grows one leaf too late (mutation).
Overfull(leaves, depth) == leaves > Branch ^ depth

TreeIsFull(leaves, depth) == leaves >= Branch ^ depth

\* A full tail becomes the next leaf. When the tree holds all the leaves its
\* depth allows, a new root takes the old one as its first child.
list_append(l, elem) ==
  IF Len(l.tail) < Branch THEN [l EXCEPT !.len = @ + 1, !.tail = Append(@, elem)]
  ELSE LET leaves == (l.len - Branch) \div Branch
           full   == TreeIsFull(leaves, l.depth)
           depth  == IF l.root = Nil THEN 1 ELSE IF full THEN l.depth + 1 ELSE l.depth
           root   == IF l.root = Nil THEN EmptyNode
                     ELSE IF full THEN [EmptyNode EXCEPT ![0] = l.root] ELSE l.root
       IN [root |-> WithLeaf(root, depth - 1, leaves, l.tail), depth |-> depth,
           tail |-> <<elem>>, len |-> l.len + 1]

list_get(l, index) ==
  IF index >= tail_start(l) THEN l.tail[index - tail_start(l) + 1]
  ELSE LeafOf(l.root, l.depth - 1, index \div Branch)[(index % Branch) + 1]

list_set(l, index, elem) ==
  IF index >= tail_start(l) THEN [l EXCEPT !.tail[index - tail_start(l) + 1] = elem]
  ELSE LET leaf == LeafOf(l.root, l.depth - 1, index \div Branch)
       IN [l EXCEPT !.root = WithLeaf(@, l.depth - 1, index \div Branch,
                                      [leaf EXCEPT ![(index % Branch) + 1] = elem])]

Clamp(x, low, high) == IF x < low THEN low ELSE IF x > high THEN high ELSE x

\* The elements from one index to before another, appended to a list.
AppendRange(result, l, start, end) ==
  FoldLeft(LAMBDA r, i : list_append(r, list_get(l, i)),
           result, [i \in 1 .. end - start |-> start + i - 1])

list_getrange(l, start, end) ==
  LET from == Clamp(start, 0, l.len)
  IN AppendRange(list_new, l, from, Clamp(end, from, l.len))

\* The range is replaced by as much of the source as fits in it, and closes
\* up when the source is shorter.
list_setrange(l, start, end, source) ==
  LET from == Clamp(start, 0, l.len)
      to   == Clamp(end, from, l.len)
      n    == Clamp(to - from, 0, source.len)
  IN AppendRange(AppendRange(AppendRange(list_new, l, 0, from), source, 0, n), l, to, l.len)

\* The sequence a list stands for, and the list of a sequence.
Elements(l) == [i \in 1 .. l.len |-> list_get(l, i - 1)]
ListOf(s)   == FoldLeft(list_append, list_new, s)

\* The trie holds exactly the full leaves, in order, and is no deeper than
\* they need.
WellShaped(l) ==
  LET leaves == tail_start(l) \div Branch
  IN /\ l.len = 0 \/ Len(l.tail) \in 1 .. Branch
     /\ tail_start(l) % Branch = 0
     /\ l.root = Nil <=> leaves = 0
     /\ leaves > 0 => /\ leaves <= Branch ^ l.depth
                      /\ l.depth > 1 => leaves > Branch ^ (l.depth - 1)
                      /\ \A i \in 0 .. leaves - 1 : Len(LeafOf(l.root, l.depth - 1, i)) = Branch
=============================================================================
