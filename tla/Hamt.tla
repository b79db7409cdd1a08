-------------------------------- MODULE Hamt --------------------------------
(***************************************************************************)
(* The hash trie of codegen/hamt.py, which maps and sets share: its nodes, *)
(* its insertion, removal and search, and the order in which it is walked. *)
(*                                                                         *)
(* A key is a word: an integer, or the handle of a string. The integer     *)
(* functions compare words; the _string ones compare the texts the handles *)
(* stand for. A hash is the sequence of its digits, the five low bits      *)
(* first, so that a shift is a number of digits.                           *)
(***************************************************************************)
EXTENDS Integers, Sequences, FiniteSets

CONSTANTS
  Width,       \* the slots of a node: 32
  Levels,      \* the digits of a hash
  Words,       \* the integers that serve as keys, or the handles of strings
  Text         \* the text behind each handle

ASSUME HamtAssumption ==
  /\ Width \in Nat \ {0} /\ Levels \in Nat \ {0}
  /\ DOMAIN Text = Words

Hash == [1 .. Levels -> 0 .. Width - 1]

Null          == [tag |-> "null"]
Leaf(h, k, v) == [tag |-> "leaf", hash |-> h, key |-> k, value |-> v]
Node(b, c)    == [tag |-> "node", bitmap |-> b, children |-> c]

hash_bits(hash, shift) == hash[shift + 1]
hamt_popcount(bitmap)  == Cardinality(bitmap)
child_idx(bitmap, bit) == hamt_popcount({b \in bitmap : b < bit}) + 1

\* A leaf of the same path taken for the key itself (mutation).
any_match(str, a, b) == TRUE

keys_match(str, a, b) == IF str THEN Text[a] = Text[b] ELSE a = b

\* The new child put behind the others (mutation).
InsertedLast(s, i, x) == Append(s, x)

\* A copy of the children with one replaced, one added, one left out.
Replaced(s, i, x) == [s EXCEPT ![i] = x]
Inserted(s, i, x) == SubSeq(s, 1, i - 1) \o <<x>> \o SubSeq(s, i, Len(s))
Without(s, i)     == SubSeq(s, 1, i - 1) \o SubSeq(s, i + 1, Len(s))

\* The leaf the search for a key ends at, or Null.
RECURSIVE Search(_, _, _, _, _)
Search(str, node, hash, key, shift) ==
  IF node.tag = "node"
  THEN LET bit == hash_bits(hash, shift)
       IN IF bit \in node.bitmap
          THEN Search(str, node.children[child_idx(node.bitmap, bit)], hash, key, shift + 1)
          ELSE Null
  ELSE IF node.tag = "leaf" /\ keys_match(str, node.key, key) THEN node ELSE Null

\* An absent key reads as 0.
ValueAt(leaf) == IF leaf = Null THEN 0 ELSE leaf.value

hamt_lookup(root, hash, key)          == ValueAt(Search(FALSE, root, hash, key, 0))
hamt_lookup_string(root, hash, key)   == ValueAt(Search(TRUE, root, hash, key, 0))
hamt_contains(root, hash, key)        == Search(FALSE, root, hash, key, 0) # Null
hamt_contains_string(root, hash, key) == Search(TRUE, root, hash, key, 0) # Null

\* Two leaves with different keys: a node for the digit in which their
\* hashes differ, under a node with one child for each digit they share.
RECURSIVE Split(_, _, _)
Split(old, new, shift) ==
  LET a == hash_bits(old.hash, shift)
      b == hash_bits(new.hash, shift)
  IN IF a = b THEN Node({a}, <<Split(old, new, shift + 1)>>)
     ELSE Node({a, b}, IF a < b THEN <<old, new>> ELSE <<new, old>>)

RECURSIVE Insert(_, _, _, _, _, _)
Insert(str, node, hash, key, value, shift) ==
  LET new == Leaf(hash, key, value)
      bit == hash_bits(hash, shift)
  IN CASE node.tag = "null" -> [node |-> new, added |-> TRUE]
       [] node.tag = "leaf" /\ keys_match(str, node.key, key) -> [node |-> new, added |-> FALSE]
       [] node.tag = "leaf" /\ ~keys_match(str, node.key, key) ->
            [node |-> Split(node, new, shift), added |-> TRUE]
       [] node.tag = "node" /\ bit \in node.bitmap ->
            LET i == child_idx(node.bitmap, bit)
                r == Insert(str, node.children[i], hash, key, value, shift + 1)
            IN [node |-> Node(node.bitmap, Replaced(node.children, i, r.node)), added |-> r.added]
       [] node.tag = "node" /\ bit \notin node.bitmap ->
            [node  |-> Node(node.bitmap \cup {bit},
                            Inserted(node.children, child_idx(node.bitmap, bit), new)),
             added |-> TRUE]

hamt_insert(root, hash, key, value)        == Insert(FALSE, root, hash, key, value, 0)
hamt_insert_string(root, hash, key, value) == Insert(TRUE, root, hash, key, value, 0)

\* A node left with one child is not collapsed into it.
RECURSIVE Prune(_, _, _, _, _)
Prune(str, node, hash, key, shift) ==
  LET bit  == hash_bits(hash, shift)
      kept == [node |-> node, removed |-> FALSE]
  IN CASE node.tag = "null" -> kept
       [] node.tag = "leaf" ->
            IF keys_match(str, node.key, key) THEN [node |-> Null, removed |-> TRUE] ELSE kept
       [] node.tag = "node" /\ bit \notin node.bitmap -> kept
       [] node.tag = "node" /\ bit \in node.bitmap ->
            LET i == child_idx(node.bitmap, bit)
                r == Prune(str, node.children[i], hash, key, shift + 1)
            IN CASE ~r.removed -> kept
                 [] r.removed /\ r.node # Null ->
                      [node |-> Node(node.bitmap, Replaced(node.children, i, r.node)), removed |-> TRUE]
                 [] r.removed /\ r.node = Null ->
                      [node |-> IF hamt_popcount(node.bitmap) = 1 THEN Null
                                ELSE Node(node.bitmap \ {bit}, Without(node.children, i)),
                       removed |-> TRUE]

hamt_remove(root, hash, key)        == Prune(FALSE, root, hash, key, 0)
hamt_remove_string(root, hash, key) == Prune(TRUE, root, hash, key, 0)

\* The leaves in the order in which the walk meets them.
RECURSIVE Leaves(_)
Leaves(node) ==
  LET RECURSIVE Collect(_)
      Collect(i) == IF i > Len(node.children) THEN <<>>
                    ELSE Leaves(node.children[i]) \o Collect(i + 1)
  IN CASE node.tag = "null" -> <<>>
       [] node.tag = "leaf" -> <<node>>
       [] node.tag = "node" -> Collect(1)

hamt_collect_keys(root)   == LET s == Leaves(root) IN [i \in DOMAIN s |-> s[i].key]
hamt_collect_values(root) == LET s == Leaves(root) IN [i \in DOMAIN s |-> s[i].value]

\* What the walk relies on: a node has a child for each bit and at least
\* one, and a leaf lies on the path that its hash spells.
RECURSIVE WellFormed(_, _)
WellFormed(node, path) ==
  CASE node.tag = "null" -> path = <<>>
    [] node.tag = "leaf" -> SubSeq(node.hash, 1, Len(path)) = path
    [] node.tag = "node" ->
         /\ node.bitmap # {} /\ Len(path) < Levels
         /\ Len(node.children) = hamt_popcount(node.bitmap)
         /\ \A bit \in node.bitmap :
              WellFormed(node.children[child_idx(node.bitmap, bit)], Append(path, bit))

\* One hash comes before another when it has the smaller digit where they
\* first differ.
Before(a, b) ==
  \E i \in 1 .. Levels : a[i] < b[i] /\ \A j \in 1 .. i - 1 : a[j] = b[j]
=============================================================================
