---------------------------- MODULE Collections ----------------------------
(***************************************************************************)
(* The collections of Coex and the conversions between them: maps and sets *)
(* (codegen/hamt.py over Hamt), lists (codegen/list.py over                *)
(* PersistentVector), arrays (codegen/array.py), codegen/conversions.py,   *)
(* the in-place variants of inplace_ops.py, and the choice the compiler    *)
(* makes between the functions for words and those for strings.            *)
(*                                                                         *)
(* A program applies operations to one collection, beside the map, set or  *)
(* sequence that it stands for. Indices are within bounds: the code does   *)
(* not check them.                                                         *)
(***************************************************************************)
EXTENDS Hamt, PersistentVector

CONSTANTS
  MaxLen,      \* bound: the elements of a list or an array, by their type
  Elems,       \* bound: the words put in lists and arrays, and under the keys of maps
  Hashes,      \* the pairs of hash functions: of words, and of texts
  Types,       \* the types a program starts with
  Sources      \* the sequences a slice assignment takes from

\* Keys that differ have hashes that do. That is so of words, which splitmix64 permutes
\* (coex_map_hash). string_hash folds a text into 64 bits, and two texts may share a hash:
\* hamt_insert_string then splits the leaf level after level without end. The models say
\* nothing of such texts, nor of a text that hashes as the handle of a string does.
ASSUME CollectionsAssumption ==
  /\ MaxLen \in [list : [int : Nat, string : Nat], array : [int : Nat, string : Nat]] /\ Elems \subseteq Words
  /\ \A s \in Sources : Range(s) \subseteq Words
  /\ \A h \in Hashes : /\ h.word \in [Words -> Hash] /\ IsInjective(h.word)
                       /\ h.text \in [Range(Text) -> Hash] /\ IsInjective(h.text)
                       /\ Range(h.word) \cap Range(h.text) = {}

VARIABLES
  type,        \* the kind of the collection, and the types of its elements (its keys) and of its values
  value,       \* the collection
  ref,         \* what it stands for
  hash,        \* the hash functions of this run
  byHandle,    \* history: the text of a string was taken for its handle
  untagged,    \* history: its elements have been through code that takes them for integers
  overwritten  \* history: an element of a list was assigned by its index

vars == <<type, value, ref, hash, byHandle, untagged, overwritten>>

Kind(k)       == type.kind = k
Bound         == IF type.kind \in {"list", "array"} THEN MaxLen[type.kind][type.elem] ELSE 0
Strings       == type.elem = "string"
StringValues  == type.val = "string"
content(k)    == IF Strings THEN Text[k] ELSE k
ContentsOf(s) == [i \in DOMAIN s |-> content(s[i])]
map_hash(k)    == hash.word[k]
string_hash(k) == hash.text[Text[k]]

---------------------------------------------------------------------------
(* Maps and sets: a wrapper of a root, a length and the flags that tell    *)
(* the collector which words of a leaf are handles.                        *)

map_new(flags) == [root |-> Null, len |-> 0, flags |-> flags]
set_new(flags) == [root |-> Null, len |-> 0, flags |-> flags]

\* The new root, and the length that counts a key added or removed.
Added(m, r)   == [m EXCEPT !.root = r.node, !.len = IF r.added THEN @ + 1 ELSE @]
Removed(m, r) == [m EXCEPT !.root = r.node, !.len = IF r.removed THEN @ - 1 ELSE @]

map_set(m, k, v)        == Added(m, hamt_insert(m.root, map_hash(k), k, v))
map_set_string(m, k, v) == Added(m, hamt_insert_string(m.root, string_hash(k), k, v))
map_remove(m, k)        == Removed(m, hamt_remove(m.root, map_hash(k), k))
map_remove_string(m, k) == Removed(m, hamt_remove_string(m.root, string_hash(k), k))
map_get(m, k)           == hamt_lookup(m.root, map_hash(k), k)
map_get_string(m, k)    == hamt_lookup_string(m.root, string_hash(k), k)
map_has(m, k)           == hamt_contains(m.root, map_hash(k), k)
map_has_string(m, k)    == hamt_contains_string(m.root, string_hash(k), k)

set_add(s, k)        == Added(s, hamt_insert(s.root, map_hash(k), k, 1))
set_add_string(s, k) == Added(s, hamt_insert_string(s.root, string_hash(k), k, 1))
set_remove(s, k)     == Removed(s, hamt_remove(s.root, map_hash(k), k))
set_has(s, k)        == hamt_contains(s.root, map_hash(k), k)
set_has_string(s, k) == hamt_contains_string(s.root, string_hash(k), k)

\* The variants in place store the new root and length in the wrapper that
\* there is. A string is removed as a word: no variant takes its text.
set_add_inplace(s, k)           == Added(s, hamt_insert(s.root, map_hash(k), k, 1))
set_add_string_inplace(s, k)    == Added(s, hamt_insert_string(s.root, string_hash(k), k, 1))
set_remove_inplace(s, k)        == Removed(s, hamt_remove(s.root, map_hash(k), k))
map_put_inplace(m, k, v)        == Added(m, hamt_insert(m.root, map_hash(k), k, v))
map_put_string_inplace(m, k, v) == Added(m, hamt_insert_string(m.root, string_hash(k), k, v))
map_remove_inplace(m, k)        == Removed(m, hamt_remove(m.root, map_hash(k), k))

\* What the compiler calls, by the type of the key.
Has(k) == CASE Kind("map") -> IF Strings THEN map_has_string(value, k) ELSE map_has(value, k)
            [] Kind("set") -> IF Strings THEN set_has_string(value, k) ELSE set_has(value, k)
Get(k) == IF Strings THEN map_get_string(value, k) ELSE map_get(value, k)

compute_set_flags(elem)      == [key |-> elem = "string", value |-> FALSE]
compute_map_flags(elem, val) == [key |-> elem = "string", value |-> val = "string"]

---------------------------------------------------------------------------
(* Elements of a list carry a tag from which the collector knows whether   *)
(* they are handles. Arrays hold bare words, in a buffer the collector     *)
(* scans or does not; a slice is a view of the buffer of its array.        *)

Tagged(k)  == [tag |-> IF Strings THEN "ref" ELSE "int", val |-> k]
AsInt(k)   == [tag |-> "int", val |-> k]
Words_(l)  == [i \in 1 .. l.len |-> list_get(l, i - 1).val]
ListOfInts(s) == ListOf([i \in DOMAIN s |-> AsInt(s[i])])

array_of(s, traced)  == [data |-> s, from |-> 0, len |-> Len(s), traced |-> traced]
array_get(a, i)      == a.data[a.from + i + 1]
ArrayWords(a)        == SubSeq(a.data, a.from + 1, a.from + a.len)
array_append(a, k)     == array_of(Append(ArrayWords(a), k), FALSE)
array_append_ref(a, k) == array_of(Append(ArrayWords(a), k), TRUE)
array_set(a, i, k)     == array_of([ArrayWords(a) EXCEPT ![i + 1] = k], FALSE)
array_set_ref(a, i, k) == array_of([ArrayWords(a) EXCEPT ![i + 1] = k], TRUE)
array_set_inplace(a, i, k) == [a EXCEPT !.data[a.from + i + 1] = k]
array_deep_copy(a)   == array_of(ArrayWords(a), FALSE)

array_getrange(a, start, end) ==
  LET from == Clamp(start, 0, a.len)
  IN [a EXCEPT !.from = @ + from, !.len = Clamp(end, from, a.len) - from]

---------------------------------------------------------------------------
Empty(t) == CASE t.kind = "map"   -> map_new(compute_map_flags(t.elem, t.val))
              [] t.kind = "set"   -> set_new(compute_set_flags(t.elem))
              [] t.kind = "list"  -> list_new
              [] t.kind = "array" -> array_of(<<>>, t.elem = "string")

Init ==
  /\ type \in Types /\ hash \in Hashes
  /\ value = Empty(type)
  /\ ref = <<>>      \* the empty sequence, which is also the empty function
  /\ byHandle = FALSE /\ untagged = FALSE /\ overwritten = FALSE

\* Bound: a program stops soon after a lapse of the tags.
Keep     == ~untagged /\ ~overwritten /\ UNCHANGED <<type, hash>>
NoLapses == UNCHANGED <<byHandle, untagged, overwritten>>

\* A map as a function of the contents of its keys; a set likewise, to 1.
With(f, c, v)   == [x \in DOMAIN f \cup {c} |-> IF x = c THEN v ELSE f[x]]
WithoutKey(f, c) == [x \in DOMAIN f \ {c} |-> f[x]]

\* m.set(k, v), also in place: the string functions when the key is a string.
MapSet(k, v) ==
  /\ Kind("map") /\ Keep /\ NoLapses
  /\ \/ value' = IF Strings THEN map_set_string(value, k, v) ELSE map_set(value, k, v)
     \/ value' = IF Strings THEN map_put_string_inplace(value, k, v) ELSE map_put_inplace(value, k, v)
  /\ ref' = With(ref, content(k), v)

\* m.remove(k).
MapRemove(k) ==
  /\ Kind("map") /\ Keep /\ NoLapses
  /\ value' = IF Strings THEN map_remove_string(value, k) ELSE map_remove(value, k)
  /\ ref' = WithoutKey(ref, content(k))

\* m = m.remove(k) in place: coex_map_remove_inplace whatever the key, so
\* that a string is looked for under the hash of its handle.
MapRemoveInPlace(k) ==
  /\ Kind("map") /\ Keep
  /\ value' = map_remove_inplace(value, k)
  /\ ref' = WithoutKey(ref, content(k))
  /\ byHandle' = (byHandle \/ Strings) /\ UNCHANGED <<untagged, overwritten>>

\* s.add(k), also in place.
SetAdd(k) ==
  /\ Kind("set") /\ Keep /\ NoLapses
  /\ \/ value' = IF Strings THEN set_add_string(value, k) ELSE set_add(value, k)
     \/ value' = IF Strings THEN set_add_string_inplace(value, k) ELSE set_add_inplace(value, k)
  /\ ref' = With(ref, content(k), 1)

\* s.remove(k), also in place: coex_set_remove whatever the element.
SetRemove(k) ==
  /\ Kind("set") /\ Keep
  /\ value' \in {set_remove(value, k), set_remove_inplace(value, k)}
  /\ ref' = WithoutKey(ref, content(k))
  /\ byHandle' = (byHandle \/ Strings) /\ UNCHANGED <<untagged, overwritten>>

---------------------------------------------------------------------------
ListAppend(k) ==
  /\ Kind("list") /\ value.len < Bound /\ Keep /\ NoLapses
  /\ value' = list_append(value, Tagged(k))
  /\ ref' = Append(ref, content(k))

ListSet(i, k) ==
  /\ Kind("list") /\ i < value.len /\ Keep /\ NoLapses
  /\ value' = list_set(value, i, Tagged(k))
  /\ ref' = [ref EXCEPT ![i + 1] = content(k)]

\* l[i] = k stores the eight bytes of the word where an element begins, over
\* its tag: the word the element held stays.
ListIndexAssign(i, k) ==
  /\ Kind("list") /\ i < value.len /\ Keep
  /\ value' = list_set(value, i, [list_get(value, i) EXCEPT !.tag = "word"])
  /\ ref' = [ref EXCEPT ![i + 1] = content(k)]
  /\ overwritten' = TRUE /\ UNCHANGED <<byHandle, untagged>>

\* A negative index counts from the end.
normalize_slice_index(i, length) == IF i < 0 THEN length + i ELSE i
generate_slice(start, end, length) ==
  [from |-> normalize_slice_index(start, length), to |-> normalize_slice_index(end, length)]

\* The abstract slice, as far as the sequence reaches.
Slice(s, start, end) ==
  LET Offset(i) == Clamp(IF i < 0 THEN Len(s) + i ELSE i, 0, Len(s))
  IN SubSeq(s, Offset(start) + 1, Offset(end))

ListGetRange(start, end) ==
  /\ Kind("list") /\ Keep /\ NoLapses
  /\ LET s == generate_slice(start, end, value.len) IN value' = list_getrange(value, s.from, s.to)
  /\ ref' = Slice(ref, start, end)

\* The abstract slice assignment: as much of the source as the slice is long.
ListSetRange(start, end, s) ==
  LET from == normalize_slice_index(start, value.len)
      to   == normalize_slice_index(end, value.len)
  IN /\ Kind("list") /\ 0 <= from /\ from <= to /\ to <= value.len /\ Keep /\ NoLapses
     /\ value' = list_setrange(value, from, to, ListOf([i \in DOMAIN s |-> Tagged(s[i])]))
     /\ ref' = SubSeq(ref, 1, from) \o Slice(ContentsOf(s), 0, to - from) \o SubSeq(ref, to + 1, Len(ref))

---------------------------------------------------------------------------
ArrayAppend(k) ==
  /\ Kind("array") /\ value.len < Bound /\ Keep /\ NoLapses
  /\ value' = IF Strings THEN array_append_ref(value, k) ELSE array_append(value, k)
  /\ ref' = Append(ref, content(k))

ArraySet(i, k) ==
  /\ Kind("array") /\ i < value.len /\ Keep /\ NoLapses
  /\ \/ value' = IF Strings THEN array_set_ref(value, i, k) ELSE array_set(value, i, k)
     \/ value' = array_set_inplace(value, i, k)
  /\ ref' = [ref EXCEPT ![i + 1] = content(k)]

\* a[i] = k copies into a buffer that the collector does not scan.
ArrayIndexAssign(i, k) ==
  /\ Kind("array") /\ i < value.len /\ Keep
  /\ value' = array_set(value, i, k)
  /\ ref' = [ref EXCEPT ![i + 1] = content(k)]
  /\ untagged' = (untagged \/ Strings) /\ UNCHANGED <<byHandle, overwritten>>

ArrayGetRange(start, end) ==
  /\ Kind("array") /\ Keep /\ NoLapses
  /\ LET s == generate_slice(start, end, value.len) IN value' = array_getrange(value, s.from, s.to)
  /\ ref' = Slice(ref, start, end)

\* b := a.
ArrayDeepCopy ==
  /\ Kind("array") /\ Keep
  /\ value' = array_deep_copy(value)
  /\ untagged' = (untagged \/ Strings) /\ UNCHANGED <<ref, byHandle, overwritten>>

---------------------------------------------------------------------------
(* Conversions. The contents of a map or a set come out in the order of    *)
(* the walk of its trie, which is the order of the hashes of its keys.     *)

map_keys(m)    == ListOfInts(hamt_collect_keys(m.root))
map_values(m)  == ListOfInts(hamt_collect_values(m.root))
set_to_list(s) == ListOfInts(hamt_collect_keys(s.root))
list_to_array(l, is_ref_type) == array_of(Words_(l), is_ref_type)
set_to_array(s)  == array_of(Words_(set_to_list(s)), FALSE)
array_to_list(a) == ListOfInts(ArrayWords(a))
list_to_set(l)   == FoldLeft(set_add, set_new(compute_set_flags("int")), Words_(l))
array_to_set(a)  == FoldLeft(set_add, set_new(compute_set_flags("int")), ArrayWords(a))

InOrder(S) == SetToSortSeq(S, LAMBDA a, b : Before(IF Strings THEN hash.text[a] ELSE hash.word[a],
                                                   IF Strings THEN hash.text[b] ELSE hash.word[b]))
\* Bound: nor is what was searched by its handles converted.
Becomes(kind, elem, val) ==
  ~byHandle /\ ~untagged /\ ~overwritten /\ type' = [kind |-> kind, elem |-> elem, val |-> val] /\ UNCHANGED hash

\* m.keys(), s.unpacked(), and what iterating over a map or a set walks.
Keys ==
  /\ type.kind \in {"map", "set"} /\ Becomes("list", type.elem, "int")
  /\ value' = IF Kind("map") THEN map_keys(value) ELSE set_to_list(value)
  /\ ref' = InOrder(DOMAIN ref)
  /\ untagged' = (untagged \/ Strings) /\ UNCHANGED <<byHandle, overwritten>>

Values ==
  /\ Kind("map") /\ Becomes("list", type.val, "int")
  /\ value' = map_values(value)
  /\ ref' = LET keys == InOrder(DOMAIN ref)
            IN [i \in DOMAIN keys |-> IF StringValues THEN Text[ref[keys[i]]] ELSE ref[keys[i]]]
  /\ untagged' = (untagged \/ StringValues) /\ UNCHANGED <<byHandle, overwritten>>

ListToArray ==
  /\ Kind("list") /\ value.len <= MaxLen.array[type.elem] /\ Becomes("array", type.elem, "int")
  /\ value' = list_to_array(value, Strings)
  /\ UNCHANGED <<ref, byHandle, untagged, overwritten>>

SetToArray ==
  /\ Kind("set") /\ Becomes("array", type.elem, "int")
  /\ value' = set_to_array(value)
  /\ ref' = InOrder(DOMAIN ref)
  /\ untagged' = (untagged \/ Strings) /\ UNCHANGED <<byHandle, overwritten>>

ArrayToList ==
  /\ Kind("array") /\ Becomes("list", type.elem, "int")
  /\ value' = array_to_list(value)
  /\ untagged' = (untagged \/ Strings) /\ UNCHANGED <<ref, byHandle, overwritten>>

\* list_to_set and array_to_set add words to a set without flags.
ConvertToSet ==
  /\ type.kind \in {"list", "array"} /\ Becomes("set", type.elem, "int")
  /\ value' = IF Kind("list") THEN list_to_set(value) ELSE array_to_set(value)
  /\ ref' = [c \in ToSet(ref) |-> 1]
  /\ byHandle' = (byHandle \/ (Strings /\ ref # <<>>))
  /\ untagged' = (untagged \/ Strings) /\ UNCHANGED overwritten

---------------------------------------------------------------------------
(* Comprehensions: [x for x in c if p], with a set or a map for the list,  *)
(* a range for the collection, or a range around it. A clause is what its  *)
(* loop walks and the words for which its condition holds.                 *)

loop_clause(c, condition) ==
  [over |-> IF Kind("list") THEN Words_(c) ELSE [i \in 1 .. c.len |-> array_get(c, i - 1)], condition |-> condition]
range_clause(start, end)  == [over |-> [i \in 1 .. end - start |-> start + i - 1], condition |-> Words]

\* An element is a word: it is tagged as an integer and hashed as a word.
comprehension_body(kind, result, bound) ==
  CASE kind = "list" -> list_append(result, AsInt(Last(bound)))
    [] kind = "set"  -> set_add(result, Last(bound))
    [] kind = "map"  -> map_set(result, Head(bound), Last(bound))

RECURSIVE comprehension_loop(_, _, _, _)
comprehension_loop(clauses, bound, kind, result) ==
  IF clauses = <<>> THEN comprehension_body(kind, result, bound)
  ELSE FoldLeft(LAMBDA r, word : IF word \in Head(clauses).condition
                                 THEN comprehension_loop(Tail(clauses), Append(bound, word), kind, r) ELSE r,
                result, Head(clauses).over)

\* The variable of a clause is bound after the types are inferred: only an
\* expression of a type known without it gives the flags of strings.
comprehension(t, known, clauses) ==
  LET Type(elem) == IF known THEN elem ELSE "int"
  IN comprehension_loop(clauses, <<>>, t.kind,
                        Empty([t EXCEPT !.elem = Type(t.elem), !.val = Type(t.val)]))

WordOf(c) == CHOOSE word \in Words : content(word) = c
Times(n, s) == FlattenSeq([i \in 1 .. n |-> s])

\* Bound: a comprehension makes no list longer than others are, of the words
\* put in others; a type is unknown to it only when that matters.
FitsIn(t, n) == t.kind = "list" => n <= MaxLen.list[t.elem]
Walked(known) == /\ type.kind \in {"list", "array"} /\ Range(ref) \subseteq {content(k) : k \in Elems}
                 /\ known \/ Strings

\* [x for x in c if x != k], {x ...} and {x: x ...}.
Comprehend(kind, known, k) ==
  LET t    == [kind |-> kind, elem |-> type.elem, val |-> IF kind = "map" THEN type.elem ELSE "int"]
      kept == SelectSeq(ref, LAMBDA c : c # content(k))
  IN /\ Walked(known) /\ Becomes(kind, t.elem, t.val) /\ FitsIn(t, Len(kept))
     /\ value' = comprehension(t, known, <<loop_clause(value, {w \in Words : content(w) # content(k)})>>)
     /\ ref' = CASE kind = "list" -> kept
                  [] kind = "set"  -> [c \in ToSet(kept) |-> 1]
                  [] kind = "map"  -> [c \in ToSet(kept) |-> WordOf(c)]
     /\ byHandle' = (kind # "list" /\ Strings /\ kept # <<>>)
     /\ untagged' = (Strings /\ (kind = "list" \/ ~known)) /\ UNCHANGED overwritten

\* [x for i in range(start, end) for x in c], {x ...} and {i: x ...}; the
\* last element is what the map keeps for each i.
ComprehendTimes(kind, known, start, end) ==
  LET n == IF start < end THEN end - start ELSE 0
      t == [kind |-> kind, elem |-> IF kind = "map" THEN "int" ELSE type.elem,
            val |-> IF kind = "map" THEN type.elem ELSE "int"]
  IN /\ Walked(known) /\ Becomes(kind, t.elem, t.val) /\ FitsIn(t, n * Len(ref))
     /\ value' = comprehension(t, known, <<range_clause(start, end), loop_clause(value, Words)>>)
     /\ ref' = CASE kind = "list" -> Times(n, ref)
                  [] kind = "set"  -> [c \in ToSet(Times(n, ref)) |-> 1]
                  [] kind = "map"  -> [i \in IF ref = <<>> THEN {} ELSE start .. end - 1 |-> WordOf(Last(ref))]
     /\ byHandle' = (kind = "set" /\ Strings /\ Times(n, ref) # <<>>)
     /\ untagged' = (Strings /\ (kind = "list" \/ ~known)) /\ UNCHANGED overwritten

Next ==
  \/ \E kind \in {"list", "set", "map"}, known \in BOOLEAN :
       \/ \E k \in Elems : Comprehend(kind, known, k)
       \/ \E start \in Elems, end \in Words : ComprehendTimes(kind, known, start, end)
  \/ \E k \in Words :
       \/ \E v \in Elems : MapSet(k, v)
       \/ MapRemove(k) \/ MapRemoveInPlace(k)
       \/ SetAdd(k) \/ SetRemove(k)
  \/ \E k \in Elems :
       \/ ListAppend(k) \/ ArrayAppend(k)
       \/ \E i \in 0 .. Bound - 1 :
            \/ ListSet(i, k) \/ ListIndexAssign(i, k)
            \/ ArraySet(i, k) \/ ArrayIndexAssign(i, k)
  \/ \E start, end \in -2 .. Bound :
       \/ ListGetRange(start, end) \/ ArrayGetRange(start, end)
       \/ \E s \in Sources : ListSetRange(start, end, s)
  \/ ArrayDeepCopy
  \/ Keys \/ Values \/ ListToArray \/ SetToArray \/ ArrayToList \/ ConvertToSet

Spec == Init /\ [][Next]_vars

---------------------------------------------------------------------------
(* What the collector marks beyond a collection itself: the words of it    *)
(* that it takes for handles.                                              *)

\* The kind of an element tells whether its word is a handle.
tv_is_heap_type(tag) == tag \notin {"int", "word"}
tv_mark_array(elements) == {e.val : e \in {x \in Range(elements) : tv_is_heap_type(x.tag)}}

mark_leaf(leaf, flags) ==
  (IF flags.key THEN {leaf.key} ELSE {}) \cup (IF flags.value THEN {leaf.value} ELSE {})
RECURSIVE gc_mark_hamt(_, _)
gc_mark_hamt(node, flags) ==
  CASE node.tag = "null" -> {}
    [] node.tag = "leaf" -> mark_leaf(node, flags)
    [] node.tag = "node" -> UNION {gc_mark_hamt(node.children[i], flags) : i \in 1 .. hamt_popcount(node.bitmap)}

\* A node of the trie of a list, down to its leaves.
RECURSIVE mark_pv_node(_, _)
mark_pv_node(node, level) ==
  UNION {IF level = 0 THEN tv_mark_array(node[slot]) ELSE mark_pv_node(node[slot], level - 1) :
         slot \in {i \in DOMAIN node : node[i] # Nil}}

mark_list(l)  == (IF l.root = Nil THEN {} ELSE mark_pv_node(l.root, l.depth - 1)) \cup tv_mark_array(l.tail)
\* The whole buffer, also that of a slice.
mark_array(a) == IF a.traced THEN Range(a.data) ELSE {}

Marked == CASE type.kind \in {"map", "set"} -> gc_mark_hamt(value.root, value.flags)
            [] Kind("list")  -> mark_list(value)
            [] Kind("array") -> mark_array(value)

\* The handles the program may read from a collection.
Held == LET Handles(is, s) == IF is THEN Range(s) ELSE {}
        IN CASE type.kind \in {"map", "set"} -> Handles(Strings, hamt_collect_keys(value.root))
                                                 \cup Handles(StringValues, hamt_collect_values(value.root))
             [] Kind("list")  -> Handles(Strings, Words_(value))
             [] Kind("array") -> Handles(Strings, ArrayWords(value))

TypeOK ==
  /\ type.elem \in {"int", "string", "byte"} /\ type.val \in {"int", "string", "json"}
  /\ hash \in Hashes
  /\ {byHandle, untagged, overwritten} \subseteq BOOLEAN
  /\ CASE type.kind \in {"map", "set"} ->
            /\ DOMAIN value = {"root", "len", "flags"} /\ value.len \in Nat
            /\ Range(ref) \subseteq Words
       [] type.kind = "list"  -> \A i \in 0 .. value.len - 1 : list_get(value, i).val \in Words
       [] type.kind = "array" -> value.from + value.len <= Len(value.data)
       [] type.kind = "text"  -> value.from + value.size <= Len(value.owner)
       [] type.kind = "json"  -> "tag" \in DOMAIN value

\* A collection is what its operations make of the map, set or sequence it
\* stands for: get, has, len and the elements agree with it, after any
\* sequence of operations and conversions, as long as no string went by its
\* handle and no element was assigned by its index.
SameContents ==
  ~byHandle /\ ~overwritten =>
    CASE type.kind \in {"map", "set"} ->
           /\ value.len = Cardinality(DOMAIN ref)
           /\ \A k \in Words :
                /\ Has(k) <=> content(k) \in DOMAIN ref
                /\ Kind("map") => Get(k) = IF content(k) \in DOMAIN ref THEN ref[content(k)] ELSE 0
      [] type.kind = "list"  -> ContentsOf(Words_(value)) = ref
      [] type.kind = "array" -> ContentsOf(ArrayWords(value)) = ref
      [] OTHER -> TRUE

\* The trie of a list holds its full leaves at the depth that they need,
\* through every append, copied path and slice: the depth is what get and
\* set compute their paths from.
VectorShape == Kind("list") => WellShaped(value)

\* The trie of a map or a set is well formed, its length counts its leaves,
\* and the walk meets them in the order of their hashes whatever the order
\* in which keys came and went, although removal leaves nodes of one child:
\* two maps with the same keys are iterated in the same order. The trie of
\* a list has the depth its elements need (VectorShape).
TrieInOrder ==
  /\ VectorShape
  /\ type.kind \in {"map", "set"} =>
       LET leaves == Leaves(value.root)
       IN /\ WellFormed(value.root, <<>>)
          /\ value.len = Len(leaves)
          /\ \A i \in 1 .. Len(leaves) - 1 : Before(leaves[i].hash, leaves[i + 1].hash)

\* The collector marks every string that the program may still read from
\* the collection, whatever path of the trie or buffer it lies in, and marks
\* no integer, unless the elements went through code that takes them for
\* integers or overwrites their tags.
TracedWhole ==
  ~untagged /\ ~overwritten /\ type.kind \in {"map", "set", "list", "array"} =>
    /\ Held \subseteq Marked
    /\ ~(Kind("array") /\ Strings) => Marked \subseteq Held

\* A removal takes out at most one entry, that of the key it names, also
\* when it takes a string for its handle and searches along another path.
NeverRemovesAnother ==
  [][type.kind \in {"map", "set"} /\ type' = type /\ value'.len < value.len =>
       LET before == hamt_collect_keys(value.root)
           after  == hamt_collect_keys(value'.root)
       IN \E i \in DOMAIN before : /\ after = Without(before, i)
                                   /\ ref' = WithoutKey(ref, content(before[i]))]_vars
=============================================================================
