-------------------------------- MODULE Data --------------------------------
(***************************************************************************)
(* Strings and Json values beside the collections: a program also applies  *)
(* the operations of Strings and Json, and the conversions between them    *)
(* and the collections, to a value that stands for a sequence of bytes or  *)
(* for a document.                                                         *)
(***************************************************************************)
EXTENDS Json

CONSTANTS
  MaxText,     \* bound: the bytes of a string that is worked on
  MaxNodes,    \* bound: the nodes of a document
  Pieces,      \* the texts of the string literals
  Scalars,     \* the scalars of the Json literals, as documents
  MaxIndent    \* bound: the indentation of pretty text

ASSUME DataAssumption == MaxText \in Nat /\ MaxNodes \in Nat /\ MaxIndent \in Nat

VARIABLE lapse     \* history: the last step did not give what it stands for, and why

allvars == <<vars, lapse>>

TextType == [kind |-> "text", elem |-> "byte", val |-> "int"]
JsonType == [kind |-> "json", elem |-> "string", val |-> "json"]

\* Bound: one pair of hash functions for strings, which have no use of it.
AnyHash == CHOOSE h \in Hashes : TRUE
InitText ==
  /\ type = TextType /\ value = lit(<<>>) /\ ref = <<>>
  /\ hash = AnyHash
  /\ byHandle = FALSE /\ untagged = FALSE /\ overwritten = FALSE
DataInit == lapse = "none" /\ (Init \/ InitText)

\* Bound: a program stops at a lapse.
NoLapse     == lapse = "none" /\ ~byHandle /\ ~untagged /\ ~overwritten
Stays(kind) == Kind(kind) /\ NoLapse /\ UNCHANGED <<type, hash>> /\ NoLapses
Turns(to)   == NoLapse /\ type' = to /\ UNCHANGED hash /\ NoLapses
LapseIf(condition, why) == lapse' = IF condition THEN why ELSE "none"
Fits(text) == Len(text) <= MaxText

---------------------------------------------------------------------------
(* Strings.                                                                *)

TextStep == Stays("text") /\ Fits(ref)

TextConcat(piece) ==
  /\ TextStep /\ Fits(ref \o piece)
  /\ value' = string_concat(value, lit(piece)) /\ ref' = ref \o piece
  /\ UNCHANGED lapse

\* s[start:end] and s[start:]: an offset from the end, and an end left out,
\* are taken from the length, which counts characters.
TextSlice(start, end) ==
  /\ TextStep
  /\ LET s == generate_slice(start, end, string_len(value)) IN value' = string_slice(value, s.from, s.to)
  /\ ref' = Slice(ref, start, end)
  /\ LapseIf((start < 0 \/ end < 0) /\ string_len(value) # string_byte_size(value), "length for size")
TextRest(start) ==
  /\ TextStep
  /\ LET s == generate_slice(start, string_len(value), string_len(value)) IN value' = string_slice(value, s.from, s.to)
  /\ ref' = Slice(ref, start, Len(ref))
  /\ LapseIf(string_len(value) # string_byte_size(value), "length for size")

TextSetRange(start, end, piece) ==
  /\ TextStep /\ 0 <= start /\ start <= end /\ end <= Len(ref)
  /\ value' = string_setrange(value, start, end, lit(piece))
  /\ ref' = SubSeq(ref, 1, start) \o piece \o SubSeq(ref, end + 1, Len(ref))
  /\ Fits(ref') /\ UNCHANGED lapse

\* The leftmost occurrences replaced, one after another.
RECURSIVE Replaced_(_, _, _)
Replaced_(text, old, new) ==
  LET found == {i \in 0 .. Len(text) - Len(old) : MatchesAt(text, i, old)}
      first == CHOOSE i \in found : \A j \in found : i <= j
  IN IF found = {} THEN text
     ELSE SubSeq(text, 1, first) \o new
          \o Replaced_(SubSeq(text, first + Len(old) + 1, Len(text)), old, new)

\* new.join(s.split(old)).
TextReplace(old, new) ==
  /\ TextStep /\ old # <<>>
  /\ value' = string_join_list(string_split(value, lit(old)), lit(new))
  /\ ref' = Replaced_(ref, old, new)
  /\ Fits(ref') /\ UNCHANGED lapse

\* t := s, and what a Json value does to the string it is given.
TextDeepCopy ==
  /\ TextStep
  /\ value' = string_deep_copy(value) /\ UNCHANGED <<ref, lapse>>

\* String.from_bytes(s.bytes()).
TextThroughBytes ==
  /\ TextStep
  /\ value' = string_from_bytes(string_to_bytes(value))
  /\ UNCHANGED ref
  /\ LapseIf(string_len(value) # string_byte_size(value), "size for length")

\* The text of the number that s.to_int(), to_float() and from_hex() read.
TextToInt ==
  /\ TextStep /\ string_to_int(value) # <<>>
  /\ value' = string_from_int(string_to_int(value))
  /\ ref' = NumberText(ref, 0) /\ UNCHANGED lapse
TextToHex(after) ==
  /\ TextStep /\ string_to_int_hex(value, after) # <<>>
  /\ value' = string_from_int(string_to_int_hex(value, after))
  /\ ref' = NumberText(ref, 0)
  /\ LapseIf(~EndsTheBuffer(value), "read past the end")
TextToFloat(after) ==
  /\ TextStep /\ string_to_float(value, after) # <<>>
  /\ value' = string_from_float(string_to_float(value, after))
  /\ ref' = NumberText(ref, 1)
  /\ LapseIf(~EndsTheBuffer(value), "read past the end")

---------------------------------------------------------------------------
(* Documents: what Json values stand for.                                  *)

Doc(tag, text)  == [tag |-> tag, text |-> text]
NullDoc         == Doc("null", <<"n">>)
ArrayDoc(items) == [tag |-> "array", items |-> items]
ObjectDoc(f)    == [tag |-> "object", fields |-> f]
WordDoc(elem, k) == IF elem = "string" THEN Doc("string", <<Text[k]>>) ELSE Doc("int", IntText(k))
Sole(k, d)      == [c \in {Text[k]} |-> d]

\* The last member of a name is the one that counts.
RECURSIVE DocOf(_)
DocOf(tree) ==
  CASE tree.tag = "array"  -> ArrayDoc([i \in DOMAIN tree.items |-> DocOf(tree.items[i])])
    [] tree.tag = "object" ->
         ObjectDoc([c \in {tree.members[i].key[1] : i \in DOMAIN tree.members} |->
           LET named == {i \in DOMAIN tree.members : tree.members[i].key = <<c>>}
           IN DocOf(tree.members[CHOOSE i \in named : \A j \in named : j <= i].value)])
    [] OTHER -> tree

RECURSIVE Meaning(_)
Meaning(j) ==
  CASE json_is(j, "string") -> Doc("string", Content(j.str))
    [] IsArray(j)  -> ArrayDoc([i \in 1 .. json_len(j) |-> Meaning(json_get_index(j, i - 1))])
    [] IsObject(j) -> ObjectDoc([c \in {Text[k] : k \in {w \in Words : json_has(j, w)}} |->
                                   Meaning(json_get_field(j, KeyOf(<<c>>)))])
    [] OTHER -> j

RECURSIVE Nodes(_)
Nodes(d) == CASE d.tag = "array"  -> FoldLeft(LAMBDA n, item : n + Nodes(item), 1, d.items)
              [] d.tag = "object" -> FoldSet(LAMBDA c, n : n + Nodes(d.fields[c]), 1, DOMAIN d.fields)
              [] OTHER -> 1

\* A scalar literal.
JsonOf(d) == IF d.tag = "string" THEN json_new_string(lit(d.text))
             ELSE IF d.tag = "null" THEN json_new_null
             ELSE IF d.tag = "bool" THEN json_new_bool(d.text = <<"t">>)
             ELSE IF d.tag = "float" THEN json_new_float(d.text) ELSE json_new_int(d.text)

JsonStep == Stays("json") /\ UNCHANGED lapse
Small    == Nodes(ref') <= MaxNodes

\* {k: s}, {k: s, k: t}: the second of two members of a name replaces the first.
JsonLiteral(k, s, t) ==
  /\ Kind("json") /\ ref = NullDoc /\ JsonStep
  /\ value' = generate_json_object(<<[key |-> k, value |-> JsonOf(s)], [key |-> k, value |-> JsonOf(t)]>>)
  /\ ref' = ObjectDoc(Sole(k, t))

\* [j], {k: j}.
JsonWrap(k) ==
  /\ JsonStep
  /\ \/ value' = json_new_array(JsonList(<<value>>)) /\ ref' = ArrayDoc(<<ref>>)
     \/ value' = generate_json_object(<<[key |-> k, value |-> value]>>) /\ ref' = ObjectDoc(Sole(k, ref))
  /\ Small

JsonSetField(k, d) ==
  /\ JsonStep
  /\ value' = json_set_field(value, k, JsonOf(d))
  /\ ref' = IF ref.tag = "object" THEN ObjectDoc(With(ref.fields, Text[k], d)) ELSE ref
  /\ Small

JsonSetIndex(i, d) ==
  /\ JsonStep /\ i < json_len(value)
  /\ value' = json_set_index(value, i, JsonOf(d))
  /\ ref' = IF ref.tag = "array" THEN [ref EXCEPT !.items[i + 1] = d] ELSE ref

JsonAppend(d) ==
  /\ JsonStep
  /\ value' = json_append(value, JsonOf(d))
  /\ ref' = IF ref.tag = "array" THEN ArrayDoc(Append(ref.items, d)) ELSE ref
  /\ Small

JsonRemove(k) ==
  /\ JsonStep
  /\ value' = json_remove(value, k)
  /\ ref' = IF ref.tag = "object" THEN ObjectDoc(WithoutKey(ref.fields, Text[k])) ELSE ref

\* j.k and j[i], whatever j is.
JsonGetField(k) ==
  /\ JsonStep
  /\ value' = json_get_field(value, k)
  /\ ref' = IF ref.tag = "object" /\ Text[k] \in DOMAIN ref.fields THEN ref.fields[Text[k]] ELSE NullDoc
JsonGetIndex(i) ==
  /\ JsonStep
  /\ value' = json_get_index(value, i)
  /\ ref' = IF ref.tag = "array" /\ i + 1 \in DOMAIN ref.items THEN ref.items[i + 1] ELSE NullDoc

\* j.as_int(), j.as_float(), j as int, put into a Json value again.
JsonAsNumber ==
  /\ JsonStep
  /\ \/ value' = json_new_int(json_as_int(value))
        /\ ref' = Doc("int", CASE ref.tag \in {"int", "float"} -> NumberText(ref.text, 0) [] OTHER -> <<"0">>)
     \/ value' = json_new_float(json_as_float(value))
        /\ ref' = Doc("float", IF ref.tag \in {"int", "float"} THEN ref.text ELSE <<"0">>)
     \/ value' = json_new_int(generate_json_to_primitive(value, "int"))
        /\ ref' = Doc("int", IF ref.tag = "int" THEN ref.text ELSE <<"0">>)

---------------------------------------------------------------------------
(* Conversions.                                                            *)

\* What json_parse takes by its first byte alone.
TakenAsItIs(text) == text # <<>> /\ text[1] \in {"n", "t", "f", Quote, "["} \cup Digits \cup {Minus}

\* Json.parse(s): the document of the text, null when it is not JSON.
TextParse(after) ==
  /\ Kind("text") /\ Turns(JsonType)
  /\ LET docs == Documents(ref)
     IN /\ value' = json_parse(value, after)
        /\ ref' = IF docs = {} THEN NullDoc ELSE DocOf(CHOOSE d \in docs : TRUE)
        /\ lapse' = CASE docs = {} /\ TakenAsItIs(ref) -> "not JSON"
                      [] ref'.tag = "string" /\ value.len # value.size -> "size for length"
                      [] ref'.tag = "float" /\ ~EndsTheBuffer(value) -> "read past the end"
                      [] OTHER -> "none"

\* Bound: a string that becomes Json is one of the literals.
\* Json(s), and j as string for what is not an array or an object.
TextToJson ==
  /\ Kind("text") /\ Turns(JsonType) /\ ref \in Pieces \cup {<<>>}
  /\ value' = json_new_string(value) /\ ref' = Doc("string", ref) /\ UNCHANGED lapse
JsonToText ==
  /\ Kind("json") /\ Turns(TextType) /\ hash = AnyHash /\ ref.tag \notin {"array", "object"}
  /\ value' = generate_as_expr(value) /\ ref' = ref.text /\ UNCHANGED lapse

\* The document of an element, of its content.
ElemDoc(c) == IF Strings THEN Doc("string", <<c>>) ELSE Doc("int", IntText(c))
DocsOf(s)  == ArrayDoc([i \in DOMAIN s |-> ElemDoc(s[i])])

\* Json(l), with the type of its elements known, or not, as inside another
\* list, where strings are taken for integers.
ListToJson(known) ==
  /\ Kind("list") /\ Turns(JsonType) /\ Len(ref) < MaxNodes
  /\ value' = convert_list_to_json_array(known, type.elem, value)
  /\ ref' = DocsOf(ref)
  /\ LapseIf(~known /\ Strings /\ ref # <<>>, "handle for integer")

SetToJson(known) ==
  /\ Kind("set") /\ Turns(JsonType)
  /\ value' = convert_set_to_json_annotation(known, type.elem, value)
  /\ ref' = ObjectDoc(Sole(SetKey, DocsOf(InOrder(DOMAIN ref))))
  /\ LapseIf(~known /\ Strings /\ DOMAIN ref # {}, "handle for integer")

MapToJson ==
  /\ Kind("map") /\ Strings /\ Turns(JsonType)
  /\ value' = convert_map_to_json_object(type.val, value)
  /\ ref' = ObjectDoc([c \in DOMAIN ref |-> WordDoc(type.val, ref[c])])
  /\ UNCHANGED lapse

\* A struct or an enum with a field k, a word, and a function.
Field(k, t, v) == [key |-> k, type |-> t, val |-> v]
NameDoc(k)     == Doc("string", <<Text[k]>>)
UdtToJson(name, variant, t, k) ==
  /\ Kind("json") /\ ref = NullDoc /\ JsonStep
  /\ LET fields == <<Field(name, t, k)>>
         typed == Sole(TypeKey, NameDoc(name))
     IN \/ /\ value' = convert_struct_to_json(name, fields)
           /\ ref' = ObjectDoc(With(typed, Text[name], WordDoc(t, k)))
        \/ /\ value' = convert_enum_to_json(name, variant, fields)
           /\ ref' = ObjectDoc(With(With(typed, Text[VariantKey], NameDoc(variant)), Text[name], WordDoc(t, k)))
        \/ /\ value' = convert_function_to_json_annotation(name)
           /\ ref' = ObjectDoc(Sole(FuncKey, NameDoc(name)))

\* A struct with a list in it.
StructOfListToJson(name, k) ==
  /\ Kind("list") /\ Turns(JsonType) /\ Len(ref) < MaxNodes
  /\ value' = convert_struct_to_json(name, <<Field(k, "list", value)>>)
  /\ ref' = ObjectDoc(With(Sole(TypeKey, NameDoc(name)), Text[k], DocsOf(ref)))
  /\ LapseIf(ref # <<>>, "words for Json")

\* j.keys(), whose elements are tagged as integers, and one of j.values().
JsonKeys ==
  /\ Kind("json") /\ NoLapse /\ type' = [kind |-> "list", elem |-> "string", val |-> "int"]
  /\ value' = json_keys(value)
  /\ ref' = IF ref.tag = "object" THEN InOrder(DOMAIN ref.fields) ELSE <<>>
  /\ untagged' = TRUE /\ UNCHANGED <<hash, byHandle, overwritten, lapse>>
JsonValues(i) ==
  /\ JsonStep /\ i < json_values(value).len
  /\ value' = list_get(json_values(value), i).val
  /\ ref' = ref.fields[InOrder(DOMAIN ref.fields)[i + 1]]

TextNext ==
  \/ \E piece \in Pieces : TextConcat(piece) \/ \E new \in Pieces : TextReplace(piece, new)
  \/ \E start \in -1 .. MaxText : TextRest(start)
  \/ \E start \in -1 .. MaxText, end \in -1 .. MaxText + 1 :
       \/ TextSlice(start, end)
       \/ \E piece \in Pieces \cup {<<>>} : TextSetRange(start, end, piece)
  \/ TextDeepCopy \/ TextThroughBytes \/ TextToInt
  \/ \E after \in {<<>>, <<"1">>} : TextToHex(after) \/ TextToFloat(after) \/ TextParse(after)
  \/ TextToJson

JsonNext ==
  \/ \E d \in Scalars :
       \/ JsonAppend(d)
       \/ \E i \in 0 .. MaxNodes : JsonSetIndex(i, d)
       \/ \E k \in Words : JsonSetField(k, d)
       \/ \E k \in Words, e \in Scalars : JsonLiteral(k, d, e)
  \/ \E k \in Words : JsonWrap(k) \/ JsonRemove(k) \/ JsonGetField(k)
  \/ \E i \in 0 .. MaxNodes : JsonGetIndex(i) \/ JsonValues(i)
  \/ JsonAsNumber \/ JsonToText \/ JsonKeys
  \/ \E name, variant \in Words, t \in {"int", "string"}, k \in Elems : UdtToJson(name, variant, t, k)

ToJson ==
  \/ \E known \in BOOLEAN : ListToJson(known) \/ SetToJson(known)
  \/ MapToJson
  \/ \E name, k \in Words : StructOfListToJson(name, k)

DataNext ==
  \/ lapse = "none" /\ Next /\ UNCHANGED lapse
  \/ TextNext \/ JsonNext \/ ToJson

DataSpec == DataInit /\ [][DataNext]_allvars

---------------------------------------------------------------------------
\* A string stands for its bytes, its length counts their characters, and
\* what get, contains, == and split say is true of them.
TextContents ==
  Kind("text") /\ lapse = "none" =>
    /\ Content(value) = ref
    /\ string_byte_size(value) = Len(ref) /\ string_len(value) = Cardinality({i \in DOMAIN ref : ref[i] # "C"})
    /\ \A i \in -1 .. Len(ref) : string_get(value, i) = IF i + 1 \in DOMAIN ref THEN ref[i + 1] ELSE Nul
    /\ string_eq(value, lit(ref))
    /\ \A piece \in Pieces :
         LET pieces == string_split(value, lit(piece))
         IN /\ \A i \in DOMAIN pieces : ~string_contains(pieces[i], lit(piece))
            /\ string_contains(value, lit(piece)) <=> Len(pieces) > 1

\* A Json value stands for its document.
JsonContents == Kind("json") /\ lapse = "none" => Meaning(value) = ref

\* What the text of a document does not keep: a quote in a string, a float
\* without a dot.
RECURSIVE Kept(_)
Kept(d) ==
  CASE d.tag = "array"  -> \A i \in DOMAIN d.items : Kept(d.items[i])
    [] d.tag = "object" -> \A c \in DOMAIN d.fields : Kept(d.fields[c])
    [] d.tag = "string" -> ~Contains(d.text, Quote)
    [] d.tag = "float"  -> Contains(d.text, Dot)
    [] OTHER -> TRUE

\* A Json value parsed from its own text, compact or pretty, is the value,
\* as far as the text keeps it; a string by itself when all its characters
\* are single bytes.
JsonText ==
  Kind("json") /\ lapse = "none" /\ Kept(ref)
  /\ (ref.tag = "string" => Codepoints(ref.text) = Len(ref.text)) =>
    \A s \in {json_stringify(value)} \cup {json_pretty(value, n) : n \in 0 .. MaxIndent} :
      Meaning(json_parse(s, <<>>)) = ref

\* A value is what its operations make of the map, set, sequence, bytes or
\* document it stands for, after any sequence of operations and conversions
\* between the kinds, unless a string went by its handle, an element was
\* assigned by its index, or a step had a lapse that the code does not guard
\* against: a size passed for a length or a length for a size, a read past
\* the end of a string, a text that is not JSON, a list converted without
\* the type of its elements. The tries behind it are in shape all the same:
\* maps with the same keys are walked in the same order (TrieInOrder). And a
\* document survives its own text (JsonText).
SameValue == TrieInOrder /\ SameContents /\ TextContents /\ JsonContents /\ JsonText

RECURSIVE JsonTraced(_)
JsonTraced(j) ==
  CASE IsArray(j)  -> \A i \in 0 .. j.items.len - 1 :
                        tv_is_heap_type(list_get(j.items, i).tag) /\ JsonTraced(list_get(j.items, i).val)
    [] IsObject(j) -> /\ j.fields.flags = [key |-> TRUE, value |-> TRUE]
                      /\ \A k \in Words : json_has(j, k) => JsonTraced(json_get_field(j, k))
    [] OTHER -> TRUE

\* The collector can tell which words of a collection, or of a Json value
\* and all it holds, are handles, unless they went through code that takes
\* them for integers.
AllTraced == TracedWhole /\ (Kind("json") /\ lapse = "none" => JsonTraced(value))
=============================================================================
