-------------------------------- MODULE Json --------------------------------
(***************************************************************************)
(* The Json values of codegen/json_type.py: their constructors, accessors  *)
(* and updates, the conversions from and to Coex values, their text and    *)
(* its parsing.                                                            *)
(*                                                                         *)
(* A value is an object with a type and one word: a scalar, which is given *)
(* by its text, or the handle of a string, a list of tagged Json handles   *)
(* or a map from strings to Json handles.                                  *)
(***************************************************************************)
EXTENDS Collections, Strings

CONSTANTS
  TypeKey, VariantKey,  \* the keys _type and _variant of structs and enums
  SetKey,               \* the key @coex:set
  FuncKey               \* the key @coex:func

ASSUME JsonAssumption == {TypeKey, VariantKey, SetKey, FuncKey} \subseteq Words

Quote == "\""
Space == "_"           \* also the end of a line
IntText(k) == <<ToString(k)>>
literal(k) == string_from_literal(<<Text[k]>>)

json_new_null      == [tag |-> "null", text |-> <<"n">>]
json_new_bool(b)   == [tag |-> "bool", text |-> IF b THEN <<"t">> ELSE <<"f">>]
json_new_int(t)    == [tag |-> "int", text |-> t]
json_new_float(t)  == [tag |-> "float", text |-> t]
json_new_string(s) == [tag |-> "string", str |-> string_deep_copy(s)]
json_new_array(l)  == [tag |-> "array", items |-> l]
json_new_object(m) == [tag |-> "object", fields |-> m]

json_is(j, tag) == j.tag = tag
IsArray(j)      == json_is(j, "array")
IsObject(j)     == json_is(j, "object")

\* Lists and maps of Json handles.
TaggedJson(j) == [tag |-> "json", val |-> j]
JsonList(s)   == ListOf([i \in DOMAIN s |-> TaggedJson(s[i])])
json_map      == map_new([key |-> TRUE, value |-> TRUE])

\* An object literal, from its entries in order.
generate_json_object(entries) ==
  json_new_object(FoldLeft(LAMBDA m, e : map_set_string(m, e.key, e.value), json_map, entries))

---------------------------------------------------------------------------
\* What is absent reads as null.
json_get_field(j, k) ==
  IF IsObject(j) /\ map_has_string(j.fields, k) THEN map_get_string(j.fields, k) ELSE json_new_null
json_get_index(j, i) ==
  IF IsArray(j) /\ i >= 0 /\ i < j.items.len THEN list_get(j.items, i).val ELSE json_new_null
json_len(j)    == IF IsArray(j) THEN j.items.len ELSE IF IsObject(j) THEN j.fields.len ELSE 0
json_has(j, k) == IsObject(j) /\ map_has_string(j.fields, k)

\* Truncation: the text before the dot.
Truncated(t) == IF Contains(t, Dot) THEN SubSeq(t, 1, SelectInSeq(t, LAMBDA c : c = Dot) - 1) ELSE t
json_as_int(j)   == CASE j.tag = "int"   -> j.text
                      [] j.tag = "float" -> Truncated(j.text)
                      [] OTHER           -> IntText(0)
json_as_float(j) == IF j.tag \in {"int", "float"} THEN j.text ELSE IntText(0)

\* The object of another kind stays what it is.
json_set_field(j, k, v) == IF IsObject(j) THEN json_new_object(map_set_string(j.fields, k, v)) ELSE j
json_set_index(j, i, v) == IF IsArray(j) THEN json_new_array(list_set(j.items, i, TaggedJson(v))) ELSE j
\* The element tagged as the integer functions do (mutation).
AppendedAsInt(j, v) == IF IsArray(j) THEN json_new_array(list_append(j.items, AsInt(v))) ELSE j

json_append(j, v)       == IF IsArray(j) THEN json_new_array(list_append(j.items, TaggedJson(v))) ELSE j
json_remove(j, k)       == IF IsObject(j) THEN json_new_object(map_remove_string(j.fields, k)) ELSE j
json_keys(j)            == IF IsObject(j) THEN map_keys(j.fields) ELSE list_new
json_values(j)          == IF IsObject(j) THEN map_values(j.fields) ELSE list_new

---------------------------------------------------------------------------
(* The text. Strings are put between quotes as they are.                   *)

lit(t) == string_from_literal(t)
Chain(strings) == string_join_list(strings, lit(<<>>))
Items_(l) == [i \in 1 .. l.len |-> list_get(l, i - 1).val]
Keys_(m)  == Items_(map_keys(m))

RECURSIVE json_stringify(_), json_pretty_internal(_, _, _)

Quoted(s)          == Chain(<<lit(<<Quote>>), s, lit(<<Quote>>)>>)
Member(k, sep, s)  == Chain(<<Quoted(literal(k)), lit(sep), s>>)
Bracketed(open, strings, close) == Chain(<<lit(<<open>>), string_join_list(strings, lit(<<",">>)), lit(<<close>>)>>)

stringify_array(l)  == LET items == Items_(l)
                        IN Bracketed("[", [i \in DOMAIN items |-> json_stringify(items[i])], "]")
stringify_object(m) == LET keys == Keys_(m)
                        IN Bracketed("{", [i \in DOMAIN keys |->
                             Member(keys[i], <<":">>, json_stringify(map_get_string(m, keys[i])))], "}")
json_stringify(j) ==
  CASE json_is(j, "string") -> Quoted(j.str)
    [] IsArray(j)  -> stringify_array(j.items)
    [] IsObject(j) -> stringify_object(j.fields)
    [] OTHER       -> lit(j.text)

make_indent_string(size, depth) == lit([i \in 1 .. size * depth |-> Space])

\* The lines of an array or an object, one deeper than their brackets.
Lines(open, strings, close, size, depth) ==
  LET child == make_indent_string(size, depth + 1)
  IN IF strings = <<>> THEN lit(<<open, close>>)
     ELSE Chain(<<lit(<<open, Space>>), child, string_join_list(strings, Chain(<<lit(<<",", Space>>), child>>)),
                  lit(<<Space>>), make_indent_string(size, depth), lit(<<close>>)>>)

pretty_array(l, size, depth) ==
  LET items == Items_(l)
  IN Lines("[", [i \in DOMAIN items |-> json_pretty_internal(items[i], size, depth + 1)], "]", size, depth)
pretty_object(m, size, depth) ==
  LET keys == Keys_(m)
  IN Lines("{", [i \in DOMAIN keys |->
       Member(keys[i], <<":", Space>>, json_pretty_internal(map_get_string(m, keys[i]), size, depth + 1))],
       "}", size, depth)
json_pretty_internal(j, size, depth) ==
  CASE IsArray(j)  -> pretty_array(j.items, size, depth)
    [] IsObject(j) -> pretty_object(j.fields, size, depth)
    [] OTHER       -> json_stringify(j)
json_pretty(j, size) == json_pretty_internal(j, size, 0)

---------------------------------------------------------------------------
(* The grammar, as cJSON reads it, which skips white space and lets a dot  *)
(* end a number, or strictly. A document is a tree; an object in it is the *)
(* sequence of its members.                                                *)

RECURSIVE Value(_, _, _), Listing(_, _, _, _)

\* A tree that begins at position i and the position after it: at most one.
Value(strict, t, i) ==
  LET rest == SubSeq(t, i, Len(t))
      number == NumberText(rest, 1)
      next == i + Len(number)
      dot == next <= Len(t) /\ t[next] = Dot
      quotes == {n \in i + 1 .. Len(t) : t[n] = Quote}
  IN CASE i > Len(t)   -> {}
       [] t[i] = Space -> Value(strict, t, i + 1)
       [] t[i] = "n"   -> {<<[tag |-> "null", text |-> <<"n">>], i + 1>>}
       [] t[i] \in {"t", "f"} -> {<<[tag |-> "bool", text |-> <<t[i]>>], i + 1>>}
       [] t[i] \in Digits \cup {Minus} ->
            IF number = <<>> \/ (strict /\ dot) THEN {}
            ELSE {<<[tag |-> IF Contains(number, Dot) THEN "float" ELSE "int", text |-> number],
                    IF dot THEN next + 1 ELSE next>>}
       [] t[i] = Quote ->
            {<<[tag |-> "string", text |-> SubSeq(t, i + 1, n - 1)], n + 1>> :
               n \in {q \in quotes : \A other \in quotes : q <= other}}
       [] t[i] = "[" -> {<<[tag |-> "array", items |-> e[1]], e[2]>> : e \in Listing(strict, t, i + 1, "]")}
       [] t[i] = "{" -> {<<[tag |-> "object", members |-> e[1]], e[2]>> : e \in Listing(strict, t, i + 1, "}")}
       [] OTHER -> {}

SkipSpace(t, i) == IF \E n \in i .. Len(t) : t[n] # Space
                   THEN CHOOSE n \in i .. Len(t) : t[n] # Space /\ \A m \in i .. n - 1 : t[m] = Space
                   ELSE Len(t) + 1
At(t, i) == IF i <= Len(t) THEN t[i] ELSE Nul

\* An element, or a key and a value with a colon between them.
Element(strict, t, i, close) ==
  IF close = "]" THEN Value(strict, t, i)
  ELSE UNION {{<<[key |-> k[1].text, value |-> v[1]], v[2]>> :
                 v \in IF k[1].tag = "string" /\ At(t, SkipSpace(t, k[2])) = ":"
                       THEN Value(strict, t, SkipSpace(t, k[2]) + 1) ELSE {}} :
              k \in Value(strict, t, i)}

\* The elements up to the closing bracket, and the position after it.
Listing(strict, t, i, close) ==
  IF At(t, SkipSpace(t, i)) = close THEN {<<<<>>, SkipSpace(t, i) + 1>>}
  ELSE UNION {LET next == SkipSpace(t, e[2])
              IN CASE At(t, next) = close -> {<<<<e[1]>>, next + 1>>}
                   [] At(t, next) = "," /\ At(t, SkipSpace(t, next + 1)) # close ->
                        {<<<<e[1]>> \o more[1], more[2]>> : more \in Listing(strict, t, next + 1, close)}
                   [] OTHER -> {} :
              e \in Element(strict, t, i, close)}

\* cJSON does not look at what follows the document.
cJSON_Parse(t) == {v[1] : v \in Value(FALSE, t, 1)}
Documents(t)   == {v[1] : v \in {d \in Value(TRUE, t, 1) : SkipSpace(t, d[2]) > Len(t)}}

---------------------------------------------------------------------------
\* The handle of a text.
KeyOf(text) == CHOOSE k \in Words : <<Text[k]>> = text

RECURSIVE json_from_cjson(_)
ArrayOf(items)    == json_new_array(JsonList([i \in DOMAIN items |-> json_from_cjson(items[i])]))
ObjectOf(members) == generate_json_object([i \in DOMAIN members |->
                       [key |-> KeyOf(members[i].key), value |-> json_from_cjson(members[i].value)]])
json_from_cjson(d) ==
  CASE d.tag = "string" -> json_new_string(lit(d.text))
    [] d.tag = "array"  -> ArrayOf(d.items)
    [] d.tag = "object" -> ObjectOf(d.members)
    [] OTHER -> d

ClosingQuote(s) == s.len - 1

\* The text of a number that failed to convert is that of 0.
OrZero(t) == IF t = <<>> THEN IntText(0) ELSE t

ParseString(s)   == json_new_string(string_slice(s, 1, ClosingQuote(s)))
ParseCompound(s) == LET trees == cJSON_Parse(Content(s))
                    IN IF trees = {} THEN json_new_null ELSE json_from_cjson(CHOOSE d \in trees : TRUE)
ParseNumber(s, after) ==
  IF Contains(SubSeq(string_data(s), 1, s.len), Dot)
  THEN json_new_float(OrZero(string_to_float(s, after)))
  ELSE json_new_int(OrZero(string_to_int(s)))

\* By the first byte; scalars are taken as they are.
json_parse(s, after) ==
  LET first == string_data(s)[1]
  IN IF s.len = 0 THEN json_new_null
     ELSE CASE first \in {"t", "f"}            -> json_new_bool(first = "t")
            [] first = Quote                   -> ParseString(s)
            [] first \in {"[", "{"}            -> ParseCompound(s)
            [] first \in Digits \cup {Minus}   -> ParseNumber(s, after)
            [] OTHER                           -> json_new_null

---------------------------------------------------------------------------
(* From Coex values. A word is converted by the type the compiler knows    *)
(* for it, or as an integer when it knows none.                            *)

convert_to_json(known, elem, k) ==
  IF known /\ elem = "string" THEN json_new_string(literal(k)) ELSE json_new_int(IntText(k))

convert_list_to_json_array(known, elem, l) ==
  json_new_array(JsonList([i \in 1 .. l.len |-> convert_to_json(known, elem, list_get(l, i - 1).val)]))

\* A map with keys that are strings.
convert_map_to_json_object(val, m) ==
  generate_json_object([i \in 1 .. m.len |->
    [key |-> Keys_(m)[i], value |-> convert_to_json(TRUE, val, list_get(map_values(m), i - 1).val)]])

convert_set_to_json_annotation(known, elem, s) ==
  generate_json_object(<<[key |-> SetKey, value |-> convert_list_to_json_array(known, elem, set_to_list(s))]>>)
convert_function_to_json_annotation(name) ==
  generate_json_object(<<[key |-> FuncKey, value |-> json_new_string(literal(name))]>>)

\* A field of a struct: the list of a field is wrapped as it is.
convert_field_to_json(field) ==
  IF field.type = "list" THEN json_new_array(field.val) ELSE convert_to_json(TRUE, field.type, field.val)
FieldEntry(field) == [key |-> field.key, value |-> convert_field_to_json(field)]
convert_struct_to_json(name, fields) ==
  generate_json_object(<<[key |-> TypeKey, value |-> json_new_string(literal(name))]>>
                       \o [i \in DOMAIN fields |-> FieldEntry(fields[i])])
convert_enum_to_json(name, variant, fields) ==
  generate_json_object(<<[key |-> TypeKey, value |-> json_new_string(literal(name))],
                         [key |-> VariantKey, value |-> json_new_string(literal(variant))]>>
                       \o [i \in DOMAIN fields |-> FieldEntry(fields[i])])

\* j as int or float: 0 when it is neither (the text of it).
generate_json_to_primitive(j, tag) == IF json_is(j, tag) THEN j.text ELSE IntText(0)
\* j as string: the string itself, or the text.
generate_as_expr(j) == IF json_is(j, "string") THEN j.str ELSE json_stringify(j)
=============================================================================
