------------------------------ MODULE Strings ------------------------------
(***************************************************************************)
(* The strings of codegen/strings.py. A string is a view of a buffer of    *)
(* bytes: the buffer, where the view begins, its size in bytes and its     *)
(* length in code points. Slices share the buffer they are cut from.       *)
(*                                                                         *)
(* A byte is a symbol: "C" continues a character that an "L" begins, any   *)
(* other is a character of its own; numbers are texts of digits. Offsets   *)
(* count from 0.                                                           *)
(***************************************************************************)
EXTENDS Integers, Sequences, FiniteSets, SequencesExt

Nul    == "nul"
Digits == {"0", "1", "2", "3", "4"}
Dot    == "."
Minus  == "-"

BeginsCharacter(b) == b # "C"
Codepoints(bytes)  == Len(SelectSeq(bytes, BeginsCharacter))

string_len(s)       == s.len
string_byte_size(s) == s.size
\* From where the view begins to the end of the buffer.
string_data(s) == SubSeq(s.owner, s.from + 1, Len(s.owner))
Content(s)     == SubSeq(s.owner, s.from + 1, s.from + s.size)

\* A copy of the first size bytes, and a NUL.
string_new(data, size, len) ==
  [owner |-> Append(SubSeq(data, 1, size), Nul), from |-> 0, size |-> size, len |-> len]
string_from_literal(bytes) == string_new(bytes, Len(bytes), Codepoints(bytes))

string_get(s, i)   == IF i >= 0 /\ i < s.size THEN string_data(s)[i + 1] ELSE Nul
string_eq(a, b)    == a.size = b.size /\ Content(a) = Content(b)

\* The offset brought between two bounds.
Between(x, lo, hi) == IF x < lo THEN lo ELSE IF x > hi THEN hi ELSE x

string_slice(s, start, end) ==
  LET from == Between(start, 0, s.size)
      size == Between(end, from, s.size) - from
  IN [s EXCEPT !.from = @ + from, !.size = size,
               !.len = Codepoints(SubSeq(s.owner, s.from + from + 1, s.from + from + size))]

string_concat(a, b) == string_new(Content(a) \o Content(b), a.size + b.size, a.len + b.len)

string_setrange(s, start, end, source) ==
  LET from  == Between(start, 0, s.size)
      bytes == SubSeq(Content(s), 1, from) \o Content(source)
               \o SubSeq(Content(s), Between(end, from, s.size) + 1, s.size)
  IN string_new(bytes, Len(bytes), Codepoints(bytes))

\* A buffer of just the bytes: the NUL is not copied.
string_deep_copy(s) == [s EXCEPT !.owner = Content(s), !.from = 0]

string_join_list(strings, separator) ==
  IF strings = <<>> THEN string_new(<<>>, 0, 0)
  ELSE FoldLeft(LAMBDA joined, s : string_concat(string_concat(joined, separator), s),
                Head(strings), Tail(strings))

\* Whether the needle is in the bytes at an offset.
MatchesAt(bytes, i, needle) == SubSeq(bytes, i + 1, i + Len(needle)) = needle
string_contains(s, needle) ==
  needle.size = 0 \/ \E i \in 0 .. s.size - needle.size : MatchesAt(Content(s), i, Content(needle))

\* The scan begun again one byte into the delimiter (mutation).
OneFurther(i, size) == i + 1

AfterMatch(i, size) == i + size

\* The pieces from start on, when the bytes before i have been looked at.
RECURSIVE Scan(_, _, _, _)
Scan(s, delim, start, i) ==
  CASE i + delim.size > s.size -> <<string_slice(s, start, s.size)>>
    [] i + delim.size <= s.size /\ MatchesAt(Content(s), i, Content(delim)) ->
         LET next == AfterMatch(i, delim.size)
         IN <<string_slice(s, start, i)>> \o Scan(s, delim, next, next)
    [] OTHER -> Scan(s, delim, start, i + 1)
string_split(s, delim) == IF delim.size = 0 THEN <<s>> ELSE Scan(s, delim, 0, 0)

string_to_bytes(s) == Content(s)
\* The size and the length change places on the way to string_new.
string_from_bytes(bytes) == string_new(bytes, Codepoints(bytes), Len(bytes))

---------------------------------------------------------------------------
(* Numbers. strtoll and strtod read as far as a number goes; what follows  *)
(* the buffer of a deep copy is any byte.                                  *)

\* The longest beginning of the bytes that is a number: its text.
NumberText(bytes, dots) ==
  LET sign   == IF bytes # <<>> /\ bytes[1] = Minus THEN 1 ELSE 0
      IsNumber(n) ==
        /\ n > sign /\ bytes[sign + 1] \in Digits
        /\ \A i \in sign + 1 .. n : bytes[i] \in Digits \cup {Dot}
        /\ Cardinality({i \in sign + 1 .. n : bytes[i] = Dot}) <= dots
      ends == {n \in 1 .. Len(bytes) : IsNumber(n) /\ bytes[n] # Dot}
  IN IF ends = {} THEN <<>> ELSE SubSeq(bytes, 1, CHOOSE n \in ends : \A m \in ends : m <= n)

\* What C reads at the data of a string, with no regard to its size.
CString(s, after) == LET bytes == Append(string_data(s) \o after, Nul)
                     IN SubSeq(bytes, 1, SelectInSeq(bytes, LAMBDA b : b = Nul) - 1)
EndsTheBuffer(s)  == s.from + s.size < Len(s.owner) /\ s.owner[s.from + s.size + 1] = Nul

\* The text of the number read, or <<>> when there is none.
string_to_int(s)            == NumberText(Content(s), 0)
string_to_int_hex(s, after) == IF s.size = 0 THEN <<>> ELSE NumberText(CString(s, after), 0)
string_to_float(s, after)   == IF s.size = 0 THEN <<>> ELSE NumberText(CString(s, after), 1)

string_from_int(text)   == string_from_literal(text)
string_from_float(text) == string_from_literal(text)
=============================================================================
