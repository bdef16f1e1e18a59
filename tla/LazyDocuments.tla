--------------------------- MODULE LazyDocuments ----------------------------
(* Documents in the encoding they are stored in, and the lookup of one      *)
(* field in it without decoding the rest.                                   *)
(*                                                                          *)
(* A stored document is a sequence of bytes.  Lengths and variant indexes   *)
(* are varints, here always of one byte; a number takes NumberBytes bytes   *)
(* and a time one.  A string is a sequence of characters, and a map the     *)
(* sequence of its entries in key order.                                    *)
EXTENDS Integers, Sequences, SequencesExt

CONSTANTS NumberBytes  \* the bytes a double or a component of a vector takes

DIRECTORY_MARKER == 255

\* The variants of Value that differ in how they are skipped.
Variant == [null |-> 0, boolean |-> 1, double |-> 3, string |-> 5, point |-> 8,
            array |-> 9, map |-> 10, vector |-> 11]

LessKey(a, b) ==
  LET shorter == IF Len(a) < Len(b) THEN Len(a) ELSE Len(b)
      first == SelectInSubSeq([i \in 1..shorter |-> a[i] - b[i]], 1, shorter, LAMBDA d : d # 0)
  IN IF first = 0 THEN Len(a) < Len(b) ELSE a[first] < b[first]

-----------------------------------------------------------------------------
(* Encoding and decoding.                                                   *)

EncodeString(s) == <<Len(s)>> \o s
EncodeNumber(n) == [i \in 1..NumberBytes |-> n]

RECURSIVE EncodeValue(_)
EncodeEntries(entries) ==
  <<Len(entries)>> \o FlattenSeq([i \in DOMAIN entries |->
                                   EncodeString(entries[i].key) \o EncodeValue(entries[i].value)])
EncodeValue(v) ==
  <<Variant[v.t]>> \o
  CASE v.t = "null" -> <<>>
    [] v.t = "boolean" -> <<v.n>>
    [] v.t = "double" -> EncodeNumber(v.n)
    [] v.t = "string" -> EncodeString(v.s)
    [] v.t = "point" -> EncodeNumber(v.n) \o EncodeNumber(v.n)
    [] v.t = "array" -> <<Len(v.a)>> \o FlattenSeq([i \in DOMAIN v.a |-> EncodeValue(v.a[i])])
    [] v.t = "map" -> EncodeEntries(v.m)
    [] v.t = "vector" -> <<Len(v.c)>> \o FlattenSeq([i \in DOMAIN v.c |-> EncodeNumber(v.c[i])])

\* The value at a position and the position after it.
RECURSIVE DecodeValue(_, _)
RECURSIVE DecodeItems(_, _, _)
RECURSIVE DecodeEntries(_, _, _)
DecodeItems(b, at, n) ==
  IF n = 0 THEN [items |-> <<>>, at |-> at]
  ELSE LET first == DecodeValue(b, at)
           rest == DecodeItems(b, first.at, n - 1)
       IN [items |-> <<first.value>> \o rest.items, at |-> rest.at]
DecodeEntries(b, at, n) ==
  IF n = 0 THEN [items |-> <<>>, at |-> at]
  ELSE LET first == DecodeValue(b, at + 1 + b[at])
           rest == DecodeEntries(b, first.at, n - 1)
       IN [items |-> <<[key |-> SubSeq(b, at + 1, at + b[at]), value |-> first.value]>> \o rest.items,
           at |-> rest.at]
DecodeValue(b, at) ==
  LET t == CHOOSE t \in DOMAIN Variant : Variant[t] = b[at]
      n == b[at + 1]
  IN CASE t = "null" -> [value |-> [t |-> t], at |-> at + 1]
       [] t = "boolean" -> [value |-> [t |-> t, n |-> n], at |-> at + 2]
       [] t = "double" -> [value |-> [t |-> t, n |-> n], at |-> at + 1 + NumberBytes]
       [] t = "string" -> [value |-> [t |-> t, s |-> SubSeq(b, at + 2, at + 1 + n)], at |-> at + 2 + n]
       [] t = "point" -> [value |-> [t |-> t, n |-> n], at |-> at + 1 + 2 * NumberBytes]
       [] t = "array" -> LET d == DecodeItems(b, at + 2, n)
                         IN [value |-> [t |-> t, a |-> d.items], at |-> d.at]
       [] t = "map" -> LET d == DecodeEntries(b, at + 2, n)
                       IN [value |-> [t |-> t, m |-> d.items], at |-> d.at]
       [] t = "vector" -> [value |-> [t |-> t, c |-> [i \in 1..n |-> b[at + 2 + (i - 1) * NumberBytes]]],
                           at |-> at + 2 + n * NumberBytes]

-----------------------------------------------------------------------------
(* Skipping, and the directory of the top-level fields.                     *)

\* The position after the value at a position.
RECURSIVE skip_value(_, _)
RECURSIVE skip_times(_, _, _, _)
skip_times(b, at, n, keyed) ==
  IF n = 0 THEN at
  ELSE skip_times(b, skip_value(b, IF keyed THEN at + 1 + b[at] ELSE at), n - 1, keyed)
skip_value(b, at) ==
  CASE b[at] = Variant.null -> at + 1
    [] b[at] = Variant.boolean -> at + 2
    [] b[at] = Variant.double -> at + 1 + NumberBytes
    [] b[at] = Variant.string -> at + 2 + b[at + 1]
    [] b[at] = Variant.point -> at + 1 + 2 * NumberBytes
    [] b[at] = Variant.array -> skip_times(b, at + 2, b[at + 1], FALSE)
    [] b[at] = Variant.map -> skip_times(b, at + 2, b[at + 1], TRUE)
    [] b[at] = Variant.vector -> at + 2 + b[at + 1] * NumberBytes

\* The key, offset and length of every field of an encoded document.
RECURSIVE directory_from(_, _, _)
directory_from(body, at, n) ==
  IF n = 0 THEN <<>>
  ELSE LET start == at + 1 + body[at]
           end == skip_value(body, start)
       IN <<[key |-> SubSeq(body, at + 1, at + body[at]), offset |-> start - 1, len |-> end - start]>>
          \o directory_from(body, end, n - 1)
field_directory(body) == directory_from(body, 2, body[1])

\* A document is its fields and the times it was created and updated.
EncodeDocument(fields) == EncodeEntries(fields) \o <<1, 2>>

encode_stored_document(fields) ==
  LET body == EncodeDocument(fields)
      directory == field_directory(body)
  IN <<DIRECTORY_MARKER, Len(directory)>>
     \o FlattenSeq([i \in DOMAIN directory |->
          EncodeString(directory[i].key) \o <<directory[i].offset, directory[i].len>>])
     \o body

\* The position after a directory of n entries.
RECURSIVE skip_directory(_, _, _)
skip_directory(b, at, n) == IF n = 0 THEN at ELSE skip_directory(b, at + 3 + b[at], n - 1)

document_body(b) ==
  IF b[1] # DIRECTORY_MARKER THEN b ELSE SubSeq(b, skip_directory(b, 3, b[2]), Len(b))

decode_stored_document(b) == DecodeEntries(document_body(b), 2, document_body(b)[1]).items

-----------------------------------------------------------------------------
(* Lookups.  Nothing found is the empty sequence.                           *)

\* The encoded value of a field, by the directory of a stored document.
RECURSIVE directory_entry(_, _, _, _)
directory_entry(b, at, n, target) ==
  IF n = 0 THEN <<>>
  ELSE LET len == b[at]
           here == IF SubSeq(b, at + 1, at + len) = target
                   THEN <<[offset |-> b[at + len + 1], len |-> b[at + len + 2]]>> ELSE <<>>
           later == directory_entry(b, at + 3 + len, n - 1, target)
       IN IF later = <<>> THEN here ELSE later
directory_lookup(b, target) ==
  LET found == directory_entry(b, 3, b[2], target)
      start == skip_directory(b, 3, b[2])
  IN IF found = <<>> THEN <<>>
     ELSE SubSeq(b, start + found[1].offset, start + found[1].offset + found[1].len - 1)

\* Walks n entries for a target, past lesser keys only, and into the maps of
\* the remaining segments.
RECURSIVE find_in_map(_, _, _, _, _)
find_in_map(b, at, n, target, rest) ==
  LET key == SubSeq(b, at + 1, at + b[at])
      value == at + 1 + b[at]
  IN IF n = 0 \/ LessKey(target, key) THEN <<>>
     ELSE IF key # target THEN find_in_map(b, skip_value(b, value), n - 1, target, rest)
     ELSE IF rest = <<>> THEN <<DecodeValue(b, value).value>>
     ELSE IF b[value] # Variant.map THEN <<>>
     ELSE find_in_map(b, value + 2, b[value + 1], rest[1], Tail(rest))

find_field(b, segments) ==
  IF segments = <<>> THEN <<>>
  ELSE IF b[1] # DIRECTORY_MARKER THEN find_in_map(b, 2, b[1], segments[1], Tail(segments))
  ELSE LET v == directory_lookup(b, segments[1])
           rest == Tail(segments)
       IN IF v = <<>> THEN <<>>
          ELSE IF rest = <<>> THEN <<DecodeValue(v, 1).value>>
          ELSE IF v[1] # Variant.map THEN <<>>
          ELSE find_in_map(v, 3, v[2], rest[1], Tail(rest))

\* The field of a decoded document.
RECURSIVE nested_value(_, _)
nested_value(fields, segments) ==
  LET at == IF segments = <<>> THEN 0 ELSE SelectInSeq(fields, LAMBDA e : e.key = segments[1])
  IN IF at = 0 THEN <<>>
     ELSE IF Len(segments) = 1 THEN <<fields[at].value>>
     ELSE IF fields[at].value.t # "map" THEN <<>>
     ELSE nested_value(fields[at].value.m, Tail(segments))

\* A field read from an encoded document, with or without a directory, is the
\* field of the decoded document, and decoding gives back what was encoded.
FieldFound(fields, segments) ==
  LET stored == encode_stored_document(fields)
      plain == EncodeDocument(fields)
  IN /\ decode_stored_document(stored) = fields
     /\ decode_stored_document(plain) = fields
     /\ find_field(stored, segments) = nested_value(fields, segments)
     /\ find_field(plain, segments) = nested_value(fields, segments)

=============================================================================
