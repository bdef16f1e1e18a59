--------------------------- MODULE DocumentWrites ---------------------------
(* What one write makes of a document (core-store): masks over nested       *)
(* fields, field transforms, preconditions, the plan of a commit, and the   *)
(* logical bytes kept beside the documents.  Values are those of the query  *)
(* engine; every number here is compared by core-store's own functions.     *)
(* Names and other texts are one byte long.                                 *)
EXTENDS Integers, Sequences, FiniteSets, SequencesExt, FiniteSetsExt

CONSTANTS IntLimit, IndexedBytes

LOCAL Q == INSTANCE QueryEngine

Extend(f, k, v) == [x \in DOMAIN f \cup {k} |-> IF x = k THEN v ELSE f[x]]
Without(f, k) == [x \in DOMAIN f \ {k} |-> f[x]]
MapOf(m) == [t |-> "map", m |-> m]

-----------------------------------------------------------------------------
(* Equality and order of values.                                            *)

IsDouble(v) == v.t \in {"double", "nan"}
IsNumber(v) == v.t = "int" \/ IsDouble(v)

doubles_equal(l, r) == l = r

\* A double in range whose fraction is zero.
integer_double_equal(n, d) ==
  /\ d.t = "double"
  /\ d.h \in -2 * IntLimit .. 2 * IntLimit - 1
  /\ d.h = 2 * n

RECURSIVE values_equal(_, _)
values_equal(l, r) ==
  CASE l.t = "int" /\ IsDouble(r) -> integer_double_equal(l.n, r)
    [] IsDouble(l) /\ r.t = "int" -> integer_double_equal(r.n, l)
    [] l.t /= r.t /\ ~(IsNumber(l) /\ IsNumber(r)) -> FALSE
    [] IsDouble(l) /\ IsDouble(r) -> doubles_equal(l, r)
    [] l.t = "array" /\ r.t = "array" ->
         Len(l.a) = Len(r.a) /\ \A i \in DOMAIN l.a : values_equal(l.a[i], r.a[i])
    [] l.t = "map" /\ r.t = "map" ->
         DOMAIN l.m = DOMAIN r.m /\ \A f \in DOMAIN l.m : values_equal(l.m[f], r.m[f])
    [] OTHER -> l = r

compare_integer_double(n, d) ==
  IF d.h >= 2 * IntLimit THEN -1
  ELSE IF d.h < -2 * IntLimit THEN 1
  ELSE LET truncated == IF d.h >= 0 THEN d.h \div 2 ELSE -((-d.h) \div 2)
       IN IF n /= truncated THEN Q!Cmp(n, truncated) ELSE Q!Cmp(2 * truncated, d.h)

compare_numeric(l, r) ==
  CASE l.t = "int" /\ r.t = "int" -> Q!Cmp(l.n, r.n)
    [] l.t = "double" /\ r.t = "double" -> Q!Cmp(l.h, r.h)
    [] l.t = "int" /\ r.t = "double" -> compare_integer_double(l.n, r)
    [] l.t = "double" /\ r.t = "int" -> -compare_integer_double(r.n, l)

-----------------------------------------------------------------------------
(* Fields: functions on names.  A path is a sequence of names.              *)

nested_value(fields, segments) ==
  IF segments = <<>> THEN <<>> ELSE Q!nested_value(fields, segments)

RECURSIVE set_nested_map_value(_, _, _)
set_nested_map_value(map, segments, v) ==
  LET first == Head(segments)
      child == IF first \notin DOMAIN map THEN <<>>
               ELSE IF map[first].t = "map" THEN map[first].m ELSE <<>>
  IN Extend(map, first, IF Len(segments) = 1 THEN v
                        ELSE MapOf(set_nested_map_value(child, Tail(segments), v)))

set_nested_value(fields, segments, v) == set_nested_map_value(fields, segments, v)

RECURSIVE delete_nested_map_value(_, _)
delete_nested_map_value(map, segments) ==
  LET first == Head(segments)
  IN IF Len(segments) = 1 THEN Without(map, first)
     ELSE IF first \notin DOMAIN map THEN map
     ELSE IF map[first].t /= "map" THEN map
     ELSE Extend(map, first, MapOf(delete_nested_map_value(map[first].m, Tail(segments))))

delete_nested_value(fields, segments) == delete_nested_map_value(fields, segments)

-----------------------------------------------------------------------------
(* Transforms: [path, op, value].                                           *)

\* Integers saturate; a sum with a double is a double.
increment_value(current, operand) ==
  LET halves(v) == IF v.t = "int" THEN 2 * v.n ELSE v.h
      c == current[1]
  IN IF current = <<>> THEN operand
     ELSE IF ~IsNumber(c) THEN operand
     ELSE IF c.t = "int" /\ operand.t = "int"
       THEN [t |-> "int", n |-> Max({-IntLimit, Min({IntLimit - 1, c.n + operand.n})})]
     ELSE IF "nan" \in {c.t, operand.t} THEN [t |-> "nan"]
     ELSE [t |-> "double", h |-> halves(c) + halves(operand)]

numeric_bound_value(current, operand, replace_when) ==
  IF current = <<>> THEN operand
  ELSE IF ~IsNumber(current[1]) THEN operand
  ELSE IF current[1].t = "nan" THEN current[1]
  ELSE IF operand.t = "nan" THEN operand
  ELSE IF compare_numeric(current[1], operand) = replace_when THEN operand
  ELSE current[1]

Holds(elements, v) == \E i \in DOMAIN elements : values_equal(elements[i], v)

Numeric == {"increment", "maximum", "minimum"}

\* The result has an error or the new fields.
apply_transform(fields, transform, time) ==
  LET current == nested_value(fields, transform.path)
      array == IF current = <<>> THEN <<>>
               ELSE IF current[1].t = "array" THEN current[1].a ELSE <<>>
      next ==
        CASE transform.op = "time" -> [t |-> "time", n |-> time]
          [] transform.op = "increment" -> increment_value(current, transform.value)
          [] transform.op = "maximum" -> numeric_bound_value(current, transform.value, -1)
          [] transform.op = "minimum" -> numeric_bound_value(current, transform.value, 1)
          [] transform.op = "union" ->
               [t |-> "array",
                a |-> FoldLeft(LAMBDA s, e : IF Holds(s, e) THEN s ELSE Append(s, e),
                               array, transform.value)]
          [] transform.op = "remove" ->
               [t |-> "array",
                a |-> SelectSeq(array, LAMBDA e : ~Holds(transform.value, e))]
  IN IF transform.op \notin Numeric
       THEN [err |-> "", fields |-> set_nested_value(fields, transform.path, next)]
     ELSE IF ~IsNumber(transform.value) THEN [err |-> "operand", fields |-> fields]
     ELSE [err |-> "", fields |-> set_nested_value(fields, transform.path, next)]

apply_transforms(fields, transforms, time) ==
  FoldLeft(LAMBDA r, x : IF r.err /= "" THEN r ELSE apply_transform(r.fields, x, time),
           [err |-> "", fields |-> fields], transforms)

-----------------------------------------------------------------------------
(* Writes: [op, key, fields, mask, transforms, pre].  Documents are         *)
(* [fields, created, updated]; an absent one is <<>>.                       *)

write_key(write) == write.key

Lookup(documents, key) == IF key \in DOMAIN documents THEN <<documents[key]>> ELSE <<>>

validate_precondition(document, pre) ==
  CASE pre.k = "none" -> ""
    [] pre.k = "exists" -> IF (document /= <<>>) = pre.b THEN ""
                           ELSE IF pre.b THEN "absent" ELSE "present"
    [] pre.k = "time" -> IF document = <<>> THEN "time"
                         ELSE IF document[1].updated = pre.n THEN "" ELSE "time"

\* Equality of stored fields, by which a NaN differs from itself.
RECURSIVE SameBits(_, _)
SameBits(l, r) ==
  CASE l.t /= r.t \/ "nan" \in {l.t, r.t} -> FALSE
    [] l.t = "array" /\ r.t = "array" ->
         Len(l.a) = Len(r.a) /\ \A i \in DOMAIN l.a : SameBits(l.a[i], r.a[i])
    [] l.t = "map" /\ r.t = "map" ->
         DOMAIN l.m = DOMAIN r.m /\ \A f \in DOMAIN l.m : SameBits(l.m[f], r.m[f])
    [] OTHER -> l = r

Unchanged(previous, write) ==
  /\ write.transforms = <<>>
  /\ previous /= <<>>
  /\ SameBits(MapOf(previous[1].fields), MapOf(write.fields))

\* The update mask, path by path: what the write gives is set, the rest goes.
MaskedFields(previous, write) ==
  FoldLeft(LAMBDA f, path :
             LET given == nested_value(write.fields, path)
             IN IF given /= <<>> THEN set_nested_value(f, path, given[1])
                ELSE delete_nested_value(f, path),
           IF previous = <<>> THEN <<>> ELSE previous[1].fields, write.mask)

apply_write(documents, write, time) ==
  LET previous == Lookup(documents, write.key)
      refused == validate_precondition(previous, write.pre)
      base == IF write.op = "patch" THEN MaskedFields(previous, write) ELSE write.fields
      applied == apply_transforms(base, write.transforms, time)
      made == [fields |-> applied.fields, updated |-> time,
               created |-> IF previous = <<>> THEN time ELSE previous[1].created]
  IN CASE write.op = "create" ->
            IF previous /= <<>> THEN [err |-> "exists", next |-> <<>>]
            ELSE [err |-> "", next |-> <<[fields |-> write.fields, created |-> time,
                                          updated |-> time]>>]
       [] write.op \in {"set", "patch"} ->
            IF refused /= "" THEN [err |-> refused, next |-> <<>>]
            ELSE IF applied.err /= "" THEN [err |-> applied.err, next |-> <<>>]
            ELSE IF write.op = "set" /\ Unchanged(previous, write)
              THEN [err |-> "", next |-> previous]
            ELSE [err |-> "", next |-> <<made>>]
       [] write.op = "delete" -> [err |-> refused, next |-> <<>>]
       [] write.op = "verify" -> [err |-> refused, next |-> previous]

Put(documents, key, next) ==
  IF next = <<>> THEN Without(documents, key) ELSE Extend(documents, key, next[1])

\* Whether a commit logs a change: a document holding NaN always differs.
SameDocument(l, r) ==
  \/ l = <<>> /\ r = <<>>
  \/ /\ l /= <<>> /\ r /= <<>>
     /\ l[1].created = r[1].created /\ l[1].updated = r[1].updated
     /\ SameBits(MapOf(l[1].fields), MapOf(r[1].fields))

\* The writes of a commit one after the other, each on what the last left; the
\* first refused one refuses them all.
plan_with_documents(documents, writes, time) ==
  FoldLeft(LAMBDA plan, w :
             LET made == apply_write(plan.documents, w, time)
                 before == Lookup(plan.documents, w.key)
             IN IF plan.err /= "" THEN plan
                ELSE IF made.err /= "" THEN [plan EXCEPT !.err = made.err]
                ELSE [err |-> "", documents |-> Put(plan.documents, w.key, made.next),
                      changes |-> IF SameDocument(before, made.next) THEN plan.changes
                                  ELSE Append(plan.changes, [key |-> w.key, before |-> before,
                                                             after |-> made.next])],
           [err |-> "", documents |-> documents, changes |-> <<>>], writes)

\* The same over the documents written only, before the rules judge them.
preview_writes(documents, writes, time) ==
  LET keys == {write_key(writes[i]) : i \in DOMAIN writes} \cap DOMAIN documents
  IN FoldLeft(LAMBDA p, w :
                LET made == apply_write(p.documents, w, time)
                IN IF p.err /= "" THEN p
                   ELSE IF made.err /= "" THEN [p EXCEPT !.err = made.err]
                   ELSE [err |-> "", documents |-> Put(p.documents, w.key, made.next),
                         pending |-> Extend(p.pending, w.key, made.next)],
              [err |-> "", documents |-> [k \in keys |-> documents[k]], pending |-> <<>>],
              writes)

\* Documents as rules read them: the pending ones over the snapshot.
Previewed(documents, preview, key) ==
  IF key \in DOMAIN preview.pending THEN preview.pending[key] ELSE Lookup(documents, key)

\* What the rules are asked about a write: its operation by the snapshot, the
\* document there is and the one all the writes together leave.
write_operation(documents, write) ==
  CASE write.op \in {"set", "patch"} -> IF write.key \in DOMAIN documents THEN "update" ELSE "create"
    [] write.op = "verify" -> "get"
    [] OTHER -> write.op
evaluate_writes(documents, writes, time) ==
  LET preview == preview_writes(documents, writes, time)
  IN [i \in DOMAIN writes |->
        [operation |-> write_operation(documents, writes[i]), key |-> writes[i].key,
         resource |-> Lookup(documents, writes[i].key),
         request_resource |-> Previewed(documents, preview, writes[i].key)]]

-----------------------------------------------------------------------------
(* Logical bytes.                                                           *)

RECURSIVE value_logical_bytes(_)
RECURSIVE fields_logical_bytes(_)
value_logical_bytes(v) ==
  CASE v.t = "null" -> 0
    [] v.t = "bool" -> 1
    [] IsNumber(v) -> 8
    [] v.t = "time" -> 12
    [] v.t \in {"string", "bytes"} -> Len(v.s)
    [] v.t = "ref" -> Len(v.p)
    [] v.t = "point" -> 16
    [] v.t = "array" -> FoldLeft(LAMBDA n, e : n + value_logical_bytes(e), 0, v.a)
    [] v.t = "map" -> fields_logical_bytes(v.m)
    [] v.t = "vector" -> 8 * Len(v.a)

fields_logical_bytes(fields) ==
  FoldSet(LAMBDA f, n : n + 1 + value_logical_bytes(fields[f]), 0, DOMAIN fields)

document_entry_logical_bytes(document) == 1 + fields_logical_bytes(document.fields) + 24

Counted(usage, document, sign) ==
  IF document = <<>> THEN usage
  ELSE [entries |-> usage.entries + sign,
        bytes |-> usage.bytes + sign * document_entry_logical_bytes(document[1])]

(* Mutant: an overwritten document is not taken out of the count. *)
MutTransition(usage, change) ==
  Counted(IF change.after = <<>> THEN Counted(usage, change.before, -1) ELSE usage,
          change.after, 1)

apply_document_transition(usage, change) ==
  Counted(Counted(usage, change.before, -1), change.after, 1)

apply_reverse_document_transition(usage, change) ==
  Counted(Counted(usage, change.after, -1), change.before, 1)

\* What a snapshot at an earlier revision holds, from the changes after it.
document_usage_at_revision(usage, changes) ==
  FoldRight(LAMBDA c, u : apply_reverse_document_transition(u, c), changes, usage)

-----------------------------------------------------------------------------
(* What writes are meant to do.                                             *)

Related(p, q) == IsPrefix(p, q) \/ IsPrefix(q, p)

(* A patch sets the masked paths to what it gives them, removes the ones it *)
(* does not give, and leaves every path unrelated to the mask as it was.    *)
PatchFrames(previous, write, paths) ==
  LET after == MaskedFields(previous, write)
      before == IF previous = <<>> THEN <<>> ELSE previous[1].fields
      masked == ToSet(write.mask)
  IN \A p \in paths :
       /\ (\A m \in masked : ~Related(m, p)) => nested_value(after, p) = nested_value(before, p)
       /\ (p \in masked /\ \A m \in masked \ {p} : ~Related(m, p)) =>
            nested_value(after, p) = nested_value(write.fields, p)

(* A numeric bound and a set of elements go by the order the query engine   *)
(* sorts by: the bound is one of the two numbers and not on the far side of *)
(* either, and an element is in a union or a remainder when the query       *)
(* engine would find it there.                                              *)
TransformsOrdered(current, operand) ==
  LET cmp(l, r) == Q!compare_values(l, r, "enterprise")
      max == numeric_bound_value(<<current>>, operand, -1)
      min == numeric_bound_value(<<current>>, operand, 1)
  IN /\ IsNumber(current) /\ IsNumber(operand) =>
          IF "nan" \in {current.t, operand.t} THEN max.t = "nan" /\ min.t = "nan"
          ELSE /\ {max, min} \subseteq {current, operand}
               /\ cmp(max, current) >= 0 /\ cmp(max, operand) >= 0
               /\ cmp(min, current) <= 0 /\ cmp(min, operand) <= 0
     /\ values_equal(current, operand) = (cmp(current, operand) = 0)

(* A commit stores what the rules judged: each document written is the one  *)
(* the preview at the same time shows, and the usage counted from the       *)
(* changes is the usage of the documents stored, forwards and backwards.    *)
(* Every document that comes, goes or changes is put to the rules as that,  *)
(* with what was there and what is stored, or as a delete and a create.     *)
PlansExact(documents, writes, time) ==
  LET plan == plan_with_documents(documents, writes, time)
      preview == preview_writes(documents, writes, time)
      usage(ds) == [entries |-> Cardinality(DOMAIN ds),
                    bytes |-> FoldSet(LAMBDA k, n : n + document_entry_logical_bytes(ds[k]),
                                      0, DOMAIN ds)]
      counted == FoldLeft(LAMBDA u, c : apply_document_transition(u, c),
                          usage(documents), plan.changes)
  IN /\ preview.err = plan.err
     /\ plan.err = "" =>
          /\ \A k \in DOMAIN documents \cup {writes[i].key : i \in DOMAIN writes} :
               Previewed(documents, preview, k) = Lookup(plan.documents, k)
          /\ counted = usage(plan.documents)
          /\ document_usage_at_revision(counted, plan.changes) = usage(documents)
          /\ \A k \in {plan.changes[i].key : i \in DOMAIN plan.changes} :
               LET before == Lookup(documents, k)
                   after == Lookup(plan.documents, k)
                   asked == Range(evaluate_writes(documents, writes, time))
                   put(operation) == [operation |-> operation, key |-> k,
                                      resource |-> before, request_resource |-> after]
               IN CASE before = <<>> /\ after = <<>> -> TRUE
                    [] before = <<>> /\ after /= <<>> -> put("create") \in asked
                    [] before /= <<>> /\ after = <<>> -> put("delete") \in asked
                    [] before /= <<>> /\ after /= <<>> ->
                         put("update") \in asked \/ {put("delete"), put("create")} \subseteq asked
=============================================================================
