---------------------------- MODULE QueryEngine ----------------------------
(* Evaluation of structured queries (query-engine): the order of values,    *)
(* filters, normalized orders, cursors, and the three ways a query is       *)
(* executed: streamed in name order, sorted by keys on disk, or collected   *)
(* within a bound; with the order and the results they must produce stated  *)
(* apart from them.                                                         *)
(*                                                                          *)
(* Values are records whose field "t" is their type; a double is given by   *)
(* twice its value, a string by a sequence of bytes, a map by a function on *)
(* numbered names.  A document is [key, fields], a key a sequence of        *)
(* resource ids, a field path a sequence of names and <<>> the document's   *)
(* own name.  Orderings are -1, 0 and 1.                                    *)
EXTENDS Integers, Sequences, FiniteSets, SequencesExt, FiniteSetsExt

CONSTANTS
  IntLimit,      \* 2^63: integers are -IntLimit .. IntLimit - 1
  IndexedBytes   \* STANDARD_INDEXED_VALUE_BYTES

-----------------------------------------------------------------------------
(* The order of values.                                                     *)

Cmp(a, b) == IF a < b THEN -1 ELSE IF a > b THEN 1 ELSE 0

FirstDifference(s) ==
  LET d == {i \in DOMAIN s : s[i] /= 0} IN IF d = {} THEN 0 ELSE s[Min(d)]

Pairwise(l, r, op(_, _)) == [i \in 1..Min({Len(l), Len(r)}) |-> op(l[i], r[i])]

\* A resource id is <<0, n, spelling>> for "__idN__" and <<1, n, 0>> for a
\* string, n standing for its bytes.
compare_resource_ids(l, r) == FirstDifference(<<Cmp(l[1], r[1]), Cmp(l[2], r[2])>>)

compare_resource_paths(l, r) ==
  FirstDifference(Append(Pairwise(l, r, compare_resource_ids), Cmp(Len(l), Len(r))))

type_rank(v) ==
  CASE v.t = "null" -> 0
    [] v.t = "bool" -> 1
    [] v.t \in {"int", "double", "nan"} -> 2
    [] v.t = "time" -> 3
    [] v.t = "string" -> 4
    [] v.t = "bytes" -> 5
    [] v.t = "ref" -> 6
    [] v.t = "point" -> 7
    [] v.t = "array" -> 8
    [] v.t = "vector" -> 9
    [] v.t = "map" -> 10

\* NaN is below every other number.
compare_doubles(l, r) ==
  CASE l.t = "nan" /\ r.t = "nan" -> 0
    [] l.t = "nan" /\ r.t /= "nan" -> -1
    [] l.t /= "nan" /\ r.t = "nan" -> 1
    [] OTHER -> Cmp(l.h, r.h)

compare_integer_double(n, d) ==
  IF d.t = "nan" THEN 1
  ELSE IF d.h >= 2 * IntLimit THEN -1
  ELSE IF d.h < -2 * IntLimit THEN 1
  ELSE LET truncated == IF d.h >= 0 THEN d.h \div 2 ELSE -((-d.h) \div 2)
           fract == d.h - 2 * truncated
       IN IF n /= truncated THEN Cmp(n, truncated) ELSE -fract

compare_indexed_bytes(l, r, edition) ==
  LET cut(s) == IF edition = "standard"
                  THEN SubSeq(s, 1, Min({Len(s), IndexedBytes})) ELSE s
  IN FirstDifference(Append(Pairwise(cut(l), cut(r), Cmp), Cmp(Len(cut(l)), Len(cut(r)))))

RECURSIVE compare_values(_, _, _)

compare_arrays(l, r, edition) ==
  LET each == [i \in 1..Min({Len(l), Len(r)}) |-> compare_values(l[i], r[i], edition)]
  IN FirstDifference(Append(each, Cmp(Len(l), Len(r))))

compare_vectors(l, r) == FirstDifference(<<Cmp(Len(l), Len(r))>> \o Pairwise(l, r, Cmp))

\* Maps are compared entry by entry in the order of their names.
compare_maps(l, r, edition) ==
  LET names(m) == SetToSortSeq(DOMAIN m, <)
      n == Min({Cardinality(DOMAIN l), Cardinality(DOMAIN r)})
      entry(i) == LET a == names(l)[i]
                      b == names(r)[i]
                  IN IF a /= b THEN Cmp(a, b) ELSE compare_values(l[a], r[b], edition)
  IN FirstDifference(Append([i \in 1..n |-> entry(i)],
                            Cmp(Cardinality(DOMAIN l), Cardinality(DOMAIN r))))

compare_values(l, r, edition) ==
  CASE type_rank(l) /= type_rank(r) -> Cmp(type_rank(l), type_rank(r))
    [] l.t = "null" /\ r.t = "null" -> 0
    [] l.t = "bool" /\ r.t = "bool" -> Cmp(l.n, r.n)
    [] l.t = "int" /\ r.t = "int" -> Cmp(l.n, r.n)
    [] l.t \in {"double", "nan"} /\ r.t \in {"double", "nan"} -> compare_doubles(l, r)
    [] l.t = "int" /\ r.t \in {"double", "nan"} -> compare_integer_double(l.n, r)
    [] l.t \in {"double", "nan"} /\ r.t = "int" -> -compare_integer_double(r.n, l)
    [] l.t = "time" /\ r.t = "time" -> Cmp(l.n, r.n)
    [] l.t = "string" /\ r.t = "string" -> compare_indexed_bytes(l.s, r.s, edition)
    [] l.t = "bytes" /\ r.t = "bytes" -> compare_indexed_bytes(l.s, r.s, edition)
    [] l.t = "ref" /\ r.t = "ref" -> compare_resource_paths(l.p, r.p)
    [] l.t = "point" /\ r.t = "point" ->
         FirstDifference(<<compare_doubles(l.lat, r.lat), compare_doubles(l.lon, r.lon)>>)
    [] l.t = "array" /\ r.t = "array" -> compare_arrays(l.a, r.a, edition)
    [] l.t = "vector" /\ r.t = "vector" -> compare_vectors(l.a, r.a)
    [] l.t = "map" /\ r.t = "map" -> compare_maps(l.m, r.m, edition)

-----------------------------------------------------------------------------
(* Fields and filters.  An optional value is <<v>> or <<>>.                 *)

nested_value(fields, path) ==
  LET step[n \in 0..Len(path)] ==
        IF n = 0 THEN <<[t |-> "map", m |-> fields]>>
        ELSE IF step[n - 1] = <<>> THEN <<>>
        ELSE LET v == step[n - 1][1]
             IN IF v.t = "map" THEN IF path[n] \in DOMAIN v.m THEN <<v.m[path[n]]>> ELSE <<>>
                ELSE <<>>
  IN step[Len(path)]

field_value(doc, path) ==
  IF path = <<>> THEN <<[t |-> "name", p |-> doc.key]>>
  ELSE nested_value(doc.fields, path)

\* FieldValue::compare: a document's name against a reference.
CompareField(v, right, edition) ==
  IF v.t /= "name" THEN compare_values(v, right, edition)
  ELSE IF right.t = "ref" THEN compare_resource_paths(v.p, right.p)
  ELSE 1

values_share_range_domain(l, r) ==
  \/ l.t \in {"int", "double"} /\ r.t \in {"int", "double"}
  \/ l.t = r.t /\ l.t /= "nan"

InRange(v, right) == IF v.t = "name" THEN right.t = "ref"
                     ELSE values_share_range_domain(v, right)

is_membership_sentinel(v) == v.t \in {"null", "nan"}

field_filter_matches(f, doc, edition) ==
  LET found == field_value(doc, f.path)
      v == found[1]
      cmp(right) == CompareField(v, right, edition)
      members == IF f.value.t = "array" THEN ToSet(f.value.a) ELSE {}
  IN /\ found /= <<>>
     /\ CASE f.op = "==" -> cmp(f.value) = 0
          [] f.op = "<" -> InRange(v, f.value) /\ cmp(f.value) = -1
          [] f.op = "<=" -> InRange(v, f.value) /\ cmp(f.value) /= 1
          [] f.op = ">" -> InRange(v, f.value) /\ cmp(f.value) = 1
          [] f.op = ">=" -> InRange(v, f.value) /\ cmp(f.value) /= -1
          [] f.op = "!=" -> v.t /= "null" /\ cmp(f.value) /= 0
          [] f.op = "in" -> \E x \in members : /\ ~is_membership_sentinel(x)
                                               /\ cmp(x) = 0
          [] f.op = "not-in" -> /\ f.value.t = "array"
                                /\ \A x \in members : x.t /= "null" /\ cmp(x) /= 0
                                /\ v.t /= "null"
          [] f.op = "contains" ->
               /\ v.t = "array"
               /\ \E x \in ToSet(v.a) : compare_values(x, f.value, edition) = 0
          [] f.op = "contains-any" ->
               /\ v.t = "array"
               /\ \E x \in ToSet(v.a), y \in members :
                    /\ ~is_membership_sentinel(y)
                    /\ compare_values(x, y, edition) = 0

RECURSIVE filter_matches(_, _, _)
filter_matches(f, doc, edition) ==
  CASE f.op = "and" -> \A i \in DOMAIN f.fs : filter_matches(f.fs[i], doc, edition)
    [] f.op = "or" -> \E i \in DOMAIN f.fs : filter_matches(f.fs[i], doc, edition)
    [] OTHER -> field_filter_matches(f, doc, edition)

\* The field filters of a filter, at any depth.
RECURSIVE Leaves(_)
Leaves(f) == IF f.op \in {"and", "or"} THEN UNION {Leaves(f.fs[i]) : i \in DOMAIN f.fs}
             ELSE {f}

collect_inequality_fields(f) ==
  {x.path : x \in {y \in Leaves(f) : y.op \in {"<", "<=", ">", ">=", "!=", "not-in"}}}

contains_field_filter(f, path, op) == \E x \in Leaves(f) : x.path = path /\ x.op = op

-----------------------------------------------------------------------------
(* Queries: [scope, group, ancestor, filter, orders, start, end, offset,    *)
(* limit, projection], filter, start, end, ancestor and limit optional.     *)

PathLess(a, b) ==
  FirstDifference(Append(Pairwise(a, b, Cmp), Cmp(Len(a), Len(b)))) = -1

OrderPaths(orders) == {orders[i].path : i \in DOMAIN orders}

\* The orders given, then the inequality fields, then the name, all in the
\* direction of the last one; <<>> for a query refused.
normalized_orders(q) ==
  LET inequal == UNION {collect_inequality_fields(q.filter[i]) : i \in DOMAIN q.filter}
      direction == IF q.orders = <<>> THEN 1 ELSE Last(q.orders).direction
      more == SetToSortSeq(inequal \ (OrderPaths(q.orders) \cup {<<>>}), PathLess)
      named == IF <<>> \in OrderPaths(q.orders) THEN <<>>
               ELSE <<[path |-> <<>>, direction |-> direction]>>
      all == q.orders \o [i \in DOMAIN more |-> [path |-> more[i],
                                                direction |-> direction]] \o named
  IN IF \/ /\ \E i \in DOMAIN q.filter : contains_field_filter(q.filter[i], <<>>, "==")
           /\ inequal \ {<<>>} /= {}
           /\ <<>> \notin inequal
        \/ \E i \in 1..Len(all) - 1 : all[i].path = <<>>
       THEN <<>> ELSE all

key_in_scope(key, q) ==
  LET collection == SubSeq(key, 1, Len(key) - 1)
  IN IF ~q.group THEN collection = q.scope
     ELSE /\ Last(collection) = Last(q.scope)
          /\ \A i \in DOMAIN q.ancestor : /\ IsStrictPrefix(q.ancestor[i], key)
                                          /\ Len(key) >= Len(q.ancestor[i]) + 2

NameLess(a, b) == compare_resource_paths(a.key, b.key) = -1

\* Keys a top-level name filter gives outright: <<set>>, or <<>> if none does.
named_candidates(q) ==
  LET leaves == IF q.filter = <<>> THEN <<>>
                ELSE IF q.filter[1].op = "or" THEN <<>>
                ELSE IF q.filter[1].op = "and"
                       THEN SelectSeq(q.filter[1].fs, LAMBDA f : f.op \notin {"and", "or"})
                       ELSE q.filter
      naming == SelectSeq(leaves, LAMBDA f : f.path = <<>> /\ f.op \in {"==", "in"})
      named == IF naming = <<>> THEN {}
               ELSE IF naming[1].op = "==" THEN {naming[1].value}
               ELSE IF naming[1].value.t = "array" THEN ToSet(naming[1].value.a)
               ELSE {[t |-> "null"]}
  IN IF named = {} \/ \E v \in named : v.t /= "ref" THEN <<>>
     ELSE <<{k \in {v.p : v \in named} : key_in_scope(k, q)}>>

scoped_documents(docs, q) ==
  LET named == named_candidates(q)
  IN SetToSortSeq({d \in docs : IF named = <<>> THEN key_in_scope(d.key, q)
                                ELSE d.key \in named[1]}, NameLess)

compare_document_cursor(doc, cursor, orders, edition) ==
  FirstDifference([i \in 1..Min({Len(orders), Len(cursor.values)}) |->
    orders[i].direction * CompareField(field_value(doc, orders[i].path)[1],
                                       cursor.values[i], edition)])

candidate_matches(q, orders, doc, edition) ==
  /\ \A i \in DOMAIN q.filter : filter_matches(q.filter[i], doc, edition)
  /\ \A i \in DOMAIN orders : field_value(doc, orders[i].path) /= <<>>
  /\ \A i \in DOMAIN q.start :
       LET c == compare_document_cursor(doc, q.start[i], orders, edition)
       IN c = 1 \/ (q.start[i].inclusive /\ c = 0)
  /\ \A i \in DOMAIN q.end :
       LET c == compare_document_cursor(doc, q.end[i], orders, edition)
       IN c = -1 \/ (q.end[i].inclusive /\ c = 0)

compare_field_values(l, r, edition) ==
  CASE l.t /= "name" /\ r.t /= "name" -> compare_values(l, r, edition)
    [] l.t = "name" /\ r.t = "name" -> compare_resource_paths(l.p, r.p)
    [] l.t /= "name" /\ r.t = "name" -> -1
    [] l.t = "name" /\ r.t /= "name" -> 1

compare_order_values(a, b, orders, edition) ==
  FirstDifference([i \in DOMAIN orders |->
    orders[i].direction * compare_field_values(field_value(a, orders[i].path)[1],
                                               field_value(b, orders[i].path)[1], edition)])

Candidates(docs, q, orders, edition) ==
  SelectSeq(scoped_documents(docs, q),
            LAMBDA d : candidate_matches(q, orders, d, edition))

Sorted(s, orders, edition) ==
  SortSeq(s, LAMBDA a, b : compare_order_values(a, b, orders, edition) = -1)

Skip(s, n) == SubSeq(s, n + 1, Len(s))
Take(s, n) == SubSeq(s, 1, Min({n, Len(s)}))
TakeLast(s, n) == SubSeq(s, Max({0, Len(s) - n}) + 1, Len(s))

\* StreamingQueryDocumentIterator::next_lazy until it ends.
streaming(docs, q, orders, edition) ==
  LET limit == IF q.limit = <<>> THEN Cardinality(docs) ELSE q.limit[1].n
  IN Take(Skip(Candidates(docs, q, orders, edition), q.offset), limit)

ordered_disk_iterator(docs, q, orders, edition) ==
  Skip(Sorted(Candidates(docs, q, orders, edition), orders, edition), q.offset)

InsertAt1(s, i, x) == SubSeq(s, 1, i - 1) \o <<x>> \o SubSeq(s, i, Len(s))

\* A candidate goes where a binary search puts it, and what exceeds the bound
\* is dropped at the far end.
Bounded(selected, doc, q, orders, edition) ==
  LET before == {i \in DOMAIN selected :
                   compare_order_values(selected[i], doc, orders, edition) = -1}
      s == InsertAt1(selected, Cardinality(before) + 1, doc)
  IN IF Len(s) <= q.offset + q.limit[1].n THEN s
     ELSE IF q.limit[1].last THEN Tail(s) ELSE SubSeq(s, 1, Len(s) - 1)

(* Mutant: the offset is left out of the bound. *)
MutCollect(docs, q, orders, edition) ==
  IF q.limit = <<>> THEN Candidates(docs, q, orders, edition)
  ELSE FoldLeft(LAMBDA sel, d : Bounded(sel, d, [q EXCEPT !.offset = 0], orders, edition),
                <<>>, Candidates(docs, q, orders, edition))

KeepBounded(all, q, orders, edition) ==
  IF q.limit = <<>> THEN all
  ELSE IF q.limit[1].n = 0 THEN <<>>
  ELSE FoldLeft(LAMBDA sel, d : Bounded(sel, d, q, orders, edition), <<>>, all)

collect_bounded_candidates(docs, q, orders, edition) ==
  KeepBounded(Candidates(docs, q, orders, edition), q, orders, edition)

Limited(rest, limit) ==
  IF limit = <<>> THEN rest
  ELSE IF limit[1].last THEN TakeLast(rest, limit[1].n)
  ELSE Take(rest, limit[1].n)

execute_buffered(docs, q, orders, edition) ==
  Limited(Skip(Sorted(collect_bounded_candidates(docs, q, orders, edition), orders, edition), q.offset),
          q.limit)

validate_cursor(cursor, orders) == \A i \in DOMAIN cursor :
                                     Len(cursor[i].values) <= Len(orders)

RefusedWith(q, orders) ==
  orders = <<>> \/ ~validate_cursor(q.start, orders) \/ ~validate_cursor(q.end, orders)
Refused(q) == RefusedWith(q, normalized_orders(q))

ExecuteWith(docs, q, orders, disk, edition) ==
  IF /\ orders = <<[path |-> <<>>, direction |-> 1]>>
     /\ \A i \in DOMAIN q.limit : ~q.limit[i].last
  THEN streaming(docs, q, orders, edition)
  ELSE IF disk /\ q.limit = <<>> THEN ordered_disk_iterator(docs, q, orders, edition)
  ELSE execute_buffered(docs, q, orders, edition)
execute_iter(docs, q, disk, edition) == ExecuteWith(docs, q, normalized_orders(q), disk, edition)

-----------------------------------------------------------------------------
(* Projection, aggregation and partitions.                                  *)

RECURSIVE insert_projected(_, _, _)
insert_projected(fields, path, v) ==
  LET first == Head(path)
      nested == IF first \in DOMAIN fields THEN fields[first]
                ELSE [t |-> "map", m |-> <<>>]
      entry == IF Len(path) = 1 THEN v
               ELSE IF nested.t = "map"
                 THEN [t |-> "map", m |-> insert_projected(nested.m, Tail(path), v)]
                 ELSE nested
  IN [n \in DOMAIN fields \cup {first} |-> IF n = first THEN entry ELSE fields[n]]

project(fields, projection) ==
  FoldLeft(LAMBDA out, path :
             IF path = <<>> THEN out
             ELSE IF nested_value(fields, path) = <<>> THEN out
             ELSE insert_projected(out, path, nested_value(fields, path)[1]),
           <<>>, projection)

\* A sum stays an integer until it would overflow or meets a double.
sum(docs, path) ==
  FoldLeft(LAMBDA acc, d :
    LET found == nested_value(d.fields, path)
    IN IF found = <<>> THEN acc
       ELSE CASE acc.t = "nan" \/ found[1].t = "nan" -> [t |-> "nan"]
              [] found[1].t = "int" /\ acc.t = "int" ->
                   IF acc.n + found[1].n \in -IntLimit..IntLimit - 1
                     THEN [t |-> "int", n |-> acc.n + found[1].n]
                     ELSE [t |-> "double", h |-> 2 * (acc.n + found[1].n)]
              [] found[1].t = "int" /\ acc.t = "double" ->
                   [t |-> "double", h |-> acc.h + 2 * found[1].n]
              [] found[1].t = "double" /\ acc.t /= "nan" ->
                   [t |-> "double", h |-> found[1].h + IF acc.t = "int" THEN 2 * acc.n
                                                      ELSE acc.h]
              [] OTHER -> acc,
    [t |-> "int", n |-> 0], docs)

\* An average is its sum and how many numbers it is of.
average(docs, path) ==
  LET numbers == SelectSeq(docs, LAMBDA d :
                   LET found == nested_value(d.fields, path)
                   IN found /= <<>> /\ \A i \in DOMAIN found : type_rank(found[i]) = 2)
      total == sum(numbers, path)
  IN IF numbers = <<>> THEN [t |-> "null"]
     ELSE IF total.t = "nan" THEN total
     ELSE [t |-> "mean", h |-> IF total.t = "int" THEN 2 * total.n ELSE total.h,
           count |-> Len(numbers)]

\* An aggregation is [alias, op, path]; the last of an alias counts.
aggregate(docs, aggregations) ==
  LET value(a) == CASE a.op = "count" -> [t |-> "int", n |-> Len(docs)]
                    [] a.op = "sum" -> sum(docs, a.path)
                    [] a.op = "avg" -> average(docs, a.path)
      of(alias) == SelectSeq(aggregations, LAMBDA a : a.alias = alias)
  IN [alias \in {aggregations[i].alias : i \in DOMAIN aggregations} |-> value(Last(of(alias)))]

supported_partition_query(q) ==
  /\ q.group /\ q.ancestor = <<>> /\ q.filter = <<>>
  /\ q.orders = <<[path |-> <<>>, direction |-> 1]>>
  /\ q.start = <<>> /\ q.end = <<>> /\ q.offset = 0 /\ q.limit = <<>>

\* The split points: each ends a segment of the ordered result.
Points(results, count) ==
  LET size == Len(results) \div (count + 1)
      remainder == Len(results) % (count + 1)
  IN [i \in 1..count |-> results[size * i + Min({remainder, i}) + 1].key]
PointsOf(results, points) == Points(results, Min({points, Max({0, Len(results) - 1})}))
partition(docs, q, points) == PointsOf(execute_iter(docs, q, FALSE, "standard"), points)

\* A page of the split points and the token of the next, which counts them;
\* <<>> when the token is beyond the last.
PageOfCuts(cuts, token, size) ==
  LET last == Min({token + size, Len(cuts)})
  IN IF token > Len(cuts) THEN <<>>
     ELSE <<[cuts |-> SubSeq(cuts, token + 1, last),
             next |-> IF Len(cuts) - token > size THEN <<last>> ELSE <<>>]>>
partition_query(docs, q, points, token, size) == PageOfCuts(partition(docs, q, points), token, size)

-----------------------------------------------------------------------------
(* Nearest neighbours, by squared distance or by dot product.               *)

Product(l, r) == FoldLeft(+, 0, Pairwise(l, r, LAMBDA a, b : a * b))
Squared(l, r) == FoldLeft(+, 0, Pairwise(l, r, LAMBDA a, b : (a - b) * (a - b)))

vector_distance(doc, near) ==
  LET found == nested_value(doc.fields, near.path)
  IN IF found = <<>> THEN <<>>
     ELSE IF found[1].t /= "vector" THEN <<>>
     ELSE IF Len(found[1].a) /= Len(near.vector) THEN <<>>
     ELSE <<IF near.dot THEN Product(found[1].a, near.vector)
            ELSE Squared(found[1].a, near.vector)>>

threshold_matches(distance, near) ==
  \A i \in DOMAIN near.threshold : IF near.dot THEN distance >= near.threshold[i]
                                   ELSE distance <= near.threshold[i]

compare_nearest_candidates(a, b, near) ==
  LET c == Cmp(vector_distance(a, near)[1], vector_distance(b, near)[1])
  IN FirstDifference(<<IF near.dot THEN -c ELSE c, compare_resource_paths(a.key, b.key)>>)

\* Whether a nearest-neighbour query has cursors or a limit to last.
UnsupportedVectorShape(q) ==
  q.start /= <<>> \/ q.end /= <<>> \/ \E i \in DOMAIN q.limit : q.limit[i].last

execute_nearest(docs, q, near, edition) ==
  LET limit == IF q.limit = <<>> THEN near.limit ELSE Min({q.limit[1].n, near.limit})
      fits(d) == /\ \A i \in DOMAIN q.filter : filter_matches(q.filter[i], d, edition)
                 /\ vector_distance(d, near) /= <<>>
                 /\ threshold_matches(vector_distance(d, near)[1], near)
      insert(sel, d) ==
        LET before == {i \in DOMAIN sel : compare_nearest_candidates(sel[i], d, near) = -1}
            s == InsertAt1(sel, Cardinality(before) + 1, d)
        IN IF Len(s) > q.offset + limit THEN SubSeq(s, 1, Len(s) - 1) ELSE s
  IN Take(Skip(FoldLeft(insert, <<>>, SelectSeq(scoped_documents(docs, q), fits)),
               q.offset), limit)

-----------------------------------------------------------------------------
(* Strict indexes: which index a query needs, and whether one is declared.  *)

\* IndexMode: a direction, array contains, or a vector of a dimension.
Ordered(direction) == <<"ordered", direction>>
ArrayContains == <<"contains", 0>>
Vector(dimension) == <<"vector", dimension>>

FieldUsage(q, near, path) ==
  LET ops == {f.op : f \in {x \in UNION {Leaves(q.filter[i]) : i \in DOMAIN q.filter} :
                              x.path = path}}
      ordered == {i \in DOMAIN q.orders : q.orders[i].path = path}
  IN [path |-> path,
      equality |-> ops \cap {"==", "in"} /= {},
      inequality |-> ops \cap {"<", "<=", ">", ">=", "!=", "not-in"} /= {},
      order |-> IF ordered = {} THEN 0 ELSE q.orders[Max(ordered)].direction,
      contains |-> ops \cap {"contains", "contains-any"} /= {},
      vector |-> IF \E i \in DOMAIN near : near[i].path = path THEN Len(near[1].vector) ELSE 0]

\* Usages in the order of their paths; the name needs no index.
collect_usages(q, near) ==
  LET paths == ({f.path : f \in UNION {Leaves(q.filter[i]) : i \in DOMAIN q.filter}}
                \cup OrderPaths(q.orders) \cup {near[i].path : i \in DOMAIN near}) \ {<<>>}
      order == SetToSortSeq(paths, PathLess)
  IN [i \in DOMAIN order |-> FieldUsage(q, near, order[i])]

\* The fields of the composite index a query needs, <<>> if it needs none.
manual_requirement(usages) ==
  LET ranged(u) == u.inequality \/ u.order /= 0
      equal(u) == u.equality /\ ~ranged(u)
      mode(u, m) == [path |-> u.path, mode |-> m]
      pick(test(_), m(_)) == LET s == SelectSeq(usages, test)
                             IN [i \in DOMAIN s |-> mode(s[i], m(s[i]))]
      contains == pick(LAMBDA u : u.contains, LAMBDA u : ArrayContains)
      equals == pick(equal, LAMBDA u : Ordered(1))
      have == {(contains \o equals)[i].path : i \in DOMAIN (contains \o equals)}
      ranges == pick(LAMBDA u : ranged(u) /\ u.path \notin have,
                     LAMBDA u : Ordered(IF u.order = 0 THEN 1 ELSE u.order))
      vectors == pick(LAMBDA u : u.vector > 0 /\ ~ranged(u) /\ u.path \notin have,
                      LAMBDA u : Vector(u.vector))
      rangedUsages == SelectSeq(usages, ranged)
  IN IF \/ \E i \in DOMAIN usages : usages[i].vector > 0
        \/ Len(rangedUsages) > 1
        \/ /\ equals /= <<>>
           /\ \E i \in DOMAIN rangedUsages : ~rangedUsages[i].equality
       THEN contains \o equals \o ranges \o Take(vectors, 1) ELSE <<>>

single_field_modes(u) ==
  (IF u.contains THEN {ArrayContains} ELSE {}) \cup
  (IF u.order /= 0 THEN {Ordered(u.order)}
   ELSE IF u.inequality \/ u.equality THEN {Ordered(1)} ELSE {})

\* An override replaces the automatic indexes of its field; a group has none.
single_field_available(catalog, group, path, mode) ==
  IF \E o \in catalog.overrides : o.path = path
    THEN \E o \in catalog.overrides : o.path = path /\ <<group, mode>> \in o.indexes
    ELSE ~group

validate(catalog, q, near) ==
  LET usages == collect_usages(q, near)
      manual == manual_requirement(usages)
  IN IF manual /= <<>> THEN [group |-> q.group, fields |-> manual] \in catalog.indexes
     ELSE \A i \in DOMAIN usages : \A m \in single_field_modes(usages[i]) :
            single_field_available(catalog, q.group, usages[i].path, m)

-----------------------------------------------------------------------------
(* What the results must be.                                                *)

\* No two names spell the same number: "__id1__" and "__id01__" compare equal.
Distinct(docs) == \A a, b \in docs : a /= b => compare_resource_paths(a.key, b.key) /= 0

\* The documents a query means, told without looking at how it is executed.
Meant(docs, q, orders, edition) ==
  {d \in docs : key_in_scope(d.key, q) /\ candidate_matches(q, orders, d, edition)}

Precedes(a, b, orders, edition) ==
  \E i \in DOMAIN orders :
    LET value(d, j) == field_value(d, orders[j].path)[1]
    IN /\ \A j \in 1..i - 1 : compare_field_values(value(a, j), value(b, j), edition) = 0
       /\ compare_field_values(value(a, i), value(b, i), edition) = -orders[i].direction

Ranked(meant, orders, edition) ==
  LET rank(d) == Cardinality({e \in meant : Precedes(e, d, orders, edition)})
  IN [i \in 1..Cardinality(meant) |-> CHOOSE d \in meant : rank(d) = i - 1]

Slice(rest, limit) ==
  IF limit = <<>> THEN rest
  ELSE [i \in 1..Min({limit[1].n, Len(rest)}) |->
          IF limit[1].last THEN rest[Len(rest) - Min({limit[1].n, Len(rest)}) + i] ELSE rest[i]]

ExpectedWith(docs, q, orders, edition) ==
  Slice(Skip(Ranked(Meant(docs, q, orders, edition), orders, edition), q.offset), q.limit)
Expected(docs, q, edition) == ExpectedWith(docs, q, normalized_orders(q), edition)

\* The cursor after a document, and the pages a client reads with it.
After(doc, orders) ==
  [inclusive |-> FALSE,
   values |-> [i \in DOMAIN orders |->
                 LET v == field_value(doc, orders[i].path)[1]
                 IN IF v.t = "name" THEN [t |-> "ref", p |-> v.p] ELSE v]]

PagesWith(docs, q, orders, disk, edition, size) ==
  LET page(start) == ExecuteWith(docs, [q EXCEPT !.start = start, !.offset = 0,
                                                 !.limit = <<[n |-> size, last |-> FALSE]>>],
                                 orders, disk, edition)
      read[n \in 0..Cardinality(docs)] ==
        IF n = 0 THEN page(q.start)
        ELSE LET before == read[n - 1]
             IN IF before = <<>> THEN <<>>
                ELSE before \o page(<<After(Last(before), orders)>>)
  IN read[Cardinality(docs)]
Pages(docs, q, disk, edition, size) ==
  PagesWith(docs, q, normalized_orders(q), disk, edition, size)

(* Values are totally ordered: comparing the other way round reverses the  *)
(* outcome and the order is transitive across integers, doubles on either  *)
(* side of the 64-bit range and NaN, strings cut to their indexed prefix   *)
(* and nested arrays and maps; an integer and a double compare as numbers. *)
OrderTotal(l, r, x, edition) ==
  LET cmp(a, b) == compare_values(a, b, edition)
  IN /\ cmp(l, r) = -cmp(r, l)
     /\ cmp(l, r) <= 0 /\ cmp(r, x) <= 0 => cmp(l, x) <= 0
     /\ l.t = "int" /\ r.t = "double" => cmp(l, r) = Cmp(2 * l.n, r.h)

(* A query gives the documents it means, each once, in its order, cut by   *)
(* offset and limit, on disk and in memory; pages read with a cursor after *)
(* the last document add up to the whole.                                  *)
ResultsExact(docs, q, disk, edition, results) ==
  /\ results = Expected(docs, q, edition)
  /\ q.limit = <<>> /\ q.offset = 0 => Pages(docs, q, disk, edition, 1) = results
QueryExact(docs, q, edition) ==
  Distinct(docs) /\ ~Refused(q) =>
    \A disk \in BOOLEAN : ResultsExact(docs, q, disk, edition, execute_iter(docs, q, disk, edition))

(* A nearest-neighbour query gives the documents of its scope and filter    *)
(* that have a vector of the right dimension within the threshold, nearest  *)
(* first and by name where as near, cut by offset and by the smaller limit: *)
(* the bounded insertion of execute_nearest drops none of them.             *)
NearestExact(docs, q, near, edition) ==
  LET distance(d) == vector_distance(d, near)[1]
      meant == {d \in docs : /\ key_in_scope(d.key, q)
                             /\ \A i \in DOMAIN q.filter : filter_matches(q.filter[i], d, edition)
                             /\ vector_distance(d, near) /= <<>>
                             /\ threshold_matches(distance(d), near)}
      nearer(a, b) == IF distance(a) = distance(b) THEN compare_resource_paths(a.key, b.key) = -1
                      ELSE (distance(a) < distance(b)) /= near.dot
      limit == IF q.limit = <<>> THEN near.limit ELSE Min({q.limit[1].n, near.limit})
  IN ~UnsupportedVectorShape(q) /\ Distinct(docs) =>
       execute_nearest(docs, q, near, edition)
         = Slice(Skip(SetToSortSeq(meant, nearer), q.offset), <<[n |-> limit, last |-> FALSE]>>)

(* Strict indexes ask for a composite index exactly for a vector, for two   *)
(* fields in a range or an order, and for an equality beside a range of     *)
(* another field; it has every field the query uses, equalities before      *)
(* ranges; a catalog that declares what was asked for serves the query, and *)
(* without overrides a collection needs no other (IndexCatalog::validate).  *)
IndexesMeant(q, near) ==
  LET leaves == UNION {Leaves(q.filter[i]) : i \in DOMAIN q.filter}
      used(ops) == {f.path : f \in {x \in leaves : x.op \in ops}} \ {<<>>}
      ranged == (UNION {collect_inequality_fields(q.filter[i]) : i \in DOMAIN q.filter}
                 \cup OrderPaths(q.orders)) \ {<<>>}
      equal == used({"==", "in"})
      needed == \/ near /= <<>>
                \/ Cardinality(ranged) > 1
                \/ equal \ ranged /= {} /\ ranged \ equal /= {}
      asked == manual_requirement(collect_usages(q, near))
      place(p) == CHOOSE i \in DOMAIN asked : asked[i].path = p
      catalog(group) == [indexes |-> {[group |-> group, fields |-> asked]}, overrides |-> {}]
      none == [indexes |-> {}, overrides |-> {}]
  IN /\ asked /= <<>> <=> needed
     /\ needed =>
          /\ {asked[i].path : i \in DOMAIN asked}
               = equal \cup ranged \cup used({"contains", "contains-any"})
                 \cup {near[i].path : i \in DOMAIN near}
          /\ \A e \in equal \ ranged, r \in ranged : r \notin used({"contains", "contains-any"})
                                                     => place(e) < place(r)
          /\ validate(catalog(q.group), q, near) /\ ~validate(catalog(~q.group), q, near)
     /\ ~needed => validate(none, q, near) = (~q.group \/ collect_usages(q, near) = <<>>)

(* Partition cursors cut the results into segments whose lengths differ by *)
(* at most one, and there are as many as asked for or as there are         *)
(* documents to split; read in pages, they are the same.                   *)
RECURSIVE CutsFrom(_, _, _, _, _)
AndThen(page, docs, q, points, size) ==
  page.cuts \o (IF page.next = <<>> THEN <<>> ELSE CutsFrom(docs, q, points, page.next[1], size))
CutsFrom(docs, q, points, token, size) ==
  AndThen(partition_query(docs, q, points, token, size)[1], docs, q, points, size)

Even(sizes) == Max(sizes) - Min(sizes) <= 1
CutEvenly(all, cuts, points) ==
  LET place(k) == CHOOSE i \in DOMAIN all : all[i].key = k
      ends == <<1>> \o [i \in DOMAIN cuts |-> place(cuts[i])] \o <<Len(all) + 1>>
  IN /\ Len(cuts) = Min({points, Max({0, Len(all) - 1})})
     /\ all /= <<>> => Even({ends[i + 1] - ends[i] : i \in 1..Len(ends) - 1})
PartitionsEven(docs, q, points) ==
  supported_partition_query(q) /\ Distinct(docs) =>
    /\ CutEvenly(execute_iter(docs, q, FALSE, "standard"), partition(docs, q, points), points)
    /\ \A size \in 1..3 : CutsFrom(docs, q, points, 0, size) = partition(docs, q, points)
=============================================================================
