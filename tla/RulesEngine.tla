---------------------------- MODULE RulesEngine ----------------------------
(* Security Rules: evaluation of a compiled ruleset (rules-engine), and the *)
(* proof that a query may be listed, made from the query's filters alone.   *)
(*                                                                          *)
(* An expression is a record whose field "k" is its kind, a value one whose *)
(* field "t" is its type; "err" is a runtime error.  Doubles are given by   *)
(* twice their value, strings by numbers or words, paths by the sequence of *)
(* their segments.  Evaluation returns [v, st]: the value and the state     *)
(* that accounts for expressions and document accesses.                     *)
EXTENDS Integers, Sequences, FiniteSets, SequencesExt, FiniteSetsExt, TLC

CONSTANTS
  IntLimit,        \* 2^63
  Exact,           \* 2^53: every integer up to it is a double
  MaxExpressions,  \* MAXIMUM_EVALUATED_EXPRESSIONS
  MaxDepth,        \* MAXIMUM_FUNCTION_CALL_DEPTH
  OneLimit,        \* SINGLE_REQUEST_ACCESS_LIMIT
  ManyLimit,       \* MULTI_REQUEST_ACCESS_LIMIT
  MaxBranches      \* MAX_BRANCHES

Err == [t |-> "err"]
Unknown == [t |-> "unknown"]
Null == [t |-> "null"]
Bool(b) == [t |-> "bool", b |-> b]
Integer(n) == IF n \in -IntLimit..IntLimit - 1 THEN [t |-> "int", n |-> n] ELSE Err
Numeric(v) == v.t \in {"int", "double"}

\* The double nearest to h halves, of two the one whose last digit is even:
\* past Exact / 2 doubles lie a whole apart, past Exact two, past 2 * Exact four.
Rounded(h) ==
  LET size == IF h < 0 THEN -h ELSE h
      unit == CHOOSE u \in {2 ^ i : i \in 0..size} :
                size <= Exact * u /\ (u = 1 \/ size > Exact * (u \div 2))
      below == (size \div unit) * unit
      up == \/ 2 * (size - below) > unit
            \/ 2 * (size - below) = unit /\ (size \div unit) % 2 = 1
      nearest == IF up THEN below + unit ELSE below
  IN IF h < 0 THEN -nearest ELSE nearest

\* `value as f64`, in halves.
to_f64(v) == IF v.t = "int" THEN Rounded(2 * v.n) ELSE v.h

is_symbolic(v) == v.t \in {"query_resource", "query_data", "constraint", "unknown"}

IsData(v) == v.t \in {"null", "bool", "int", "double", "nan", "string", "list", "map",
                      "time", "duration", "path"}

into_data(v) == IF v.t = "set" THEN [t |-> "list", a |-> v.a]
                ELSE IF IsData(v) THEN v ELSE Err

-----------------------------------------------------------------------------
(* Values.                                                                  *)

RECURSIVE rules_equal(_, _)
rules_equal(l, r) ==
  IF Numeric(l) /\ Numeric(r) /\ l.t /= r.t THEN to_f64(l) = to_f64(r)
  ELSE IF l.t /= r.t THEN FALSE
  ELSE IF l.t = "list" THEN /\ Len(l.a) = Len(r.a)
                            /\ \A i \in DOMAIN l.a : rules_equal(l.a[i], r.a[i])
  ELSE IF l.t = "map" THEN /\ DOMAIN l.m = DOMAIN r.m
                           /\ \A k \in DOMAIN l.m : rules_equal(l.m[k], r.m[k])
  ELSE l = r

Has(values, v) == \E i \in DOMAIN values : rules_equal(values[i], v)
HasAll(values, wanted) == \A i \in DOMAIN wanted : Has(values, wanted[i])

set_equal(l, r) == HasAll(l, r) /\ HasAll(r, l)

eval_equal(l, r) == IF l.t = "set" /\ r.t = "set" THEN set_equal(l.a, r.a)
                    ELSE IsData(l) /\ IsData(r) /\ rules_equal(l, r)

Cmp(a, b) == IF a < b THEN -1 ELSE IF a > b THEN 1 ELSE 0

\* <<ordering>>, or <<>> where values cannot be ordered.  Integers are compared
\* exactly, an integer with a double as the double it is rounded to.
eval_compare(l, r) ==
  IF l.t = "int" /\ r.t = "int" THEN <<Cmp(l.n, r.n)>>
  ELSE IF Numeric(l) /\ Numeric(r) THEN <<Cmp(to_f64(l), to_f64(r))>>
  ELSE IF l.t = "string" /\ r.t = "string" THEN <<Cmp(l.s, r.s)>>
  ELSE IF l.t \in {"time", "duration"} /\ r.t = l.t THEN <<Cmp(l.n, r.n)>>
  ELSE <<>>

unique_values(values) ==
  FoldLeft(LAMBDA out, v : IF Has(out, v) THEN out ELSE Append(out, v), <<>>, values)

is_type(v, expected) ==
  CASE expected = "number" -> v.t \in {"int", "double", "nan"}
    [] expected = "float" -> v.t \in {"double", "nan"}
    [] OTHER -> v.t = expected

\* Indexes are from zero; what is outside the range, or no integer, is an error.
index_value(base, index) ==
  CASE base.t \in {"list", "path"} /\ index.t = "int" ->
         LET s == IF base.t = "list" THEN base.a ELSE base.p
         IN IF index.n + 1 \notin DOMAIN s THEN Err
            ELSE IF base.t = "list" THEN s[index.n + 1]
            ELSE [t |-> "string", s |-> s[index.n + 1]]
    [] base.t = "map" /\ index.t = "string" ->
         IF index.s \in DOMAIN base.m THEN base.m[index.s] ELSE Err
    [] OTHER -> Err

slice_value(base, start, end) ==
  IF \/ base.t \notin {"list", "path"}
     \/ \E i \in DOMAIN start : start[i].t /= "int"
     \/ \E i \in DOMAIN end : end[i].t /= "int" THEN Err
  ELSE LET s == IF base.t = "list" THEN base.a ELSE base.p
           from == IF start = <<>> THEN 0 ELSE start[1].n
           to == IF end = <<>> THEN Len(s) ELSE end[1].n
       IN IF from < 0 \/ to < 0 \/ from > to \/ to > Len(s) THEN Err
          ELSE IF base.t = "list" THEN [t |-> "list", a |-> SubSeq(s, from + 1, to)]
          ELSE [t |-> "path", p |-> SubSeq(s, from + 1, to)]

eval_unary(op, v) ==
  IF is_symbolic(v) THEN Unknown
  ELSE CASE op = "!" /\ v.t = "bool" -> Bool(~v.b)
         [] op = "-" /\ v.t = "int" -> Integer(-v.n)
         [] op = "-" /\ v.t = "double" -> [t |-> "double", h |-> -v.h]
         [] OTHER -> Err

data_list(v) == IF v.t \in {"list", "set"} THEN <<v.a>> ELSE <<>>

\* Division and remainder round toward zero.
Quotient(a, b) == LET q == (IF a < 0 THEN -a ELSE a) \div (IF b < 0 THEN -b ELSE b)
                  IN IF (a < 0) = (b < 0) THEN q ELSE -q

\* Products and quotients of doubles are left out.
numeric_binary(op, l, r) ==
  IF ~(Numeric(l) /\ Numeric(r)) THEN Err
  ELSE IF l.t = "int" /\ r.t = "int"
    THEN CASE op = "+" -> Integer(l.n + r.n)
           [] op = "-" -> Integer(l.n - r.n)
           [] op = "*" -> Integer(l.n * r.n)
           [] op = "/" -> IF r.n = 0 THEN Err ELSE Integer(Quotient(l.n, r.n))
           [] op = "%" -> IF r.n = 0 \/ Integer(Quotient(l.n, r.n)) = Err THEN Err
                          ELSE Integer(l.n - r.n * Quotient(l.n, r.n))
    ELSE CASE op = "+" -> [t |-> "double", h |-> Rounded(to_f64(l) + to_f64(r))]
           [] op = "-" -> [t |-> "double", h |-> Rounded(to_f64(l) - to_f64(r))]
           [] op = "%" -> Err

-----------------------------------------------------------------------------
(* Proof from a query's constraints.  A constraint is a field filter        *)
(* [path, op, value]; a branch is a sequence of them that hold together.    *)

Lists(v) == IF v.t = "array" THEN v.a ELSE <<>>

\* The alternatives of a filter, <<>> if there are too many or none.
RECURSIVE Alternatives(_)
Alternatives(f) ==
  LET bounded(s) == IF Len(s) > MaxBranches THEN <<>> ELSE s
      product(l, r) == [i \in 1..Len(l) * Len(r) |->
                          l[((i - 1) \div Len(r)) + 1] \o r[((i - 1) % Len(r)) + 1]]
  IN CASE f.op \in {"in", "contains-any"} ->
            bounded([i \in DOMAIN Lists(f.value) |->
                       <<[path |-> f.path, value |-> Lists(f.value)[i],
                          op |-> IF f.op = "in" THEN "==" ELSE "contains"]>>])
       [] f.op = "or" ->
            LET each == [i \in DOMAIN f.fs |-> Alternatives(f.fs[i])]
            IN IF \E i \in DOMAIN each : each[i] = <<>> THEN <<>>
               ELSE bounded(FlattenSeq(each))
       [] f.op = "and" ->
            FoldLeft(LAMBDA acc, g : LET more == Alternatives(g)
                                     IN IF acc = <<>> \/ more = <<>> THEN <<>>
                                        ELSE bounded(product(acc, more)),
                     <<<<>>>>, f.fs)
       [] OTHER -> <<<<f>>>>

branches(filter) == IF filter = <<>> THEN <<<<>>>> ELSE Alternatives(filter[1])

\* A stored value as the rules see it.
RECURSIVE store_value(_)
store_value(v) ==
  CASE v.t = "array" -> [t |-> "list", a |-> [i \in DOMAIN v.a |-> store_value(v.a[i])]]
    [] v.t = "map" -> [t |-> "map", m |-> [k \in DOMAIN v.m |-> store_value(v.m[k])]]
    [] OTHER -> v

\* Only an equality binds a field to a value.
field_value(path, predicates) ==
  LET equal == {i \in DOMAIN predicates : /\ predicates[i].path = path
                                          /\ predicates[i].op = "=="}
  IN IF equal /= {} THEN store_value(predicates[Min(equal)].value)
     ELSE [t |-> "constraint", f |-> path, ps |-> predicates]

\* <<b>> if a constraint on a field settles its comparison with v as b.
implies(p, op, v) ==
  LET w == store_value(p.value)
      c == eval_compare(w, v)                     \* the constraint's operand against v
      excludes == CASE p.op = "!=" -> rules_equal(w, v)
                    [] p.op = "not-in" -> w.t = "list" /\ Has(w.a, v)
                    [] p.op = ">" -> c /= <<>> /\ c[1] /= -1
                    [] p.op = ">=" -> c /= <<>> /\ c[1] = 1
                    [] p.op = "<" -> c /= <<>> /\ c[1] /= 1
                    [] p.op = "<=" -> c /= <<>> /\ c[1] = -1
                    [] OTHER -> FALSE
      guaranteed == CASE <<p.op, op>> \in {<<">", ">">>, <<">", ">=">>, <<">=", ">=">>} -> c[1] /= -1
                      [] p.op = ">=" /\ op = ">" -> c[1] = 1
                      [] <<p.op, op>> \in {<<"<", "<">>, <<"<", "<=">>, <<"<=", "<=">>} -> c[1] /= 1
                      [] p.op = "<=" /\ op = "<" -> c[1] = -1
                      [] OTHER -> FALSE
      impossible == CASE <<p.op, op>> \in {<<"<", ">">>, <<"<=", ">">>, <<"<", ">=">>} -> c[1] /= 1
                      [] p.op = "<=" /\ op = ">=" -> c[1] = -1
                      [] <<p.op, op>> \in {<<">", "<">>, <<">=", "<">>, <<">", "<=">>} -> c[1] /= -1
                      [] p.op = ">=" /\ op = "<=" -> c[1] = 1
                      [] OTHER -> FALSE
  IN IF op \in {"==", "!="} THEN IF excludes THEN <<op = "!=">> ELSE <<>>
     ELSE IF c = <<>> THEN <<>>
     ELSE IF guaranteed THEN <<TRUE>> ELSE IF impossible THEN <<FALSE>> ELSE <<>>

Reversed(op) == CASE op = "<" -> ">" [] op = "<=" -> ">=" [] op = ">" -> "<"
                  [] op = ">=" -> "<=" [] OTHER -> op

\* <<value>> where an operand is symbolic, else <<>>.
binary(op, l, r) ==
  LET settle(con, v, o) ==
        LET proofs == {i \in DOMAIN con.ps : /\ con.ps[i].path = con.f
                                             /\ implies(con.ps[i], o, v) /= <<>>}
        IN IF proofs = {} THEN Unknown ELSE Bool(implies(con.ps[Min(proofs)], o, v)[1])
  IN IF l.t = "constraint" /\ IsData(r) THEN <<settle(l, r, op)>>
     ELSE IF IsData(l) /\ r.t = "constraint"
       THEN IF op = "in"
              THEN <<IF \E i \in DOMAIN r.ps : /\ r.ps[i].path = r.f
                                               /\ r.ps[i].op = "contains"
                                               /\ rules_equal(store_value(r.ps[i].value), l)
                       THEN Bool(TRUE) ELSE Unknown>>
              ELSE <<settle(r, l, Reversed(op))>>
     ELSE IF is_symbolic(l) \/ is_symbolic(r) THEN <<Unknown>>
     ELSE <<>>

\* Sums of instants and durations: an instant has to be in the range of its
\* seconds, a duration is cut to it.
add_timestamp_duration(n) == IF Integer(n) = Err THEN Err ELSE [t |-> "time", n |-> n]
from_nanoseconds(n) == [t |-> "duration", n |-> Max({-IntLimit, Min({n, IntLimit - 1})})]

eval_add(l, r) ==
  CASE l.t = "list" /\ r.t = "list" -> [t |-> "list", a |-> l.a \o r.a]
    [] {l.t, r.t} = {"time", "duration"} -> add_timestamp_duration(l.n + r.n)
    [] l.t = "duration" /\ r.t = "duration" -> from_nanoseconds(l.n + r.n)
    [] OTHER -> numeric_binary("+", l, r)

eval_subtract(l, r) ==
  CASE l.t \in {"time", "duration"} /\ r.t = l.t -> from_nanoseconds(l.n - r.n)
    [] l.t = "time" /\ r.t = "duration" -> add_timestamp_duration(l.n + from_nanoseconds(-r.n).n)
    [] OTHER -> numeric_binary("-", l, r)

eval_binary_values(op, l, r) ==
  LET proof == binary(op, l, r)
      c == eval_compare(l, r)
  IN CASE proof /= <<>> -> proof[1]
       [] proof = <<>> /\ op = "==" -> Bool(eval_equal(l, r))
       [] proof = <<>> /\ op = "!=" -> Bool(~eval_equal(l, r))
       [] proof = <<>> /\ op \in {"<", "<=", ">", ">="} ->
            IF c = <<>> THEN Err
            ELSE Bool(CASE op = "<" -> c[1] = -1 [] op = "<=" -> c[1] /= 1
                        [] op = ">" -> c[1] = 1 [] op = ">=" -> c[1] /= -1)
       [] proof = <<>> /\ op = "in" ->
            IF into_data(l) = Err THEN Err
            ELSE IF r.t \in {"list", "set"} THEN Bool(Has(r.a, into_data(l)))
            ELSE IF r.t = "map" THEN Bool(l.t = "string" /\ l.s \in DOMAIN r.m)
            ELSE Err
       [] proof = <<>> /\ op = "+" -> eval_add(l, r)
       [] proof = <<>> /\ op = "-" -> eval_subtract(l, r)
       [] OTHER -> numeric_binary(op, l, r)

-----------------------------------------------------------------------------
(* Methods of lists, sets, maps and differences of maps.                    *)

Keys(m) == SetToSortSeq(DOMAIN m, <)
Strings(names) == [i \in DOMAIN names |-> [t |-> "string", s |-> names[i]]]
Filter(values, keep(_)) == SelectSeq(values, keep)

list_method(value, name, args) ==
  LET other == IF Len(args) = 1 THEN data_list(args[1]) ELSE <<>>
  IN CASE name = "size" /\ args = <<>> -> Integer(Len(value))
       [] name = "toSet" /\ args = <<>> -> [t |-> "set", a |-> unique_values(value)]
       [] name = "concat" /\ other /= <<>> -> [t |-> "list", a |-> value \o other[1]]
       [] name = "hasAll" /\ other /= <<>> -> Bool(HasAll(value, other[1]))
       [] name = "hasOnly" /\ other /= <<>> -> Bool(HasAll(other[1], value))
       [] name = "hasAny" /\ other /= <<>> ->
            Bool(\E i \in DOMAIN other[1] : Has(value, other[1][i]))
       [] name = "removeAll" /\ other /= <<>> ->
            [t |-> "list", a |-> Filter(value, LAMBDA v : ~Has(other[1], v))]
       [] OTHER -> Err

set_method(value, name, args) ==
  LET other == IF Len(args) = 1 THEN data_list(args[1]) ELSE <<>>
      set(s) == [t |-> "set", a |-> unique_values(s)]
  IN CASE name = "size" /\ args = <<>> -> Integer(Len(value))
       [] name \in {"hasAll", "hasOnly", "hasAny"} -> list_method(value, name, args)
       [] name = "union" /\ other /= <<>> -> set(value \o other[1])
       [] name = "intersection" /\ other /= <<>> ->
            set(Filter(value, LAMBDA v : Has(other[1], v)))
       [] name = "difference" /\ other /= <<>> ->
            set(Filter(value, LAMBDA v : ~Has(other[1], v)))
       [] OTHER -> Err

map_method(m, name, args) ==
  CASE name = "size" /\ args = <<>> -> Integer(Cardinality(DOMAIN m))
    [] name = "keys" /\ args = <<>> -> [t |-> "list", a |-> Strings(Keys(m))]
    [] name = "values" /\ args = <<>> ->
         [t |-> "list", a |-> [i \in DOMAIN Keys(m) |-> m[Keys(m)[i]]]]
    [] name = "get" /\ Len(args) = 2 ->
         IF args[1].t /= "string" \/ into_data(args[2]) = Err THEN Err
         ELSE IF args[1].s \in DOMAIN m THEN m[args[1].s] ELSE into_data(args[2])
    [] name = "diff" /\ Len(args) = 1 ->
         IF args[1].t = "map" THEN [t |-> "diff", l |-> m, r |-> args[1].m] ELSE Err
    [] OTHER -> Err

map_diff_method(d, name, args) ==
  LET both == DOMAIN d.l \cap DOMAIN d.r
      same == {k \in both : rules_equal(d.l[k], d.r[k])}
      keys == CASE name = "addedKeys" -> DOMAIN d.l \ DOMAIN d.r
                [] name = "removedKeys" -> DOMAIN d.r \ DOMAIN d.l
                [] name = "changedKeys" -> both \ same
                [] name = "unchangedKeys" -> same
                [] name = "affectedKeys" -> (DOMAIN d.l \cup DOMAIN d.r) \ same
  IN IF args /= <<>> THEN Err
     ELSE [t |-> "set", a |-> Strings(SetToSortSeq(keys, <))]

call_method(receiver, name, args) ==
  CASE receiver.t = "list" -> list_method(receiver.a, name, args)
    [] receiver.t = "set" -> set_method(receiver.a, name, args)
    [] receiver.t = "map" -> map_method(receiver.m, name, args)
    [] receiver.t = "diff" -> map_diff_method(receiver, name, args)
    [] OTHER -> Err

-----------------------------------------------------------------------------
(* Match patterns.  A pattern segment is [lit], [one] or [many]; a path     *)
(* domain is made of literals, "any" id and "descendants".                  *)

Lit(s) == [d |-> "lit", s |-> s]

\* <<bindings>> of the first match, the shortest recursive wildcard first.
RECURSIVE match_domain(_, _)
match_domain(pattern, domain) ==
  IF pattern = <<>> THEN IF domain = <<>> THEN <<[x \in {} |-> Null]>> ELSE <<>>
  ELSE LET seg == Head(pattern)
           bind(name, v, rest) == IF rest = <<>> THEN <<>> ELSE <<rest[1] @@ (name :> v)>>
           upto(n) == LET taken == SubSeq(domain, 1, n)
                      IN IF \A i \in 1..n : taken[i].d = "lit"
                           THEN [t |-> "path", p |-> [i \in 1..n |-> taken[i].s]]
                           ELSE Unknown
           ends == {n \in 0..Len(domain) :
                      match_domain(Tail(pattern), SubSeq(domain, n + 1, Len(domain))) /= <<>>}
       IN CASE seg.kind = "many" ->
                 IF ends = {} THEN <<>>
                 ELSE LET n == Min(ends)
                      IN bind(seg.name, upto(n),
                              match_domain(Tail(pattern), SubSeq(domain, n + 1, Len(domain))))
            [] seg.kind /= "many" /\ domain = <<>> -> <<>>
            [] seg.kind = "lit" /\ domain /= <<>> ->
                 IF Head(domain) = Lit(seg.name)
                   THEN match_domain(Tail(pattern), Tail(domain)) ELSE <<>>
            [] seg.kind = "one" /\ domain /= <<>> ->
                 CASE Head(domain).d = "lit" ->
                        bind(seg.name, [t |-> "string", s |-> Head(domain).s],
                             match_domain(Tail(pattern), Tail(domain)))
                   [] Head(domain).d = "any" ->
                        bind(seg.name, Unknown, match_domain(Tail(pattern), Tail(domain)))
                   [] Head(domain).d = "descendants" -> <<>>

Literals(path) == [i \in DOMAIN path |-> Lit(path[i])]

match_pattern(pattern, path) == match_domain(pattern, Literals(path))

\* The domain of a query: a collection's documents, or a group's below an ancestor.
bindings(pattern, root, scope) ==
  match_domain(pattern,
    Literals(root) \o
    (IF scope.group THEN Literals(scope.ancestor) \o <<[d |-> "descendants"], Lit(scope.id)>>
     ELSE Literals(scope.path)) \o <<[d |-> "any"]>>)

-----------------------------------------------------------------------------
(* Evaluation.  A context c is [req, docs, after, branch, fns]: the request *)
(* judged, the documents get() and getAfter() read, the query branch being  *)
(* proved if any, and the functions in scope.                               *)

NewState(max) == [n |-> 0, depth |-> 0, acc |-> 0, total |-> 0, hits |-> 0, max |-> max,
                  cur |-> <<>>, aft |-> <<>>]

At(v, st) == [v |-> v, st |-> st]

root == <<"databases", "default", "documents">>

parse_document_path(path) == /\ Len(path) > 3 /\ SubSeq(path, 1, 3) = root
                             /\ Len(path) % 2 = 1

(* Mutant: a lookup answered from the cache of the other kind of access. *)
MutDocument(path, after, limited, c, st) ==
  LET docs == IF after THEN c.after ELSE c.docs
      found == IF path \in DOMAIN docs THEN docs[path] ELSE Null
  IN IF path \in DOMAIN st.cur THEN At(st.cur[path], st)
     ELSE At(found, [st EXCEPT !.cur = (path :> found) @@ @])

\* A document read: from the cache of its kind, else counted and looked up.
document(path, after, limited, c, st) ==
  LET cache == IF after THEN st.aft ELSE st.cur
      docs == IF after THEN c.after ELSE c.docs
      counted == [st EXCEPT !.acc = @ + 1, !.total = @ + 1]
      found == IF path \in DOMAIN docs THEN docs[path] ELSE Null
  IN IF path \in DOMAIN cache THEN At(cache[path], [st EXCEPT !.hits = @ + 1])
     ELSE IF limited /\ (st.acc >= OneLimit \/ st.total >= st.max) THEN At(Err, st)
     ELSE IF ~parse_document_path(path) THEN At(Err, counted)
     ELSE At(found, IF after THEN [counted EXCEPT !.aft = (path :> found) @@ @]
                    ELSE [counted EXCEPT !.cur = (path :> found) @@ @])

\* get, exists and getAfter; a storage ruleset has firestore.get and .exists.
call_builtin(name, args, c, st) ==
  LET storage == name \in {"firestore.get", "firestore.exists"}
      read == document(args[1].p, name = "getAfter", ~storage, c, st)
      found == read.v
  IN IF \/ name \notin {"get", "exists", "getAfter", "firestore.get", "firestore.exists"}
        \/ storage /= c.req.storage
        \/ Len(args) /= 1 THEN At(Err, st)
     ELSE IF is_symbolic(args[1]) /\ ~storage THEN At(Unknown, st)
     ELSE IF args[1].t /= "path" THEN At(Err, st)
     ELSE IF found = Err THEN At(Err, read.st)
     ELSE IF name \in {"exists", "firestore.exists"} THEN At(Bool(found /= Null), read.st)
     ELSE IF found = Null THEN At(Err, read.st)
     ELSE IF storage
       THEN At([t |-> "map", m |-> [data |-> [t |-> "map", m |-> found.data],
                                    id |-> [t |-> "string", s |-> Last(args[1].p)],
                                    __name__ |-> [t |-> "path", p |-> found.name]]], read.st)
     ELSE At(found, read.st)

OrNull(optional) == IF optional = <<>> THEN Null ELSE optional[1]

field(base, name, c) ==
  CASE base.t = "query_resource" -> IF name = "data" THEN [t |-> "query_data"] ELSE Unknown
    [] base.t = "query_data" -> field_value(<<name>>, c.branch[1])
    [] base.t = "constraint" -> field_value(Append(base.f, name), base.ps)
    [] base.t = "unknown" -> Unknown
    [] base.t = "map" -> IF name \in DOMAIN base.m THEN base.m[name] ELSE Err
    [] base.t = "request" ->
         CASE name = "auth" -> OrNull(c.req.auth)
           [] name = "method" -> [t |-> "string", s |-> c.req.op]
           [] name = "time" -> [t |-> "time", n |-> c.req.time]
           [] name = "path" -> [t |-> "path", p |-> c.req.path]
           [] name = "resource" -> OrNull(c.req.proposed)
           [] name = "query" /\ ~c.req.storage -> [t |-> "query"]
           [] OTHER -> Err
    [] base.t = "auth" -> CASE name = "uid" -> OrNull(base.uid)
                            [] name = "token" -> [t |-> "map", m |-> base.token]
                            [] OTHER -> Err
    [] base.t = "query" ->
         CASE name = "limit" -> OrNull(c.req.limit)
           [] name = "offset" -> [t |-> "int", n |-> c.req.offset]
           [] OTHER -> Err
    [] base.t = "resource" ->
         CASE name = "data" -> [t |-> "map", m |-> base.data]
           [] name = "__name__" -> [t |-> "path", p |-> base.name]
           [] name \in {"createTime", "updateTime"} ->
                LET when == IF name = "createTime" THEN base.created ELSE base.updated
                IN IF when = <<>> THEN Err ELSE [t |-> "time", n |-> when[1]]
           [] OTHER -> Err
    [] OTHER -> Err

variable(name, env, c) ==
  IF name \in DOMAIN env THEN env[name]
  ELSE IF name = "firestore" /\ c.req.storage THEN [t |-> "namespace"]
  ELSE Err

data_bool(v) == IF v.t = "bool" THEN v ELSE Err
query_boolean(v) == IF v.t = "bool" \/ is_symbolic(v) THEN v ELSE Err

\* && and || once both operands are known: a deciding operand wins over an
\* error and over what is not known, else the first error stands.
Decide(terminal, l, r) ==
  IF r = Bool(terminal) \/ l.t = "bool" THEN r
  ELSE IF l = Err THEN Err
  ELSE IF r = Err THEN Err
  ELSE Unknown

RECURSIVE eval_expr(_, _, _, _)

EvalAll(es, env, c, st) ==
  FoldLeft(LAMBDA acc, e :
             IF acc.bad THEN acc
             ELSE LET x == eval_expr(e, env, c, acc.st)
                  IN [bad |-> x.v = Err, vs |-> Append(acc.vs, x.v), st |-> x.st],
           [bad |-> FALSE, vs |-> <<>>, st |-> st], es)

\* Elements become data one by one: the first that cannot ends the evaluation.
EvalData(es, env, c, st) ==
  FoldLeft(LAMBDA acc, e :
             IF acc.bad THEN acc
             ELSE LET x == eval_expr(e, env, c, acc.st)
                      d == IF x.v = Err THEN Err ELSE into_data(x.v)
                  IN [bad |-> d = Err, vs |-> Append(acc.vs, d), st |-> x.st],
           [bad |-> FALSE, vs |-> <<>>, st |-> st], es)

eval_path(parts, env, c, st) ==
  FoldLeft(LAMBDA acc, part :
             IF acc.v.t /= "path" THEN acc
             ELSE IF part.k = "segments"
               THEN At([t |-> "path", p |-> acc.v.p \o part.segments], acc.st)
             ELSE LET x == eval_expr(part, env, c, acc.st)
                  IN At(CASE is_symbolic(x.v) -> Unknown
                          [] x.v.t = "path" -> [t |-> "path", p |-> acc.v.p \o x.v.p]
                          [] x.v.t = "string" -> [t |-> "path", p |-> Append(acc.v.p, x.v.s)]
                          [] OTHER -> Err, x.st),
           At([t |-> "path", p |-> <<>>], st), parts)

\* A function sees request, resource, the wildcards of its own scope and its
\* parameters, and binds its lets in turn.
call_user_function(f, args, env, c, st) ==
  LET kept == {x \in DOMAIN env : x \in {"request", "resource"} \cup f.scope}
      params == [x \in ToSet(f.params) |->
                   args[Max({i \in DOMAIN f.params : f.params[i] = x})]]
      entered == [st EXCEPT !.depth = @ + 1]
      lets == FoldLeft(LAMBDA acc, let :
                         IF acc.bad THEN acc
                         ELSE LET x == eval_expr(let[2], acc.env, c, acc.st)
                              IN [bad |-> x.v = Err, env |-> (let[1] :> x.v) @@ acc.env,
                                  st |-> x.st],
                       [bad |-> FALSE, env |-> params @@ [x \in kept |-> env[x]],
                        st |-> entered], f.lets)
      result == IF lets.bad THEN At(Err, lets.st) ELSE eval_expr(f.result, lets.env, c, lets.st)
  IN IF Len(f.params) /= Len(args) \/ st.depth >= MaxDepth THEN At(Err, st)
     ELSE At(result.v, [result.st EXCEPT !.depth = @ - 1])

eval_call(e, env, c, st) ==
  LET args == EvalAll(e.args, env, c, st)
      called == [args.st EXCEPT !.n = @ + 5]
  IN IF args.bad THEN At(Err, args.st)
     ELSE IF e.name \in DOMAIN c.fns
       THEN IF called.n > MaxExpressions THEN At(Err, called)
            ELSE call_user_function(c.fns[e.name], args.vs, env, c, called)
     ELSE call_builtin(e.name, args.vs, c, args.st)

eval_method(e, env, c, st) ==
  LET base == eval_expr(e.base, env, c, st)
      args == EvalAll(e.args, env, c, base.st)
  IN IF base.v = Err THEN base
     ELSE IF args.bad THEN At(Err, args.st)
     ELSE IF base.v.t = "namespace"
       THEN call_builtin(IF e.name = "get" THEN "firestore.get"
                         ELSE IF e.name = "exists" THEN "firestore.exists" ELSE e.name,
                         args.vs, c, args.st)
     ELSE At(call_method(base.v, e.name, args.vs), args.st)

eval_binary(e, env, c, st) ==
  LET logical == e.op \in {"&&", "||"}
      terminal == e.op = "||"
      boolean(v) == IF v = Err THEN Err
                    ELSE IF c.branch /= <<>> THEN query_boolean(v) ELSE data_bool(v)
      left == eval_expr(e.l, env, c, st)
      l == IF logical THEN boolean(left.v) ELSE left.v
      right == eval_expr(e.r, env, c, left.st)
  IN IF logical
       THEN IF l = Bool(terminal) THEN At(l, left.st)
            ELSE At(Decide(terminal, l, boolean(right.v)), right.st)
     ELSE IF l = Err THEN left
     ELSE IF right.v = Err THEN right
     ELSE At(eval_binary_values(e.op, l, right.v), right.st)

\* eval_expr_inner: every expression is counted before it is evaluated.
eval_expr(e, env, c, before) ==
  LET st == [before EXCEPT !.n = @ + 1]
      base == eval_expr(e.base, env, c, st)
      then(f(_)) == IF base.v = Err THEN base ELSE At(f(base.v), base.st)
  IN CASE st.n > MaxExpressions -> At(Err, st)
       [] st.n <= MaxExpressions /\ e.k = "lit" -> At(e.v, st)
       [] st.n <= MaxExpressions /\ e.k = "list" ->
            LET all == EvalData(e.es, env, c, st)
            IN At(IF all.bad THEN Err ELSE [t |-> "list", a |-> all.vs], all.st)
       [] st.n <= MaxExpressions /\ e.k = "path" -> eval_path(e.parts, env, c, st)
       [] st.n <= MaxExpressions /\ e.k = "var" -> At(variable(e.name, env, c), st)
       [] st.n <= MaxExpressions /\ e.k = "field" -> then(LAMBDA v : field(v, e.name, c))
       [] st.n <= MaxExpressions /\ e.k = "index" ->
            LET index == eval_expr(e.i, env, c, base.st)
            IN IF base.v = Err THEN base ELSE IF index.v = Err THEN index
               ELSE At(IF base.v.t \in {"query_data", "constraint"}
                         THEN IF index.v.t = "string" THEN field(base.v, index.v.s, c)
                              ELSE Unknown
                         ELSE index_value(base.v, index.v), index.st)
       [] st.n <= MaxExpressions /\ e.k = "slice" ->
            LET bounds == EvalAll(e.start \o e.end, env, c, base.st)
                n == Len(e.start)
            IN IF base.v = Err THEN base ELSE IF bounds.bad THEN At(Err, bounds.st)
               ELSE At(slice_value(base.v, SubSeq(bounds.vs, 1, n),
                                   SubSeq(bounds.vs, n + 1, Len(bounds.vs))), bounds.st)
       [] st.n <= MaxExpressions /\ e.k = "call" -> eval_call(e, env, c, st)
       [] st.n <= MaxExpressions /\ e.k = "method" -> eval_method(e, env, c, st)
       [] st.n <= MaxExpressions /\ e.k = "unary" -> then(LAMBDA v : eval_unary(e.op, v))
       [] st.n <= MaxExpressions /\ e.k = "binary" -> eval_binary(e, env, c, st)
       [] st.n <= MaxExpressions /\ e.k = "is" ->
            then(LAMBDA v : IF is_symbolic(v) THEN Unknown ELSE Bool(is_type(v, e.type)))

-----------------------------------------------------------------------------
(* Rulesets: [fns, matches]; a match is [pattern, fns, allows, children].   *)

\* The walk stops at the first allow that is true: acc is [allowed, error, st].
RECURSIVE walk(_, _, _, _)
walk(block, parent, c, acc) ==
  LET pattern == parent \o block.pattern
      inner == [c EXCEPT !.fns = block.fns @@ @]
      bound == IF c.branch /= <<>> /\ c.req.scope /= <<>>
                 THEN bindings(pattern, root, c.req.scope[1])
                 ELSE match_pattern(pattern, c.req.path)
      resource == IF c.branch /= <<>> THEN [t |-> "query_resource"] ELSE OrNull(c.req.resource)
      env == ("request" :> [t |-> "request"] @@ "resource" :> resource) @@ bound[1]
      judge(a, allow) ==
        IF a.allowed \/ c.req.op \notin allow.ops THEN a
        ELSE LET x == eval_expr(allow.condition, env, inner, a.st)
             IN [allowed |-> x.v = Bool(TRUE),
                 error |-> a.error \/ x.v.t /= "bool", st |-> x.st]
      judged == IF bound = <<>> THEN acc ELSE FoldLeft(judge, acc, block.allows)
  IN FoldLeft(LAMBDA a, child : IF a.allowed THEN a ELSE walk(child, pattern, inner, a),
              judged, block.children)

\* Every branch of a query must be allowed; expressions and accesses are
\* counted across branches.
evaluate_with_state(program, req, docs, after, st) ==
  LET proof == req.op = "list" /\ req.scope /= <<>>
      todo == IF proof THEN branches(req.filter) ELSE <<<<>>>>
      start == [allowed |-> todo /= <<>>, error |-> todo = <<>>,
                st |-> [st EXCEPT !.n = 0, !.depth = 0, !.acc = 0]]
      try(a, b) ==
        IF ~a.allowed THEN a
        ELSE LET c == [req |-> req, docs |-> docs, after |-> after, fns |-> program.fns,
                       branch |-> IF proof THEN <<b>> ELSE <<>>]
             IN FoldLeft(LAMBDA x, block : IF x.allowed THEN x ELSE walk(block, <<>>, c, x),
                         [a EXCEPT !.allowed = FALSE], program.matches)
  IN FoldLeft(try, start, todo)

evaluate(program, req, docs) ==
  evaluate_with_state(program, req, docs, docs, NewState(OneLimit))

\* A batch shares its caches and its budget: [operations, st].
evaluate_atomic(program, reqs, docs, after) ==
  FoldLeft(LAMBDA acc, req :
             LET x == evaluate_with_state(program, req, docs, after, acc.st)
             IN [operations |-> Append(acc.operations, x), st |-> x.st],
           [operations |-> <<>>, st |-> NewState(ManyLimit)], reqs)

-----------------------------------------------------------------------------
(* What evaluation must guarantee.                                          *)

(* A list granted from the query's filters alone would be granted document  *)
(* by document: every document that may be among the results, at any path   *)
(* of the query's scope, is one the same rules allow to be listed.          *)
ProofSound(program, req, results) ==
  evaluate(program, req, <<>>).allowed =>
    \A d \in results :
      evaluate(program, [req EXCEPT !.path = d.name, !.resource = <<d>>, !.scope = <<>>],
               <<>>).allowed

(* A difference added back gives what it was taken from, in either order of *)
(* instant and duration, unless a duration is out of range, which is cut;   *)
(* its sign is the order of the two; only an integer or an    *)
(* instant out of range is an error (eval_add, eval_subtract, eval_compare). *)
SumsExact(l, r) ==
  LET difference == eval_binary_values("-", l, r)
      sum == eval_binary_values("+", difference, r)
  IN /\ difference /= Err /\ Integer(l.n - r.n) /= Err /\ Integer(-r.n) /= Err => sum = l
     /\ difference /= Err /\ difference.t /= "time" =>
          (eval_binary_values("<", l, r) = Bool(TRUE)) = (difference.n < 0)
     /\ l.t = r.t \/ <<l.t, r.t>> = <<"time", "duration">> =>
          (difference = Err) <=>
             (l.t = "int" /\ Integer(l.n - r.n) = Err)
             \/ (r.t /= l.t /\ Integer(l.n + from_nanoseconds(-r.n).n) = Err)
=============================================================================
