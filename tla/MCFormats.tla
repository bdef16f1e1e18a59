----------------------------- MODULE MCFormats ------------------------------
(* The algorithms, what is stored, exported and listed, and clients waiting *)
(* for messages, on small instances: a behaviour takes an input of an       *)
(* algorithm or an encoding, reads an export, walks a listing, or is one of *)
(* a stream and a pull of one subscription.                                 *)
EXTENDS PubSubStreams, Sequences, TLC

CONSTANTS IntLimit, IndexedBytes, OrderValues, DocFields, Filters, Orders

VARIABLES algorithm, input

Q == INSTANCE QueryEngine

\* Rules with the limits of the code, scaled down, and without limits.
\* Here an integer past 4 need not be a double: 5 is not.
R == INSTANCE RulesEngine WITH MaxExpressions <- 12, MaxDepth <- 2, OneLimit <- 1,
                               ManyLimit <- 2, MaxBranches <- 3, Exact <- 4
U == INSTANCE RulesEngine WITH MaxExpressions <- 500, MaxDepth <- 9, OneLimit <- 50,
                               ManyLimit <- 99, MaxBranches <- 30, Exact <- 4, IntLimit <- 8

\* The query engine that a list is run by, with integers as large as U has.
Wide == INSTANCE QueryEngine WITH IntLimit <- 8

RP == INSTANCE RulesParser

S == INSTANCE Surfaces WITH RfcLimit <- 5, Micro <- 3, MaxAge <- 12,
                                  MaxAggregations <- 2, MaxDimension <- 2, MaxNearest <- 2

-----------------------------------------------------------------------------
(* Queries: the inputs.                                                     *)

Num(n) == [t |-> "int", n |-> n]
Half(h) == [t |-> "double", h |-> h]
Str(s) == [t |-> "string", s |-> s]
Arr(a) == [t |-> "array", a |-> a]
Map(m) == [t |-> "map", m |-> m]
NaN == [t |-> "nan"]
Null == [t |-> "null"]

\* Numbers at both ends of the integer range and on either side of zero.
MCOrderValues ==
  {Num(n) : n \in {-4, -1, 0, 1, 3}} \cup {Half(h) : h \in {-9, -8, -3, -1, 0, 1, 7, 8}}
  \cup {NaN, Null, [t |-> "bool", n |-> 1], [t |-> "vector", a |-> <<2>>],
        Str(<<1>>), Str(<<1, 2>>), Str(<<1, 2, 3>>),
        [t |-> "bytes", s |-> <<1>>], [t |-> "point", lat |-> Half(1), lon |-> NaN],
        [t |-> "point", lat |-> Half(1), lon |-> Half(0)],
        Arr(<<Num(1)>>), Arr(<<Num(1), NaN>>), Arr(<<Half(1)>>),
        Map(<<Num(1)>>), Map(<<Num(1), Null>>),
        [t |-> "ref", p |-> <<<<0, 1, 0>>>>], [t |-> "ref", p |-> <<<<1, 1, 0>>>>]}

C == <<1, 1, 0>>
D == <<1, 2, 0>>
KeySets == {<<<<C, <<1, 3, 0>>>>, <<C, <<0, 1, 0>>>>, <<C, <<0, 2, 0>>>>>>,
            <<<<C, <<0, 1, 0>>>>, <<C, <<1, 3, 0>>, C, <<1, 4, 0>>>>, <<D, <<1, 3, 0>>>>>>}

\* Field 1 is ordered and filtered on, field 2 breaks ties or is absent.
MCDocFields == {<<Num(1), Num(1)>>, <<Num(1)>>, <<Half(3), Num(0)>>, <<Null, Num(2)>>}
TieFields == {<<Num(1), Num(1)>>, <<Half(3), Num(0)>>}

F(path, op, v) == [path |-> path, op |-> op, value |-> v]
MCFilters ==
  {<<>>, <<F(<<1>>, ">", Num(0))>>, <<F(<<1>>, "!=", Num(1))>>,
   <<F(<<1>>, "in", Arr(<<Half(3), Null>>))>>,
   <<F(<<>>, "in", Arr(<<[t |-> "ref", p |-> <<C, <<0, 1, 0>>>>]>>))>>,
   <<[op |-> "or", fs |-> <<F(<<1>>, "==", Num(1)), F(<<2>>, ">=", Num(2))>>]>>}
O(path, d) == [path |-> path, direction |-> d]
MCOrders == {<<>>, <<O(<<1>>, 1)>>, <<O(<<2>>, -1), O(<<1>>, 1)>>, <<O(<<>>, -1)>>}
Limits == {<<>>} \cup {<<[n |-> n, last |-> l]>> : n \in {1, 2}, l \in BOOLEAN}
Starts == {<<>>, <<[inclusive |-> FALSE, values |-> <<Num(1)>>]>>}

Query(group, filter, orders, limit, offset, start) ==
  [scope |-> <<C>>, group |-> group, ancestor |-> <<>>, filter |-> filter,
   orders |-> orders, start |-> start, end |-> <<>>, offset |-> offset, limit |-> limit]

-----------------------------------------------------------------------------
(* Rules: the inputs.  Field 1 is a number, field 2 an array.               *)

Lit(v) == [k |-> "lit", v |-> v]
Var(x) == [k |-> "var", name |-> x]
Field(e, f) == [k |-> "field", base |-> e, name |-> f]
Bin(op, l, r) == [k |-> "binary", op |-> op, l |-> l, r |-> r]
Not(e) == [k |-> "unary", op |-> "!", base |-> e]
Call(f, args) == [k |-> "call", name |-> f, args |-> args]
Data(i) == Field(Field(Var("resource"), "data"), i)

Comparisons == {"==", "!=", "<", "<=", ">", ">="}
Atoms ==
  {Bin(op, Data(1), Lit(v)) : op \in Comparisons, v \in {Num(1), Half(3)}}
  \cup {Bin("<", Lit(Num(1)), Data(1)), Bin("in", Lit(Num(1)), Data(2)),
        Bin("in", Data(1), [k |-> "list", es |-> <<Lit(Num(1)), Lit(Num(2))>>]),
        Bin("==", Var("id"), Lit([t |-> "string", s |-> "k"])),
        Bin("==", Data(1), Data(2)),
        Bin("==", [k |-> "method", base |-> Data(2), name |-> "size", args |-> <<>>],
            Lit(Num(1)))}
Seconds == {Bin(">=", Data(1), Lit(Num(1))), Bin("!=", Data(1), Lit(Num(2))),
            Bin("in", Lit(Num(2)), Data(2)), Lit([t |-> "bool", b |-> TRUE])}
\* Comparisons with the largest exact integer, the next one and that double.
LargeAtoms == {Bin(op, Data(1), Lit(v)) : op \in Comparisons, v \in {Num(5), Half(8)}}
Conditions == LargeAtoms \cup {Not(a) : a \in LargeAtoms}
              \cup Atoms \cup {Not(a) : a \in Atoms}
              \cup {Bin(op, a, b) : op \in {"&&", "||"}, a \in Atoms, b \in Seconds}
              \cup {Not(Bin(op, a, b)) : op \in {"&&", "||"}, a \in Atoms, b \in Seconds}

XFilters == {F(<<1>>, op, v) : op \in Comparisons, v \in {Num(1), Half(3)}}
LargeFilters == {F(<<1>>, op, v) : op \in Comparisons, v \in {Num(4), Num(5), Half(8)}}
RuleFilters ==
  {<<f>> : f \in XFilters \cup LargeFilters \cup {F(<<1>>, "in", Arr(<<Num(1), Num(2)>>)),
                             F(<<1>>, "not-in", Arr(<<Num(1), Half(3)>>)),
                             F(<<2>>, "contains", Num(1)),
                             F(<<2>>, "contains-any", Arr(<<Num(1), Num(2)>>))}}
  \cup {<<>>}
  \cup {<<[op |-> op, fs |-> <<f, F(<<2>>, "contains", Num(1))>>]>> : op \in {"and", "or"}, f \in XFilters}

Block(pattern, fns, ops, condition) ==
  [pattern |-> pattern, fns |-> fns, children |-> <<>>,
   allows |-> <<[ops |-> ops, condition |-> condition]>>]
Segment(kind, name) == [kind |-> kind, name |-> name]
Root == <<Segment("lit", "databases"), Segment("one", "db"), Segment("lit", "documents")>>
Program(pattern, condition) ==
  [fns |-> <<>>, matches |-> <<Block(Root \o pattern, <<>>, {"list", "get"}, condition)>>]

Direct == <<Segment("lit", "c"), Segment("one", "id")>>
Anywhere == <<Segment("many", "up"), Segment("lit", "c"), Segment("one", "id")>>

Request(op, path, scope, filter) ==
  [op |-> op, path |-> R!root \o path, auth |-> <<>>, time |-> 0, resource |-> <<>>,
   proposed |-> <<>>, scope |-> scope, filter |-> filter, limit |-> <<>>, offset |-> 0,
   storage |-> FALSE]
Collection == [group |-> FALSE, path |-> <<"c">>]
Group == [group |-> TRUE, ancestor |-> <<>>, id |-> "c"]

Stored(path, fields) ==
  [t |-> "resource", name |-> R!root \o path, created |-> <<>>, updated |-> <<>>,
   data |-> [i \in DOMAIN fields |-> R!store_value(fields[i])], fields |-> fields]
StoredDocs ==
  {Stored(<<"c", id>>, <<x, Arr(<<y>>)>>) :
     id \in {"k", "l"}, y \in {Num(1), Num(2)},
     x \in {Num(0), Num(1), Num(2), Half(2), Half(3), NaN, Null}}
  \cup {Stored(<<"d", "k", "c", "k">>, <<Num(1), Arr(<<Num(1)>>)>>),
        Stored(<<"c", "k">>, <<Num(1)>>)}
  \cup {Stored(<<"c", "k">>, <<x, Arr(<<Num(1)>>)>>) : x \in {Num(4), Num(5), Half(8), Half(12)}}

\* Conditions that read documents, within a function of the ruleset or not.
PathOf(id) == [k |-> "path", parts |-> <<[k |-> "segments", segments |-> R!root \o <<"c", id>>]>>]
Reads == {Call("exists", <<PathOf("k")>>), Call("exists", <<PathOf("l")>>),
          Bin("==", Field(Field(Call("get", <<PathOf("k")>>), "data"), 1), Lit(Num(1))),
          Bin("==", Field(Field(Call("getAfter", <<PathOf("k")>>), "data"), 1), Lit(Num(1))),
          Call("f", <<Call("exists", <<PathOf("k")>>)>>)}
ReadConditions ==
  Reads \cup {Not(Bin(op, a, b)) : op \in {"&&", "||"}, a, b \in Reads}
  \cup {Bin(op, a, Not(b)) : op \in {"&&", "||"}, a, b \in Reads}
Function(result) == [params |-> <<"x">>, scope |-> {}, lets |-> <<<<"y", Not(Var("x"))>>>>,
                     result |-> result]
WithFunction(pattern, condition) ==
  [Program(pattern, condition) EXCEPT
     !.fns = [g \in {"f"} |-> Function(Bin("||", Var("y"), Var("x")))]]
Before == [p \in {R!root \o <<"c", "k">>} |-> Stored(<<"c", "k">>, <<Num(1)>>)]
After == [p \in {R!root \o <<"c", id>> : id \in {"k", "l"}} |-> Stored(<<"c", "k">>, <<Num(2)>>)]

\* Documents the executed query could return.
Results(req) ==
  {d \in StoredDocs :
     /\ \A i \in DOMAIN req.filter :
          Wide!filter_matches(req.filter[i], [key |-> <<>>, fields |-> d.fields], "standard")
     /\ req.scope[1].group \/ Len(d.name) = 5}

\* The numbers a condition, a filter and a document are made of.
RECURSIVE ConditionNumbers(_), FilterNumbers(_)
ConditionNumbers(e) ==
  CASE e.k = "lit" -> {e.v}
    [] e.k = "list" -> UNION {ConditionNumbers(e.es[i]) : i \in DOMAIN e.es}
    [] e.k = "binary" -> ConditionNumbers(e.l) \cup ConditionNumbers(e.r)
    [] e.k = "unary" -> ConditionNumbers(e.base)
    [] OTHER -> {}
Elements(v) == IF v.t = "array" THEN {v.a[i] : i \in DOMAIN v.a} ELSE {v}
FilterNumbers(f) ==
  IF f.op \in {"and", "or"} THEN UNION {FilterNumbers(f.fs[i]) : i \in DOMAIN f.fs}
  ELSE Elements(f.value)

\* A double is compared with an integer that is no double.
Rounding(program, req, d) ==
  LET numbers == ConditionNumbers(program.matches[1].allows[1].condition)
                 \cup UNION {FilterNumbers(req.filter[i]) : i \in DOMAIN req.filter}
                 \cup UNION {Elements(d.fields[i]) : i \in DOMAIN d.fields}
  IN /\ \E v \in numbers : v.t = "int" /\ U!to_f64(v) /= 2 * v.n
     /\ \E v \in numbers : v.t = "double"

-----------------------------------------------------------------------------
(* Rules sources: the inputs.                                               *)

Leaf(x) == [k |-> "var", name |-> x]
Binary(op, l, r) == [k |-> "binary", op |-> op, l |-> l, r |-> r]
Calls(f) == [k |-> "call", callee |-> Leaf(f), args |-> <<Leaf("a"), Leaf("b")>>]
Simple == {Leaf("a"), [k |-> "lit", v |-> "null"], Calls("f"),
           [k |-> "unary", op |-> "-", operand |-> Leaf("a")],
           [k |-> "is", value |-> Leaf("a"), type |-> "int"]}
Trees == Simple \cup {Binary(op, l, r) : op \in {"||", "&&", "in", "<", "-"}, l, r \in Simple}
Pairs == {Leaf("a")} \cup {Binary(op, Leaf("a"), Leaf("b")) : op \in {"||", "<"}}
Wrapped(t) == {[k |-> "unary", op |-> "!", operand |-> t], [k |-> "list", es |-> <<t, t>>],
               [k |-> "is", value |-> t, type |-> "bool"],
               [k |-> "field", base |-> t, name |-> "a"],
               [k |-> "index", base |-> t, index |-> t],
               [k |-> "slice", base |-> Leaf("a"), start |-> <<t>>, end |-> <<>>],
               [k |-> "map", entries |-> <<<<"a", t>>, <<"b", t>>>>]}
              \cup {Binary(op, t, r) : op \in {"||", "&&", "==", "*"}, r \in Simple}
              \cup {Binary(op, l, t) : op \in {"||", "&&", "==", "*"}, l \in Pairs}

Declared(name, calls) ==
  [k |-> "function", name |-> name, params |-> <<"a", "b">>, lets |-> <<<<"x", Leaf("a")>>>>,
   result |-> calls, scope |-> {}]
Allowed(e) == [k |-> "allow", condition |-> e, ops |-> {"get", "delete"}]
Matched(kind, name, body) ==
  [k |-> "match", pattern |-> <<Segment("lit", "c"), Segment(kind, name)>>, body |-> body]
Callees == {Leaf("a"), Calls("f"), Calls("g"), Calls("h")}

-----------------------------------------------------------------------------
(* Writes and surfaces: the inputs.  Field 1 holds a number, field 2 a map  *)
(* of a number and an array.                                                *)

Time(n) == [t |-> "time", n |-> n]
Point(lat, lon) == [t |-> "point", lat |-> lat, lon |-> lon]
Leaves == OrderValues \cup {Time(2), Time(6), Point(Half(2), Half(4)), Point(Half(0), Half(4))}
TravelValues ==
  Leaves \cup {Arr(<<v>>) : v \in Leaves}
         \cup {Map([f \in {1, 8} |-> IF f = 1 THEN v ELSE Str(<<1>>)]) : v \in Leaves}

Nested(n, a) == Map(<<Num(n), Arr(a)>>)
Before1 == [fields |-> <<Num(3), Nested(2, <<Num(1), NaN>>)>>, created |-> 1, updated |-> 1]
Stores == {<<>>, <<Before1>>,
           <<[Before1 EXCEPT !.fields = <<NaN, Arr(<<Half(2)>>)>>, !.updated = 2]>>}

Masks == {<<>>} \cup {<<m>> : m \in {<<>>, <<<<1>>>>, <<<<2, 1>>>>, <<<<2, 3>>, <<1>>>>,
                                    <<<<2>>, <<2, 1>>>>, <<<<1, 1>>>>, <<<<>>>>}}
GivenFields == {<<>>, <<Half(1)>>, <<Null, Nested(-2, <<Num(1)>>)>>}
Transform(path, op, v) == [path |-> path, op |-> op, value |-> v]
Transforms ==
  {Transform(<<1>>, op, v) : op \in {"increment", "maximum", "minimum"},
                             v \in {Num(2), Half(5), NaN, Str(<<1>>)}}
  \cup {Transform(<<2, 2>>, op, <<Half(2), NaN, Num(2)>>) : op \in {"union", "remove"}}
  \cup {Transform(<<1>>, "time", <<>>), Transform(<<>>, "time", <<>>),
        Transform(<<1>>, "unset", <<>>)}
Preconditions == {<<>>, <<[k |-> "exists", b |-> TRUE]>>, <<[k |-> "exists", b |-> FALSE]>>,
                  <<[k |-> "time", n |-> 1]>>}

WireWrite(op, fields, mask, transforms, own, pre) ==
  [op |-> op, key |-> 1, fields |-> fields, mask |-> mask, transforms |-> transforms,
   own |-> own, pre |-> pre]
Updates == {WireWrite("update", f, m, <<>>, <<>>, p) : f \in GivenFields, m \in Masks, p \in Preconditions}
OtherWrites ==
  {WireWrite(op, <<>>, m, ts, own, p) :
     op \in {"transform", "delete", "verify", "none"}, m \in {<<>>, <<<<<<1>>>>>>},
     ts \in {<<>>, <<Transform(<<1>>, "increment", Num(1))>>},
     own \in {<<>>} \cup {<<x>> : x \in Transforms}, p \in Preconditions}
WireWrites ==
  Updates \cup OtherWrites
  \cup {WireWrite("update", <<Num(1)>>, m, <<x>>, <<>>, <<>>) : x \in Transforms, m \in Masks}
Firsts ==
  {WireWrite("update", f, <<>>, <<>>, <<>>, p) : f \in GivenFields, p \in {<<>>, <<[k |-> "exists", b |-> FALSE]>>}}
  \cup {WireWrite("delete", <<>>, <<>>, <<>>, <<>>, <<>>)}
  \cup {WireWrite("transform", <<>>, <<>>, <<>>, <<x>>, <<>>) : x \in Transforms}

FieldPathsOf == {<<1>>, <<2>>, <<1, 1>>, <<2, 1>>, <<2, 2>>, <<2, 3>>}

Cursor == [before |-> TRUE, values |-> <<Num(1)>>]
VectorOf(a) == S!grpc_encode_value([t |-> "vector", a |-> a])
Near(path, vector, limit, measure) ==
  [path |-> path, vector |-> vector, limit |-> limit, measure |-> measure, result |-> <<>>]
WireFilters ==
  {[k |-> "field", path |-> <<1>>, op |-> op, value |-> v] :
     op \in {"==", "in", "unset"}, v \in {Num(1), VectorOf(<<1>>), Map([f \in {8} |-> Str(<<9>>)])}}
  \cup {[k |-> "unary", path |-> <<1>>, op |-> op] : op \in {"is-nan", "is-not-null", "unset"}}
  \cup {[k |-> "unset"]}
CompositeFilters == {[k |-> "composite", op |-> op, fs |-> fs] :
                       op \in {"and", "unset"}, fs \in {<<>>} \cup {<<f, g>> : f, g \in WireFilters}}
Structured(group, parent, where, direction, cursor, offset, limit, nearest) ==
  [collection |-> C, group |-> group, parent |-> parent, where |-> where,
   orders |-> <<[path |-> <<1>>, direction |-> direction]>>, start |-> cursor, end |-> <<>>,
   offset |-> offset, limit |-> limit, select |-> <<>>, nearest |-> nearest]

Alias(i) == IF i = 0 THEN <<>> ELSE <<"field", i>>
Aggregations ==
  {[alias |-> Alias(i), op |-> "count", path |-> <<>>, up_to |-> u] :
     i \in 0..2, u \in {<<>>, <<-1>>, <<0>>, <<1>>, <<2>>}}
  \cup {[alias |-> Alias(i), op |-> op, path |-> <<1>>, up_to |-> <<>>] :
          i \in 0..1, op \in {"sum", "avg", "unset"}}
AggregateDocs == {<<>>, <<Before1, [Before1 EXCEPT !.fields = <<Half(3)>>]>>,
                  <<Before1, [Before1 EXCEPT !.fields = <<NaN>>], [Before1 EXCEPT !.fields = <<Null>>]>>}

-----------------------------------------------------------------------------

Take(from, name, i) == algorithm = from /\ algorithm' = name /\ input' = i

FirstValue == \E l \in OrderValues, e \in {"standard", "enterprise"} :
                Take("none", "value", <<l, e>>)

CompareValues == \E r, x \in OrderValues :
                   Take("value", "order", <<input[1], r, x, input[2]>>)

Documents ==
  \E a \in DocFields, b, c \in TieFields, keys \in KeySets :
    Take("none", "documents",
         {[key |-> keys[i], fields |-> <<a, b, c>>[i]] : i \in 1..3})

RunQuery ==
  \E f \in Filters, o \in Orders, group \in BOOLEAN, limit \in Limits,
     offset \in 0..1, start \in Starts :
    /\ group => limit = <<>> /\ offset = 0 /\ start = <<>>
    /\ Take("documents", "query", <<input, Query(group, f, o, limit, offset, start)>>)

Partition ==
  \E n \in 0..5, points \in 0..4 :
    Take("none", "partition",
         <<{[key |-> <<C, <<1, i, 0>>>>, fields |-> <<>>] : i \in 1..n},
           Query(TRUE, <<>>, <<O(<<>>, 1)>>, <<>>, 0, <<>>), points>>)

\* Vectors at the same and at different distances, of another dimension, or none.
VectorFields == {<<Num(1)>>} \cup {<<[t |-> "vector", a |-> v]>> : v \in {<<1>>, <<-1>>, <<2>>, <<1, 1>>}}
Vectors ==
  \E fields \in [1..3 -> VectorFields], keys \in KeySets :
    Take("none", "vectors", {[key |-> keys[i], fields |-> fields[i]] : i \in 1..3})
Nearest ==
  \E dot \in BOOLEAN, threshold \in {<<>>, <<1>>}, near \in 1..2, offset \in 0..1,
     limit \in {<<>>, <<[n |-> 0, last |-> FALSE]>>, <<[n |-> 1, last |-> FALSE]>>} :
    Take("vectors", "nearest",
         <<input, Query(FALSE, <<>>, <<>>, limit, offset, <<>>),
           [path |-> <<1>>, vector |-> <<1>>, dot |-> dot, threshold |-> threshold, limit |-> near]>>)

IndexFilters ==
  LET first == {F(<<1>>, op, Num(1)) : op \in {"==", "<", "contains"}}
      second == {F(p, op, Arr(<<Num(1)>>)) : p \in {<<1>>, <<2>>},
                                            op \in {"==", "in", "not-in", "contains-any"}}
  IN {<<>>} \cup {<<f>> : f \in first \cup second}
     \cup {<<[op |-> op, fs |-> <<f, g>>]>> : op \in {"and", "or"}, f \in first, g \in second}
Index ==
  \E f \in IndexFilters, o \in Orders, group \in BOOLEAN,
     near \in {<<>>} \cup {<<[path |-> p, vector |-> <<1, 1>>]>> : p \in {<<2>>, <<3>>}} :
    Take("none", "index", <<Query(group, f, o, <<>>, 0, <<>>), near>>)

Condition == \E e \in Conditions : Take("none", "condition", e)

ListQuery ==
  \E filter \in RuleFilters, group \in BOOLEAN, pattern \in {Direct, Anywhere} :
    Take("condition", "list",
         <<Program(pattern, input),
           Request("list", <<"c", "rules-candidate">>,
                   <<IF group THEN Group ELSE Collection>>, filter)>>)

BatchRule == \E e \in ReadConditions : Take("none", "rule", e)

Batch ==
  \E e \in ReadConditions :
    Take("rule", "batch",
         <<[WithFunction(Direct, input) EXCEPT
              !.matches = @ \o WithFunction(<<Segment("lit", "d"), Segment("one", "id")>>,
                                            e).matches],
           <<Request("get", <<"c", "k">>, <<>>, <<>>),
             Request("get", <<"d", "k">>, <<>>, <<>>)>>>>)

Tree == \E t \in Trees : Take("none", "tree", t)

ParseExpression ==
  /\ algorithm = "tree"
  /\ \E e \in Wrapped(input) :
       Take("tree", "source", <<Matched("one", "w", <<Allowed(e)>>)>>)

ParseBlocks ==
  \E f, g, h \in Callees, kind \in {"one", "many"}, nested \in BOOLEAN :
    LET inner == <<Declared("g", g), Declared("h", h), Allowed(Leaf("a"))>>
    IN Take("none", "source",
            <<Matched(kind, "w", <<Declared("f", f)>>
                                 \o IF nested THEN <<Matched("one", "v", inner)>> ELSE inner),
              Matched("one", "v", <<Declared("f", Leaf("a"))>>)>>)

Travel == \E v \in TravelValues : Take("none", "travel", v)

ReadTime == \E given \in 0..7, later \in 0..20 : Take("none", "read time", <<given, later>>)

Stored1 == \E store \in Stores : Take("none", "store", store)

Write1 == \E w \in WireWrites : Take("store", "commit", <<input, <<w>>>>)

First == \E w \in Firsts : Take("store", "first", <<input, w>>)

Write2 == \E w \in Firsts, key \in 1..2 :
            Take("first", "commit", <<input[1], <<input[2], [w EXCEPT !.key = key]>>>>)

Unary == \E w \in Updates : Take("store", "unary", <<input, w>>)

StructuredQuery ==
  \/ \E group \in BOOLEAN, parent \in {<<>>, <<<<C, D>>>>}, f \in WireFilters \cup CompositeFilters :
       Take("none", "structured", Structured(group, parent, <<f>>, "desc", <<>>, 0, <<>>, <<>>))
  \/ \E cursor \in {<<>>, <<Cursor>>}, offset \in -1..1, limit \in {<<>>, <<-1>>, <<1>>},
        direction \in {"asc", "unspecified"} :
       Take("none", "structured",
            Structured(FALSE, <<>>, <<>>, direction, cursor, offset, limit, <<>>))
  \/ \E path \in {<<>>, <<1>>}, vector \in {Num(1), VectorOf(<<>>), VectorOf(<<2>>), VectorOf(<<1, 2, 3>>)},
        limit \in {<<>>, <<-1>>, <<0>>, <<1>>, <<3>>}, measure \in {"unset", "cosine"} :
       Take("none", "structured",
            Structured(FALSE, <<>>, <<>>, "asc", <<>>, 0, <<>>, <<Near(path, vector, limit, measure)>>))

Aggregate ==
  \E docs \in AggregateDocs, a, b \in Aggregations, n \in 0..3 :
    Take("none", "aggregate", <<docs, SubSeq(<<a, b, a>>, 1, n)>>)

Instants == {[t |-> t, n |-> n] : t \in {"time", "duration", "int"}, n \in -4..3}
Times == \E l, r \in Instants : Take("none", "times", <<l, r>>)

TakeNext ==
        \/ /\ algorithm = "none"
           /\ \/ FirstValue \/ Documents \/ Partition \/ Vectors \/ Index \/ Condition \/ BatchRule \/ Tree
              \/ ParseBlocks \/ Travel \/ ReadTime \/ Stored1 \/ StructuredQuery \/ Aggregate \/ Times
        \/ algorithm = "value" /\ CompareValues
        \/ algorithm = "documents" /\ RunQuery
        \/ algorithm = "vectors" /\ Nearest
        \/ algorithm = "condition" /\ ListQuery
        \/ algorithm = "rule" /\ Batch
        \/ ParseExpression
        \/ algorithm = "store" /\ (Write1 \/ First \/ Unary)
        \/ algorithm = "first" /\ Write2

-----------------------------------------------------------------------------

(* Values compare as one total order (compare_values, lib.rs of the query   *)
(* engine): see OrderTotal.                                                 *)
ValuesOrdered(a, x) ==
  a = "order" => Q!OrderTotal(x[1], x[2], x[3], x[4])

(* Whichever way a query is executed, it gives what it means (execute_iter  *)
(* and its three paths): see QueryExact.  Partition cursors split a group   *)
(* evenly: see PartitionsEven.  Nearest neighbours are the nearest, and an  *)
(* index is asked for when one is needed: see NearestExact, IndexesMeant.   *)
QueriesExact(a, x) ==
  /\ a = "query" => Q!QueryExact(x[1], x[2], "standard")
  /\ a = "partition" => Q!PartitionsEven(x[1], x[2], x[3])
  /\ a = "nearest" => Q!NearestExact(x[1], x[2], x[3], "standard")
  /\ a = "index" => Q!IndexesMeant(x[1], x[2])

(* A query is listed only if the rules would let each document the query    *)
(* engine can return be listed (evaluator.rs with query_constraints.rs):    *)
(* see ProofSound.  It fails where a double is compared with an integer that *)
(* no double equals, so those cases are excepted: eval_compare and          *)
(* rules_equal round the integer (evaluator.rs:1438, 1464-1470), the query  *)
(* engine compares exactly, and the filter x > 2^53, a double, proves the   *)
(* rule x > 2^53 + 1.  Conditions that tell an integer from the double      *)
(* equal to it are left out: an equality filter binds the type it was given. *)
ListProofsSound(a, x) ==
  a = "list" =>
    U!ProofSound(x[1], x[2], {d \in Results(x[2]) : ~Rounding(x[1], x[2], d)})

(* Limits and shared caches never grant what evaluation without them would  *)
(* not: an operation of a batch is judged as it would be alone, and running *)
(* out of document accesses or expressions only refuses (AccessState and    *)
(* the limits of evaluator.rs).                                             *)
BatchesJudgedAlone(a, x) ==
  a = "batch" =>
    LET limited == R!evaluate_atomic(x[1], x[2], Before, After)
        free == U!evaluate_atomic(x[1], x[2], Before, After)
    IN \A i \in 1..2 :
         /\ limited.operations[i].allowed => free.operations[i].allowed
         /\ free.operations[i].allowed =
              U!evaluate_with_state(x[1], x[2][i], Before, After,
                                    U!NewState(99)).allowed

(* Rules arithmetic on integers, instants and durations is exact or an      *)
(* error: see SumsExact.                                                    *)
RulesArithmetic(a, x) == a = "times" => R!SumsExact(x[1], x[2])

(* The rules compiler reads a source as it was meant (parser.rs and the     *)
(* function checks of the engine's lib.rs): see RoundTrip.                  *)
SourcesRead(a, x) == a = "source" => RP!RoundTrip(x, 1)

(* What a write makes of a document (apply_write of core-store): a patch    *)
(* changes the masked paths only, a transform goes by the order queries     *)
(* sort by, and a commit stores what its preview showed the rules, with the *)
(* logical bytes to match: see PatchFrames, TransformsOrdered, PlansExact.  *)
WritesExact(a, x) ==
  /\ a = "order" => S!TransformsOrdered(x[1], x[2])
  /\ a = "commit" =>
       LET writes == [i \in DOMAIN x[2] |-> S!grpc_decode_write(x[2][i])]
       IN (\A i \in DOMAIN writes : writes[i] /= <<>>) =>
            /\ S!PlansExact(x[1], [i \in DOMAIN writes |-> writes[i][1]], 4)
            /\ writes[1][1].op = "patch" =>
                 S!PatchFrames(S!Lookup(x[1], 1), writes[1][1], FieldPathsOf)

(* What is stored reads back the same over gRPC and REST, whichever of the  *)
(* encoders spells it, and a read time handed out can be used (codec.rs,    *)
(* lib.rs and read_json.rs of rest-front): see ValueTravels and             *)
(* ReadTimesReusable.                                                       *)
ValuesTravel(a, x) ==
  /\ a = "travel" => S!ValueTravels(x)
  /\ a = "read time" => S!ReadTimesReusable(x[1], x[2])

(* The same request means the same over gRPC and REST (the decoders and the *)
(* handlers of both): see CommitsAgree, UnaryAgree, MasksProject,           *)
(* QueriesAgree and AggregationsAgree.                                      *)
SurfacesAgree(a, x) ==
  /\ a = "commit" => S!CommitsAgree(x[1], x[2], 4)
  /\ a = "unary" =>
       /\ S!UnaryAgree(x[1], x[2], 4)
       /\ \A i \in DOMAIN x[1], m \in DOMAIN x[2].mask :
            S!MasksProject(x[1][i].fields, x[2].mask[m], FieldPathsOf)
  /\ a = "structured" => S!QueriesAgree(x)
  /\ a = "aggregate" => S!AggregationsAgree(x[1], x[2])

(* Every step that takes an input takes one that is computed as meant.      *)
(* Queries mean what they say: ValuesOrdered and QueriesExact               *)
(* (execute_iter, compare_values).                                          *)
QueriesMeant ==
  [][\A a \in {algorithm'}, x \in {input'} : ValuesOrdered(a, x) /\ QueriesExact(a, x)]_<<algorithm, input>>

(* Rules mean what they say, from their source to the judgement of a list   *)
(* or a batch: ListProofsSound, BatchesJudgedAlone, RulesArithmetic and     *)
(* SourcesRead (evaluator.rs, query_constraints.rs, parser.rs).             *)
RulesMeant ==
  [][\A a \in {algorithm'}, x \in {input'} :
       /\ ListProofsSound(a, x) /\ BatchesJudgedAlone(a, x)
       /\ RulesArithmetic(a, x) /\ SourcesRead(a, x)]_<<algorithm, input>>

(* A write is stored, and a value read, the same from either surface:       *)
(* WritesExact, ValuesTravel and SurfacesAgree (apply_write, codec.rs,      *)
(* rest-front/lib.rs).                                                      *)
SurfacesMeant ==
  [][\A a \in {algorithm'}, x \in {input'} :
       WritesExact(a, x) /\ ValuesTravel(a, x) /\ SurfacesAgree(a, x)]_<<algorithm, input>>

-----------------------------------------------------------------------------
(* Exports, listings, filters and schedules.                                *)

CONSTANTS MaxChanges, QueueDepth

VARIABLES documents, directory, damage, worker, channel, reader,
          kind, request, store, origin, token, listed, walk, place, stable, gone, changes

export == <<documents, directory, damage, worker, channel, reader>>
listing == <<kind, request, store, origin, token, listed, walk, place, stable, gone, changes>>
formatVars == <<algorithm, input, export, listing, vars>>

-----------------------------------------------------------------------------
(* Subscription filters and schedules: the inputs.                          *)

Filtering == INSTANCE PubSubFilter WITH Letters <- {"a", "b", "attributes", "hasPrefix", "NOT", "AND", "OR"}

Strings == {<<>>, <<"a">>, <<"a", "b">>, <<"AND">>, <<"quote", "a">>, <<"\\", "quote">>}
Atom(k, op, v) == [key |-> k, op |-> op, v |-> v]
FilterAtoms ==
  {Atom(<<"a">>, op, v) : op \in {"equals", "differs", "prefix"}, v \in Strings}
  \cup {Atom(k, "exists", <<>>) : k \in Strings} \cup {Atom(<<"quote", "a">>, "equals", <<"a">>)}
Some == {Atom(<<"a">>, "differs", <<"a">>), Atom(<<"OR", "b">>, "exists", <<>>)}
Negations == {<<>>, <<"-">>, <<"NOT", " ">>, <<"NOT", " ", "-">>}
Either == <<Atom(<<"a">>, "differs", <<"a">>), Atom(<<"OR", "b">>, "exists", <<>>)>>
FilterTerms == [neg : Negations, atom : FilterAtoms] \cup [neg : Negations, either : {Either}]
Attributes == {<<>>, [k \in {<<"a">>} |-> <<"a", "b">>], [k \in {<<"a">>, <<"quote", "a">>} |-> <<"a">>],
               [k \in {<<"a">>, <<"OR", "b">>} |-> <<"\\", "quote">>]}

Cron == INSTANCE Schedules WITH Minute <- 2, Hour <- 4, Day <- 2, MonthDays <- <<2, 3>>, WeekDays <- 3,
                             Limit <- 6
Part(range, step) == [range |-> range, step |-> step]
Every == <<Part(<<>>, 0)>>
CronFields ==
  {<<m, h, d, n, w>> :
     m \in {Every, <<Part(<<1>>, 0)>>, <<Part(<<1>>, 2)>>, <<Part(<<1, 3>>, 2)>>, <<Part(<<>>, 3)>>,
            <<Part(<<0>>, 1), Part(<<3>>, 0)>>, <<Part(<<1, 4>>, 1)>>, <<Part(<<>>, -1)>>},
     h \in {Every, <<Part(<<1>>, 0)>>},
     d \in {Every, <<Part(<<3>>, 0)>>, <<Part(<<1, 2>>, 0)>>, <<Part(<<2>>, 1)>>},
     n \in {Every, <<Part(<<1>>, 0)>>, <<Part(<<2>>, 0)>>, <<Part(<<2, 1>>, 0)>>},
     w \in {Every, <<Part(<<0>>, 0)>>, <<Part(<<0, 2>>, 2)>>}}
ScheduleInputs ==
  [words : {"other"}, fields : CronFields, zone : {"other"}]
  \cup [words : {"every"}, count : {-1, 0, 1, 3}, unit : {"minute", "hour", "day"}, zone : {"UTC"}]
  \cup [words : {"daily"}, hour : {-1, 0, 1, 2}, minute : {0, 3, 4}, zone : {"UTC", "other"}]
Moments == {0, 3, 5, 15, 31, 38, 79, 239}

-----------------------------------------------------------------------------
(* Encoded documents: the inputs.                                           *)

Lazy == INSTANCE LazyDocuments WITH NumberBytes <- 2

N(t, n) == [t |-> t, n |-> n]
MapOf(m) == [t |-> "map", m |-> m]
Scalars == {[t |-> "null"], N("boolean", 1), N("double", 10), N("point", 3),
            [t |-> "string", s |-> <<255, 5>>], [t |-> "vector", c |-> <<9, 10>>]}
EncodedLeaves == Scalars \cup {Arr(<<x, y>>) : x, y \in Scalars}
Entry(k, v) == [key |-> k, value |-> v]
Names == <<<<1>>, <<1, 2>>, <<2>>>>
InnerMaps ==
  {MapOf(<<Entry(Names[1], x), Entry(Names[2], N("double", 1))>>) : x \in EncodedLeaves}
  \cup {MapOf(<<>>), MapOf(<<Entry(Names[3], MapOf(<<Entry(Names[1], [t |-> "null"])>>))>>)}
DocumentsOf(first) ==
  {<<>>, <<Entry(Names[2], first)>>}
  \cup {<<Entry(Names[1], first), Entry(Names[2], second), Entry(Names[3], N("double", 7))>> :
          second \in InnerMaps}
Paths == {<<Names[i]>> : i \in 1..3} \cup {<<Names[2], Names[i]>> : i \in 1..3}
         \cup {<<Names[2], Names[3], Names[1]>>, <<>>}

-----------------------------------------------------------------------------
(* Disk scans: the inputs.                                                  *)

Scans == INSTANCE DiskScan WITH MaxByte <- 9, HalfRange <- 1

Key(d, p) == [project |-> <<1>>, database |-> d, path |-> p]

\* Ids that are a prefix of one another, hold the byte 0 or one before the
\* slash, numbers, documents under documents, and a database past another.
ScanKeys ==
  {Key(<<1>>, p) : p \in {<<2, 3, 2>>, <<2, 3, 2, 0>>, <<2, 3, 2, 0, 2>>, <<2, 3, 6, 7>>, <<2, 3, 6, 8>>,
                          <<2, 3, 6, 7, 3, 2, 3, 4>>, <<2, 2, 3, 4>>, <<4, 3, 2, 3, 2, 3, 0>>}}
  \cup {Key(<<2>>, <<2, 3, 2>>), [project |-> <<1, 1>>, database |-> <<1>>, path |-> <<2, 3, 4>>]}

Scopes ==
  {[kind |-> "database", project |-> <<1>>, database |-> <<1>>]}
  \cup [kind : {"collection"}, project : {<<1>>}, database : {<<1>>}, collection : {<<2>>, <<2, 2>>}]
  \cup [kind : {"group"}, project : {<<1>>}, database : {<<1>>}, collection : {<<2>>},
        ancestor : {<<>>, <<2, 3, 6, 7>>}]

\* What is stored, and what is pending over it: a version, or a deletion.
StoredKeys == {ScanKeys \ {a} : a \in ScanKeys} \cup {ScanKeys, {}}
Pending == {[k \in {a, b} |-> IF k = a THEN 2 ELSE v] :
              a \in ScanKeys, b \in {Key(<<1>>, <<2, 3, 6, 7>>), Key(<<2>>, <<2, 3, 2>>)}, v \in {0, 3}}
InKeyOrder(K) ==
  Scans!InOrder(K, LAMBDA a, b : Scans!LessBytes(Scans!encode_document_key(a), Scans!encode_document_key(b)))

-----------------------------------------------------------------------------
(* Exports: the inputs.                                                     *)

One(v) == [n \in {1} |-> v]
ExportValues ==
  {[t |-> "null"], N("integer", 1), N("timestamp", -2000), N("timestamp", 1), N("double", 3),
   [t |-> "string", s |-> <<1>>], [t |-> "bytes", s |-> <<1>>], [t |-> "reference", database |-> 0, path |-> <<<<1, 2>>>>],
   [t |-> "reference", database |-> 3, path |-> <<<<1, 2>>>>],
   N("point", 1), [t |-> "vector", c |-> <<1, 2>>], [t |-> "vector", c |-> <<>>], MapOf(<<>>),
   MapOf(One(Arr(<<>>))), MapOf(One(Arr(<<N("integer", 1)>>))), Arr(<<>>), Arr(<<[t |-> "null"]>>),
   Arr(<<N("double", 1), MapOf(One(N("double", 1)))>>), Arr(<<Arr(<<>>)>>)}
Doc(db, path, fields, size) == [database |-> db, path |-> path, fields |-> fields, size |-> size]
ExportDocuments ==
  {<<Doc(0, <<<<1, 1>>>>, [n \in {1, 2} |-> IF n = 1 THEN v ELSE N("integer", 7)], 2),
     Doc(3, <<<<1, 1>>, <<2, 1>>>>, <<Arr(<<>>)>>, 4)>> : v \in ExportValues}
  \cup {<<Doc(0, <<<<1, 1>>>>, <<>>, s), Doc(0, <<<<1, 2>>>>, <<>>, r)>> : s \in 1..18, r \in {1, 5}}
  \cup {<<>>, [i \in 1..4 |-> Doc(0, <<<<1, i>>>>, <<>>, 3)]}
ExportDamages == [kind : {"none", "count", "sharded"}, n : {0}]
                 \cup [kind : {"cut", "zeroed", "changed", "overall"}, n : 1..7]

E == INSTANCE Export WITH BlockBytes <- 8, HeaderBytes <- 3, MaxRecordBytes <- 17,
                          Documents <- ExportDocuments, Damages <- ExportDamages,
                          BatchDocuments <- 2, BatchBytes <- 6

-----------------------------------------------------------------------------
(* Listings: the inputs.                                                    *)

ByKey(d) == <<[path |-> "key", direction |-> d]>>
ByField(d) == <<[path |-> "field", direction |-> d]>>
List(size, parent, collection, orders, missing, fixed) ==
  [size |-> size, parent |-> parent, collection |-> collection, orders |-> orders,
   missing |-> missing, fixed |-> fixed]

ListedNames ==
  [documents |-> {<<1, 1>>, <<1, 2>>, <<1, 3>>, <<2, 1>>, <<1, 2, 1, 1>>},
   collections |-> {<<1, 1>>, <<2, 1>>, <<3, 1>>, <<2, 1, 5, 1>>, <<2, 1, 6, 1>>},
   project |-> {<<1, 1>>, <<1, 2>>, <<1, 3>>, <<2, 1>>},
   topic |-> {<<1, 1>>, <<1, 2>>, <<1, 3>>},
   revisions |-> {<<1>>, <<2>>, <<3>>, <<4>>},
   objects |-> {<<1>>, <<1, 0, 1>>, <<1, 0, 2>>, <<1, 0, 3>>, <<1, 0, 2, 0, 1>>, <<2>>},
   accounts |-> {<<1, 1>>, <<1, 2>>, <<1, 3>>, <<2, 1>>},
   query |-> {<<1, 1>>, <<1, 2>>, <<1, 3>>, <<2, 1>>}]

ListRequests ==
  [documents |-> {List(1, <<>>, 1, o, m, f) :
                    o \in {<<>>, ByField(1), ByField(-1), ByKey(-1)}, m \in BOOLEAN, f \in BOOLEAN}
                 \cup {List(2, <<>>, 0, <<>>, m, FALSE) : m \in BOOLEAN}
                 \cup {List(1, <<>>, 0, ByKey(-1), FALSE, FALSE), List(0, <<1, 2>>, 1, <<>>, FALSE, FALSE)},
   collections |-> [size : {1, 2}, parent : {<<>>, <<2, 1>>}, fixed : BOOLEAN],
   project |-> [size : {0, 1, 2}, project : {1}, of : {"topics", "subscriptions", "snapshots", "schemas"}],
   topic |-> [size : {1, 2}, generation : {2}, of : {"subscriptions", "snapshots"}],
   revisions |-> [size : {1, 2}],
   objects |-> [size : {1, 2}, prefix : {<<>>, <<1, 0>>}, delimiter : BOOLEAN],
   accounts |-> [size : {-1, 0, 1, 2}, scope : {1}, descending : {FALSE}],
   query |-> [scope : {1}, descending : BOOLEAN]]

\* All items or all but one; documents with and without the field listed by.
ListStores ==
  [k \in DOMAIN ListedNames |->
     IF k = "documents"
     THEN {[x \in {<<1, 3>>, <<2, 1>>} \cup X |-> IF x = <<1, 1>> THEN v ELSE IF x = <<1, 2>> THEN w ELSE 1] :
             X \in SUBSET {<<1, 1>>, <<1, 2>>, <<1, 2, 1, 1>>}, v \in 0..2, w \in 1..2}
     ELSE IF k = "topic" THEN [ListedNames[k] -> {1, 2}]
     ELSE {[x \in ListedNames[k] \ {y} |-> 1] : y \in ListedNames[k] \cup {<<>>}}]

P == INSTANCE Listings WITH Universe <- ListedNames, Requests <- ListRequests, Stores <- ListStores,
                            Values <- 0..2, DefaultSize <- 100, LargestSize <- 1000

-----------------------------------------------------------------------------

NoExport ==
  /\ documents = <<>> /\ directory = <<>> /\ damage = <<>> /\ worker = <<>> /\ channel = <<>>
  /\ reader = <<>>
NoListing ==
  /\ kind = "none" /\ request = <<>> /\ store = <<>> /\ origin = <<>> /\ token = <<>>
  /\ listed = <<>> /\ walk = "none" /\ place = 0 /\ stable = {} /\ gone = FALSE /\ changes = 0

MCInit ==
  /\ input = <<>> /\ Init
  /\ \/ algorithm \in {"none", "streams"} /\ NoExport /\ NoListing
     \/ algorithm = "export" /\ E!Init /\ NoListing
     \/ algorithm = "listing" /\ P!Init /\ NoExport

StoreKeys == algorithm = "none" /\ \E K \in StoredKeys : Take("none", "stored", <<K>>)
Scan == /\ algorithm = "stored"
        /\ \E pending \in Pending, scope \in Scopes : Take("stored", "scan", <<scope, pending>> \o input)

FirstField == algorithm = "none" /\ \E first \in EncodedLeaves : Take("none", "document", <<first>>)
Lookup == /\ algorithm = "document"
          /\ \E fields \in DocumentsOf(input[1]), path \in Paths : Take("document", "field", <<fields, path>>)

FirstTerm == algorithm = "none" /\ \E t \in FilterTerms : Take("none", "term", <<t>>)
Filter == /\ algorithm = "term"
          /\ \E attributes \in Attributes :
               \/ Take("term", "filter", <<input, <<>>, attributes>>)
               \/ \E t \in [neg : {<<>>, <<"-">>}, atom : Some],
                     u \in [neg : {<<>>}, atom : Some] \cup [neg : {<<"-">>}, either : {Either}],
                     ops \in [1..2 -> {"AND", "OR"}] :
                    Take("term", "filter", <<input \o <<t, u>>, ops, attributes>>)
Schedule == algorithm = "none" /\ \E s \in ScheduleInputs, now \in Moments : Take("none", "schedule", <<s, now>>)

ExportStep == algorithm = "export" /\ E!Next /\ UNCHANGED <<algorithm, input, listing, vars>>
ListingStep == algorithm = "listing" /\ P!Next /\ UNCHANGED <<algorithm, input, export, vars>>
StreamStep == algorithm = "streams" /\ Next /\ UNCHANGED <<algorithm, input, export, listing>>

MCNext ==
  \/ TakeNext /\ UNCHANGED <<export, listing, vars>>
  \/ (StoreKeys \/ Scan \/ FirstField \/ Lookup \/ FirstTerm \/ Filter \/ Schedule)
     /\ UNCHANGED <<export, listing, vars>>
  \/ ExportStep \/ ListingStep \/ StreamStep

DecoderStep == algorithm = "export" /\ (E!Decode \/ E!Send) /\ UNCHANGED <<algorithm, input, listing, vars>>

MCSpec == MCInit /\ [][MCNext]_formatVars /\ WF_formatVars(DecoderStep)

-----------------------------------------------------------------------------

(* A scan of the disk backend shows the documents of its scope, in order:   *)
(* see ScanExact.  No two of the keys are the same numeric id spelled in    *)
(* two ways, which share an entry of the index.                             *)
ScansExact(a, x) == a = "scan" => Scans!ScanExact(x[1], InKeyOrder(x[3]), x[2])

(* A field read without decoding the document is the document's field: see  *)
(* FieldFound.                                                              *)
FieldsFound(a, x) == a = "field" => Lazy!FieldFound(x[1], x[2])

(* A subscription filter delivers the messages it describes: see            *)
(* FilterMeant.                                                             *)
FiltersMeant(a, x) == a = "filter" => Filtering!FilterMeant(x[1], x[2], x[3])

(* A scheduled function is fired when it is due: see TicksExact.            *)
SchedulesExact(a, x) == a = "schedule" => Cron!TicksExact(x[1], x[2])

(* An import that ends well has read what was exported: see ImportsExact.   *)
MCImportsExact == algorithm = "export" => E!ImportsExact

(* Dropping the reader of an export does not hang: see DropsEnd.            *)
DropsEnd ==
  (algorithm = "export" /\ reader.state = "dropped")
    ~> (algorithm = "export" /\ worker.state \in {"absent", "returned", "panicked"})

(* Pages add up to the listing: see PagesExact.                             *)
MCPagesExact == algorithm = "listing" => P!PagesExact

(* What is stored, exported, listed, filtered and scheduled is read back as *)
(* it was meant, by every step: ScansExact, FieldsFound, FiltersMeant,      *)
(* SchedulesExact, MCImportsExact and MCPagesExact (disk.rs, lazy.rs,       *)
(* filter.rs, scheduler.rs, export-format, the listings of each surface).   *)
FormatsExact ==
  [][/\ \A a \in {algorithm'}, x \in {input'} :
          ScansExact(a, x) /\ FieldsFound(a, x) /\ FiltersMeant(a, x) /\ SchedulesExact(a, x)
     /\ MCImportsExact' /\ MCPagesExact']_formatVars
=============================================================================
