----------------------------- MODULE RulesParser -----------------------------
(* The parser of the rules language (rules-engine/parser.rs), from tokens to *)
(* the syntax tree, and the printer that it must invert.                     *)
(*                                                                           *)
(* A token is [p] (punctuation), [id] (a word), [lit] (a number or string)   *)
(* or [path] (a match path already split into its segments).  A parse        *)
(* returns [v, i]: the tree, or Bad, and the place after it.                 *)
EXTENDS Integers, Sequences, FiniteSets, SequencesExt, FiniteSetsExt

P(s) == [p |-> s]
Id(s) == [id |-> s]
Word(s) == [lit |-> s]
Eof == P("eof")
Bad == [k |-> "bad"]

At(v, i) == [v |-> v, i |-> i]
Tok(ts, i) == IF i \in DOMAIN ts THEN ts[i] ELSE Eof
IsId(tok) == "id" \in DOMAIN tok

-----------------------------------------------------------------------------
(* Expressions, by binding power.                                            *)

\* <<left, right>> binding powers of an operator, <<>> if it is none.
binary_operator(tok) ==
  LET s == IF "p" \in DOMAIN tok THEN tok.p ELSE IF IsId(tok) THEN tok.id ELSE ""
  IN CASE s = "||" -> <<1, 2>>
       [] s = "&&" -> <<3, 4>>
       [] s \in {"in", "==", "!="} -> <<7, 8>>
       [] s \in {"<", "<=", ">", ">="} -> <<9, 10>>
       [] s \in {"+", "-"} -> <<11, 12>>
       [] s \in {"*", "/", "%"} -> <<13, 14>>
       [] OTHER -> <<>>

OperatorOf(tok) == IF IsId(tok) THEN tok.id ELSE tok.p

TypeNames == {"null", "bool", "int", "float", "number", "string", "list", "map",
              "timestamp", "duration", "path", "bytes", "latlng"}

RECURSIVE expression(_, _, _)

\* Expressions between commas up to the closing token; a list may end in a comma.
RECURSIVE Items(_, _, _, _)
Items(ts, i, close, got) ==
  LET e == expression(ts, i, 0)
      after == Tok(ts, e.i)
      items == Append(got, e.v)
  IN IF Tok(ts, i) = P(close) /\ (got = <<>> \/ close = "]") THEN At(got, i + 1)
     ELSE IF e.v = Bad THEN At(<<Bad>>, e.i)
     ELSE IF after = P(",") THEN Items(ts, e.i + 1, close, items)
     ELSE IF after = P(close) THEN At(items, e.i + 1)
     ELSE At(<<Bad>>, e.i)

Broken(s) == s = <<Bad>>

index_or_slice(ts, i, base) ==
  LET open == Tok(ts, i) = P(":")
      start == IF open THEN At(Bad, i) ELSE expression(ts, i, 0)
      colon == Tok(ts, start.i) = P(":")
      noEnd == Tok(ts, start.i + 1) = P("]")
      end == IF noEnd THEN At(Bad, start.i + 1) ELSE expression(ts, start.i + 1, 0)
      optional(x, absent) == IF absent THEN <<>> ELSE <<x>>
  IN IF ~open /\ start.v = Bad THEN At(Bad, start.i)
     ELSE IF colon
       THEN IF (~noEnd /\ end.v = Bad) \/ Tok(ts, end.i) /= P("]") THEN At(Bad, end.i)
            ELSE At([k |-> "slice", base |-> base, start |-> optional(start.v, open),
                     end |-> optional(end.v, noEnd)], end.i + 1)
     ELSE IF Tok(ts, start.i) /= P("]") THEN At(Bad, start.i)
     ELSE At([k |-> "index", base |-> base, index |-> start.v], start.i + 1)

\* The entries of a map literal; a comma may follow the last one.
RECURSIVE map(_, _, _)
map(ts, i, got) ==
  LET key == Tok(ts, i)
      e == expression(ts, i + 2, 0)
      after == Tok(ts, e.i)
      entries == Append(got, <<IF IsId(key) THEN key.id ELSE key.lit, e.v>>)
  IN IF key = P("}") THEN At(got, i + 1)
     ELSE IF ~(IsId(key) \/ "lit" \in DOMAIN key) \/ Tok(ts, i + 1) /= P(":") \/ e.v = Bad
       THEN At(<<Bad>>, e.i)
     ELSE IF after = P(",") THEN map(ts, e.i + 1, entries)
     ELSE IF after = P("}") THEN At(entries, e.i + 1)
     ELSE At(<<Bad>>, e.i)

Keywords == {"true", "false", "null"}

prefix(ts, i) ==
  LET tok == Tok(ts, i)
      operand == expression(ts, i + 1, 20)
      inner == expression(ts, i + 1, 0)
      items == Items(ts, i + 1, "]", <<>>)
      entries == map(ts, i + 1, <<>>)
  IN CASE IsId(tok) -> At(IF tok.id \in Keywords THEN [k |-> "lit", v |-> tok.id]
                          ELSE [k |-> "var", name |-> tok.id], i + 1)
       [] "path" \in DOMAIN tok -> At([k |-> "path", parts |-> tok.path], i + 1)
       [] "lit" \in DOMAIN tok -> At([k |-> "lit", v |-> tok.lit], i + 1)
       [] tok \in {P("!"), P("-")} ->
            At(IF operand.v = Bad THEN Bad
               ELSE [k |-> "unary", op |-> tok.p, operand |-> operand.v], operand.i)
       [] tok = P("(") ->
            IF inner.v = Bad \/ Tok(ts, inner.i) /= P(")") THEN At(Bad, inner.i)
            ELSE At(inner.v, inner.i + 1)
       [] tok = P("[") -> At(IF Broken(items.v) THEN Bad
                             ELSE [k |-> "list", es |-> items.v], items.i)
       [] tok = P("{") -> At(IF Broken(entries.v) THEN Bad
                             ELSE [k |-> "map", entries |-> entries.v], entries.i)
       [] OTHER -> At(Bad, i + 1)

\* The loop of expression: postfix forms first, then "is", then an operator
\* that binds at least as tightly as asked.
RECURSIVE Continue(_, _, _)
Continue(ts, left, min) ==
  LET tok == Tok(ts, left.i)
      next == Tok(ts, left.i + 1)
      powers == binary_operator(tok)
      right == expression(ts, left.i + 1, powers[2])
      args == Items(ts, left.i + 1, ")", <<>>)
  IN CASE left.v = Bad -> left
       [] left.v /= Bad /\ tok = P(".") ->
            IF IsId(next)
              THEN Continue(ts, At([k |-> "field", base |-> left.v, name |-> next.id],
                                   left.i + 2), min)
              ELSE At(Bad, left.i + 2)
       [] left.v /= Bad /\ tok = P("(") ->
            IF Broken(args.v) THEN At(Bad, args.i)
            ELSE Continue(ts, At([k |-> "call", callee |-> left.v, args |-> args.v],
                                 args.i), min)
       [] left.v /= Bad /\ tok = P("[") ->
            Continue(ts, index_or_slice(ts, left.i + 1, left.v), min)
       [] left.v /= Bad /\ tok = Id("is") ->
            IF 8 < min THEN left
            ELSE IF IsId(next) /\ (IsId(next) => next.id \in TypeNames)
              THEN Continue(ts, At([k |-> "is", value |-> left.v, type |-> next.id],
                                   left.i + 2), min)
              ELSE At(Bad, left.i + 2)
       [] OTHER -> IF powers = <<>> THEN left
                   ELSE IF powers[1] < min THEN left
                   ELSE IF right.v = Bad THEN right
                   ELSE Continue(ts, At([k |-> "binary", op |-> OperatorOf(tok),
                                         l |-> left.v, r |-> right.v], right.i), min)

expression(ts, i, min) == Continue(ts, prefix(ts, i), min)

-----------------------------------------------------------------------------
(* Declarations.  A parse that went wrong keeps Bad as its value.            *)

Packages == {"duration", "hashing", "latlng", "math", "timestamp"}

validate_binding(name) == name \notin Packages

\* A match path: no reserved wildcard, at most one recursive one.
parse_pattern(segments) ==
  /\ \A i \in DOMAIN segments : segments[i].kind /= "lit" => validate_binding(segments[i].name)
  /\ Cardinality({i \in DOMAIN segments : segments[i].kind = "many"}) <= 1

Wildcards(segments) == {segments[i].name : i \in {j \in DOMAIN segments :
                                                    segments[j].kind /= "lit"}}

Expect(ts, x, tok) == IF x.v = Bad \/ Tok(ts, x.i) /= tok THEN At(Bad, x.i)
                      ELSE At(x.v, x.i + 1)

Methods == {"get", "list", "read", "create", "update", "delete", "write"}

\* Words between commas: the methods of an allow, or names to bind.
RECURSIVE Names(_, _, _, _)
Names(ts, i, got, methods) ==
  LET tok == Tok(ts, i)
  IN IF ~IsId(tok) THEN At(<<Bad>>, i + 1)
     ELSE IF ~(IF methods THEN tok.id \in Methods ELSE validate_binding(tok.id))
       THEN At(<<Bad>>, i + 1)
     ELSE IF Tok(ts, i + 1) = P(",") THEN Names(ts, i + 2, Append(got, tok.id), methods)
     ELSE At(Append(got, tok.id), i + 1)

\* The let bindings before the return of a function.
RECURSIVE Lets(_, _, _)
Lets(ts, i, got) ==
  LET name == Tok(ts, i + 1)
      value == expression(ts, i + 3, 0)
  IN IF Tok(ts, i) /= Id("let") THEN At(got, i)
     ELSE IF ~IsId(name) \/ Tok(ts, i + 2) /= P("=") \/ value.v = Bad
               \/ Tok(ts, value.i) /= P(";") THEN At(<<Bad>>, value.i)
     ELSE IF ~validate_binding(name.id) \/ \E j \in DOMAIN got : got[j][1] = name.id
       THEN At(<<Bad>>, value.i)
     ELSE Lets(ts, value.i + 1, Append(got, <<name.id, value.v>>))

\* From the word "function"; scope is the set of wildcards around it.
function(ts, i, scope) ==
  LET name == Tok(ts, i + 1)
      none == Tok(ts, i + 3) = P(")")
      params == IF none THEN At(<<>>, i + 3) ELSE Names(ts, i + 3, <<>>, FALSE)
      lets == Lets(ts, params.i + 2, <<>>)
      result == expression(ts, lets.i + 1, 0)
  IN IF ~IsId(name) \/ Tok(ts, i + 2) /= P("(") \/ Broken(params.v)
        \/ Tok(ts, params.i) /= P(")") \/ Tok(ts, params.i + 1) /= P("{")
        \/ Broken(lets.v) \/ Tok(ts, lets.i) /= Id("return") THEN At(Bad, i)
     ELSE IF Cardinality(ToSet(params.v)) < Len(params.v) THEN At(Bad, i)
     ELSE Expect(ts, Expect(ts, At(IF result.v = Bad THEN Bad
                                   ELSE [k |-> "function", name |-> name.id,
                                         params |-> params.v, lets |-> lets.v,
                                         result |-> result.v, scope |-> scope], result.i),
                            P(";")), P("}"))

Expanded(method) == CASE method = "read" -> {"get", "list"}
                      [] method = "write" -> {"create", "update", "delete"}
                      [] OTHER -> {method}

\* From the word "allow"; without a condition it always grants, and the last
\* one of a block may leave out its semicolon.
allow(ts, i) ==
  LET methods == Names(ts, i + 1, <<>>, TRUE)
      conditional == Tok(ts, methods.i) = P(":")
      condition == IF conditional THEN expression(ts, methods.i + 2, 0)
                   ELSE At([k |-> "lit", v |-> "true"], methods.i)
      made == At(IF Broken(methods.v) \/ condition.v = Bad
                    \/ (conditional /\ Tok(ts, methods.i + 1) /= Id("if")) THEN Bad
                 ELSE [k |-> "allow", condition |-> condition.v,
                       ops |-> UNION {Expanded(m) : m \in ToSet(methods.v)}], condition.i)
  IN IF Tok(ts, condition.i) = P("}") THEN made ELSE Expect(ts, made, P(";"))

\* The declarations of a block up to its closing brace, in order.
RECURSIVE Declarations(_, _, _, _, _)
Declarations(ts, i, scope, inMatch, got) ==
  LET tok == Tok(ts, i)
      segments == Tok(ts, i + 1)
      body == Declarations(ts, i + 3, scope \cup Wildcards(segments.path), TRUE, <<>>)
      one == CASE tok = Id("function") -> function(ts, i, scope)
               [] tok = Id("allow") -> IF inMatch THEN allow(ts, i) ELSE At(Bad, i)
               [] tok = Id("match") ->
                    IF "path" \notin DOMAIN segments THEN At(Bad, i)
                    ELSE IF ~parse_pattern(segments.path) \/ Tok(ts, i + 2) /= P("{")
                            \/ Broken(body.v) THEN At(Bad, i)
                    ELSE At([k |-> "match", pattern |-> segments.path, body |-> body.v],
                            body.i)
               [] OTHER -> At(Bad, i)
      twice == \E j \in DOMAIN got : /\ got[j].k = "function" /\ one.v.k = "function"
                                     /\ got[j].name = one.v.name
  IN IF tok = P("}") THEN At(got, i + 1)
     ELSE IF one.v = Bad THEN At(<<Bad>>, one.i)
     ELSE IF twice THEN At(<<Bad>>, one.i)
     ELSE Declarations(ts, one.i, scope, inMatch, Append(got, one.v))

\* "rules_version = '2'" is optional for storage only, its semicolon always.
program(ts) ==
  LET versioned == Tok(ts, 1) = Id("rules_version")
      semicolon == Tok(ts, 4) = P(";")
      i == IF versioned THEN IF semicolon THEN 5 ELSE 4 ELSE 1
      service == SubSeq(ts, i, i + 4)
      storage == service = <<Id("service"), Id("firebase"), P("."), Id("storage"), P("{")>>
      firestore == service = <<Id("service"), Id("cloud"), P("."), Id("firestore"), P("{")>>
      body == Declarations(ts, i + 5, {}, FALSE, <<>>)
  IN IF \/ versioned /\ (Tok(ts, 2) /= P("=") \/ Tok(ts, 3) /= Word("2"))
        \/ ~(storage \/ (firestore /\ versioned))
        \/ Broken(body.v) \/ body.i <= Len(ts) THEN Bad
     ELSE IF ~\E j \in DOMAIN body.v : body.v[j].k = "match" THEN Bad
     ELSE [k |-> "program", storage |-> storage, version |-> IF versioned THEN 2 ELSE 1,
           body |-> body.v]

-----------------------------------------------------------------------------
(* Functions may not call each other in a cycle, nor too deep (lib.rs).      *)

RECURSIVE collect_direct_calls(_)
collect_direct_calls(e) ==
  CASE e.k = "call" -> (IF e.callee.k = "var" THEN {e.callee.name} ELSE {})
                       \cup collect_direct_calls(e.callee)
                       \cup UNION {collect_direct_calls(e.args[i]) : i \in DOMAIN e.args}
    [] e.k = "list" -> UNION {collect_direct_calls(e.es[i]) : i \in DOMAIN e.es}
    [] e.k = "map" -> UNION {collect_direct_calls(e.entries[i][2]) : i \in DOMAIN e.entries}
    [] e.k = "field" -> collect_direct_calls(e.base)
    [] e.k = "index" -> collect_direct_calls(e.base) \cup collect_direct_calls(e.index)
    [] e.k = "slice" -> collect_direct_calls(e.base)
                        \cup UNION {collect_direct_calls(x) : x \in ToSet(e.start \o e.end)}
    [] e.k = "path" -> UNION {collect_direct_calls(e.parts[i].value) :
                                i \in {j \in DOMAIN e.parts : e.parts[j].kind = "eval"}}
    [] e.k = "unary" -> collect_direct_calls(e.operand)
    [] e.k = "binary" -> collect_direct_calls(e.l) \cup collect_direct_calls(e.r)
    [] e.k = "is" -> collect_direct_calls(e.value)
    [] OTHER -> {}

\* The longest chain of calls below a function, 0 where a cycle is met.
RECURSIVE function_depth(_, _, _)
function_depth(name, graph, visiting) ==
  LET below == {function_depth(g, graph, visiting \cup {name}) : g \in graph[name]}
  IN IF name \in visiting \/ 0 \in below THEN 0 ELSE 1 + Max(below \cup {0})

call_graph(fns) ==
  LET names == {f.name : f \in fns}
      calls(f) == UNION {collect_direct_calls(f.lets[i][2]) : i \in DOMAIN f.lets}
                  \cup collect_direct_calls(f.result)
  IN [n \in names |-> names \cap calls(CHOOSE f \in fns : f.name = n)]

validate_function_map(fns, depth) ==
  LET graph == call_graph(fns)
  IN \A n \in DOMAIN graph : function_depth(n, graph, {}) \in 1..depth + 1

FunctionsOf(body) == {d \in ToSet(body) : d.k = "function"}

\* Only functions of one block are held against each other.
RECURSIVE validate_functions(_, _)
validate_functions(body, depth) ==
  /\ validate_function_map(FunctionsOf(body), depth)
  /\ \A d \in ToSet(body) : d.k = "match" => validate_functions(d.body, depth)

\* The tree of a source that is accepted.
compile(ts, depth) ==
  LET p == program(ts)
  IN IF p = Bad THEN Bad ELSE IF validate_functions(p.body, depth) THEN p ELSE Bad

-----------------------------------------------------------------------------
(* The printer: a tree as tokens, with the parentheses the language needs.   *)

Strength(e) == CASE e.k = "binary" -> CASE e.op = "||" -> 1 [] e.op = "&&" -> 3
                                        [] e.op \in {"==", "!=", "in"} -> 7
                                        [] e.op \in {"<", "<=", ">", ">="} -> 9
                                        [] e.op \in {"+", "-"} -> 11
                                        [] OTHER -> 13
                 [] e.k = "is" -> 8
                 [] e.k = "unary" -> 20
                 [] OTHER -> 40

RECURSIVE Show(_, _)
Show(e, need) ==
  LET body == CASE e.k = "var" -> <<Id(e.name)>>
                [] e.k = "lit" -> <<IF e.v \in Keywords THEN Id(e.v) ELSE Word(e.v)>>
                [] e.k = "unary" -> <<P(e.op)>> \o Show(e.operand, 20)
                [] e.k = "binary" ->
                     Show(e.l, Strength(e)) \o <<IF e.op = "in" THEN Id("in") ELSE P(e.op)>>
                     \o Show(e.r, Strength(e) + 1)
                [] e.k = "is" -> Show(e.value, 8) \o <<Id("is"), Id(e.type)>>
                [] e.k = "field" -> Show(e.base, 30) \o <<P("."), Id(e.name)>>
                [] e.k = "index" -> Show(e.base, 30) \o <<P("[")>> \o Show(e.index, 0) \o <<P("]")>>
                [] e.k = "list" -> <<P("[")>> \o FlattenSeq([i \in DOMAIN e.es |->
                     Show(e.es[i], 0) \o <<P(",")>>]) \o <<P("]")>>
                [] e.k = "slice" -> Show(e.base, 30) \o <<P("[")>>
                     \o (IF e.start = <<>> THEN <<>> ELSE Show(e.start[1], 0)) \o <<P(":")>>
                     \o (IF e.end = <<>> THEN <<>> ELSE Show(e.end[1], 0)) \o <<P("]")>>
                [] e.k = "map" -> <<P("{")>> \o FlattenSeq([i \in DOMAIN e.entries |->
                     (IF i = 1 THEN <<>> ELSE <<P(",")>>) \o <<Id(e.entries[i][1]), P(":")>>
                     \o Show(e.entries[i][2], 0)]) \o <<P("}")>>
                [] e.k = "call" -> Show(e.callee, 30) \o <<P("(")>>
                     \o FlattenSeq([i \in DOMAIN e.args |->
                          (IF i = 1 THEN <<>> ELSE <<P(",")>>) \o Show(e.args[i], 0)]) \o <<P(")")>>
  IN IF Strength(e) < need THEN <<P("(")>> \o body \o <<P(")")>> ELSE body

Commas(words) == FlattenSeq([i \in DOMAIN words |->
                   (IF i = 1 THEN <<>> ELSE <<P(",")>>) \o <<Id(words[i])>>])

RECURSIVE ShowDeclaration(_)
ShowDeclaration(d) ==
  CASE d.k = "allow" -> <<Id("allow")>> \o Commas(SetToSeq(d.ops)) \o <<P(":"), Id("if")>>
                        \o Show(d.condition, 0) \o <<P(";")>>
    [] d.k = "function" ->
         <<Id("function"), Id(d.name), P("(")>> \o Commas(d.params) \o <<P(")"), P("{")>>
         \o FlattenSeq([i \in DOMAIN d.lets |-> <<Id("let"), Id(d.lets[i][1]), P("=")>>
                                              \o Show(d.lets[i][2], 0) \o <<P(";")>>])
         \o <<Id("return")>> \o Show(d.result, 0) \o <<P(";"), P("}")>>
    [] d.k = "match" -> <<Id("match"), [path |-> d.pattern], P("{")>>
                        \o FlattenSeq([i \in DOMAIN d.body |-> ShowDeclaration(d.body[i])])
                        \o <<P("}")>>

ShowProgram(body) ==
  <<Id("rules_version"), P("="), Word("2"), P(";"), Id("service"), Id("cloud"), P("."),
    Id("firestore"), P("{")>>
  \o FlattenSeq([i \in DOMAIN body |-> ShowDeclaration(body[i])]) \o <<P("}")>>

\* The wildcards around each function, filled in from the tree itself.
RECURSIVE Scoped(_, _)
Scoped(body, scope) ==
  [i \in DOMAIN body |->
     CASE body[i].k = "function" -> [body[i] EXCEPT !.scope = scope]
       [] body[i].k = "match" ->
            [body[i] EXCEPT !.body = Scoped(@, scope \cup Wildcards(body[i].pattern))]
       [] OTHER -> body[i]]

\* Some chain of calls within a block is too long; a cycle has any length.
RECURSIVE TooDeep(_, _)
TooDeep(body, depth) ==
  LET graph == call_graph(FunctionsOf(body))
  IN \/ \E w \in [1..depth + 2 -> DOMAIN graph] :
          \A i \in 1..depth + 1 : w[i + 1] \in graph[w[i]]
     \/ \E d \in ToSet(body) : d.k = "match" /\ TooDeep(d.body, depth)

(* What is printed compiles back to the same tree, whatever the nesting of   *)
(* operators and of blocks, unless its functions call each other too deep;   *)
(* a function's scope is the wildcards of the blocks around it and of no     *)
(* block closed before it.                                                   *)
RoundTrip(body, depth) ==
  compile(ShowProgram(body), depth) =
    IF TooDeep(body, depth) THEN Bad
    ELSE [k |-> "program", storage |-> FALSE, version |-> 2, body |-> Scoped(body, {})]
=============================================================================
