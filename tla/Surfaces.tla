------------------------------ MODULE Surfaces ------------------------------
(* The two front doors to the document store: gRPC (grpc-front: codec.rs,   *)
(* query_codec.rs, the unary handlers of service.rs) and REST (rest-front). *)
(* The same request reaches the store through either, decoded by two        *)
(* independent codecs, and is answered through three JSON encoders.         *)
(*                                                                          *)
(* A protobuf value is a stored value without vectors, which travel as maps *)
(* with a reserved type field.  A JSON value is a record whose field "j" is *)
(* the name of its kind; numbers sent as text and instants sent as RFC 3339 *)
(* have fields of their own.  Optional results are <<x>> and <<>>; the      *)
(* components of vectors are finite.                                        *)
EXTENDS DocumentWrites

CONSTANTS
  RfcLimit,   \* instants beyond it have no RFC 3339 form
  Micro,      \* nanoseconds in a microsecond
  MaxAge,     \* MAX_AGE_SECONDS, in nanoseconds
  MaxAggregations, MaxDimension, MaxNearest   \* limits on queries

LOCAL Q == INSTANCE QueryEngine

TypeName == 8
ValueName == 9
VectorType == [t |-> "string", s |-> <<9>>]

All(s) == IF \E i \in DOMAIN s : s[i] = <<>> THEN <<>>
          ELSE <<[i \in DOMAIN s |-> s[i][1]]>>

-----------------------------------------------------------------------------
(* Values over gRPC.                                                        *)

decode_map_value(fields) ==
  IF TypeName \notin DOMAIN fields THEN <<MapOf(fields)>>
  ELSE IF fields[TypeName] /= VectorType THEN <<MapOf(fields)>>
  ELSE IF ValueName \notin DOMAIN fields THEN <<>>
  ELSE IF fields[ValueName].t /= "array" THEN <<>>
  ELSE LET a == fields[ValueName].a
       IN IF \E i \in DOMAIN a : a[i].t /= "double" THEN <<>>
          ELSE <<[t |-> "vector", a |-> [i \in DOMAIN a |-> a[i].h]]>>

decode_timestamp(w) == IF w.n < 0 THEN <<>> ELSE <<w>>

RECURSIVE grpc_decode_value(_)
grpc_decode_fields(m) == All([f \in DOMAIN m |-> grpc_decode_value(m[f])])
grpc_decode_value(w) ==
  CASE w.t = "time" -> decode_timestamp(w)
    [] w.t = "array" -> LET es == All([i \in DOMAIN w.a |-> grpc_decode_value(w.a[i])])
                        IN IF es = <<>> THEN <<>> ELSE <<[w EXCEPT !.a = es[1]]>>
    [] w.t = "map" -> LET fs == grpc_decode_fields(w.m)
                      IN IF fs = <<>> THEN <<>> ELSE decode_map_value(fs[1])
    [] w.t \in {"expression", "unset"} -> <<>>
    [] OTHER -> <<w>>

RECURSIVE grpc_encode_value(_)
grpc_encode_fields(m) == [f \in DOMAIN m |-> grpc_encode_value(m[f])]
grpc_encode_value(v) ==
  CASE v.t = "array" -> [v EXCEPT !.a = [i \in DOMAIN v.a |-> grpc_encode_value(v.a[i])]]
    [] v.t = "map" -> MapOf(grpc_encode_fields(v.m))
    [] v.t = "vector" ->
         MapOf([f \in {TypeName, ValueName} |->
                 IF f = TypeName THEN VectorType
                 ELSE [t |-> "array",
                       a |-> [i \in DOMAIN v.a |-> [t |-> "double", h |-> v.a[i]]]]])
    [] OTHER -> v

-----------------------------------------------------------------------------
(* Values over REST.                                                        *)

Number(h) == [j |-> "number", h |-> h]
Absent == [j |-> "absent"]

\* serde_json has no NaN: a number that is one becomes null.
JsonNumber(d) == IF d.t = "nan" THEN [j |-> "nothing"] ELSE Number(d.h)

encode_double_value(d) == IF d.t = "nan" THEN [j |-> "double", word |-> "NaN"]
                          ELSE [j |-> "double", number |-> Number(d.h)]

format_timestamp(n) == IF n > RfcLimit THEN <<>>
                       ELSE <<[j |-> "time", rfc |-> n, zone |-> "Z"]>>

RECURSIVE rest_encode_value(_)
rest_encode_fields(m) == All([f \in DOMAIN m |-> rest_encode_value(m[f])])
rest_encode_value(v) ==
  CASE v.t = "int" -> <<[j |-> "int", digits |-> v.n]>>
    [] IsDouble(v) -> <<encode_double_value(v)>>
    [] v.t = "time" -> format_timestamp(v.n)
    [] v.t = "bytes" -> <<[j |-> "bytes", base64 |-> v.s]>>
    [] v.t = "point" -> <<[j |-> "point", lat |-> JsonNumber(v.lat), lon |-> JsonNumber(v.lon)]>>
    [] v.t = "array" -> LET es == All([i \in DOMAIN v.a |-> rest_encode_value(v.a[i])])
                        IN IF es = <<>> THEN <<>> ELSE <<[j |-> "array", a |-> es[1]]>>
    [] v.t = "map" -> LET fs == rest_encode_fields(v.m)
                      IN IF fs = <<>> THEN <<>> ELSE <<[j |-> "map", m |-> fs[1]]>>
    [] v.t = "vector" ->
         <<[j |-> "map", m |-> [f \in {TypeName, ValueName} |->
              IF f = TypeName THEN [j |-> "string", v |-> VectorType]
              ELSE [j |-> "array", a |-> [i \in DOMAIN v.a |->
                      encode_double_value([t |-> "double", h |-> v.a[i]])]]]]>>
    [] OTHER -> <<[j |-> v.t, v |-> v]>>

decode_special_map(fields) ==
  IF TypeName \notin DOMAIN fields THEN <<MapOf(fields)>>
  ELSE IF fields[TypeName] /= VectorType THEN <<MapOf(fields)>>
  ELSE IF ValueName \notin DOMAIN fields THEN <<>>
  ELSE IF fields[ValueName].t /= "array" THEN <<>>
  ELSE LET a == fields[ValueName].a
       IN IF \E i \in DOMAIN a : a[i].t /= "double" THEN <<>>
          ELSE <<[t |-> "vector", a |-> [i \in DOMAIN a |-> a[i].h]]>>

parse_integer(x) == IF x.digits \in -IntLimit..IntLimit - 1
                      THEN <<[t |-> "int", n |-> x.digits]>> ELSE <<>>

parse_double(x) ==
  IF "number" \in DOMAIN x
    THEN IF x.number.j = "number" THEN <<[t |-> "double", h |-> x.number.h]>> ELSE <<>>
  ELSE IF x.word = "NaN" THEN <<[t |-> "nan"]>> ELSE <<>>

parse_timestamp(x) == <<[t |-> "time", n |-> x.rfc]>>

number_field(c) == IF c.j = "number" THEN <<[t |-> "double", h |-> c.h]>> ELSE <<>>

RECURSIVE rest_decode_value(_)
rest_decode_fields(m) == All([f \in DOMAIN m |-> rest_decode_value(m[f])])
rest_decode_value(x) ==
  CASE x.j = "int" -> parse_integer(x)
    [] x.j = "double" -> parse_double(x)
    [] x.j = "time" -> parse_timestamp(x)
    [] x.j = "bytes" -> <<[t |-> "bytes", s |-> x.base64]>>
    [] x.j = "point" ->
         LET lat == number_field(x.lat)
             lon == number_field(x.lon)
         IN IF lat = <<>> \/ lon = <<>> THEN <<>>
            ELSE <<[t |-> "point", lat |-> lat[1], lon |-> lon[1]]>>
    [] x.j = "array" -> LET es == All([i \in DOMAIN x.a |-> rest_decode_value(x.a[i])])
                        IN IF es = <<>> THEN <<>> ELSE <<[t |-> "array", a |-> es[1]]>>
    [] x.j = "map" -> LET fs == rest_decode_fields(x.m)
                      IN IF fs = <<>> THEN <<>> ELSE decode_special_map(fs[1])
    [] x.j \in {"unset", "expression"} -> <<>>
    [] OTHER -> <<x.v>>

-----------------------------------------------------------------------------
(* A protobuf answer sent as JSON: what the generated serializer makes of a *)
(* value, and the spelling read_json puts over it.                          *)

\* External (pbjson): zero coordinates are defaults and left out.
RECURSIVE Serialized(_)
Serialized(w) ==
  CASE w.t = "null" -> [j |-> "enum"]
    [] w.t = "int" -> [j |-> "int", digits |-> w.n]
    [] IsDouble(w) -> [j |-> "double", number |-> JsonNumber(w)]
    [] w.t = "time" -> [j |-> "time", rfc |-> w.n, zone |-> "+00:00"]
    [] w.t = "bytes" -> [j |-> "bytes", base64 |-> w.s]
    [] w.t = "point" ->
         LET coordinate(d) == IF d = [t |-> "double", h |-> 0] THEN Absent ELSE JsonNumber(d)
         IN [j |-> "point", lat |-> coordinate(w.lat), lon |-> coordinate(w.lon)]
    [] w.t = "array" -> [j |-> "array", a |-> [i \in DOMAIN w.a |-> Serialized(w.a[i])]]
    [] w.t = "map" -> [j |-> "map", m |-> [f \in DOMAIN w.m |-> Serialized(w.m[f])]]
    [] OTHER -> [j |-> w.t, v |-> w]

utc(x) == format_timestamp(x.rfc)

RECURSIVE read_json_value(_)
read_json_fields(m) == All([f \in DOMAIN m |-> read_json_value(m[f])])
read_json_value(w) ==
  CASE w.t = "null" -> <<[j |-> "null", v |-> w]>>
    [] IsDouble(w) -> <<encode_double_value(w)>>
    [] w.t = "time" -> utc(Serialized(w))
    [] w.t = "map" -> LET fs == read_json_fields(w.m)
                      IN IF fs = <<>> THEN <<>> ELSE <<[j |-> "map", m |-> fs[1]]>>
    [] w.t = "array" -> LET es == All([i \in DOMAIN w.a |-> read_json_value(w.a[i])])
                        IN IF es = <<>> THEN <<>> ELSE <<[j |-> "array", a |-> es[1]]>>
    [] OTHER -> <<Serialized(w)>>

\* A document read by REST.
read_json_document(document) == read_json_fields(grpc_encode_fields(document.fields))

-----------------------------------------------------------------------------
(* Read times.                                                              *)

encode_system_read_time(n) == n - (n % Micro)

\* "retained", "expired" or "invalid".
classify_read_time_with_precision(n, current, allow_nanoseconds) ==
  IF n < 0 THEN "invalid"
  ELSE IF ~allow_nanoseconds /\ n % Micro /= 0 THEN "invalid"
  ELSE IF n > current THEN "invalid"
  ELSE IF n < current - MaxAge THEN "expired" ELSE "retained"

decode_read_time(n, current) ==
  IF classify_read_time_with_precision(n, current, FALSE) = "retained" THEN <<n>> ELSE <<>>

-----------------------------------------------------------------------------
(* Writes.  A request is [op, key, fields, mask, transforms, own, pre]: the *)
(* mask and the precondition are optional, "transforms" follow an update    *)
(* and "own" are those of a transform.  A path <<>> is the document's name. *)

NoPrecondition == [k |-> "none"]

\* The operand of a transform, decoded; <<>> is kept for the refused ones.
DecodedOperand(x, rest) ==
  LET decode(v) == IF rest THEN rest_decode_value(v) ELSE grpc_decode_value(v) IN
  CASE x.op = "time" -> <<x.value>>
    [] x.op \in Numeric -> decode(x.value)
    [] x.op \in {"union", "remove"} -> All([i \in DOMAIN x.value |-> decode(x.value[i])])
    [] x.op = "unset" -> <<>>

grpc_decode_transforms(ts) ==
  All([i \in DOMAIN ts |->
         LET operand == DecodedOperand(ts[i], FALSE)
         IN IF ts[i].path = <<>> \/ operand = <<>> THEN <<>>
            ELSE <<[ts[i] EXCEPT !.value = operand[1]]>>])

\* Exactly one operation; array operands without values are empty.
rest_decode_transform(x) ==
  LET operand == DecodedOperand(x, TRUE)
  IN IF x.path = <<>> \/ operand = <<>> THEN <<>> ELSE <<[x EXCEPT !.value = operand[1]]>>

rest_decode_transforms(ts) == All([i \in DOMAIN ts |-> rest_decode_transform(ts[i])])

decode_field_paths(mask) == \A i \in DOMAIN mask : mask[i] /= <<>>

grpc_decode_precondition(pre) ==
  IF pre = <<>> THEN <<NoPrecondition>>
  ELSE IF pre[1].k = "time" /\ pre[1].n < 0 THEN <<>> ELSE pre

\* JSON may name both conditions, which is refused.
decode_json_precondition(pre) ==
  IF pre = <<>> THEN <<NoPrecondition>> ELSE IF pre[1].k = "both" THEN <<>> ELSE pre

StoreWrite(op, w, fields, mask, transforms, pre) ==
  [op |-> op, key |-> w.key, fields |-> fields, mask |-> mask, transforms |-> transforms,
   pre |-> pre]

reject_update_only_fields(w) == w.mask /= <<>> \/ w.transforms /= <<>>

grpc_decode_write(w) ==
  LET pre == grpc_decode_precondition(w.pre)
      transforms == grpc_decode_transforms(w.transforms)
      own == grpc_decode_transforms(w.own)
      fields == grpc_decode_fields(w.fields)
  IN IF pre = <<>> \/ transforms = <<>> THEN <<>>
     ELSE CASE w.op = "update" ->
                 IF fields = <<>> THEN <<>>
                 ELSE IF w.mask /= <<>>
                   THEN IF ~decode_field_paths(w.mask[1]) THEN <<>>
                        ELSE <<StoreWrite("patch", w, fields[1], w.mask[1], transforms[1], pre[1])>>
                 ELSE IF transforms[1] = <<>> /\ pre[1] = [k |-> "exists", b |-> FALSE]
                   THEN <<StoreWrite("create", w, fields[1], <<>>, <<>>, NoPrecondition)>>
                 ELSE <<StoreWrite("set", w, fields[1], <<>>, transforms[1], pre[1])>>
            [] w.op = "delete" ->
                 IF reject_update_only_fields(w) THEN <<>>
                 ELSE <<StoreWrite("delete", w, <<>>, <<>>, <<>>, pre[1])>>
            [] w.op = "transform" ->
                 IF reject_update_only_fields(w) \/ own = <<>> THEN <<>>
                 ELSE <<StoreWrite("patch", w, <<>>, <<>>, own[1], pre[1])>>
            [] w.op \in {"verify", "none"} -> <<>>

rest_decode_write(w) ==
  LET pre == decode_json_precondition(w.pre)
      transforms == rest_decode_transforms(w.transforms)
      own == rest_decode_transforms(w.own)
      fields == rest_decode_fields(w.fields)
  IN IF pre = <<>> THEN <<>>
     ELSE CASE w.op = "update" ->
                 IF fields = <<>> \/ transforms = <<>> THEN <<>>
                 ELSE IF w.mask /= <<>>
                   THEN IF ~decode_field_paths(w.mask[1]) THEN <<>>
                        ELSE <<StoreWrite("patch", w, fields[1], w.mask[1], transforms[1], pre[1])>>
                 ELSE <<StoreWrite("set", w, fields[1], <<>>, transforms[1], pre[1])>>
            [] w.op = "transform" ->
                 IF own = <<>> THEN <<>>
                 ELSE <<StoreWrite("patch", w, <<>>, <<>>, own[1], pre[1])>>
            [] w.op \in {"delete", "verify"} ->
                 <<StoreWrite(w.op, w, <<>>, <<>>, <<>>, pre[1])>>
            [] w.op = "none" -> <<>>

validate_commit_write_sequence(writes) ==
  \A i, l \in DOMAIN writes :
    ~ /\ i < l
      /\ writes[i].op = "delete" /\ writes[l].op \in {"set", "patch"}
      /\ writes[i].key = writes[l].key
      /\ writes[l].pre = [k |-> "exists", b |-> TRUE]

-----------------------------------------------------------------------------
(* Commits.  A reply is [code, documents, answers]; an answer is            *)
(* [updated, results].  Rules allow the writes: Transactions has them.      *)

commit_status(err) ==
  CASE err \in {"exists", "present"} -> "ALREADY_EXISTS"
    [] err = "absent" -> "NOT_FOUND"
    [] err = "time" -> "FAILED_PRECONDITION"
    [] err = "operand" -> "INVALID_ARGUMENT"

rest_commit_error(err) ==
  CASE err = "exists" -> "ALREADY_EXISTS"
    [] err = "absent" -> "NOT_FOUND"
    [] err \in {"present", "time"} -> "FAILED_PRECONDITION"
    [] err = "operand" -> "INVALID_ARGUMENT"

\* Codes REST passes on from the gRPC service; the rest become INTERNAL.
listing_status(code) ==
  IF code \in {"", "INVALID_ARGUMENT", "NOT_FOUND", "FAILED_PRECONDITION"} THEN code
  ELSE "INTERNAL"

\* Read from the document as the whole commit left it.
TransformResult(transform, fields, time) ==
  CASE transform.op \in {"union", "remove"} -> <<[t |-> "null"]>>
    [] transform.op = "time" -> <<[t |-> "time", n |-> time]>>
    [] transform.op \in Numeric -> nested_value(fields, transform.path)

transform_result(transform, document, time) ==
  LET r == TransformResult(transform, IF document = <<>> THEN <<>> ELSE document[1].fields, time)
  IN IF r = <<>> THEN <<>> ELSE <<grpc_encode_value(r[1])>>

encode_transform_result(transform, document, time) ==
  LET r == TransformResult(transform, document.fields, time)
  IN IF r = <<>> THEN <<>> ELSE rest_encode_value(r[1])

write_result(write, documents, time) ==
  LET document == Lookup(documents, write.key)
      results == All([i \in DOMAIN write.transforms |->
                        transform_result(write.transforms[i], document, time)])
  IN IF results = <<>> THEN <<>>
     ELSE <<[updated |-> IF document = <<>> THEN <<>> ELSE <<document[1].updated>>,
             results |-> results[1]]>>

rest_write_result(write, documents, time) ==
  LET document == Lookup(documents, write.key)
      results == All([i \in DOMAIN write.transforms |->
                        encode_transform_result(write.transforms[i], document[1], time)])
  IN IF document = <<>> THEN <<[updated |-> <<>>, results |-> <<>>]>>
     ELSE IF results = <<>> THEN <<>>
     ELSE <<[updated |-> <<document[1].updated>>, results |-> results[1]]>>

Reply(code, documents, answers) == [code |-> code, documents |-> documents, answers |-> answers]

\* The store commits; only then are the results put together.
Committed(documents, writes, time, status(_), result(_, _)) ==
  LET plan == plan_with_documents(documents, writes, time)
      answers == All([i \in DOMAIN writes |-> result(writes[i], plan.documents)])
  IN IF plan.err /= "" THEN Reply(status(plan.err), documents, <<>>)
     ELSE IF answers = <<>> THEN Reply("INTERNAL", plan.documents, <<>>)
     ELSE Reply("", plan.documents, answers[1])

grpc_commit(documents, requests, time) ==
  LET writes == All([i \in DOMAIN requests |-> grpc_decode_write(requests[i])])
  IN IF writes = <<>> THEN Reply("INVALID_ARGUMENT", documents, <<>>)
     ELSE Committed(documents, writes[1], time, commit_status,
                    LAMBDA w, ds : write_result(w, ds, time))

rest_commit(documents, requests, time) ==
  LET writes == All([i \in DOMAIN requests |-> rest_decode_write(requests[i])])
  IN IF writes = <<>> THEN Reply("INVALID_ARGUMENT", documents, <<>>)
     ELSE IF ~validate_commit_write_sequence(writes[1])
       THEN Reply("INVALID_ARGUMENT", documents, <<>>)
     ELSE Committed(documents, writes[1], time, rest_commit_error,
                    LAMBDA w, ds : rest_write_result(w, ds, time))

\* A REST commit of a transaction is the gRPC one, its answer respelled.
read_json_commit(reply) ==
  LET answers == All([i \in DOMAIN reply.answers |->
                   LET rs == All([r \in DOMAIN reply.answers[i].results |->
                                    read_json_value(reply.answers[i].results[r])])
                   IN IF rs = <<>> THEN <<>> ELSE <<[reply.answers[i] EXCEPT !.results = rs[1]]>>])
  IN IF answers = <<>> THEN [reply EXCEPT !.code = "INTERNAL", !.answers = <<>>]
     ELSE [reply EXCEPT !.answers = answers[1]]

transaction_commit(documents, requests, time) ==
  LET reply == read_json_commit(grpc_commit(documents, requests, time))
  IN [reply EXCEPT !.code = listing_status(@)]

-----------------------------------------------------------------------------
(* Unary writes, answered with the document, whole or masked.               *)

\* decode_field_path refuses the name among the paths of a mask.
project_fields(fields, paths) ==
  IF ~decode_field_paths(paths) THEN <<>>
  ELSE <<FoldLeft(LAMBDA out, p : LET found == nested_value(fields, p)
                                  IN IF found = <<>> THEN out
                                     ELSE set_nested_value(out, p, found[1]),
                  <<>>, paths)>>

encode_document_masked(document, mask) ==
  LET fields == IF mask = <<>> THEN <<document.fields>> ELSE project_fields(document.fields, mask[1])
  IN IF fields = <<>> THEN <<>> ELSE <<grpc_encode_fields(fields[1])>>

encode_document(document) == rest_encode_fields(document.fields)

Single(documents, write, time, status(_), encode(_)) ==
  LET plan == plan_with_documents(documents, <<write>>, time)
      answer == encode(plan.documents[write.key])
  IN IF plan.err /= "" THEN Reply(status(plan.err), documents, <<>>)
     ELSE IF write.op = "delete" THEN Reply("", plan.documents, <<>>)
     ELSE IF answer = <<>> THEN Reply("INTERNAL", plan.documents, <<>>)
     ELSE Reply("", plan.documents, answer)

update_document(documents, request, mask, time) ==
  LET write == grpc_decode_write([request EXCEPT !.op = "update", !.transforms = <<>>])
  IN IF write = <<>> THEN Reply("INVALID_ARGUMENT", documents, <<>>)
     ELSE Single(documents, write[1], time, commit_status,
                 LAMBDA d : encode_document_masked(d, mask))

create_document(documents, request, mask, time) ==
  LET fields == grpc_decode_fields(request.fields)
  IN IF fields = <<>> THEN Reply("INVALID_ARGUMENT", documents, <<>>)
     ELSE Single(documents, StoreWrite("create", request, fields[1], <<>>, <<>>, NoPrecondition),
                 time, commit_status, LAMBDA d : encode_document_masked(d, mask))

grpc_delete_document(documents, request, time) ==
  LET write == grpc_decode_write([request EXCEPT !.op = "delete", !.mask = <<>>,
                                                 !.transforms = <<>>])
  IN IF write = <<>> THEN Reply("INVALID_ARGUMENT", documents, <<>>)
     ELSE Single(documents, write[1], time, commit_status, LAMBDA d : <<>>)

\* The query parameters of a PATCH cannot say that a mask is empty.
from_pairs(request) == [request EXCEPT !.mask = IF @ = << <<>> >> THEN <<>> ELSE @]

PatchWrite(request, fields, pre) ==
  IF request.mask /= <<>>
    THEN IF ~decode_field_paths(request.mask[1]) THEN <<>>
         ELSE <<StoreWrite("patch", request, fields, request.mask[1], <<>>, pre)>>
  ELSE IF pre = [k |-> "exists", b |-> FALSE]
    THEN <<StoreWrite("create", request, fields, <<>>, <<>>, NoPrecondition)>>
  ELSE <<StoreWrite("set", request, fields, <<>>, <<>>, pre)>>

patch_document(documents, request, time) ==
  LET parameters == from_pairs(request)
      fields == rest_decode_fields(request.fields)
      pre == decode_json_precondition(request.pre)
      write == IF fields = <<>> \/ pre = <<>> THEN <<>>
               ELSE PatchWrite(parameters, fields[1], pre[1])
  IN IF write = <<>> THEN Reply("INVALID_ARGUMENT", documents, <<>>)
     ELSE Single(documents, write[1], time, rest_commit_error, encode_document)

rest_delete_document(documents, request, time) ==
  LET pre == decode_json_precondition(request.pre)
  IN IF pre = <<>> THEN Reply("INVALID_ARGUMENT", documents, <<>>)
     ELSE Single(documents, StoreWrite("delete", request, <<>>, <<>>, <<>>, pre[1]), time,
                 rest_commit_error, LAMBDA d : <<>>)

-----------------------------------------------------------------------------
(* Queries and aggregations over the two front doors, and what both are     *)
(* meant to have in common.  A structured query is                          *)
(* [collection, group, parent, where, orders, start, end, offset, limit,    *)
(* select, nearest]; the parent, filter, cursors, limit and the nearest     *)
(* stage are optional.  Collections and parents are keys of the query       *)
(* engine.                                                                  *)

FieldOperators == {"==", "!=", "<", "<=", ">", ">=", "in", "not-in", "contains", "contains-any"}

FieldFilter(path, op, v) == [path |-> path, op |-> op, value |-> v]

UnaryFilter(f) ==
  CASE f.op = "is-nan" -> <<FieldFilter(f.path, "==", [t |-> "nan"])>>
    [] f.op = "is-null" -> <<FieldFilter(f.path, "==", [t |-> "null"])>>
    [] f.op = "is-not-nan" -> <<FieldFilter(f.path, "!=", [t |-> "nan"])>>
    [] f.op = "is-not-null" -> <<FieldFilter(f.path, "!=", [t |-> "null"])>>
    [] OTHER -> <<>>

CompositeFilter(f, filters) ==
  IF f.fs = <<>> \/ filters = <<>> \/ f.op \notin {"and", "or"} THEN <<>>
  ELSE <<[op |-> f.op, fs |-> filters[1]]>>

decode_field_filter(f) ==
  LET v == rest_decode_value(f.value)
  IN IF f.op \notin FieldOperators \/ v = <<>> THEN <<>> ELSE <<FieldFilter(f.path, f.op, v[1])>>

RECURSIVE rest_decode_filter(_)
rest_decode_filter(f) ==
  CASE f.k = "unary" -> UnaryFilter(f)
    [] f.k = "field" -> decode_field_filter(f)
    [] f.k = "composite" ->
         CompositeFilter(f, All([i \in DOMAIN f.fs |-> rest_decode_filter(f.fs[i])]))
    [] f.k = "unset" -> <<>>

RECURSIVE grpc_decode_filter(_)
grpc_decode_filter(f) ==
  CASE f.k = "field" ->
         LET v == grpc_decode_value(f.value)
         IN IF f.op \notin FieldOperators \/ v = <<>> THEN <<>>
            ELSE <<FieldFilter(f.path, f.op, v[1])>>
    [] f.k = "composite" ->
         CompositeFilter(f, All([i \in DOMAIN f.fs |-> grpc_decode_filter(f.fs[i])]))
    [] f.k = "unary" -> UnaryFilter(f)
    [] f.k = "unset" -> <<>>

\* The engine's checks of a nearest stage.
find_nearest(near) ==
  /\ near.path /= <<>>
  /\ \A i \in DOMAIN near.result : near.result[i] /= <<>>
  /\ Len(near.vector) \in 1..MaxDimension
  /\ near.limit \in 1..MaxNearest

Nearest(near, vector) ==
  IF vector = <<>> \/ near.limit = <<>> \/ near.measure = "unset" THEN <<>>
  ELSE IF vector[1].t /= "vector" THEN <<>>
  ELSE LET stage == [near EXCEPT !.vector = vector[1].a, !.limit = near.limit[1]]
       IN IF find_nearest(stage) THEN <<stage>> ELSE <<>>

rest_decode_nearest(near) == Nearest(near, rest_decode_value(near.vector))
grpc_decode_nearest(near) == Nearest(near, grpc_decode_value(near.vector))

Scope(sq) == IF sq.group \/ sq.parent = <<>> THEN <<sq.collection>>
             ELSE sq.parent[1] \o <<sq.collection>>

Query(sq, filter, start, end, offset, limit, projection, nearest) ==
  [scope |-> Scope(sq), group |-> sq.group,
   ancestor |-> IF sq.group THEN sq.parent ELSE <<>>, filter |-> filter,
   orders |-> [i \in DOMAIN sq.orders |->
                 [path |-> sq.orders[i].path,
                  direction |-> IF sq.orders[i].direction = "desc" THEN -1 ELSE 1]],
   start |-> start, end |-> end, offset |-> offset,
   limit |-> IF limit = <<>> THEN <<>> ELSE <<[n |-> limit[1], last |-> FALSE]>>,
   projection |-> projection, nearest |-> nearest]

\* An optional part: absent, or decoded, or the query is refused.
Part(given, decode(_)) ==
  IF given = <<>> THEN << <<>> >>
  ELSE LET d == decode(given[1]) IN IF d = <<>> THEN <<>> ELSE <<d>>

grpc_cursor(c, start) ==
  LET values == All([i \in DOMAIN c.values |-> grpc_decode_value(c.values[i])])
  IN IF values = <<>> THEN <<>>
     ELSE <<[values |-> values[1], inclusive |-> c.before = start]>>

grpc_decode_query(sq) ==
  LET filter == Part(sq.where, grpc_decode_filter)
      start == Part(sq.start, LAMBDA c : grpc_cursor(c, TRUE))
      end == Part(sq.end, LAMBDA c : grpc_cursor(c, FALSE))
      nearest == Part(sq.nearest, grpc_decode_nearest)
  IN IF \/ <<>> \in {filter, start, end, nearest}
        \/ sq.offset < 0
        \/ \E i \in DOMAIN sq.limit : sq.limit[i] < 0
       THEN <<>>
     ELSE <<Query(sq, filter[1], start[1], end[1], sq.offset, sq.limit, sq.select, nearest[1])>>

\* Cursors and projections are not read, nor a number that is negative.
rest_decode_query(sq) ==
  LET filter == Part(sq.where, rest_decode_filter)
      nearest == Part(sq.nearest, rest_decode_nearest)
      limit == IF \E i \in DOMAIN sq.limit : sq.limit[i] < 0 THEN <<>> ELSE sq.limit
  IN IF <<>> \in {filter, nearest} THEN <<>>
     ELSE <<Query(sq, filter[1], <<>>, <<>>, Max({0, sq.offset}), limit, <<>>, nearest[1])>>

-----------------------------------------------------------------------------
(* Aggregations: [alias, op, path, up_to], an alias <<>> one to generate.   *)

\* The nth alias left out is <<"field", n>>.
Aliased(aggregations) ==
  [i \in DOMAIN aggregations |->
     IF aggregations[i].alias /= <<>> THEN aggregations[i]
     ELSE [aggregations[i] EXCEPT
             !.alias = <<"field", Cardinality({l \in 1..i : aggregations[l].alias = <<>>})>>]]

\* The bound a count is given last under its alias.
Bounds(aliased) ==
  LET bounding(alias) == {i \in DOMAIN aliased : /\ aliased[i].op = "count"
                                                 /\ aliased[i].alias = alias
                                                 /\ aliased[i].up_to /= <<>>}
      bounded == {a \in {aliased[i].alias : i \in DOMAIN aliased} : bounding(a) /= {}}
  IN [a \in bounded |-> aliased[Max(bounding(a))].up_to[1]]

AggregationsRefused(aggregations) ==
  \/ Len(aggregations) \notin 1..MaxAggregations
  \/ \E i \in DOMAIN aggregations : \/ aggregations[i].op = "unset"
                                    \/ aggregations[i].up_to = <<0>>

decode_aggregation(aggregations) ==
  IF \/ AggregationsRefused(aggregations)
     \/ \E i \in DOMAIN aggregations : \E n \in DOMAIN aggregations[i].up_to :
          aggregations[i].up_to[n] < 0
    THEN <<>>
  ELSE <<[operations |-> Aliased(aggregations), bounds |-> Bounds(Aliased(aggregations))]>>

\* A negative bound is not read as one.
decode_aggregations(aggregations) ==
  LET read == [i \in DOMAIN aggregations |->
                 IF \E n \in DOMAIN aggregations[i].up_to : aggregations[i].up_to[n] < 0
                   THEN [aggregations[i] EXCEPT !.up_to = <<>>] ELSE aggregations[i]]
  IN IF AggregationsRefused(read) THEN <<>>
     ELSE <<[operations |-> Aliased(read), bounds |-> Bounds(Aliased(read))]>>

\* A bound holds for whatever integer its alias ended with.
Bounded(fields, bounds) ==
  [a \in DOMAIN fields |->
     IF a \in DOMAIN bounds
       THEN IF fields[a].t = "int" THEN [t |-> "int", n |-> Min({fields[a].n, bounds[a]})]
            ELSE fields[a]
     ELSE fields[a]]

count_only_result(matched, aggregation) ==
  [a \in {aggregation.operations[i].alias : i \in DOMAIN aggregation.operations} |->
     [t |-> "int", n |-> IF a \in DOMAIN aggregation.bounds
                           THEN Min({matched, aggregation.bounds[a]}) ELSE matched]]

aggregate_query_result(docs, aggregation) ==
  Bounded(Q!aggregate(docs, aggregation.operations), aggregation.bounds)

\* Counts alone, outside a transaction, are not given the documents.
aggregate_snapshot(docs, transaction, aggregation) ==
  IF /\ ~transaction
     /\ \A i \in DOMAIN aggregation.operations : aggregation.operations[i].op = "count"
    THEN count_only_result(Len(docs), aggregation)
    ELSE aggregate_query_result(docs, aggregation)

rest_run_aggregation_query(docs, aggregation) ==
  Bounded(Q!aggregate(docs, aggregation.operations), aggregation.bounds)

-----------------------------------------------------------------------------
(* What the surfaces have in common.                                        *)

\* The request as REST is sent it: each value in the JSON of its type.
InJson(w) == rest_encode_value(w)[1]
TransformInJson(x) ==
  CASE x.op \in Numeric -> [x EXCEPT !.value = InJson(@)]
    [] x.op \in {"union", "remove"} ->
         [x EXCEPT !.value = [i \in DOMAIN x.value |-> InJson(x.value[i])]]
    [] OTHER -> x
WriteInJson(w) ==
  [w EXCEPT !.fields = [f \in DOMAIN @ |-> InJson(@[f])],
            !.transforms = [i \in DOMAIN @ |-> TransformInJson(@[i])],
            !.own = [i \in DOMAIN @ |-> TransformInJson(@[i])]]
RECURSIVE FilterInJson(_)
FilterInJson(f) == CASE f.k = "field" -> [f EXCEPT !.value = InJson(@)]
                     [] f.k = "composite" ->
                          [f EXCEPT !.fs = [i \in DOMAIN @ |-> FilterInJson(@[i])]]
                     [] OTHER -> f
QueryInJson(sq) ==
  [sq EXCEPT !.where = [i \in DOMAIN @ |-> FilterInJson(@[i])],
             !.nearest = [i \in DOMAIN @ |-> [@[i] EXCEPT !.vector = InJson(@)]]]

RECURSIVE Plain(_)
Plain(v) ==
  CASE v.t = "point" -> [t |-> "double", h |-> 0] \notin {v.lat, v.lon} /\ "nan" \notin {v.lat.t, v.lon.t}
    [] v.t = "time" -> v.n <= RfcLimit
    [] v.t = "array" -> \A i \in DOMAIN v.a : Plain(v.a[i])
    [] v.t = "map" -> /\ TypeName \notin DOMAIN v.m
                      /\ \A f \in DOMAIN v.m : Plain(v.m[f])
    [] OTHER -> TRUE

(* A value stored is read back the same over either surface, and a read, a  *)
(* query and a write answer spell it the same in JSON.  Left out are values *)
(* REST cannot spell (NaN coordinates, instants past RFC 3339), points with *)
(* a zero coordinate, which a read leaves out and a write then refuses, and *)
(* maps a patch has given the reserved type field.                          *)
ValueTravels(v) ==
  LET json == rest_encode_value(v)
  IN Plain(v) =>
       /\ grpc_decode_value(grpc_encode_value(v)) = <<v>>
       /\ json /= <<>>
       /\ rest_decode_value(json[1]) = <<v>>
       /\ read_json_value(grpc_encode_value(v)) = json
       /\ read_json_document([fields |-> <<v>>]) = <<json>>

(* A commit means the same over either surface: when both decode it, and    *)
(* REST does not refuse its order, the store ends the same, both accept it  *)
(* or both refuse it, and the answers about the documents that remain are   *)
(* the same.  A refused commit changes nothing.  Left out of the last are   *)
(* commits whose transform results are no longer there to be read, which    *)
(* are answered with INTERNAL after they were stored.                       *)
CommitsAgree(documents, requests, time) ==
  LET json == [i \in DOMAIN requests |-> WriteInJson(requests[i])]
      grpc == grpc_commit(documents, requests, time)
      rest == rest_commit(documents, json, time)
      both == transaction_commit(documents, requests, time)
      decoded == /\ \A i \in DOMAIN requests : grpc_decode_write(requests[i]) /= <<>>
                 /\ \A i \in DOMAIN json : rest_decode_write(json[i]) /= <<>>
                 /\ validate_commit_write_sequence(
                      [i \in DOMAIN json |-> rest_decode_write(json[i])[1]])
  IN /\ \A reply \in {grpc, rest, both} :
          reply.code \notin {"", "INTERNAL"} => reply.documents = documents
     /\ decoded =>
          /\ grpc.documents = rest.documents
          /\ grpc.code /= rest.code =>
               \/ "INTERNAL" \in {grpc.code, rest.code}
               \/ {grpc.code, rest.code} = {"ALREADY_EXISTS", "FAILED_PRECONDITION"}
          /\ grpc.code = "" /\ rest.code = "" =>
               \A i \in DOMAIN requests :
                 requests[i].key \in DOMAIN rest.documents => both.answers[i] = rest.answers[i]

(* An update, a creation and a deletion of one document mean the same over  *)
(* either surface, and the document answered is the document stored.        *)
UnaryAgree(documents, request, time) ==
  LET json == WriteInJson(request)
      update == update_document(documents, request, <<>>, time)
      patch == patch_document(documents, json, time)
      create == create_document(documents, request, <<>>, time)
      creating == [json EXCEPT !.mask = <<>>, !.pre = <<[k |-> "exists", b |-> FALSE]>>]
      patched == patch_document(documents, creating, time)
      deletes == {grpc_delete_document(documents, request, time).documents,
                  rest_delete_document(documents, json, time).documents}
      stored(reply) == reply.documents[request.key]
  IN /\ request.mask /= << <<>> >> =>
          /\ update.documents = patch.documents
          /\ update.code = "" =>
               /\ patch.answers = read_json_fields(update.answers[1])
               /\ rest_decode_fields(patch.answers[1]) = <<stored(patch).fields>>
     /\ create.documents = patched.documents /\ create.code = patched.code
     /\ Cardinality(deletes) = 1

(* A masked answer holds what the mask names and nothing else.              *)
MasksProject(fields, paths, all) ==
  LET projected == project_fields(fields, paths)
  IN projected /= <<>> =>
       \A p \in all :
         /\ (\E i \in DOMAIN paths : IsPrefix(paths[i], p)) =>
              nested_value(projected[1], p) = nested_value(fields, p)
         /\ (\A i \in DOMAIN paths : ~Related(paths[i], p)) => nested_value(projected[1], p) = <<>>

(* A read time the service hands out is one it accepts until it expires.    *)
ReadTimesReusable(given, later) ==
  later \in given..given + MaxAge - Micro =>
    decode_read_time(encode_system_read_time(given), later) = <<encode_system_read_time(given)>>

(* A query both decode is the same query, unless it has the parts REST does *)
(* not read: cursors, a projection, negative numbers.                       *)
QueriesAgree(sq) ==
  LET grpc == grpc_decode_query(sq)
      rest == rest_decode_query(QueryInJson(sq))
  IN sq.start = <<>> /\ sq.end = <<>> /\ sq.select = <<>> =>
       IF sq.offset >= 0 /\ \A i \in DOMAIN sq.limit : sq.limit[i] >= 0 THEN grpc = rest
       ELSE grpc = <<>>

(* An aggregation gives the same fields over either surface and whether or  *)
(* not its documents are read, and a count is never above its bound.        *)
AggregationsAgree(docs, aggregations) ==
  LET grpc == decode_aggregation(aggregations)
      rest == decode_aggregations(aggregations)
      result == aggregate_snapshot(docs, FALSE, grpc[1])
  IN grpc /= <<>> =>
       /\ rest = grpc
       /\ result = aggregate_snapshot(docs, TRUE, grpc[1])
       /\ result = rest_run_aggregation_query(docs, rest[1])
       /\ \A i \in DOMAIN aggregations :
            \A n \in DOMAIN aggregations[i].up_to :
              LET alias == grpc[1].operations[i].alias
              IN /\ aggregations[i].op = "count"
                 /\ \A l \in DOMAIN aggregations \ {i} : grpc[1].operations[l].alias /= alias
                 => result[alias].n <= aggregations[i].up_to[n]
=============================================================================
