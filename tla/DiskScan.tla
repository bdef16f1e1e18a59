------------------------------ MODULE DiskScan ------------------------------
(* Scans of the disk backend: the byte strings document keys are stored     *)
(* under, the two index tables a collection or collection group is read     *)
(* through, and the merge of what is stored with the overlay of a snapshot. *)
(*                                                                          *)
(* A byte is a number up to MaxByte, which no UTF-8 string contains, and a  *)
(* length or an integer of the encoding takes one byte.  The character 3 is *)
(* the slash.  An id that starts with the character 6 stands for            *)
(* "__id<n>__": any number of zeros (1) and a last digit n + 8.             *)
EXTENDS Integers, Sequences, FiniteSets, SequencesExt

CONSTANTS MaxByte,   \* u8::MAX
          HalfRange  \* what turns a signed integer into one that sorts unsigned

Slash == 3

-----------------------------------------------------------------------------
(* Resource names: a key is a project, a database and a path.               *)

\* The members of a set in a strict total order.
InOrder(set, less(_, _)) ==
  [i \in 1..Cardinality(set) |-> CHOOSE x \in set : Cardinality({y \in set : less(y, x)}) = i - 1]

Segments(path) ==
  LET cuts == InOrder({0, Len(path) + 1} \cup {i \in DOMAIN path : path[i] = Slash}, <)
  IN [j \in 1..(Len(cuts) - 1) |-> SubSeq(path, cuts[j] + 1, cuts[j + 1] - 1)]

IsNumeric(id) ==
  /\ Len(id) >= 2 /\ id[1] = 6 /\ id[Len(id)] \in {7, 8}
  /\ \A i \in 2..(Len(id) - 1) : id[i] = 1

\* The number of a numeric id.
numeric_resource_id(id) == id[Len(id)] - 8

LessBytes(a, b) ==
  LET shorter == IF Len(a) < Len(b) THEN Len(a) ELSE Len(b)
      first == SelectInSubSeq([i \in 1..shorter |-> a[i] - b[i]], 1, shorter, LAMBDA d : d # 0)
  IN IF first = 0 THEN Len(a) < Len(b) ELSE a[first] < b[first]

LessId(a, b) ==
  IF IsNumeric(a) /\ IsNumeric(b) THEN numeric_resource_id(a) < numeric_resource_id(b)
  ELSE IF IsNumeric(a) # IsNumeric(b) THEN IsNumeric(a)
  ELSE LessBytes(a, b)

LessPath(p, q) ==
  LET a == Segments(p)
      b == Segments(q)
      shorter == IF Len(a) < Len(b) THEN Len(a) ELSE Len(b)
      differ == {i \in 1..shorter : LessId(a[i], b[i]) \/ LessId(b[i], a[i])}
  IN IF differ = {} THEN Len(a) < Len(b)
     ELSE LET first == CHOOSE i \in differ : \A j \in differ : i <= j IN LessId(a[first], b[first])

CollectionOf(path) ==
  LET last == SelectLastInSeq(path, LAMBDA c : c = Slash) IN SubSeq(path, 1, last - 1)

\* The id of the collection a document is directly in.
immediate_collection_id(path) == Segments(path)[Len(Segments(path)) - 1]

-----------------------------------------------------------------------------
(* Encodings.                                                               *)

push_length_prefixed(s) == <<Len(s)>> \o s

push_ordered_resource_id(id) ==
  IF IsNumeric(id)
  THEN <<0, numeric_resource_id(id) + HalfRange>>
  ELSE <<1>> \o FlattenSeq([i \in DOMAIN id |-> IF id[i] = 0 THEN <<0, MaxByte>> ELSE <<id[i]>>])
             \o <<0, 0>>

project_prefix(project) == push_length_prefixed(project)

database_prefix(k) == push_length_prefixed(k.project) \o push_length_prefixed(k.database)

encode_document_key(k) == database_prefix(k) \o k.path

decode_length_prefixed_string(bytes, offset) ==
  SubSeq(bytes, offset + 2, offset + 1 + bytes[offset + 1])

decode_document_key(bytes) ==
  LET project == decode_length_prefixed_string(bytes, 0)
      database == decode_length_prefixed_string(bytes, 1 + Len(project))
  IN [project |-> project, database |-> database,
      path |-> SubSeq(bytes, 3 + Len(project) + Len(database), Len(bytes))]

collection_index_prefix(k, collection) == database_prefix(k) \o push_length_prefixed(collection)

collection_group_index_prefix(k, id) == database_prefix(k) \o push_length_prefixed(id)

encode_collection_index_key(k) ==
  collection_index_prefix(k, CollectionOf(k.path)) \o push_ordered_resource_id(Last(Segments(k.path)))

encode_collection_group_index_key(k) ==
  collection_group_index_prefix(k, immediate_collection_id(k.path))
    \o FlattenSeq([i \in DOMAIN Segments(k.path) |-> push_ordered_resource_id(Segments(k.path)[i])])

\* The least byte string past all that start with the prefix, if there is one.
prefix_successor(prefix) ==
  LET at == SelectLastInSeq(prefix, LAMBDA b : b # MaxByte)
  IN IF at = 0 THEN <<>> ELSE Append(SubSeq(prefix, 1, at - 1), prefix[at] + 1)

-----------------------------------------------------------------------------
(* Tables, as a load in the order of a sequence of keys leaves them, and a  *)
(* scan of one.  A version of a document is a number.                       *)

\* An index holds the encoded key of the last document written under its key.
IndexOf(encode(_), keys) ==
  [e \in {encode(keys[i]) : i \in DOMAIN keys} |->
     encode_document_key(keys[CHOOSE i \in DOMAIN keys :
        encode(keys[i]) = e /\ \A j \in DOMAIN keys : encode(keys[j]) = e => j <= i])]

\* The keys of a table from the prefix up to its successor, in order.
bounded_range(table, prefix) ==
  LET upper == prefix_successor(prefix)
  IN IF upper = <<>> THEN <<>>
     ELSE InOrder({k \in DOMAIN table : ~LessBytes(k, prefix) /\ LessBytes(k, upper)}, LessBytes)

scope_matches(scope, k) ==
  /\ k.project = scope.project /\ k.database = scope.database
  /\ CASE scope.kind = "database" -> TRUE
       [] scope.kind = "collection" -> CollectionOf(k.path) = scope.collection
       [] scope.kind = "group" ->
            /\ immediate_collection_id(k.path) = scope.collection
            /\ scope.ancestor = <<>> \/ IsPrefix(scope.ancestor \o <<Slash>>, k.path)

scope_less(scope, a, b) ==
  IF scope.kind = "database" THEN LessBytes(a.path, b.path) ELSE LessPath(a.path, b.path)

\* What is stored, in the order of the table or index the scope is read by.
next_disk_document(scope, keys) ==
  LET documents == IndexOf(encode_document_key, keys)
      source ==
        CASE scope.kind = "database" -> bounded_range(documents, database_prefix(scope))
          [] scope.kind = "collection" ->
               LET index == IndexOf(encode_collection_index_key, keys)
                   range == bounded_range(index, collection_index_prefix(scope, scope.collection))
               IN [i \in DOMAIN range |-> index[range[i]]]
          [] scope.kind = "group" ->
               LET index == IndexOf(encode_collection_group_index_key, keys)
                   range == bounded_range(index, collection_group_index_prefix(scope, scope.collection))
               IN [i \in DOMAIN range |-> index[range[i]]]
      decoded == [i \in DOMAIN source |-> decode_document_key(source[i])]
  IN SelectSeq(decoded, LAMBDA k : scope_matches(scope, k))

\* The merge of two sequences by the order of the scope: an equal key is the
\* overlay's, and an overlay entry without a document shows nothing.
RECURSIVE merge(_, _, _, _)
merge(scope, disk, overlay, pending) ==
  IF disk = <<>> /\ overlay = <<>> THEN <<>>
  ELSE IF overlay = <<>> \/ (disk # <<>> /\ scope_less(scope, disk[1], overlay[1]))
  THEN <<[key |-> disk[1], version |-> 1]>> \o merge(scope, Tail(disk), overlay, pending)
  ELSE LET equal == disk # <<>> /\ ~scope_less(scope, overlay[1], disk[1])
           rest == merge(scope, IF equal THEN Tail(disk) ELSE disk, Tail(overlay), pending)
       IN IF pending[overlay[1]] = 0 THEN rest
          ELSE <<[key |-> overlay[1], version |-> pending[overlay[1]]]>> \o rest

\* A scan: every stored document is version 1, a pending one another version
\* or 0 for a deletion.
scan(scope, keys, pending) ==
  merge(scope, next_disk_document(scope, keys),
        InOrder({k \in DOMAIN pending : scope_matches(scope, k)},
                     LAMBDA a, b : scope_less(scope, a, b)),
        pending)

\* The databases of a project that are stored: one seek for each.
RECURSIVE seek_databases(_, _, _)
seek_databases(documents, lower, upper) ==
  LET range == {k \in DOMAIN documents : ~LessBytes(k, lower) /\ LessBytes(k, upper)}
      first == decode_document_key(CHOOSE k \in range : \A l \in range : ~LessBytes(l, k))
  IN IF ~LessBytes(lower, upper) \/ range = {} THEN {}
     ELSE {first.database}
          \cup seek_databases(documents, prefix_successor(database_prefix(first)), upper)

stored_databases(keys, project) ==
  seek_databases(IndexOf(encode_document_key, keys), project_prefix(project),
                 prefix_successor(project_prefix(project)))

databases(keys, pending, project) ==
  LET candidates == {k.database : k \in {q \in DOMAIN pending : pending[q] # 0 /\ q.project = project}}
                    \cup stored_databases(keys, project)
  IN {d \in candidates :
        scan([kind |-> "database", project |-> project, database |-> d], keys, pending) # <<>>}

-----------------------------------------------------------------------------
(* What a scan is meant to be.                                              *)

\* The documents of a snapshot: the pending ones over the stored ones.
Visible(keys, pending) ==
  {[key |-> k, version |-> IF k \in DOMAIN pending THEN pending[k] ELSE 1] :
     k \in {q \in Range(keys) \cup DOMAIN pending : q \in DOMAIN pending => pending[q] # 0}}

\* A scan yields the documents of its scope, each once, at its version and in
\* the order of their names, and the databases of a project are the ones with
\* a document.
ScanExact(scope, keys, pending) ==
  /\ scan(scope, keys, pending)
       = InOrder({d \in Visible(keys, pending) : scope_matches(scope, d.key)},
                      LAMBDA a, b : scope_less(scope, a.key, b.key))
  /\ databases(keys, pending, scope.project)
       = {d.key.database : d \in {v \in Visible(keys, pending) : v.key.project = scope.project}}

=============================================================================
