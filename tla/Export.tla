------------------------------- MODULE Export -------------------------------
(* Exports of Firestore: documents as Datastore entities in a record log,   *)
(* the metadata that counts them, and the reader of an export, whose        *)
(* decoding runs on a thread of its own.                                    *)
(*                                                                          *)
(* An encoded message is a sequence of as many bytes as its size, each of   *)
(* which holds the message it is a part of: decoding takes it from the      *)
(* first.  Field names are numbers, and a map is a function of them.        *)
(*                                                                          *)
(* A byte of a payload or of padding of the log is <<"byte", n>>.  A        *)
(* fragment's header takes HeaderBytes bytes, of which the first holds the  *)
(* checksum, the second the length, the last the kind, and any others are   *)
(* part of the checksum.  The checksum is of the kind and payload, and two  *)
(* that differ have different checksums.                                    *)
EXTENDS Integers, Sequences, SequencesExt, FiniteSets

CONSTANTS BlockBytes, HeaderBytes,
          MaxRecordBytes, \* the largest record a reader puts together
          Documents,     \* the sequences of documents exported
          Damages,       \* what may happen to an export's files
          BatchDocuments, BatchBytes,  \* when the decoder hands a batch over
          QueueDepth     \* the batches it may run ahead

VARIABLES documents,  \* what was exported
          directory,  \* the export's files, <<>> when it was not written
          damage,     \* what happened to them
          worker,     \* the decoding thread: what it is doing, what it has still to give, its batch
          channel,    \* batches on their way to the reader
          reader      \* the reader: what it holds, what it gave, and its end

exportVars == <<documents, directory, damage, worker, channel, reader>>

VectorName == 9
DefaultDatabase == 0

-----------------------------------------------------------------------------
(* The record log: records are cut into fragments that do not cross a       *)
(* block, and put together again.                                           *)

Smaller(a, b) == IF a < b THEN a ELSE b

Zero == <<"byte", 0>>
Zeros(n) == [i \in 1..n |-> Zero]

masked_crc(kind, payload) == <<"crc", kind, payload>>

Header(kind, payload) ==
  <<masked_crc(kind, payload)>> \o [i \in 1..(HeaderBytes - 3) |-> masked_crc(kind, payload)]
    \o <<<<"byte", Len(payload)>>, <<"kind", kind>>>>

-----------------------------------------------------------------------------
(* Writing.                                                                 *)

FragmentKind(first, last) ==
  IF first THEN IF last THEN "full" ELSE "first" ELSE IF last THEN "last" ELSE "middle"

\* A fragment that starts at a place in a block, after padding, with what is
\* left of the record and the place after it.
Fragment(record, padding, start, length, first) ==
  [bytes |-> Zeros(padding) \o Header(FragmentKind(first, length = Len(record)), SubSeq(record, 1, length))
               \o SubSeq(record, 1, length),
   rest |-> SubSeq(record, length + 1, Len(record)),
   position |-> (start + HeaderBytes + length) % BlockBytes]

NextFragment(record, padding, start, first) ==
  Fragment(record, padding, start, Smaller(Len(record), BlockBytes - start - HeaderBytes), first)

\* The bytes of the fragments of a record, at a position in a block.
RECURSIVE fragments(_, _, _)
Continued(f) ==
  IF f.rest = <<>> THEN f
  ELSE LET more == fragments(f.rest, f.position, FALSE)
       IN [bytes |-> f.bytes \o more.bytes, position |-> more.position]
fragments(record, position, first) ==
  IF BlockBytes - position < HeaderBytes
  THEN Continued(NextFragment(record, BlockBytes - position, 0, first))
  ELSE Continued(NextFragment(record, 0, position, first))

Appended(log, written) == [bytes |-> log.bytes \o written.bytes, position |-> written.position]
write_record(log, record) == Appended(log, fragments(record, log.position, TRUE))

\* A log of records.
WriteLog(records) == FoldLeft(write_record, [bytes |-> <<>>, position |-> 0], records).bytes

-----------------------------------------------------------------------------
(* Reading.                                                                 *)

BlockEnd(log, at) == Smaller(((at - 1) \div BlockBytes + 1) * BlockBytes, Len(log))

AllZero(log, at, end) == \A i \in at..end : log[i] = Zero

NoFragment(kind, at) == [kind |-> kind, payload |-> <<>>, at |-> at]

\* A fragment whose header claims a kind and a length.
CheckedFragment(log, at, end, kind, length) ==
  IF \/ log[at + HeaderBytes - 1][1] # "kind"
     \/ at + HeaderBytes + length - 1 > end
     \/ log[at] # masked_crc(kind, SubSeq(log, at + HeaderBytes, at + HeaderBytes + length - 1))
  THEN NoFragment("error", at)
  ELSE [kind |-> kind, payload |-> SubSeq(log, at + HeaderBytes, at + HeaderBytes + length - 1),
        at |-> at + HeaderBytes + length]

\* The fragment at a position of a block that ends at another: its kind and
\* payload and the position after it, the kind "end" at the end of the log and
\* "error" where it is not a fragment.
RECURSIVE next_fragment(_, _, _)
next_fragment(log, at, end) ==
  IF at > Len(log) THEN NoFragment("end", at)
  ELSE IF end - at + 1 < HeaderBytes \/ AllZero(log, at, at + HeaderBytes - 1)
  THEN IF AllZero(log, at, end) THEN next_fragment(log, end + 1, BlockEnd(log, end + 1))
       ELSE NoFragment("error", at)
  ELSE CheckedFragment(log, at, end, log[at + HeaderBytes - 1][2], log[at + HeaderBytes - 2][2])

\* The records of a log from a position, and whether it ended as it should.
\* An assembly is a sequence of at most one record under way.
RECURSIVE next_record(_, _, _)
WithFirst(record, rest) == [records |-> <<record>> \o rest.records, ok |-> rest.ok]
Assembled(log, assembly, f, joined) ==
  IF f.kind = "end" THEN [records |-> <<>>, ok |-> assembly = <<>>]
  ELSE IF \/ f.kind = "error"
          \/ (f.kind \in {"full", "first"}) # (assembly = <<>>)
          \/ Len(joined) > MaxRecordBytes
  THEN [records |-> <<>>, ok |-> FALSE]
  ELSE IF f.kind \in {"full", "last"} THEN WithFirst(joined, next_record(log, f.at, <<>>))
  ELSE next_record(log, f.at, <<joined>>)
AssembleNext(log, assembly, f) ==
  Assembled(log, assembly, f, IF assembly = <<>> THEN f.payload ELSE assembly[1] \o f.payload)
next_record(log, at, assembly) ==
  AssembleNext(log, assembly, next_fragment(log, at, BlockEnd(log, at)))

ReadLog(log) == next_record(log, 1, <<>>)

-----------------------------------------------------------------------------
(* Values and fields.  A value that cannot be encoded gives an error.       *)

Wrong == [t |-> "error"]

EncodeMessage(m, size) == [i \in 1..size |-> <<"wire", i, m>>]
DecodeMessage(bytes) == bytes[1][3]

\* Times are in thousandths of the microsecond the format keeps.
encode_timestamp(n) == n \div 1000
decode_timestamp(m) == m * 1000

\* The default database is not named.
encode_reference(v) ==
  <<IF v.database = DefaultDatabase THEN <<>> ELSE <<v.database>>, v.path>>
decode_reference(x) ==
  [t |-> "reference", database |-> IF x[1] = <<>> THEN DefaultDatabase ELSE x[1][1], path |-> x[2]]

RECURSIVE encode_value(_)
Property(name, multiple, e) ==
  [name |-> name, multiple |-> multiple, meaning |-> e.meaning, kind |-> e.kind, x |-> e.x]
encode_property(name, v, multiple) == Property(name, multiple, encode_value(v))
\* The properties of one field: a marker, one for each element, or one.
FieldProperties(name, v) ==
  IF v.t # "array" THEN <<encode_property(name, v, FALSE)>>
  ELSE [i \in DOMAIN v.a |-> encode_property(name, v.a[i], TRUE)]
EmptyList(v) == v.t = "array" /\ v.a = <<>>
EmptyProperties(names) ==
  [i \in DOMAIN names |-> [name |-> names[i], multiple |-> FALSE, meaning |-> "empty",
                           kind |-> "none", x |-> <<>>]]
FieldsEncoded(fields, empty, others) ==
  [property |-> EmptyProperties(empty),
   raw |-> FlattenSeq([i \in DOMAIN others |-> FieldProperties(others[i], fields[others[i]])])]
encode_fields(fields) ==
  FieldsEncoded(fields, SetToSortSeq({n \in DOMAIN fields : EmptyList(fields[n])}, <),
                        SetToSortSeq({n \in DOMAIN fields : ~EmptyList(fields[n])}, <))
encode_value(v) ==
  LET is(meaning, kind, x) == [meaning |-> meaning, kind |-> kind, x |-> x]
  IN CASE v.t = "null" -> is("none", "none", <<>>)
       [] v.t \in {"boolean", "integer", "double"} -> is("none", v.t, <<v.n>>)
       [] v.t = "timestamp" -> is(IF v.n % 1000 = 0 THEN "timestamp" ELSE "error",
                                  "integer", <<encode_timestamp(v.n)>>)
       [] v.t = "string" -> is("none", "bytes", v.s)
       [] v.t = "bytes" -> is("blob", "bytes", v.s)
       [] v.t = "reference" -> is("none", "reference", encode_reference(v))
       [] v.t = "point" -> is("point", "point", <<v.n>>)
       [] v.t = "map" -> is("entity", "bytes", <<encode_fields(v.m)>>)
       [] v.t = "vector" ->
            is("entity", "bytes",
               <<encode_fields([n \in {VectorName} |->
                    [t |-> "array", a |-> [i \in DOMAIN v.c |-> [t |-> "double", n |-> v.c[i]]]]])>>)
       [] v.t = "array" -> is("error", "none", <<>>)

\* Whether every part of the fields could be encoded.
RECURSIVE Encodable(_)
EncodableValue(v) ==
  CASE v.t = "timestamp" -> v.n % 1000 = 0
    [] v.t = "map" -> Encodable(v.m)
    [] v.t = "array" -> FALSE
    [] OTHER -> TRUE
Encodable(fields) ==
  \A n \in DOMAIN fields :
    IF fields[n].t = "array" THEN \A i \in DOMAIN fields[n].a : EncodableValue(fields[n].a[i])
    ELSE EncodableValue(fields[n])

RECURSIVE decode_value(_)
\* A field told twice is an array told element by element, or an error; the
\* marker of an empty list is neither repeated nor joined.
PropertyValue(p) ==
  IF p.meaning = "empty"
    THEN IF p.multiple \/ p.kind /= "none" THEN Wrong ELSE [t |-> "array", a |-> <<>>]
  ELSE IF p.multiple THEN [t |-> "array", a |-> <<decode_value(p)>>]
  ELSE decode_value(p)
Joined(fields, p, v) ==
  IF p.name \notin DOMAIN fields THEN v
  ELSE IF p.multiple /\ v /= Wrong /\ fields[p.name].t = "array" /\ fields[p.name].a /= <<>>
    THEN [t |-> "array", a |-> fields[p.name].a \o v.a]
  ELSE Wrong
Accumulate(fields, p) ==
  [n \in DOMAIN fields \cup {p.name} |-> IF n = p.name THEN Joined(fields, p, PropertyValue(p)) ELSE fields[n]]
decode_fields(entity) == FoldLeft(Accumulate, <<>>, entity.property \o entity.raw)
Embedded(fields) ==
  IF /\ DOMAIN fields = {VectorName} /\ fields[VectorName].t = "array"
     /\ \A i \in DOMAIN fields[VectorName].a : fields[VectorName].a[i].t = "double"
  THEN [t |-> "vector", c |-> [i \in DOMAIN fields[VectorName].a |-> fields[VectorName].a[i].n]]
  ELSE [t |-> "map", m |-> fields]
decode_embedded_entity(entity) == Embedded(decode_fields(entity))
decode_value(p) ==
  CASE p.kind = "none" /\ p.meaning = "none" -> [t |-> "null"]
    [] p.kind \in {"boolean", "integer", "double"} /\ p.meaning = "none" -> [t |-> p.kind, n |-> p.x[1]]
    [] p.kind = "integer" /\ p.meaning = "timestamp" -> [t |-> "timestamp", n |-> decode_timestamp(p.x[1])]
    [] p.kind = "bytes" /\ p.meaning = "none" -> [t |-> "string", s |-> p.x]
    [] p.kind = "bytes" /\ p.meaning = "blob" -> [t |-> "bytes", s |-> p.x]
    [] p.kind = "bytes" /\ p.meaning = "entity" -> decode_embedded_entity(p.x[1])
    [] p.kind = "reference" /\ p.meaning = "none" -> decode_reference(p.x)
    [] p.kind = "point" /\ p.meaning = "point" -> [t |-> "point", n |-> p.x[1]]
    [] OTHER -> Wrong

-----------------------------------------------------------------------------
(* Entities: a document is its database, its path (pairs of a collection    *)
(* and a name), its fields and the size of its record.                      *)

encode_document(d) ==
  [database |-> IF d.database = DefaultDatabase THEN <<>> ELSE <<d.database>>,
   path |-> d.path, entity_group |-> <<d.path[1]>>, fields |-> encode_fields(d.fields), size |-> d.size]
encode_entity(d) == EncodeMessage(encode_document(d), d.size)

decode_document(e) ==
  [database |-> IF e.database = <<>> THEN DefaultDatabase ELSE e.database[1],
   path |-> e.path, fields |-> decode_fields(e.fields), size |-> e.size]
CheckedDocument(e) ==
  IF e.path = <<>> \/ e.entity_group # <<e.path[1]>> THEN Wrong ELSE decode_document(e)
decode_entity(record) == CheckedDocument(DecodeMessage(record))

-----------------------------------------------------------------------------
(* The directory: the overall metadata, a log of a marker and the entries   *)
(* with the entities and bytes of each, and for each entry the logs its     *)
(* kind metadata names.                                                     *)

OverallMarker == EncodeMessage("marker", 1)

encode_overall_metadata(entries) == WriteLog(<<OverallMarker, EncodeMessage(entries, 2)>>)

\* The entries, as a sequence of at most one.
OverallEntries(read) ==
  IF read.ok /\ Len(read.records) = 2 /\ read.records[1] = OverallMarker
  THEN <<DecodeMessage(read.records[2])>> ELSE <<>>
decode_overall_metadata(log) == OverallEntries(ReadLog(log))

Counted(n, logs) ==
  [entity_count |-> n, byte_count |-> FoldLeft(LAMBDA b, log : b + Len(log), 0, logs)]

Directory(n, logs) ==
  [overall |-> encode_overall_metadata(<<Counted(n, logs)>>), kinds |-> <<logs>>]
Encoded(ds) == [i \in DOMAIN ds |-> encode_entity(ds[i])]
write_temporary_export(ds) == Directory(Len(ds), <<WriteLog(Encoded(ds))>>)

\* A document that cannot be encoded leaves no directory.
write_export(ds) ==
  IF \A i \in DOMAIN ds : Encodable(ds[i].fields) THEN <<write_temporary_export(ds)>> ELSE <<>>

\* Files that changed after they were written: a log or the overall metadata
\* cut short, a log with zeros in place of what it lost or with a byte of it
\* changed, or a count that is off.
Damaged(dir, log, n, d) ==
  CASE d.kind = "none" -> dir
    [] d.kind = "cut" -> [dir EXCEPT !.kinds[1][1] = SubSeq(log, 1, Len(log) - d.n)]
    [] d.kind = "zeroed" -> [dir EXCEPT !.kinds[1][1] = SubSeq(log, 1, Len(log) - d.n) \o Zeros(d.n)]
    [] d.kind = "changed" -> [dir EXCEPT !.kinds[1][1] = [log EXCEPT ![Len(log) - d.n + 1] = <<"byte", 8>>]]
    [] d.kind = "overall" -> [dir EXCEPT !.overall = SubSeq(@, 1, Len(@) - d.n)]
    [] d.kind = "count" -> [dir EXCEPT !.overall = encode_overall_metadata(<<Counted(n + 1, <<log>>)>>)]

\* An export of the official emulator may have its records in several shards.
Resharded(encoded, n) ==
  Directory(Len(encoded), <<WriteLog(SubSeq(encoded, 1, n)), WriteLog(SubSeq(encoded, n + 1, Len(encoded)))>>)

\* The metadata can be read, and the shards of each entry have the bytes it says.
CountsRight(dir, entries) ==
  /\ entries # <<>>
  /\ \A i \in DOMAIN entries[1] : entries[1][i].byte_count = Counted(0, dir.kinds[i]).byte_count
open(dir) == CountsRight(dir, decode_overall_metadata(dir.overall))

\* What iterating gives for one entry: its documents, and an error after the
\* last that can be read when there is one.
UpToError(decoded, wrong, complete) ==
  IF wrong # 0 THEN SubSeq(decoded, 1, wrong)
  ELSE IF complete THEN decoded
  ELSE Append(decoded, Wrong)
Checked(decoded, complete) ==
  UpToError(decoded, SelectInSeq(decoded, LAMBDA d : "t" \in DOMAIN d), complete)
DecodedRecords(records, complete) ==
  Checked([i \in DOMAIN records |-> decode_entity(records[i])], complete)
ReadShards(reads, bad, count) ==
  LET used == IF bad = 0 THEN reads ELSE SubSeq(reads, 1, bad)
      records == FlattenSeq([i \in DOMAIN used |-> used[i].records])
  IN DecodedRecords(records, bad = 0 /\ Len(records) = count)
ReadEntry(reads, count) == ReadShards(reads, SelectInSeq(reads, LAMBDA r : ~r.ok), count)
EntryItems(logs, entry) == ReadEntry([i \in DOMAIN logs |-> ReadLog(logs[i])], entry.entity_count)

IsError(item) == "t" \in DOMAIN item

\* What iterating over a directory gives: nothing follows an error.
EntriesItems(dir, entries) ==
  LET add(items, i) == IF items # <<>> /\ IsError(Last(items)) THEN items
                       ELSE items \o EntryItems(dir.kinds[i], entries[i])
  IN FoldLeft(add, <<>>, [i \in DOMAIN entries |-> i])
next(dir) == EntriesItems(dir, decode_overall_metadata(dir.overall)[1])

-----------------------------------------------------------------------------
(* Reading in the background.                                               *)

Init ==
  /\ documents \in Documents
  /\ \E written \in {write_export(documents)} :
       /\ damage \in {d \in Damages : d.kind = "overall" \/ written = <<>>
                                     \/ d.n <= Len(written[1].kinds[1][1])}
       /\ directory = IF written = <<>> THEN <<>>
                      ELSE IF damage.kind = "sharded"
                      THEN <<Resharded(Encoded(documents), Len(documents) \div 2)>>
                      ELSE <<Damaged(written[1], written[1].kinds[1][1], Len(documents), damage)>>
  /\ worker = [state |-> "none", rest |-> <<>>, batch |-> <<>>, bytes |-> 0]
  /\ channel = <<>>
  /\ reader = [pending |-> <<>>, got |-> <<>>, state |-> "closed"]

\* The thread starts, or it cannot be started and the reader will say so.
into_background ==
  /\ reader.state = "closed" /\ directory # <<>> /\ open(directory[1])
  /\ reader' = [reader EXCEPT !.state = "reading"]
  /\ \E s \in {"decoding", "absent"} :
       worker' = [worker EXCEPT !.state = s, !.rest = next(directory[1])]
  /\ UNCHANGED <<documents, directory, damage, channel>>

\* The thread takes one item, and has a batch to send after a full one, after
\* an error and at the end.
Decode ==
  /\ worker.state = "decoding"
  /\ LET item == worker.rest[1]
         batch == Append(worker.batch, item)
         bytes == worker.bytes + IF IsError(item) THEN 0 ELSE item.size
     IN worker' =
          IF worker.rest = <<>>
          THEN [worker EXCEPT !.state = IF worker.batch = <<>> THEN "returned" ELSE "last"]
          ELSE [state |-> IF IsError(item) THEN "last"
                          ELSE IF Len(batch) >= BatchDocuments \/ bytes >= BatchBytes THEN "sending"
                          ELSE "decoding",
                rest |-> Tail(worker.rest), batch |-> batch, bytes |-> bytes]
  /\ UNCHANGED <<documents, directory, damage, channel, reader>>

\* As Send, waiting for room also when nobody will make any.
MutSend ==
  /\ worker.state \in {"sending", "last"}
  /\ Len(channel) < QueueDepth
  /\ channel' = Append(channel, worker.batch)
  /\ worker' = [worker EXCEPT !.state = IF @ = "last" THEN "returned" ELSE "decoding",
                              !.batch = <<>>, !.bytes = 0]
  /\ UNCHANGED <<documents, directory, damage, reader>>

\* The channel takes a batch when it has room; without a reader the thread ends.
Send ==
  /\ worker.state \in {"sending", "last"}
  /\ IF reader.state = "dropped"
     THEN worker' = [worker EXCEPT !.state = "returned"] /\ UNCHANGED channel
     ELSE /\ Len(channel) < QueueDepth
          /\ channel' = Append(channel, worker.batch)
          /\ worker' = [worker EXCEPT !.state = IF @ = "last" THEN "returned" ELSE "decoding",
                                      !.batch = <<>>, !.bytes = 0]
  /\ UNCHANGED <<documents, directory, damage, reader>>

\* A panic ends the thread, and what it had not sent is lost.
Panic ==
  /\ worker.state = "decoding"
  /\ worker' = [worker EXCEPT !.state = "panicked"]
  /\ UNCHANGED <<documents, directory, damage, channel, reader>>

Give(item, pending) ==
  reader' = [pending |-> pending, got |-> Append(reader.got, item),
             state |-> IF IsError(item) THEN "finished" ELSE "reading"]

\* As Receive, taking any thread that is gone for one that returned.
MutReceive ==
  /\ reader.state = "reading"
  /\ IF reader.pending # <<>>
     THEN Give(reader.pending[1], Tail(reader.pending)) /\ UNCHANGED channel
     ELSE IF channel # <<>>
     THEN channel' = Tail(channel) /\ reader' = [reader EXCEPT !.pending = channel[1]]
     ELSE /\ worker.state \in {"absent", "returned", "panicked"}
          /\ UNCHANGED channel
          /\ reader' = [reader EXCEPT !.state = "finished"]
  /\ UNCHANGED <<documents, directory, damage, worker>>

\* The reader gives the next item of the batch it holds, takes the next batch,
\* or learns that no more will come: from a thread that returned the end, from
\* one that did not an error.
Receive ==
  /\ reader.state = "reading"
  /\ IF reader.pending # <<>>
     THEN Give(reader.pending[1], Tail(reader.pending)) /\ UNCHANGED channel
     ELSE IF channel # <<>>
     THEN channel' = Tail(channel) /\ reader' = [reader EXCEPT !.pending = channel[1]]
     ELSE /\ worker.state \in {"absent", "returned", "panicked"}
          /\ UNCHANGED channel
          /\ IF worker.state = "returned"
             THEN reader' = [reader EXCEPT !.state = "finished"]
             ELSE Give(Wrong, <<>>)
  /\ UNCHANGED <<documents, directory, damage, worker>>

\* The import stops early: the channel closes and the thread is waited for.
Drop ==
  /\ reader.state = "reading"
  /\ reader' = [reader EXCEPT !.state = "dropped", !.pending = <<>>]
  /\ channel' = <<>>
  /\ UNCHANGED <<documents, directory, damage, worker>>

Next == into_background \/ Decode \/ Send \/ Panic \/ Receive \/ Drop

Spec == Init /\ [][Next]_exportVars
FairSpec == Spec /\ WF_exportVars(Decode \/ Send)

-----------------------------------------------------------------------------
(* What an export promises.                                                 *)

\* An import that reads to the end without an error has read exactly the
\* documents that were exported, each as it was, in their order: whatever
\* happened to the files, and whatever became of the thread that decodes them
\* (BackgroundExportReader, ExportReader and write_export).  Until then it has
\* read the first of them.
ImportsExact ==
  LET good == SelectSeq(reader.got, LAMBDA i : ~IsError(i))
      clean == reader.state = "finished" /\ good = reader.got
  IN /\ IsPrefix(good, documents)
     /\ clean => reader.got = documents

\* A decoding thread nobody reads from ends: dropping the reader, which waits
\* for it, does not hang (Drop for BackgroundExportReader).
DropsEnd == reader.state = "dropped" ~> worker.state \in {"absent", "returned", "panicked"}

=============================================================================
