-------------------------- MODULE FirestoreProcess --------------------------
(* The standalone Firestore process on a data directory (cli/main.rs         *)
(* run_firestore; opening in core-store/disk.rs): files of the former name   *)
(* adopted, tables of older versions migrated, the journal replayed, an      *)
(* export seeded, requests served, and a clean or an abrupt end, over        *)
(* several runs.  The process may be killed between any two steps; what it   *)
(* wrote stays (DiskStore.tla models power cuts, flushes and failures).      *)
EXTENDS Integers, Sequences, SequencesExt, FiniteSets

CONSTANTS
  Projects, Ids,   \* a document is <<project, id>>
  Values,
  Exports,         \* sequences of [doc, value]: exports that can be seeded
  BatchSize,       \* IMPORT_BATCH_SIZE
  MaxRuns,         \* bound: times the process is started
  MaxRevision      \* bound: commits

VARIABLES
  files,      \* where the database and the journal are
  tables,     \* redb: the documents of version 1 and 2, the index, the marks
  wal,        \* the journal
  process,    \* where the process is
  seeding,    \* the seed of this run: export, target project, next entity
  bulk,       \* the open bulk transaction
  runs,
  expected    \* ghost: the documents there should be

vars == <<files, tables, wal, process, seeding, bulk, runs, expected>>

Docs == Projects \X Ids
None == "none"
Contents == [Docs -> Values \cup {None}]
Empty == [d \in Docs |-> None]
Present(stored) == {d \in Docs : stored[d] /= None}
NoSeed == [export |-> <<>>, target |-> None, next |-> 1]
Records == {<<>>} \cup {<<[revision |-> 2, doc |-> d, value |-> v]>> : d \in Docs, v \in Values \cup {None}}

Apply(stored, records) ==
  [d \in Docs |-> LET of == SelectSeq(records, LAMBDA r : r.doc = d)
                  IN IF of = <<>> THEN stored[d] ELSE Last(of).value]

At(pc) == process = pc
Go(pc) == process' = pc

-----------------------------------------------------------------------------
(* DiskStore::open                                                           *)

Start(export, target) ==
  /\ At("down") /\ runs < MaxRuns
  /\ runs' = runs + 1
  /\ seeding' = [export |-> export, target |-> target, next |-> 1]
  /\ Go("adopt database")
  /\ UNCHANGED <<files, tables, wal, bulk, expected>>

\* adopt_legacy_files renames the database, then the journal.
adopt_legacy_files ==
  \/ /\ At("adopt database") /\ Go("adopt journal")
     /\ files' = [files EXCEPT !.database = IF @ = "legacy" THEN "current" ELSE @]
     /\ UNCHANGED <<tables, wal, seeding, bulk, runs, expected>>
  \/ /\ At("adopt journal") /\ Go("migrate documents")
     /\ files' = [database |-> "current",
                  journal |-> IF files.journal = "legacy" THEN "current" ELSE files.journal]
     /\ UNCHANGED <<tables, wal, seeding, bulk, runs, expected>>

(* Mutant: the documents are copied and the mark is forgotten. *)
MutMigrate ==
  /\ At("migrate documents") /\ Go("migrate indexes")
  /\ tables' =
       IF "v2" \in tables.marks THEN tables
       ELSE [tables EXCEPT !.v2 = [d \in Docs |-> IF tables.v1[d] /= None THEN tables.v1[d] ELSE @[d]],
                           !.index = @ \cup Present(tables.v1)]
  /\ UNCHANGED <<files, wal, seeding, bulk, runs, expected>>

\* The documents of version 1 are copied once; their table is left as it was.
migrate_legacy_documents ==
  /\ At("migrate documents") /\ Go("migrate indexes")
  /\ tables' =
       IF "v2" \in tables.marks THEN tables
       ELSE [tables EXCEPT !.v2 = [d \in Docs |-> IF tables.v1[d] /= None THEN tables.v1[d] ELSE @[d]],
                           !.index = @ \cup Present(tables.v1),
                           !.marks = @ \cup {"v2"}]
  /\ UNCHANGED <<files, wal, seeding, bulk, runs, expected>>

migrate_ordered_scope_indexes ==
  /\ At("migrate indexes") /\ Go("replay")
  /\ tables' =
       IF "ordered" \in tables.marks THEN tables
       ELSE [tables EXCEPT !.index = @ \cup Present(tables.v2), !.marks = @ \cup {"ordered"}]
  /\ UNCHANGED <<files, wal, seeding, bulk, runs, expected>>

\* The records of the journal newer than the database, each a transaction.
Newer == SelectSeq(wal, LAMBDA r : r.revision > tables.revision)
replay_records ==
  /\ At("replay")
  /\ IF Newer = <<>>
       THEN Go("checkpoint") /\ UNCHANGED tables
       ELSE LET r == Head(Newer)
            IN /\ tables' = [tables EXCEPT !.v2[r.doc] = r.value, !.revision = r.revision,
                               !.index = IF r.value = None THEN @ \ {r.doc} ELSE @ \cup {r.doc}]
               /\ UNCHANGED process
  /\ files' = [files EXCEPT !.journal = "current"]
  /\ UNCHANGED <<wal, seeding, bulk, runs, expected>>

checkpoint ==
  /\ At("checkpoint") /\ Go("load")
  /\ wal' = <<>>
  /\ UNCHANGED <<files, tables, seeding, bulk, runs, expected>>

load_database ==
  /\ At("load")
  /\ Go(IF tables.revision = 0 /\ Present(tables.v2) /= {} THEN "corrupt"
        ELSE IF seeding.export /= <<>> THEN "seed" ELSE "serving")
  /\ bulk' = [v2 |-> tables.v2, revision |-> tables.revision]
  /\ UNCHANGED <<files, tables, wal, seeding, runs, expected>>

-----------------------------------------------------------------------------
(* seed_store_from_export: batches in one bulk transaction.                  *)

\* The document an entity becomes: --project-id moves it.
SeedKey(entity) == IF seeding.target = None THEN entity.doc ELSE <<seeding.target, entity.doc[2]>>
Batch == SubSeq(seeding.export, seeding.next,
                IF seeding.next + BatchSize > Len(seeding.export) THEN Len(seeding.export)
                ELSE seeding.next + BatchSize - 1)
Sets(entities) == [i \in DOMAIN entities |-> [doc |-> SeedKey(entities[i]), value |-> entities[i].value]]

SeedBatch ==
  /\ At("seed") /\ seeding.next <= Len(seeding.export) /\ bulk.revision < MaxRevision
  /\ bulk' = [v2 |-> Apply(bulk.v2, Sets(Batch)), revision |-> bulk.revision + 1]
  /\ seeding' = [seeding EXCEPT !.next = @ + Len(Batch)]
  /\ UNCHANGED <<files, tables, wal, process, runs, expected>>

SeedFinish ==
  /\ At("seed") /\ seeding.next > Len(seeding.export)
  /\ tables' = [tables EXCEPT !.v2 = bulk.v2, !.index = Present(bulk.v2), !.revision = bulk.revision]
  /\ expected' = Apply(expected, Sets(seeding.export))
  /\ Go("serving")
  /\ UNCHANGED <<files, wal, seeding, bulk, runs>>

-----------------------------------------------------------------------------
(* Serving and the end.                                                      *)

\* A commit: the journal first, then redb; a kill in between leaves the record.
append(d, v) ==
  /\ At("serving") /\ tables.revision < MaxRevision
  /\ wal' = Append(wal, [revision |-> tables.revision + 1, doc |-> d, value |-> v])
  /\ expected' = [expected EXCEPT ![d] = v]
  /\ Go("committing")
  /\ UNCHANGED <<files, tables, seeding, bulk, runs>>

Persist ==
  /\ At("committing")
  /\ LET r == Last(wal)
     IN tables' = [tables EXCEPT !.v2[r.doc] = r.value, !.revision = r.revision,
                     !.index = IF r.value = None THEN @ \ {r.doc} ELSE @ \cup {r.doc}]
  /\ Go("serving")
  /\ UNCHANGED <<files, wal, seeding, bulk, runs, expected>>

\* firestore_exit_code: flush, which truncates the journal, then the exit.
firestore_exit_code ==
  /\ At("serving")
  /\ wal' = <<>>
  /\ Go("down")
  /\ UNCHANGED <<files, tables, seeding, bulk, runs, expected>>

\* A kill, a seed that fails or another error of the start: an open bulk
\* transaction is gone.
Kill ==
  /\ ~At("down") /\ ~At("corrupt")
  /\ Go("down")
  /\ bulk' = [v2 |-> tables.v2, revision |-> tables.revision]
  /\ UNCHANGED <<files, tables, wal, seeding, runs, expected>>

-----------------------------------------------------------------------------

\* Directories earlier versions left: none, one of version 1 or of version 2
\* without the ordered index, under the former name or the current one, the
\* journal with a commit that did not reach the database or without.
Init ==
  /\ process = "down" /\ runs = 0 /\ seeding = NoSeed
  /\ \E stored \in Contents, version \in {"v1", "v2"}, name \in {"legacy", "current"}, records \in Records :
       /\ tables = [v1 |-> IF version = "v1" THEN stored ELSE Empty,
                    v2 |-> IF version = "v2" THEN stored ELSE Empty,
                    index |-> {}, marks |-> IF version = "v1" THEN {} ELSE {"v2"},
                    revision |-> IF stored = Empty /\ records = <<>> THEN 0 ELSE 1]
       /\ files = [database |-> name, journal |-> name]
       /\ wal = records
       /\ expected = Apply(stored, records)
  /\ bulk = [v2 |-> tables.v2, revision |-> tables.revision]

Next ==
  \/ \E export \in Exports \cup {<<>>}, target \in Projects \cup {None} :
       (export = <<>> => target = None) /\ Start(export, target)
  \/ adopt_legacy_files \/ migrate_legacy_documents \/ migrate_ordered_scope_indexes
  \/ replay_records \/ checkpoint \/ load_database
  \/ SeedBatch \/ SeedFinish
  \/ \E d \in Docs, v \in Values \cup {None} : append(d, v)
  \/ Persist \/ firestore_exit_code \/ Kill

Spec == Init /\ [][Next]_vars

-----------------------------------------------------------------------------

(* DirectoryKept: whenever the process serves, its documents and its index   *)
(* are those of the commits made so far, by it and by the versions before    *)
(* it: the copy of the old table never comes back over a later write or      *)
(* delete, however often the process was killed between its migrations, the  *)
(* replay and the truncation of the journal; a seed is there as a whole,     *)
(* under the project it was seeded for, or not at all; no directory is       *)
(* refused; and both files are under the current name (adopt_legacy_files,   *)
(* migrate_legacy_documents, replay_records, seed_store_from_export).        *)
DirectoryKept ==
  /\ process /= "corrupt"
  /\ process = "serving" =>
       /\ tables.v2 = expected
       /\ tables.index = Present(expected)
       /\ files = [database |-> "current", journal |-> "current"]
=============================================================================
