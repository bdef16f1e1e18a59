----------------------------- MODULE DiskStore -----------------------------
(***************************************************************************)
(* The disk backend of core-store (crates/core-store/src/disk.rs): a redb  *)
(* database, the write-ahead journal in front of it, the write-behind      *)
(* flusher and the bulk loader, with the process and the machine dying     *)
(* between any two of their I/O calls, and each of those calls failing.    *)
(*                                                                         *)
(* Every operation holds the state mutex from its first step to its last,  *)
(* so one program counter `pc` stands for all threads: it says where the   *)
(* holder of the mutex is, and "idle" that nobody holds it.                *)
(***************************************************************************)
EXTENDS Naturals, Sequences

CONSTANTS
    Keys,           \* document keys
    Values,         \* document values
    Absent,         \* the value of a key that has no document
    Journaled,      \* DiskOptions::journal, fixed for one data directory
    Durabilities,   \* the durability modes an open may choose
    GarbledCuts,    \* TRUE iff a power cut may leave unsynced bytes wrong
                    \* (zeroed or reordered pages), not only missing
    MaxRevision,    \* the largest revision (u64::MAX in the code)
    MaxTime         \* the largest commit time the clock reaches

ASSUME AbsentAssumption == Absent \notin Values
ASSUME ModesAssumption ==
    /\ Journaled \in BOOLEAN
    /\ Durabilities \subseteq {"per_commit", "write_behind"}
    /\ GarbledCuts \in BOOLEAN
ASSUME BoundsAssumption == MaxRevision \in Nat /\ MaxTime \in Nat

VARIABLES
    pc,                 \* what the holder of the state mutex is about to do
    durability,         \* DiskState::durability
    memory,             \* DiskState::memory, its revision and last_commit_time
    requires_restart,   \* DiskState::requires_restart
    unflushed,          \* DiskState::unflushed
    plan,               \* the WalRecord of the commit under way
    batches,            \* DiskBulkCommit::batches
    transaction,        \* the documents of the open bulk write transaction
    database,           \* redb as this process reads it
    durable,            \* redb as the drive holds it
    journal,            \* the journal's whole frames, as the OS reads them
    tail,               \* what follows the last whole frame
    synced,             \* the whole frames of the journal on the drive
    history,            \* ghost: history[r + 1] is what revision r contains
    acked,              \* ghost: the last revision acknowledged or recovered
    safe                \* ghost: the last revision promised to be durable

mutex == <<pc, durability>>
state == <<memory, requires_restart, unflushed>>
local == <<plan, batches, transaction>>
files == <<database, durable, journal, tail, synced>>
ghost == <<history, acked, safe>>
vars  == <<mutex, state, local, files, ghost>>

-----------------------------------------------------------------------------
Documents == [Keys -> Values \cup {Absent}]
Mutations == UNION {[K -> Values \cup {Absent}] : K \in SUBSET Keys}
Revisions == 0 .. MaxRevision
Times     == 0 .. MaxTime

Contents  == [time : Times, docs : Documents]
Blank     == [time |-> 0, docs |-> [k \in Keys |-> Absent]]
WalRecord == [revision : Revisions, time : Times, mutations : Mutations]
Persisted == [revision : Revisions, time : Times, docs : Documents]
NoRecord  == [revision |-> 0, time |-> 0, mutations |-> [k \in {} |-> Absent]]

(* The mutations of one record, as apply_mutations writes them to redb. *)
apply_mutations(docs, mutations) ==
    [k \in Keys |-> IF k \in DOMAIN mutations THEN mutations[k] ELSE docs[k]]

(* Fault: a record's deletions are not written. *)
PersistKeepsDeleted(db, record) ==
    [revision |-> record.revision, time |-> record.time,
     docs |-> [k \in Keys |-> IF k \in DOMAIN record.mutations
                                  /\ record.mutations[k] # Absent
                                THEN record.mutations[k] ELSE db.docs[k]]]

(* One redb write transaction: the record's documents and persist_state.   *)
persist_record(db, record) ==
    [revision |-> record.revision, time |-> record.time,
     docs |-> apply_mutations(db.docs, record.mutations)]

(* persist_state: the State's revision and time beside the documents. *)
PersistState(docs) ==
    [revision |-> memory.revision, time |-> memory.time, docs |-> docs]

(* A redb write transaction commits (external): this process sees it at    *)
(* once, the drive holds it only if its durability is Immediate.  One that *)
(* fails leaves the process its old view, and the drive the old or the new.*)
RedbCommit(level, db) ==
    /\ database' = db
    /\ durable' = IF level = "Immediate" THEN db ELSE durable

RedbCommitFails(level, db) ==
    /\ \/ UNCHANGED durable
       \/ level = "Immediate" /\ durable' = db
    /\ UNCHANGED database

(* Fault: every commit is left to the flusher. *)
NeverImmediate == "None"

redb_durability == IF durability = "per_commit" THEN "Immediate" ELSE "None"

(* Fault: an ambiguous write error is only reported. *)
NoFence == UNCHANGED requires_restart

(* After an ambiguous write error the store refuses commits until reopened.*)
Fence == requires_restart' = TRUE

-----------------------------------------------------------------------------
(* What reopening the present files would recover.                         *)
RecoveredFrom(db, frames) ==
    IF Len(frames) > 0 /\ frames[Len(frames)].revision > db.revision
      THEN frames[Len(frames)].revision
      ELSE db.revision

Recoverable == RecoveredFrom(durable, journal)

(* The records that replay_records does not skip. *)
Unreplayed == {i \in 1 .. Len(journal) : journal[i].revision > durable.revision}

-----------------------------------------------------------------------------
Init ==
    /\ pc = "crashed"
    /\ durability \in Durabilities
    /\ memory = [revision |-> 0, time |-> 0]
    /\ requires_restart = FALSE
    /\ unflushed = FALSE
    /\ plan = NoRecord
    /\ batches = 0
    /\ transaction = Blank.docs
    /\ database = [revision |-> 0, time |-> 0, docs |-> Blank.docs]
    /\ durable = database
    /\ journal = <<>>
    /\ tail = "clean"
    /\ synced = <<>>
    /\ history = <<Blank>>
    /\ acked = 0
    /\ safe = 0

-----------------------------------------------------------------------------
(* DiskStore::open.  ProcessCrash below also stands for its early returns  *)
(* on an I/O error: nothing of the store survives them but the files.      *)

(* Journal::open: a short last frame is cut off; a frame of full length     *)
(* whose magic or checksum is wrong makes open fail.                       *)
OpenJournal ==
    /\ pc \in {"crashed", "cut"}
    /\ Journaled /\ tail # "bad"
    /\ pc' = "replay"
    /\ tail' = "clean"
    /\ synced' = IF tail = "short" THEN journal ELSE synced
    /\ UNCHANGED <<durability, state, local, database, durable, journal, ghost>>

OpenRefusesTail ==
    /\ pc \in {"crashed", "cut"}
    /\ Journaled /\ tail = "bad"
    /\ pc' = "refused"
    /\ UNCHANGED <<durability, state, local, files, ghost>>

(* replay_records, the next record it does not skip: it must follow redb's *)
(* revision and commit time, and is persisted durably.                     *)
ReplayRecord ==
    /\ pc = "replay"
    /\ \E i \in Unreplayed :
        /\ \A j \in Unreplayed : i <= j
        /\ IF /\ journal[i].revision = durable.revision + 1
              /\ journal[i].time > durable.time
             THEN /\ RedbCommit("Immediate", persist_record(durable, journal[i]))
                  /\ UNCHANGED pc
             ELSE /\ pc' = "refused"
                  /\ UNCHANGED <<database, durable>>
    /\ UNCHANGED <<durability, state, local, journal, tail, synced, ghost>>

(* The replayed journal is truncated, the persisted state becomes the      *)
(* State of the new process, and the store serves.                         *)
Load(mode) ==
    /\ pc' = "idle"
    /\ durability' = mode
    /\ memory' = [revision |-> durable.revision, time |-> durable.time]
    /\ requires_restart' = FALSE
    /\ unflushed' = FALSE
    /\ safe' = durable.revision
    /\ UNCHANGED <<local, database, durable, history, acked>>

FinishOpen ==
    /\ pc = "replay" /\ Unreplayed = {}
    /\ journal' = <<>> /\ synced' = <<>>
    /\ \E mode \in Durabilities : Load(mode)
    /\ UNCHANGED tail

OpenWithoutJournal ==
    /\ pc \in {"crashed", "cut"}
    /\ ~Journaled
    /\ \E mode \in Durabilities : Load(mode)
    /\ UNCHANGED <<journal, tail, synced>>

-----------------------------------------------------------------------------
(* DiskStore::commit_observed, one action per I/O call.                    *)

(* Fault: the clock is trusted to move forward. *)
ClockTime(c) == c

(* State::next_commit_time for a clock that reads c: whatever the clock     *)
(* does, the new time is later than the last.                              *)
next_commit_time(c) == IF c > memory.time THEN c ELSE memory.time + 1

Plan(mutations, c) ==
    /\ pc = "idle"
    /\ ~requires_restart
    /\ memory.revision < MaxRevision
    /\ next_commit_time(c) <= MaxTime
    /\ plan' = [revision |-> memory.revision + 1, time |-> next_commit_time(c),
                mutations |-> mutations]
    /\ pc' = IF Journaled THEN "append" ELSE "persist"
    /\ history' = Append(history,
                         [time |-> next_commit_time(c),
                          docs |-> apply_mutations(history[Len(history)].docs, mutations)])
    /\ UNCHANGED <<durability, state, batches, transaction, files, acked, safe>>

(* The bytes of one frame reach the file.  After a torn frame they would   *)
(* only lengthen the damage.                                               *)
WriteFrame(record) ==
    IF tail = "clean"
      THEN journal' = Append(journal, record) /\ UNCHANGED tail
      ELSE tail' = "bad" /\ UNCHANGED journal

AppendJournal ==
    /\ pc = "append"
    /\ WriteFrame(plan)
    /\ synced' = IF durability = "per_commit" THEN journal' ELSE synced
    /\ pc' = "persist"
    /\ UNCHANGED <<durability, state, local, database, durable, ghost>>

(* Journal::append fails: before a byte is written (a record too large), in *)
(* the middle of the frame, or in the sync after it.                       *)
AppendFails ==
    /\ pc = "append"
    /\ \/ UNCHANGED <<journal, tail>>
       \/ tail' = (IF tail = "clean" THEN "short" ELSE "bad") /\ UNCHANGED journal
       \/ durability = "per_commit" /\ WriteFrame(plan)
    /\ Fence
    /\ pc' = "idle"
    /\ UNCHANGED <<durability, memory, unflushed, local, database, durable, synced, ghost>>

(* Fault: the flusher is not told. *)
ForgetUnflushed == UNCHANGED unflushed

(* A write-behind commit is left to the flusher. *)
MarkUnflushed == unflushed' = TRUE

(* redb commits, install_disk advances the State, and the caller is owed an *)
(* answer.                                                                  *)
PersistCommit ==
    /\ pc = "persist"
    /\ RedbCommit(redb_durability, persist_record(database, plan))
    /\ memory' = [revision |-> plan.revision, time |-> plan.time]
    /\ acked' = plan.revision
    /\ IF durability = "per_commit"
         THEN /\ safe' = plan.revision
              /\ pc' = IF Journaled THEN "checkpoint" ELSE "idle"
              /\ UNCHANGED unflushed
         ELSE /\ MarkUnflushed
              /\ pc' = "idle"
              /\ UNCHANGED safe
    /\ UNCHANGED <<durability, requires_restart, local, journal, tail, synced, history>>

PersistFails ==
    /\ pc = "persist"
    /\ RedbCommitFails(redb_durability, persist_record(database, plan))
    /\ Fence
    /\ pc' = "idle"
    /\ UNCHANGED <<durability, memory, unflushed, local, journal, tail, synced, ghost>>

(* Journal::checkpoint: set_len(0), then a sync that may fail. *)
Checkpoint ==
    /\ journal' = <<>>
    /\ tail' = "clean"
    /\ synced' = <<>>

CheckpointFails ==
    \/ UNCHANGED <<journal, tail, synced>>
    \/ journal' = <<>> /\ tail' = "clean" /\ UNCHANGED synced

(* A per-commit checkpoint whose failure is ignored. *)
CheckpointCommit ==
    /\ pc = "checkpoint"
    /\ Checkpoint \/ CheckpointFails
    /\ pc' = "idle"
    /\ UNCHANGED <<durability, state, local, database, durable, ghost>>

-----------------------------------------------------------------------------
(* flush_state, by the flusher thread or by Store::flush.                  *)

BeginFlush ==
    /\ pc = "idle"
    /\ unflushed /\ ~requires_restart
    /\ pc' = IF Journaled THEN "flush_sync" ELSE "flush_persist"
    /\ UNCHANGED <<durability, state, local, files, ghost>>

SyncJournal ==
    /\ pc = "flush_sync"
    /\ synced' = journal
    /\ pc' = "flush_persist"
    /\ UNCHANGED <<durability, state, local, database, durable, journal, tail, ghost>>

persist_state_durably ==
    /\ pc = "flush_persist"
    /\ RedbCommit("Immediate", PersistState(database.docs))
    /\ pc' = IF Journaled THEN "flush_checkpoint" ELSE "idle"
    /\ unflushed' = Journaled
    /\ safe' = IF Journaled THEN safe ELSE memory.revision
    /\ UNCHANGED <<durability, memory, requires_restart, local, journal, tail, synced,
                   history, acked>>

CheckpointFlush ==
    /\ pc = "flush_checkpoint"
    /\ Checkpoint
    /\ unflushed' = FALSE
    /\ pc' = "idle"
    /\ safe' = memory.revision
    /\ UNCHANGED <<durability, memory, requires_restart, local, database, durable,
                   history, acked>>

FlushFails ==
    /\ \/ pc = "flush_sync" /\ UNCHANGED files
       \/ /\ pc = "flush_persist"
          /\ RedbCommitFails("Immediate", PersistState(database.docs))
          /\ UNCHANGED <<journal, tail, synced>>
       \/ pc = "flush_checkpoint" /\ CheckpointFails /\ UNCHANGED <<database, durable>>
    /\ Fence
    /\ pc' = "idle"
    /\ UNCHANGED <<durability, memory, unflushed, local, ghost>>

-----------------------------------------------------------------------------
(* DiskBulkCommit: batches collect in one write transaction, past the      *)
(* journal, while the State advances as if they were committed.            *)

begin_bulk_commit ==
    /\ pc = "idle"
    /\ ~requires_restart
    /\ transaction' = database.docs
    /\ batches' = 0
    /\ pc' = "bulk"
    /\ UNCHANGED <<durability, state, plan, files, ghost>>

BulkBatch(mutations, c) ==
    /\ pc = "bulk"
    /\ memory.revision < MaxRevision
    /\ next_commit_time(c) <= MaxTime
    /\ transaction' = apply_mutations(transaction, mutations)
    /\ memory' = [revision |-> memory.revision + 1, time |-> next_commit_time(c)]
    /\ batches' = batches + 1
    /\ history' = Append(history,
                         [time |-> next_commit_time(c),
                          docs |-> apply_mutations(history[Len(history)].docs, mutations)])
    /\ UNCHANGED <<mutex, requires_restart, unflushed, plan, files, acked, safe>>

(* finish: no batch, nothing to commit; otherwise one durable commit. *)
BulkFinish ==
    /\ pc = "bulk"
    /\ IF batches = 0
         THEN UNCHANGED <<database, durable, acked, safe>>
         ELSE /\ RedbCommit("Immediate", PersistState(transaction))
              /\ acked' = memory.revision
              /\ safe' = memory.revision
    /\ pc' = "idle"
    /\ UNCHANGED <<durability, state, local, journal, tail, synced, history>>

BulkFinishFails ==
    /\ pc = "bulk"
    /\ batches > 0
    /\ RedbCommitFails("Immediate", PersistState(transaction))
    /\ Fence
    /\ pc' = "idle"
    /\ UNCHANGED <<durability, memory, unflushed, local, journal, tail, synced, ghost>>

(* abandon: a redb error in a batch, or the session dropped unfinished. *)
BulkAbandon ==
    /\ pc = "bulk"
    /\ requires_restart' = (batches > 0)
    /\ pc' = "idle"
    /\ UNCHANGED <<durability, memory, unflushed, local, files, ghost>>

-----------------------------------------------------------------------------
(* A set_len(0) of the journal may already be under way. *)
Truncating ==
    \/ pc \in {"checkpoint", "flush_checkpoint"}
    \/ pc = "replay" /\ Unreplayed = {}

(* The two ways to lose the process (external: the OS and redb).  redb     *)
(* falls back to its last durable commit; the OS keeps every written       *)
(* byte when only the process dies, half a frame included.                 *)
Outage(reason) ==
    /\ pc' = reason
    /\ database' = durable
    /\ memory' = [revision |-> 0, time |-> 0]
    /\ requires_restart' = FALSE
    /\ unflushed' = FALSE
    /\ plan' = NoRecord
    /\ batches' = 0
    /\ transaction' = Blank.docs
    /\ acked' = RecoveredFrom(durable, journal')
    /\ history' = SubSeq(history, 1, acked' + 1)
    /\ UNCHANGED <<durability, durable, safe>>

ProcessCrash ==
    /\ pc \notin {"crashed", "cut"}
    /\ \/ UNCHANGED <<journal, tail>>
       \/ pc = "append" /\ tail' = "short" /\ UNCHANGED journal
       \/ Truncating /\ journal' = <<>> /\ UNCHANGED tail
    /\ Outage("crashed")
    /\ UNCHANGED synced

(* The whole frames that may be on the drive: at least the synced ones, or,*)
(* while a truncation is not synced, the old frames or some of the new.    *)
SurvivingFrames ==
    IF Truncating \/ Len(synced) > Len(journal) \/ synced # SubSeq(journal, 1, Len(synced))
      THEN {synced} \cup {SubSeq(journal, 1, n) : n \in 0 .. Len(journal)}
      ELSE {SubSeq(journal, 1, n) : n \in Len(synced) .. Len(journal)}

PowerCut ==
    /\ pc # "cut"
    /\ journal' \in SurvivingFrames
    /\ tail' \in IF journal' = journal /\ tail = "clean" /\ pc # "append" THEN {"clean"}
                 ELSE IF GarbledCuts THEN {"clean", "short", "bad"}
                 ELSE {"clean", "short"}
    /\ synced' = journal'
    /\ Outage("cut")

-----------------------------------------------------------------------------
Open  == OpenJournal \/ OpenRefusesTail \/ ReplayRecord \/ FinishOpen \/ OpenWithoutJournal
Commit == \/ \E m \in Mutations, c \in Times : Plan(m, c)
          \/ AppendJournal \/ AppendFails \/ PersistCommit \/ PersistFails \/ CheckpointCommit
FlushStep == SyncJournal \/ persist_state_durably \/ CheckpointFlush \/ FlushFails
Bulk  == \/ begin_bulk_commit
         \/ \E m \in Mutations, c \in Times : BulkBatch(m, c)
         \/ BulkFinish \/ BulkFinishFails \/ BulkAbandon

Next == Open \/ Commit \/ BeginFlush \/ FlushStep \/ Bulk \/ ProcessCrash \/ PowerCut

Spec == Init /\ [][Next]_vars

(* The flusher thread sleeps, then waits for the mutex; other threads keep  *)
(* taking it, so only strong fairness says that it is ever granted.  An    *)
(* operation that holds the mutex always goes on.                          *)
Fairness ==
    /\ SF_vars(BeginFlush)
    /\ WF_vars(FlushStep)
    /\ WF_vars(AppendJournal \/ AppendFails \/ PersistCommit \/ PersistFails
               \/ CheckpointCommit)
    /\ WF_vars(BulkFinish \/ BulkFinishFails \/ BulkAbandon)

FairSpec == Spec /\ Fairness

-----------------------------------------------------------------------------
PCs == {"crashed", "cut", "refused", "replay", "idle", "append", "persist",
        "checkpoint", "flush_sync", "flush_persist", "flush_checkpoint", "bulk"}

Down    == {"crashed", "cut", "refused", "replay"}
Serving == PCs \ Down

(* Every variable has its type. *)
TypeOK ==
    /\ pc \in PCs
    /\ durability \in Durabilities
    /\ memory \in [revision : Revisions, time : Times]
    /\ requires_restart \in BOOLEAN
    /\ unflushed \in BOOLEAN
    /\ plan \in WalRecord
    /\ batches \in Revisions
    /\ transaction \in Documents
    /\ database \in Persisted
    /\ durable \in Persisted
    /\ journal \in Seq(WalRecord)
    /\ tail \in {"clean", "short", "bad"}
    /\ synced \in Seq(WalRecord)
    /\ history \in Seq(Contents)
    /\ acked \in Revisions
    /\ safe \in Revisions

(* A reader is served exactly the contents of the last acknowledged         *)
(* revision: no lost, repeated or half-recovered commit, whatever failures  *)
(* and restarts came before (commit_observed, replay_records, finish).      *)
ServesAcknowledged ==
    pc \in Serving =>
        /\ database.revision = acked
        /\ database.time = history[acked + 1].time
        /\ database.docs = history[acked + 1].docs

(* With the journal on, an acknowledged commit outlives the process: redb's *)
(* durable state and the journal's frames always recover it.                *)
CrashKeepsAcknowledged == Journaled => acked <= Recoverable

(* What a flush, a per-commit acknowledgement or a finished bulk load       *)
(* promised survives a power cut at any moment, whichever unsynced bytes    *)
(* reach the drive.                                                         *)
CutKeepsSafe ==
    \A frames \in SurvivingFrames : safe <= RecoveredFrom(durable, frames)

(* Replay never meets a gap in the revisions or a commit time that does not *)
(* increase: open fails only on bytes that a power cut garbled.             *)
ReplayNeverRefuses == pc = "refused" => tail = "bad"

(***************************************************************************)
(* The inductive invariant behind these properties.                        *)
(***************************************************************************)

(* The ghost history is well formed and redb's durable state is one of its *)
(* entries; what was promised durable is durable.                          *)
HistoryOK ==
    /\ \A i, j \in 1 .. Len(history) : i < j => history[i].time < history[j].time
    /\ acked < Len(history) /\ durable.revision < Len(history)
    /\ Len(history) <= MaxRevision + 1
    /\ durable.time = history[durable.revision + 1].time
    /\ durable.docs = history[durable.revision + 1].docs
    /\ safe <= durable.revision /\ safe <= acked

(* From the first frame newer than redb on, the journal holds consecutive  *)
(* revisions, each one's record leading from its predecessor's contents to *)
(* its own.  (Older frames may be anything: replay skips them.)            *)
FramesOK ==
    \A i \in 1 .. Len(journal) : journal[i].revision > durable.revision =>
        LET r == journal[i].revision IN
        /\ r < Len(history)
        /\ journal[i].time = history[r + 1].time
        /\ history[r + 1].docs = apply_mutations(history[r].docs, journal[i].mutations)
        /\ \A j \in 1 .. Len(journal) : i < j => journal[j].revision > r
        /\ r = durable.revision + 1 \/ (i > 1 /\ journal[i - 1].revision = r - 1)

(* The frames on the drive are the journal's first ones, or all stale. *)
SyncedOK ==
    \/ \A i \in 1 .. Len(synced) : synced[i].revision <= durable.revision
    \/ Len(synced) <= Len(journal) /\ \A i \in 1 .. Len(synced) : synced[i] = journal[i]

NoJournalOK ==
    ~Journaled =>
        /\ journal = <<>> /\ synced = <<>> /\ tail = "clean"
        /\ pc \notin {"refused", "replay", "append", "checkpoint", "flush_sync",
                      "flush_checkpoint"}

(* Between an outage and the end of the replay, the ghosts name exactly     *)
(* what the files recover.                                                  *)
DownOK ==
    pc \in Down =>
        /\ database = durable
        /\ acked = Recoverable
        /\ Len(history) = acked + 1
        /\ pc = "replay" => tail = "clean"

(* While the store takes commits, its State is at the end of the history,   *)
(* the journal ends in a whole frame, and no frame is ahead of the State.   *)
WorkingOK ==
    pc \in Serving /\ ~requires_restart =>
        /\ tail = "clean"
        /\ memory.time = history[memory.revision + 1].time
        /\ Len(history) = memory.revision + IF pc \in {"append", "persist"} THEN 2 ELSE 1
        /\ memory.revision = acked + IF pc = "bulk" THEN batches ELSE 0
        /\ durable.revision <= acked
        /\ \A i \in 1 .. Len(journal) :
              journal[i].revision <= acked \/ (pc = "persist" /\ i = Len(journal))

(* The holder of the mutex agrees with the State and the files. *)
HolderOK ==
    /\ pc \in Serving \ {"idle"} => ~requires_restart
    /\ pc \in {"append", "persist"} =>
        /\ plan.revision = memory.revision + 1
        /\ plan.time = history[plan.revision + 1].time
        /\ history[plan.revision + 1].docs =
               apply_mutations(history[plan.revision].docs, plan.mutations)
    /\ pc = "persist" /\ Journaled =>
        Len(journal) > 0 /\ journal[Len(journal)] = plan
    /\ pc \in {"checkpoint", "flush_checkpoint"} => durable.revision = acked
    /\ pc = "bulk" => transaction = history[Len(history)].docs

IInv ==
    /\ TypeOK
    /\ HistoryOK
    /\ FramesOK
    /\ SyncedOK
    /\ NoJournalOK
    /\ DownOK
    /\ WorkingOK
    /\ HolderOK
    /\ ServesAcknowledged
    /\ CrashKeepsAcknowledged
    /\ ReplayNeverRefuses

-----------------------------------------------------------------------------
(* Everything the disk store does is allowed by DurableStore.               *)
Durable == INSTANCE DurableStore WITH
    Blank     <- Blank,
    CrashSafe <- Journaled,
    status    <- IF pc = "cut" THEN "cut"
                 ELSE IF pc \in {"crashed", "refused"} THEN "crashed" ELSE "open",
    log       <- SubSeq(history, 1, acked + 1),
    safe      <- safe + 1
ImplementsDurableStore == Durable!Spec

(* The flusher makes every acknowledged commit durable, unless the store    *)
(* stops taking commits or dies first (spawn_flusher, flush_state).         *)
CommitsAreFlushed ==
    \A r \in 1 .. MaxRevision :
        []<>(acked < r \/ safe >= r \/ requires_restart \/ pc \in Down)

(* "the journal's framing and CRCs end replay at a torn tail": opening      *)
(* after a power cut succeeds, with what the readable frames hold.          *)
TornTailEndsReplay == pc # "refused"
=============================================================================
