----------------------------- MODULE CoreStore -----------------------------
(***************************************************************************)
(* The in-memory State of core-store (crates/core-store/src/lib.rs): MVCC  *)
(* documents, the bounded change log that reconstructs older revisions,    *)
(* the commit-time index, and the reference-counted accounting that bounds *)
(* the log by bytes.  A commit holds the state mutex from plan to install; *)
(* its loops are modelled one iteration per action, and nobody reads the   *)
(* state before `pc` is "idle" again.                                      *)
(***************************************************************************)
EXTENDS Naturals, Sequences, FiniteSets

CONSTANTS
    Keys,           \* document keys
    Values,         \* field maps
    Absent,         \* what a key without a document holds
    CollectionOf,   \* the collection of each key
    Size,           \* the logical bytes of a document with these fields
    MaxEntries,     \* StoreOptions::max_change_log_entries
    MaxBytes,       \* StoreOptions::max_change_log_logical_bytes
    MaxWrites,      \* bound: writes in one commit
    MaxRevision,    \* bound: the largest revision (u64::MAX in the code)
    MaxTime         \* bound: the largest commit time

ASSUME AbsentAssumption == Absent \notin Values
ASSUME LimitsAssumption == MaxEntries \in Nat \ {0} /\ MaxBytes \in Nat \ {0}
ASSUME SizeAssumption == Size \in [Values -> Nat \ {0}]
ASSUME BoundsAssumption == MaxWrites \in Nat /\ MaxTime \in Nat
                           /\ MaxRevision \in 1 .. MaxTime

VARIABLES
    pc,                 \* where the holder of the state mutex is
    revision,           \* State::revision
    last_commit_time,   \* State::last_commit_time
    documents,          \* State::documents
    collections,        \* State::collections (collection_groups is its twin)
    change_log,         \* State::change_log
    change_floor,       \* State::change_floor
    commit_times,       \* State::commit_times
    history_floor,      \* State::history_floor
    replay,             \* State::replay_versions and their total logical bytes
    plan,               \* the CommitPlan under way
    history,            \* ghost: history[r + 1] is what revision r contains
    released            \* ghost: history and floors when the mutex was taken

state == <<revision, last_commit_time, documents, collections>>
log   == <<change_log, change_floor, replay>>
times == <<commit_times, history_floor>>
ghost == <<history, released>>
vars  == <<pc, state, log, times, plan, ghost>>

-----------------------------------------------------------------------------
Revisions == 0 .. MaxRevision
Times     == 0 .. MaxTime
Stored    == [value : Values, update_time : Times]
Documents == [Keys -> Stored \cup {Absent}]
Change    == [revision : Revisions, key : Keys,
              before : Stored \cup {Absent}, after : Stored \cup {Absent}]
CommitPoint     == [revision : Revisions, time : Times]
DocumentVersion == Keys \X Times
RetainedVersion == [references : Nat, bytes : Nat]
ReplayVersions  == [versions : UNION {[V -> RetainedVersion] : V \in SUBSET DocumentVersion},
                    bytes : Nat]
Collections     == {CollectionOf[k] : k \in Keys}

NoDocuments == [k \in Keys |-> Absent]
NoPlan      == [time |-> 0, documents |-> NoDocuments, changes |-> <<>>, writes |-> 0]
Origin      == [revision |-> 0, time |-> 0]

(* The preconditions of a write, and the writes themselves. *)
Preconditions == [type : {"none"}] \cup [type : {"exists"}, expected : BOOLEAN]
                 \cup [type : {"update_time"}, expected : Times]
Writes == [op : {"create"}, key : Keys, value : Values]
          \cup [op : {"set", "patch"}, key : Keys, value : Values,
                precondition : Preconditions]
          \cup [op : {"delete", "verify"}, key : Keys, precondition : Preconditions]

validate_precondition(document, p) ==
    CASE p.type = "none"        -> TRUE
      [] p.type = "exists"      -> (document # Absent) = p.expected
      [] p.type = "update_time" -> document # Absent /\ document.update_time = p.expected

(* The error paths of apply_write. *)
Accepts(w, docs) ==
    IF w.op = "create" THEN docs[w.key] = Absent
                       ELSE validate_precondition(docs[w.key], w.precondition)

(* What apply_write leaves under the write's key.  A set to the same fields *)
(* keeps the document and its update time; a patch (and a set with         *)
(* transforms) always makes a new version.                                 *)
apply_write(w, docs, time) ==
    CASE w.op = "verify" -> docs[w.key]
      [] w.op = "delete" -> Absent
      [] w.op = "set" /\ docs[w.key] # Absent /\ docs[w.key].value = w.value -> docs[w.key]
      [] OTHER -> [value |-> w.value, update_time |-> time]

(* Fault: the clock is trusted to move forward. *)
ClockTime(c) == c

(* State::next_commit_time for a clock that reads c. *)
next_commit_time(c) == IF c > last_commit_time THEN c ELSE last_commit_time + 1

-----------------------------------------------------------------------------
(* The byte accounting of the documents that the change log holds on to.   *)
DocumentVersionOf(key, document) == <<key, document.update_time>>

add_replay_version(r, key, document) ==
    IF document = Absent THEN r
    ELSE LET v == DocumentVersionOf(key, document) IN
         IF v \in DOMAIN r.versions
           THEN [r EXCEPT !.versions[v].references = @ + 1]
           ELSE [versions |-> [u \in DOMAIN r.versions \cup {v} |->
                                  IF u = v THEN [references |-> 1, bytes |-> Size[document.value]]
                                           ELSE r.versions[u]],
                 bytes    |-> r.bytes + Size[document.value]]

Discard(r, v) ==
    [versions |-> [u \in DOMAIN r.versions \ {v} |-> r.versions[u]],
     bytes    |-> IF r.bytes > r.versions[v].bytes THEN r.bytes - r.versions[v].bytes ELSE 0]

remove_replay_version(r, key, document) ==
    LET v == DocumentVersionOf(key, document) IN
    IF document = Absent \/ v \notin DOMAIN r.versions THEN r
    ELSE IF r.versions[v].references <= 1 THEN Discard(r, v)
    ELSE [r EXCEPT !.versions[v].references = @ - 1]

OverLimit == Len(change_log) > MaxEntries \/ replay.bytes > MaxBytes

update_collection_index(index, key, present) ==
    [index EXCEPT ![CollectionOf[key]] = IF present THEN @ \cup {key} ELSE @ \ {key}]

-----------------------------------------------------------------------------
Init ==
    /\ pc = "idle"
    /\ revision = 0
    /\ last_commit_time = 0
    /\ documents = NoDocuments
    /\ collections = [c \in Collections |-> {}]
    /\ change_log = <<>>
    /\ change_floor = 0
    /\ commit_times = <<>>
    /\ history_floor = Origin
    /\ replay = [versions |-> <<>>, bytes |-> 0]
    /\ plan = NoPlan
    /\ history = <<[time |-> 0, docs |-> NoDocuments]>>
    /\ released = [history |-> history, change_floor |-> 0, history_floor |-> 0]

(* checked_add finds a next revision. *)
RevisionLeft == revision < MaxRevision

(* Store::commit takes the mutex; State::plan_with_documents starts.  The  *)
(* bounded clock leaves a time for every revision that is left.            *)
BeginCommit(c) ==
    /\ pc = "idle"
    /\ RevisionLeft
    /\ next_commit_time(c) + (MaxRevision - revision) <= MaxTime + 1
    /\ plan' = [time |-> next_commit_time(c), documents |-> documents,
                changes |-> <<>>, writes |-> 0]
    /\ released' = [history |-> history, change_floor |-> change_floor,
                    history_floor |-> history_floor.revision]
    /\ pc' = "plan"
    /\ UNCHANGED <<state, log, times, history>>

(* No revision is left: the commit fails and changes nothing. *)
RevisionExhausted ==
    /\ pc = "idle"
    /\ ~RevisionLeft
    /\ UNCHANGED vars

(* Whether a write is a change: the fields or the update time differ. *)
Differs(before, after) == before # after

(* One write of the plan, and the change it makes, if it makes one.        *)
PlanWrite(w) ==
    /\ pc = "plan"
    /\ plan.writes < MaxWrites
    /\ Accepts(w, plan.documents)
    /\ LET next == apply_write(w, plan.documents, plan.time)
           change == [revision |-> revision + 1, key |-> w.key,
                      before |-> plan.documents[w.key], after |-> next]
       IN  plan' = [plan EXCEPT
                      !.documents[w.key] = next,
                      !.changes = IF Differs(change.before, next) THEN Append(@, change) ELSE @,
                      !.writes = @ + 1]
    /\ UNCHANGED <<pc, state, log, times, ghost>>

(* A write that fails fails the whole commit. *)
WriteFails(w) ==
    /\ pc = "plan"
    /\ plan.writes < MaxWrites
    /\ ~Accepts(w, plan.documents)
    /\ plan' = NoPlan
    /\ pc' = "idle"
    /\ UNCHANGED <<state, log, times, ghost>>

(* State::install: the documents, then install_metadata change by change.  *)
Install ==
    /\ pc = "plan"
    /\ documents' = plan.documents
    /\ revision' = revision + 1
    /\ last_commit_time' = plan.time
    /\ history' = Append(history, [time |-> plan.time, docs |-> plan.documents])
    /\ pc' = "push"
    /\ UNCHANGED <<collections, log, times, plan, released>>

push_change ==
    /\ pc = "push" /\ plan.changes # <<>>
    /\ LET change == Head(plan.changes) IN
       /\ collections' = update_collection_index(collections, change.key,
                                                 change.after # Absent)
       /\ replay' = add_replay_version(add_replay_version(replay, change.key, change.before),
                                       change.key, change.after)
       /\ change_log' = Append(change_log, change)
    /\ plan' = [plan EXCEPT !.changes = Tail(@)]
    /\ pc' = "evict"
    /\ UNCHANGED <<revision, last_commit_time, documents, change_floor, times, ghost>>

FloorAfter(removed) == IF removed.revision > change_floor THEN removed.revision
                                                         ELSE change_floor

(* push_change's loop: the oldest changes go until the log fits.  On an    *)
(* empty log it would turn without an effect.                              *)
Evict ==
    /\ pc = "evict" /\ OverLimit
    /\ IF change_log = <<>> THEN UNCHANGED log
       ELSE LET removed == Head(change_log) IN
            /\ replay' = remove_replay_version(
                             remove_replay_version(replay, removed.key, removed.before),
                             removed.key, removed.after)
            /\ change_floor' = FloorAfter(removed)
            /\ change_log' = Tail(change_log)
    /\ UNCHANGED <<pc, state, times, plan, ghost>>

EvictDone ==
    /\ pc = "evict" /\ ~OverLimit
    /\ pc' = "push"
    /\ UNCHANGED <<state, log, times, plan, ghost>>

push_commit_point ==
    /\ pc = "push" /\ plan.changes = <<>>
    /\ commit_times' = Append(commit_times, [revision |-> revision, time |-> last_commit_time])
    /\ pc' = "expire"
    /\ UNCHANGED <<state, log, history_floor, plan, ghost>>

(* Fault: only the length of the index is bounded. *)
PointOverLength == Len(commit_times) > MaxEntries

(* The front point goes when the index is too long, or when the change log *)
(* can no longer reconstruct its revision (the two loops of the method).   *)
PointExpired ==
    \/ Len(commit_times) > MaxEntries
    \/ commit_times # <<>> /\ Head(commit_times).revision <= change_floor

DropCommitPoint ==
    /\ pc = "expire" /\ PointExpired
    /\ history_floor' = Head(commit_times)
    /\ commit_times' = Tail(commit_times)
    /\ UNCHANGED <<pc, state, log, plan, ghost>>

(* The mutex is released. *)
Release ==
    /\ pc = "expire" /\ ~PointExpired
    /\ plan' = NoPlan
    /\ pc' = "idle"
    /\ UNCHANGED <<state, log, times, ghost>>

Next ==
    \/ \E c \in Times : BeginCommit(c)
    \/ RevisionExhausted
    \/ \E w \in Writes : PlanWrite(w) \/ WriteFails(w)
    \/ Install \/ push_change \/ Evict \/ EvictDone
    \/ push_commit_point \/ DropCommitPoint \/ Release

Spec == Init /\ [][Next]_vars

-----------------------------------------------------------------------------
(* What readers ask of the state between commits.                          *)
Newer(key, r) ==
    {i \in 1 .. Len(change_log) : change_log[i].key = key /\ change_log[i].revision > r}

(* Undoing the newer changes backwards ends with the oldest one's before.  *)
snapshot_at_revision(r) ==
    [k \in Keys |->
        IF Newer(k, r) = {} THEN documents[k]
        ELSE change_log[CHOOSE i \in Newer(k, r) : \A j \in Newer(k, r) : i <= j].before]

CollectionsAt(r) ==
    [c \in Collections |->
        {k \in Keys : CollectionOf[k] = c /\
            IF Newer(k, r) = {} THEN k \in collections[c]
            ELSE change_log[CHOOSE i \in Newer(k, r) : \A j \in Newer(k, r) : i <= j].before
                    # Absent}]

(* The revision that snapshot_at_time reads for a time from the floor on.  *)
RevisionAt(t) ==
    LET upto == {i \in 1 .. Len(commit_times) : \A j \in 1 .. i : commit_times[j].time <= t}
    IN  IF upto = {} THEN history_floor.revision
        ELSE commit_times[CHOOSE i \in upto : \A j \in upto : j <= i].revision

(* The positions in the log of the changes that changes_since returns, in    *)
(* the log's order.                                                          *)
changes_since(after) == {i \in 1 .. Len(change_log) : change_log[i].revision > after}

-----------------------------------------------------------------------------
(* Every variable has its type. *)
TypeOK ==
    /\ pc \in {"idle", "plan", "push", "evict", "expire"}
    /\ revision \in Revisions
    /\ last_commit_time \in Times
    /\ documents \in Documents
    /\ collections \in [Collections -> SUBSET Keys]
    /\ change_log \in Seq(Change)
    /\ change_floor \in Revisions
    /\ commit_times \in Seq(CommitPoint)
    /\ history_floor \in CommitPoint
    /\ replay \in ReplayVersions
    /\ plan \in [time : Times, documents : Documents, changes : Seq(Change), writes : 0 .. MaxWrites]
    /\ history \in Seq([time : Times, docs : Documents])
    /\ released \in [history : Seq([time : Times, docs : Documents]), change_floor : Revisions,
                     history_floor : Revisions]

(* Every revision from the floor on is reconstructed exactly, documents and *)
(* collection index, however the log was cut (snapshot_at_revision).        *)
SnapshotsExact ==
    pc = "idle" => \A r \in change_floor .. revision :
        /\ snapshot_at_revision(r) = history[r + 1].docs
        /\ \A c \in Collections :
              CollectionsAt(r)[c] = {k \in Keys : CollectionOf[k] = c
                                                  /\ history[r + 1].docs[k] # Absent}

(* A read time that is not refused names the last commit at or before it,   *)
(* and that revision can still be reconstructed (snapshot_at_time).         *)
ReadTimesExact ==
    pc = "idle" => \A t \in history_floor.time .. MaxTime :
        /\ RevisionAt(t) \in change_floor .. revision
        /\ history[RevisionAt(t) + 1].time <= t
        /\ \A q \in 0 .. revision : history[q + 1].time <= t => q <= RevisionAt(t)

(* changes_since never skips a revision's change to a key: what it returns  *)
(* leads from the one revision's documents to the next one's.               *)
ChangesComplete ==
    pc = "idle" => \A q \in (change_floor + 1) .. revision, k \in Keys :
        LET of == {i \in changes_since(q - 1) : change_log[i].key = k /\ change_log[i].revision = q}
        IN  IF of = {} THEN history[q].docs[k] = history[q + 1].docs[k]
            ELSE \A i \in of :
                 /\ (\A j \in of : i <= j) => change_log[i].before = history[q].docs[k]
                 /\ (\A j \in of : j <= i) => change_log[i].after = history[q + 1].docs[k]

(* The references to a version are exactly the changes that mention it, so  *)
(* an empty log accounts for no bytes and push_change's loop cannot spin.   *)
Mentions(key, document, v) == document # Absent /\ DocumentVersionOf(key, document) = v
References(v) ==
    Cardinality({i \in 1 .. Len(change_log) : Mentions(change_log[i].key, change_log[i].before, v)})
    + Cardinality({i \in 1 .. Len(change_log) : Mentions(change_log[i].key, change_log[i].after, v)})

VersionsCounted ==
    /\ \A v \in DocumentVersion :
          References(v) = IF v \in DOMAIN replay.versions
                            THEN replay.versions[v].references ELSE 0
    /\ change_log = <<>> => replay.bytes = 0

(* What the store answers of the past is exact, however its log was cut     *)
(* (snapshot_at_revision, snapshot_at_time, changes_since, push_change).    *)
AnswersExact == SnapshotsExact /\ ReadTimesExact /\ ChangesComplete /\ VersionsCounted

(* Between commits the State is what VersionedStore promises.               *)
Versioned == INSTANCE VersionedStore WITH
    history       <- IF pc = "idle" THEN history ELSE released.history,
    change_floor  <- IF pc = "idle" THEN change_floor ELSE released.change_floor,
    history_floor <- IF pc = "idle" THEN history_floor.revision ELSE released.history_floor
ImplementsVersionedStore == Versioned!StoreSpec
=============================================================================
