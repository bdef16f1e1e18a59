--------------------------- MODULE VersionedStore ---------------------------
(***************************************************************************)
(* What core-store's Store promises its users (the Firestore front ends):  *)
(* one revision after another, each with its own contents and commit time, *)
(* and a bounded past.  snapshot_at(r) and changes_since(r) answer for     *)
(* every revision from change_floor on, snapshot_at_time for every time    *)
(* from history_floor on.  CoreStore implements this specification; the    *)
(* modules of the front ends extend it.                                    *)
(***************************************************************************)
EXTENDS Naturals, Sequences

CONSTANTS
    Keys,           \* document keys
    Stored,         \* what a key may hold
    Absent          \* what a key without a document holds

ASSUME StoredAssumption == Absent \notin Stored

VARIABLES
    history,        \* history[r + 1]: commit time and documents of revision r
    change_floor,   \* the oldest revision that can be reconstructed
    history_floor   \* the oldest revision that a read time can name

store == <<history, change_floor, history_floor>>

Documents == [Keys -> Stored \cup {Absent}]
NoDocuments == [k \in Keys |-> Absent]

StoreInit ==
    /\ history = <<[time |-> 0, docs |-> NoDocuments]>>
    /\ change_floor = 0
    /\ history_floor = 0

revision   == Len(history) - 1
DocsAt(r)  == history[r + 1].docs
TimeOf(r)  == history[r + 1].time

(* Store::commit: a new revision, later than the last; the past may shrink. *)
Commit(docs, time) ==
    /\ time > TimeOf(revision)
    /\ history' = Append(history, [time |-> time, docs |-> docs])
    /\ change_floor' \in change_floor .. Len(history)
    /\ history_floor' \in history_floor .. Len(history)
    /\ history_floor' >= change_floor'

(* What Store::snapshot_at answers: the contents, or that it needs a reset. *)
Retained(r) == change_floor <= r /\ r <= revision

(* The revision Store::snapshot_at_time picks for a time it still retains. *)
RevisionAt(t) ==
    CHOOSE r \in 0 .. revision :
        /\ TimeOf(r) <= t
        /\ \A q \in 0 .. revision : TimeOf(q) <= t => q <= r

(* The (revision, key) pairs that Store::changes_since(after) reports. *)
ChangesSince(after) ==
    {c \in ((after + 1) .. revision) \X Keys : DocsAt(c[1])[c[2]] # DocsAt(c[1] - 1)[c[2]]}

(* The store alone: a step commits some documents at some time. *)
StoreNext ==
    LET new == history'[Len(history')]
    IN  new.docs \in Documents /\ Commit(new.docs, new.time)
StoreSpec == StoreInit /\ [][StoreNext]_store
=============================================================================
