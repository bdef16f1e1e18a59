---------------------------- MODULE Transactions ----------------------------
(***************************************************************************)
(* Transactions and writes of the Firestore front ends                     *)
(* (crates/grpc-front/src/service.rs, crates/rest-front/src/lib.rs) over   *)
(* one store: optimistic read sets validated at commit, the rules write    *)
(* lock that every write handler holds from its snapshot to its answer,    *)
(* and the emulator's delete endpoints, which do not take it.              *)
(*                                                                         *)
(* A document is the revision that wrote it: its update time is that       *)
(* revision's commit time, and it is all that validation compares.         *)
(***************************************************************************)
EXTENDS VersionedStore, FiniteSets

CONSTANTS
    Tokens,         \* transaction tokens; next_id never repeats one
    NoToken,        \* a write outside a transaction
    Workers,        \* the tasks that serve write requests
    MaxRevision     \* bound: the largest revision

ASSUME TokenAssumption == NoToken \notin Tokens
ASSUME BoundAssumption == MaxRevision \in Nat /\ Stored = 1 .. MaxRevision

VARIABLES
    transactions,   \* the token table: FirestoreService::transactions
    requests,       \* the write request of each worker; RulesRuntime::write_guard
                    \* is held by the one whose request is not free
    clearing,       \* the keys a delete endpoint has read and will delete
    committed,      \* ghost: every commit made under the write lock
    cleared         \* ghost: the revisions that the delete endpoints made

ghost == <<committed, cleared>>
vars  == <<store, transactions, requests, clearing, ghost>>

-----------------------------------------------------------------------------
Reads  == UNION {[K -> Stored \cup {Absent}] : K \in SUBSET Keys}
Ops    == {"put", "delete"}
Writes == UNION {[K -> Ops] : K \in SUBSET Keys}
NoReads == [k \in {} |-> Absent]

Transaction == [status : {"unused", "open", "gone"}, read_only : BOOLEAN,
                snapshot : 0 .. MaxRevision, reads : Reads, seen : Reads]
Unused == [status |-> "unused", read_only |-> FALSE, snapshot |-> 0,
           reads |-> NoReads, seen |-> NoReads]

Request == [stage : {"free", "authorize", "respond"}, token : Tokens \cup {NoToken},
            writes : Writes, current : 0 .. MaxRevision, seen : Reads,
            revision : 0 .. MaxRevision]
Free == [stage |-> "free", token |-> NoToken, writes |-> [k \in {} |-> "put"],
         current |-> 0, seen |-> NoReads, revision |-> 0]

(* What the writes leave: a new version or none under each of their keys.  *)
(* (Their preconditions only decide whether they fail: see WriteFails.)    *)
ApplyWrites(docs, writes, r) ==
    [k \in Keys |-> IF k \notin DOMAIN writes THEN docs[k]
                    ELSE IF writes[k] = "delete" THEN Absent ELSE r]

(* Store::commit.  A transaction keeps its own snapshot, so the floors of   *)
(* the store do not matter to it.                                          *)
StoreCommit(docs) ==
    /\ UNCHANGED <<change_floor, history_floor>>
    /\ Commit(docs, revision + 1)

Init ==
    /\ StoreInit
    /\ transactions = [t \in Tokens |-> Unused]
    /\ requests = [w \in Workers |-> Free]
    /\ clearing = {}
    /\ committed = {}
    /\ cleared = {}

-----------------------------------------------------------------------------
(* Reads in a transaction answer from the snapshot taken when it began.     *)

begin_transaction(t, read_only) ==
    /\ transactions[t].status = "unused"
    /\ transactions' = [transactions EXCEPT ![t] =
            [Unused EXCEPT !.status = "open", !.read_only = read_only, !.snapshot = revision]]
    /\ UNCHANGED <<store, requests, clearing, ghost>>

(* Fault: a missing document is not remembered. *)
RecordFound(reads, found) ==
    [k \in DOMAIN reads \cup {j \in DOMAIN found : found[j] # Absent} |->
        IF k \in DOMAIN reads THEN reads[k] ELSE found[k]]

(* The first read of a key decides what commit will expect of it. *)
record_read(reads, found) ==
    [k \in DOMAIN reads \cup DOMAIN found |->
        IF k \in DOMAIN reads THEN reads[k] ELSE found[k]]

(* A read that answers for these keys; the client sees what is recorded.    *)
Answer(t, K) ==
    LET found == [k \in K |-> DocsAt(transactions[t].snapshot)[k]] IN
    /\ transactions[t].status = "open"
    /\ transactions' = [transactions EXCEPT
            ![t].reads = record_read(@, found),
            ![t].seen  = [k \in DOMAIN @ \cup K |-> IF k \in K THEN found[k] ELSE @[k]]]
    /\ UNCHANGED <<store, requests, clearing, ghost>>

Present(r) == {k \in Keys : DocsAt(r)[k] # Absent}

(* A missing document is an error, and not part of the read set. *)
get_document(t, k) == k \in Present(transactions[t].snapshot) /\ Answer(t, {k})

batch_get_documents(t, K) == Answer(t, K)

(* Only the documents that the query returns are part of the read set. *)
run_query(t) == Answer(t, Present(transactions[t].snapshot))

-----------------------------------------------------------------------------
(* Writes.                                                                  *)

(* Fault: the write lock is not awaited. *)
NoLock(w) == requests[w].stage = "free"

(* Fault: the write lock is released before the answer is read. *)
LockDroppedEarly(w) ==
    requests[w].stage = "free" /\ \A v \in Workers : requests[v].stage # "authorize"

(* RulesRuntime::write_lock: worker w can take the lock. *)
LockFree(w) == \A v \in Workers : requests[v].stage = "free"

(* Fault: the token outlives the commit. *)
KeepToken(t) == transactions

(* The token leaves the table whatever becomes of the commit. *)
TakeToken(t) == [transactions EXCEPT ![t] = [Unused EXCEPT !.status = "gone"]]

ReadsHold(t) ==
    \A k \in DOMAIN transactions[t].reads : DocsAt(revision)[k] = transactions[t].reads[k]

(* FirestoreService::commit up to its rules: the lock, the current snapshot,*)
(* the token and the validation of its reads.                               *)
CommitTransaction(w, t, writes) ==
    /\ LockFree(w)
    /\ transactions[t].status = "open"
    /\ ~transactions[t].read_only \/ DOMAIN writes = {}
    /\ ReadsHold(t)
    /\ requests' = [requests EXCEPT ![w] =
            [stage |-> "authorize", token |-> t, writes |-> writes,
             current |-> revision, seen |-> transactions[t].seen, revision |-> 0]]
    /\ transactions' = TakeToken(t)
    /\ UNCHANGED <<store, clearing, ghost>>

CommitRejected(w, t, writes) ==
    /\ LockFree(w)
    /\ transactions[t].status = "open"
    /\ \/ transactions[t].read_only /\ DOMAIN writes # {}
       \/ ~ReadsHold(t)
    /\ transactions' = TakeToken(t)
    /\ UNCHANGED <<store, requests, clearing, ghost>>

(* A write without a transaction, by either front end. *)
WriteRequest(w, writes) ==
    /\ LockFree(w)
    /\ requests' = [requests EXCEPT ![w] =
            [Free EXCEPT !.stage = "authorize", !.writes = writes, !.current = revision]]
    /\ UNCHANGED <<store, transactions, clearing, ghost>>

(* batch_write keeps the lock from one of its writes to the next, whether   *)
(* the last one failed or not, and judges each by a snapshot of its own.    *)
BatchContinues(w, k, op) ==
    /\ requests[w].stage # "free" /\ requests[w].token = NoToken
    /\ requests' = [requests EXCEPT ![w] =
            [Free EXCEPT !.stage = "authorize", !.writes = [j \in {k} |-> op],
                         !.current = revision]]
    /\ UNCHANGED <<store, transactions, clearing, ghost>>

(* The rules deny the writes, or the store refuses one of them (its         *)
(* precondition fails, or a document to create exists).                     *)
WriteFails(w) ==
    /\ requests[w].stage = "authorize"
    /\ requests' = [requests EXCEPT ![w] = Free]
    /\ UNCHANGED <<store, transactions, clearing, ghost>>

(* The rules allow them and the store commits, whatever its state is now.   *)
apply_writes(w) ==
    /\ requests[w].stage = "authorize"
    /\ revision < MaxRevision
    /\ StoreCommit(ApplyWrites(DocsAt(revision), requests[w].writes, revision + 1))
    /\ committed' = committed \cup {[token |-> requests[w].token, seen |-> requests[w].seen,
                                     current |-> requests[w].current, revision |-> revision + 1]}
    /\ requests' = [requests EXCEPT ![w].stage = "respond", ![w].revision = revision + 1]
    /\ UNCHANGED <<transactions, clearing, cleared>>

(* The response is read off a new snapshot, and the lock is released. *)
Respond(w) ==
    /\ requests[w].stage = "respond"
    /\ requests' = [requests EXCEPT ![w] = Free]
    /\ UNCHANGED <<store, transactions, clearing, ghost>>

rollback(t) ==
    /\ transactions[t].status = "open"
    /\ transactions' = TakeToken(t)
    /\ UNCHANGED <<store, requests, clearing, ghost>>

(* clear_database and delete_path: read a snapshot, delete what is there,   *)
(* until nothing is left.  No lock and no precondition.                     *)
ClearRead ==
    /\ clearing = {}
    /\ clearing' \in SUBSET Present(revision) \ {{}}
    /\ UNCHANGED <<store, transactions, requests, ghost>>

ClearCommit ==
    /\ clearing # {}
    /\ revision < MaxRevision
    /\ StoreCommit(ApplyWrites(DocsAt(revision), [k \in clearing |-> "delete"], revision + 1))
    /\ clearing' = {}
    /\ cleared' = cleared \cup {revision + 1}
    /\ UNCHANGED <<transactions, requests, committed>>

Next ==
    \/ \E t \in Tokens :
          \/ \E read_only \in BOOLEAN : begin_transaction(t, read_only)
          \/ \E k \in Keys : get_document(t, k)
          \/ \E K \in SUBSET Keys : batch_get_documents(t, K)
          \/ run_query(t)
          \/ rollback(t)
          \/ \E w \in Workers, writes \in Writes :
                CommitTransaction(w, t, writes) \/ CommitRejected(w, t, writes)
    \/ \E w \in Workers :
          \/ \E writes \in Writes : WriteRequest(w, writes)
          \/ \E k \in Keys, op \in Ops : BatchContinues(w, k, op)
          \/ WriteFails(w) \/ apply_writes(w) \/ Respond(w)
    \/ ClearRead \/ ClearCommit

Spec == Init /\ [][Next]_vars

-----------------------------------------------------------------------------
(* Every variable has its type. *)
TypeOK ==
    /\ history \in Seq([time : 0 .. MaxRevision, docs : Documents])
    /\ transactions \in [Tokens -> Transaction]
    /\ requests \in [Workers -> Request]
    /\ clearing \subseteq Keys
    /\ committed \subseteq [token : Tokens \cup {NoToken}, seen : Reads,
                            current : 0 .. MaxRevision, revision : 0 .. MaxRevision]

(* A transaction commits only if every document that its client was told    *)
(* of, present or missing, is still so: it was in the snapshot that commit  *)
(* compared its reads with (FirestoreService::commit, record_read).         *)
ReadsHoldAtCommit ==
    \A c \in committed : \A k \in DOMAIN c.seen : DocsAt(c.current)[k] = c.seen[k]

(* "Serializes policy evaluation and installation of a store write across   *)
(* every frontend": the rules judge, and validation compares, what the      *)
(* writes replace.  It is so but for clear_database and delete_path, which  *)
(* do not take the lock (RulesRuntime::write_lock).                         *)
JudgedIsReplaced ==
    \A c \in committed : (c.current + 1) .. (c.revision - 1) \subseteq cleared

(* The snapshot that apply_writes answers from is its own commit's, but for *)
(* the same two endpoints.                                                  *)
ResponseIsOwnCommit ==
    \A w \in Workers :
       requests[w].stage = "respond" => (requests[w].revision + 1) .. revision \subseteq cleared

(* A token commits at most once, however often its commit is retried.       *)
CommitsOnce ==
    \A c, d \in committed : c.token = d.token /\ c.token # NoToken => c = d
=============================================================================
