---------------------------- MODULE MCCoreStore -----------------------------
(* The versioned store, and a Listen stream over one, side by side: a        *)
(* behaviour is one of either.                                               *)
EXTENDS CoreStore

CONSTANTS k1, k2, small, large

VARIABLES part,
          commits, oldest_change, oldest_time, targets, work, outbox, wire, requests, listens

stream == <<commits, oldest_change, oldest_time, targets, work, outbox, wire, requests, listens>>

(* Two keys of one collection, and a document that weighs twice another. *)
MCCollectionOf == [k \in Keys |-> "c"]
MCSize == [v \in Values |-> IF v = small THEN 1 ELSE 2]

-----------------------------------------------------------------------------
(* Listen: a limited query over both keys, resumed by token, and one over    *)
(* the second key, resumed by a read time that may have expired.             *)
LimitQuery == [scope |-> {1, 2}, match |-> {"a"}, limit |-> 1, once |-> FALSE]
TwoQueries == <<LimitQuery, [LimitQuery EXCEPT !.scope = {2}]>>

L == INSTANCE Listen WITH
    Keys <- {1, 2}, Stored <- {"a"}, Absent <- "absent", Targets <- {1, 2}, Query <- TwoQueries,
    Resume <- <<{"token"}, {"read_time", "expired"}>>, Denials <- TRUE, Buffer <- 1, MaxRevision <- 2,
    history <- commits, change_floor <- oldest_change, history_floor <- oldest_time

(* One target that is resumed by read time. *)
T == INSTANCE Listen WITH
    Keys <- {1, 2}, Stored <- {"a"}, Absent <- "absent", Targets <- {1},
    Query <- <<[LimitQuery EXCEPT !.once = TRUE]>>,
    Resume <- <<{"read_time"}>>, Denials <- FALSE, Buffer <- 1, MaxRevision <- 3,
    history <- commits, change_floor <- oldest_change, history_floor <- oldest_time

-----------------------------------------------------------------------------
NoStream ==
    /\ commits = <<>> /\ oldest_change = 0 /\ oldest_time = 0 /\ targets = <<>> /\ work = <<>>
    /\ outbox = <<>> /\ wire = <<>> /\ requests = <<>> /\ listens = <<>>

MCInit == /\ Init
          /\ \/ part = "store" /\ NoStream
             \/ part = "stream" /\ L!Init

MCNext ==
    \/ part = "store" /\ Next /\ UNCHANGED <<part, stream>>
    \/ part = "stream" /\ L!Next /\ UNCHANGED <<part, vars>>

MCSpec == MCInit /\ [][MCNext]_<<part, vars, stream>>

ReadTimeSpec ==
    /\ part = "read time" /\ Init /\ T!Init
    /\ [][T!Next /\ UNCHANGED <<part, vars>>]_<<part, vars, stream>>

(* A resume token names the revision that the client holds, and the views    *)
(* of the stream's task are exact: see TokensResume and ViewsExact           *)
(* (add_target, refresh_targets_at_snapshot, refresh_with_changes).          *)
ListensExact == part = "stream" => L!TokensResume /\ L!ViewsExact

(* "The consistent read_time for the given target_ids": what a client holds  *)
(* is the target at the read time it saved (send_target_change): see         *)
(* ReadTimesConsistent.                                                      *)
ReadTimesHold == T!ReadTimesConsistent
=============================================================================
