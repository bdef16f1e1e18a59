---------------------------- MODULE MCDiskStore -----------------------------
(* DiskStore, and a Listen stream of a client that stays connected, side by  *)
(* side: a behaviour is one of either.  A store that was not opened has      *)
(* nothing to flush and a stream without targets nothing to send, so the     *)
(* fairness of the part that does not run asks for nothing.                  *)
EXTENDS DiskStore

VARIABLES part,
          commits, change_floor, history_floor, targets, work, outbox, wire, requests, listens

stream == <<commits, change_floor, history_floor, targets, work, outbox, wire, requests, listens>>

(* One target, a query for the first of two documents, that may be asked for *)
(* only once.                                                                *)
L == INSTANCE Listen WITH
    Keys <- {1, 2}, Stored <- {"a"}, Targets <- {1}, Resume <- <<{"token"}>>, Denials <- FALSE,
    Query <- <<[scope |-> {1, 2}, match |-> {"a"}, limit |-> 1, once |-> TRUE]>>,
    Buffer <- 1, MaxRevision <- 3, history <- commits

MCInit == /\ part \in {"disk", "stream"} /\ Init /\ L!Init
          /\ part = "stream" => durability = "per_commit"

MCNext ==
    \/ part = "disk" /\ Next /\ UNCHANGED <<part, stream>>
    \/ part = "stream" /\ L!Next /\ UNCHANGED <<part, vars>>

(* The disk store alone. *)
DiskSpec == MCInit /\ part = "disk" /\ [][MCNext]_<<part, vars, stream>>

MCSpec == MCInit /\ [][MCNext]_<<part, vars, stream>> /\ Fairness /\ L!Fairness

(* A client that stays connected, and keeps a target, ends up with what its  *)
(* query matches (Poll, refresh_targets): see CatchesUp.                     *)
CatchesUp == L!CatchesUp
=============================================================================
