------------------------------ MODULE MCSuite -------------------------------
(* The suite's process, its routing, its log feed, and the task queues it    *)
(* registers, which share no state, checked side by side: a behaviour is one *)
(* of a single part.                                                         *)
EXTENDS TasksQueue, TLC

CONSTANTS Processes, MaxSeeds, MaxStarts, MaxWrites, MaxExports, MaxFaults, Handlers, MaxReloads

VARIABLES part,
          seed, dir, disk, safe, suite, exporter, published, answered, settled, used,
          functions, follower, routes, triggers, switches, handlers, missed, overlapped,
          log, file, history, writing, sessions, slots, stopped

lifetime == <<seed, dir, disk, safe, suite, exporter, published, answered, settled, used>>
routing == <<functions, follower, routes, triggers, switches, handlers, missed, overlapped>>
feed == <<log, file, history, writing, sessions, slots, stopped>>

(* Processes are alike.                                                      *)
Symmetry == Permutations(Processes)

(* One or two slots, 1.2 dispatches per second, no retry.                    *)
Brisk == [slots |-> 2, rate |-> 6, max_attempts |-> 0, max_retry |-> NoLimit,
          min_backoff |-> 0, max_backoff |-> 0, max_doublings |-> 0]
MCQueues == {Brisk, [Brisk EXCEPT !.slots = 1]}

P == INSTANCE Suite
R == INSTANCE SuiteRouting

(* Two sessions of the log feed for one permit; processes are producers.     *)
Feed == INSTANCE LogFeed WITH
    Sessions <- Handlers, Producers <- Processes, Slots <- 1, Capacity <- 2, MaxRecords <- 4

MCInit == part \in {"tasks", "process", "routing", "feed"} /\ Init /\ P!Init /\ R!Init /\ Feed!Init

(* Bound: the write is one of Firestore or Storage; an answer of Auth is     *)
(* kept as one of Storage is that no flush overtook.                         *)
MCNext ==
  /\ UNCHANGED part
  /\ \/ part = "tasks" /\ Next /\ UNCHANGED <<lifetime, routing, feed>>
     \/ part = "process" /\ P!Next /\ answered'["auth"] = {} /\ UNCHANGED <<vars, routing, feed>>
     \/ part = "routing" /\ R!Next /\ UNCHANGED <<vars, lifetime, feed>>
     \/ part = "feed" /\ Feed!Next /\ UNCHANGED <<vars, lifetime, routing>>

MCSpec == MCInit /\ [][MCNext]_<<part, vars, lifetime, routing, feed>>

ASSUME P!ConstantsOK

(* What a suite was given and answered outlives it: the seed is imported     *)
(* whole, answered writes are found again (but for those of Storage that a   *)
(* flush overtook), an export is never lost: see SeedWhole, AnswersKept and  *)
(* ExportsKept (native_state.rs, finish_suite, export_suite).                *)
SuiteKeeps == P!SeedWhole /\ P!AnswersKept /\ P!ExportsKept

(* The routes follow the functions runtime: see RoutingFollowed              *)
(* (refresh_inventory).                                                      *)
RoutingFollowed == R!RoutingFollowed

(* A session of the log feed receives what is logged, in order, without a    *)
(* gap or a repetition: see FeedsUnbroken (logging.rs).                      *)
FeedsUnbroken == Feed!FeedsUnbroken
=============================================================================
