---------------------------- MODULE MCFirestore -----------------------------
(* Four parts of the Firestore emulator that share no state here, side by    *)
(* side: transactions and writes, the life of a data directory, a disk store *)
(* without a journal, and the rules runtime.  A behaviour is one of a single *)
(* part, chosen at the start.                                                *)
EXTENDS Transactions, TLC

CONSTANTS Readers

VARIABLES part,
          files, tables, wal, process, seeding, bulk, runs, expected,
          pc, durability, memory, requires_restart, unflushed, plan, batches, transaction,
          database, durable, journal, tail, synced, versions, acked, safe,
          installed, tasks, coverage, feed, sessions, clock, told

directory == <<files, tables, wal, process, seeding, bulk, runs, expected>>
disk      == <<pc, durability, memory, requires_restart, unflushed, plan, batches, transaction,
               database, durable, journal, tail, synced, versions, acked, safe>>
rules     == <<installed, tasks, coverage, feed, sessions, clock, told>>

(* Keys, tokens, workers and readers are interchangeable.                    *)
Symmetric == Permutations(Keys) \cup Permutations(Tokens) \cup Permutations(Workers)
             \cup Permutations(Readers)

-----------------------------------------------------------------------------
(* The life of a data directory: an export of two projects is seeded.        *)
F == INSTANCE FirestoreProcess WITH
    Projects <- {"p", "q"}, Ids <- {1}, Values <- {"a", "b"}, BatchSize <- 1,
    Exports <- {<<[doc |-> <<"p", 1>>, value |-> "a"], [doc |-> <<"q", 1>>, value |-> "b"]>>},
    MaxRuns <- 3, MaxRevision <- 4

(* A disk store without a journal, with two keys. *)
B == INSTANCE DiskStore WITH
    Keys <- {1, 2}, Values <- {1}, Absent <- 0, Journaled <- FALSE,
    Durabilities <- {"per_commit", "write_behind"}, GarbledCuts <- TRUE,
    MaxRevision <- 3, MaxTime <- 3, history <- versions

(* The rules of two databases of a project; keys name databases and workers  *)
(* requests.                                                                 *)
R == INSTANCE RulesDiagnostics WITH
    Databases <- Keys, ProjectOf <- [d \in Keys |-> "p"], Tasks <- Workers,
    Values <- {"true", "false"}, Sizes <- {0, 3}, MaxEvents <- 2, MaxBytes <- 8, MaxAge <- 1,
    MaxSubscribers <- 1, MaxHistories <- 1, MaxValues <- 1, MaxCoverage <- 3, MaxIdleAge <- 0,
    MaxOps <- 2, MaxInstalls <- 2, MaxRequests <- 2, MaxTime <- 1, history <- feed, ghost <- told

(* Bound: the feed has readers, or the rules are reloaded and the coverage   *)
(* under pressure, not both; they share nothing but the requests.            *)
Reloads == /\ \A r \in Readers : sessions[r] = R!NoSession
           /\ \A t \in Workers : tasks[t].pc /= "admit"
Feeds == /\ installed.count <= 1 /\ installed.default = 0 /\ installed.projects["p"] = 0
         /\ coverage.omitted = 0 /\ feed.omitted + told.recorded <= 3
         /\ \A d \in Keys : told.visits[d]["false"] = 0
Focus == (Reloads \/ Feeds) /\ coverage.evicted <= 1

-----------------------------------------------------------------------------
NoDirectory ==
    /\ files = <<>> /\ tables = <<>> /\ wal = <<>> /\ process = "down" /\ seeding = <<>>
    /\ bulk = <<>> /\ runs = 0 /\ expected = <<>>
NoDisk ==
    /\ pc = "crashed" /\ durability = "per_commit" /\ memory = <<>> /\ requires_restart = FALSE
    /\ unflushed = FALSE /\ plan = <<>> /\ batches = 0 /\ transaction = <<>> /\ database = <<>>
    /\ durable = <<>> /\ journal = <<>> /\ tail = "clean" /\ synced = <<>> /\ versions = <<>>
    /\ acked = 0 /\ safe = 0
NoRules ==
    /\ installed = <<>> /\ tasks = <<>> /\ coverage = <<>> /\ feed = <<>> /\ sessions = <<>>
    /\ clock = 0 /\ told = <<>>

MCInit ==
    /\ Init
    /\ \/ part = "transactions" /\ NoDirectory /\ NoDisk /\ NoRules
       \/ part = "directory" /\ F!Init /\ NoDisk /\ NoRules
       \/ part = "disk" /\ B!Init /\ NoDirectory /\ NoRules
       \/ part = "rules" /\ R!Init /\ NoDirectory /\ NoDisk

MCNext ==
    /\ UNCHANGED part
    /\ \/ part = "transactions" /\ Next /\ UNCHANGED <<directory, disk, rules>>
       \/ part = "directory" /\ F!Next /\ UNCHANGED <<vars, disk, rules>>
       \/ part = "disk" /\ B!Next /\ UNCHANGED <<vars, directory, rules>>
       \/ part = "rules" /\ R!Next /\ Focus' /\ UNCHANGED <<vars, directory, disk>>

MCSpec == MCInit /\ [][MCNext]_<<part, vars, directory, disk, rules>>

-----------------------------------------------------------------------------
(* However often the process is killed, between migration, replay,           *)
(* checkpoint and seed, a data directory holds the documents it should: see  *)
(* DirectoryKept (Store::open, migrate_legacy_documents, adopt_legacy_files, *)
(* import).  Without a journal too, the documents served are those of the    *)
(* last commit acknowledged or recovered: see ServesAcknowledged.            *)
DirectoriesKept ==
    /\ part = "directory" => F!DirectoryKept
    /\ part = "disk" => B!ServesAcknowledged

(* A reload governs the requests that start after it, the Requests feed and  *)
(* the coverage report are whole or say they are not: see ReloadGoverns,     *)
(* FeedsWhole and CoverageExact (install, request_history.rs, coverage.rs).  *)
RulesDiagnosed == part = "rules" => R!ReloadGoverns /\ R!FeedsWhole /\ R!CoverageExact
=============================================================================
