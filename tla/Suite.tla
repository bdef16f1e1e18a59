------------------------------- MODULE Suite --------------------------------
(* The suite process around the emulators (suite-runtime): which state it    *)
(* may start from (native_state.rs), how it starts and stops (lib.rs, run    *)
(* and finish_suite), and how it publishes exports (export_suite).           *)
(*                                                                           *)
(* Processes share one state directory, one seed export and one destination  *)
(* for exports.  What a component (Firestore, Auth, Storage) holds is a set  *)
(* of integers: a write is its number, the seed's version v is -v.  Firestore*)
(* is on disk, not in memory only.  A start that is refused changes nothing, *)
(* so it is no step.                                                         *)
EXTENDS Integers, FiniteSets, FiniteSetsExt

CONSTANTS
  Processes,  \* runs of the suite, by slot
  MaxSeeds,   \* bound: versions the seed goes through
  MaxStarts,  \* bound: runs started
  MaxWrites,  \* bound: writes answered
  MaxExports, \* bound: exports begun
  MaxFaults   \* bound: deaths, power cuts, failures

(* What the bounds have to be. *)
ConstantsOK ==
  /\ MaxSeeds \in Nat \ {0}
  /\ {MaxStarts, MaxWrites, MaxExports, MaxFaults} \subseteq Nat

VARIABLES
  seed,      \* the version of the seed directory
  dir,       \* the state directory: lock, receipt, temporary file, files
  disk,      \* disk[c]: what the files of a component hold
  safe,      \* what of Firestore a power cut leaves
  suite,     \* suite[p]: the locals of run and finish_suite
  exporter,  \* exporter[p][e]: the locals of export_suite
  published, \* the destination, the backups left behind, whether ever filled
  answered,  \* answered[c]: the writes answered, and not excused (Write, PowerCut)
  settled,   \* the Firestore writes answered when a process last ended well
  used       \* how much of each bound is used

vars == <<seed, dir, disk, safe, suite, exporter, published, answered, settled, used>>

Components == {"firestore", "auth", "storage"}
\* Everything, or all but Auth: what a process may be asked to run.
Selections == {Components, Components \ {"auth"}}
Exporters == {"hub", "exit"}
None == [none |-> TRUE]
Nothing == [c \in Components |-> {}]

SeedsOf(items) == {i \in items : i < 0}

Off == [pc |-> "off", managed |-> FALSE, import |-> FALSE, reusing |-> FALSE, services |-> {},
        print |-> 0, complete |-> FALSE, mem |-> Nothing, failed |-> FALSE]
NoExport == [pc |-> "idle", began |-> Nothing, content |-> Nothing, targets |-> {}, backup |-> None]

Init ==
  /\ seed = 1
  /\ dir = [lock |-> None, receipt |-> None, temporary |-> FALSE, files |-> {}]
  /\ disk = Nothing /\ safe = {}
  /\ suite = [p \in Processes |-> Off]
  /\ exporter = [p \in Processes |-> [e \in Exporters |-> NoExport]]
  /\ published = [destination |-> None, left |-> {}, ever |-> FALSE]
  /\ answered = Nothing /\ settled = {}
  /\ used = [starts |-> 0, writes |-> 0, exports |-> 0, faults |-> 0]

Spend(what, bound) == used[what] < bound /\ used' = [used EXCEPT ![what] = @ + 1]
Fault == Spend("faults", MaxFaults)

-----------------------------------------------------------------------------
(* native_state.rs                                                           *)

validate_files == dir.files = Components

\* acquire: the lock, then whether this directory may be used this way.  A
\* managed directory takes a receipt that is not complete before anything
\* else is written to it.
acquire(p, managed, import, services) ==
  LET reusing == managed /\ dir.receipt /= None
  IN /\ suite[p].pc = "off" /\ Spend("starts", MaxStarts)
     /\ managed => import
     /\ dir.lock = None
     /\ ~managed => dir.receipt = None
     /\ reusing => /\ dir.receipt.complete /\ dir.receipt.seed = seed
                   /\ validate_files
     /\ managed /\ ~reusing => dir.files = {} /\ ~dir.temporary
     /\ dir' = [dir EXCEPT !.lock = p]
     /\ suite' = [suite EXCEPT ![p] = [Off EXCEPT
          !.pc = IF managed /\ ~reusing THEN "temporary" ELSE "open",
          !.managed = managed, !.import = import, !.reusing = reusing,
          !.services = services, !.print = seed]]
     /\ UNCHANGED <<seed, disk, safe, exporter, published, answered, settled>>

\* write_receipt: a new temporary file, then its rename.
write_temporary(p) ==
  /\ suite[p].pc = "temporary" /\ ~dir.temporary
  /\ dir' = [dir EXCEPT !.temporary = TRUE]
  /\ suite' = [suite EXCEPT ![p].pc = "rename"]
  /\ UNCHANGED <<seed, disk, safe, exporter, published, answered, settled, used>>

write_receipt(p) ==
  /\ suite[p].pc = "rename"
  /\ dir' = [dir EXCEPT !.temporary = FALSE,
                        !.receipt = [complete |-> suite[p].complete, seed |-> suite[p].print]]
  /\ suite' = [suite EXCEPT ![p].pc = IF suite[p].complete THEN "hub" ELSE "open"]
  /\ UNCHANGED <<seed, disk, safe, exporter, published, answered, settled, used>>

\* The process ends: its lock goes with it, and what only it held.
Ended(p) ==
  /\ suite' = [suite EXCEPT ![p] = Off]
  /\ exporter' = [exporter EXCEPT ![p] = [e \in Exporters |-> NoExport]]
  /\ dir' = [dir EXCEPT !.lock = None]

LeftBy(p) == {exporter[p][e].backup : e \in Exporters} \ {None}

\* complete: all files are there, and the seed is the one first read.
complete(p) ==
  LET whole == validate_files /\ (suite[p].reusing \/ seed = suite[p].print)
  IN /\ suite[p].pc = "complete"
     /\ \/ /\ whole
           /\ suite' = [suite EXCEPT ![p].pc = IF suite[p].reusing THEN "hub" ELSE "temporary",
                                     ![p].complete = TRUE]
           /\ UNCHANGED <<dir, exporter>>
        \/ ~whole /\ Ended(p)
     /\ UNCHANGED <<seed, disk, safe, published, answered, settled, used>>

-----------------------------------------------------------------------------
(* Starting.                                                                 *)

\* prepare_suite up to the import: every selected component opens its files.
prepare_suite(p) ==
  LET services == suite[p].services
  IN /\ suite[p].pc = "open"
     /\ dir' = [dir EXCEPT !.files = @ \cup services]
     /\ suite' = [suite EXCEPT
          ![p].mem = [c \in Components |-> IF c \in services THEN disk[c] ELSE {}],
          ![p].pc = IF suite[p].import /\ ~suite[p].reusing THEN "firestore" ELSE "checkpoint"]
     /\ UNCHANGED <<seed, disk, safe, exporter, published, answered, settled, used>>

\* The order of import_suite.
After == [firestore |-> "auth", auth |-> "storage", storage |-> "checkpoint"]

\* The documents of the seed as it is now replace those with the same names,
\* in one bulk load; users and objects are imported alike.
seed_store(items) == (items \ SeedsOf(items)) \cup {-seed}

\* import_suite, one component.  Firestore's bulk load is durable.
import_suite(p, c) ==
  LET items == seed_store(suite[p].mem[c])
      wanted == c \in suite[p].services
  IN /\ suite[p].pc = c
     /\ suite' = [suite EXCEPT ![p].pc = After[c], ![p].mem[c] = IF wanted THEN items ELSE @]
     /\ disk' = IF wanted THEN [disk EXCEPT ![c] = items] ELSE disk
     /\ safe' = IF wanted /\ c = "firestore" THEN items ELSE safe
     /\ UNCHANGED <<seed, dir, exporter, published, answered, settled, used>>

\* prepare_native_suite after the import: Auth and Storage write themselves
\* down, which changes nothing they had not written; then complete.
checkpoint(p) ==
  /\ suite[p].pc = "checkpoint"
  /\ suite' = [suite EXCEPT ![p].pc = IF suite[p].managed THEN "complete" ELSE "hub"]
  /\ UNCHANGED <<seed, dir, disk, safe, exporter, published, answered, settled, used>>

\* The hub starts, the listeners are bound, and everything serves.
hub_start(p) ==
  /\ suite[p].pc = "hub"
  /\ suite' = [suite EXCEPT ![p].pc = "serving"]
  /\ UNCHANGED <<seed, dir, disk, safe, exporter, published, answered, settled, used>>

EditSeed ==
  /\ seed < MaxSeeds /\ seed' = seed + 1
  /\ UNCHANGED <<dir, disk, safe, suite, exporter, published, answered, settled, used>>

-----------------------------------------------------------------------------
(* Serving and stopping.                                                     *)

\* Clients, and functions that are being drained, write until the servers
\* have stopped.  An answered write is in the component's files; but one that
\* Storage answers may be in its memory only, when a flush cut its journal
\* line before its transaction (Storage, overtaken).  Whether a later flush
\* saves it is left open: it is excused, and the files may lack it for good.
Write(p, c) ==
  LET n == used.writes + 1
  IN /\ suite[p].pc \in {"serving", "exiting", "draining"} /\ c \in suite[p].services
     /\ Spend("writes", MaxWrites)
     /\ suite' = [suite EXCEPT ![p].mem[c] = @ \cup {n}]
     /\ \/ /\ disk' = [disk EXCEPT ![c] = @ \cup {n}]
           /\ answered' = [answered EXCEPT ![c] = @ \cup {n}]
        \/ c = "storage" /\ UNCHANGED <<disk, answered>>
     /\ UNCHANGED <<seed, dir, safe, exporter, published, settled>>

\* The select of run ends: a signal or the launcher's pipe, or a failure.
Shutdown(p, failed) ==
  /\ suite[p].pc = "serving"
  /\ IF failed THEN Fault ELSE UNCHANGED used
  /\ suite' = [suite EXCEPT ![p].pc = "exiting", ![p].failed = failed]
  /\ UNCHANGED <<seed, dir, disk, safe, exporter, published, answered, settled>>

\* The export on exit has ended, or is not made after a failure.  Then the
\* scheduler and the task queues stop, and deliveries are drained.
Drain(p) ==
  /\ suite[p].pc = "exiting" /\ exporter[p]["exit"].pc = "idle"
  /\ suite' = [suite EXCEPT ![p].pc = "draining"]
  /\ UNCHANGED <<seed, dir, disk, safe, exporter, published, answered, settled, used>>

\* The servers are told to stop and waited for: the hub's answers its export
\* first, unless the caller has gone.
StopServers(p) ==
  /\ suite[p].pc = "draining"
  /\ exporter[p]["hub"].pc /= "idle" => used.faults < MaxFaults
  /\ used' = IF exporter[p]["hub"].pc = "idle" THEN used ELSE [used EXCEPT !.faults = @ + 1]
  /\ suite' = [suite EXCEPT ![p].pc = "stopped"]
  /\ UNCHANGED <<seed, dir, disk, safe, exporter, published, answered, settled>>

\* The exporter is aborted, wherever it is.
Abort(p) ==
  /\ suite[p].pc = "stopped"
  /\ suite' = [suite EXCEPT ![p].pc = "flush"]
  /\ exporter' = [exporter EXCEPT ![p]["hub"] = NoExport]
  /\ published' = [published EXCEPT !.left = @ \cup LeftBy(p)]
  /\ UNCHANGED <<seed, dir, disk, safe, answered, settled, used>>

\* store.flush.
Flush(p) ==
  /\ suite[p].pc = "flush"
  /\ safe' = IF "firestore" \in suite[p].services THEN suite[p].mem["firestore"] ELSE safe
  /\ suite' = [suite EXCEPT ![p].pc = "flushed"]
  /\ UNCHANGED <<seed, dir, disk, exporter, published, answered, settled, used>>

\* The process returns; it reports success if nothing failed.
Return(p) ==
  /\ suite[p].pc = "flushed"
  /\ settled' = IF suite[p].failed \/ "firestore" \notin suite[p].services THEN settled
                ELSE answered["firestore"]
  /\ Ended(p)
  /\ UNCHANGED <<seed, disk, safe, published, answered, used>>

\* An error while starting, or a kill at any time.
Die(p) ==
  /\ suite[p].pc /= "off" /\ Fault
  /\ Ended(p)
  /\ published' = [published EXCEPT !.left = @ \cup LeftBy(p)]
  /\ UNCHANGED <<seed, disk, safe, answered, settled>>

\* Power fails: what Firestore had not made durable may be gone, and no
\* longer counts as answered unless a process reported success since.  What
\* it does to the files of Auth and Storage and to exports is left out.
PowerCut ==
  /\ Fault
  /\ \E kept \in SUBSET (disk["firestore"] \ safe) :
       /\ disk' = [disk EXCEPT !["firestore"] = safe \cup kept]
       /\ answered' = [answered EXCEPT !["firestore"] = settled \cup (@ \cap (safe \cup kept))]
  /\ suite' = [p \in Processes |-> Off]
  /\ exporter' = [p \in Processes |-> [e \in Exporters |-> NoExport]]
  /\ dir' = [dir EXCEPT !.lock = None]
  /\ published' = [published EXCEPT !.left = @ \cup UNION {LeftBy(p) : p \in Processes}]
  /\ UNCHANGED <<seed, safe, settled>>

-----------------------------------------------------------------------------
(* export_suite                                                              *)

Next1 == [firestore |-> "auth", auth |-> "storage", storage |-> "swap"]

\* The hub's exporter task, or finish_suite, begins: a staging directory.
export_suite(p, e, targets) ==
  /\ suite[p].pc \in IF e = "exit" THEN {"exiting"} ELSE {"serving", "exiting", "draining"}
  /\ e = "exit" => ~suite[p].failed /\ targets = {}
  /\ exporter[p][e].pc = "idle" /\ Spend("exports", MaxExports)
  /\ exporter' = [exporter EXCEPT ![p][e] = [NoExport EXCEPT !.pc = "firestore",
       !.began = suite[p].mem,
       !.targets = suite[p].services \cap (IF targets = {} THEN Components ELSE targets)]]
  /\ UNCHANGED <<seed, dir, disk, safe, suite, published, answered, settled>>

\* Each component is exported as it is when its turn comes.
ExportPart(p, e, c) ==
  LET x == exporter[p][e]
  IN /\ x.pc = c
     /\ exporter' = [exporter EXCEPT ![p][e].pc = Next1[c],
          ![p][e].content[c] = IF c \in x.targets THEN suite[p].mem[c] ELSE {}]
     /\ UNCHANGED <<seed, dir, disk, safe, suite, published, answered, settled, used>>

Written(x) == [targets |-> x.targets, began |-> x.began, content |-> x.content]

(* Mutant: the old export is deleted before the new one is in its place. *)
MutSwap(p, e) ==
  /\ exporter[p][e].pc = "swap"
  /\ published' = [published EXCEPT !.destination = None]
  /\ exporter' = [exporter EXCEPT ![p][e].pc = "publish"]
  /\ UNCHANGED <<seed, dir, disk, safe, suite, answered, settled, used>>

\* The metadata is written, and an export that is there is moved away.
Swap(p, e) ==
  /\ exporter[p][e].pc = "swap"
  /\ published' = [published EXCEPT !.destination = None]
  /\ exporter' = [exporter EXCEPT ![p][e].pc = "publish", ![p][e].backup = published.destination]
  /\ UNCHANGED <<seed, dir, disk, safe, suite, answered, settled, used>>

\* The staging directory becomes the destination, unless another export did
\* meanwhile or the rename fails: then the old one is moved back, if it can.
Publish(p, e) ==
  LET x == exporter[p][e]
      free == published.destination = None
      back == x.backup /= None /\ free
  IN /\ x.pc = "publish"
     /\ \/ /\ free
           /\ published' = [published EXCEPT !.destination = Written(x), !.ever = TRUE]
           /\ exporter' = [exporter EXCEPT ![p][e].pc = "cleanup"]
           /\ UNCHANGED <<suite, used>>
        \/ /\ IF free THEN Fault ELSE UNCHANGED used
           /\ published' = [published EXCEPT
                !.destination = IF back THEN x.backup ELSE @,
                !.left = IF x.backup /= None /\ ~back THEN @ \cup {x.backup} ELSE @]
           /\ exporter' = [exporter EXCEPT ![p][e] = NoExport]
           /\ suite' = [suite EXCEPT ![p].failed = @ \/ e = "exit"]
     /\ UNCHANGED <<seed, dir, disk, safe, answered, settled>>

Cleanup(p, e) ==
  /\ exporter[p][e].pc = "cleanup"
  /\ exporter' = [exporter EXCEPT ![p][e] = NoExport]
  /\ UNCHANGED <<seed, dir, disk, safe, suite, published, answered, settled, used>>

\* A component's export, or the removal of the old one, fails.
ExportFails(p, e) ==
  /\ exporter[p][e].pc \notin {"idle", "publish"} /\ Fault
  /\ exporter' = [exporter EXCEPT ![p][e] = NoExport]
  /\ suite' = [suite EXCEPT ![p].failed = @ \/ e = "exit"]
  /\ UNCHANGED <<seed, dir, disk, safe, published, answered, settled>>

-----------------------------------------------------------------------------

Start(p) ==
  \/ \E managed, import \in BOOLEAN, services \in Selections : acquire(p, managed, import, services)
  \/ write_temporary(p) \/ write_receipt(p) \/ prepare_suite(p)
  \/ \E c \in Components : import_suite(p, c)
  \/ checkpoint(p) \/ complete(p) \/ hub_start(p)

Stop(p) ==
  \/ \E failed \in BOOLEAN : Shutdown(p, failed)
  \/ Drain(p) \/ StopServers(p) \/ Abort(p) \/ Flush(p) \/ Return(p)

Export(p, e) ==
  \/ \E targets \in {{}, {"firestore"}} : export_suite(p, e, targets)
  \/ \E c \in Components : ExportPart(p, e, c)
  \/ Swap(p, e) \/ Publish(p, e) \/ Cleanup(p, e) \/ ExportFails(p, e)

Next ==
  \/ \E p \in Processes : Start(p) \/ Stop(p) \/ Die(p)
  \/ \E p \in Processes, c \in Components : Write(p, c)
  \/ \E p \in Processes, e \in Exporters : Export(p, e)
  \/ EditSeed \/ PowerCut

Spec == Init /\ [][Next]_vars

-----------------------------------------------------------------------------

Serving(p) == suite[p].pc \in {"serving", "exiting", "draining", "stopped", "flush", "flushed"}

(* A run that resumes a managed directory serves one seed, whole: the one    *)
(* its receipt names, in every component, however the runs before it died    *)
(* and whenever the seed was edited (acquire, complete).                     *)
SeedWhole ==
  \A p \in Processes :
    Serving(p) /\ suite[p].managed =>
      \A c \in suite[p].services : SeedsOf(suite[p].mem[c]) = {-dir.receipt.seed}

(* No write is lost: a running process has every write that was answered,    *)
(* by itself or by a process before it that ended or was killed; a power cut *)
(* takes of Firestore only what was answered since a process last reported   *)
(* success ("Every acknowledged commit is durable before this process        *)
(* reports a clean shutdown", finish_suite).  One exception: a write that    *)
(* Storage answered while a flush cut its journal line (metadata.rs:284-318, *)
(* 399-438) is lost with the process, and nothing is said of it here.        *)
AnswersKept ==
  \A p \in Processes :
    Serving(p) =>
      \A c \in suite[p].services : answered[c] \subseteq suite[p].mem[c]

(* Once there was an export at the destination a whole one is always there,  *)
(* or next to it under its backup name: whatever dies, fails or is aborted   *)
(* between the two renames, and whether or not the hub's exporter and the    *)
(* export on exit overlap.  A whole export holds, of each component it       *)
(* covers, at least what was answered before it began.                       *)
ExportsKept ==
  LET there == ({published.destination} \cup published.left
                  \cup UNION {LeftBy(p) : p \in Processes}) \ {None}
  IN /\ published.ever => there /= {}
     /\ \A x \in there : \A c \in x.targets : x.began[c] \subseteq x.content[c]
=============================================================================
