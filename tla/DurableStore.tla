---------------------------- MODULE DurableStore ----------------------------
(***************************************************************************)
(* What the disk backend of core-store promises its callers, with nothing  *)
(* about files in it.  The store is a log of database contents, one entry  *)
(* per revision; `safe` is the length of the log that a power cut must     *)
(* spare.  DiskStore implements this specification.                        *)
(***************************************************************************)
EXTENDS Naturals, Sequences

CONSTANTS
    Contents,   \* the possible contents of the database at one revision
    Blank,      \* the contents of a new store, revision zero
    CrashSafe   \* TRUE iff acknowledged commits outlive the process

VARIABLES
    status,     \* "open", or why the store is not: "crashed" or "cut"
    log,        \* log[r + 1]: the contents that revision r acknowledged
    safe        \* the number of log entries that even a power cut spares

vars == <<status, log, safe>>

Extends(longer, shorter) ==
    /\ Len(longer) >= Len(shorter)
    /\ \A i \in 1 .. Len(shorter): longer[i] = shorter[i]

Init ==
    /\ status = "crashed"
    /\ log = <<Blank>>
    /\ safe = 1

(* Commits are acknowledged at the end of the log: one of them, or all the *)
(* batches of a bulk load together.                                        *)
Acknowledge ==
    /\ status = "open"
    /\ log' \in Seq(Contents)
    /\ Len(log') > Len(log)
    /\ Extends(log', log)
    /\ safe' \in {safe, Len(log')}
    /\ UNCHANGED status

(* Everything acknowledged so far becomes durable. *)
Flush ==
    /\ status = "open"
    /\ safe' = Len(log)
    /\ UNCHANGED <<status, log>>

(* The process dies.  Nothing acknowledged is lost; commits that were under *)
(* way, acknowledged to nobody, may turn out to have happened.             *)
ProcessCrash ==
    /\ status' = "crashed"
    /\ log' \in Seq(Contents)
    /\ CrashSafe => Extends(log', log)
    /\ Len(log') >= safe
    /\ Extends(log', log) \/ Extends(log, log')
    /\ UNCHANGED safe

(* The machine dies: a suffix of the log above `safe` is lost. *)
PowerCut ==
    /\ status' = "cut"
    /\ log' \in Seq(Contents)
    /\ Len(log') >= safe
    /\ Extends(log', log) \/ Extends(log, log')
    /\ UNCHANGED safe

(* The store is opened again, with exactly what the outage left. *)
Open ==
    /\ status' = "open"
    /\ safe' \in safe .. Len(log)
    /\ UNCHANGED log

Next == Acknowledge \/ Flush \/ ProcessCrash \/ PowerCut \/ Open

Spec == Init /\ [][Next]_vars
=============================================================================
