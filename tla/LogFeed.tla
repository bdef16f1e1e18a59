------------------------------- MODULE LogFeed -------------------------------
(* The log feed of the suite (suite-front/logging.rs): producers append      *)
(* records to a bounded history and to a broadcast channel under one lock;   *)
(* a session replays the history it found when it subscribed and follows     *)
(* the channel from there.                                                   *)
EXTENDS Integers, Sequences, SequencesExt

CONSTANTS
  Sessions,      \* WebSockets
  Producers,     \* threads that log
  Slots,         \* MAXIMUM_SUBSCRIBERS
  Capacity,      \* LOG_REPLAY_CAPACITY, of the history and of the channel
  MaxRecords     \* bound: records logged

VARIABLES
  log,        \* ghost: every record, in the order the history lock gave them
  file,       \* the records whose line is whole in the --debug-log file
  history,    \* the records kept for replay
  writing,    \* writing[p]: the record that is past the file, not in the history; or 0
  sessions,   \* sessions[s]
  slots,      \* permits left
  stopped     \* the suite's shutdown signal

vars == <<log, file, history, writing, sessions, slots, stopped>>

Gone == [pc |-> "gone", replay |-> <<>>, next |-> 0, received |-> <<>>]
Begun == Len(log) + Cardinality({p \in Producers : writing[p] /= 0})

-----------------------------------------------------------------------------
(* LoggingRuntime::record                                                    *)

\* The line, unless no file was set or the write fails, which is ignored.
WriteFile(p) ==
  LET n == Begun + 1
  IN /\ writing[p] = 0 /\ n <= MaxRecords
     /\ file' \in {file \cup {n}, file}
     /\ writing' = [writing EXCEPT ![p] = n]
     /\ UNCHANGED <<log, history, sessions, slots, stopped>>

record(p) ==
  /\ writing[p] /= 0
  /\ history' = Append(IF Len(history) = Capacity THEN Tail(history) ELSE history, writing[p])
  /\ log' = Append(log, writing[p])
  /\ writing' = [writing EXCEPT ![p] = 0]
  /\ UNCHANGED <<file, sessions, slots, stopped>>

-----------------------------------------------------------------------------

upgrade(s) ==
  /\ sessions[s].pc = "gone" /\ ~stopped /\ slots > 0
  /\ slots' = slots - 1
  /\ sessions' = [sessions EXCEPT ![s] = [Gone EXCEPT !.pc = "open"]]
  /\ UNCHANGED <<log, file, history, writing, stopped>>

\* The snapshot and the subscription are one step under the history lock.
subscribe(s) ==
  /\ sessions[s].pc = "open"
  /\ sessions' = [sessions EXCEPT ![s].pc = "live", ![s].replay = history, ![s].next = Len(log) + 1]
  /\ UNCHANGED <<log, file, history, writing, slots, stopped>>

\* A session ends and gives its permit back: it lags (and is told to reconnect),
\* the client leaves, a send takes thirty seconds, or the suite stops.
End(s) ==
  /\ sessions' = [sessions EXCEPT ![s].pc = "gone"]
  /\ slots' = slots + 1
  /\ UNCHANGED <<log, file, history, writing, stopped>>

Receive(s, r) == [sessions[s] EXCEPT !.received = Append(@, r)]

Replay(s) ==
  /\ sessions[s].pc = "live" /\ sessions[s].replay /= <<>> /\ ~stopped
  /\ sessions' = [sessions EXCEPT ![s] =
       [Receive(s, Head(sessions[s].replay)) EXCEPT !.replay = Tail(@)]]
  /\ UNCHANGED <<log, file, history, writing, slots, stopped>>

\* The channel keeps the newest Capacity records.
Lagged(s) == Len(log) - sessions[s].next >= Capacity

(* Mutant: a session that lags goes on with the oldest record kept. *)
MutSession(s) ==
  /\ sessions[s].pc = "live" /\ sessions[s].replay = <<>>
  /\ sessions[s].next <= Len(log)
  /\ LET n == IF Lagged(s) THEN Len(log) - Capacity + 1 ELSE sessions[s].next
     IN sessions' = [sessions EXCEPT ![s] = [Receive(s, log[n]) EXCEPT !.next = n + 1]]
  /\ UNCHANGED <<log, file, history, writing, slots, stopped>>

session(s) ==
  /\ sessions[s].pc = "live" /\ sessions[s].replay = <<>>
  /\ sessions[s].next <= Len(log)
  /\ \/ Lagged(s) /\ End(s)
     \/ /\ ~Lagged(s) /\ ~stopped
        /\ sessions' = [sessions EXCEPT ![s] = [Receive(s, log[@.next]) EXCEPT !.next = @ + 1]]
        /\ UNCHANGED <<log, file, history, writing, slots, stopped>>

Leave(s) == sessions[s].pc \in {"open", "live"} /\ End(s)

Stop ==
  /\ ~stopped
  /\ stopped' = TRUE
  /\ UNCHANGED <<log, file, history, writing, sessions, slots>>

-----------------------------------------------------------------------------

Init ==
  /\ log = <<>> /\ file = {} /\ history = <<>>
  /\ writing = [p \in Producers |-> 0]
  /\ sessions = [s \in Sessions |-> Gone]
  /\ slots = Slots /\ stopped = FALSE

Next ==
  \/ Stop
  \/ \E p \in Producers : WriteFile(p) \/ record(p)
  \/ \E s \in Sessions : upgrade(s) \/ subscribe(s) \/ Replay(s) \/ session(s) \/ Leave(s)

Spec == Init /\ [][Next]_vars

-----------------------------------------------------------------------------

(* FeedsUnbroken: what a session has sent is a stretch of the log without a  *)
(* gap or a repetition, from replay into live records, whatever was logged   *)
(* between its snapshot and its first receive; a session that fell behind    *)
(* the channel is closed and never goes on past the gap.  A file that is not *)
(* set, or whose writes fail, changes nothing of this; it may lack records,  *)
(* and holds none that is not logged or about to be.  And a permit is out    *)
(* for every session that is not gone, and no other (record, subscribe in    *)
(* session, Lagged, upgrade).                                                *)
FeedsUnbroken ==
  /\ \A s \in Sessions :
       LET received == sessions[s].received
       IN \E first \in 0..(Len(log) - Len(received)) : received = SubSeq(log, first + 1, first + Len(received))
  /\ file \subseteq Range(log) \cup {writing[p] : p \in Producers}
  /\ slots = Slots - Cardinality({s \in Sessions : sessions[s].pc /= "gone"})
=============================================================================
