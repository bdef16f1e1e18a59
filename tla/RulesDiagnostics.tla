-------------------------- MODULE RulesDiagnostics --------------------------
(* The rules runtime as requests, reloads and diagnostics share it           *)
(* (rules-runtime: lib.rs, coverage.rs, request_history.rs, and the sessions *)
(* of suite-front/requests.rs that read the history).                        *)
(*                                                                           *)
(* A request takes the ruleset of its database, is judged by it whatever is  *)
(* installed meanwhile, counts what it visited in the coverage, and records  *)
(* itself in the history.  Neither diagnostic lock is ever waited for: a     *)
(* request that finds one held counts an omission instead.  Installed        *)
(* rulesets are numbered in the order they were installed, 0 is none; a      *)
(* source that does not compile changes nothing, and a request without rules *)
(* or by the owner is allowed and leaves no trace: both are left out.        *)
EXTENDS Integers, Sequences, FiniteSets, SequencesExt, FiniteSetsExt

CONSTANTS
  Databases, ProjectOf,   \* ProjectOf[d]: the project of a database
  Tasks,                  \* slots: requests being evaluated
  Readers,                \* slots: sessions of the Requests feed
  Values,                 \* what an expression can evaluate to
  Sizes,                  \* serialized sizes of events; 0 fails to serialize
  MaxEvents, MaxBytes, MaxAge, MaxSubscribers,        \* request_history.rs
  MaxHistories, MaxValues, MaxCoverage, MaxIdleAge,   \* coverage.rs
  MaxOps,                 \* bound: operations of one atomic request
  MaxInstalls, MaxRequests, MaxTime                   \* bounds

VARIABLES
  installed,  \* RuntimeState: the rulesets at each level, and how many there were
  tasks,      \* requests between their start and their answer
  coverage,   \* CoverageStore
  history,    \* RequestHistory
  sessions,   \* RequestSubscriptions and the sessions that own them
  clock,
  ghost       \* what the properties remember; no action reads it

vars == <<installed, tasks, coverage, history, sessions, clock, ghost>>

Projects == {ProjectOf[d] : d \in Databases}
None == "none"

-----------------------------------------------------------------------------
(* Rulesets by level.                                                        *)

installed_for(d) ==
  IF installed.databases[d] /= 0 THEN installed.databases[d]
  ELSE IF installed.projects[ProjectOf[d]] /= 0 THEN installed.projects[ProjectOf[d]]
  ELSE installed.default

Installs(databases, projects, default) ==
  /\ installed.count < MaxInstalls
  /\ installed' = [count |-> installed.count + 1, databases |-> databases,
                   projects |-> projects, default |-> default]
  /\ UNCHANGED <<tasks, coverage, history, sessions, clock>>

\* The rules a database is under from here on; nothing was evaluated by them yet.
Governs(ds) ==
  ghost' = [ghost EXCEPT
              !.governing = [d \in Databases |-> IF d \in ds THEN installed'.count ELSE @[d]],
              !.visits = [d \in Databases |-> IF d \in ds THEN [v \in Values |-> 0] ELSE @[d]]]

install_default ==
  /\ Installs(installed.databases, installed.projects, installed.count + 1)
  /\ Governs({d \in Databases : /\ installed.databases[d] = 0
                                /\ installed.projects[ProjectOf[d]] = 0})

install_database(d) ==
  /\ Installs([installed.databases EXCEPT ![d] = installed.count + 1],
              installed.projects, installed.default)
  /\ Governs({d})

install_project(p) ==
  /\ Installs([d \in Databases |-> IF ProjectOf[d] = p THEN 0 ELSE installed.databases[d]],
              [installed.projects EXCEPT ![p] = installed.count + 1], installed.default)
  /\ Governs({d \in Databases : ProjectOf[d] = p})

-----------------------------------------------------------------------------
(* Coverage: per database, how often the ruleset's expression had each       *)
(* value.  A database's history costs one unit, and so does each value.      *)

charged_bytes(entries) == FoldLeft(LAMBDA n, e : n + 1 + Cardinality(DOMAIN e.counts), 0, entries)

Fresh(e) == clock - e.updated <= MaxIdleAge

\* Which reload an entry belongs to is told by the ruleset itself, not its text.
SameRules(e, rules) == e.rules = rules

\* The coverage with the history of d under these rules at hand, and whether
\* there is room for it.
ensure(d, rules) ==
  LET kept == SelectSeq(coverage.entries, Fresh)
      mine == {i \in DOMAIN kept : kept[i].scope = d}
      current == \E i \in mine : SameRules(kept[i], rules)
      others == SelectSeq(kept, LAMBDA e : e.scope /= d)
      oldest == CHOOSE i \in DOMAIN others :
                  /\ \A l \in DOMAIN others : others[i].updated <= others[l].updated
                  /\ \A l \in 1..i - 1 : others[l].updated > others[i].updated
      room == IF Len(others) = MaxHistories THEN RemoveAt(others, oldest) ELSE others
      made == [scope |-> d, rules |-> rules, counts |-> <<>>, omitted |-> 0, updated |-> clock]
      evicted == coverage.evicted + (Len(coverage.entries) - Len(kept))
  IN IF current
       THEN [ok |-> TRUE, evicted |-> evicted,
             entries |-> [i \in DOMAIN kept |->
                            IF i \in mine THEN [kept[i] EXCEPT !.updated = clock] ELSE kept[i]]]
     ELSE IF charged_bytes(room) >= MaxCoverage
       THEN [ok |-> FALSE, evicted |-> evicted + Len(others) - Len(room), entries |-> room]
     ELSE [ok |-> TRUE, evicted |-> evicted + Len(others) - Len(room),
           entries |-> Append(room, made)]

observe(entries, d, value) ==
  LET i == CHOOSE i \in DOMAIN entries : entries[i].scope = d
      e == entries[i]
  IN IF value \in DOMAIN e.counts THEN [entries EXCEPT ![i].counts[value] = @ + 1]
     ELSE IF Cardinality(DOMAIN e.counts) = MaxValues \/ charged_bytes(entries) >= MaxCoverage
       THEN [entries EXCEPT ![i].omitted = @ + 1]
     ELSE [entries EXCEPT ![i].counts = [v \in DOMAIN e.counts \cup {value} |->
                                           IF v = value THEN 1 ELSE e.counts[v]]]

\* A slow request may put the rules it was judged by in place of newer ones.
Displaced(d, rules) == \E i \in DOMAIN coverage.entries :
                         coverage.entries[i].scope = d /\ coverage.entries[i].rules > rules

Ensured(d, rules, holder) ==
  LET e == ensure(d, rules)
  IN /\ coverage' = [entries |-> e.entries, evicted |-> e.evicted,
                     omitted |-> coverage.omitted + IF e.ok \/ holder = None THEN 0 ELSE 1,
                     lock |-> IF e.ok THEN holder ELSE None]
     /\ ghost' = IF Displaced(d, rules) THEN [ghost EXCEPT !.stale = @ \cup {d}] ELSE ghost

\* A report makes room for the history it reports, and holds the lock meanwhile.
report(d) ==
  /\ coverage.lock = None /\ installed_for(d) /= 0
  /\ Ensured(d, installed_for(d), None)
  /\ UNCHANGED <<installed, tasks, history, sessions, clock>>

-----------------------------------------------------------------------------
(* Requests.                                                                 *)

Idle == [pc |-> "idle"]
Go(t, pc) == [tasks EXCEPT ![t].pc = pc]

Start(t, d) ==
  /\ tasks[t] = Idle /\ ghost.requests < MaxRequests /\ installed_for(d) /= 0
  /\ tasks' = [tasks EXCEPT ![t] = [pc |-> "judged", scope |-> d, rules |-> installed_for(d),
                                    left |-> 0, at |-> 0]]
  /\ ghost' = [ghost EXCEPT !.requests = @ + 1]
  /\ UNCHANGED <<installed, coverage, history, sessions, clock>>

session(t) ==
  /\ tasks[t].pc = "judged"
  /\ \/ /\ coverage.lock = None
        /\ Ensured(tasks[t].scope, tasks[t].rules, t)
        /\ tasks' = Go(t, IF coverage'.lock = t THEN "covered" ELSE "bare")
     \/ /\ coverage.lock /= None
        /\ coverage' = [coverage EXCEPT !.omitted = @ + 1]
        /\ tasks' = Go(t, "bare")
        /\ UNCHANGED ghost
  /\ UNCHANGED <<installed, history, sessions, clock>>

\* The evaluation of an atomic request, operation by operation; the coverage
\* is released before the operations are recorded.
evaluate(t, values) ==
  LET d == tasks[t].scope
  IN /\ tasks[t].pc \in {"covered", "bare"}
     /\ coverage' = IF tasks[t].pc = "bare" THEN coverage
                    ELSE [coverage EXCEPT !.entries = FoldLeft(LAMBDA es, v : observe(es, d, v),
                                                               @, values),
                                          !.lock = None]
     /\ tasks' = [tasks EXCEPT ![t] = [@ EXCEPT !.pc = "record", !.left = Len(values)]]
     /\ ghost' = [ghost EXCEPT !.visits[d] =
                    [v \in Values |-> @[v] + IF tasks[t].rules = ghost.governing[d]
                                               THEN Cardinality({i \in DOMAIN values : values[i] = v})
                                               ELSE 0]]
     /\ UNCHANGED <<installed, history, sessions, clock>>

-----------------------------------------------------------------------------
(* The history: entries [event, size, at], and the queues of its readers.    *)

Charge(entries) == FoldLeft(LAMBDA n, e : n + e.size + 1, 0, entries)

expire(entries, now) == SelectSeq(entries, LAMBDA e : now - e.at < MaxAge)

\* The oldest go until one more of this size fits.
evict(entries, size) ==
  LET fits(k) == LET rest == SubSeq(entries, k + 1, Len(entries))
                 IN Len(rest) < MaxEvents /\ Charge(rest) + size + 3 <= MaxBytes
      k == CHOOSE k \in 0..Len(entries) : fits(k) /\ \A l \in 0..k - 1 : ~fits(l)
  IN SubSeq(entries, k + 1, Len(entries))

Live == {r \in Readers : sessions[r].pc \in {"live", "got", "sending", "closing"}}

(* Mutant: omissions elsewhere are not the reader's. *)
MutIncomplete(r) == sessions[r].disconnected

is_incomplete(r) == sessions[r].disconnected \/ history.omitted /= sessions[r].admitted

\* A frame holds events; its bytes are charged until its send has ended.
enqueue(s, frame) == /\ s.charged + frame.size <= MaxBytes
                     /\ Len(s.queue) < MaxEvents + 1

Enqueued(s, frame) == [s EXCEPT !.queue = Append(@, frame), !.charged = @ + frame.size]

Expect(events) == [ghost EXCEPT !.expect = [r \in Readers |-> IF r \in Live THEN @[r] \o events
                                                              ELSE @[r]]]

\* Instant::now, then the admission.
RecordBegin(t) ==
  /\ tasks[t].pc = "record"
  /\ tasks' = IF tasks[t].left = 0 THEN [tasks EXCEPT ![t] = Idle]
              ELSE [tasks EXCEPT ![t] = [@ EXCEPT !.pc = "admit", !.at = clock, !.left = @ - 1]]
  /\ UNCHANGED <<installed, coverage, history, sessions, clock, ghost>>

RecordAdmit(t) ==
  /\ tasks[t].pc = "admit"
  /\ tasks' = Go(t, IF history.lock = None THEN "writing" ELSE "busy")
  /\ history' = IF history.lock = None THEN [history EXCEPT !.lock = t] ELSE history
  /\ UNCHANGED <<installed, coverage, sessions, clock, ghost>>

\* Whatever is not recorded is counted, and lost to those who listen.
Omit(t, lock) ==
  /\ history' = [history EXCEPT !.omitted = @ + 1, !.lock = lock]
  /\ tasks' = Go(t, "record")
  /\ ghost' = [ghost EXCEPT !.lost = @ \cup Live]
  /\ UNCHANGED <<installed, coverage, sessions, clock>>

RecordBusy(t) == tasks[t].pc = "busy" /\ Omit(t, history.lock)

record_at(t, size) ==
  /\ tasks[t].pc = "writing"
  /\ \/ size \notin 1..MaxBytes - 3 /\ Omit(t, None)
     \/ /\ size \in 1..MaxBytes - 3
        /\ LET event == ghost.recorded + 1
               frame == [events |-> <<event>>, size |-> size]
           IN /\ history' = [history EXCEPT
                   !.entries = Append(evict(expire(@, tasks[t].at), size),
                                      [event |-> event, size |-> size, at |-> tasks[t].at]),
                   !.lock = None]
              /\ sessions' = [r \in Readers |->
                   IF r \notin Live \/ sessions[r].disconnected THEN sessions[r]
                   ELSE IF enqueue(sessions[r], frame) THEN Enqueued(sessions[r], frame)
                   ELSE [sessions[r] EXCEPT !.disconnected = TRUE]]
              /\ ghost' = [Expect(<<event>>) EXCEPT !.recorded = event]
        /\ tasks' = Go(t, "record")
        /\ UNCHANGED <<installed, coverage, clock>>

\* Idle history expires too; nothing is done while the lock is held.
maintain_at ==
  /\ history.lock = None
  /\ history' = [history EXCEPT !.entries = expire(@, clock)]
  /\ UNCHANGED <<installed, tasks, coverage, sessions, clock, ghost>>

-----------------------------------------------------------------------------
(* Sessions.                                                                 *)

NoSession == [pc |-> "idle"]

SubscribeLock(r) ==
  /\ sessions[r] = NoSession /\ history.lock = None
  /\ history' = [history EXCEPT !.lock = r]
  /\ sessions' = [sessions EXCEPT ![r] = [pc |-> "locked"]]
  /\ UNCHANGED <<installed, tasks, coverage, clock, ghost>>

SubscribeLoad(r) ==
  /\ sessions[r].pc = "locked"
  /\ sessions' = [sessions EXCEPT ![r] = [pc |-> "loaded", admitted |-> history.omitted]]
  /\ UNCHANGED <<installed, tasks, coverage, history, clock, ghost>>

\* The snapshot of what is retained is the first frame.
Snapshot(entries) ==
  [events |-> [i \in DOMAIN entries |-> entries[i].event],
   size |-> 2 + Charge(entries) - IF entries = <<>> THEN 0 ELSE 1]

subscribe_at(r) ==
  LET kept == expire(history.entries, clock)
      first == Snapshot(kept)
  IN /\ sessions[r].pc = "loaded"
     /\ history' = [history EXCEPT !.entries = kept, !.lock = None,
                                   !.active = @ + IF @ < MaxSubscribers THEN 1 ELSE 0]
     /\ IF history.active >= MaxSubscribers
          THEN sessions' = [sessions EXCEPT ![r] = NoSession] /\ UNCHANGED ghost
          ELSE /\ sessions' = [sessions EXCEPT ![r] =
                    [pc |-> "live", queue |-> <<first>>, charged |-> first.size,
                     disconnected |-> FALSE, admitted |-> sessions[r].admitted,
                     frame |-> <<>>, seen |-> <<>>]]
               /\ ghost' = [ghost EXCEPT !.expect[r] = first.events, !.lost = @ \ {r}]
     /\ UNCHANGED <<installed, tasks, coverage, clock>>

\* recv: what is received is checked again before it is passed on.
recv(r) ==
  /\ sessions[r].pc = "live" /\ sessions[r].queue /= <<>>
  /\ sessions' = [sessions EXCEPT ![r] = [@ EXCEPT !.pc = "got", !.frame = <<Head(sessions[r].queue)>>,
                                                   !.queue = Tail(@)]]
  /\ UNCHANGED <<installed, tasks, coverage, history, clock, ghost>>

Released(s) == [s EXCEPT !.charged = @ - s.frame[1].size, !.frame = <<>>]

Recheck(r) ==
  /\ sessions[r].pc = "got"
  /\ sessions' = [sessions EXCEPT ![r] =
                    IF is_incomplete(r) THEN [Released(@) EXCEPT !.pc = "closing"]
                    ELSE [@ EXCEPT !.pc = "sending"]]
  /\ UNCHANGED <<installed, tasks, coverage, history, clock, ghost>>

Sent(r) ==
  /\ sessions[r].pc = "sending"
  /\ sessions' = [sessions EXCEPT ![r] =
                    [Released(@) EXCEPT !.pc = "live", !.seen = @ \o sessions[r].frame[1].events]]
  /\ UNCHANGED <<installed, tasks, coverage, history, clock, ghost>>

\* The health tick of an idle session, and the first check of recv.
Health(r) ==
  /\ sessions[r].pc = "live" /\ is_incomplete(r)
  /\ sessions' = [sessions EXCEPT ![r].pc = "closing"]
  /\ UNCHANGED <<installed, tasks, coverage, history, clock, ghost>>

\* The session ends: told that the feed is incomplete, or the client left, or
\* was too slow for one send.
End(r) ==
  /\ sessions[r].pc \in {"live", "sending", "closing"}
  /\ sessions' = [sessions EXCEPT ![r] = NoSession]
  /\ history' = [history EXCEPT !.active = @ - 1]
  /\ ghost' = [ghost EXCEPT !.expect[r] = <<>>, !.lost = @ \ {r}]
  /\ UNCHANGED <<installed, tasks, coverage, clock>>

-----------------------------------------------------------------------------

Tick == /\ clock < MaxTime
        /\ clock' = clock + 1
        /\ UNCHANGED <<installed, tasks, coverage, history, sessions, ghost>>

Init ==
  /\ installed = [count |-> 0, databases |-> [d \in Databases |-> 0],
                  projects |-> [p \in Projects |-> 0], default |-> 0]
  /\ tasks = [t \in Tasks |-> Idle]
  /\ coverage = [entries |-> <<>>, evicted |-> 0, omitted |-> 0, lock |-> None]
  /\ history = [entries |-> <<>>, omitted |-> 0, active |-> 0, lock |-> None]
  /\ sessions = [r \in Readers |-> NoSession]
  /\ clock = 0
  /\ ghost = [governing |-> [d \in Databases |-> 0], visits |-> [d \in Databases |-> [v \in Values |-> 0]],
              stale |-> {}, requests |-> 0, recorded |-> 0,
              expect |-> [r \in Readers |-> <<>>], lost |-> {}]

Batches == UNION {[1..n -> Values] : n \in 1..MaxOps}

Next ==
  \/ install_default
  \/ \E d \in Databases : install_database(d) \/ report(d)
  \/ \E p \in Projects : install_project(p)
  \/ \E t \in Tasks : \/ \E d \in Databases : Start(t, d)
                      \/ \E values \in Batches : evaluate(t, values)
                      \/ \E size \in Sizes : record_at(t, size)
                      \/ session(t) \/ RecordBegin(t) \/ RecordAdmit(t) \/ RecordBusy(t)
  \/ \E r \in Readers : \/ SubscribeLock(r) \/ SubscribeLoad(r) \/ subscribe_at(r)
                        \/ recv(r) \/ Recheck(r) \/ Sent(r) \/ Health(r) \/ End(r)
  \/ maintain_at
  \/ Tick

Spec == Init /\ [][Next]_vars

-----------------------------------------------------------------------------
(* Properties.                                                               *)

(* ReloadGoverns: whatever was installed at the other levels and in which    *)
(* order, a database is judged by the ruleset of the last installation that  *)
(* was meant for it: its own, its project's (which replaces those of the     *)
(* project's databases), or the default while it has neither                 *)
(* (RuntimeState::install_project and installed_for, rules-runtime/lib.rs).  *)
ReloadGoverns == \A d \in Databases : installed_for(d) = ghost.governing[d]

Queued(s) == FlattenSeq([i \in DOMAIN s.queue |-> s.queue[i].events])
InFlight(s) == IF s.frame = <<>> THEN <<>> ELSE s.frame[1].events
FrameBytes(s) == FoldLeft(LAMBDA n, f : n + f.size, 0, s.queue \o s.frame)

(* FeedsWhole: a reader of the Requests feed is sent the retained history and *)
(* then every event recorded since, each once and in order; as long as its   *)
(* session does not report itself incomplete nothing recorded since it       *)
(* registered is missing or was omitted, and what waits for it, what is being *)
(* sent and what the history retains stay within their limits                *)
(* (subscribe_at, record_at, recv and is_incomplete, request_history.rs).    *)
FeedsWhole ==
  /\ Len(history.entries) <= MaxEvents /\ Charge(history.entries) + 2 <= MaxBytes
  /\ history.active = Cardinality(Live) /\ history.active <= MaxSubscribers
  /\ \A r \in Live :
       LET s == sessions[r]
       IN /\ IsPrefix(s.seen, ghost.expect[r])
          /\ s.charged = FrameBytes(s) /\ s.charged <= MaxBytes
          /\ ~is_incomplete(r) => /\ r \notin ghost.lost
                                  /\ s.seen \o InFlight(s) \o Queued(s) = ghost.expect[r]

Counted(d, v) ==
  LET of(e) == /\ e.scope = d /\ SameRules(e, installed_for(d)) /\ v \in DOMAIN e.counts
  IN FoldLeft(LAMBDA n, e : n + IF of(e) THEN e.counts[v] ELSE 0, 0, coverage.entries)

Truncated(d) == \/ coverage.omitted /= 0 \/ coverage.evicted /= 0
                \/ \E i \in DOMAIN coverage.entries :
                     coverage.entries[i].scope = d /\ coverage.entries[i].omitted /= 0

(* CoverageExact: a report that does not call itself truncated counts every  *)
(* evaluation by the rules now in force and none by those they replaced,     *)
(* through reloads, idle expiry, the limits on histories, values and bytes,  *)
(* and requests that found the coverage locked (ensure, session and observe, *)
(* coverage.rs).  The databases where a slow request put replaced rules back *)
(* over newer counters, which the report does not tell, are left out.        *)
CoverageExact ==
  \A d \in Databases \ ghost.stale :
    (installed_for(d) /= 0 /\ ~Truncated(d)) =>
      \A v \in Values : Counted(d, v) = ghost.visits[d][v]
=============================================================================
