----------------------------- MODULE CloudFunctions --------------------------
(* Cloud Functions: the trigger table of one codebase, its reloads and its  *)
(* worker (functions-runtime), and the delivery of events to it             *)
(* (functions-bridge).                                                      *)
(*                                                                          *)
(* A saved source file starts a reload task of its own: it discovers the    *)
(* definitions, stores them, rewrites the table under the registry lock and *)
(* replaces the worker, steps another reload, the hub's background switch,  *)
(* a commit and a delivery may come between.  The background switch goes    *)
(* through one queue, and switching on takes the registry lock twice.       *)
(*                                                                          *)
(* The registry lock keeps readers of the table out of a rewrite, but not   *)
(* commits: these are matched against the bridge's registrations under the  *)
(* bridge's own lock, which a rewrite takes anew for each registration it   *)
(* releases or adds.  The requests queue for a coordinator that suppresses  *)
(* ids it has seen and delivers at most MaxConcurrent at a time, each       *)
(* delivery being retried by an answer that does not say the handler ran.   *)
EXTENDS Naturals, Sequences, FiniteSets, SequencesExt

CONSTANTS
  Sources,        \* Sources[v]: the definitions version v of the code exports
  Commits,        \* what a commit may change: sequences of [path, before, after]
  Messages,       \* ids of Pub/Sub messages and of Auth and Storage events
  Subscribable,   \* keys that others subscribe to Eventarc channels
  MaxConcurrent,  \* DeliveryPolicy.max_concurrent
  MaxAttempts,    \* DeliveryPolicy.max_attempts
  DedupeCapacity, \* DeliveryPolicy.dedupe_capacity
  MaxEdits,       \* bound on saved edits, and so on reloads
  MaxSwitches,    \* bound on requests to the hub's background switch
  MaxCommits,     \* bound on commits
  MaxEnqueued,    \* bound on events of other services and subscriptions by others
  MaxFaults       \* bound on exits, failed starts, losses and timeouts

ASSUME PolicyAssumption ==
  /\ MaxConcurrent \in Nat \ {0}
  /\ MaxAttempts \in Nat \ {0}
  /\ DedupeCapacity \in Nat \ {0}

\* The manifest maps ids to endpoints: no two definitions of a version share
\* one.  (An endpoint that lists one region twice is left out.)
ASSUME SourcesAssumption ==
  /\ 1 \in DOMAIN Sources
  /\ \A v \in DOMAIN Sources :
       /\ Sources[v] \in Seq(ToSet(Sources[v]))
       /\ \A i, j \in DOMAIN Sources[v] : Sources[v][i].name = Sources[v][j].name => i = j

\* A commit changes documents in an order; no other event is told by a change.
ASSUME EventsAssumption ==
  /\ \A changes \in Commits : changes \in Seq(ToSet(changes))
  /\ \A m \in Messages : m[1] /= "change"

VARIABLES
  source,      \* the version of the code on disk
  dirty,       \* the watcher holds a notification
  loads,       \* the reload tasks, in the order they were started
  loaded,      \* Backend.loaded: the last definitions and the last error
  records,     \* Registry.records
  generation,  \* Registry.generation
  bridge,      \* TriggerRegistry.inner: the Firestore registrations
  rewrite,     \* the rewrite that holds the registry lock: what the bridge is
               \* yet to hold, and (history) what it held before
  external,    \* Registry.external_eventarc: keys subscribed by others
  background,  \* TriggerRegistry.background_enabled
  requests,    \* background switches the hub has forwarded
  switching,   \* the switch being carried out
  worker,      \* the source the live worker loaded, 0 for none
  queue,       \* requests not yet received by the coordinator
  seen,        \* event ids admitted, oldest first (seen_order)
  deliveries,  \* delivery tasks, in the order they were started
  stopping,    \* "no", "asked", "closed", "ended"
  health,      \* DeliveryHealth counters
  revision,    \* the revision of the last commit
  edits, switches, faults, enqueued,   \* consumed bounds
  sent,        \* history: requests the queue accepted
  dropped,     \* history: event ids forgotten by the dedupe window
  runs,        \* history: handler runs, [delivery, sure]
  overlapped   \* history: two rewrites of the table ran at once

tableVars == <<loaded, records, generation, bridge, rewrite>>
loadVars == <<source, dirty, loads, edits>>
switchVars == <<background, requests, switching, switches>>
deliveryVars == <<queue, seen, deliveries, stopping, health, sent, dropped>>
eventVars == <<external, enqueued>>
vars == <<tableVars, loadVars, switchVars, deliveryVars, worker, revision,
          faults, eventVars, runs, overlapped>>

-----------------------------------------------------------------------------
(* The trigger table.  A definition is [name, entry, service, platform,     *)
(* event, pattern]: entry is the exported handler, service is "" for an     *)
(* HTTP function, event and pattern are the Firestore event type and        *)
(* document pattern, a sequence of segments of which "{x}" is a wildcard    *)
(* and "{x=**}" a recursive one.                                            *)

IsEvent(d) == d.service /= ""
EventTrigger(d) == IF IsEvent(d) THEN <<d.service, d.event, d.pattern>> ELSE <<>>

\* getTriggerKey: the key of an event function carries the generation, here
\* counted from one; that of an HTTP function, marked by zero, does not.
key_for(d, g) == <<d.name, IF IsEvent(d) THEN g + 1 ELSE 0>>

Keys(recs) == {recs[i].key : i \in DOMAIN recs}
IndexOf(recs, k) == CHOOSE i \in DOMAIN recs : recs[i].key = k
get(recs, k) == recs[IndexOf(recs, k)]

\* The elements of s at the places K, in their order.
Picked(s, K) ==
  LET nth(n) == CHOOSE i \in K : Cardinality({j \in K : j <= i}) = n
  IN [n \in 1..Cardinality(K) |-> s[nth(n)]]

Registration(d, k) == [key |-> k, platform |-> d.platform, event |-> d.event,
                       pattern |-> d.pattern]

validate_document_pattern(p) == p /= <<>> /\ "" \notin ToSet(p) /\ Len(p) % 2 = 0

\* register_v1 and register_v2 accept the definition.
Registrable(d) ==
  /\ d.event \in {"create", "update", "delete", "write"}
  /\ validate_document_pattern(d.pattern)

\* A recursive wildcard consumes one segment or more.
match_segments(p, path) ==
  LET m[i \in 1..Len(p) + 1, j \in 1..Len(path) + 1] ==
        IF i > Len(p) THEN j > Len(path)
        ELSE IF p[i] = "{x=**}"
               THEN \E c \in j + 1..Len(path) + 1 : m[i + 1, c]
               ELSE /\ j <= Len(path)
                    /\ p[i] \in {"{x}", path[j]}
                    /\ m[i + 1, j + 1]
  IN m[1, 1]

event_matches(event, change) ==
  CASE ~change.before /\ change.after -> event \in {"create", "write"}
    [] change.before /\ change.after  -> event \in {"update", "write"}
    [] change.before /\ ~change.after -> event \in {"delete", "write"}
    [] OTHER -> FALSE

matches(trigger, change) == /\ event_matches(trigger.event, change)
                            /\ match_segments(trigger.pattern, change.path)

\* Registrations of a platform are a map from key to trigger.
Registered(b, r) == {x \in b : x.key /= r.key \/ x.platform /= r.platform}

unregister_side_effects(b, r) ==
  IF r.ignored \/ r.def.service /= "firestore" THEN b
  ELSE {x \in b : x.key /= r.key \/ x.platform /= r.def.platform}

\* Whether a definition gets no deliveries: Firestore refuses its pattern, or
\* no emulator serves it.
Ignored(d) ==
  CASE d.service = "" -> FALSE
    [] d.service = "firestore" -> ~Registrable(d)
    [] OTHER -> d.service \notin {"pubsub", "auth", "storage", "eventarc"}

admit(b, d, k) ==
  IF d.service = "firestore" /\ ~Ignored(d)
    THEN Registered(b, Registration(d, k)) \cup {Registration(d, k)}
    ELSE b

(* Mutant: what the source dropped stays registered with the bridge. *)
MutRemoveExcept(t, keep) ==
  LET gone == {i \in DOMAIN t.records : t.records[i].key \notin keep}
  IN [records |-> [i \in DOMAIN t.records |->
                     IF i \in gone THEN [t.records[i] EXCEPT !.stale = TRUE]
                                   ELSE t.records[i]],
      bridge  |-> t.bridge]

\* remove_codebase_except: what the source no longer exports goes stale where
\* it stands.
remove_codebase_except(t, keep) ==
  LET gone == {i \in DOMAIN t.records :
                 t.records[i].key \notin keep /\ ~t.records[i].stale}
  IN [records |-> [i \in DOMAIN t.records |->
                     IF i \in gone THEN [t.records[i] EXCEPT !.stale = TRUE]
                                   ELSE t.records[i]],
      bridge  |-> {x \in t.bridge : \A i \in gone :
                     x \in unregister_side_effects(t.bridge, t.records[i])}]

NewRecord(d, k) == [key |-> k, def |-> d, enabled |-> TRUE, stale |-> FALSE,
                    ignored |-> Ignored(d)]

\* What the bridge is left with by a definition whose key is known.
Released(t, k) ==
  IF k \in Keys(t.records) THEN unregister_side_effects(t.bridge, get(t.records, k))
                           ELSE t.bridge

\* One definition of register: in place when its key is known, else appended.
RegisterOne(t, d, g) ==
  LET k == key_for(d, g)
  IN [records |-> IF k \in Keys(t.records)
                    THEN [t.records EXCEPT ![IndexOf(t.records, k)] = NewRecord(d, k)]
                    ELSE Append(t.records, NewRecord(d, k)),
      bridge  |-> admit(Released(t, k), d, k)]

\* register folds RegisterOne over the definitions, in their order: the table
\* after each.
Registering(t, ds, g) ==
  LET after[n \in 0..Len(ds)] ==
        IF n = 0 THEN t ELSE RegisterOne(after[n - 1], ds[n], g)
  IN after
register(t, ds, g) == Registering(t, ds, g)[Len(ds)]

\* What the bridge holds after each call a rewrite makes on it: the records
\* that go are unregistered one by one, and each definition first has what
\* its key had registered released and is then admitted.
RemovalPasses(t, keep) ==
  [i \in DOMAIN t.records |->
     remove_codebase_except(t, keep \cup {t.records[j].key : j \in {n \in DOMAIN t.records : n > i}}).bridge]
RegisterPasses(t, ds, g) ==
  LET after == Registering(t, ds, g)
  IN [m \in 1..2 * Len(ds) |->
        IF m % 2 = 1 THEN Released(after[m \div 2], key_for(ds[m \div 2 + 1], g))
                     ELSE after[m \div 2].bridge]

\* A rewrite of the bridge b that passes through the contents bs, those that
\* change nothing left out, ends with c and releases the registry lock.
Rewrite(b, bs, c) ==
  [was |-> b, left |-> Append(Picked(bs, {i \in DOMAIN bs :
                                bs[i] /= IF i = 1 THEN b ELSE bs[i - 1]}), c)]
NoRewrite == [was |-> {}, left |-> <<>>]

disable_background(recs) ==
  [i \in DOMAIN recs |-> IF IsEvent(recs[i].def)
                           THEN [recs[i] EXCEPT !.enabled = FALSE]
                           ELSE recs[i]]

\* Definitions of begin_reload: those without an enabled record of the same
\* handler and event, each once, in table order.
begin_reload(recs) ==
  LET needs(r) == /\ ~r.stale
                  /\ ~\E i \in DOMAIN recs : /\ recs[i].enabled
                                             /\ ~recs[i].stale
                                             /\ recs[i].def.entry = r.def.entry
                                             /\ EventTrigger(recs[i].def) = EventTrigger(r.def)
      defs == [i \in DOMAIN recs |-> recs[i].def]
      first(i) == \A j \in 1..i - 1 : needs(recs[j]) => defs[j] /= defs[i]
  IN Picked(defs, {i \in DOMAIN recs : needs(recs[i]) /\ first(i)})

Table == [records |-> records, bridge |-> bridge]

\* Nobody is rewriting the table: the registry lock is free.
RegistryFree == rewrite.left = <<>>

-----------------------------------------------------------------------------
(* Reloads.                                                                 *)

Active == {l \in DOMAIN loads : loads[l].pc /= "done"}
Rewriting == {l \in DOMAIN loads : loads[l].pc \in {"discovered", "stored"}}

SetLoad(l, load) == loads' = [loads EXCEPT ![l] = load]

\* A file of the codebase is saved, which may leave what the code exports as
\* it was; the watcher's callback queues a change.
EditSource ==
  /\ edits < MaxEdits
  /\ source' \in DOMAIN Sources
  /\ dirty' = TRUE
  /\ edits' = edits + 1
  /\ UNCHANGED <<tableVars, loads, switchVars, deliveryVars, worker, revision,
                 faults, eventVars, runs, overlapped>>

\* The debounced burst ends and a reload task is spawned.
Debounced ==
  /\ dirty
  /\ dirty' = FALSE
  /\ loads' = Append(loads, [pc |-> "spawned", defs |-> <<>>])
  /\ UNCHANGED <<tableVars, source, edits, switchVars, deliveryVars, worker,
                 revision, faults, eventVars, runs, overlapped>>

\* discover reads the code as it now is, or fails to.
Discover(l) ==
  /\ loads[l].pc = "spawned"
  /\ \/ /\ SetLoad(l, [pc |-> "discovered", defs |-> Sources[source]])
        /\ UNCHANGED faults
     \/ /\ faults < MaxFaults
        /\ faults' = faults + 1
        /\ SetLoad(l, [pc |-> "failed", defs |-> <<>>])
  /\ overlapped' = (overlapped \/ Rewriting /= {} \/ switching.pc = "begun")
  /\ UNCHANGED <<tableVars, source, dirty, edits, switchVars, deliveryVars,
                 worker, revision, eventVars, runs>>

\* load_backend's first block: a failed reload only leaves its error.
StoreLoaded(l) ==
  /\ loads[l].pc \in {"discovered", "failed"}
  /\ IF loads[l].pc = "failed"
       THEN /\ loaded' = [loaded EXCEPT !.error = TRUE]
            /\ SetLoad(l, [loads[l] EXCEPT !.pc = "done"])
       ELSE /\ loaded' = [defs |-> loads[l].defs, error |-> FALSE]
            /\ SetLoad(l, [loads[l] EXCEPT !.pc = "stored"])
  /\ UNCHANGED <<records, generation, bridge, rewrite, source, dirty, edits,
                 switchVars, deliveryVars, worker, revision, faults, eventVars,
                 runs, overlapped>>

\* load_backend's second block takes the registry lock and rewrites the table;
\* nobody sees the records before the lock is released.
RegisterLoaded(l) ==
  /\ loads[l].pc = "stored"
  /\ RegistryFree
  /\ LET ds == loads[l].defs
         keep == {key_for(ds[i], generation) : i \in DOMAIN ds}
         t == remove_codebase_except(Table, keep)
         u == register(t, ds, generation)
     IN /\ records' = u.records
        /\ rewrite' = Rewrite(bridge, RemovalPasses(Table, keep)
                                        \o RegisterPasses(t, ds, generation), u.bridge)
  /\ SetLoad(l, [loads[l] EXCEPT !.pc = "registering"])
  /\ UNCHANGED <<loaded, generation, bridge, source, dirty, edits, switchVars,
                 deliveryVars, worker, revision, faults, eventVars, runs,
                 overlapped>>

\* The rewrite makes its next call on the bridge; after the last it releases
\* the registry lock.
RewriteBridge ==
  /\ ~RegistryFree
  /\ bridge' = Head(rewrite.left)
  /\ IF Len(rewrite.left) = 1
       THEN /\ rewrite' = NoRewrite
            /\ loads' = [l \in DOMAIN loads |-> IF loads[l].pc = "registering"
                                                THEN [loads[l] EXCEPT !.pc = "registered"]
                                                ELSE loads[l]]
            /\ switching' = IF switching.pc = "registering"
                              THEN [pc |-> "registered", defs |-> <<>>] ELSE switching
       ELSE /\ rewrite' = [rewrite EXCEPT !.left = Tail(@)]
            /\ UNCHANGED <<loads, switching>>
  /\ UNCHANGED <<loaded, records, generation, source, dirty, edits, background,
                 requests, switches, deliveryVars, worker, revision, faults,
                 eventVars, runs, overlapped>>

\* A started worker loads the code as it now is; a stopped one is gone.
spawn == source
stop == 0

\* WorkerSlot.replace: the spec is set and the live worker stopped.
Replace(l) ==
  /\ loads[l].pc = "registered"
  /\ worker' = stop
  /\ SetLoad(l, [loads[l] EXCEPT !.pc = "done"])
  /\ UNCHANGED <<tableVars, source, dirty, edits, switchVars, deliveryVars,
                 revision, faults, eventVars, runs, overlapped>>

\* The worker process exits by itself.
WorkerExits ==
  /\ faults < MaxFaults
  /\ worker /= 0
  /\ worker' = 0
  /\ faults' = faults + 1
  /\ UNCHANGED <<tableVars, loadVars, switchVars, deliveryVars, revision,
                 eventVars, runs, overlapped>>

-----------------------------------------------------------------------------
(* The background switch.                                                   *)

\* The hub sets the bridge's flag at once and forwards the request.
HubSwitch ==
  /\ switches < MaxSwitches
  /\ switches' = switches + 1
  /\ \E on \in BOOLEAN : /\ background' = on
                         /\ requests' = Append(requests, on)
  /\ UNCHANGED <<tableVars, loadVars, switching, deliveryVars, worker, revision,
                 faults, eventVars, runs, overlapped>>

\* set_background_enabled takes the next request: off disables every event
\* record, on bumps the generation and collects what to register again.
BeginSwitch ==
  /\ switching.pc = "idle"
  /\ RegistryFree
  /\ requests /= <<>>
  /\ requests' = Tail(requests)
  /\ IF Head(requests)
       THEN /\ generation' = generation + 1
            /\ switching' = [pc |-> "begun", defs |-> begin_reload(records)]
            /\ UNCHANGED records
            /\ overlapped' = (overlapped \/ Rewriting /= {})
       ELSE /\ records' = disable_background(records)
            /\ switching' = [pc |-> "disabled", defs |-> <<>>]
            /\ UNCHANGED <<generation, overlapped>>
  /\ UNCHANGED <<loaded, bridge, rewrite, loadVars, background, switches,
                 deliveryVars, worker, revision, faults, eventVars, runs>>

\* The registry lock is taken again to register what was collected.
RegisterPending ==
  /\ switching.pc = "begun"
  /\ RegistryFree
  /\ LET u == register(Table, switching.defs, generation)
     IN /\ records' = u.records
        /\ rewrite' = Rewrite(bridge, RegisterPasses(Table, switching.defs, generation),
                              u.bridge)
  /\ switching' = [pc |-> "registering", defs |-> <<>>]
  /\ UNCHANGED <<loaded, generation, bridge, loadVars, background, requests, switches,
                 deliveryVars, worker, revision, faults, eventVars, runs,
                 overlapped>>

\* The bridge's flag is written again and the switch acknowledged.
EndSwitch ==
  /\ switching.pc \in {"registered", "disabled"}
  /\ background' = (switching.pc = "registered")
  /\ switching' = [pc |-> "idle", defs |-> <<>>]
  /\ UNCHANGED <<tableVars, loadVars, requests, switches, deliveryVars, worker,
                 revision, faults, eventVars, runs, overlapped>>

-----------------------------------------------------------------------------
(* Events.  A request is [key, id]: the trigger key its path names and what *)
(* happened.  A multicast request names no function.                        *)

Multicast == <<"*", 0>>
Closed == stopping \in {"closed", "ended"}

\* What suppresses a duplicate: the stable id of a change is made of the key,
\* the revision and the index, that of a message names the function without
\* its generation.
event_id(e) ==
  IF e.id[1] = "change" THEN e ELSE [key |-> <<e.key[1], 0>>, id |-> e.id]

\* The registrations' order: v1 before v2, each by key.
Precedes(x, y) ==
  \/ x.platform = "gcfv1" /\ y.platform /= "gcfv1"
  \/ x.platform = y.platform /\ x.key[1] = y.key[1] /\ x.key[2] < y.key[2]

matching(change) == {x \in bridge : background /\ matches(x, change)}

\* The changes of a commit, each with the triggers it concerns.
Concerned(changes) == {p \in (DOMAIN changes) \X bridge : p[2] \in matching(changes[p[1]])}

\* The orders the dispatches may be sent in (names compare as strings do, in
\* a way of no matter here).
Orders(P) ==
  {s \in [1..Cardinality(P) -> P] :
     \A i, j \in DOMAIN s : i < j =>
       /\ s[i] /= s[j]
       /\ s[i][1] <= s[j][1]
       /\ s[i][1] = s[j][1] => ~Precedes(s[j][2], s[i][2])}

build_dispatch(trigger, rev, index) ==
  [key |-> trigger.key, id |-> <<"change", rev, index>>]

\* TriggerObserver::committed, called by the store for each commit; a send to
\* a closed channel fails and is ignored.  (Its changes are matched one by one;
\* a rewrite's call between two changes of one commit is left out.)
committed ==
  /\ revision < MaxCommits
  /\ revision' = revision + 1
  /\ IF Closed
       THEN UNCHANGED <<queue, sent>>
       ELSE \E changes \in Commits : \E s \in Orders(Concerned(changes)) :
              LET new == [i \in DOMAIN s |-> build_dispatch(s[i][2], revision', s[i][1])]
              IN queue' = queue \o new /\ sent' = sent \o new
  /\ UNCHANGED <<tableVars, loadVars, switchVars, seen, deliveries, stopping,
                 health, dropped, worker, faults, eventVars, runs, overlapped>>

\* DispatchQueue::enqueue by another service: a Pub/Sub message names the key
\* of its function, and may come again; an Auth or Storage event is multicast.
enqueue ==
  /\ enqueued < MaxEnqueued
  /\ enqueued' = enqueued + 1
  /\ \E m \in Messages, k \in {r.key : r \in {x \in {records[i] : i \in DOMAIN records} :
                                 RegistryFree /\ x.def.service = "pubsub"}} \cup {Multicast} :
       LET e == [key |-> k, id |-> m]
       IN IF Closed THEN UNCHANGED <<queue, sent>>
          ELSE queue' = Append(queue, e) /\ sent' = Append(sent, e)
  /\ UNCHANGED <<tableVars, loadVars, switchVars, seen, deliveries, stopping,
                 health, dropped, worker, revision, faults, external, runs,
                 overlapped>>

-----------------------------------------------------------------------------
(* The coordinator.                                                         *)

InFlight(ds) == {i \in DOMAIN ds : ~ds[i].cast /\ ds[i].pc /= "joined"}
Ids(s) == {s[i] : i \in DOMAIN s}

\* admit_delivery on the coordinator's state.
admit_delivery(c, e) ==
  IF event_id(e) \in Ids(c.seen)
    THEN [c EXCEPT !.health.deduplicated = @ + 1]
    ELSE LET full == Len(c.seen) >= DedupeCapacity
             kept == IF full THEN Tail(c.seen) ELSE c.seen
         IN [seen       |-> Append(kept, event_id(e)),
             dropped    |-> IF full THEN c.dropped \cup {Head(c.seen)} ELSE c.dropped,
             health     |-> [c.health EXCEPT !.admitted = @ + 1],
             deliveries |-> Append(c.deliveries,
                              [event |-> e, attempt |-> 1, pc |-> "send",
                               cast |-> FALSE])]

Coordinator == [seen |-> seen, dropped |-> dropped, health |-> health,
                deliveries |-> deliveries]
SetCoordinator(c) ==
  /\ seen' = c.seen
  /\ dropped' = c.dropped
  /\ health' = c.health
  /\ deliveries' = c.deliveries

\* recv races shutdown.changed: a request may still come first.
Receive ==
  /\ ~Closed
  /\ queue /= <<>>
  /\ Cardinality(InFlight(deliveries)) < MaxConcurrent
  /\ SetCoordinator(admit_delivery(Coordinator, Head(queue)))
  /\ queue' = Tail(queue)
  /\ UNCHANGED <<tableVars, loadVars, switchVars, stopping, sent, worker,
                 revision, faults, eventVars, runs, overlapped>>

Shutdown ==
  /\ stopping = "no"
  /\ stopping' = "asked"
  /\ UNCHANGED <<tableVars, loadVars, switchVars, queue, seen, deliveries,
                 health, sent, dropped, worker, revision, faults, eventVars,
                 runs, overlapped>>

\* The loop sees that it is stopping and closes the channel.
Close ==
  /\ stopping = "asked"
  /\ stopping' = "closed"
  /\ UNCHANGED <<tableVars, loadVars, switchVars, queue, seen, deliveries,
                 health, sent, dropped, worker, revision, faults, eventVars,
                 runs, overlapped>>

\* What a closed channel holds is admitted before anything else, however many
\* deliveries are in flight.
Drain ==
  /\ stopping = "closed"
  /\ queue /= <<>>
  /\ SetCoordinator(admit_delivery(Coordinator, Head(queue)))
  /\ queue' = Tail(queue)
  /\ UNCHANGED <<tableVars, loadVars, switchVars, stopping, sent, worker,
                 revision, faults, eventVars, runs, overlapped>>

End ==
  /\ stopping = "closed"
  /\ queue = <<>>
  /\ InFlight(deliveries) = {}
  /\ stopping' = "ended"
  /\ UNCHANGED <<tableVars, loadVars, switchVars, queue, seen, deliveries,
                 health, sent, dropped, worker, revision, faults, eventVars,
                 runs, overlapped>>

\* join_next: record_outcome adds to the counters.
Join(i) ==
  /\ i \in InFlight(deliveries)
  /\ Closed => queue = <<>>
  /\ deliveries[i].pc \in {"delivered", "assumed", "failed"}
  /\ health' = [health EXCEPT ![deliveries[i].pc] = @ + 1,
                              !.retries = @ + deliveries[i].attempt - 1]
  /\ deliveries' = [deliveries EXCEPT ![i].pc = "joined"]
  /\ UNCHANGED <<tableVars, loadVars, switchVars, queue, seen, stopping, sent,
                 dropped, worker, revision, faults, eventVars, runs, overlapped>>

-----------------------------------------------------------------------------
(* One attempt: the bridge's deliver and the Functions port's dispatch.     *)

\* deliver's answer to a response that does not say the handler ran, and to a
\* refused connection; a multicast dispatch is made once.
Retried(d) ==
  IF d.cast \/ d.attempt = MaxAttempts
    THEN [d EXCEPT !.pc = "failed"]
    ELSE [d EXCEPT !.pc = "send", !.attempt = @ + 1]

Ended(d, outcome) == [d EXCEPT !.pc = outcome]

\* Dispatches of multicast_route: to every record the event concerns.
CastTargets ==
  Picked(records, {i \in DOMAIN records : /\ records[i].def.service \in {"auth", "storage"}
                                          /\ ~records[i].stale /\ ~records[i].ignored})
Casts(d) == [i \in DOMAIN CastTargets |->
               [event |-> [key |-> CastTargets[i].key, id |-> d.event.id],
                attempt |-> 1, pc |-> "send", cast |-> TRUE]]

\* The record is read under the registry's read lock; everything after uses
\* that copy.
Lookup(i) ==
  LET d == deliveries[i]
      k == d.event.key
  IN /\ d.pc = "send"
     /\ RegistryFree
     /\ deliveries' =
          IF k = Multicast
            THEN [deliveries EXCEPT ![i] = Ended(d, "delivered")] \o Casts(d)
            ELSE [deliveries EXCEPT ![i] =
                    CASE k \notin Keys(records) -> Ended(d, "failed")
                      [] k \in Keys(records) /\ get(records, k).stale -> Retried(d)
                      [] k \in Keys(records) /\ ~get(records, k).stale ->
                           IF get(records, k).enabled
                             THEN [d EXCEPT !.pc = "found"]
                             ELSE Ended(d, "delivered")]
     /\ UNCHANGED <<tableVars, loadVars, switchVars, queue, seen, stopping,
                    health, sent, dropped, worker, revision, faults, eventVars,
                    runs, overlapped>>

\* The connection is refused; or it breaks before the dispatch, and the event
\* is taken as delivered.
ConnectFails(i) ==
  /\ deliveries[i].pc = "send"
  /\ ~deliveries[i].cast
  /\ faults < MaxFaults
  /\ faults' = faults + 1
  /\ \/ deliveries' = [deliveries EXCEPT ![i] = Retried(@)]
     \/ deliveries' = [deliveries EXCEPT ![i] = Ended(@, "assumed")]
  /\ UNCHANGED <<tableVars, loadVars, switchVars, queue, seen, stopping, health,
                 sent, dropped, worker, revision, eventVars, runs, overlapped>>

\* WorkerSlot.origin: the live worker, or one started with the code on disk.
Origin(i) ==
  /\ deliveries[i].pc = "found"
  /\ \/ /\ worker' = IF worker = 0 THEN spawn ELSE worker
        /\ deliveries' = [deliveries EXCEPT ![i].pc = "calling"]
        /\ UNCHANGED faults
     \/ /\ worker = 0
        /\ faults < MaxFaults
        /\ faults' = faults + 1
        /\ deliveries' = [deliveries EXCEPT ![i] = Retried(@)]
        /\ UNCHANGED worker
  /\ UNCHANGED <<tableVars, loadVars, switchVars, queue, seen, stopping, health,
                 sent, dropped, revision, eventVars, runs, overlapped>>

\* A run is sure when its answer says that the handler ran.
Run(i, sure) == Append(runs, [delivery |-> i, sure |-> sure])

(* Mutant: an error answer of a handler is not marked as handled. *)
MutAnswered(i) ==
  /\ deliveries[i].pc = "calling"
  /\ runs' = Run(i, TRUE)
  /\ \/ deliveries' = [deliveries EXCEPT ![i] = Ended(@, "delivered")]
     \/ deliveries' = [deliveries EXCEPT ![i] = Retried(@)]
  /\ UNCHANGED <<tableVars, loadVars, switchVars, queue, seen, stopping, health,
                 sent, dropped, worker, revision, faults, eventVars, overlapped>>

\* The worker answers: the response carries the handled mark, so an error
\* status is final.
Answered(i) ==
  /\ deliveries[i].pc = "calling"
  /\ runs' = Run(i, TRUE)
  /\ \E outcome \in {"delivered", "failed"} :
       deliveries' = [deliveries EXCEPT ![i] = Ended(@, outcome)]
  /\ UNCHANGED <<tableVars, loadVars, switchVars, queue, seen, stopping, health,
                 sent, dropped, worker, revision, faults, eventVars, overlapped>>

\* The call ends without an answer: the function's timeout passes or the
\* worker goes away, which is reported without the mark; or the bridge's own
\* timeout passes and the event is taken as delivered.
Unanswered(i) ==
  /\ deliveries[i].pc = "calling"
  /\ faults < MaxFaults
  /\ faults' = faults + 1
  /\ runs' = Run(i, FALSE)
  /\ \/ deliveries' = [deliveries EXCEPT ![i] = Retried(@)]
     \/ /\ ~deliveries[i].cast
        /\ deliveries' = [deliveries EXCEPT ![i] = Ended(@, "assumed")]
  /\ UNCHANGED <<tableVars, loadVars, switchVars, queue, seen, stopping, health,
                 sent, dropped, worker, revision, eventVars, overlapped>>

-----------------------------------------------------------------------------
(* The Eventarc emulator.                                                   *)

\* A subscription is added or removed by another than the runtime itself.
eventarc_register ==
  /\ enqueued < MaxEnqueued
  /\ enqueued' = enqueued + 1
  /\ RegistryFree
  /\ \E k \in Subscribable : external' = Append(external, k)
  /\ UNCHANGED <<tableVars, loadVars, switchVars, deliveryVars, worker, revision,
                 faults, runs, overlapped>>

eventarc_remove ==
  /\ RegistryFree
  /\ \E k \in ToSet(external) :
       external' = Picked(external, {i \in DOMAIN external : external[i] /= k})
  /\ UNCHANGED <<tableVars, loadVars, switchVars, deliveryVars, worker, revision,
                 faults, enqueued, runs, overlapped>>

\* Keys subscribed to a channel: the table's own, then the external ones.
eventarc_subscriptions ==
  LET own == Picked(records, {i \in DOMAIN records :
                                /\ records[i].def.service = "eventarc"
                                /\ ~records[i].stale /\ ~records[i].ignored})
  IN [i \in DOMAIN own |-> own[i].key] \o external

\* Each subscription whose filters hold gets a dispatch of its own, which
\* nobody retries.
eventarc_publish ==
  /\ enqueued < MaxEnqueued
  /\ enqueued' = enqueued + 1
  /\ RegistryFree
  /\ \E m \in Messages :
       deliveries' = deliveries \o
         [i \in DOMAIN eventarc_subscriptions |->
            [event |-> [key |-> eventarc_subscriptions[i], id |-> m],
             attempt |-> 1, pc |-> "send", cast |-> TRUE]]
  /\ UNCHANGED <<tableVars, loadVars, switchVars, queue, seen, stopping, health,
                 sent, dropped, worker, revision, faults, external, runs,
                 overlapped>>

-----------------------------------------------------------------------------
Init ==
  /\ source = 1
  /\ dirty = FALSE
  /\ loads = <<>>
  /\ loaded = [defs |-> Sources[1], error |-> FALSE]
  /\ LET t == register([records |-> <<>>, bridge |-> {}], Sources[1], 0)
     IN records = t.records /\ bridge = t.bridge
  /\ rewrite = NoRewrite
  /\ generation = 0
  /\ background = TRUE
  /\ external = <<>>
  /\ requests = <<>>
  /\ switching = [pc |-> "idle", defs |-> <<>>]
  /\ worker = 1
  /\ queue = <<>> /\ seen = <<>> /\ deliveries = <<>>
  /\ stopping = "no"
  /\ health = [admitted |-> 0, deduplicated |-> 0, delivered |-> 0, assumed |-> 0,
               failed |-> 0, retries |-> 0]
  /\ revision = 0
  /\ edits = 0 /\ switches = 0 /\ faults = 0 /\ enqueued = 0
  /\ sent = <<>> /\ dropped = {} /\ runs = <<>> /\ overlapped = FALSE

Reload(l) == Discover(l) \/ StoreLoaded(l) \/ RegisterLoaded(l) \/ Replace(l)
Switch == BeginSwitch \/ RegisterPending \/ EndSwitch
Attempt(i) == \/ Lookup(i) \/ ConnectFails(i) \/ Origin(i) \/ Answered(i)
              \/ Unanswered(i)
Coordinate == \/ Receive \/ Close \/ Drain \/ End
              \/ \E i \in DOMAIN deliveries : Join(i)

Next ==
  \/ EditSource \/ Debounced \/ WorkerExits
  \/ \E l \in DOMAIN loads : Reload(l)
  \/ HubSwitch \/ Switch \/ RewriteBridge
  \/ committed \/ enqueue
  \/ eventarc_register \/ eventarc_remove \/ eventarc_publish
  \/ Coordinate \/ Shutdown
  \/ \E i \in DOMAIN deliveries : Attempt(i)

Spec == Init /\ [][Next]_vars

-----------------------------------------------------------------------------
(* Properties.                                                              *)

Live(r) == ~r.stale /\ ~r.ignored
LiveDefs == {records[i].def : i \in {j \in DOMAIN records : ~records[j].stale}}

\* The registrations the table calls for.
Deserved ==
  {Registration(records[i].def, records[i].key) :
              i \in {j \in DOMAIN records : Live(records[j])
                                            /\ records[j].def.service = "firestore"}}

(* Outside a rewrite the bridge holds a registration for exactly the        *)
(* Firestore records that are neither stale nor ignored, whatever reloads   *)
(* and switches ran against each other.  During a rewrite that no other     *)
(* overlapped, a commit misses at most one of the functions that are live   *)
(* before and after: the one whose registration is just being replaced      *)
(* (register releases it and admits it again under two locks; a commit in   *)
(* between does not reach it).  Once reloads and switches have ended, the   *)
(* table and the worker are those of the code on disk as the last           *)
(* successful reload read it: the records not stale are the loaded          *)
(* definitions, unless two rewrites overlapped, and a worker left running   *)
(* loaded that code.                                                        *)
RoutingCurrent ==
  /\ RegistryFree => bridge = Deserved
  /\ ~RegistryFree /\ ~overlapped =>
       \A x, y \in (rewrite.was \cap Deserved) \ bridge : x = y
  /\ Active = {} /\ ~dirty /\ switching.pc = "idle" /\ ~loaded.error =>
       /\ ~overlapped => LiveDefs = ToSet(loaded.defs)
       /\ worker \in {0, source}

(* A function runs once for a queued event, though a change is sent to     *)
(* every generation of its record that is still registered and attempts    *)
(* are repeated: a second run follows only a call whose answer was lost,   *)
(* or an id the bounded window of seen ids has forgotten.                  *)
RunsOnce ==
  \A i, j \in DOMAIN runs :
    LET first == deliveries[runs[i].delivery]
        second == deliveries[runs[j].delivery]
    IN /\ i < j
       /\ ~first.cast /\ ~second.cast
       /\ first.event.id = second.event.id
       /\ first.event.key[1] = second.event.key[1]
       => ~runs[i].sure \/ event_id(second.event) \in dropped

(* Nothing the queue accepted is lost: what the coordinator has not        *)
(* received waits, what it received is counted once as a duplicate or      *)
(* admitted, and what was admitted is in flight or has one outcome; after  *)
(* a shutdown has ended nothing waits or is in flight.                     *)
NothingLost ==
  /\ Len(sent) = Len(queue) + health.admitted + health.deduplicated
  /\ health.admitted = health.delivered + health.assumed + health.failed
                       + Cardinality(InFlight(deliveries))
  /\ stopping = "ended" => queue = <<>> /\ InFlight(deliveries) = {}

(* A queued event is not lost, and its function runs once for it: see       *)
(* NothingLost and RunsOnce (Coordinator, admit, drain, deliver).           *)
EventsRunOnce == NothingLost /\ RunsOnce
=============================================================================
