------------------------------- MODULE Listen -------------------------------
(***************************************************************************)
(* One Listen stream: the task of crates/grpc-front/src/listen.rs, the     *)
(* targets it watches (crates/watch-broker/src/lib.rs), the channel to the *)
(* client, and a client that resumes where it last was consistent.         *)
(*                                                                         *)
(* The task reads the store at three moments of its own: the snapshot, the *)
(* baseline of a resumed target and the change history.  Commits happen    *)
(* between them.  Two abstractions: the document changes of one refresh    *)
(* are one response, since a client acts on them at a checkpoint only; and *)
(* a read time is the revision that was current when the clock was read,   *)
(* the one that Store::snapshot_at_time finds for it.                      *)
(***************************************************************************)
EXTENDS VersionedStore, FiniteSets

CONSTANTS
    Targets,        \* target IDs
    Query,          \* Query[t]: scope, filter and limit of target t, and
                    \* whether a client may ask for its answer only once
    Resume,         \* Resume[t]: how the client resumes target t: by "token",
                    \* by "read_time", or by an "expired" read time
    Denials,        \* TRUE iff the rules may deny a target
    Buffer,         \* RESPONSE_BUFFER: the capacity of the channel
    MaxRevision     \* bound: the largest revision

VARIABLES
    targets,        \* the active targets: their view and its revision
    work,           \* where the stream task is in its handler
    outbox,         \* the responses its handler has still to send
    wire,           \* the channel: sent and not yet received
    requests,       \* the client's requests, not yet read
    listens         \* the client: its targets, and what it saved of each

server == <<targets, work, outbox>>
vars   == <<store, targets, work, outbox, wire, requests, listens>>

-----------------------------------------------------------------------------
Idle == [stage |-> "idle"]
NoTargets == [t \in {} |-> [revision |-> 0, documents |-> NoDocuments]]
Nothing == [known |-> FALSE, view |-> NoDocuments, token |-> 0, read |-> 0]
Unlistened == [status |-> "off", once |-> FALSE, view |-> NoDocuments, saved |-> Nothing]

Init ==
    /\ StoreInit
    /\ targets = NoTargets
    /\ work = Idle
    /\ outbox = <<>>
    /\ wire = <<>>
    /\ requests = <<>>
    /\ listens = [t \in Targets |-> Unlistened]

(* A front end commits; history_floor matters only to who resumes by time. *)
StoreCommit ==
    /\ revision < MaxRevision
    /\ \E docs \in Documents \ {DocsAt(revision)} : Commit(docs, revision + 1)
    /\ history_floor' = change_floor' \/ \E t \in Targets : "read_time" \in Resume[t]
    /\ UNCHANGED <<server, wire, requests, listens>>

-----------------------------------------------------------------------------
(* Watch targets.                                                           *)

(* evaluate: the first documents, in key order, that the query matches. *)
evaluate(t, docs) ==
    LET matching == {k \in Query[t].scope : docs[k] \in Query[t].match}
    IN  [k \in Keys |->
            IF k \in matching /\ Cardinality({j \in matching : j < k}) < Query[t].limit
            THEN docs[k] ELSE Absent]

Count(view) == Cardinality({k \in Keys : view[k] # Absent})

(* WatchTarget::refresh: the transitions from one view to the next. *)
Transitions(before, after) ==
    [k \in {j \in Keys : before[j] # after[j]} |-> after[k]]

contains_scope_key(t, k) == k \in Query[t].scope

Oldest == CHOOSE r \in {targets[t].revision : t \in DOMAIN targets} :
             \A t \in DOMAIN targets : r <= targets[t].revision

(* WatchTarget::refresh_with_changes may keep the view: the history is      *)
(* complete, and no change up to the snapshot is in the target's scope.     *)
Untouched(t, snapshot) ==
    /\ Retained(Oldest)
    /\ \A change \in ChangesSince(Oldest) :
          change[1] \in (targets[t].revision + 1) .. snapshot
             => ~contains_scope_key(t, change[2])

refresh_with_changes(t, snapshot) ==
    [revision  |-> snapshot,
     documents |-> IF Untouched(t, snapshot) THEN targets[t].documents
                   ELSE evaluate(t, DocsAt(snapshot))]

(* authorize_target, on every target that is behind: the rules may have     *)
(* changed, or what they read.                                              *)
Deniable(denied) == denied = {} \/ Denials

Behind(snapshot) == {t \in DOMAIN targets : targets[t].revision < snapshot}

(* Fault: a new target leaves the others as they are. *)
RefreshNone(snapshot, denied) == targets

(* refresh_targets_at_snapshot: what it leaves of the targets... *)
Refreshed(snapshot, denied) ==
    [t \in DOMAIN targets \ denied |->
        IF t \in Behind(snapshot) THEN refresh_with_changes(t, snapshot) ELSE targets[t]]

(* ...and the response that carries its document changes and its errors.    *)
RefreshResponse(after, denied) ==
    [kind    |-> "changes",
     denied  |-> denied,
     changes |-> [t \in DOMAIN after |->
                     Transitions(targets[t].documents, after[t].documents)]]

(* Fault: a document that leaves the view does not count as a change. *)
Grows(response) ==
    \E t \in DOMAIN response.changes :
       \E k \in DOMAIN response.changes[t] : response.changes[t][k] # Absent

(* refresh_targets_at_snapshot returns whether it sent a document change. *)
Changed(response) == \E t \in DOMAIN response.changes : DOMAIN response.changes[t] # {}

Said(response) ==
    IF Changed(response) \/ response.denied # {} THEN <<response>> ELSE <<>>

-----------------------------------------------------------------------------
(* The stream task.  A handler has ended when its responses are sent.       *)

Ready == work = Idle /\ outbox = <<>>

(* add_target up to its rules, which judge the snapshot it has taken. *)
add_target ==
    /\ Ready
    /\ requests # <<>> /\ Head(requests).kind = "add"
    /\ requests' = Tail(requests)
    /\ \/ /\ work' = [stage |-> "initialize", request |-> Head(requests), snapshot |-> revision]
          /\ UNCHANGED outbox
       \/ /\ Denials
          /\ outbox' = <<[kind |-> "error", id |-> Head(requests).id]>>
          /\ UNCHANGED work
    /\ UNCHANGED <<store, targets, wire, listens>>

(* The responses of send_initial_target; "current" stands for CURRENT and   *)
(* for the NO_CHANGE checkpoint right after it, with its token and time.    *)
InitialResponses(t, mode, filter, view, changes, snapshot) ==
    LET checkpoint == [kind |-> "checkpoint", token |-> snapshot, read |-> 0]
        count == [kind |-> "filter", id |-> t, count |-> Count(view)]
    IN  <<[kind |-> "add", id |-> t]>>
        \o (IF mode = "reset" THEN <<[kind |-> "reset", id |-> t]>> ELSE <<>>)
        \o (IF filter = "count_only" THEN <<checkpoint>> ELSE <<>>)
        \o <<[kind |-> "changes", denied |-> {}, changes |-> [i \in {t} |-> changes]]>>
        \o (IF filter = "none" THEN <<>> ELSE <<count>>)
        \o <<[kind |-> "current", id |-> t, token |-> snapshot, read |-> 0]>>

(* initialize_target, resumed_target: the baseline is read from the store   *)
(* now, which may have dropped it since the snapshot was taken.             *)
initialize_target ==
    LET t        == work.request.id
        resume   == work.request.resume
        point    == work.request.point
        snapshot == work.snapshot
        view     == evaluate(t, DocsAt(snapshot))
        all      == Transitions(NoDocuments, view)
        baseline == evaluate(t, DocsAt(point))
        Siblings(mode, filter, changes) ==
            [stage |-> "siblings", id |-> t, once |-> work.request.once,
             snapshot |-> snapshot, view |-> view,
             initial |-> InitialResponses(t, mode, filter, view, changes, snapshot)]
        Resumed == Siblings("normal",
                            IF work.request.expected \notin {0, Count(baseline)}
                            THEN "unchanged_names" ELSE "none",
                            Transitions(baseline, view))
    IN
    /\ work.stage = "initialize"
    /\ \/ /\ resume = "none"
          /\ work' = Siblings("normal", "none", all)
          /\ UNCHANGED outbox
       \/ /\ resume = "expired"
          /\ work' = Siblings("normal", "count_only", all)
          /\ UNCHANGED outbox
       \/ /\ resume = "token"
          /\ work' = IF Retained(point) THEN Resumed ELSE Siblings("reset", "none", all)
          /\ UNCHANGED outbox
       \/ /\ resume = "read_time" /\ history_floor <= point
          /\ work' = Resumed
          /\ UNCHANGED outbox
       \/ /\ resume = "read_time" /\ history_floor > point
          /\ work' = Idle
          /\ outbox' = <<[kind |-> "error", id |-> t]>>
    /\ UNCHANGED <<store, targets, wire, requests, listens>>

(* The end of add_target: its siblings reach the same snapshot first. *)
RefreshSiblings ==
    /\ work.stage = "siblings"
    /\ \E denied \in SUBSET Behind(work.snapshot) :
          LET after == Refreshed(work.snapshot, denied)
              t     == work.id
              new   == [revision |-> work.snapshot, documents |-> work.view]
          IN  /\ Deniable(denied)
              /\ outbox' = Said(RefreshResponse(after, denied)) \o work.initial
              /\ targets' = [i \in DOMAIN after \cup (IF work.once THEN {} ELSE {t}) |->
                                IF i = t THEN new ELSE after[i]]
    /\ work' = Idle
    /\ UNCHANGED <<store, wire, requests, listens>>

remove_target ==
    /\ Ready
    /\ requests # <<>> /\ Head(requests).kind = "remove"
    /\ targets' = [t \in DOMAIN targets \ {Head(requests).id} |-> targets[t]]
    /\ outbox' = <<[kind |-> "removed", id |-> Head(requests).id]>>
    /\ requests' = Tail(requests)
    /\ UNCHANGED <<store, work, wire, listens>>

(* A tick of the poll interval: refresh_targets takes a snapshot... *)
Poll ==
    /\ Ready
    /\ Behind(revision) # {}
    /\ work' = [stage |-> "poll", snapshot |-> revision]
    /\ UNCHANGED <<store, targets, outbox, wire, requests, listens>>

(* ...then reads the history, and sends a checkpoint if a view changed.     *)
refresh_targets ==
    /\ work.stage = "poll"
    /\ \E denied \in SUBSET Behind(work.snapshot) :
          LET after    == Refreshed(work.snapshot, denied)
              response == RefreshResponse(after, denied)
              checkpoint == [kind |-> "checkpoint", token |-> work.snapshot, read |-> 0]
          IN  /\ Deniable(denied)
              /\ outbox' = Said(response)
                           \o (IF Changed(response) THEN <<checkpoint>> ELSE <<>>)
              /\ targets' = after
    /\ work' = Idle
    /\ UNCHANGED <<store, wire, requests, listens>>

(* The clock is read when a checkpoint is sent: send_target_change(now()). *)
Stamped(m) == IF m.kind \in {"checkpoint", "current"} THEN [m EXCEPT !.read = revision] ELSE m

(* sender.send waits for room in the channel. *)
HasRoom == Len(wire) < Buffer

Send ==
    /\ outbox # <<>>
    /\ HasRoom
    /\ wire' = Append(wire, Stamped(Head(outbox)))
    /\ outbox' = Tail(outbox)
    /\ UNCHANGED <<store, targets, work, requests, listens>>

-----------------------------------------------------------------------------
(* The client (external): the Firestore SDK's use of the stream.            *)

(* What it keeps of a target it does not watch. *)
Without(l, status) == [Unlistened EXCEPT !.status = status, !.saved = l.saved]

(* It asks for a target again from where it last was consistent. *)
ClientListen(t) ==
    LET saved == listens[t].saved IN
    /\ listens[t].status = "off"
    /\ \E resume \in IF saved.known THEN Resume[t] ELSE {"none"}, once \in {FALSE, Query[t].once} :
          /\ requests' = Append(requests,
                [kind |-> "add", id |-> t, once |-> once,
                 resume |-> resume, expected |-> Count(saved.view),
                 point |-> IF resume = "read_time" THEN saved.read ELSE saved.token])
          /\ listens' = [listens EXCEPT ![t].status = "adding", ![t].once = once,
                                        ![t].view = saved.view]
    /\ UNCHANGED <<store, server, wire>>

ClientUnlisten(t) ==
    /\ listens[t].status = "active"
    /\ requests' = Append(requests, [kind |-> "remove", id |-> t])
    /\ listens' = [listens EXCEPT ![t] = Without(@, "leaving")]
    /\ UNCHANGED <<store, server, wire>>

(* What a checkpoint makes of a target: what it holds is what it saves. *)
Save(l, t, m) ==
    IF l.status # "active" THEN l
    ELSE [l EXCEPT !.saved =
            [known |-> TRUE, view |-> l.view, token |-> m.token,
             read  |-> IF "read_time" \in Resume[t] THEN m.read ELSE 0]]

(* A target whose filter disagrees with its view starts afresh. *)
Mismatch(l, m) == l.status = "active" /\ Count(l.view) # m.count

(* A response changes the client's targets like this: *)
Received(l, t, m) ==
    CASE m.kind = "add" /\ m.id = t /\ l.status = "adding" -> [l EXCEPT !.status = "active"]
      [] m.kind = "error" /\ m.id = t /\ l.status = "adding" -> Without(l, "off")
      [] m.kind = "removed" /\ m.id = t -> Without(l, "off")
      [] l.status # "active" -> l
      [] m.kind = "changes" /\ t \in m.denied -> Without(l, "off")
      [] m.kind = "changes" /\ t \in DOMAIN m.changes ->
            [l EXCEPT !.view = [k \in Keys |-> IF k \in DOMAIN m.changes[t]
                                               THEN m.changes[t][k] ELSE @[k]]]
      [] m.kind = "reset" /\ m.id = t -> [l EXCEPT !.view = NoDocuments]
      [] m.kind = "filter" /\ m.id = t /\ Mismatch(l, m) ->
            [Unlistened EXCEPT !.status = "leaving"]
      [] m.kind = "checkpoint" -> Save(l, t, m)
      [] m.kind = "current" ->
            IF m.id = t /\ l.once THEN Without(Save(l, t, m), "off") ELSE Save(l, t, m)
      [] OTHER -> l

ClientReceive ==
    /\ wire # <<>>
    /\ LET m == Head(wire) IN
       /\ listens' = [t \in Targets |-> Received(listens[t], t, m)]
       /\ requests' = IF m.kind = "filter" /\ Mismatch(listens[m.id], m)
                      THEN Append(requests, [kind |-> "remove", id |-> m.id])
                      ELSE requests
    /\ wire' = Tail(wire)
    /\ UNCHANGED <<store, server>>

(* The connection is lost, with everything in flight; the task ends, and    *)
(* the client opens a new stream.                                           *)
Disconnect ==
    /\ \E t \in Targets : listens[t].status # "off"
    /\ targets' = NoTargets
    /\ work' = Idle
    /\ outbox' = <<>>
    /\ wire' = <<>>
    /\ requests' = <<>>
    /\ listens' = [t \in Targets |-> Without(listens[t], "off")]
    /\ UNCHANGED store

Serve ==
    add_target \/ initialize_target \/ RefreshSiblings \/ remove_target
    \/ refresh_targets \/ Send

Next ==
    \/ StoreCommit
    \/ Serve \/ Poll
    \/ \E t \in Targets : ClientListen(t) \/ ClientUnlisten(t)
    \/ ClientReceive
    \/ Disconnect

Spec == Init /\ [][Next]_vars

(* The task runs whenever it can, the client reads its stream, and select!, *)
(* which picks at random among ready branches, does not starve the poll.    *)
Fairness == WF_vars(Serve) /\ SF_vars(Poll) /\ WF_vars(ClientReceive)

FairSpec == Spec /\ Fairness

-----------------------------------------------------------------------------
Tokens == 0 .. MaxRevision
Views  == Documents

(* Every variable has its type; a handler in progress has nothing to send. *)
TypeOK ==
    /\ history \in Seq([time : Nat, docs : Documents])
    /\ targets \in UNION {[T -> [revision : Tokens, documents : Views]] : T \in SUBSET Targets}
    /\ work.stage \in {"idle", "initialize", "siblings", "poll"}
    /\ work.stage # "idle" => outbox = <<>>
    /\ Len(wire) <= Buffer
    /\ listens \in [Targets ->
          [status : {"off", "adding", "active", "leaving"}, once : BOOLEAN, view : Views,
           saved : [known : BOOLEAN, view : Views, token : Tokens, read : Tokens]]]

(* "A token that can be used to resume the stream": what a client holds of  *)
(* a target when it saves a token is the target at that token's revision,   *)
(* whatever was committed, evicted or lost meanwhile, and however the other *)
(* target, whose checkpoints it also saves, was resumed (add_target,        *)
(* send_initial_target, refresh_targets_at_snapshot).                       *)
TokensResume ==
    \A t \in Targets :
       LET saved == listens[t].saved
       IN  saved.known /\ Resume[t] = {"token"}
              => saved.view = evaluate(t, DocsAt(saved.token))

(* The view that the task keeps of a target is the target at the revision   *)
(* it is marked with, although most refreshes do not evaluate the query     *)
(* (WatchTarget::refresh_with_changes, contains_scope_key).                 *)
ViewsExact ==
    \A t \in DOMAIN targets :
       targets[t].documents = evaluate(t, DocsAt(targets[t].revision))

(* "The consistent read_time for the given target_ids": so too for the      *)
(* revision that a saved read time names (send_target_change).              *)
ReadTimesConsistent ==
    \A t \in Targets :
       LET saved == listens[t].saved
       IN  saved.known => saved.view = evaluate(t, DocsAt(saved.read))

(* A client that stays connected, and keeps a target, ends up with what the *)
(* query matches now (Poll, refresh_targets).                               *)
CatchesUp ==
    \A t \in Targets :
       <>[](listens[t].status = "active") =>
          <>[](listens[t].saved.known
               /\ listens[t].saved.view = evaluate(t, DocsAt(revision)))
=============================================================================
