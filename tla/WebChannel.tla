----------------------------- MODULE WebChannel -----------------------------
(* WebChannel sessions (webchannel-front/lib.rs) that carry a streaming      *)
(* Write (grpc-front/write_stream.rs), over HTTP that loses, delays and      *)
(* repeats requests.                                                         *)
(*                                                                           *)
(* A browser sends numbered maps in POSTs (the forward channel) and reads    *)
(* numbered arrays from a GET (the back channel); each request acknowledges  *)
(* the arrays received so far.  Map 0 opens the Write stream, every other    *)
(* map is a write with the last stream token the browser has.  A session is  *)
(* an object that outlives its place in the registry: handlers keep it.      *)
(* The two bounded channels on either side of the backend are one queue      *)
(* each, bounded towards it; wrong kinds, wrong gsessionids and malformed    *)
(* bodies answer an error and change nothing, and are left out.              *)
EXTENDS Integers, Sequences, FiniteSets, SequencesExt, FiniteSetsExt

CONSTANTS
  MaxSids,      \* sessions ever opened
  MaxSessions,  \* MAXIMUM_CONCURRENT_SESSIONS
  MaxArrays,    \* MAXIMUM_UNACKNOWLEDGED_ARRAYS
  MaxPending,   \* MAXIMUM_PENDING_FORWARD_MAPS
  RequestRoom,  \* maps the backend's channel holds
  MaxMaps,      \* bound: writes the browsers send
  MaxIds,       \* bound: arrays queued, in all sessions
  Posts, Gets,  \* slots: forward and back channel requests in flight
  MaxFaults     \* bound: broken connections, rests and terminations

VARIABLES
  live,      \* the registry: sessions a request can find
  session,   \* session[s]: SessionState, termination, delivery lock, pump
  requests,  \* requests[s]: maps on their way to the backend
  responses, \* responses[s]: what the backend answered
  writer,    \* writer[s]: the locals of run_inner, and whether it ended
  posts,     \* forward handlers
  gets,      \* back channel handlers
  browser,   \* browser[s]: what the client of the session has and knows
  applied,   \* applied[s]: the writes committed, in order
  lost,      \* lost[s]: maps taken from a POST and then dropped
  faults     \* how many faults there were

vars == <<live, session, requests, responses, writer, posts, gets, browser, applied, lost, faults>>

Sids == 1..MaxSids
Opened == {s \in Sids : session[s].made}

Unmade == [made |-> FALSE, next |-> 0, pending |-> {}, seen |-> {}, arrays |-> <<>>,
           nextId |-> 1, rest |-> "active", ended |-> FALSE, failed |-> FALSE,
           delivery |-> FALSE, pump |-> FALSE]
FreePost == [pc |-> "free", s |-> 0, ofs |-> 0, count |-> 0, aid |-> 0, ready |-> <<>>,
             heard |-> FALSE]
FreeGet == [pc |-> "free", s |-> 0, cursor |-> 0, poll |-> FALSE, heard |-> FALSE]
NewBrowser == [knows |-> FALSE, maps |-> <<0>>, acked |-> {}, got |-> 0, token |-> -1,
               told |-> FALSE, full |-> FALSE]

Init ==
  /\ live = {}
  /\ session = [s \in Sids |-> Unmade]
  /\ requests = [s \in Sids |-> <<>>] /\ responses = [s \in Sids |-> <<>>]
  /\ writer = [s \in Sids |-> [phase |-> "handshake", token |-> 0, acked |-> 0]]
  /\ posts = [p \in Posts |-> FreePost]
  /\ gets = [g \in Gets |-> FreeGet]
  /\ browser = [s \in Sids |-> NewBrowser]
  /\ applied = [s \in Sids |-> <<>>]
  /\ lost = [s \in Sids |-> {}]
  /\ faults = 0

\* The bounds on writes and arrays are on all sessions together.
Total(count(_)) == FoldFunction(+, 0, [s \in Sids |-> count(s)])
Room == Total(LAMBDA s : session[s].nextId - 1) < MaxIds

Fault == faults < MaxFaults /\ faults' = faults + 1

-----------------------------------------------------------------------------
(* The session object.                                                       *)

\* active_backchannels: the handlers that hold a BackchannelGuard.
active_backchannels(s) ==
  {g \in Gets : gets[g].s = s /\ gets[g].pc \in {"check", "register", "wait"}}

CanEnqueue(o) == Len(o.arrays) < MaxArrays

enqueue(o, payload) ==
  IF CanEnqueue(o)
    THEN [o EXCEPT !.arrays = Append(@, [id |-> o.nextId, payload |-> payload]),
                   !.nextId = @ + 1, !.rest = "active"]
    ELSE o

\* notify_waiters: only those already waiting are woken.
notify_waiters(gs, s) ==
  [g \in Gets |-> IF gs[g].s = s /\ gs[g].pc = "wait" THEN [gs[g] EXCEPT !.pc = "check"]
                  ELSE gs[g]]

Noop == [kind |-> "noop", token |-> -1]

\* The error is queued like any message, if there is room for it.
fail(o) == [enqueue(o, [kind |-> "error", token |-> -1]) EXCEPT !.failed = TRUE]

(* Mutant: an acknowledgement frees one array more. *)
MutAcknowledge(o, aid) ==
  [o EXCEPT !.arrays = SelectSeq(@, LAMBDA a : a.id > aid + 1), !.rest = "active"]

acknowledge(o, aid) ==
  [o EXCEPT !.arrays = SelectSeq(@, LAMBDA a : a.id > aid), !.rest = "active"]

arrays_after(o, aid) == SelectSeq(o.arrays, LAMBDA a : a.id > aid)

(* Mutant: maps go to the backend in the order they arrive. *)
MutTake(o, ofs, count) ==
  LET fresh == {m \in ofs..ofs + count - 1 : <<ofs, m - ofs>> \notin o.seen /\ m >= o.next}
  IN [o |-> [o EXCEPT !.seen = @ \cup {<<ofs, i>> : i \in 0..count - 1}, !.rest = "active",
                      !.next = Max({ofs + count, o.next})],
      ready |-> SetToSortSeq(fresh, <), dropped |-> {}]

\* The part of send_maps under the state lock: keep each map not seen, then
\* take the run that starts at the next one.  A full buffer ends it early,
\* with the map marked as seen.
Take(o, ofs, count) ==
  LET keep(st, i) ==
        LET m == ofs + i
        IN IF st.dropped /= {} THEN st
           ELSE IF <<ofs, i>> \in st.seen \/ m < o.next \/ m \in st.pending
             THEN [st EXCEPT !.seen = @ \cup {<<ofs, i>>}]
           ELSE IF Cardinality(st.pending) >= MaxPending
             THEN [st EXCEPT !.seen = @ \cup {<<ofs, i>>}, !.dropped = {m}]
           ELSE [st EXCEPT !.seen = @ \cup {<<ofs, i>>}, !.pending = @ \cup {m}]
      kept == FoldLeft(keep, [seen |-> o.seen, pending |-> o.pending, dropped |-> {}],
                       [i \in 1..count |-> i - 1])
      run == IF kept.dropped /= {} THEN {}
             ELSE {m \in kept.pending : o.next..m \subseteq kept.pending}
  IN [o |-> [o EXCEPT !.seen = kept.seen, !.pending = kept.pending \ run,
                      !.next = @ + Cardinality(run), !.rest = "active"],
      ready |-> SetToSortSeq(run, <), dropped |-> kept.dropped]

-----------------------------------------------------------------------------
(* The registry.                                                             *)

\* prune_idle, at the start of create and of get.
prune_idle(found) == {s \in found : session[s].rest /= "idle"}

\* The sessions that leave the registry are told to end.
Terminate(objects, gone) ==
  [s \in Sids |-> IF s \in gone THEN [objects[s] EXCEPT !.ended = TRUE] ELSE objects[s]]

is_reclaimable(s) == session[s].rest = "dormant" /\ active_backchannels(s) = {}

\* Time without requests: past the grace of a full registry, then past the
\* idle timeout.
Rests(s) ==
  /\ s \in live /\ session[s].rest /= "idle"
  /\ IF browser[s].knows THEN Fault ELSE UNCHANGED faults
  /\ session' = [session EXCEPT ![s].rest = IF @ = "active" THEN "dormant" ELSE "idle"]
  /\ UNCHANGED <<live, requests, responses, writer, posts, gets, browser, applied, lost>>

-----------------------------------------------------------------------------
(* Forward channel.                                                          *)

\* A browser opens a channel, again if it heard no answer; map 0 travels with
\* the handshake.  Bound: one that knows its session opens no other.
Open(p) ==
  /\ posts[p].pc = "free" /\ Opened /= Sids
  /\ \A s \in Sids : ~browser[s].knows
  /\ \A q \in Posts : posts[q].pc = "open" => ~posts[q].heard
  /\ posts' = [posts EXCEPT ![p] = [FreePost EXCEPT !.pc = "open", !.count = 1, !.heard = TRUE]]
  /\ UNCHANGED <<live, session, requests, responses, writer, gets, browser, applied, lost, faults>>

\* create: a full registry gives up a dormant session, or refuses.
create(p) ==
  LET found == prune_idle(live)
      dormant == {s \in found : is_reclaimable(s)}
      s == Cardinality(Opened) + 1
  IN /\ posts[p].pc = "open" /\ s \in Sids
     /\ IF Cardinality(found) >= MaxSessions /\ dormant = {}
          THEN /\ session' = Terminate(session, live \ found)
               /\ live' = found
               /\ posts' = [posts EXCEPT ![p] = FreePost]
          ELSE \E given \in IF Cardinality(found) < MaxSessions THEN {{}}
                            ELSE {{d} : d \in dormant} :
                 /\ live' = (found \ given) \cup {s}
                 /\ session' = [Terminate(session, (live \ found) \cup given) EXCEPT
                                  ![s].made = TRUE, ![s].pump = TRUE]
                 /\ posts' = [posts EXCEPT ![p].pc = "lock", ![p].s = s]
     /\ UNCHANGED <<requests, responses, writer, gets, browser, applied, lost, faults>>

\* The browser has one more write for the stream, with the token it has.
Produce(s) ==
  /\ browser[s].knows /\ browser[s].token >= 0 /\ ~browser[s].told
  /\ Total(LAMBDA t : Len(browser[t].maps) - 1) < MaxMaps
  /\ browser' = [browser EXCEPT ![s].maps = Append(@, browser[s].token)]
  /\ UNCHANGED <<live, session, requests, responses, writer, posts, gets, applied, lost, faults>>

\* Maps the browser has not got an answer for, and waits for none about.
Unsent(s) ==
  (0..Len(browser[s].maps) - 1) \ (browser[s].acked
     \cup UNION {posts[p].ofs..posts[p].ofs + posts[p].count - 1 :
                   p \in {q \in Posts : posts[q].s = s /\ posts[q].heard}})

\* A POST leaves the browser, for the first time or again.
Send(p, s) ==
  /\ posts[p].pc = "free" /\ browser[s].knows /\ Unsent(s) /= {}
  /\ \E count \in 1..2 :
       LET lo == Min(Unsent(s))
       IN /\ lo..lo + count - 1 \subseteq Unsent(s)
          /\ posts' = [posts EXCEPT ![p] = [FreePost EXCEPT
               !.pc = "sent", !.s = s, !.ofs = lo, !.count = count,
               !.aid = browser[s].got, !.heard = TRUE]]
  /\ UNCHANGED <<live, session, requests, responses, writer, gets, browser, applied, lost, faults>>

\* post_channel up to the delivery lock.
post_channel(p) ==
  LET s == posts[p].s
      found == prune_idle(live)
      ended == Terminate(session, live \ found)
  IN /\ posts[p].pc = "sent"
     /\ live' = found
     /\ IF s \in found
          THEN /\ session' = [ended EXCEPT ![s] = acknowledge(@, posts[p].aid)]
               /\ posts' = [posts EXCEPT ![p].pc = "lock"]
               /\ UNCHANGED browser
          ELSE /\ session' = ended
               /\ posts' = [posts EXCEPT ![p] = FreePost]
               /\ browser' = [browser EXCEPT ![s].told = @ \/ posts[p].heard]
     /\ UNCHANGED <<requests, responses, writer, gets, applied, lost, faults>>

\* send_maps takes the lock and sorts out the maps.  A full buffer answers
\* 503, and the browser may send the same POST again.
send_maps(p) ==
  LET s == posts[p].s
      taken == Take(session[s], posts[p].ofs, posts[p].count)
      full == taken.dropped /= {}
  IN /\ posts[p].pc = "lock" /\ ~session[s].delivery
     /\ session' = [session EXCEPT ![s] = [taken.o EXCEPT !.delivery = ~full]]
     /\ posts' = [posts EXCEPT ![p] = IF full THEN FreePost
                                      ELSE [@ EXCEPT !.pc = "deliver", !.ready = taken.ready]]
     /\ lost' = [lost EXCEPT ![s] = @ \cup taken.dropped]
     /\ browser' = [browser EXCEPT ![s].full = @ \/ full]
     /\ UNCHANGED <<live, requests, responses, writer, gets, applied, faults>>

\* One map into the backend's channel.
Deliver(p) ==
  LET s == posts[p].s
  IN /\ posts[p].pc = "deliver" /\ posts[p].ready /= <<>>
     /\ writer[s].phase /= "ended" /\ Len(requests[s]) < RequestRoom
     /\ requests' = [requests EXCEPT ![s] = Append(@, Head(posts[p].ready))]
     /\ posts' = [posts EXCEPT ![p].ready = Tail(@)]
     /\ UNCHANGED <<live, session, responses, writer, gets, browser, applied, lost, faults>>

\* The answer: everything was delivered, or the backend's stream is closed.
Answer(p) ==
  LET s == posts[p].s
      all == posts[p].ready = <<>>
      first == posts[p].ofs = 0 /\ ~browser[s].knows
      gone == IF first /\ ~all THEN live \cap {s} ELSE {}
  IN /\ posts[p].pc = "deliver" /\ (all \/ writer[s].phase = "ended")
     /\ live' = live \ gone
     /\ session' = [Terminate(session, gone) EXCEPT ![s].delivery = FALSE]
     /\ posts' = [posts EXCEPT ![p] = FreePost]
     /\ browser' = IF ~posts[p].heard THEN browser
                   ELSE [browser EXCEPT ![s].knows = @ \/ all, ![s].told = @ \/ ~all,
                           ![s].acked = IF all
                             THEN @ \cup (posts[p].ofs..posts[p].ofs + posts[p].count - 1)
                             ELSE @]
     /\ UNCHANGED <<requests, responses, writer, gets, applied, lost, faults>>

\* The connection of a POST breaks: the browser hears no answer ...
PostBreaks(p) ==
  /\ Fault /\ posts[p].heard
  /\ posts' = [posts EXCEPT ![p].heard = FALSE]
  /\ UNCHANGED <<live, session, requests, responses, writer, gets, browser, applied, lost>>

\* ... and the server drops the handler where it waits: for the lock, or for
\* room in the channel, with the maps it had taken.
Cancel(p) ==
  LET s == posts[p].s
  IN /\ ~posts[p].heard
     /\ \/ posts[p].pc \in {"open", "sent"}
        \/ posts[p].pc = "lock" /\ session[s].delivery
        \/ posts[p].pc = "deliver" /\ posts[p].ready /= <<>> /\ Len(requests[s]) >= RequestRoom
     /\ posts' = [posts EXCEPT ![p] = FreePost]
     /\ session' = IF posts[p].pc = "deliver" THEN [session EXCEPT ![s].delivery = FALSE]
                   ELSE session
     /\ lost' = IF posts[p].pc = "deliver"
                  THEN [lost EXCEPT ![s] = @ \cup ToSet(posts[p].ready)] ELSE lost
     /\ UNCHANGED <<live, requests, responses, writer, gets, browser, applied, faults>>

\* TYPE=terminate.
terminate(s) ==
  LET found == prune_idle(live)
  IN /\ browser[s].knows /\ s \in live /\ Fault
     /\ live' = found \ {s}
     /\ session' = Terminate(session, (live \ found) \cup {s})
     /\ browser' = [browser EXCEPT ![s].told = TRUE]
     /\ UNCHANGED <<requests, responses, writer, posts, gets, applied, lost>>

-----------------------------------------------------------------------------
(* The Write stream and the task that reads it.                              *)

\* run_inner takes its next request: the handshake, then writes whose token
\* lies between the last one acknowledged and the last one given out.
run_inner(s) ==
  LET m == Head(requests[s])
      token == browser[s].maps[m + 1]
      w == writer[s]
      stale == token < w.acked \/ token > w.token
      answer(kind, n) == IF session[s].pump
                           THEN [responses EXCEPT ![s] = Append(@, [kind |-> kind, token |-> n])]
                           ELSE responses
      \* Without a reader the answer cannot be sent, and the stream ends.
      on == IF session[s].pump THEN "open" ELSE "ended"
  IN /\ requests[s] /= <<>> /\ w.phase /= "ended"
     /\ requests' = [requests EXCEPT ![s] = Tail(@)]
     /\ \/ /\ w.phase = "handshake" /\ m = 0
           /\ writer' = [writer EXCEPT ![s].phase = on]
           /\ responses' = answer("msg", 0)
           /\ UNCHANGED applied
        \/ /\ w.phase = "open" /\ stale
           /\ writer' = [writer EXCEPT ![s].phase = "ended"]
           /\ responses' = answer("stale", -1)
           /\ UNCHANGED applied
        \/ /\ w.phase = "open" /\ ~stale
           /\ writer' = [writer EXCEPT ![s] = [phase |-> on, token |-> w.token + 1, acked |-> token]]
           /\ responses' = answer("msg", w.token + 1)
           /\ applied' = [applied EXCEPT ![s] = Append(@, m)]
        \/ /\ w.phase = "open" /\ ~stale  \* rules or the store refuse the write
           /\ writer' = [writer EXCEPT ![s].phase = "ended"]
           /\ responses' = answer("error", -1)
           /\ UNCHANGED applied
     /\ UNCHANGED <<live, session, posts, gets, browser, lost, faults>>

\* The task spawned by create: an answer becomes an array; an error, or a
\* full replay buffer, ends it.
Pump(s) ==
  LET o == session[s]
      r == Head(responses[s])
      over == r.kind = "msg" /\ ~CanEnqueue(o)
  IN /\ o.pump /\ responses[s] /= <<>> /\ Room
     /\ responses' = [responses EXCEPT ![s] = Tail(@)]
     /\ session' = [session EXCEPT
          ![s] = IF r.kind = "msg" /\ ~over THEN enqueue(o, r)
                 ELSE [fail(o) EXCEPT !.pump = FALSE]]
     /\ gets' = notify_waiters(gets, s)
     /\ UNCHANGED <<live, requests, writer, posts, browser, applied, lost, faults>>

PumpEnds(s) ==
  /\ session[s].pump /\ session[s].ended
  /\ session' = [session EXCEPT ![s].pump = FALSE]
  /\ UNCHANGED <<live, requests, responses, writer, posts, gets, browser, applied, lost, faults>>

-----------------------------------------------------------------------------
(* Back channel.                                                             *)

\* The browser keeps one GET open, by streaming or by long polling.
SendGet(g, s, poll) ==
  /\ gets[g].pc = "free" /\ browser[s].knows /\ ~browser[s].told
  /\ \A h \in Gets : gets[h].s = s => ~gets[h].heard
  /\ gets' = [gets EXCEPT ![g] = [pc |-> "sent", s |-> s, cursor |-> browser[s].got,
                                  poll |-> poll, heard |-> TRUE]]
  /\ UNCHANGED <<live, session, requests, responses, writer, posts, browser, applied, lost, faults>>

get_channel(g) ==
  LET s == gets[g].s
      found == prune_idle(live)
      ended == Terminate(session, live \ found)
      o == acknowledge(session[s], gets[g].cursor)
      refused == ~gets[g].poll /\ ~CanEnqueue(o)
  IN /\ gets[g].pc = "sent" /\ Room
     /\ live' = found
     /\ IF s \notin found
          THEN /\ session' = ended
               /\ gets' = [gets EXCEPT ![g] = FreeGet]
               /\ browser' = [browser EXCEPT ![s].told = @ \/ gets[g].heard]
          ELSE /\ session' = [ended EXCEPT ![s] = IF gets[g].poll THEN o ELSE enqueue(o, Noop)]
               /\ gets' = IF refused THEN [gets EXCEPT ![g] = FreeGet]
                          ELSE notify_waiters([gets EXCEPT ![g].pc = "check"], s)
               /\ UNCHANGED browser
     /\ UNCHANGED <<requests, responses, writer, posts, applied, lost, faults>>

\* What the browser knows after a frame.
Received(b, frame) ==
  LET tokens == {frame[i].payload.token : i \in DOMAIN frame}
  IN [b EXCEPT !.got = Last(frame).id, !.token = Max(tokens \cup {@}),
               !.told = @ \/ \E i \in DOMAIN frame : frame[i].payload.kind = "error"]

\* One turn of the loop of streaming_response or of long_poll.
Look(g) ==
  LET s == gets[g].s
      frame == arrays_after(session[s], gets[g].cursor)
      hears == gets[g].heard
  IN /\ gets[g].pc = "check"
     /\ IF session[s].ended
          THEN /\ gets' = [gets EXCEPT ![g] = FreeGet] /\ UNCHANGED browser
          ELSE IF frame = <<>>
            THEN /\ gets' = [gets EXCEPT ![g].pc = "register"] /\ UNCHANGED browser
          ELSE /\ gets' = [gets EXCEPT ![g] = IF gets[g].poll THEN FreeGet
                                              ELSE [@ EXCEPT !.cursor = Last(frame).id]]
               /\ browser' = IF hears THEN [browser EXCEPT ![s] = Received(@, frame)] ELSE browser
     /\ UNCHANGED <<live, session, requests, responses, writer, posts, applied, lost, faults>>

\* Waiting begins after the look: what is queued between is not noticed.
Register(g) ==
  /\ gets[g].pc = "register"
  /\ gets' = [gets EXCEPT ![g].pc = "wait"]
  /\ UNCHANGED <<live, session, requests, responses, writer, posts, browser, applied, lost, faults>>

\* The keepalive of a stream, the timeout of a poll.
TimeOut(g) ==
  LET s == gets[g].s
      o == enqueue(session[s], Noop)
      frame == IF CanEnqueue(session[s]) THEN arrays_after(o, gets[g].cursor) ELSE <<>>
  IN /\ gets[g].pc = "wait" /\ ~session[s].ended /\ Room
     /\ session' = [session EXCEPT ![s] = o]
     /\ LET woken == IF CanEnqueue(session[s]) THEN notify_waiters(gets, s) ELSE gets
        IN gets' = [woken EXCEPT ![g] = IF gets[g].poll THEN FreeGet ELSE [@ EXCEPT !.pc = "check"]]
     /\ browser' = IF gets[g].poll /\ gets[g].heard /\ frame /= <<>>
                     THEN [browser EXCEPT ![s] = Received(@, frame)] ELSE browser
     /\ UNCHANGED <<live, requests, responses, writer, posts, applied, lost, faults>>

\* Termination wakes a waiter: it is remembered, not only signalled.
TerminationSeen(g) ==
  /\ gets[g].pc = "wait" /\ session[gets[g].s].ended
  /\ gets' = [gets EXCEPT ![g] = FreeGet]
  /\ UNCHANGED <<live, session, requests, responses, writer, posts, browser, applied, lost, faults>>

\* The connection of a GET breaks, and later the server drops the handler.
GetBreaks(g) ==
  /\ Fault /\ gets[g].heard
  /\ gets' = [gets EXCEPT ![g].heard = FALSE]
  /\ UNCHANGED <<live, session, requests, responses, writer, posts, browser, applied, lost>>

GetDropped(g) ==
  /\ gets[g].pc /= "free" /\ ~gets[g].heard
  /\ gets' = [gets EXCEPT ![g] = FreeGet]
  /\ UNCHANGED <<live, session, requests, responses, writer, posts, browser, applied, lost, faults>>

-----------------------------------------------------------------------------

ForwardStep(p) == \/ create(p) \/ post_channel(p) \/ send_maps(p) \/ Deliver(p) \/ Answer(p)
BackStep(g) == get_channel(g) \/ Look(g) \/ Register(g) \/ TimeOut(g) \/ TerminationSeen(g)

Next ==
  \/ \E p \in Posts : \/ Open(p) \/ ForwardStep(p) \/ PostBreaks(p) \/ Cancel(p)
                      \/ \E s \in Sids : Send(p, s)
  \/ \E s \in Sids : Produce(s) \/ run_inner(s) \/ Pump(s) \/ PumpEnds(s) \/ Rests(s) \/ terminate(s)
  \/ \E g \in Gets : \/ BackStep(g) \/ GetBreaks(g) \/ GetDropped(g)
                     \/ \E s \in Sids, poll \in BOOLEAN : SendGet(g, s, poll)

Spec == Init /\ [][Next]_vars

-----------------------------------------------------------------------------

(* Whatever POSTs are lost, repeated or overtaken, the writes of a stream    *)
(* are committed once each and in the order the browser made them, and the   *)
(* backend never finds a token stale (send_maps, run_inner).  Maps the       *)
(* server took and dropped - a POST cancelled while it waited for room, a    *)
(* full buffer - leave a gap, and are excepted.                              *)
WritesInOrder ==
  \A s \in Sids :
    lost[s] = {} =>
      /\ applied[s] = [i \in 1..Len(applied[s]) |-> i]
      /\ \A i \in DOMAIN responses[s] : responses[s][i].kind /= "stale"

(* An answered map is on its way: once a POST is answered and no handler is  *)
(* delivering, every map up to the first one unanswered was handed to the    *)
(* backend (send_maps holds the lock until its maps are delivered).          *)
AnsweredDelivered ==
  \A s \in Sids :
    lost[s] = {} =>
      \A m \in browser[s].acked :
        0..m \subseteq browser[s].acked =>
          \/ m \in ToSet(requests[s]) \cup ToSet(applied[s])
          \/ m = 0 /\ writer[s].phase /= "handshake"
          \/ writer[s].phase = "ended"
          \/ \E p \in Posts : posts[p].s = s /\ m \in ToSet(posts[p].ready)

(* An array the browser has not received is kept for it, through broken      *)
(* connections, repeated requests and acknowledgements that arrive late or   *)
(* out of order (acknowledge, arrays_after).                                 *)
ArraysKept ==
  \A s \in Opened :
    {id \in 1..session[s].nextId - 1 : id > browser[s].got}
      \subseteq {session[s].arrays[i].id : i \in DOMAIN session[s].arrays}
=============================================================================
