---------------------------- MODULE MCFunctions -----------------------------
(* Cloud Functions and WebChannel sessions, which share no state, side by   *)
(* side: a behaviour is one of functions whose background is switched, of   *)
(* functions told of other services' events too, of one session with two    *)
(* POSTs at a time, or of two sessions with one each that compete for one   *)
(* place in the registry.                                                   *)
EXTENDS CloudFunctions

CONSTANTS Posts, OnePost, Gets, MaxWebFaults

VARIABLES part,
          live, session, wanted, responses, writer, posts, gets, browser, applied, lost, breaks

channel == <<live, session, wanted, responses, writer, posts, gets, browser, applied, lost, breaks>>

-----------------------------------------------------------------------------
(* Two Firestore functions, of which the commit concerns the first; and     *)
(* that one as a v2 function beside Auth, Pub/Sub and HTTP functions.       *)
(* An edit either keeps what the code exports or changes it.                *)
OnWrite == [name |-> "w", entry |-> "w", service |-> "firestore", platform |-> "gcfv1",
            event |-> "write", pattern |-> <<"c", "{x}">>]
OnWrite2 == [OnWrite EXCEPT !.platform = "gcfv2", !.event = "create",
                            !.pattern = <<"{x=**}", "d">>]
OnDelete == [OnWrite EXCEPT !.name = "d", !.entry = "d", !.event = "delete"]
OnUser == [OnWrite EXCEPT !.name = "u", !.entry = "u", !.service = "auth"]
OnMessage == [OnWrite EXCEPT !.name = "m", !.entry = "m", !.service = "pubsub"]
Http == [OnWrite EXCEPT !.name = "h", !.entry = "h", !.service = ""]

MCSources == <<<<OnWrite, OnDelete>>, <<OnWrite2, OnUser, OnMessage, Http>>>>
MCCommits == {<<[path |-> <<"c", "d">>, before |-> FALSE, after |-> TRUE]>>}
MCMessages == {<<"message", 1>>}
MCSubscribable == {<<"w", 1>>}

-----------------------------------------------------------------------------
One == INSTANCE WebChannel WITH
  MaxSids <- 1, MaxSessions <- 1, MaxArrays <- 2, MaxPending <- 1, RequestRoom <- 1,
  MaxMaps <- 2, MaxIds <- 3, MaxFaults <- MaxWebFaults, requests <- wanted, faults <- breaks

Crowded == INSTANCE WebChannel WITH
  MaxSids <- 2, MaxSessions <- 1, MaxArrays <- 2, MaxPending <- 1, RequestRoom <- 1,
  MaxMaps <- 1, MaxIds <- 3, Posts <- OnePost, MaxFaults <- 2,
  requests <- wanted, faults <- breaks

NoChannel ==
  /\ live = {} /\ session = <<>> /\ wanted = <<>> /\ responses = <<>> /\ writer = <<>>
  /\ posts = <<>> /\ gets = <<>> /\ browser = <<>> /\ applied = <<>> /\ lost = <<>> /\ breaks = 0

MCInit ==
  /\ Init
  /\ \/ part \in {"switched", "noticed"} /\ NoChannel
     \/ part = "one" /\ One!Init
     \/ part = "crowded" /\ Crowded!Init

MCNext ==
  /\ UNCHANGED part
  /\ \/ part = "switched" /\ Next /\ UNCHANGED <<enqueued, channel>>
     \/ part = "noticed" /\ Next /\ UNCHANGED <<switches, channel>>
     \/ part = "one" /\ One!Next /\ UNCHANGED vars
     \/ part = "crowded" /\ Crowded!Next /\ UNCHANGED vars

MCSpec == MCInit /\ [][MCNext]_<<part, vars, channel>>

-----------------------------------------------------------------------------
(* Over HTTP that loses, repeats and reorders, the writes of a streaming     *)
(* Write are committed once each and in order, what a browser was answered   *)
(* reached the backend, and what the backend answered is kept until the      *)
(* browser has it: see WritesInOrder, AnsweredDelivered and ArraysKept       *)
(* (send_maps, run_inner, acknowledge, arrays_after).                        *)
BrowsersServed ==
  /\ part = "one" => One!WritesInOrder /\ One!AnsweredDelivered /\ One!ArraysKept
  /\ part = "crowded" => Crowded!WritesInOrder /\ Crowded!AnsweredDelivered /\ Crowded!ArraysKept
=============================================================================
