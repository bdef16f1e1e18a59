---------------------------- MODULE PubSubStreams ----------------------------
(* Clients waiting for messages of one subscription: streaming pulls and    *)
(* pulls that wait (pubsub-front/grpc.rs), woken through the broker's watch  *)
(* (Broker::notify, broker.rs).                                              *)
(*                                                                           *)
(* The broker changes its state under its mutex and counts the version of    *)
(* the watch up after it has let the mutex go, so the two are steps of the   *)
(* thread that called it.  The subscription is ordered and its messages have *)
(* one key: nothing is delivered while a message is leased.                  *)
EXTENDS Integers, FiniteSets, TLAPS

CONSTANTS
  Messages,      \* numbers, in the order they are published
  Streams,       \* slots: streaming pulls
  Pulls,         \* slots: pulls that wait
  Others,        \* the timer and the threads of the other calls
  ExactlyOnce,   \* the subscription's enable_exactly_once_delivery
  MaxTries       \* bound: deliveries of a message

VARIABLES
  messages,   \* state of each message: "new", "available", "leased", "acked"
  tries,      \* deliveries of each message; <<m, n>> is the n-th one's ack id
  exists,     \* the subscription was not deleted
  notifying,  \* threads between their unlock and their notify
  clients,    \* clients[c]: where a client is
  behind,     \* the clients whose receiver has not seen the watch's version
  unheard     \* ghost: a change was not notified

vars == <<messages, tries, exists, notifying, clients, behind, unheard>>

Clients == Streams \cup Pulls
Threads == Clients \cup Others
AckIds == Messages \X (1..MaxTries)
InState(s) == {m \in Messages : messages[m] = s}

\* take: nothing behind a lease, else the oldest; a stream asks for a thousand
\* messages, a pull for as many as it likes.
Takes(c) ==
  {taken \in SUBSET InState("available") :
     /\ exists /\ InState("leased") = {} /\ taken /= {}
     /\ c \in Streams => taken = InState("available")
     /\ \A m \in taken, n \in InState("available") \ taken : m < n}

NotNotifying(t) == t \notin notifying
Changed(t) == notifying' = notifying \cup {t}
Go(c, pc) == clients' = [clients EXCEPT ![c] = pc]

-----------------------------------------------------------------------------
(* The broker's operations, by whatever thread calls them.                   *)

notify(t) ==
  /\ t \in notifying
  /\ notifying' = notifying \ {t}
  /\ behind' = {c \in Clients : clients[c] /= "closed"}
  /\ UNCHANGED <<messages, tries, exists, clients, unheard>>

publish(t, m) ==
  /\ messages[m] = "new" /\ \A n \in Messages : n < m => messages[n] /= "new"
  /\ messages' = [messages EXCEPT ![m] = IF exists THEN "available" ELSE "acked"]
  /\ Changed(t)
  /\ UNCHANGED <<tries, exists, clients, behind, unheard>>

delete_subscription(t) ==
  /\ exists
  /\ exists' = FALSE
  /\ Changed(t)
  /\ UNCHANGED <<messages, tries, clients, behind, unheard>>

\* A lease that expired; the deliveries of a message are bounded.
tick(t, m) ==
  /\ exists /\ messages[m] = "leased" /\ tries[m] < MaxTries
  /\ messages' = [messages EXCEPT ![m] = "available"]
  /\ Changed(t)
  /\ UNCHANGED <<tries, exists, clients, behind, unheard>>

find_lease(ids) == {m \in Messages : messages[m] = "leased" /\ <<m, tries[m]>> \in ids}
Stale(ids) == {id \in ids : id[1] \notin find_lease({id})}

(* Mutant: an acknowledgement wakes nobody. *)
MutAcknowledge(t, ids) ==
  /\ messages' = [m \in Messages |-> IF m \in find_lease(ids) THEN "acked" ELSE messages[m]]
  /\ UNCHANGED <<notifying, unheard>>

\* A stale id fails the call of a subscription that promised exactly-once,
\* after the others were settled and before notify.
acknowledge(t, ids) ==
  /\ messages' = [m \in Messages |-> IF m \in find_lease(ids) THEN "acked" ELSE messages[m]]
  /\ IF ExactlyOnce /\ Stale(ids) /= {}
       THEN /\ unheard' = (unheard \/ find_lease(ids) /= {})
            /\ UNCHANGED notifying
       ELSE Changed(t) /\ UNCHANGED unheard

\* modify_ack_deadline with zero seconds.
modify_ack_deadline(t, ids) ==
  /\ \A m \in find_lease(ids) : tries[m] < MaxTries
  /\ messages' = [m \in Messages |-> IF m \in find_lease(ids) THEN "available" ELSE messages[m]]
  /\ Changed(t) /\ UNCHANGED unheard

\* The ids a client can have been given.
Given == {ids \in SUBSET AckIds : ids /= {} /\ \A id \in ids : id[2] <= tries[id[1]]}

\* Unary calls: Acknowledge and ModifyAckDeadline.
Settle(t, ids) ==
  /\ exists
  /\ acknowledge(t, ids) \/ modify_ack_deadline(t, ids)
  /\ UNCHANGED <<tries, exists, clients, behind>>

-----------------------------------------------------------------------------
(* The loop of streaming_pull, and of pull_with_wait.                        *)

\* The checks of a stream's first request, then watch.  What that request
\* acknowledges is settled before, as by another thread's Settle.
Open(c) ==
  /\ clients[c] = "closed" /\ exists
  /\ Go(c, "pull")
  /\ behind' = behind \ {c}
  /\ UNCHANGED <<messages, tries, exists, notifying, unheard>>

\* A batch that was taken is sent; for an empty one the client waits.
pull(c) ==
  /\ clients[c] = "pull"
  /\ \/ ~exists /\ Go(c, "closed") /\ UNCHANGED <<messages, tries, notifying>>
     \/ exists /\ Takes(c) = {} /\ Go(c, "wait") /\ UNCHANGED <<messages, tries, notifying>>
     \/ \E taken \in Takes(c) :
          /\ messages' = [m \in Messages |-> IF m \in taken THEN "leased" ELSE messages[m]]
          /\ tries' = [m \in Messages |-> IF m \in taken THEN tries[m] + 1 ELSE tries[m]]
          /\ Changed(c) /\ Go(c, "send")
  /\ UNCHANGED <<exists, behind, unheard>>

\* A stream goes on to wait, a pull has been answered; the messages of a
\* client that is gone stay leased.
send(c, sent) ==
  /\ clients[c] = "send"
  /\ Go(c, IF c \in Streams /\ sent THEN "wait" ELSE "closed")
  /\ UNCHANGED <<messages, tries, exists, notifying, behind, unheard>>

woken(c) ==
  /\ clients[c] = "wait" /\ c \in behind
  /\ Go(c, "pull") /\ behind' = behind \ {c}
  /\ UNCHANGED <<messages, tries, exists, notifying, unheard>>

\* A request of a stream's client, with ids to settle or none: the stream pulls
\* again, or ends when the acknowledgement fails.
apply_stream_acks(c, ids) ==
  /\ c \in Streams /\ clients[c] = "wait"
  /\ \/ ~exists /\ Go(c, "closed") /\ UNCHANGED <<messages, notifying, unheard>>
     \/ /\ exists /\ acknowledge(c, ids)
        /\ Go(c, IF ExactlyOnce /\ Stale(ids) /= {} THEN "closed" ELSE "pull")
     \/ exists /\ modify_ack_deadline(c, ids) /\ Go(c, "pull")
     \/ Go(c, "pull") /\ UNCHANGED <<messages, notifying, unheard>>
  /\ UNCHANGED <<tries, exists, behind>>

\* The client leaves, or the time of a pull is up.
Leave(c) ==
  /\ clients[c] = "wait"
  /\ Go(c, "closed")
  /\ UNCHANGED <<messages, tries, exists, notifying, behind, unheard>>

-----------------------------------------------------------------------------

Init ==
  /\ messages = [m \in Messages |-> "new"]
  /\ tries = [m \in Messages |-> 0]
  /\ exists = TRUE /\ notifying = {} /\ behind = {} /\ unheard = FALSE
  /\ clients = [c \in Clients |-> "closed"]

Next ==
  \/ \E t \in Threads : notify(t)
  \/ \E t \in Others : /\ NotNotifying(t)
                       /\ \/ delete_subscription(t)
                          \/ \E m \in Messages : publish(t, m) \/ tick(t, m)
                          \/ \E ids \in Given : Settle(t, ids)
  \/ \E c \in Clients : /\ NotNotifying(c)
                        /\ \/ Open(c) \/ pull(c) \/ woken(c) \/ Leave(c)
                           \/ \E sent \in BOOLEAN : send(c, sent)
                           \/ \E ids \in Given : apply_stream_acks(c, ids)

Spec == Init /\ [][Next]_vars

-----------------------------------------------------------------------------

(* NoneAsleep: no client waits while there is a message it could be given:   *)
(* whatever made a message deliverable (a publish, a nack, an expired lease, *)
(* the acknowledgement of the message ahead of it) has been notified to it   *)
(* or is about to be, also when it happened between its pull and its wait;   *)
(* and a client of a subscription that was deleted is told (watch, notify,   *)
(* streaming_pull and pull_with_wait).  An acknowledgement that fails for a  *)
(* stale id after it settled others is not notified, and left out.           *)
NoneAsleep ==
  \A c \in Clients :
    (clients[c] = "wait" /\ c \notin behind /\ notifying = {} /\ ~unheard) =>
      exists /\ Takes(c) = {}

-----------------------------------------------------------------------------
(* The proof that no client sleeps.                                          *)

(* TypeOK: the values the variables take.                                    *)
TypeOK ==
  /\ messages \in [Messages -> {"new", "available", "leased", "acked"}]
  /\ exists \in BOOLEAN /\ unheard \in BOOLEAN
  /\ clients \in [Clients -> {"closed", "pull", "send", "wait"}]

(* SendersNotified: a client that took a batch notifies before it sends it,  *)
(* and is itself behind the version it made (pull, then notify).             *)
SendersNotified == \A c \in Clients : clients[c] = "send" => c \in notifying \cup behind

Awake == TypeOK /\ SendersNotified /\ NoneAsleep

\* What is there to take depends on the messages and the subscription alone.
LEMMA TakesSame ==
  ASSUME messages' = messages, exists' = exists
  PROVE  \A c : Takes(c)' = Takes(c)
  BY DEF Takes, InState

\* A step that leaves somebody to notify keeps every client awake.
LEMMA SomeoneNotifies ==
  ASSUME notifying' # {} PROVE NoneAsleep'
  BY DEF NoneAsleep

\* A step that changes no message wakes and puts to sleep only who it says.
LEMMA StillAwake ==
  ASSUME NoneAsleep, messages' = messages, exists' = exists, notifying' = notifying,
         unheard' = unheard,
         \A c \in Clients : clients'[c] = "wait" /\ c \notin behind' =>
           \/ clients[c] = "wait" /\ c \notin behind
           \/ exists /\ Takes(c) = {}
  PROVE  NoneAsleep'
  BY TakesSame DEF NoneAsleep

LEMMA AwakeInit == Init => Awake
  BY DEF Init, Awake, TypeOK, SendersNotified, NoneAsleep

\* Settling leaves a notification to make, or fails: then it settled nothing,
\* or is left out.
LEMMA SettledAwake ==
  ASSUME Awake, NEW t, NEW ids, acknowledge(t, ids) \/ modify_ack_deadline(t, ids), exists' = exists,
         behind' = behind,
         \A c \in Clients : clients'[c] = "wait" => clients[c] = "wait"
  PROVE  NoneAsleep' /\ messages' \in [Messages -> {"new", "available", "leased", "acked"}]
         /\ unheard' \in BOOLEAN /\ notifying \subseteq notifying'
<1>1. CASE modify_ack_deadline(t, ids)
  BY <1>1, SomeoneNotifies DEF modify_ack_deadline, Changed, Awake, TypeOK
<1>2. CASE acknowledge(t, ids)
  <2>1. CASE ~(ExactlyOnce /\ Stale(ids) # {})
    BY <1>2, <2>1, SomeoneNotifies DEF acknowledge, Changed, Awake, TypeOK
  <2>2. CASE ExactlyOnce /\ Stale(ids) # {}
    <3>1. CASE find_lease(ids) # {}
      BY <1>2, <2>2, <3>1 DEF acknowledge, NoneAsleep, Awake, TypeOK
    <3>2. CASE find_lease(ids) = {}
      <4>1. messages' = messages
        BY <1>2, <3>2 DEF acknowledge, Awake, TypeOK
      <4>2. unheard' = unheard /\ notifying' = notifying
        BY <1>2, <2>2, <3>2 DEF acknowledge, Awake, TypeOK
      <4> QED BY <4>1, <4>2, StillAwake DEF Awake, TypeOK
    <3> QED BY <3>1, <3>2
  <2> QED BY <2>1, <2>2
<1> QED BY <1>1, <1>2

LEMMA AwakeNext == Awake /\ [Next]_vars => Awake'
<1> SUFFICES ASSUME Awake, [Next]_vars PROVE Awake'
  OBVIOUS
<1> USE DEF Go
<1>1. CASE UNCHANGED vars
  BY <1>1, TakesSame DEF Awake, TypeOK, SendersNotified, NoneAsleep, vars
<1>2. ASSUME NEW t \in Threads, notify(t) PROVE Awake'
  <2>1. NoneAsleep'
    BY <1>2 DEF notify, NoneAsleep, Awake, TypeOK
  <2> QED BY <1>2, <2>1 DEF notify, Awake, TypeOK, SendersNotified
<1>3. ASSUME NEW t \in Others, delete_subscription(t) PROVE Awake'
  BY <1>3, SomeoneNotifies DEF delete_subscription, Changed, Awake, TypeOK, SendersNotified
<1>4. ASSUME NEW t \in Others, NEW m \in Messages, publish(t, m) PROVE Awake'
  BY <1>4, SomeoneNotifies DEF publish, Changed, Awake, TypeOK, SendersNotified
<1>5. ASSUME NEW t \in Others, NEW m \in Messages, tick(t, m) PROVE Awake'
  BY <1>5, SomeoneNotifies DEF tick, Changed, Awake, TypeOK, SendersNotified
<1>6. ASSUME NEW t \in Others, NEW ids \in Given, Settle(t, ids) PROVE Awake'
  BY <1>6, SettledAwake DEF Settle, Awake, TypeOK, SendersNotified
<1>7. ASSUME NEW c \in Clients, NotNotifying(c), Open(c) PROVE Awake'
  <2>1. NoneAsleep'
    BY <1>7, StillAwake DEF Open, Awake, TypeOK
  <2> QED BY <1>7, <2>1 DEF Open, Awake, TypeOK, SendersNotified
<1>8. ASSUME NEW c \in Clients, NotNotifying(c), pull(c) PROVE Awake'
  <2>1. CASE \E taken \in Takes(c) :
               /\ messages' = [m \in Messages |-> IF m \in taken THEN "leased" ELSE messages[m]]
               /\ Changed(c) /\ clients' = [clients EXCEPT ![c] = "send"]
    BY <1>8, <2>1, SomeoneNotifies DEF pull, Changed, Awake, TypeOK, SendersNotified
  <2>2. CASE ~exists /\ clients' = [clients EXCEPT ![c] = "closed"] /\ UNCHANGED <<messages, notifying>>
    <3>1. NoneAsleep'
      BY <1>8, <2>2, StillAwake DEF pull, Awake, TypeOK
    <3> QED BY <1>8, <2>2, <3>1 DEF pull, Awake, TypeOK, SendersNotified
  <2>3. CASE exists /\ Takes(c) = {} /\ clients' = [clients EXCEPT ![c] = "wait"]
             /\ UNCHANGED <<messages, notifying>>
    <3>1. NoneAsleep'
      BY <1>8, <2>3, StillAwake DEF pull, Awake, TypeOK
    <3> QED BY <1>8, <2>3, <3>1 DEF pull, Awake, TypeOK, SendersNotified
  <2> QED BY <1>8, <2>1, <2>2, <2>3 DEF pull
<1>9. ASSUME NEW c \in Clients, NotNotifying(c), woken(c) PROVE Awake'
  <2>1. NoneAsleep'
    BY <1>9, StillAwake DEF woken, Awake, TypeOK
  <2> QED BY <1>9, <2>1 DEF woken, Awake, TypeOK, SendersNotified
<1>10. ASSUME NEW c \in Clients, NotNotifying(c), Leave(c) PROVE Awake'
  <2>1. NoneAsleep'
    BY <1>10, StillAwake DEF Leave, Awake, TypeOK
  <2> QED BY <1>10, <2>1 DEF Leave, Awake, TypeOK, SendersNotified
<1>11. ASSUME NEW c \in Clients, NotNotifying(c), NEW sent \in BOOLEAN, send(c, sent) PROVE Awake'
  <2>1. c \in behind
    BY <1>11 DEF send, NotNotifying, Awake, SendersNotified
  <2>2. NoneAsleep'
    BY <1>11, <2>1, StillAwake DEF send, Awake, TypeOK
  <2> QED BY <1>11, <2>2 DEF send, Awake, TypeOK, SendersNotified
<1>12. ASSUME NEW c \in Clients, NotNotifying(c), NEW ids \in Given, apply_stream_acks(c, ids) PROVE Awake'
  <2>1. /\ clients[c] = "wait" /\ exists' = exists /\ behind' = behind
        /\ \E pc \in {"closed", "pull"} : clients' = [clients EXCEPT ![c] = pc]
    BY <1>12 DEF apply_stream_acks
  <2>2. NoneAsleep' /\ messages' \in [Messages -> {"new", "available", "leased", "acked"}]
        /\ unheard' \in BOOLEAN /\ notifying \subseteq notifying'
    <3>1. CASE acknowledge(c, ids) \/ modify_ack_deadline(c, ids)
      BY <2>1, <3>1, SettledAwake DEF Awake, TypeOK
    <3>2. CASE UNCHANGED <<messages, notifying, unheard>>
      BY <2>1, <3>2, StillAwake DEF Awake, TypeOK
    <3> QED BY <1>12, <3>1, <3>2 DEF apply_stream_acks
  <2> QED BY <2>1, <2>2 DEF Awake, TypeOK, SendersNotified
<1> QED
  BY <1>1, <1>2, <1>3, <1>4, <1>5, <1>6, <1>7, <1>8, <1>9, <1>10, <1>11, <1>12 DEF Next

(* However many clients, threads and messages there are, no client waits for *)
(* a message that is there for it: every change that makes one deliverable   *)
(* is notified to it, also when it falls between its pull and its wait       *)
(* (watch, notify, streaming_pull and pull_with_wait).                       *)
THEOREM NoClientSleeps == Spec => []NoneAsleep
<1>1. Awake => NoneAsleep
  BY DEF Awake
<1> QED BY <1>1, AwakeInit, AwakeNext, PTL DEF Spec
=============================================================================
