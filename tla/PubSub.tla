------------------------------- MODULE PubSub -------------------------------
(***************************************************************************)
(* The Pub/Sub broker (crates/pubsub-front/src/broker.rs) with the timer   *)
(* and the push tasks of runtime.rs: topics, subscriptions with a backlog  *)
(* each, leases and their acknowledgements, redelivery, dead letters, push *)
(* delivery, seek and snapshots.                                           *)
(*                                                                         *)
(* Every operation holds the state mutex, but for the set of pushes in     *)
(* flight, which has a mutex of its own.  Time is a choice: a lease may    *)
(* expire, and a push be due, at any tick.  A publish of several messages, *)
(* a call for several ack ids and a tick that finds several leases expired *)
(* or pushes due do one after the other what the actions here do for one.  *)
(***************************************************************************)
EXTENDS Naturals, Sequences, FiniteSets, Bags

CONSTANTS
    Topics, Subs, Snapshots,    \* names
    OrderingKeys,               \* ordering keys of messages
    NoKey,                      \* the empty ordering key, one of them
    Settings,       \* Settings[s]: what cannot change of subscription s: its
                    \* topic, its filter (the keys it lets pass), its order
    Configs,        \* Configs[s]: what can: push or pull, dead-letter policy,
                    \* retention of acknowledged messages
    NoPolicy,       \* no dead-letter policy
    Retaining,      \* the topics created with a message retention
    MaxMessages,    \* bound: messages, copies of dead letters included
    MaxAcks,        \* bound: deliveries by pull
    MaxGeneration,  \* bound: creations of topics
    MaxJobs         \* bound: push tasks at a time for one message

VARIABLES
    topics,         \* State::topics: generation and messages
    subscriptions,  \* State::subscriptions
    snapshots,      \* State::snapshots
    keys,           \* keys[m]: the ordering key of message m
    next_ack,       \* State::next_ack
    next_generation,\* State::next_generation
    sequence,       \* next_sequence's counter
    in_flight,      \* Inner::in_flight
    jobs            \* the push tasks: sending, or settling what came of it

counters == <<next_ack, next_generation, sequence>>
vars == <<topics, subscriptions, snapshots, keys, counters, in_flight, jobs>>

-----------------------------------------------------------------------------
Messages == 1 .. MaxMessages
next_message_id == Len(keys) + 1

MessageState == {"Available", "Leased", "Pushing", "Acked"}
Tracked == [state : MessageState, ack : Nat, attempts : Nat, sequence : Nat]

(* A configuration may be changed in its push alone, by modify_push_config. *)
Policies == {config.policy : config \in UNION {Configs[s] : s \in Subs}}
Configurations == [push : BOOLEAN, retain : BOOLEAN, policy : Policies]

(* What the constants have to be. *)
ConstantsOK == MaxMessages \in Nat /\ \A s \in Subs : Configs[s] \subseteq Configurations

Partial(f, S, T) == DOMAIN f \subseteq S /\ f \in [DOMAIN f -> T]

(* Of a subscription: `since` is a ghost, the first message it was there    *)
(* for, and so is `dead`, the dead letters it has forwarded.                *)
SubscriptionEntry(entry) ==
    /\ entry \in [generation : Nat, topic_deleted : BOOLEAN, config : Configurations,
                  messages : {entry.messages}, since : Nat, dead : SUBSET Messages]
    /\ Partial(entry.messages, Messages, Tracked)

Empty == [x \in {} |-> 0]
With(f, x, v) == [y \in DOMAIN f \cup {x} |-> IF y = x THEN v ELSE f[y]]
Without(f, x) == [y \in DOMAIN f \ {x} |-> f[y]]

Init ==
    /\ topics = Empty
    /\ subscriptions = Empty
    /\ snapshots = Empty
    /\ keys = <<>>
    /\ next_ack = 1
    /\ next_generation = 1
    /\ sequence = MaxMessages + 1
    /\ in_flight = {}
    /\ jobs = EmptyBag

-----------------------------------------------------------------------------
(* SubscriptionEntry.                                                       *)

Waiting(push) == IF push THEN "Pushing" ELSE "Available"

(* track, for the messages among these that the filter lets pass. *)
track(s, entry, ids, ks) ==
    LET new == {m \in ids : ks[m] \in Settings[s].filter} IN
    [entry EXCEPT !.messages =
        [m \in DOMAIN @ \cup new |->
            IF m \in new THEN [state |-> Waiting(entry.config.push), ack |-> 0,
                               attempts |-> 0, sequence |-> m]
            ELSE @[m]]]

(* Messages in one state enter another: start_pushing, stop_pushing. *)
Moved(entry, from, to) ==
    LET tracked == entry.messages IN
    [entry EXCEPT !.messages =
        [m \in DOMAIN tracked |->
            IF tracked[m].state = from THEN [tracked[m] EXCEPT !.state = to] ELSE tracked[m]]]
start_pushing(entry) == Moved(entry, "Available", "Pushing")
stop_pushing(entry)  == Moved(entry, "Pushing", "Available")

(* A new configuration takes the backlog over from pull to push or back. *)
Reconfigured(entry, config) ==
    LET new == [entry EXCEPT !.config = config] IN
    IF config.push = entry.config.push THEN new
    ELSE IF config.push THEN start_pushing(new) ELSE stop_pushing(new)

(* deliver, to the subscriptions of this topic's generation. *)
deliver(subs, generation, ids, ks) ==
    [s \in DOMAIN subs |->
        IF subs[s].topic_deleted \/ subs[s].generation # generation THEN subs[s]
        ELSE track(s, subs[s], ids, ks)]

IsSub(s) == s \in DOMAIN subscriptions
Entry(s) == subscriptions[s]
InState(s, m, state) ==
    IsSub(s) /\ m \in DOMAIN Entry(s).messages /\ Entry(s).messages[m].state = state

-----------------------------------------------------------------------------
(* Topics.                                                                  *)

create_topic(t) ==
    /\ t \notin DOMAIN topics
    /\ next_generation <= MaxGeneration
    /\ topics' = With(topics, t, [generation |-> next_generation, messages |-> {}])
    /\ next_generation' = next_generation + 1
    /\ UNCHANGED <<subscriptions, snapshots, keys, next_ack, sequence, in_flight, jobs>>

delete_topic(t) ==
    /\ t \in DOMAIN topics
    /\ topics' = Without(topics, t)
    /\ subscriptions' = [s \in DOMAIN subscriptions |->
            IF Entry(s).generation = topics[t].generation
            THEN [Entry(s) EXCEPT !.topic_deleted = TRUE] ELSE Entry(s)]
    /\ UNCHANGED <<snapshots, keys, counters, in_flight, jobs>>

publish(t, key) ==
    /\ t \in DOMAIN topics
    /\ Len(keys) < MaxMessages
    /\ keys' = Append(keys, key)
    /\ topics' = [topics EXCEPT ![t].messages = @ \cup {next_message_id}]
    /\ subscriptions' = deliver(subscriptions, topics[t].generation, {next_message_id}, keys')
    /\ UNCHANGED <<snapshots, counters, in_flight, jobs>>

-----------------------------------------------------------------------------
(* Subscriptions.                                                           *)

(* validated_subscription: the dead-letter topic must exist. *)
Valid(config) == config.policy # NoPolicy => config.policy.topic \in DOMAIN topics

(* A topic with a retention seeds the subscription; one whose messages have *)
(* aged past it seeds it with the rest.                                     *)
create_subscription(s, config) ==
    LET t == Settings[s].topic IN
    /\ t \in DOMAIN topics
    /\ ~IsSub(s)
    /\ Valid(config)
    /\ \E oldest \in IF t \in Retaining THEN topics[t].messages \cup {next_message_id}
                     ELSE {next_message_id} :
          LET new == [generation |-> topics[t].generation, topic_deleted |-> FALSE,
                      config |-> config, messages |-> Empty, since |-> oldest, dead |-> {}]
          IN  subscriptions' =
                With(subscriptions, s,
                     track(s, new, {m \in topics[t].messages : m >= oldest}, keys))
    /\ UNCHANGED <<topics, snapshots, keys, counters, in_flight, jobs>>

update_subscription(s, config) ==
    /\ IsSub(s)
    /\ Valid(config)
    /\ subscriptions' = [subscriptions EXCEPT ![s] = Reconfigured(@, config)]
    /\ UNCHANGED <<topics, snapshots, keys, counters, in_flight, jobs>>

modify_push_config(s, push) ==
    /\ IsSub(s)
    /\ subscriptions' = [subscriptions EXCEPT ![s] =
            Reconfigured(Entry(s), [Entry(s).config EXCEPT !.push = push])]
    /\ UNCHANGED <<topics, snapshots, keys, counters, in_flight, jobs>>

delete_subscription(s) ==
    /\ IsSub(s)
    /\ subscriptions' = Without(subscriptions, s)
    /\ UNCHANGED <<topics, snapshots, keys, counters, in_flight, jobs>>

-----------------------------------------------------------------------------
(* Pull and acknowledge.                                                    *)

(* The keys that a lease holds back in an ordered subscription. *)
blocked(s) ==
    IF Settings[s].ordered
    THEN {keys[m] : m \in {n \in DOMAIN Entry(s).messages : InState(s, n, "Leased")}} \ {NoKey}
    ELSE {}

Candidates(s) ==
    {m \in DOMAIN Entry(s).messages : InState(s, m, "Available") /\ keys[m] \notin blocked(s)}

(* take sorts the candidates by (sequence, id): those before m. *)
Before(s, m) ==
    LET tracked == Entry(s).messages IN
    {n \in Candidates(s) : \/ tracked[n].sequence < tracked[m].sequence
                           \/ tracked[n].sequence = tracked[m].sequence /\ n < m}

(* Fault: one ack id serves a whole pull. *)
SameAck(s, m) == next_ack

(* The ack id of each message taken: first_ack + used. *)
AckOf(s, m) == next_ack + Cardinality(Before(s, m))

pull(s, max) ==
    LET tracked == Entry(s).messages
        taken == {m \in Candidates(s) : Cardinality(Before(s, m)) < max}
    IN
    /\ IsSub(s)
    /\ taken # {}
    /\ next_ack + Cardinality(taken) <= MaxAcks + 1
    /\ subscriptions' = [subscriptions EXCEPT ![s].messages =
            [m \in DOMAIN tracked |->
                IF m \in taken
                THEN [tracked[m] EXCEPT !.state = "Leased", !.ack = AckOf(s, m), !.attempts = @ + 1]
                ELSE tracked[m]]]
    /\ next_ack' = next_ack + Cardinality(taken)
    /\ UNCHANGED <<topics, snapshots, keys, next_generation, sequence, in_flight, jobs>>

Settled(tracked) == [tracked EXCEPT !.state = "Acked", !.ack = 0]

(* An ack id names its subscription; find_lease finds the message. *)
find_lease(s, ack) == {m \in Messages : InState(s, m, "Leased") /\ Entry(s).messages[m].ack = ack}

acknowledge(s, ack) ==
    \E m \in find_lease(s, ack) :
       /\ \A n \in find_lease(s, ack) : m <= n
       /\ subscriptions' = [subscriptions EXCEPT ![s].messages[m] = Settled(@)]
       /\ UNCHANGED <<topics, snapshots, keys, counters, in_flight, jobs>>

(* The message queues behind later ones. *)
Requeue(s, m) ==
    [subscriptions EXCEPT ![s].messages[m] =
        [@ EXCEPT !.state = Waiting(Entry(s).config.push), !.ack = 0, !.sequence = sequence]]

Exhausted(s, m) ==
    LET policy == Entry(s).config.policy
    IN  policy # NoPolicy /\ Entry(s).messages[m].attempts >= policy.max

(* The dead letter leaves the backlog, whether or not there is a topic for  *)
(* its copy.                                                                *)
Buried(s, m) ==
    [subscriptions EXCEPT ![s].messages = Without(@, m), ![s].dead = @ \cup {m}]

(* forward_dead_letters: a copy is published to the dead-letter topic. *)
forward_dead_letters(s, m) ==
    LET t == Entry(s).config.policy.topic IN
    IF t \in DOMAIN topics
    THEN /\ Len(keys) < MaxMessages
         /\ keys' = Append(keys, keys[m])
         /\ topics' = [topics EXCEPT ![t].messages = @ \cup {next_message_id}]
         /\ subscriptions' = deliver(Buried(s, m), topics[t].generation, {next_message_id}, keys')
    ELSE /\ subscriptions' = Buried(s, m)
         /\ UNCHANGED <<keys, topics>>

(* modify_deadline with zero seconds, for a client or for a lease that has  *)
(* expired.                                                                 *)
Nack(s, m) ==
    /\ InState(s, m, "Leased")
    /\ IF Exhausted(s, m)
       THEN forward_dead_letters(s, m) /\ UNCHANGED sequence
       ELSE /\ subscriptions' = Requeue(s, m)
            /\ sequence' = sequence + 1
            /\ UNCHANGED <<keys, topics>>
    /\ UNCHANGED <<snapshots, next_ack, next_generation, in_flight, jobs>>

(* (To extend a lease changes nothing but when it may expire.) *)
modify_ack_deadline(s, ack) ==
    \E m \in find_lease(s, ack) : (\A n \in find_lease(s, ack) : m <= n) /\ Nack(s, m)

-----------------------------------------------------------------------------
(* The timer and the push tasks.                                            *)

expire(s, m) == Nack(s, m)

Job(s, m, stage) == [subscription |-> s, id |-> m, stage |-> stage]
Copies(job, bag) == IF BagIn(job, bag) THEN bag[job] ELSE 0
Tasks(s, m) == Copies(Job(s, m, "sending"), jobs) + Copies(Job(s, m, "delivered"), jobs)
               + Copies(Job(s, m, "failed"), jobs)

(* Fault: a push under way does not keep the next tick from another. *)
Repushable(s, m) == TRUE

(* A push in flight is not started again. *)
Pushable(s, m) == <<s, m>> \notin in_flight

StartPush(s, m) ==
    /\ InState(s, m, "Pushing") /\ Entry(s).config.push
    /\ Pushable(s, m)
    /\ Tasks(s, m) < MaxJobs
    /\ in_flight' = in_flight \cup {<<s, m>>}
    /\ jobs' = jobs (+) SetToBag({Job(s, m, "sending")})
    /\ UNCHANGED <<topics, subscriptions, snapshots, keys, counters>>

tick(s, m) == expire(s, m) \/ StartPush(s, m)

(* The endpoint answers, or does not: push_finished takes the job out of    *)
(* the set of pushes in flight...                                           *)
PushEnds(s, m, delivered) ==
    LET outcome == IF delivered THEN "delivered" ELSE "failed" IN
    /\ BagIn(Job(s, m, "sending"), jobs)
    /\ in_flight' = in_flight \ {<<s, m>>}
    /\ jobs' = (jobs (-) SetToBag({Job(s, m, "sending")})) (+) SetToBag({Job(s, m, outcome)})
    /\ UNCHANGED <<topics, subscriptions, snapshots, keys, counters>>

(* Fault: only a push that is still in flight counts. *)
SettlesInFlight(s, m, outcome) ==
    outcome = "delivered" /\ InState(s, m, "Pushing") /\ <<s, m>> \in in_flight

Settles(s, m, outcome) == outcome = "delivered" /\ InState(s, m, "Pushing")

(* ...and then, with the state mutex, settles the message if it still is    *)
(* one to push.  A failed one stays so, for a later tick.                   *)
push_finished(s, m, outcome) ==
    /\ BagIn(Job(s, m, outcome), jobs)
    /\ jobs' = jobs (-) SetToBag({Job(s, m, outcome)})
    /\ subscriptions' = IF Settles(s, m, outcome)
                        THEN [subscriptions EXCEPT ![s].messages[m] = Settled(@)]
                        ELSE subscriptions
    /\ UNCHANGED <<topics, snapshots, keys, counters, in_flight>>

-----------------------------------------------------------------------------
(* Seek and snapshots.  Publish times are as message ids.                   *)

(* What is sought and waits is pushed again. *)
Sought(entry) == IF entry.config.push THEN start_pushing(entry) ELSE entry

Rewound(tracked) == [tracked EXCEPT !.state = "Available", !.ack = 0, !.attempts = 0]

seek_to_time(s, target) ==
    LET tracked == Entry(s).messages IN
    /\ IsSub(s)
    /\ subscriptions' = [subscriptions EXCEPT ![s] = Sought([Entry(s) EXCEPT !.messages =
            [m \in DOMAIN tracked |->
                IF m < target THEN Settled(tracked[m])
                ELSE IF tracked[m].state = "Acked" /\ ~Entry(s).config.retain THEN tracked[m]
                ELSE Rewound(tracked[m])]])]
    /\ UNCHANGED <<topics, snapshots, keys, counters, in_flight, jobs>>

create_snapshot(n, s) ==
    /\ IsSub(s)
    /\ n \notin DOMAIN snapshots
    /\ snapshots' = With(snapshots, n,
            [generation |-> Entry(s).generation, created |-> Len(keys),
             unacked |-> {m \in DOMAIN Entry(s).messages : ~InState(s, m, "Acked")}])
    /\ UNCHANGED <<topics, subscriptions, keys, counters, in_flight, jobs>>

delete_snapshot(n) ==
    /\ n \in DOMAIN snapshots
    /\ snapshots' = Without(snapshots, n)
    /\ UNCHANGED <<topics, subscriptions, keys, counters, in_flight, jobs>>

seek_to_snapshot(s, n) ==
    LET tracked == Entry(s).messages IN
    /\ IsSub(s) /\ n \in DOMAIN snapshots
    /\ ~Entry(s).topic_deleted /\ Entry(s).generation = snapshots[n].generation
    /\ subscriptions' = [subscriptions EXCEPT ![s] = Sought([Entry(s) EXCEPT !.messages =
            [m \in DOMAIN tracked |->
                IF m \in snapshots[n].unacked \/ m > snapshots[n].created
                THEN Rewound(tracked[m]) ELSE Settled(tracked[m])]])]
    /\ UNCHANGED <<topics, snapshots, keys, counters, in_flight, jobs>>

-----------------------------------------------------------------------------
Next ==
    \/ \E t \in Topics :
          \/ create_topic(t) \/ delete_topic(t)
          \/ \E key \in OrderingKeys : publish(t, key)
    \/ \E s \in Subs :
          \/ \E config \in Configs[s] :
                create_subscription(s, config) \/ update_subscription(s, config)
          \/ \E push \in {config.push : config \in Configs[s]} : modify_push_config(s, push)
          \/ delete_subscription(s)
          \/ \E max \in 1 .. MaxMessages : pull(s, max)
          \/ \E ack \in 1 .. MaxAcks : acknowledge(s, ack) \/ modify_ack_deadline(s, ack)
          \/ \E m \in Messages :
                \/ tick(s, m)
                \/ \E delivered \in BOOLEAN : PushEnds(s, m, delivered)
                \/ \E outcome \in {"delivered", "failed"} : push_finished(s, m, outcome)
          \/ \E target \in 1 .. MaxMessages + 1 : seek_to_time(s, target)
          \/ \E n \in Snapshots : create_snapshot(n, s) \/ seek_to_snapshot(s, n)
    \/ \E n \in Snapshots : delete_snapshot(n)

Spec == Init /\ [][Next]_vars

(* The ticker task comes round to every message that is due, a request has  *)
(* a time-out of 30 s, and its task goes on; the endpoint does not refuse a *)
(* message for ever.                                                        *)
Fairness ==
    \A s \in Subs, m \in Messages :
       /\ WF_vars(StartPush(s, m))
       /\ WF_vars(\E delivered \in BOOLEAN : PushEnds(s, m, delivered))
       /\ SF_vars(PushEnds(s, m, TRUE))
       /\ \A outcome \in {"delivered", "failed"} : WF_vars(push_finished(s, m, outcome))

FairSpec == Spec /\ Fairness

-----------------------------------------------------------------------------
(* Every variable has its type. *)
TypeOK ==
    /\ Partial(topics, Topics, [generation : Nat, messages : SUBSET Messages])
    /\ DOMAIN subscriptions \subseteq Subs
    /\ \A s \in DOMAIN subscriptions : SubscriptionEntry(Entry(s))
    /\ keys \in Seq(OrderingKeys) /\ Len(keys) <= MaxMessages
    /\ next_ack \in Nat \ {0} /\ next_generation \in Nat \ {0}
    /\ sequence \in Nat /\ sequence > MaxMessages
    /\ in_flight \subseteq Subs \X Messages
    /\ IsABag(jobs)

Lease(s, m) == IF InState(s, m, "Leased") THEN Entry(s).messages[m].ack ELSE 0

(* An ack id is handed out for one delivery only, so that an old one        *)
(* settles nothing: not a redelivery of its message, not another message of *)
(* the same pull, and not a message of a subscription created anew under    *)
(* the same name (pull, take, find_lease).                                  *)
NamesOneDelivery ==
    \A s \in Subs, m \in Messages :
       Lease(s, m)' \notin {0, Lease(s, m)} =>
          /\ Lease(s, m)' \in next_ack .. next_ack' - 1
          /\ \A q \in Subs, n \in Messages :
                Lease(q, n)' = Lease(s, m)' => <<q, n>> = <<s, m>>
AcksNameOneDelivery == [][NamesOneDelivery]_vars

(* No message waits for somebody who will not come: in a push subscription  *)
(* none waits for a pull, in a pull subscription none for a push, however   *)
(* it got there: published, nacked, expired, sought, or reconfigured        *)
(* (start_pushing, stop_pushing, modify_deadline).                          *)
NoneStranded ==
    \A s \in DOMAIN subscriptions, m \in Messages :
       ~InState(s, m, Waiting(~Entry(s).config.push))

(* No endpoint is sent a message while it is still being sent that message. *)
(* (A tick between the two halves of push_finished may send it again after, *)
(* even if it was delivered.)                                               *)
OnePushAtATime ==
    \A s \in Subs, m \in Messages :
       Copies(Job(s, m, "sending"), jobs) = IF <<s, m>> \in in_flight THEN 1 ELSE 0

(* "unordered ones in publish order, ordered ones only while no earlier     *)
(* message of the same key is outstanding": nothing overtakes a message     *)
(* that was never requeued, but for keys that are blocked (take).           *)
NoneOvertaken ==
    \A s \in DOMAIN subscriptions : \A m, n \in DOMAIN Entry(s).messages :
       /\ m < n
       /\ InState(s, m, "Available") /\ Entry(s).messages[m].sequence = m
       /\ Settings[s].ordered => keys[m] \in {NoKey, keys[n]}
       => ~InState(s, n, "Leased")

(* A subscription never loses a message of its topic that it was there for: *)
(* it tracks it, or has sent it to the dead-letter topic, if there still    *)
(* was one (deliver, modify_deadline, forward_dead_letters).                *)
NothingVanishes ==
    \A s \in DOMAIN subscriptions, t \in DOMAIN topics :
       Entry(s).generation = topics[t].generation =>
          \A m \in topics[t].messages :
             m >= Entry(s).since /\ keys[m] \in Settings[s].filter
                => m \in DOMAIN Entry(s).messages \cup Entry(s).dead

(* A message of a subscription is with its endpoint once at a time, waits   *)
(* for nobody who will not come, and is not lost (start_pushing,            *)
(* stop_pushing, push_finished, deliver).                                   *)
PushesKept == OnePushAtATime /\ NoneStranded /\ NothingVanishes

(* What a pull gives is next in order, and under ack ids of its own (take). *)
PullsExact == []NoneOvertaken /\ AcksNameOneDelivery

(* A message does not stay to be pushed for ever (tick, push_finished).     *)
PushesSettle ==
    \A s \in Subs, m \in Messages : []<>~InState(s, m, "Pushing")
=============================================================================
