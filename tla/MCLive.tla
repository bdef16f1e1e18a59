------------------------------- MODULE MCLive -------------------------------
(* The push of Pub/Sub and Cloud Tasks under fair schedulers, side by side:  *)
(* a behaviour is one of either.  In the initial state of the other nothing  *)
(* is due, so its fairness asks for nothing.                                 *)
EXTENDS PubSub

CONSTANTS Free, Never, NoLimit, Idle

VARIABLES part,
          queues, order, next_dispatch, requests, ticker, turn, refresh, registrations

tasks == <<queues, order, next_dispatch, requests, ticker, turn, refresh, registrations>>

(* One ordered subscription, pulled or pushed; a dead letter comes back as a *)
(* new message of the same topic, after one delivery.                        *)
MCSettings == [s \in Subs |-> [topic |-> CHOOSE t \in Topics : TRUE, filter |-> OrderingKeys, ordered |-> TRUE]]
MCConfigs == [s \in Subs |->
    {[push |-> FALSE, retain |-> TRUE, policy |-> NoPolicy],
     [push |-> TRUE, retain |-> FALSE, policy |-> [topic |-> MCSettings[s].topic, max |-> 1]]}]

ASSUME ConstantsOK

(* One slot, less than one dispatch per second, retries for a while. *)
T == INSTANCE TasksQueue WITH
    QueueKeys <- {"q"}, Names <- {"a", "b"}, QUEUE_CAPACITY <- 1, Second <- 2, Token <- 10,
    Configs <- {[slots |-> 1, rate |-> 4, max_attempts |-> 0, max_retry |-> 1,
                 min_backoff |-> 1, max_backoff |-> 1, max_doublings |-> 1]},
    MaxRegistrations <- 1

MCInit == part \in {"tasks", "pubsub"} /\ Init /\ T!Init

MCNext ==
    \/ part = "tasks" /\ T!Next /\ UNCHANGED <<part, vars>>
    \/ part = "pubsub" /\ Next /\ UNCHANGED <<part, tasks>>

MCSpec == /\ MCInit
          /\ [][MCNext]_<<part, vars, tasks>>
          /\ Fairness /\ T!Fairness

(* A task of a queue with slots and a rate ends, in the end: see             *)
(* EveryTaskEnds (tick, dispatch, process, run).                             *)
EveryTaskEnds == T!EveryTaskEnds
=============================================================================
