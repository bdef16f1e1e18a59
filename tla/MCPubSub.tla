------------------------------ MODULE MCPubSub ------------------------------
(* The Pub/Sub broker with an ordered subscription, pulled or set to push.   *)
(* A dead letter comes back as a new message of the same topic, after one    *)
(* delivery.                                                                 *)
EXTENDS PubSub

MCSettings == [s \in Subs |-> [topic |-> CHOOSE t \in Topics : TRUE, filter |-> OrderingKeys, ordered |-> TRUE]]
MCConfigs == [s \in Subs |->
    {[push |-> FALSE, retain |-> TRUE, policy |-> NoPolicy],
     [push |-> TRUE, retain |-> FALSE, policy |-> [topic |-> MCSettings[s].topic, max |-> 1]]}]

ASSUME ConstantsOK

(* Bound: a push is under way while one message at most has been published   *)
(* and no snapshot is kept.                                                  *)
Focus == jobs = EmptyBag \/ (Len(keys) <= 1 /\ DOMAIN snapshots = {})

MCSpec == Init /\ [][Next /\ Focus']_vars
=============================================================================
