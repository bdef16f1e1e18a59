---------------------------- MODULE PubSubProofs ----------------------------
(* Proofs about the Pub/Sub broker: PushesKept and PullsExact.              *)
EXTENDS PubSub, SequenceTheorems, FiniteSetTheorems, TLAPS

-----------------------------------------------------------------------------
(* The inductive invariant.                                                 *)

(* Of two messages the later one is not leased while the earlier one, that  *)
(* was never requeued, waits for a pull or a push (take).                   *)
Ordered(s, f, ks) ==
    \A m, n \in DOMAIN f :
       /\ m < n
       /\ f[m].state \in {"Available", "Pushing"} /\ f[m].sequence = m
       /\ Settings[s].ordered => ks[m] \in {NoKey, ks[n]}
       => f[n].state # "Leased"

(* A backlog f of subscription s: its messages were published (ks), none is *)
(* stranded, a message that was requeued is behind all that were not, and   *)
(* the ids of its leases were handed out, before ack.                       *)
Backlog(s, f, push, ks, ack) ==
    /\ DOMAIN f \subseteq 1 .. Len(ks)
    /\ \A m \in DOMAIN f :
          /\ f[m].state # Waiting(~push)
          /\ f[m].sequence = m \/ f[m].sequence > MaxMessages
          /\ f[m].state = "Leased" => f[m].ack \in 1 .. ack - 1
    /\ Ordered(s, f, ks)

BacklogsOK ==
    \A s \in DOMAIN subscriptions :
       Backlog(s, Entry(s).messages, Entry(s).config.push, keys, next_ack)

(* A generation names one topic, and a subscription is told when its topic  *)
(* is deleted (create_topic, delete_topic).                                 *)
Generations ==
    /\ \A t \in DOMAIN topics :
          topics[t].generation < next_generation /\ topics[t].messages \subseteq 1 .. Len(keys)
    /\ \A t, u \in DOMAIN topics : topics[t].generation = topics[u].generation => t = u
    /\ \A s \in DOMAIN subscriptions :
          /\ Entry(s).generation < next_generation
          /\ \A t \in DOMAIN topics :
                Entry(s).generation = topics[t].generation => ~Entry(s).topic_deleted

Inv == TypeOK /\ BacklogsOK /\ Generations /\ NothingVanishes /\ OnePushAtATime

-----------------------------------------------------------------------------
(* Entries.                                                                 *)

(* Entry e becomes e2 in a step that delivers nothing by pull: it stays the *)
(* subscription it was, loses no message, and gains no lease.               *)
Evolves(s, e, e2, ks, ack) ==
    /\ SubscriptionEntry(e2)
    /\ Backlog(s, e2.messages, e2.config.push, ks, ack)
    /\ e2.generation = e.generation /\ e2.topic_deleted = e.topic_deleted /\ e2.since = e.since
    /\ DOMAIN e.messages \cup e.dead \subseteq DOMAIN e2.messages \cup e2.dead
    /\ \A m \in DOMAIN e2.messages : e2.messages[m].state = "Leased" =>
          /\ m \in DOMAIN e.messages /\ e.messages[m].state = "Leased"
          /\ e2.messages[m].ack = e.messages[m].ack

LEMMA EntryFields ==
    ASSUME NEW e, SubscriptionEntry(e)
    PROVE  /\ e.config \in Configurations /\ e.config.push \in BOOLEAN
           /\ e.generation \in Nat /\ e.since \in Nat /\ e.topic_deleted \in BOOLEAN
           /\ e.dead \subseteq Messages /\ DOMAIN e.messages \subseteq Messages
           /\ \A m \in DOMAIN e.messages : e.messages[m] \in Tracked
  BY DEF SubscriptionEntry, Partial, Configurations

LEMMA NewMessages ==
    ASSUME NEW e, SubscriptionEntry(e), NEW g, Partial(g, Messages, Tracked)
    PROVE  LET e2 == [e EXCEPT !.messages = g] IN
           /\ SubscriptionEntry(e2)
           /\ e2.messages = g /\ e2.config = e.config /\ e2.generation = e.generation
           /\ e2.topic_deleted = e.topic_deleted /\ e2.since = e.since /\ e2.dead = e.dead
  BY DEF SubscriptionEntry

LEMMA NewConfig ==
    ASSUME NEW e, SubscriptionEntry(e), NEW c \in Configurations
    PROVE  LET e2 == [e EXCEPT !.config = c] IN
           /\ SubscriptionEntry(e2)
           /\ e2.messages = e.messages /\ e2.config = c /\ e2.generation = e.generation
           /\ e2.topic_deleted = e.topic_deleted /\ e2.since = e.since /\ e2.dead = e.dead
  BY DEF SubscriptionEntry

(* A backlog g that has f's messages, each in the state it was in or in one *)
(* that is neither leased nor stranded, and in the same place or requeued.  *)
Follows(f, g, push) ==
    /\ DOMAIN g = DOMAIN f
    /\ \A m \in DOMAIN f :
          /\ g[m] \in Tracked
          /\ g[m].sequence \in {f[m].sequence} \/ g[m].sequence > MaxMessages
          /\ \/ g[m].state = "Leased" /\ f[m].state = "Leased" /\ g[m].ack = f[m].ack
             \/ g[m].state \in {"Acked", Waiting(push)}
          /\ \/ g[m].state \notin {"Available", "Pushing"}
             \/ f[m].state \in {"Available", "Pushing"}
             \/ g[m].sequence > MaxMessages
             \/ \A n \in DOMAIN f : n > m => g[n].state # "Leased"

LEMMA FollowingBacklog ==
    ASSUME ConstantsOK, NEW s, NEW f, NEW g, NEW push \in BOOLEAN, NEW old \in BOOLEAN, NEW ks, NEW ack,
           Partial(f, Messages, Tracked), g = [m \in DOMAIN f |-> g[m]],
           Backlog(s, f, old, ks, ack), Follows(f, g, push)
    PROVE  Partial(g, Messages, Tracked) /\ Backlog(s, g, push, ks, ack)
<1>1. Partial(g, Messages, Tracked)
  BY DEF Partial, Follows
<1>2. ASSUME NEW m \in DOMAIN g
      PROVE  /\ g[m].state # Waiting(~push)
             /\ g[m].sequence = m \/ g[m].sequence > MaxMessages
             /\ g[m].state = "Leased" => g[m].ack \in 1 .. ack - 1
  BY <1>2 DEF Follows, Backlog, Waiting
<1>3. Ordered(s, g, ks)
  <2> SUFFICES ASSUME NEW m \in DOMAIN g, NEW n \in DOMAIN g, m < n,
                      g[m].state \in {"Available", "Pushing"}, g[m].sequence = m,
                      Settings[s].ordered => ks[m] \in {NoKey, ks[n]},
                      g[n].state = "Leased"
               PROVE  FALSE
    BY DEF Ordered
  <2>1. m \in Messages /\ m \in Nat /\ m <= MaxMessages /\ MaxMessages \in Nat /\ n \in Nat
    BY <1>1 DEF Partial, Messages, ConstantsOK
  <2>2. f[m].sequence = m /\ f[n].state = "Leased"
    BY <2>1 DEF Follows, Waiting
  <2>3. f[m].state \in {"Available", "Pushing"}
    BY <2>1 DEF Follows
  <2> QED BY <2>2, <2>3 DEF Backlog, Ordered, Follows
<1> QED BY <1>1, <1>2, <1>3 DEF Backlog, Follows

LEMMA EvolvesByMessages ==
    ASSUME ConstantsOK, NEW s, NEW e, SubscriptionEntry(e), NEW g, NEW ks, NEW ack,
           g = [m \in DOMAIN e.messages |-> g[m]],
           Backlog(s, e.messages, e.config.push, ks, ack),
           Follows(e.messages, g, e.config.push)
    PROVE  Evolves(s, e, [e EXCEPT !.messages = g], ks, ack)
<1>1. Partial(g, Messages, Tracked) /\ Backlog(s, g, e.config.push, ks, ack)
  BY EntryFields, FollowingBacklog DEF SubscriptionEntry
<1>2. \A m \in DOMAIN g : g[m].state = "Leased" =>
         m \in DOMAIN e.messages /\ e.messages[m].state = "Leased" /\ g[m].ack = e.messages[m].ack
  BY EntryFields DEF Follows, Waiting
<1>3. DOMAIN g = DOMAIN e.messages
  BY DEF Follows
<1> QED BY <1>1, <1>2, <1>3, NewMessages DEF Evolves
LEMMA ReconfiguredEvolves ==
    ASSUME ConstantsOK, NEW s, NEW e, SubscriptionEntry(e), NEW c \in Configurations, NEW ks, NEW ack,
           Backlog(s, e.messages, e.config.push, ks, ack)
    PROVE  Evolves(s, e, Reconfigured(e, c), ks, ack)
<1> DEFINE new == [e EXCEPT !.config = c]
           f == e.messages
           g == [m \in DOMAIN f |-> IF f[m].state = Waiting(e.config.push)
                                    THEN [f[m] EXCEPT !.state = Waiting(c.push)] ELSE f[m]]
<1>1. /\ SubscriptionEntry(new) /\ new.messages = f /\ new.config = c /\ new.generation = e.generation
      /\ new.topic_deleted = e.topic_deleted /\ new.since = e.since /\ new.dead = e.dead
  BY NewConfig
<1>2. c.push \in BOOLEAN /\ e.config.push \in BOOLEAN
  BY EntryFields DEF Configurations
<1>3. CASE c.push = e.config.push
  <2>1. Reconfigured(e, c) = new
    BY <1>3 DEF Reconfigured
  <2> HIDE DEF new
  <2> QED BY <1>1, <1>3, <2>1 DEF Evolves
<1>4. CASE c.push # e.config.push
  <2>1. Reconfigured(e, c) = [new EXCEPT !.messages = g]
    BY <1>1, <1>2, <1>4 DEF Reconfigured, start_pushing, stop_pushing, Moved, Waiting
  <2>2. Follows(f, g, c.push)
    <3>1. \A m \in DOMAIN f : f[m] \in Tracked
      BY EntryFields
    <3>2. \A m \in DOMAIN f : f[m].state \in MessageState /\ f[m].state # Waiting(~e.config.push)
      BY <3>1 DEF Backlog, Tracked
    <3> SUFFICES ASSUME NEW m \in DOMAIN f
                 PROVE  /\ g[m] \in Tracked /\ g[m].sequence = f[m].sequence
                        /\ \/ g[m].state = "Leased" /\ f[m].state = "Leased" /\ g[m].ack = f[m].ack
                           \/ g[m].state \in {"Acked", Waiting(c.push)}
                        /\ \/ g[m].state \notin {"Available", "Pushing"}
                           \/ f[m].state \in {"Available", "Pushing"}
      BY DEF Follows
    <3>3. Waiting(c.push) \in {"Available", "Pushing"}
      BY DEF Waiting
    <3>4. CASE f[m].state = Waiting(e.config.push)
      <4>1. g[m] = [f[m] EXCEPT !.state = Waiting(c.push)]
        BY <3>4
      <4>2. f[m] \in Tracked
        BY <3>1
      <4>3. g[m] \in Tracked /\ g[m].sequence = f[m].sequence /\ g[m].state = Waiting(c.push)
        BY <3>3, <4>1, <4>2 DEF Tracked, MessageState
      <4> QED BY <3>4, <4>3 DEF Waiting
    <3>5. CASE f[m].state # Waiting(e.config.push)
      <4>1. g[m] = f[m]
        BY <3>5
      <4>2. f[m].state \in {"Leased", "Acked"}
        BY <1>2, <3>2, <3>5 DEF MessageState, Waiting
      <4> QED BY <3>1, <4>1, <4>2
    <3> QED BY <3>4, <3>5
  <2>3. Partial(f, Messages, Tracked)
    BY DEF SubscriptionEntry
  <2> HIDE DEF new, g
  <2>4. g = [m \in DOMAIN f |-> g[m]]
    BY DEF g
  <2>5. Partial(g, Messages, Tracked) /\ Backlog(s, g, c.push, ks, ack)
    BY <1>2, <2>2, <2>3, <2>4, FollowingBacklog
  <2>6. DOMAIN g = DOMAIN f /\ \A m \in DOMAIN g : g[m].state = "Leased" =>
           f[m].state = "Leased" /\ g[m].ack = f[m].ack
    BY <2>2 DEF Follows, Waiting
  <2> QED BY <1>1, <2>1, <2>5, <2>6, NewMessages DEF Evolves
<1> QED BY <1>3, <1>4

(* Seeking leaves every message acknowledged, or waiting for whoever comes. *)
LEMMA SoughtEvolves ==
    ASSUME ConstantsOK, NEW s, NEW e, SubscriptionEntry(e), NEW g, NEW ks, NEW ack,
           Backlog(s, e.messages, e.config.push, ks, ack),
           g = [m \in DOMAIN e.messages |-> g[m]],
           \A m \in DOMAIN e.messages :
              g[m] \in Tracked /\ g[m].sequence = e.messages[m].sequence
              /\ g[m].state \in {"Available", "Acked"}
    PROVE  Evolves(s, e, Sought([e EXCEPT !.messages = g]), ks, ack)
<1> DEFINE h == [m \in DOMAIN g |-> IF g[m].state = "Available"
                                    THEN [g[m] EXCEPT !.state = "Pushing"] ELSE g[m]]
           r == IF e.config.push THEN h ELSE g
<1>1. DOMAIN g = DOMAIN e.messages /\ Partial(g, Messages, Tracked)
  BY EntryFields DEF Partial
<1>2. Sought([e EXCEPT !.messages = g]) = [e EXCEPT !.messages = r]
  <2>1. SubscriptionEntry([e EXCEPT !.messages = g]) /\ [e EXCEPT !.messages = g].messages = g
        /\ [e EXCEPT !.messages = g].config = e.config
    BY <1>1, NewMessages
  <2>2. [[e EXCEPT !.messages = g] EXCEPT !.messages = h] = [e EXCEPT !.messages = h]
    BY DEF SubscriptionEntry
  <2> QED BY <2>1, <2>2 DEF Sought, start_pushing, Moved
<1>3. DOMAIN r = DOMAIN e.messages /\ r = [m \in DOMAIN e.messages |-> r[m]]
  BY <1>1
<1>4. ASSUME NEW m \in DOMAIN e.messages
      PROVE  r[m] \in Tracked /\ r[m].sequence = e.messages[m].sequence
             /\ r[m].state \in {"Acked", Waiting(e.config.push)}
  <2>1. g[m] \in Tracked /\ g[m].sequence = e.messages[m].sequence /\ g[m].state \in {"Available", "Acked"}
    BY <1>4
  <2>2. CASE ~e.config.push
    BY <2>1, <2>2 DEF Waiting
  <2>3. CASE e.config.push /\ g[m].state = "Available"
    <3>1. r[m] = [g[m] EXCEPT !.state = "Pushing"]
      BY <1>1, <2>3
    <3> QED BY <2>1, <2>3, <3>1 DEF Waiting, Tracked, MessageState
  <2>4. CASE e.config.push /\ g[m].state # "Available"
    BY <1>1, <2>1, <2>4
  <2> QED BY <2>2, <2>3, <2>4, EntryFields
<1> HIDE DEF h, r
<1>5. Follows(e.messages, r, e.config.push)
  BY <1>3, <1>4 DEF Follows, Waiting
<1> QED BY <1>2, <1>3, <1>5, EvolvesByMessages

(* A message is acknowledged, or requeued behind all that were not.         *)
LEMMA SettledEvolves ==
    ASSUME ConstantsOK, NEW s, NEW e, SubscriptionEntry(e), NEW m \in DOMAIN e.messages, NEW v \in Tracked,
           NEW ks, NEW ack, Backlog(s, e.messages, e.config.push, ks, ack),
           \/ v.state = "Acked" /\ v.sequence = e.messages[m].sequence
           \/ v.state = Waiting(e.config.push) /\ v.sequence > MaxMessages
    PROVE  Evolves(s, e, [e EXCEPT !.messages = [@ EXCEPT ![m] = v]], ks, ack)
<1> DEFINE f == e.messages
           g == [f EXCEPT ![m] = v]
<1>1. DOMAIN g = DOMAIN f /\ g[m] = v /\ \A n \in DOMAIN f : n # m => g[n] = f[n]
  OBVIOUS
<1>2. g = [n \in DOMAIN f |-> g[n]]
  OBVIOUS
<1>3. Follows(f, g, e.config.push)
  <2> SUFFICES ASSUME NEW n \in DOMAIN f
               PROVE  /\ g[n] \in Tracked
                      /\ g[n].sequence = f[n].sequence \/ g[n].sequence > MaxMessages
                      /\ \/ g[n].state = "Leased" /\ f[n].state = "Leased" /\ g[n].ack = f[n].ack
                         \/ g[n].state \in {"Acked", Waiting(e.config.push)}
                      /\ \/ g[n].state \notin {"Available", "Pushing"}
                         \/ f[n].state \in {"Available", "Pushing"}
                         \/ g[n].sequence > MaxMessages
    BY <1>1 DEF Follows
  <2>1. CASE n = m
    BY <1>1, <2>1
  <2>2. CASE n # m
    <3>1. g[n] = f[n] /\ f[n] \in Tracked
      BY <1>1, <2>2, EntryFields
    <3>2. f[n].state \in MessageState /\ f[n].state # Waiting(~e.config.push) /\ e.config.push \in BOOLEAN
      BY <3>1, EntryFields DEF Backlog, Tracked
    <3> QED BY <3>1, <3>2 DEF MessageState, Waiting
  <2> QED BY <2>1, <2>2
<1> HIDE DEF g
<1>4. Evolves(s, e, [e EXCEPT !.messages = g], ks, ack)
  BY <1>2, <1>3, EvolvesByMessages
<1> QED BY <1>4 DEF g

(* A dead letter leaves. *)
LEMMA BuriedEvolves ==
    ASSUME ConstantsOK, NEW s, NEW e, SubscriptionEntry(e), NEW m \in DOMAIN e.messages,
           NEW ks, NEW ack, Backlog(s, e.messages, e.config.push, ks, ack)
    PROVE  Evolves(s, e, [e EXCEPT !.messages = Without(@, m), !.dead = @ \cup {m}], ks, ack)
<1> DEFINE f == e.messages
           g == Without(f, m)
           e2 == [e EXCEPT !.messages = g, !.dead = @ \cup {m}]
<1>1. DOMAIN g = DOMAIN f \ {m} /\ \A n \in DOMAIN g : g[n] = f[n]
  BY DEF Without
<1>2. Partial(g, Messages, Tracked)
  BY <1>1, EntryFields DEF Partial, Without
<1>3. /\ SubscriptionEntry(e2) /\ e2.messages = g /\ e2.config = e.config /\ e2.generation = e.generation
      /\ e2.topic_deleted = e.topic_deleted /\ e2.since = e.since /\ e2.dead = e.dead \cup {m}
  <2>1. m \in Messages
    BY EntryFields
  <2> HIDE DEF g
  <2> QED BY <1>2, <2>1 DEF SubscriptionEntry
<1>4. Backlog(s, g, e.config.push, ks, ack)
  BY <1>1 DEF Backlog, Ordered
<1> HIDE DEF e2, g
<1>5. Evolves(s, e, e2, ks, ack)
  BY <1>1, <1>3, <1>4 DEF Evolves
<1> QED BY <1>5 DEF e2, g
(* A message that was published last is tracked by who lets it pass.        *)
LEMMA TrackEvolves ==
    ASSUME ConstantsOK, NEW s, NEW e, SubscriptionEntry(e), NEW ks, Len(ks) \in Nat, Len(ks) <= MaxMessages,
           NEW ack, NEW ids \in SUBSET (1 .. Len(ks)),
           Backlog(s, e.messages, e.config.push, ks, ack),
           \A m \in ids, n \in DOMAIN e.messages : n < m
    PROVE  /\ Evolves(s, e, track(s, e, ids, ks), ks, ack)
           /\ \A m \in ids : ks[m] \in Settings[s].filter => m \in DOMAIN track(s, e, ids, ks).messages
<1> DEFINE f == e.messages
           new == {m \in ids : ks[m] \in Settings[s].filter}
           fresh(m) == [state |-> Waiting(e.config.push), ack |-> 0, attempts |-> 0, sequence |-> m]
           g == [m \in DOMAIN f \cup new |-> IF m \in new THEN fresh(m) ELSE f[m]]
<1>1. track(s, e, ids, ks) = [e EXCEPT !.messages = g]
  BY DEF track
<1>2. DOMAIN g = DOMAIN f \cup new /\ \A m \in new : g[m] = fresh(m)
  OBVIOUS
<1>3. \A m \in DOMAIN f : m \notin new /\ g[m] = f[m]
  <2>1. \A m \in DOMAIN f : m \in Nat
    BY EntryFields DEF Messages
  <2> QED BY <2>1
<1>4. new \subseteq Messages /\ new \subseteq 1 .. Len(ks) /\ MaxMessages \in Nat
  <2>1. MaxMessages \in Nat
    BY DEF ConstantsOK
  <2>2. \A m \in 1 .. Len(ks) : m \in 1 .. MaxMessages
    BY <2>1
  <2> QED BY <2>1, <2>2 DEF Messages
<1>5. \A m \in new : fresh(m) \in Tracked
  BY <1>4 DEF Tracked, MessageState, Waiting, Messages
<1>6. Partial(g, Messages, Tracked)
  <2>1. DOMAIN f \subseteq Messages /\ \A m \in DOMAIN f : f[m] \in Tracked
    BY EntryFields
  <2> HIDE DEF fresh
  <2> QED BY <2>1, <1>2, <1>3, <1>4, <1>5 DEF Partial
<1>7. \A m \in new : g[m].state = Waiting(e.config.push) /\ g[m].sequence = m
  BY <1>2
<1> HIDE DEF g, fresh
<1>8. e.config.push \in BOOLEAN
  BY EntryFields
<1>9. Backlog(s, g, e.config.push, ks, ack)
  <2>1. DOMAIN g \subseteq 1 .. Len(ks)
    BY <1>2, <1>4 DEF Backlog
  <2>2. ASSUME NEW m \in DOMAIN g
        PROVE  /\ g[m].state # Waiting(~e.config.push)
               /\ g[m].sequence = m \/ g[m].sequence > MaxMessages
               /\ g[m].state = "Leased" => g[m].ack \in 1 .. ack - 1
    <3>1. CASE m \in new
      BY <1>7, <1>8, <3>1 DEF Waiting
    <3>2. CASE m \in DOMAIN f
      BY <1>3, <3>2 DEF Backlog
    <3> QED BY <1>2, <3>1, <3>2
  <2>3. Ordered(s, g, ks)
    <3> SUFFICES ASSUME NEW m \in DOMAIN g, NEW n \in DOMAIN g, m < n,
                        g[m].state \in {"Available", "Pushing"}, g[m].sequence = m,
                        Settings[s].ordered => ks[m] \in {NoKey, ks[n]},
                        g[n].state = "Leased"
                 PROVE  FALSE
      BY DEF Ordered
    <3>1. n \in DOMAIN f
      BY <1>2, <1>7 DEF Waiting
    <3>2. m \in DOMAIN f
      BY <1>2, <1>4, <3>1, EntryFields DEF Messages
    <3> QED BY <1>3, <3>1, <3>2 DEF Backlog, Ordered
  <2> QED BY <2>1, <2>2, <2>3 DEF Backlog
<1>10. \A m \in DOMAIN g : g[m].state = "Leased" =>
          m \in DOMAIN f /\ f[m].state = "Leased" /\ g[m].ack = f[m].ack
  BY <1>2, <1>3, <1>7 DEF Waiting
<1>11. Evolves(s, e, [e EXCEPT !.messages = g], ks, ack) /\ [e EXCEPT !.messages = g].messages = g
  <2>1. DOMAIN f \cup e.dead \subseteq DOMAIN g \cup e.dead
    BY <1>2
  <2> QED BY <1>6, <1>9, <1>10, <2>1, NewMessages DEF Evolves
<1> QED BY <1>1, <1>2, <1>11

LEMMA MoreKeys ==
    ASSUME NEW s, NEW f, NEW push, NEW K, NEW ks \in Seq(K), NEW k \in K, NEW ack,
           Backlog(s, f, push, ks, ack)
    PROVE  Backlog(s, f, push, Append(ks, k), ack)
<1>1. Len(Append(ks, k)) = Len(ks) + 1 /\ Len(ks) \in Nat /\ \A m \in 1 .. Len(ks) : Append(ks, k)[m] = ks[m]
  BY AppendProperties
<1>2. \A m \in DOMAIN f : m \in 1 .. Len(ks) /\ Append(ks, k)[m] = ks[m]
  BY <1>1 DEF Backlog
<1> QED BY <1>1, <1>2 DEF Backlog, Ordered

-----------------------------------------------------------------------------
(* Steps.                                                                   *)

(* No lease is new. *)
Quiet == \A s \in Subs, m \in Messages : Lease(s, m)' \in {0, Lease(s, m)}

LEMMA QuietNames == Quiet => NamesOneDelivery
  BY DEF Quiet, NamesOneDelivery

(* A subscription has no lease but those it had. *)
LEMMA QuietStep ==
    ASSUME \A s \in DOMAIN subscriptions' : \A m \in DOMAIN subscriptions'[s].messages :
              subscriptions'[s].messages[m].state = "Leased" =>
                 /\ s \in DOMAIN subscriptions /\ m \in DOMAIN subscriptions[s].messages
                 /\ subscriptions[s].messages[m].state = "Leased"
                 /\ subscriptions'[s].messages[m].ack = subscriptions[s].messages[m].ack
    PROVE  Quiet
  BY DEF Quiet, Lease, InState, IsSub, Entry

SubsEvolve ==
    /\ DOMAIN subscriptions' = DOMAIN subscriptions
    /\ \A s \in DOMAIN subscriptions : Evolves(s, subscriptions[s], subscriptions'[s], keys', next_ack)

LEMMA EvolvesQuiet == SubsEvolve => Quiet
  BY QuietStep DEF SubsEvolve, Evolves

LEMMA SamePushes ==
    ASSUME Inv, UNCHANGED <<in_flight, jobs>>
    PROVE  in_flight' \subseteq Subs \X Messages /\ IsABag(jobs') /\ OnePushAtATime'
  BY DEF Inv, TypeOK, OnePushAtATime

LEMMA EvolvedStep ==
    ASSUME Inv, SubsEvolve,
           UNCHANGED <<topics, keys, next_ack, next_generation>>,
           sequence' \in Nat, sequence' > MaxMessages,
           in_flight' \subseteq Subs \X Messages, IsABag(jobs'), OnePushAtATime'
    PROVE  Inv' /\ Quiet
<1>1. TypeOK'
  BY DEF Inv, TypeOK, SubsEvolve, Evolves, Entry
<1>2. BacklogsOK'
  BY DEF SubsEvolve, Evolves, BacklogsOK, Entry
<1>3. Generations'
  BY DEF Inv, SubsEvolve, Evolves, Generations, Entry
<1>4. NothingVanishes'
  BY DEF Inv, SubsEvolve, Evolves, NothingVanishes, Entry
<1> QED BY <1>1, <1>2, <1>3, <1>4, EvolvesQuiet DEF Inv

(* One subscription changes. *)
LEMMA OneEvolves ==
    ASSUME Inv, NEW s \in DOMAIN subscriptions, NEW e2,
           Evolves(s, Entry(s), e2, keys, next_ack), keys' = keys,
           subscriptions' = [subscriptions EXCEPT ![s] = e2]
    PROVE  SubsEvolve
<1> SUFFICES ASSUME NEW q \in DOMAIN subscriptions, q # s
             PROVE  Evolves(q, subscriptions[q], subscriptions[q], keys, next_ack)
  BY DEF SubsEvolve, Entry
<1> QED BY DEF Inv, TypeOK, BacklogsOK, Evolves, Entry

LEMMA SubsSame ==
    ASSUME Inv, UNCHANGED <<subscriptions, keys>>
    PROVE  SubsEvolve
  BY DEF SubsEvolve, Inv, TypeOK, BacklogsOK, Evolves, Entry

(* A message is published, while who forwarded it as a dead letter, if      *)
(* anybody, has already buried it.                                          *)
LEMMA Publishes ==
    ASSUME ConstantsOK, Inv, NEW t \in DOMAIN topics, NEW key \in OrderingKeys, NEW subs,
           Len(keys) < MaxMessages,
           DOMAIN subs = DOMAIN subscriptions,
           \A s \in DOMAIN subscriptions : Evolves(s, subscriptions[s], subs[s], keys, next_ack),
           keys' = Append(keys, key),
           topics' = [topics EXCEPT ![t].messages = @ \cup {next_message_id}],
           subscriptions' = deliver(subs, topics[t].generation, {next_message_id}, keys'),
           UNCHANGED <<counters, in_flight, jobs>>
    PROVE  Inv' /\ Quiet
<1> DEFINE id == Len(keys) + 1
<1>1. /\ keys \in Seq(OrderingKeys) /\ Len(keys) \in Nat /\ keys' \in Seq(OrderingKeys) /\ Len(keys') = id
      /\ \A m \in 1 .. Len(keys) : keys'[m] = keys[m]
  BY AppendProperties DEF Inv, TypeOK
<1>2. id \in Messages /\ id \in 1 .. Len(keys') /\ next_message_id = id /\ Len(keys') <= MaxMessages
  BY <1>1 DEF Messages, next_message_id, ConstantsOK
<1>3. UNCHANGED <<next_ack, next_generation, sequence>>
  BY DEF counters
<1>4. ASSUME NEW s \in DOMAIN subscriptions
      PROVE  /\ Evolves(s, subscriptions[s], subscriptions'[s], keys', next_ack)
             /\ ~subs[s].topic_deleted /\ subs[s].generation = topics[t].generation
                /\ keys'[id] \in Settings[s].filter => id \in DOMAIN subscriptions'[s].messages
  <2>1. /\ SubscriptionEntry(subs[s]) /\ Backlog(s, subs[s].messages, subs[s].config.push, keys, next_ack)
        /\ Evolves(s, subscriptions[s], subs[s], keys, next_ack)
    BY DEF Evolves
  <2>2. Backlog(s, subs[s].messages, subs[s].config.push, keys', next_ack)
    BY <1>1, <2>1, MoreKeys
  <2>3. CASE subs[s].topic_deleted \/ subs[s].generation # topics[t].generation
    <3>1. subscriptions'[s] = subs[s]
      BY <2>3 DEF deliver
    <3> QED BY <2>1, <2>2, <2>3, <3>1 DEF Evolves
  <2>4. CASE ~(subs[s].topic_deleted \/ subs[s].generation # topics[t].generation)
    <3> DEFINE tracked == track(s, subs[s], {id}, keys')
    <3>1. subscriptions'[s] = tracked
      BY <1>2, <2>4 DEF deliver
    <3>2. \A m \in {id}, n \in DOMAIN subs[s].messages : n < m
      BY <1>1, <2>1 DEF Backlog
    <3>3. /\ Evolves(s, subs[s], tracked, keys', next_ack)
          /\ keys'[id] \in Settings[s].filter => id \in DOMAIN tracked.messages
      <4>1. {id} \in SUBSET (1 .. Len(keys')) /\ Len(keys') \in Nat
        BY <1>1, <1>2
      <4>2. /\ Evolves(s, subs[s], tracked, keys', next_ack)
            /\ \A m \in {id} : keys'[m] \in Settings[s].filter => m \in DOMAIN tracked.messages
        BY <1>2, <2>1, <2>2, <3>2, <4>1, TrackEvolves
      <4> QED BY <4>2
    <3> HIDE DEF tracked
    <3>4. Evolves(s, subscriptions[s], tracked, keys', next_ack)
      BY <2>1, <3>3 DEF Evolves
    <3> QED BY <3>1, <3>3, <3>4
  <2> QED BY <2>3, <2>4
<1>5. DOMAIN subscriptions' = DOMAIN subscriptions
  BY DEF deliver
<1>6. /\ DOMAIN topics' = DOMAIN topics
      /\ \A u \in DOMAIN topics :
            /\ topics'[u].generation = topics[u].generation
            /\ topics'[u].messages = IF u = t THEN topics[u].messages \cup {id} ELSE topics[u].messages
            /\ topics'[u] \in [generation : Nat, messages : SUBSET Messages]
  BY <1>2 DEF Inv, TypeOK, Partial
<1>7. TypeOK'
  <2>1. Partial(topics', Topics, [generation : Nat, messages : SUBSET Messages])
    <3>1. topics' \in [DOMAIN topics -> [generation : Nat, messages : SUBSET Messages]]
      BY <1>6
    <3> QED BY <1>6, <3>1 DEF Partial, Inv, TypeOK
  <2>2. \A s \in DOMAIN subscriptions' : SubscriptionEntry(subscriptions'[s])
    BY <1>4, <1>5 DEF Evolves
  <2> QED BY <1>1, <1>2, <1>3, <1>5, <2>1, <2>2, SamePushes DEF Inv, TypeOK, Entry
<1>8. BacklogsOK'
  BY <1>3, <1>4, <1>5 DEF Evolves, BacklogsOK, Entry
<1>9. Generations'
  <2>1. \A u \in DOMAIN topics' : topics'[u].generation < next_generation' /\ topics'[u].messages \subseteq 1 .. Len(keys')
    BY <1>1, <1>2, <1>3, <1>6 DEF Inv, Generations
  <2>2. \A u, v \in DOMAIN topics' : topics'[u].generation = topics'[v].generation => u = v
    BY <1>6 DEF Inv, Generations
  <2>3. \A s \in DOMAIN subscriptions' :
           /\ subscriptions'[s].generation = subscriptions[s].generation
           /\ subscriptions'[s].topic_deleted = subscriptions[s].topic_deleted
    BY <1>4, <1>5 DEF Evolves
  <2>4. \A s \in DOMAIN subscriptions' :
           /\ subscriptions'[s].generation < next_generation'
           /\ \A u \in DOMAIN topics' :
                 subscriptions'[s].generation = topics'[u].generation => ~subscriptions'[s].topic_deleted
    <3>1. ASSUME NEW s \in DOMAIN subscriptions
          PROVE  /\ subscriptions[s].generation < next_generation
                 /\ \A u \in DOMAIN topics :
                       subscriptions[s].generation = topics[u].generation => ~subscriptions[s].topic_deleted
      BY DEF Inv, Generations, Entry
    <3>2. ASSUME NEW s \in DOMAIN subscriptions'
          PROVE  /\ subscriptions'[s].generation < next_generation'
                 /\ \A u \in DOMAIN topics' :
                       subscriptions'[s].generation = topics'[u].generation => ~subscriptions'[s].topic_deleted
      <4>1. s \in DOMAIN subscriptions /\ next_generation' = next_generation /\ DOMAIN topics' = DOMAIN topics
        BY <1>3, <1>5, <1>6, <3>2
      <4>2. subscriptions'[s].generation = subscriptions[s].generation
            /\ subscriptions'[s].topic_deleted = subscriptions[s].topic_deleted
        BY <2>3, <3>2
      <4>3. \A u \in DOMAIN topics : topics'[u].generation = topics[u].generation
        BY <1>6
      <4> QED BY <3>1, <4>1, <4>2, <4>3
    <3> QED BY <3>2
  <2> QED BY <2>1, <2>2, <2>4 DEF Generations, Entry
<1>10. NothingVanishes'
  <2> SUFFICES ASSUME NEW s \in DOMAIN subscriptions, NEW u \in DOMAIN topics,
                      subscriptions'[s].generation = topics'[u].generation,
                      NEW m \in topics'[u].messages,
                      m >= subscriptions'[s].since, keys'[m] \in Settings[s].filter
               PROVE  m \in DOMAIN subscriptions'[s].messages \cup subscriptions'[s].dead
    BY <1>5, <1>6 DEF NothingVanishes, Entry
  <2>1. Evolves(s, subscriptions[s], subscriptions'[s], keys', next_ack)
    BY <1>4
  <2>2. CASE m \in topics[u].messages
    <3>1. m \in 1 .. Len(keys) /\ keys'[m] = keys[m]
      BY <1>1, <2>2 DEF Inv, Generations
    <3>2. m \in DOMAIN subscriptions[s].messages \cup subscriptions[s].dead
      BY <1>6, <2>1, <2>2, <3>1 DEF Inv, NothingVanishes, Entry, Evolves
    <3> QED BY <2>1, <3>2 DEF Evolves
  <2>3. CASE m \notin topics[u].messages
    <3>1. u = t /\ m = id
      BY <1>6, <2>3
    <3>2. subs[s].generation = topics[t].generation /\ ~subs[s].topic_deleted
      <4>1. Evolves(s, subscriptions[s], subs[s], keys, next_ack)
        OBVIOUS
      <4>2. subscriptions[s].generation = topics[t].generation
        BY <1>6, <2>1, <3>1 DEF Evolves
      <4>3. ~subscriptions[s].topic_deleted
        BY <4>2 DEF Inv, Generations, Entry
      <4> QED BY <4>1, <4>2, <4>3 DEF Evolves
    <3> QED BY <1>4, <3>1, <3>2
  <2> QED BY <2>2, <2>3
<1>11. Quiet
  <2>1. SubsEvolve
    BY <1>4, <1>5 DEF SubsEvolve
  <2> QED BY <2>1, EvolvesQuiet
<1>12. OnePushAtATime'
  BY SamePushes
<1> QED BY <1>7, <1>8, <1>9, <1>10, <1>11, <1>12 DEF Inv

-----------------------------------------------------------------------------
(* Topics and subscriptions.                                                *)

LEMMA StepCreateTopic ==
    ASSUME Inv, NEW t \in Topics, create_topic(t)
    PROVE  Inv' /\ Quiet
<1> DEFINE new == [generation |-> next_generation, messages |-> {}]
<1>1. /\ topics' = With(topics, t, new) /\ t \notin DOMAIN topics /\ next_generation' = next_generation + 1
      /\ UNCHANGED <<subscriptions, keys, next_ack, sequence, in_flight, jobs>>
  BY DEF create_topic
<1>2. next_generation \in Nat /\ next_generation # 0
  BY DEF Inv, TypeOK
<1>3. DOMAIN topics' = DOMAIN topics \cup {t} /\ topics'[t] = new
      /\ \A u \in DOMAIN topics : topics'[u] = topics[u] /\ u # t
  BY <1>1 DEF With
<1>4. new \in [generation : Nat, messages : SUBSET Messages] /\ new.generation = next_generation /\ new.messages = {}
  BY <1>2
<1> HIDE DEF new
<1>5. TypeOK'
  <2>1. Partial(topics', Topics, [generation : Nat, messages : SUBSET Messages])
    <3>1. topics' = [u \in DOMAIN topics' |-> topics'[u]]
      BY <1>1 DEF With
    <3>2. DOMAIN topics' \subseteq Topics
          /\ \A u \in DOMAIN topics' : topics'[u] \in [generation : Nat, messages : SUBSET Messages]
      BY <1>3, <1>4 DEF Inv, TypeOK, Partial
    <3> QED BY <3>1, <3>2 DEF Partial
  <2> QED BY <1>1, <1>2, <2>1 DEF Inv, TypeOK, Entry
<1>6. BacklogsOK' /\ OnePushAtATime'
  BY <1>1 DEF Inv, BacklogsOK, OnePushAtATime, Entry
<1>7. \A s \in DOMAIN subscriptions : subscriptions[s].generation \in Nat /\ subscriptions[s].generation < next_generation
  BY EntryFields DEF Inv, TypeOK, Generations, Entry
<1>8. \A u \in DOMAIN topics : topics[u].generation \in Nat /\ topics[u].generation < next_generation
  BY DEF Inv, TypeOK, Partial, Generations
<1>9. Generations'
  <2>1. \A u \in DOMAIN topics' : topics'[u].generation < next_generation' /\ topics'[u].messages \subseteq 1 .. Len(keys')
    BY <1>1, <1>2, <1>3, <1>4, <1>8 DEF Inv, Generations
  <2>2. \A u, v \in DOMAIN topics' : topics'[u].generation = topics'[v].generation => u = v
    BY <1>2, <1>3, <1>4, <1>8 DEF Inv, Generations
  <2>3. \A s \in DOMAIN subscriptions' : subscriptions'[s].generation < next_generation'
    BY <1>1, <1>2, <1>7
  <2>4. \A s \in DOMAIN subscriptions', u \in DOMAIN topics' :
           subscriptions'[s].generation = topics'[u].generation => ~subscriptions'[s].topic_deleted
    BY <1>1, <1>2, <1>3, <1>4, <1>7 DEF Inv, Generations, Entry
  <2> QED BY <2>1, <2>2, <2>3, <2>4 DEF Generations, Entry
<1>10. NothingVanishes'
  BY <1>1, <1>2, <1>3, <1>4, <1>7 DEF Inv, NothingVanishes, Entry
<1>11. Quiet
  BY <1>1, SubsSame, EvolvesQuiet
<1> QED BY <1>5, <1>6, <1>9, <1>10, <1>11 DEF Inv

LEMMA StepDeleteTopic ==
    ASSUME Inv, NEW t \in Topics, delete_topic(t)
    PROVE  Inv' /\ Quiet
<1>1. /\ t \in DOMAIN topics /\ topics' = Without(topics, t)
      /\ UNCHANGED <<keys, next_ack, next_generation, sequence, in_flight, jobs>>
  BY DEF delete_topic, counters
<1>2. DOMAIN topics' = DOMAIN topics \ {t} /\ \A u \in DOMAIN topics' : topics'[u] = topics[u]
  BY <1>1 DEF Without
<1>3. DOMAIN subscriptions' = DOMAIN subscriptions
  BY DEF delete_topic
<1>4. ASSUME NEW s \in DOMAIN subscriptions
      PROVE  /\ SubscriptionEntry(subscriptions'[s]) /\ subscriptions'[s].messages = subscriptions[s].messages
             /\ subscriptions'[s].config = subscriptions[s].config
             /\ subscriptions'[s].generation = subscriptions[s].generation
             /\ subscriptions'[s].since = subscriptions[s].since /\ subscriptions'[s].dead = subscriptions[s].dead
             /\ subscriptions[s].generation # topics[t].generation =>
                   subscriptions'[s].topic_deleted = subscriptions[s].topic_deleted
  <2>1. SubscriptionEntry(subscriptions[s])
    BY DEF Inv, TypeOK, Entry
  <2>2. subscriptions'[s] = IF subscriptions[s].generation = topics[t].generation
                            THEN [subscriptions[s] EXCEPT !.topic_deleted = TRUE] ELSE subscriptions[s]
    BY DEF delete_topic, Entry
  <2>3. CASE subscriptions[s].generation # topics[t].generation
    BY <2>1, <2>2, <2>3
  <2>4. CASE subscriptions[s].generation = topics[t].generation
    BY <2>1, <2>2, <2>4 DEF SubscriptionEntry
  <2> QED BY <2>3, <2>4
<1>5. TypeOK'
  <2>1. Partial(topics', Topics, [generation : Nat, messages : SUBSET Messages])
    BY <1>1, <1>2 DEF Inv, TypeOK, Partial, Without
  <2> QED BY <1>1, <1>3, <1>4, <2>1 DEF Inv, TypeOK, Entry
<1>6. BacklogsOK' /\ OnePushAtATime'
  BY <1>1, <1>3, <1>4 DEF Inv, BacklogsOK, OnePushAtATime, Entry
<1>7. Generations'
  <2>1. \A u \in DOMAIN topics' : u \in DOMAIN topics /\ topics'[u] = topics[u]
           /\ topics[u].generation # topics[t].generation
    BY <1>1, <1>2 DEF Inv, Generations
  <2>2. \A s \in DOMAIN subscriptions', u \in DOMAIN topics' :
           subscriptions'[s].generation = topics'[u].generation => ~subscriptions'[s].topic_deleted
    BY <1>3, <1>4, <2>1 DEF Inv, Generations, Entry
  <2>3. \A s \in DOMAIN subscriptions' : subscriptions'[s].generation < next_generation
    BY <1>3, <1>4 DEF Inv, Generations, Entry
  <2> QED BY <1>1, <2>1, <2>2, <2>3 DEF Inv, Generations, Entry
<1>8. NothingVanishes'
  BY <1>1, <1>2, <1>3, <1>4 DEF Inv, NothingVanishes, Entry
<1>9. Quiet
  BY <1>3, <1>4, QuietStep
<1> QED BY <1>5, <1>6, <1>7, <1>8, <1>9 DEF Inv

LEMMA StepCreateSubscription ==
    ASSUME ConstantsOK, Inv, NEW s \in Subs, NEW config \in Configs[s], create_subscription(s, config)
    PROVE  Inv' /\ Quiet
<1> DEFINE t == Settings[s].topic
<1>1. PICK oldest \in topics[t].messages \cup {next_message_id} :
         subscriptions' =
           With(subscriptions, s,
                track(s, [generation |-> topics[t].generation, topic_deleted |-> FALSE,
                          config |-> config, messages |-> Empty, since |-> oldest, dead |-> {}],
                      {m \in topics[t].messages : m >= oldest}, keys))
  BY DEF create_subscription
<1> DEFINE new == [generation |-> topics[t].generation, topic_deleted |-> FALSE,
                   config |-> config, messages |-> Empty, since |-> oldest, dead |-> {}]
           ids == {m \in topics[t].messages : m >= oldest}
           e == track(s, new, ids, keys)
<1>2. /\ t \in DOMAIN topics /\ s \notin DOMAIN subscriptions
      /\ UNCHANGED <<topics, keys, next_ack, next_generation, sequence, in_flight, jobs>>
  BY DEF create_subscription, IsSub, counters
<1>3. /\ topics[t].generation \in Nat /\ topics[t].messages \subseteq 1 .. Len(keys)
      /\ Len(keys) \in Nat /\ Len(keys) <= MaxMessages /\ oldest \in Nat
  BY <1>2 DEF Inv, TypeOK, Partial, Generations, next_message_id
<1>4. DOMAIN Empty = {}
  BY DEF Empty
<1>5. /\ SubscriptionEntry(new) /\ new.messages = Empty /\ new.config = config
      /\ new.generation = topics[t].generation /\ ~new.topic_deleted /\ new.since = oldest
  <2>1. Partial(Empty, Messages, Tracked)
    BY DEF Empty, Partial
  <2>2. config \in Configurations
    BY DEF ConstantsOK
  <2> QED BY <1>3, <2>1, <2>2 DEF SubscriptionEntry
<1>6. Backlog(s, new.messages, new.config.push, keys, next_ack)
  BY <1>4, <1>5 DEF Backlog, Ordered
<1>7. ids \in SUBSET (1 .. Len(keys)) /\ \A m \in ids, n \in DOMAIN new.messages : n < m
  BY <1>3, <1>4, <1>5
<1> HIDE DEF new, ids
<1>8. Evolves(s, new, e, keys, next_ack)
      /\ \A m \in ids : keys[m] \in Settings[s].filter => m \in DOMAIN e.messages
  BY <1>3, <1>5, <1>6, <1>7, TrackEvolves
<1>9. DOMAIN subscriptions' = DOMAIN subscriptions \cup {s} /\ subscriptions'[s] = e
      /\ \A q \in DOMAIN subscriptions : subscriptions'[q] = subscriptions[q] /\ q # s
  BY <1>1, <1>2 DEF With, new, ids
<1>10. /\ SubscriptionEntry(e) /\ Backlog(s, e.messages, e.config.push, keys, next_ack)
       /\ e.generation = topics[t].generation /\ ~e.topic_deleted /\ e.since = oldest
       /\ \A m \in DOMAIN e.messages : e.messages[m].state # "Leased"
  BY <1>4, <1>5, <1>8 DEF Evolves
<1> HIDE DEF e
<1>11. TypeOK'
  BY <1>2, <1>9, <1>10 DEF Inv, TypeOK, Entry
<1>12. BacklogsOK' /\ OnePushAtATime'
  BY <1>2, <1>9, <1>10 DEF Inv, BacklogsOK, OnePushAtATime, Entry
<1>13. Generations'
  <2>1. \A q \in DOMAIN subscriptions' :
           /\ subscriptions'[q].generation < next_generation
           /\ \A u \in DOMAIN topics :
                 subscriptions'[q].generation = topics[u].generation => ~subscriptions'[q].topic_deleted
    BY <1>2, <1>9, <1>10 DEF Inv, Generations, Entry
  <2> QED BY <1>2, <2>1 DEF Inv, Generations, Entry
<1>14. NothingVanishes'
  <2> SUFFICES ASSUME NEW q \in DOMAIN subscriptions', NEW u \in DOMAIN topics,
                      subscriptions'[q].generation = topics[u].generation,
                      NEW m \in topics[u].messages,
                      m >= subscriptions'[q].since, keys[m] \in Settings[q].filter
               PROVE  m \in DOMAIN subscriptions'[q].messages \cup subscriptions'[q].dead
    BY <1>2 DEF NothingVanishes, Entry
  <2>1. CASE q # s
    BY <1>9, <2>1 DEF Inv, NothingVanishes, Entry
  <2>2. CASE q = s
    <3>1. u = t
      BY <1>2, <1>9, <1>10, <2>2 DEF Inv, Generations
    <3>2. m \in ids
      BY <1>9, <1>10, <2>2, <3>1 DEF ids
    <3> QED BY <1>8, <1>9, <2>2, <3>2
  <2> QED BY <2>1, <2>2
<1>15. Quiet
  BY <1>9, <1>10, QuietStep
<1> QED BY <1>11, <1>12, <1>13, <1>14, <1>15 DEF Inv

LEMMA StepDeleteSubscription ==
    ASSUME Inv, NEW s \in Subs, delete_subscription(s)
    PROVE  Inv' /\ Quiet
<1>1. UNCHANGED <<topics, keys, next_ack, next_generation, sequence, in_flight, jobs>>
  BY DEF delete_subscription, counters
<1>2. DOMAIN subscriptions' \subseteq DOMAIN subscriptions
      /\ \A q \in DOMAIN subscriptions' : subscriptions'[q] = subscriptions[q]
  BY DEF delete_subscription, Without
<1>3. TypeOK' /\ BacklogsOK'
  BY <1>1, <1>2 DEF Inv, TypeOK, BacklogsOK, Entry
<1>4. Generations' /\ NothingVanishes' /\ OnePushAtATime'
  BY <1>1, <1>2 DEF Inv, Generations, NothingVanishes, OnePushAtATime, Entry
<1>5. Quiet
  BY <1>2, QuietStep
<1> QED BY <1>3, <1>4, <1>5 DEF Inv

(* What an action leaves alone that changes one subscription only. *)
OneChanges == UNCHANGED <<topics, snapshots, keys, counters, in_flight, jobs>>

LEMMA StepOne ==
    ASSUME Inv, NEW s \in DOMAIN subscriptions, NEW e2,
           Evolves(s, Entry(s), e2, keys, next_ack),
           subscriptions' = [subscriptions EXCEPT ![s] = e2], OneChanges
    PROVE  Inv' /\ Quiet
<1>1. UNCHANGED <<topics, keys, next_ack, next_generation, sequence, in_flight, jobs>>
  BY DEF OneChanges, counters
<1>2. SubsEvolve
  BY <1>1, OneEvolves
<1>3. sequence' \in Nat /\ sequence' > MaxMessages
  BY <1>1 DEF Inv, TypeOK
<1> QED BY <1>1, <1>2, <1>3, SamePushes, EvolvedStep

LEMMA EntryIs ==
    ASSUME Inv, NEW s \in DOMAIN subscriptions
    PROVE  SubscriptionEntry(Entry(s)) /\ Backlog(s, Entry(s).messages, Entry(s).config.push, keys, next_ack)
  BY DEF Inv, TypeOK, BacklogsOK

LEMMA StepUpdate ==
    ASSUME ConstantsOK, Inv, NEW s \in Subs, NEW config \in Configs[s], update_subscription(s, config)
    PROVE  Inv' /\ Quiet
<1>1. /\ s \in DOMAIN subscriptions /\ config \in Configurations /\ OneChanges
      /\ subscriptions' = [subscriptions EXCEPT ![s] = Reconfigured(Entry(s), config)]
  BY DEF update_subscription, IsSub, Entry, ConstantsOK, OneChanges
<1>2. Evolves(s, Entry(s), Reconfigured(Entry(s), config), keys, next_ack)
  BY <1>1, EntryIs, ReconfiguredEvolves
<1> QED BY <1>1, <1>2, StepOne

LEMMA StepModifyPush ==
    ASSUME ConstantsOK, Inv, NEW s \in Subs, NEW push \in {config.push : config \in Configs[s]},
           modify_push_config(s, push)
    PROVE  Inv' /\ Quiet
<1> DEFINE config == [Entry(s).config EXCEPT !.push = push]
<1>1. /\ s \in DOMAIN subscriptions /\ OneChanges
      /\ subscriptions' = [subscriptions EXCEPT ![s] = Reconfigured(Entry(s), config)]
  BY DEF modify_push_config, IsSub, Entry, OneChanges
<1>2. push \in BOOLEAN
  BY DEF ConstantsOK, Configurations
<1>3. Entry(s).config \in Configurations
  BY <1>1, EntryIs, EntryFields
<1>4. config \in Configurations
  BY <1>2, <1>3 DEF Configurations
<1>5. Evolves(s, Entry(s), Reconfigured(Entry(s), config), keys, next_ack)
  BY <1>1, <1>4, EntryIs, ReconfiguredEvolves
<1> QED BY <1>1, <1>5, StepOne

LEMMA SettledTracked ==
    ASSUME NEW v \in Tracked
    PROVE  Settled(v) \in Tracked /\ Settled(v).state = "Acked" /\ Settled(v).sequence = v.sequence
  BY DEF Settled, Tracked, MessageState

LEMMA StepAcknowledge ==
    ASSUME ConstantsOK, Inv, NEW s \in Subs, NEW ack, acknowledge(s, ack)
    PROVE  Inv' /\ Quiet
<1>1. PICK m \in find_lease(s, ack) :
         subscriptions' = [subscriptions EXCEPT ![s].messages[m] = Settled(@)] /\ OneChanges
  BY DEF acknowledge, OneChanges
<1>2. s \in DOMAIN subscriptions /\ m \in DOMAIN Entry(s).messages
  BY DEF find_lease, InState, IsSub
<1>3. subscriptions' = [subscriptions EXCEPT ![s] =
          [Entry(s) EXCEPT !.messages = [@ EXCEPT ![m] = Settled(Entry(s).messages[m])]]]
  BY <1>1, <1>2 DEF Entry
<1>4. Entry(s).messages[m] \in Tracked
  BY <1>2, EntryIs, EntryFields
<1>5. Evolves(s, Entry(s), [Entry(s) EXCEPT !.messages = [@ EXCEPT ![m] = Settled(Entry(s).messages[m])]], keys, next_ack)
  BY <1>2, <1>4, EntryIs, SettledTracked, SettledEvolves
<1> QED BY <1>1, <1>2, <1>3, <1>5, StepOne

LEMMA StepNack ==
    ASSUME ConstantsOK, Inv, NEW s \in Subs, NEW m, Nack(s, m)
    PROVE  Inv' /\ Quiet
<1>1. s \in DOMAIN subscriptions /\ m \in DOMAIN Entry(s).messages /\ UNCHANGED <<next_ack, next_generation, in_flight, jobs>>
  BY DEF Nack, InState, IsSub
<1>2. /\ SubscriptionEntry(Entry(s)) /\ Backlog(s, Entry(s).messages, Entry(s).config.push, keys, next_ack)
      /\ Entry(s).messages[m] \in Tracked
  BY <1>1, EntryIs, EntryFields
<1>3. sequence \in Nat /\ sequence > MaxMessages /\ MaxMessages \in Nat
  BY DEF Inv, TypeOK, ConstantsOK
<1>4. CASE ~Exhausted(s, m)
  <2> DEFINE v == [Entry(s).messages[m] EXCEPT !.state = Waiting(Entry(s).config.push), !.ack = 0, !.sequence = sequence]
             e2 == [Entry(s) EXCEPT !.messages = [@ EXCEPT ![m] = v]]
  <2>1. subscriptions' = [subscriptions EXCEPT ![s] = e2] /\ sequence' = sequence + 1 /\ UNCHANGED <<keys, topics>>
    BY <1>1, <1>4 DEF Nack, Requeue, Entry
  <2>2. v \in Tracked /\ v.state = Waiting(Entry(s).config.push) /\ v.sequence > MaxMessages
    BY <1>2, <1>3 DEF Tracked, MessageState, Waiting
  <2> HIDE DEF v
  <2>3. Evolves(s, Entry(s), e2, keys, next_ack)
    BY <1>1, <1>2, <2>2, SettledEvolves
  <2>4. SubsEvolve
    BY <1>1, <2>1, <2>3, OneEvolves
  <2> QED BY <1>1, <1>3, <2>1, <2>4, SamePushes, EvolvedStep
<1>5. CASE Exhausted(s, m)
  <2> DEFINE e2 == [Entry(s) EXCEPT !.messages = Without(@, m), !.dead = @ \cup {m}]
  <2>1. Buried(s, m) = [subscriptions EXCEPT ![s] = e2]
    BY <1>1 DEF Buried, Entry
  <2>2. Evolves(s, Entry(s), e2, keys, next_ack)
    BY <1>1, <1>2, BuriedEvolves
  <2>3. forward_dead_letters(s, m) /\ UNCHANGED sequence
    BY <1>5 DEF Nack
  <2> HIDE DEF e2
  <2> DEFINE t == Entry(s).config.policy.topic
  <2>4. CASE t \notin DOMAIN topics
    <3>1. subscriptions' = [subscriptions EXCEPT ![s] = e2] /\ UNCHANGED <<keys, topics>>
      BY <2>1, <2>3, <2>4 DEF forward_dead_letters
    <3>2. SubsEvolve
      BY <1>1, <2>2, <3>1, OneEvolves
    <3> QED BY <1>1, <1>3, <2>3, <3>1, <3>2, SamePushes, EvolvedStep
  <2>5. CASE t \in DOMAIN topics
    <3> DEFINE subs == [subscriptions EXCEPT ![s] = e2]
    <3>1. /\ Len(keys) < MaxMessages /\ keys' = Append(keys, keys[m])
          /\ topics' = [topics EXCEPT ![t].messages = @ \cup {next_message_id}]
          /\ subscriptions' = deliver(subs, topics[t].generation, {next_message_id}, keys')
      BY <2>1, <2>3, <2>5 DEF forward_dead_letters
    <3>2. keys[m] \in OrderingKeys
      <4>1. m \in 1 .. Len(keys) /\ keys \in Seq(OrderingKeys)
        BY <1>1, <1>2 DEF Backlog, Inv, TypeOK
      <4> QED BY <4>1, ElementOfSeq
    <3>3. DOMAIN subs = DOMAIN subscriptions
          /\ \A q \in DOMAIN subscriptions : Evolves(q, subscriptions[q], subs[q], keys, next_ack)
      <4>1. ASSUME NEW q \in DOMAIN subscriptions, q # s
            PROVE  Evolves(q, subscriptions[q], subscriptions[q], keys, next_ack)
        BY EntryIs DEF Evolves, Entry
      <4> QED BY <2>2, <4>1 DEF Entry
    <3>4. UNCHANGED <<counters, in_flight, jobs>>
      BY <1>1, <2>3 DEF counters
    <3> HIDE DEF subs, t
    <3> QED BY <2>5, <3>1, <3>2, <3>3, <3>4, Publishes
  <2> QED BY <2>4, <2>5
<1> QED BY <1>4, <1>5

LEMMA StepPublish ==
    ASSUME ConstantsOK, Inv, NEW t \in Topics, NEW key \in OrderingKeys, publish(t, key)
    PROVE  Inv' /\ Quiet
<1>1. \A s \in DOMAIN subscriptions : Evolves(s, subscriptions[s], subscriptions[s], keys, next_ack)
  BY EntryIs DEF Evolves, Entry
<1> QED BY <1>1, Publishes DEF publish

LEMMA StepSeekToTime ==
    ASSUME ConstantsOK, Inv, NEW s \in Subs, NEW target, seek_to_time(s, target)
    PROVE  Inv' /\ Quiet
<1> DEFINE f == Entry(s).messages
           g == [m \in DOMAIN f |-> IF m < target THEN Settled(f[m])
                                    ELSE IF f[m].state = "Acked" /\ ~Entry(s).config.retain THEN f[m]
                                    ELSE Rewound(f[m])]
<1>1. /\ s \in DOMAIN subscriptions /\ OneChanges
      /\ subscriptions' = [subscriptions EXCEPT ![s] = Sought([Entry(s) EXCEPT !.messages = g])]
  <2>1. s \in DOMAIN subscriptions /\ OneChanges
    BY DEF seek_to_time, IsSub, OneChanges
  <2>2. subscriptions' = [subscriptions EXCEPT ![s] = Sought([Entry(s) EXCEPT !.messages = g])]
    BY DEF seek_to_time, Entry
  <2> QED BY <2>1, <2>2
<1>2. \A m \in DOMAIN f : f[m] \in Tracked
  BY <1>1, EntryIs, EntryFields
<1>3. \A m \in DOMAIN f : g[m] \in Tracked /\ g[m].sequence = f[m].sequence /\ g[m].state \in {"Available", "Acked"}
  BY <1>2 DEF Settled, Rewound, Tracked, MessageState
<1>4. g = [m \in DOMAIN f |-> g[m]]
  OBVIOUS
<1> HIDE DEF g
<1>5. Evolves(s, Entry(s), Sought([Entry(s) EXCEPT !.messages = g]), keys, next_ack)
  BY <1>1, <1>3, <1>4, EntryIs, SoughtEvolves
<1> QED BY <1>1, <1>5, StepOne

LEMMA StepSeekToSnapshot ==
    ASSUME ConstantsOK, Inv, NEW s \in Subs, NEW n, seek_to_snapshot(s, n)
    PROVE  Inv' /\ Quiet
<1> DEFINE f == Entry(s).messages
           g == [m \in DOMAIN f |-> IF m \in snapshots[n].unacked \/ m > snapshots[n].created
                                    THEN Rewound(f[m]) ELSE Settled(f[m])]
<1>1. /\ s \in DOMAIN subscriptions /\ OneChanges
      /\ subscriptions' = [subscriptions EXCEPT ![s] = Sought([Entry(s) EXCEPT !.messages = g])]
  <2>1. s \in DOMAIN subscriptions /\ OneChanges
    BY DEF seek_to_snapshot, IsSub, OneChanges
  <2>2. subscriptions' = [subscriptions EXCEPT ![s] = Sought([Entry(s) EXCEPT !.messages = g])]
    BY DEF seek_to_snapshot, Entry
  <2> QED BY <2>1, <2>2
<1>2. \A m \in DOMAIN f : f[m] \in Tracked
  BY <1>1, EntryIs, EntryFields
<1>3. \A m \in DOMAIN f : g[m] \in Tracked /\ g[m].sequence = f[m].sequence /\ g[m].state \in {"Available", "Acked"}
  BY <1>2 DEF Settled, Rewound, Tracked, MessageState
<1>4. g = [m \in DOMAIN f |-> g[m]]
  OBVIOUS
<1> HIDE DEF g
<1>5. Evolves(s, Entry(s), Sought([Entry(s) EXCEPT !.messages = g]), keys, next_ack)
  BY <1>1, <1>3, <1>4, EntryIs, SoughtEvolves
<1> QED BY <1>1, <1>5, StepOne

-----------------------------------------------------------------------------
(* Pushes.                                                                  *)

LEMMA BagPlus ==
    ASSUME NEW b, IsABag(b), NEW x
    PROVE  /\ IsABag(b (+) SetToBag({x}))
           /\ \A j : Copies(j, b (+) SetToBag({x})) = IF j = x THEN Copies(j, b) + 1 ELSE Copies(j, b)
           /\ \A j : Copies(j, b) \in Nat
<1> DEFINE c == b (+) SetToBag({x})
<1>1. \A j \in DOMAIN b : b[j] \in Nat /\ b[j] > 0
  BY DEF IsABag
<1>2. c = [j \in DOMAIN b \cup {x} |-> (IF j \in DOMAIN b THEN b[j] ELSE 0) + (IF j \in {x} THEN 1 ELSE 0)]
  BY DEF (+), SetToBag
<1> HIDE DEF c
<1>3. DOMAIN c = DOMAIN b \cup {x} /\ \A j \in DOMAIN c : c[j] \in {n \in Nat : n > 0}
  <2>1. DOMAIN c = DOMAIN b \cup {x}
    BY <1>2
  <2>2. ASSUME NEW j \in DOMAIN c PROVE c[j] \in Nat /\ c[j] > 0
    <3>1. CASE j \in DOMAIN b
      <4>1. c[j] = b[j] + (IF j \in {x} THEN 1 ELSE 0)
        BY <1>2, <3>1
      <4> QED BY <1>1, <3>1, <4>1
    <3>2. CASE j \notin DOMAIN b
      <4>1. c[j] = 0 + 1
        BY <1>2, <2>1, <3>2
      <4> QED BY <4>1
    <3> QED BY <3>1, <3>2
  <2> QED BY <2>1, <2>2
<1>4. \A j : Copies(j, b) \in Nat
  BY <1>1 DEF Copies, BagIn, BagToSet
<1>5. \A j : Copies(j, c) = IF j = x THEN Copies(j, b) + 1 ELSE Copies(j, b)
  BY <1>1, <1>2, <1>3 DEF Copies, BagIn, BagToSet
<1>6. IsABag(c)
  BY <1>2, <1>3 DEF IsABag
<1> QED BY <1>4, <1>5, <1>6 DEF c

LEMMA BagMinus ==
    ASSUME NEW b, IsABag(b), NEW x, BagIn(x, b)
    PROVE  /\ IsABag(b (-) SetToBag({x}))
           /\ \A j : Copies(j, b (-) SetToBag({x})) = IF j = x THEN Copies(j, b) - 1 ELSE Copies(j, b)
<1> DEFINE d == [j \in DOMAIN b |-> IF j \in {x} THEN b[j] - 1 ELSE b[j]]
           c == [j \in {k \in DOMAIN d : d[k] > 0} |-> d[j]]
<1>1. \A j \in DOMAIN b : b[j] \in Nat /\ b[j] > 0
  BY DEF IsABag
<1>2. b (-) SetToBag({x}) = c
  BY DEF (-), SetToBag
<1>3. \A j \in DOMAIN b : d[j] \in Nat
  BY <1>1
<1>4. x \in DOMAIN b
  BY DEF BagIn, BagToSet
<1>5. \A j : Copies(j, c) = IF j = x THEN Copies(j, b) - 1 ELSE Copies(j, b)
  BY <1>1, <1>3, <1>4 DEF Copies, BagIn, BagToSet
<1>6. IsABag(c)
  BY <1>3 DEF IsABag
<1> QED BY <1>2, <1>5, <1>6

LEMMA Jobs ==
    \A s, m, stage, q, n, other :
       Job(s, m, stage) = Job(q, n, other) <=> s = q /\ m = n /\ stage = other
  BY DEF Job

(* A step of a push that leaves the subscriptions alone. *)
LEMMA StepOfPush ==
    ASSUME Inv, UNCHANGED <<topics, subscriptions, snapshots, keys, counters>>,
           in_flight' \subseteq Subs \X Messages, IsABag(jobs'), OnePushAtATime'
    PROVE  Inv' /\ Quiet
<1>1. UNCHANGED <<topics, keys, next_ack, next_generation, sequence>>
  BY DEF counters
<1>2. SubsEvolve
  BY SubsSame
<1>3. sequence' \in Nat /\ sequence' > MaxMessages
  BY <1>1 DEF Inv, TypeOK
<1> QED BY <1>1, <1>2, <1>3, EvolvedStep

LEMMA StepStartPush ==
    ASSUME Inv, NEW s \in Subs, NEW m \in Messages, StartPush(s, m)
    PROVE  Inv' /\ Quiet
<1>1. /\ <<s, m>> \notin in_flight /\ in_flight' = in_flight \cup {<<s, m>>}
      /\ jobs' = jobs (+) SetToBag({Job(s, m, "sending")})
      /\ UNCHANGED <<topics, subscriptions, snapshots, keys, counters>>
  BY DEF StartPush, Pushable
<1>2. /\ IsABag(jobs')
      /\ \A j : Copies(j, jobs') = IF j = Job(s, m, "sending") THEN Copies(j, jobs) + 1 ELSE Copies(j, jobs)
  BY <1>1, BagPlus DEF Inv, TypeOK
<1>3. OnePushAtATime'
  <2> SUFFICES ASSUME NEW q \in Subs, NEW n \in Messages
               PROVE  Copies(Job(q, n, "sending"), jobs') = IF <<q, n>> \in in_flight' THEN 1 ELSE 0
    BY DEF OnePushAtATime, Copies, BagIn, BagToSet, Job
  <2>1. Copies(Job(q, n, "sending"), jobs) = IF <<q, n>> \in in_flight THEN 1 ELSE 0
    BY DEF Inv, OnePushAtATime
  <2>2. Job(q, n, "sending") = Job(s, m, "sending") <=> <<q, n>> = <<s, m>>
    BY Jobs
  <2> QED BY <1>1, <1>2, <2>1, <2>2
<1>4. in_flight' \subseteq Subs \X Messages
  BY <1>1 DEF Inv, TypeOK
<1> QED BY <1>1, <1>2, <1>3, <1>4, StepOfPush

LEMMA StepPushEnds ==
    ASSUME Inv, NEW s \in Subs, NEW m \in Messages, NEW delivered \in BOOLEAN, PushEnds(s, m, delivered)
    PROVE  Inv' /\ Quiet
<1> DEFINE outcome == IF delivered THEN "delivered" ELSE "failed"
           sending == Job(s, m, "sending")
           between == jobs (-) SetToBag({sending})
<1>1. /\ BagIn(sending, jobs) /\ in_flight' = in_flight \ {<<s, m>>}
      /\ jobs' = between (+) SetToBag({Job(s, m, outcome)})
      /\ UNCHANGED <<topics, subscriptions, snapshots, keys, counters>>
  BY DEF PushEnds
<1>2. /\ IsABag(between)
      /\ \A j : Copies(j, between) = IF j = sending THEN Copies(j, jobs) - 1 ELSE Copies(j, jobs)
  BY <1>1, BagMinus DEF Inv, TypeOK
<1>3. /\ IsABag(jobs')
      /\ \A j : Copies(j, jobs') = IF j = Job(s, m, outcome) THEN Copies(j, between) + 1 ELSE Copies(j, between)
  <2> DEFINE x == Job(s, m, outcome)
  <2> HIDE DEF between, x
  <2>1. /\ IsABag(between (+) SetToBag({x}))
        /\ \A j : Copies(j, between (+) SetToBag({x})) = IF j = x THEN Copies(j, between) + 1 ELSE Copies(j, between)
    BY <1>2, BagPlus
  <2>2. jobs' = between (+) SetToBag({x})
    BY <1>1 DEF x
  <2> QED BY <2>1, <2>2 DEF x
<1>4. OnePushAtATime'
  <2> SUFFICES ASSUME NEW q \in Subs, NEW n \in Messages
               PROVE  Copies(Job(q, n, "sending"), jobs') = IF <<q, n>> \in in_flight' THEN 1 ELSE 0
    BY DEF OnePushAtATime, Copies, BagIn, BagToSet, Job
  <2>1. Copies(Job(q, n, "sending"), jobs) = IF <<q, n>> \in in_flight THEN 1 ELSE 0
    BY DEF Inv, OnePushAtATime
  <2>2. Job(q, n, "sending") = sending <=> <<q, n>> = <<s, m>>
    BY Jobs
  <2>3. Job(q, n, "sending") # Job(s, m, outcome)
    BY Jobs
  <2>4. Copies(Job(q, n, "sending"), jobs') = Copies(Job(q, n, "sending"), between)
    BY <1>3, <2>3
  <2>5. Copies(sending, jobs) > 0
    BY <1>1 DEF Copies, Inv, TypeOK, IsABag, BagIn, BagToSet
  <2> HIDE DEF sending, between, outcome
  <2> QED BY <1>1, <1>2, <2>1, <2>2, <2>4, <2>5
<1>5. in_flight' \subseteq Subs \X Messages
  BY <1>1 DEF Inv, TypeOK
<1> QED BY <1>1, <1>3, <1>4, <1>5, StepOfPush

LEMMA StepPushFinished ==
    ASSUME ConstantsOK, Inv, NEW s \in Subs, NEW m \in Messages, NEW outcome \in {"delivered", "failed"},
           push_finished(s, m, outcome)
    PROVE  Inv' /\ Quiet
<1>1. /\ BagIn(Job(s, m, outcome), jobs) /\ jobs' = jobs (-) SetToBag({Job(s, m, outcome)})
      /\ UNCHANGED <<topics, keys, next_ack, next_generation, sequence, in_flight>>
  BY DEF push_finished, counters
<1>2. /\ IsABag(jobs')
      /\ \A j : Copies(j, jobs') = IF j = Job(s, m, outcome) THEN Copies(j, jobs) - 1 ELSE Copies(j, jobs)
  BY <1>1, BagMinus DEF Inv, TypeOK
<1>3. OnePushAtATime'
  <2> SUFFICES ASSUME NEW q \in Subs, NEW n \in Messages
               PROVE  Copies(Job(q, n, "sending"), jobs') = IF <<q, n>> \in in_flight' THEN 1 ELSE 0
    BY DEF OnePushAtATime, Copies, BagIn, BagToSet, Job
  <2>1. Job(q, n, "sending") # Job(s, m, outcome)
    BY Jobs
  <2> QED BY <1>1, <1>2, <2>1 DEF Inv, OnePushAtATime
<1>4. SubsEvolve
  <2>1. CASE ~Settles(s, m, outcome)
    BY <1>1, <2>1, SubsSame DEF push_finished
  <2>2. CASE Settles(s, m, outcome)
    <3>1. s \in DOMAIN subscriptions /\ m \in DOMAIN Entry(s).messages
      BY <2>2 DEF Settles, InState, IsSub
    <3> DEFINE e2 == [Entry(s) EXCEPT !.messages = [@ EXCEPT ![m] = Settled(Entry(s).messages[m])]]
    <3>2. subscriptions' = [subscriptions EXCEPT ![s] = e2]
      BY <2>2, <3>1 DEF push_finished, Entry
    <3>3. Entry(s).messages[m] \in Tracked
      BY <3>1, EntryIs, EntryFields
    <3>4. Evolves(s, Entry(s), e2, keys, next_ack)
      BY <3>1, <3>3, EntryIs, SettledTracked, SettledEvolves
    <3> QED BY <1>1, <3>1, <3>2, <3>4, OneEvolves
  <2> QED BY <2>1, <2>2
<1>5. in_flight' \subseteq Subs \X Messages /\ sequence' \in Nat /\ sequence' > MaxMessages
  BY <1>1 DEF Inv, TypeOK
<1> QED BY <1>1, <1>2, <1>3, <1>4, <1>5, EvolvedStep

-----------------------------------------------------------------------------
(* Pulls.                                                                   *)

LEMMA StrictlyMore ==
    ASSUME NEW S, NEW T, IsFiniteSet(T), NEW x, x \notin S, S \cup {x} \subseteq T
    PROVE  Cardinality(S) \in Nat /\ Cardinality(T) \in Nat /\ Cardinality(S) < Cardinality(T)
<1>1. IsFiniteSet(S)
  BY FS_Subset
<1>2. Cardinality(S \cup {x}) = Cardinality(S) + 1
  BY <1>1, FS_AddElement
<1>3. Cardinality(S \cup {x}) <= Cardinality(T)
  BY FS_Subset
<1> QED BY <1>1, <1>2, <1>3, FS_CardinalityType

(* take's order is total: of two candidates one comes before the other, and *)
(* has fewer before it.                                                     *)
LEMMA TakeOrder ==
    ASSUME ConstantsOK, Inv, NEW s \in DOMAIN subscriptions
    PROVE  /\ IsFiniteSet(Candidates(s)) /\ Candidates(s) \subseteq DOMAIN Entry(s).messages
           /\ \A m \in Candidates(s) : /\ m \in Nat /\ m \notin Before(s, m) /\ Before(s, m) \subseteq Candidates(s)
                                      /\ Cardinality(Before(s, m)) \in Nat
           /\ \A m, n \in Candidates(s) : m # n => m \in Before(s, n) \/ n \in Before(s, m)
           /\ \A m, n \in Candidates(s) : m \in Before(s, n) =>
                  Before(s, m) \cup {m} \subseteq Before(s, n) /\ Cardinality(Before(s, m)) < Cardinality(Before(s, n))
<1> DEFINE f == Entry(s).messages
           C == Candidates(s)
<1>1. C \subseteq DOMAIN f
  BY DEF Candidates
<1>2. DOMAIN f \subseteq Messages /\ \A m \in DOMAIN f : f[m].sequence \in Nat
  BY EntryIs, EntryFields DEF Tracked
<1>3. IsFiniteSet(C)
  <2>1. IsFiniteSet(Messages)
    BY FS_Interval DEF Messages, ConstantsOK
  <2> QED BY <1>1, <1>2, <2>1, FS_Subset
<1>4. \A m \in C : m \in Nat /\ f[m].sequence \in Nat
  BY <1>1, <1>2 DEF Messages
<1>5. \A m, n \in C : (n \in Before(s, m)) <=> (f[n].sequence < f[m].sequence \/ (f[n].sequence = f[m].sequence /\ n < m))
  BY Zenon DEF Before
<1>a. \A m \in C : Before(s, m) \subseteq C
  BY DEF Before
<1> HIDE DEF f, C
<1>6. \A m \in C : m \notin Before(s, m) /\ Before(s, m) \subseteq C
  BY <1>4, <1>5, <1>a
<1>7. \A m \in C : IsFiniteSet(Before(s, m)) /\ Cardinality(Before(s, m)) \in Nat
  BY <1>3, <1>6, FS_Subset, FS_CardinalityType
<1>8. \A m, n \in C : m # n => m \in Before(s, n) \/ n \in Before(s, m)
  BY <1>4, <1>5
<1>9. \A m, n \in C : m \in Before(s, n) => Before(s, m) \cup {m} \subseteq Before(s, n)
  <2> SUFFICES ASSUME NEW m \in C, NEW n \in C, m \in Before(s, n), NEW x \in Before(s, m)
               PROVE  x \in Before(s, n)
    OBVIOUS
  <2>1. x \in C
    BY <1>6
  <2> QED BY <1>4, <1>5, <2>1
<1>10. \A m, n \in C : m \in Before(s, n) => Cardinality(Before(s, m)) < Cardinality(Before(s, n))
  BY <1>6, <1>7, <1>9, StrictlyMore
<1> QED BY <1>1, <1>3, <1>4, <1>6, <1>7, <1>8, <1>9, <1>10 DEF C, f

LEMMA Leasing ==
    ASSUME NEW t \in Tracked, NEW a \in Nat
    PROVE  LET leased == [t EXCEPT !.state = "Leased", !.ack = a, !.attempts = t.attempts + 1]
           IN  leased \in Tracked /\ leased.state = "Leased" /\ leased.ack = a /\ leased.sequence = t.sequence
<1>1. t.attempts + 1 \in Nat
  BY DEF Tracked
<1>2. PICK k \in Nat : k = t.attempts + 1
  BY <1>1
<1> QED BY <1>2 DEF Tracked, MessageState

LEMMA StepPull ==
    ASSUME ConstantsOK, Inv, NEW s \in Subs, NEW max \in Nat, pull(s, max)
    PROVE  Inv' /\ NamesOneDelivery
<1> DEFINE f == Entry(s).messages
           C == Candidates(s)
           taken == {m \in C : Cardinality(Before(s, m)) < max}
           leased(m) == [f[m] EXCEPT !.state = "Leased", !.ack = AckOf(s, m), !.attempts = @ + 1]
           g == [m \in DOMAIN f |-> IF m \in taken THEN leased(m) ELSE f[m]]
           e2 == [Entry(s) EXCEPT !.messages = g]
<1>1. /\ s \in DOMAIN subscriptions /\ next_ack' = next_ack + Cardinality(taken)
      /\ UNCHANGED <<topics, keys, next_generation, sequence, in_flight, jobs>>
  BY DEF pull, IsSub
<1>2. subscriptions' = [subscriptions EXCEPT ![s] = e2]
  BY DEF pull, Entry
<1>3. /\ SubscriptionEntry(Entry(s)) /\ Backlog(s, f, Entry(s).config.push, keys, next_ack)
      /\ Entry(s).config.push \in BOOLEAN /\ DOMAIN f \subseteq Messages /\ \A m \in DOMAIN f : f[m] \in Tracked
  BY <1>1, EntryIs, EntryFields
<1>4. /\ IsFiniteSet(C) /\ C \subseteq DOMAIN f
      /\ \A m \in C : m \in Nat /\ m \notin Before(s, m) /\ Before(s, m) \subseteq C /\ Cardinality(Before(s, m)) \in Nat
      /\ \A m, n \in C : m # n => m \in Before(s, n) \/ n \in Before(s, m)
      /\ \A m, n \in C : m \in Before(s, n) =>
            Before(s, m) \cup {m} \subseteq Before(s, n) /\ Cardinality(Before(s, m)) < Cardinality(Before(s, n))
  BY <1>1, TakeOrder
<1>5. next_ack \in Nat /\ next_ack # 0 /\ MaxMessages \in Nat
  BY DEF Inv, TypeOK, ConstantsOK
<1>6. taken \subseteq C /\ IsFiniteSet(taken) /\ Cardinality(taken) \in Nat
  <2>1. taken \subseteq C
    OBVIOUS
  <2> HIDE DEF taken
  <2> QED BY <1>4, <2>1, FS_Subset, FS_CardinalityType
<1>7. \A n \in taken : Before(s, n) \subseteq taken
  BY <1>4
<1>8. \A n \in taken : Cardinality(Before(s, n)) < Cardinality(taken)
  <2> HIDE DEF taken
  <2> QED BY <1>4, <1>6, <1>7, StrictlyMore
<1>9. \A m \in taken : AckOf(s, m) \in Nat /\ AckOf(s, m) >= next_ack /\ AckOf(s, m) < next_ack'
  <2> HIDE DEF taken
  <2> QED BY <1>1, <1>4, <1>5, <1>6, <1>8 DEF AckOf
<1>10. \A m, n \in taken : m # n => AckOf(s, m) # AckOf(s, n)
  BY <1>4, <1>5, <1>6 DEF AckOf
<1>11. next_ack' \in Nat /\ next_ack' >= next_ack
  BY <1>1, <1>5, <1>6
<1> HIDE DEF C
<1>12. \A m \in taken : /\ leased(m) \in Tracked /\ leased(m).state = "Leased" /\ leased(m).ack = AckOf(s, m)
                        /\ leased(m).sequence = f[m].sequence
  <2> SUFFICES ASSUME NEW m \in taken
               PROVE  /\ leased(m) \in Tracked /\ leased(m).state = "Leased" /\ leased(m).ack = AckOf(s, m)
                      /\ leased(m).sequence = f[m].sequence
    OBVIOUS
  <2>1. f[m] \in Tracked /\ AckOf(s, m) \in Nat
    BY <1>3, <1>4, <1>6, <1>9
  <2> HIDE DEF taken, f
  <2> QED BY <2>1, Leasing
<1>13. DOMAIN g = DOMAIN f /\ (\A m \in taken : g[m] = leased(m)) /\ \A m \in DOMAIN f : m \notin taken => g[m] = f[m]
  BY <1>4, <1>6
<1>14. g = [m \in DOMAIN f |-> g[m]]
  OBVIOUS
<1>15. \A m \in taken : m \in DOMAIN f /\ f[m].state = "Available" /\ keys[m] \notin blocked(s)
  BY <1>6 DEF C, Candidates, InState
<1>16. \A m \in DOMAIN f : f[m].state = "Available" /\ keys[m] \notin blocked(s) => m \in C
  BY <1>1 DEF C, Candidates, InState, IsSub
<1> HIDE DEF taken, leased, g, f
<1>17. Partial(g, Messages, Tracked)
  BY <1>3, <1>12, <1>13, <1>14 DEF Partial
<1>18. /\ SubscriptionEntry(e2) /\ e2.messages = g /\ e2.config = Entry(s).config
       /\ e2.generation = Entry(s).generation /\ e2.topic_deleted = Entry(s).topic_deleted
       /\ e2.since = Entry(s).since /\ e2.dead = Entry(s).dead
  BY <1>3, <1>17, NewMessages
<1> HIDE DEF e2
<1>19. Ordered(s, g, keys)
  <2> SUFFICES ASSUME NEW m \in DOMAIN f, NEW n \in DOMAIN f, m < n,
                      g[m].state \in {"Available", "Pushing"}, g[m].sequence = m,
                      Settings[s].ordered => keys[m] \in {NoKey, keys[n]},
                      g[n].state = "Leased"
               PROVE  FALSE
    BY <1>13 DEF Ordered
  <2>1. m \notin taken /\ g[m] = f[m]
    BY <1>12, <1>13
  <2>2. CASE n \notin taken
    BY <1>3, <1>13, <2>1, <2>2 DEF Backlog, Ordered
  <2>3. CASE n \in taken
    <3>1. f[n].state = "Available" /\ keys[n] \notin blocked(s) /\ n \in C
      BY <1>6, <1>15, <2>3
    <3>2. f[m].state = "Available"
      BY <1>3, <2>1, <3>1 DEF Backlog, Waiting
    <3>3. keys[m] \notin blocked(s)
      BY <3>1 DEF blocked
    <3>4. m \in C
      BY <1>16, <3>2, <3>3
    <3>5. n \in Nat /\ m \in Nat /\ n <= MaxMessages
      BY <1>3 DEF Messages
    <3>6. f[m].sequence = m /\ f[n].sequence > m
      <4>1. f[n].sequence \in Nat /\ (f[n].sequence = n \/ f[n].sequence > MaxMessages)
        BY <1>3 DEF Backlog, Tracked
      <4> QED BY <1>5, <2>1, <3>5, <4>1
    <3>7. m \in Before(s, n)
      BY <3>4, <3>6 DEF Before, C, f
    <3> QED BY <1>7, <2>1, <2>3, <3>7
  <2> QED BY <2>2, <2>3
<1>20. Backlog(s, g, Entry(s).config.push, keys, next_ack')
  <2>1. ASSUME NEW m \in DOMAIN g
        PROVE  /\ g[m].state # Waiting(~Entry(s).config.push)
               /\ g[m].sequence = m \/ g[m].sequence > MaxMessages
               /\ g[m].state = "Leased" => g[m].ack \in 1 .. next_ack' - 1
    <3>1. CASE m \in taken
      <4>1. /\ g[m].state = "Leased" /\ g[m].ack = AckOf(s, m) /\ g[m].sequence = f[m].sequence
            /\ (f[m].sequence = m \/ f[m].sequence > MaxMessages)
        BY <1>3, <1>12, <1>13, <2>1, <3>1 DEF Backlog
      <4>2. g[m].ack \in 1 .. next_ack' - 1
        BY <1>5, <1>9, <1>11, <3>1, <4>1
      <4> QED BY <4>1, <4>2 DEF Waiting
    <3>2. CASE m \notin taken
      <4>1. g[m] = f[m] /\ m \in DOMAIN f
        BY <1>13, <2>1, <3>2
      <4> QED BY <1>3, <1>5, <1>11, <4>1 DEF Backlog
    <3> QED BY <3>1, <3>2
  <2> QED BY <1>3, <1>13, <1>19, <2>1 DEF Backlog
<1>21. /\ DOMAIN subscriptions' = DOMAIN subscriptions /\ subscriptions'[s] = e2
       /\ \A q \in DOMAIN subscriptions : q # s => subscriptions'[q] = subscriptions[q]
  BY <1>1, <1>2
<1>22. TypeOK'
  <2>1. \A q \in DOMAIN subscriptions' : SubscriptionEntry(subscriptions'[q])
    BY <1>18, <1>21 DEF Inv, TypeOK, Entry
  <2> QED BY <1>1, <1>5, <1>11, <1>21, <2>1 DEF Inv, TypeOK, Entry
<1>23. BacklogsOK'
  <2> SUFFICES ASSUME NEW q \in DOMAIN subscriptions
               PROVE  Backlog(q, subscriptions'[q].messages, subscriptions'[q].config.push, keys, next_ack')
    BY <1>1, <1>21 DEF BacklogsOK, Entry
  <2>1. CASE q = s
    BY <1>18, <1>20, <1>21, <2>1
  <2>2. CASE q # s
    <3>1. Backlog(q, Entry(q).messages, Entry(q).config.push, keys, next_ack)
      BY EntryIs
    <3>2. subscriptions'[q] = Entry(q)
      BY <1>21, <2>2 DEF Entry
    <3> QED BY <1>5, <1>11, <3>1, <3>2 DEF Backlog
  <2> QED BY <2>1, <2>2
<1>24. \A q \in DOMAIN subscriptions :
          /\ subscriptions'[q].generation = subscriptions[q].generation
          /\ subscriptions'[q].topic_deleted = subscriptions[q].topic_deleted
          /\ subscriptions'[q].since = subscriptions[q].since /\ subscriptions'[q].dead = subscriptions[q].dead
          /\ DOMAIN subscriptions'[q].messages = DOMAIN subscriptions[q].messages
  BY <1>13, <1>18, <1>21 DEF Entry, f
<1>25. Generations' /\ NothingVanishes'
  BY <1>1, <1>21, <1>24 DEF Inv, Generations, NothingVanishes, Entry
<1>26. OnePushAtATime'
  BY <1>1, SamePushes
<1>27. ASSUME NEW q \in Subs, NEW m \in Messages
       PROVE  Lease(q, m)' = IF q = s /\ m \in taken THEN AckOf(s, m) ELSE Lease(q, m)
  <2>1. CASE q # s
    BY <1>21, <2>1 DEF Lease, InState, IsSub, Entry
  <2>2. CASE q = s /\ m \in taken
    BY <1>1, <1>12, <1>13, <1>15, <1>18, <1>21, <2>2 DEF Lease, InState, IsSub, Entry
  <2>3. CASE q = s /\ m \notin taken
    BY <1>1, <1>13, <1>18, <1>21, <2>3 DEF Lease, InState, IsSub, Entry, f
  <2> QED BY <2>1, <2>2, <2>3
<1>28. \A q \in Subs, m \in Messages : Lease(q, m) \in Nat /\ Lease(q, m) < next_ack
  BY <1>5, EntryIs DEF Lease, InState, IsSub, Backlog
<1>29. NamesOneDelivery
  <2> SUFFICES ASSUME NEW q \in Subs, NEW m \in Messages, Lease(q, m)' \notin {0, Lease(q, m)}
               PROVE  /\ Lease(q, m)' \in next_ack .. next_ack' - 1
                      /\ \A r \in Subs, n \in Messages : Lease(r, n)' = Lease(q, m)' => <<r, n>> = <<q, m>>
    BY DEF NamesOneDelivery
  <2>1. q = s /\ m \in taken /\ Lease(q, m)' = AckOf(s, m)
    BY <1>27
  <2>2. AckOf(s, m) \in next_ack .. next_ack' - 1
    BY <1>5, <1>9, <1>11, <2>1
  <2>3. ASSUME NEW r \in Subs, NEW n \in Messages, Lease(r, n)' = AckOf(s, m) PROVE r = s /\ n = m
    <3>1. r = s /\ n \in taken
      BY <1>5, <1>9, <1>27, <1>28, <2>1, <2>3
    <3>2. AckOf(s, n) = AckOf(s, m)
      BY <1>27, <2>3, <3>1
    <3> QED BY <1>10, <2>1, <3>1, <3>2
  <2> QED BY <2>1, <2>2, <2>3
<1> QED BY <1>22, <1>23, <1>25, <1>26, <1>29 DEF Inv

-----------------------------------------------------------------------------
(* The theorems.                                                            *)

LEMMA InvInit == ConstantsOK => (Init => Inv)
<1> SUFFICES ASSUME ConstantsOK, Init PROVE Inv
  OBVIOUS
<1>1. DOMAIN topics = {} /\ DOMAIN subscriptions = {} /\ topics = [x \in {} |-> 0]
  BY DEF Init, Empty
<1>2. jobs = [j \in {} |-> 1] /\ keys = <<>> /\ in_flight = {} /\ next_ack = 1 /\ next_generation = 1
      /\ sequence = MaxMessages + 1 /\ MaxMessages \in Nat
  BY DEF Init, EmptyBag, SetToBag, ConstantsOK
<1>3. TypeOK
  BY <1>1, <1>2 DEF TypeOK, Partial, IsABag
<1>4. BacklogsOK /\ Generations /\ NothingVanishes
  BY <1>1 DEF BacklogsOK, Generations, NothingVanishes
<1>5. OnePushAtATime
  BY <1>2 DEF OnePushAtATime, Copies, BagIn, BagToSet
<1> QED BY <1>3, <1>4, <1>5 DEF Inv

LEMMA InvNext == ConstantsOK => (Inv /\ [Next]_vars => Inv' /\ [NamesOneDelivery]_vars)
<1> SUFFICES ASSUME ConstantsOK, Inv, [Next]_vars PROVE Inv' /\ [NamesOneDelivery]_vars
  OBVIOUS
<1>1. CASE UNCHANGED vars
  <2>1. UNCHANGED <<topics, subscriptions, snapshots, keys, counters, in_flight, jobs>>
    BY <1>1 DEF vars
  <2> QED BY <1>1, <2>1, SamePushes, StepOfPush
<1>2. ASSUME NEW t \in Topics,
             create_topic(t) \/ delete_topic(t) \/ \E key \in OrderingKeys : publish(t, key)
      PROVE  Inv' /\ NamesOneDelivery
  BY <1>2, StepCreateTopic, StepDeleteTopic, StepPublish, QuietNames
<1>3. ASSUME NEW s \in Subs, NEW config \in Configs[s],
             create_subscription(s, config) \/ update_subscription(s, config)
      PROVE  Inv' /\ NamesOneDelivery
  BY <1>3, StepCreateSubscription, StepUpdate, QuietNames
<1>4. ASSUME NEW s \in Subs,
             \/ \E push \in {config.push : config \in Configs[s]} : modify_push_config(s, push)
             \/ delete_subscription(s)
      PROVE  Inv' /\ NamesOneDelivery
  BY <1>4, StepModifyPush, StepDeleteSubscription, QuietNames
<1>5. ASSUME NEW s \in Subs, NEW max \in 1 .. MaxMessages, pull(s, max)
      PROVE  Inv' /\ NamesOneDelivery
  BY <1>5, StepPull DEF ConstantsOK
<1>6. ASSUME NEW s \in Subs, NEW ack \in 1 .. MaxAcks, acknowledge(s, ack) \/ modify_ack_deadline(s, ack)
      PROVE  Inv' /\ NamesOneDelivery
  BY <1>6, StepAcknowledge, StepNack, QuietNames DEF modify_ack_deadline
<1>7. ASSUME NEW s \in Subs, NEW m \in Messages,
             \/ tick(s, m)
             \/ \E delivered \in BOOLEAN : PushEnds(s, m, delivered)
             \/ \E outcome \in {"delivered", "failed"} : push_finished(s, m, outcome)
      PROVE  Inv' /\ NamesOneDelivery
  BY <1>7, StepNack, StepStartPush, StepPushEnds, StepPushFinished, QuietNames DEF tick, expire
<1>8. ASSUME NEW s \in Subs, NEW target \in 1 .. MaxMessages + 1, seek_to_time(s, target)
      PROVE  Inv' /\ NamesOneDelivery
  BY <1>8, StepSeekToTime, QuietNames
<1>9. ASSUME NEW s \in Subs, NEW n \in Snapshots, seek_to_snapshot(s, n) PROVE Inv' /\ NamesOneDelivery
  BY <1>9, StepSeekToSnapshot, QuietNames
<1>10. ASSUME NEW n \in Snapshots, delete_snapshot(n) \/ \E s \in Subs : create_snapshot(n, s)
       PROVE  Inv' /\ NamesOneDelivery
  <2>1. UNCHANGED <<topics, subscriptions, keys, counters, in_flight, jobs>>
    BY <1>10 DEF delete_snapshot, create_snapshot
  <2>2. UNCHANGED <<topics, keys, next_ack, next_generation, sequence>>
    BY <2>1 DEF counters
  <2>3. sequence' \in Nat /\ sequence' > MaxMessages
    BY <2>2 DEF Inv, TypeOK
  <2> QED BY <2>1, <2>2, <2>3, SamePushes, SubsSame, EvolvedStep, QuietNames
<1> QED BY <1>1, <1>2, <1>3, <1>4, <1>5, <1>6, <1>7, <1>8, <1>9, <1>10 DEF Next

(* Every variable keeps its type, whatever the instance. *)
THEOREM TypeCorrect == ASSUME ConstantsOK PROVE Spec => []TypeOK
<1>1. Init => Inv
  BY InvInit
<1>2. Inv /\ [Next]_vars => Inv'
  BY InvNext
<1>3. Inv => TypeOK
  BY DEF Inv
<1> QED BY <1>1, <1>2, <1>3, PTL DEF Spec

(* Whatever the topics, subscriptions and messages, however often push is   *)
(* switched on and off, messages expire, are sought or become dead letters: *)
(* an endpoint is sent a message once at a time, no message waits for       *)
(* somebody who will not come, and none is lost (start_pushing,             *)
(* stop_pushing, modify_deadline, push_finished, deliver).                  *)
THEOREM PushesAreKept == ASSUME ConstantsOK PROVE Spec => []PushesKept
<1>1. Init => Inv
  BY InvInit
<1>2. Inv /\ [Next]_vars => Inv'
  BY InvNext
<1>3. Inv => PushesKept
  <2>1. Inv => NoneStranded
    BY DEF Inv, BacklogsOK, Backlog, NoneStranded, InState
  <2> QED BY <2>1 DEF Inv, PushesKept
<1> QED BY <1>1, <1>2, <1>3, PTL DEF Spec

(* Pulls take messages in order, whatever is leased, requeued and sought,   *)
(* and hand each out under an ack id no other delivery has or had, also of  *)
(* a subscription created anew under the same name (take, find_lease).      *)
THEOREM PullsAreExact == ASSUME ConstantsOK PROVE Spec => PullsExact
<1>1. Init => Inv
  BY InvInit
<1>2. Inv /\ [Next]_vars => Inv' /\ [NamesOneDelivery]_vars
  BY InvNext
<1>3. Inv => NoneOvertaken
  BY DEF Inv, BacklogsOK, Backlog, Ordered, NoneOvertaken, InState
<1> QED BY <1>1, <1>2, <1>3, PTL DEF Spec, PullsExact, AcksNameOneDelivery
=============================================================================
