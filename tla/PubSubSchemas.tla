---------------------------- MODULE PubSubSchemas ----------------------------
(* The schemas of the Pub/Sub broker and the topics bound to them           *)
(* (pubsub-front/broker.rs).  Every call runs under the broker's mutex, so   *)
(* what can go wrong is a sequence of legal calls: a revision rolled back,   *)
(* deleted or superseded while a topic is bound to it, a schema deleted and  *)
(* created again under its name.                                             *)
(*                                                                           *)
(* A definition is a model value; Admits says which payloads are messages   *)
(* of it.  Revision ids are the counter new_revision mixes into its hash.    *)
EXTENDS Integers, Sequences, SequencesExt

CONSTANTS
  Names,          \* schema names
  Topics,
  Definitions,
  Payloads,
  Admits,        \* Admits[d]: the payloads that are messages of definition d
  MaxRevisions    \* bound: revisions made

VARIABLES
  schemas,   \* schemas[n]: the revisions of schema n, <<>> when there is none
  topics,    \* topics[t]: <<>>, or <<the binding of the topic>>
  counter,   \* revision_counter
  messages,  \* ghost: what was published, with its stamp and what judged it
  births,    \* ghost: births[r]: the schema and definition revision r was made for
  eras       \* ghost: eras[n]: how often schema n was deleted

vars == <<schemas, topics, counter, messages, births, eras>>

DELETED_SCHEMA == "_deleted-schema_"
Ids(n) == {r.id : r \in Range(schemas[n])}
Find(n, id) == CHOOSE r \in Range(schemas[n]) : r.id = id

-----------------------------------------------------------------------------

new_revision(n, d) ==
  /\ counter < MaxRevisions
  /\ counter' = counter + 1
  /\ births' = Append(births, [name |-> n, era |-> eras[n], definition |-> d])
  /\ schemas' = [schemas EXCEPT ![n] = Append(@, [id |-> counter + 1, definition |-> d])]
  /\ UNCHANGED <<topics, messages, eras>>

create_schema(n, d) == schemas[n] = <<>> /\ new_revision(n, d)

commit_schema(n, d) == schemas[n] /= <<>> /\ new_revision(n, d)

rollback_schema(n, id) == id \in Ids(n) /\ new_revision(n, Find(n, id).definition)

delete_schema_revision(n, id) ==
  /\ Len(schemas[n]) > 1
  /\ \E i \in 1..Len(schemas[n]) :
       schemas[n][i].id = id /\ schemas' = [schemas EXCEPT ![n] = RemoveAt(@, i)]
  /\ UNCHANGED <<topics, counter, messages, births, eras>>

(* Mutant: the topics bound to it keep the name of a schema that was deleted. *)
MutDelete(n) ==
  /\ schemas[n] /= <<>>
  /\ schemas' = [schemas EXCEPT ![n] = <<>>]
  /\ eras' = [eras EXCEPT ![n] = @ + 1]
  /\ UNCHANGED <<topics, counter, messages, births>>

delete_schema(n) ==
  /\ schemas[n] /= <<>>
  /\ schemas' = [schemas EXCEPT ![n] = <<>>]
  /\ eras' = [eras EXCEPT ![n] = @ + 1]
  /\ topics' = [t \in Topics |->
       IF topics[t] /= <<>> /\ topics[t][1].schema = n
         THEN <<[topics[t][1] EXCEPT !.schema = DELETED_SCHEMA, !.deleted = TRUE]>>
         ELSE topics[t]]
  /\ UNCHANGED <<counter, messages, births>>

-----------------------------------------------------------------------------

\* The revision a topic is bound to: the last of the range it names, or the
\* newest; the revision's parsed definition stays with the topic.
bind_schema(n, first, last) ==
  LET r == IF last = 0 THEN Last(schemas[n]) ELSE Find(n, last)
  IN [schema |-> n, revision |-> r.id, parsed |-> r.definition, deleted |-> FALSE]
Bindable(n, first, last) ==
  schemas[n] /= <<>> /\ first \in Ids(n) \cup {0} /\ last \in Ids(n) \cup {0}

\* create_topic, and update_topic with schema_settings in its mask.
Bind(t, n, first, last) ==
  /\ Bindable(n, first, last)
  /\ topics' = [topics EXCEPT ![t] = <<bind_schema(n, first, last)>>]
  /\ UNCHANGED <<schemas, counter, messages, births, eras>>

delete_topic(t) ==
  /\ topics[t] /= <<>>
  /\ topics' = [topics EXCEPT ![t] = <<>>]
  /\ UNCHANGED <<schemas, counter, messages, births, eras>>

\* publish: the message is judged by the bound definition and stamped with the
\* name in the topic's settings and the bound revision's id.
publish(t, p) ==
  /\ topics[t] /= <<>>
  /\ LET bound == topics[t][1]
     IN /\ ~bound.deleted /\ p \in Admits[bound.parsed]
        /\ messages' = messages \cup
             {[name |-> bound.schema, revision |-> bound.revision, data |-> p]}
  /\ UNCHANGED <<schemas, topics, counter, births, eras>>

\* get_schema and validate_message resolve a name, with or without a revision.
get_schema(n, id) ==
  IF schemas[n] = <<>> \/ id \notin Ids(n) \cup {0} THEN <<>>
  ELSE IF id = 0 THEN <<Last(schemas[n])>>
  ELSE <<Find(n, id)>>
validate_message(n, id, p) ==
  LET found == get_schema(n, id) IN found /= <<>> /\ p \in Admits[found[1].definition]

-----------------------------------------------------------------------------

Init ==
  /\ schemas = [n \in Names |-> <<>>]
  /\ topics = [t \in Topics |-> <<>>]
  /\ counter = 0 /\ messages = {} /\ births = <<>>
  /\ eras = [n \in Names |-> 0]

Next ==
  \/ \E n \in Names :
       \/ delete_schema(n)
       \/ \E d \in Definitions : create_schema(n, d) \/ commit_schema(n, d)
       \/ \E id \in 1..counter : rollback_schema(n, id) \/ delete_schema_revision(n, id)
       \/ \E t \in Topics, first, last \in 0..counter : Bind(t, n, first, last)
  \/ \E t \in Topics : delete_topic(t) \/ \E p \in Payloads : publish(t, p)

Spec == Init /\ [][Next]_vars

-----------------------------------------------------------------------------

(* StampsTrue: the schema and revision a message is stamped with are those   *)
(* it was judged by: resolved later, by get_schema or validate_message, they *)
(* are gone or still accept it, never another definition, whatever was       *)
(* committed, rolled back, deleted and created again in between; and a topic *)
(* says its schema is deleted exactly when the schema it was bound to has    *)
(* been, one created since under the same name not counting (bind_schema,    *)
(* publish, delete_schema).                                                  *)
StampsTrue ==
  /\ \A m \in messages :
       /\ m.name \in Names
       /\ births[m.revision].name = m.name
       /\ get_schema(m.name, m.revision) /= <<>> => validate_message(m.name, m.revision, m.data)
  /\ \A t \in Topics : topics[t] /= <<>> =>
       LET bound == topics[t][1]
           made == births[bound.revision]
       IN /\ bound.deleted <=> bound.schema = DELETED_SCHEMA
          /\ bound.deleted <=> eras[made.name] > made.era
          /\ bound.deleted \/ bound.schema = made.name
          /\ bound.parsed = made.definition
=============================================================================
