------------------------- MODULE PubSubSchemasProofs -------------------------
(* The proof that the schema stamps of Pub/Sub messages stay true.           *)
(*                                                                           *)
(* The inductive invariant keeps, for every revision id ever made, what it   *)
(* was made for (births): the revisions that schemas still hold, the topics' *)
(* bindings and the stamps of messages all agree with it.                    *)
EXTENDS PubSubSchemas, SequenceTheorems, TLAPS

Birth == [name : Names, era : Nat, definition : Definitions]

(* TypeOK: the values the variables take, as far as the proof needs them.    *)
TypeOK ==
  /\ schemas \in [Names -> Seq([id : Nat, definition : Definitions])]
  /\ DOMAIN topics = Topics
  /\ counter \in Nat
  /\ births \in Seq(Birth) /\ Len(births) = counter
  /\ eras \in [Names -> Nat]

(* RevisionsBorn: a revision of a schema was made for it as it is now, and   *)
(* has the definition it was made with (new_revision, delete_schema).        *)
Born(n, r) ==
  r.id \in 1..counter /\ births[r.id] = [name |-> n, era |-> eras[n], definition |-> r.definition]
RevisionsBorn ==
  /\ \A n \in Names : \A i \in 1..Len(schemas[n]) : Born(n, schemas[n][i])
  /\ \A id \in 1..counter : births[id].era <= eras[births[id].name]

(* BindingsTrue: what a topic keeps of the revision it is bound to           *)
(* (bind_schema, delete_schema).                                             *)
BindingTrue(bound) ==
  /\ bound.revision \in 1..counter /\ bound.deleted \in BOOLEAN
  /\ bound.deleted <=> bound.schema = DELETED_SCHEMA
  /\ bound.deleted <=> eras[births[bound.revision].name] > births[bound.revision].era
  /\ bound.deleted \/ bound.schema = births[bound.revision].name
  /\ bound.parsed = births[bound.revision].definition
BindingsTrue ==
  \A t \in Topics : topics[t] /= <<>> =>
    /\ \E bound \in [schema : Names \cup {DELETED_SCHEMA}, revision : Nat, parsed : Definitions,
                      deleted : BOOLEAN] : topics[t] = <<bound>>
    /\ BindingTrue(topics[t][1])

(* MessagesJudged: a message was judged by the definition its revision was   *)
(* made with (publish).                                                      *)
MessagesJudged ==
  \A m \in messages :
    /\ m.revision \in 1..counter
    /\ m.name = births[m.revision].name
    /\ m.data \in Admits[births[m.revision].definition]

Stamped == TypeOK /\ RevisionsBorn /\ BindingsTrue /\ MessagesJudged

\* Removing an element leaves the others.
LEMMA RemoveAtKeeps ==
  ASSUME NEW T, NEW s \in Seq(T), NEW i \in 1..Len(s)
  PROVE  /\ RemoveAt(s, i) \in Seq(T)
         /\ \A j \in 1..Len(RemoveAt(s, i)) : \E k \in 1..Len(s) : RemoveAt(s, i)[j] = s[k]
<1> DEFINE a == SubSeq(s, 1, i - 1)
           b == SubSeq(s, i + 1, Len(s))
<1>1. a \in Seq(T) /\ Len(a) = i - 1 /\ \A j \in 1..i - 1 : a[j] = s[j]
  OBVIOUS
<1>2. b \in Seq(T) /\ Len(b) = Len(s) - i /\ \A j \in 1..Len(s) - i : b[j] = s[i + j]
  OBVIOUS
<1>3. RemoveAt(s, i) = a \o b
  BY DEF RemoveAt
<1> HIDE DEF a, b
<1>4. a \o b \in Seq(T) /\ Len(a \o b) = Len(s) - 1
  <2>1. a \o b \in Seq(T) /\ Len(a \o b) = Len(a) + Len(b)
    BY <1>1, <1>2, ConcatProperties
  <2> QED BY <1>1, <1>2, <2>1, LenProperties
<1>5. \A j \in 1..Len(s) - 1 : (a \o b)[j] = IF j < i THEN s[j] ELSE s[j + 1]
  BY <1>1, <1>2, ConcatProperties
<1> QED BY <1>3, <1>4, <1>5

LEMMA BirthsTyped == TypeOK => \A id \in 1..counter : births[id] \in Birth
  BY ElementOfSeq DEF TypeOK

LEMMA RevisionsTyped ==
  TypeOK => \A n \in Names : \A i \in 1..Len(schemas[n]) :
              schemas[n][i] \in [id : Nat, definition : Definitions]
  BY ElementOfSeq DEF TypeOK

\* A revision that is found has the definition it was made with.
LEMMA FoundAsBorn ==
  ASSUME TypeOK, RevisionsBorn, NEW n \in Names, NEW id \in Ids(n)
  PROVE  /\ Find(n, id) \in Range(schemas[n]) /\ Find(n, id).id = id
         /\ Born(n, Find(n, id)) /\ Find(n, id).definition \in Definitions
<1>1. Find(n, id) \in Range(schemas[n]) /\ Find(n, id).id = id
  BY DEF Ids, Find
<1>2. PICK i \in 1..Len(schemas[n]) : Find(n, id) = schemas[n][i]
  BY <1>1, LenProperties DEF Range, TypeOK
<1> QED BY <1>1, <1>2, RevisionsTyped DEF RevisionsBorn

LEMMA StampedTrue == Stamped => StampsTrue
<1> SUFFICES ASSUME Stamped PROVE StampsTrue
  OBVIOUS
<1>1. ASSUME NEW m \in messages
      PROVE  /\ m.name \in Names /\ births[m.revision].name = m.name
             /\ get_schema(m.name, m.revision) /= <<>> => validate_message(m.name, m.revision, m.data)
  <2>1. m.revision \in 1..counter /\ m.name = births[m.revision].name
        /\ m.data \in Admits[births[m.revision].definition] /\ m.name \in Names
    BY BirthsTyped DEF Stamped, MessagesJudged, Birth
  <2>2. ASSUME get_schema(m.name, m.revision) /= <<>>
        PROVE  validate_message(m.name, m.revision, m.data)
    <3>1. m.revision \in Ids(m.name) /\ get_schema(m.name, m.revision) = <<Find(m.name, m.revision)>>
      BY <2>1, <2>2 DEF get_schema, Stamped, TypeOK
    <3>2. Find(m.name, m.revision).definition = births[m.revision].definition
      <4>1. Find(m.name, m.revision).id = m.revision /\ Born(m.name, Find(m.name, m.revision))
        BY <2>1, <3>1, FoundAsBorn DEF Stamped
      <4> QED BY <4>1 DEF Born
    <3> QED BY <2>1, <3>1, <3>2 DEF validate_message
  <2> QED BY <2>1, <2>2
<1>2. ASSUME NEW t \in Topics, topics[t] /= <<>> PROVE BindingTrue(topics[t][1])
  BY <1>2 DEF Stamped, BindingsTrue
<1> QED BY <1>1, <1>2 DEF StampsTrue, BindingTrue

LEMMA StampedInit == Init => Stamped
  BY DEF Init, Stamped, TypeOK, RevisionsBorn, BindingsTrue, MessagesJudged, Birth

\* A new revision keeps what was said of the others.
LEMMA StampedRevision ==
  ASSUME Stamped, NEW n \in Names, NEW d \in Definitions, new_revision(n, d)
  PROVE  Stamped'
<1> DEFINE birth == [name |-> n, era |-> eras[n], definition |-> d]
<1>1. birth \in Birth
  BY DEF Stamped, TypeOK, Birth
<1>2. /\ births' \in Seq(Birth) /\ Len(births') = counter + 1 /\ births'[counter + 1] = birth
      /\ \A id \in 1..counter : births'[id] = births[id]
  BY <1>1 DEF new_revision, Stamped, TypeOK
<1>3. counter' = counter + 1 /\ eras' = eras /\ topics' = topics /\ messages' = messages
      /\ schemas' = [schemas EXCEPT ![n] = Append(@, [id |-> counter + 1, definition |-> d])]
  BY DEF new_revision
<1> DEFINE new == [id |-> counter + 1, definition |-> d]
<1>8. new \in [id : Nat, definition : Definitions] /\ schemas[n] \in Seq([id : Nat, definition : Definitions])
  <2>1. counter + 1 \in Nat
    BY DEF Stamped, TypeOK
  <2>2. schemas[n] \in Seq([id : Nat, definition : Definitions])
    BY DEF Stamped, TypeOK
  <2> QED BY <2>1, <2>2
<1>9. /\ Append(schemas[n], new) \in Seq([id : Nat, definition : Definitions])
      /\ Len(Append(schemas[n], new)) = Len(schemas[n]) + 1
      /\ \A i \in 1..Len(schemas[n]) : Append(schemas[n], new)[i] = schemas[n][i]
      /\ Append(schemas[n], new)[Len(schemas[n]) + 1] = new
  BY <1>8, AppendProperties
<1>10. schemas' = [schemas EXCEPT ![n] = Append(schemas[n], new)] /\ DOMAIN schemas = Names
  BY <1>3 DEF Stamped, TypeOK
<1> HIDE DEF new
<1>4. TypeOK'
  <2>1. schemas' \in [Names -> Seq([id : Nat, definition : Definitions])]
    BY <1>9, <1>10 DEF Stamped, TypeOK
  <2>2. counter' \in Nat /\ births' \in Seq(Birth) /\ Len(births') = counter'
    BY <1>2, <1>3 DEF Stamped, TypeOK
  <2>3. DOMAIN topics' = Topics /\ eras' \in [Names -> Nat]
    BY <1>3 DEF Stamped, TypeOK
  <2> QED BY <2>1, <2>2, <2>3 DEF TypeOK
<1>5. RevisionsBorn'
  <2>1. ASSUME NEW q \in Names, NEW i \in 1..Len(schemas'[q]) PROVE Born(q, schemas[q][i])'
    <3>1. CASE q = n /\ i = Len(schemas[n]) + 1
      <4>1. schemas'[q][i] = new
        BY <1>9, <1>10, <3>1
      <4> QED BY <1>2, <1>3, <3>1, <4>1 DEF Stamped, TypeOK, Born, new
    <3>2. CASE ~(q = n /\ i = Len(schemas[n]) + 1)
      <4>1. i \in 1..Len(schemas[q]) /\ schemas'[q][i] = schemas[q][i]
        BY <1>8, <1>9, <1>10, <3>2, LenProperties
      <4>2. Born(q, schemas[q][i])
        BY <4>1 DEF Stamped, RevisionsBorn
      <4> QED BY <1>2, <1>3, <4>1, <4>2 DEF Stamped, TypeOK, Born
    <3> QED BY <3>1, <3>2
  <2>2. \A id \in 1..counter' : births'[id].era <= eras'[births'[id].name]
    BY <1>2, <1>3 DEF Stamped, TypeOK, RevisionsBorn
  <2> QED BY <2>1, <2>2 DEF RevisionsBorn
<1>6. BindingsTrue'
  BY <1>2, <1>3 DEF Stamped, TypeOK, BindingsTrue, BindingTrue
<1>7. MessagesJudged'
  BY <1>2, <1>3 DEF Stamped, TypeOK, MessagesJudged
<1> QED BY <1>4, <1>5, <1>6, <1>7 DEF Stamped

\* delete_schema marks exactly the topics bound to the schema as it was.
LEMMA StampedDelete ==
  ASSUME DELETED_SCHEMA \notin Names, Stamped, NEW n \in Names, delete_schema(n)
  PROVE  Stamped'
<1>1. /\ eras' = [eras EXCEPT ![n] = @ + 1] /\ schemas' = [schemas EXCEPT ![n] = <<>>]
      /\ counter' = counter /\ messages' = messages /\ births' = births
  BY DEF delete_schema
<1>2. TypeOK'
  <2>1. schemas' \in [Names -> Seq([id : Nat, definition : Definitions])]
    BY <1>1, EmptySeq DEF Stamped, TypeOK
  <2>2. DOMAIN topics' = Topics
    BY DEF delete_schema
  <2>3. eras' \in [Names -> Nat]
    BY <1>1 DEF Stamped, TypeOK
  <2> QED BY <1>1, <2>1, <2>2, <2>3 DEF Stamped, TypeOK
<1>3. RevisionsBorn'
  <2>1. ASSUME NEW q \in Names, NEW i \in 1..Len(schemas'[q]) PROVE Born(q, schemas[q][i])'
    <3>1. q /= n /\ schemas'[q] = schemas[q]
      BY <1>1, <2>1, EmptySeq DEF Stamped, TypeOK
    <3>2. Born(q, schemas[q][i])
      BY <2>1, <3>1 DEF Stamped, RevisionsBorn
    <3> QED BY <1>1, <3>1, <3>2 DEF Born, Stamped, TypeOK
  <2>2. ASSUME NEW id \in 1..counter PROVE births[id].era <= eras'[births[id].name]
    <3>1. births[id].era <= eras[births[id].name] /\ births[id].name \in Names /\ births[id].era \in Nat
      BY BirthsTyped DEF Stamped, RevisionsBorn, Birth
    <3> QED BY <1>1, <3>1 DEF Stamped, TypeOK
  <2> QED BY <1>1, <2>1, <2>2 DEF RevisionsBorn
<1>4. ASSUME NEW t \in Topics, topics'[t] /= <<>>
      PROVE  /\ \E bound \in [schema : Names \cup {DELETED_SCHEMA}, revision : Nat, parsed : Definitions,
                               deleted : BOOLEAN] : topics'[t] = <<bound>>
             /\ BindingTrue(topics[t][1])'
  <2>1. PICK bound \in [schema : Names \cup {DELETED_SCHEMA}, revision : Nat, parsed : Definitions,
                        deleted : BOOLEAN] : topics[t] = <<bound>>
    BY <1>4 DEF delete_schema, Stamped, BindingsTrue
  <2>5. topics[t][1] = bound /\ topics[t] /= <<>>
    BY <2>1
  <2>6. topics'[t] = IF bound.schema = n
                       THEN <<[bound EXCEPT !.schema = DELETED_SCHEMA, !.deleted = TRUE]>>
                       ELSE topics[t]
    BY <2>5 DEF delete_schema
  <2>2. BindingTrue(bound) /\ births[bound.revision] \in Birth /\ bound.revision \in 1..counter
    BY <2>1, BirthsTyped DEF Stamped, BindingsTrue, BindingTrue
  <2>3. CASE bound.schema = n
    <3> DEFINE new == [bound EXCEPT !.schema = DELETED_SCHEMA, !.deleted = TRUE]
    <3>1. topics'[t] = <<new>>
      BY <2>6, <2>3
    <3>2. births[bound.revision].name = n
      BY <2>2, <2>3 DEF BindingTrue
    <3>3. BindingTrue(new)'
      BY <1>1, <2>2, <2>3, <3>2 DEF BindingTrue, Birth, Stamped, TypeOK, RevisionsBorn
    <3>4. new \in [schema : Names \cup {DELETED_SCHEMA}, revision : Nat, parsed : Definitions,
                   deleted : BOOLEAN]
      OBVIOUS
    <3>5. topics'[t][1] = new
      BY <3>1
    <3> HIDE DEF new
    <3>6. BindingTrue(topics[t][1])'
      BY <3>3, <3>5 DEF BindingTrue
    <3> QED BY <3>1, <3>4, <3>6
  <2>4. CASE bound.schema /= n
    <3>1. topics'[t] = <<bound>>
      BY <2>6, <2>1, <2>4
    <3>2. BindingTrue(bound)'
      BY <1>1, <2>2, <2>4 DEF BindingTrue, Birth, Stamped, TypeOK
    <3> QED BY <3>1, <3>2
  <2> QED BY <2>3, <2>4
<1>5. MessagesJudged'
  BY <1>1 DEF Stamped, MessagesJudged
<1> QED BY <1>2, <1>3, <1>4, <1>5 DEF Stamped, BindingsTrue

LEMMA StampedNext ==
  ASSUME DELETED_SCHEMA \notin Names
  PROVE  Stamped /\ [Next]_vars => Stamped'
<1> SUFFICES ASSUME Stamped, [Next]_vars PROVE Stamped'
  OBVIOUS
<1>1. CASE UNCHANGED vars
  BY <1>1 DEF vars, Stamped, TypeOK, RevisionsBorn, Born, BindingsTrue, BindingTrue, MessagesJudged
<1>2. ASSUME NEW n \in Names, delete_schema(n) PROVE Stamped'
  BY <1>2, StampedDelete
<1>3. ASSUME NEW n \in Names, NEW d \in Definitions, create_schema(n, d) \/ commit_schema(n, d)
      PROVE  Stamped'
  BY <1>3, StampedRevision DEF create_schema, commit_schema
<1>4. ASSUME NEW n \in Names, NEW id \in 1..counter, rollback_schema(n, id) PROVE Stamped'
  <2>1. Find(n, id).definition \in Definitions
    BY <1>4, FoundAsBorn DEF rollback_schema, Stamped
  <2> QED BY <1>4, <2>1, StampedRevision DEF rollback_schema
<1>5. ASSUME NEW n \in Names, NEW id \in 1..counter, delete_schema_revision(n, id) PROVE Stamped'
  <2>1. PICK i \in 1..Len(schemas[n]) : schemas' = [schemas EXCEPT ![n] = RemoveAt(schemas[n], i)]
    BY <1>5 DEF delete_schema_revision
  <2>2. UNCHANGED <<topics, counter, messages, births, eras>>
    BY <1>5 DEF delete_schema_revision
  <2>3. /\ RemoveAt(schemas[n], i) \in Seq([id : Nat, definition : Definitions])
        /\ \A j \in 1..Len(RemoveAt(schemas[n], i)) :
              \E k \in 1..Len(schemas[n]) : RemoveAt(schemas[n], i)[j] = schemas[n][k]
    <3>1. schemas[n] \in Seq([id : Nat, definition : Definitions])
      BY DEF Stamped, TypeOK
    <3> QED BY <3>1, RemoveAtKeeps
  <2>4. TypeOK'
    BY <2>1, <2>2, <2>3 DEF Stamped, TypeOK
  <2>5. RevisionsBorn'
    <3>1. ASSUME NEW q \in Names, NEW j \in 1..Len(schemas'[q]) PROVE Born(q, schemas[q][j])'
      <4>1. PICK k \in 1..Len(schemas[q]) : schemas'[q][j] = schemas[q][k]
        BY <2>1, <2>3, <3>1 DEF Stamped, TypeOK
      <4>2. Born(q, schemas[q][k])
        BY DEF Stamped, RevisionsBorn
      <4> QED BY <2>2, <4>1, <4>2 DEF Born
    <3> QED BY <2>2, <3>1 DEF Stamped, RevisionsBorn
  <2> QED BY <2>2, <2>4, <2>5 DEF Stamped, BindingsTrue, BindingTrue, MessagesJudged
<1>6. ASSUME NEW t \in Topics, NEW n \in Names, NEW first \in 0..counter, NEW last \in 0..counter,
             Bind(t, n, first, last)
      PROVE  Stamped'
  <2> DEFINE r == IF last = 0 THEN Last(schemas[n]) ELSE Find(n, last)
  <2>1. Born(n, r) /\ r.definition \in Definitions
    <3>1. CASE last = 0
      <4>1. schemas[n] /= <<>> /\ schemas[n] \in Seq([id : Nat, definition : Definitions])
        BY <1>6 DEF Bind, Bindable, Stamped, TypeOK
      <4>2. Len(schemas[n]) \in 1..Len(schemas[n])
        BY <4>1, EmptySeq
      <4> QED BY <3>1, <4>2, RevisionsTyped DEF Last, Stamped, RevisionsBorn
    <3>2. CASE last /= 0
      BY <1>6, <3>2, FoundAsBorn DEF Bind, Bindable, Stamped
    <3> QED BY <3>1, <3>2
  <2> DEFINE bound == [schema |-> n, revision |-> r.id, parsed |-> r.definition, deleted |-> FALSE]
  <2>2. topics' = [topics EXCEPT ![t] = <<bound>>] /\ UNCHANGED <<schemas, counter, messages, births, eras>>
    BY <1>6 DEF Bind, bind_schema
  <2> HIDE DEF r
  <2>3. bound \in [schema : Names \cup {DELETED_SCHEMA}, revision : Nat, parsed : Definitions,
                   deleted : BOOLEAN]
    BY <2>1 DEF Born, Stamped, TypeOK
  <2>4. BindingTrue(bound)
    BY <2>1 DEF Born, BindingTrue, Stamped, TypeOK
  <2> HIDE DEF bound
  <2>5. BindingsTrue'
    BY <2>2, <2>3, <2>4 DEF Stamped, TypeOK, BindingsTrue, BindingTrue
  <2> QED BY <2>2, <2>5 DEF Stamped, TypeOK, RevisionsBorn, Born, MessagesJudged
<1>7. ASSUME NEW t \in Topics, delete_topic(t) PROVE Stamped'
  BY <1>7 DEF delete_topic, Stamped, TypeOK, RevisionsBorn, Born, BindingsTrue, BindingTrue, MessagesJudged
<1>8. ASSUME NEW t \in Topics, NEW p \in Payloads, publish(t, p) PROVE Stamped'
  <2>1. UNCHANGED <<schemas, topics, counter, births, eras>>
    BY <1>8 DEF publish
  <2>2. BindingTrue(topics[t][1])
    BY <1>8 DEF publish, Stamped, BindingsTrue
  <2>3. MessagesJudged'
    BY <1>8, <2>1, <2>2 DEF publish, Stamped, MessagesJudged, BindingTrue
  <2> QED BY <2>1, <2>3 DEF Stamped, TypeOK, RevisionsBorn, Born, BindingsTrue, BindingTrue
<1> QED
  BY <1>1, <1>2, <1>3, <1>4, <1>5, <1>6, <1>7, <1>8 DEF Next

(* Whatever schemas, topics and messages there are, a message's stamp names  *)
(* the revision that judged it, and a topic says its schema is deleted       *)
(* exactly when it is (publish, bind_schema, delete_schema).  A schema's     *)
(* name is never the one that stands for a deleted schema: a name is         *)
(* projects/P/schemas/S (names::parse).                                      *)
THEOREM StampsStayTrue ==
  ASSUME DELETED_SCHEMA \notin Names
  PROVE  Spec => []StampsTrue
<1>1. Stamped /\ [Next]_vars => Stamped'
  BY StampedNext
<1> QED BY <1>1, StampedInit, StampedTrue, PTL DEF Spec
=============================================================================
