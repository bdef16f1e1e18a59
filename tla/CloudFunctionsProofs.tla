------------------------ MODULE CloudFunctionsProofs ------------------------
(***************************************************************************)
(* The trigger table of a codebase, for any versions of its code: however  *)
(* reloads, switches, commits and deliveries interleave, the bridge holds  *)
(* the registrations the table calls for whenever the registry lock is     *)
(* free, misses at most the one being replaced while a rewrite holds it,   *)
(* and once reloads have ended the table and the worker are those of the   *)
(* code the last one read.                                                 *)
(*                                                                         *)
(* The argument: register and remove_codebase_except keep a table in which *)
(* keys are unique and that agrees with the bridge, so that every rewrite  *)
(* starts from such a table, and a rewrite that no other overlapped ends   *)
(* with the definitions it was given.  What the bridge holds on the way is *)
(* what it holds after some of the definitions, but for the key of the     *)
(* next one: a function that is live before and after is missing only      *)
(* while its own key is released.                                          *)
(*                                                                         *)
(* An event the bridge has queued for a function is not lost and runs it   *)
(* once: a delivery is answered for the generation of the record it was    *)
(* queued for, and only the newest generation of a record is enabled, so   *)
(* that a request to an older one is answered without a run.               *)
(***************************************************************************)
EXTENDS CloudFunctions, FiniteSetTheorems, SequenceTheorems, WellFoundedInduction, TLAPS

Definitions == UNION {ToSet(Sources[v]) : v \in DOMAIN Sources}
Exports == {Sources[v] : v \in DOMAIN Sources}
Names == {d.name : d \in Definitions}
Record == [key : Names \X Nat, def : Definitions, enabled : BOOLEAN, stale : BOOLEAN,
           ignored : BOOLEAN]

Load == [pc : {"spawned", "discovered", "failed", "stored", "registering", "registered", "done"},
         defs : Exports \cup {<<>>}]

(* The registrations that records call for, and the definitions they serve. *)
Deserving(recs) ==
  {Registration(recs[i].def, recs[i].key) :
              i \in {j \in DOMAIN recs : Live(recs[j]) /\ recs[j].def.service = "firestore"}}
Serving(recs) == {recs[i].def : i \in {j \in DOMAIN recs : ~recs[j].stale}}

(* Records with keys of their own that agree with the bridge. *)
Tabled(recs, b) ==
  /\ recs \in Seq(Record)
  /\ \A i, j \in DOMAIN recs : recs[i].key = recs[j].key => i = j
  /\ \A i \in DOMAIN recs : /\ recs[i].key[1] = recs[i].def.name
                            /\ IsEvent(recs[i].def) => recs[i].key[2] # 0
  /\ b = Deserving(recs)

TypeOK ==
  /\ source \in DOMAIN Sources
  /\ generation \in Nat
  /\ loaded \in [defs : Exports, error : BOOLEAN]
  /\ loads \in Seq(Load)
  /\ switching \in [pc : {"idle", "begun", "registering", "registered", "disabled"}, defs : Seq(Definitions)]
  /\ dirty \in BOOLEAN /\ overlapped \in BOOLEAN

TableOK == Tabled(records, Deserving(records))

(* What the bridge may hold beside records: registrations of keys that some *)
(* record has, and of a rewrite's start and end no two missing.             *)
Registrations == {Registration(d, k) : d \in Definitions, k \in Names \X Nat}
Contents == SUBSET Registrations
Passing(b, recs) ==
  /\ IsFiniteSet(b)
  /\ \A x \in b : x.key[2] # 0 /\ \E i \in DOMAIN recs : recs[i].key = x.key
Gap(b, recs, was) == \A x, y \in (was \cap Deserving(recs)) \ b : x = y

(* Outside a rewrite the bridge agrees with the records; a rewrite ends     *)
(* with what they call for.                                                 *)
Bridged(b, recs, was, left, over) ==
  /\ left \in Seq(SUBSET Registrations)
  /\ left = <<>> => b = Deserving(recs)
  /\ left # <<>> => left[Len(left)] = Deserving(recs)
  /\ \A c \in ToSet(left) \cup {b} : Passing(c, recs) /\ (~over => Gap(c, recs, was))
BridgeOK == Bridged(bridge, records, rewrite.was, rewrite.left, overlapped)

(* What a load that has discovered will store, and what it has stored. *)
LoadsOK ==
  \A l \in DOMAIN loads :
    /\ loads[l].pc \in {"discovered", "stored"} => loads[l].defs \in Exports
    /\ loads[l].pc = "stored" /\ ~overlapped => loads[l].defs = loaded.defs

(* Without an overlap one rewrite is under way at a time, and the table     *)
(* serves what was loaded unless a load has still to be registered.         *)
RewritesOK ==
  ~overlapped =>
    /\ \A l, m \in Rewriting : l = m
    /\ Rewriting # {} => switching.pc # "begun"
    /\ switching.pc = "begun" => ToSet(switching.defs) \subseteq Serving(records)
    /\ (\A l \in DOMAIN loads : loads[l].pc # "stored") => Serving(records) = ToSet(loaded.defs)

(* A worker of other code than is on disk will be replaced. *)
WorkerOK == worker \in {0, source} \/ dirty \/ Active # {} \/ loaded.error

Inv == TypeOK /\ TableOK /\ BridgeOK /\ LoadsOK /\ RewritesOK /\ WorkerOK

-----------------------------------------------------------------------------
(* Definitions and records. *)

(* A non-empty set of numbers has a least one. *)
LEMMA Least ==
    ASSUME NEW T, T \subseteq Nat, T # {}
    PROVE  \E x \in T : \A y \in T : x <= y
<1>1. PICK x \in T : \A y \in T : ~(<<y, x>> \in OpToRel(<, Nat))
  BY WFMin, NatLessThanWellFounded
<1>2. \A y \in T : <<y, x>> \in OpToRel(<, Nat) <=> y < x
  BY DEF OpToRel
<1>3. \A y \in T : ~(y < x)
  BY <1>1, <1>2, Zenon
<1> QED
  BY <1>3

(* What a version exports: definitions, each under a name of its own. *)
LEMMA ExportFacts ==
    ASSUME NEW ds \in Exports
    PROVE  /\ ds \in Seq(Definitions)
           /\ \A i, j \in DOMAIN ds : ds[i].name = ds[j].name => i = j
<1>1. PICK v \in DOMAIN Sources : ds = Sources[v]
  BY DEF Exports
<1>2. ds \in Seq(ToSet(ds)) /\ ToSet(ds) \subseteq Definitions
  BY <1>1, SourcesAssumption DEF Definitions
<1>3. ds \in Seq(Definitions)
  <2>1. \A i \in 1 .. Len(ds) : ds[i] \in Definitions
    BY <1>2, ElementOfSeq
  <2>2. Len(ds) \in Nat /\ ds \in [1 .. Len(ds) -> ToSet(ds)]
    BY <1>2, LenProperties
  <2>3. ds \in [1 .. Len(ds) -> Definitions]
    BY <2>1, <2>2
  <2> QED
    BY <2>2, <2>3, SeqDef
<1> QED
  BY <1>1, <1>3, SourcesAssumption

(* NewRecord makes a record. *)
LEMMA NewRecordFacts ==
    ASSUME NEW d \in Definitions, NEW g \in Nat
    PROVE  /\ NewRecord(d, key_for(d, g)) \in Record
           /\ key_for(d, g)[1] = d.name /\ (IsEvent(d) => key_for(d, g)[2] # 0)
<1>1. Ignored(d) \in BOOLEAN
  BY DEF Ignored
<1>2. key_for(d, g) \in Names \X Nat /\ key_for(d, g)[1] = d.name
      /\ (IsEvent(d) => key_for(d, g)[2] # 0)
  BY DEF key_for, Names
<1> QED
  BY <1>1, <1>2 DEF NewRecord, Record

LEMMA RecordsFacts ==
    ASSUME NEW recs \in Seq(Record)
    PROVE  /\ Len(recs) \in Nat /\ DOMAIN recs = 1 .. Len(recs)
           /\ \A i \in DOMAIN recs : recs[i] \in Record
  BY LenProperties, ElementOfSeq

-----------------------------------------------------------------------------
(* The operations on the table. *)

(* disable_background changes no definition, key or registration. *)
LEMMA DisableKeeps ==
    ASSUME NEW recs, NEW b, Tabled(recs, b)
    PROVE  /\ Tabled(disable_background(recs), b)
           /\ Serving(disable_background(recs)) = Serving(recs)
<1> DEFINE off == disable_background(recs)
<1>1. recs \in Seq(Record)
  BY DEF Tabled
<1>2. /\ Len(recs) \in Nat /\ DOMAIN recs = 1 .. Len(recs)
      /\ \A i \in DOMAIN recs : recs[i] \in Record
  BY <1>1, RecordsFacts
<1>3. /\ DOMAIN off = DOMAIN recs
      /\ \A i \in DOMAIN recs :
           /\ off[i] \in Record
           /\ off[i].key = recs[i].key /\ off[i].def = recs[i].def
           /\ off[i].stale = recs[i].stale /\ off[i].ignored = recs[i].ignored
  BY <1>2 DEF disable_background, Record
<1>4. off \in Seq(Record)
  <2>1. off = [i \in 1 .. Len(recs) |-> off[i]]
    BY <1>2 DEF disable_background
  <2>2. off \in [1 .. Len(recs) -> Record]
    BY <2>1, <1>2, <1>3
  <2> QED
    BY <2>2, <1>2, SeqDef
<1> HIDE DEF off
<1>5. Deserving(off) = Deserving(recs) /\ Serving(off) = Serving(recs)
  BY <1>3 DEF Deserving, Serving, Live
<1>6. Tabled(off, b)
  BY <1>3, <1>4, <1>5 DEF Tabled
<1> QED
  BY <1>5, <1>6 DEF off

(* remove_codebase_except leaves only records with the keys to keep, and    *)
(* takes the others' registrations with them.                               *)
LEMMA RemoveKeeps ==
    ASSUME NEW recs, NEW b, Tabled(recs, b), NEW keep
    PROVE  LET t == remove_codebase_except([records |-> recs, bridge |-> b], keep)
           IN  /\ Tabled(t.records, t.bridge)
               /\ \A i \in DOMAIN t.records : t.records[i].stale \/ t.records[i].key \in keep
               /\ DOMAIN t.records = DOMAIN recs
               /\ \A i \in DOMAIN recs : /\ t.records[i].key = recs[i].key
                                         /\ t.records[i].def = recs[i].def
                                         /\ t.records[i].enabled = recs[i].enabled
                                         /\ t.records[i].ignored = recs[i].ignored
                                         /\ recs[i].key \in keep =>
                                              t.records[i].stale = recs[i].stale
<1> DEFINE t == remove_codebase_except([records |-> recs, bridge |-> b], keep)
           gone == {i \in DOMAIN recs : recs[i].key \notin keep /\ ~recs[i].stale}
           left == [i \in DOMAIN recs |-> IF i \in gone THEN [recs[i] EXCEPT !.stale = TRUE]
                                                        ELSE recs[i]]
<1>1. recs \in Seq(Record)
  BY DEF Tabled
<1>2. /\ Len(recs) \in Nat /\ DOMAIN recs = 1 .. Len(recs)
      /\ \A i \in DOMAIN recs : recs[i] \in Record
  BY <1>1, RecordsFacts
<1>3. /\ t.records = left
      /\ t.bridge = {x \in b : \A i \in gone : x \in unregister_side_effects(b, recs[i])}
  BY DEF remove_codebase_except
<1>4. /\ DOMAIN left = DOMAIN recs
      /\ \A i \in DOMAIN recs :
           /\ left[i] \in Record
           /\ left[i].key = recs[i].key /\ left[i].def = recs[i].def
           /\ left[i].ignored = recs[i].ignored /\ left[i].enabled = recs[i].enabled
           /\ left[i].stale <=> recs[i].stale \/ i \in gone
           /\ recs[i].key \in keep => left[i].stale = recs[i].stale
  BY <1>2 DEF Record
<1>5. left \in Seq(Record)
  <2>1. left \in [1 .. Len(recs) -> Record]
    BY <1>2, <1>4
  <2> QED
    BY <2>1, <1>2, SeqDef
<1> HIDE DEF t, left
<1>6. t.bridge = Deserving(left)
  <2>1. b = Deserving(recs) /\ \A i, j \in DOMAIN recs : recs[i].key = recs[j].key => i = j
    BY DEF Tabled
  <2>2. ASSUME NEW x \in t.bridge PROVE x \in Deserving(left)
    <3>1. x \in b /\ \A i \in gone : x \in unregister_side_effects(b, recs[i])
      BY <1>3
    <3>2. PICK i \in DOMAIN recs : /\ Live(recs[i]) /\ recs[i].def.service = "firestore"
                                   /\ x = Registration(recs[i].def, recs[i].key)
      BY <3>1, <2>1 DEF Deserving
    <3>3. i \notin gone
      <4>1. x.key = recs[i].key /\ x.platform = recs[i].def.platform
        BY <3>2 DEF Registration
      <4>2. x \notin unregister_side_effects(b, recs[i])
        BY <4>1, <3>2 DEF unregister_side_effects, Live
      <4> QED
        BY <4>2, <3>1
    <3>4. Live(left[i]) /\ left[i].def.service = "firestore" /\ x = Registration(left[i].def, left[i].key)
      BY <3>2, <3>3, <1>4 DEF Live
    <3> QED
      BY <3>4, <1>4 DEF Deserving
  <2>3. ASSUME NEW x \in Deserving(left) PROVE x \in t.bridge
    <3>1. PICK i \in DOMAIN left : /\ Live(left[i]) /\ left[i].def.service = "firestore"
                                   /\ x = Registration(left[i].def, left[i].key)
      BY DEF Deserving
    <3>2. Live(recs[i]) /\ i \notin gone /\ recs[i].def.service = "firestore"
          /\ x = Registration(recs[i].def, recs[i].key) /\ i \in DOMAIN recs
      BY <3>1, <1>4 DEF Live
    <3>3. x \in b
      BY <3>2, <2>1 DEF Deserving
    <3>4. ASSUME NEW j \in gone PROVE x \in unregister_side_effects(b, recs[j])
      <4>1. recs[j].key # recs[i].key
        BY <3>2, <2>1
      <4>2. x.key = recs[i].key
        BY <3>2 DEF Registration
      <4> QED
        BY <4>1, <4>2, <3>3 DEF unregister_side_effects
    <3> QED
      BY <3>3, <3>4, <1>3
  <2> QED
    BY <2>2, <2>3
<1>7. Tabled(left, t.bridge)
  BY <1>4, <1>5, <1>6 DEF Tabled
<1>8. \A i \in DOMAIN left : left[i].stale \/ left[i].key \in keep
  BY <1>4
<1> QED
  BY <1>3, <1>4, <1>7, <1>8 DEF t

(* What unregistering a key's record leaves: the other keys' registrations. *)
LEMMA Releases ==
    ASSUME NEW recs, NEW b, Tabled(recs, b), NEW k
    PROVE  Released([records |-> recs, bridge |-> b], k) = {x \in b : x.key # k}
<1> USE DEF Released
<1>1. b = Deserving(recs) /\ \A i, j \in DOMAIN recs : recs[i].key = recs[j].key => i = j
  BY DEF Tabled
<1>2. ASSUME NEW x \in b
      PROVE  \E i \in DOMAIN recs : /\ Live(recs[i]) /\ recs[i].def.service = "firestore"
                                    /\ x.key = recs[i].key /\ x.platform = recs[i].def.platform
  BY <1>1 DEF Deserving, Registration
<1>3. CASE k \notin Keys(recs)
  <2>1. \A x \in b : x.key # k
    BY <1>2, <1>3 DEF Keys
  <2> QED
    BY <2>1, <1>3
<1>4. CASE k \in Keys(recs)
  <2> DEFINE r == get(recs, k)
  <2>1. PICK n \in DOMAIN recs : n = IndexOf(recs, k) /\ recs[n].key = k
    BY <1>4 DEF IndexOf, Keys
  <2>2. r = recs[n]
    BY <2>1 DEF get
  <2>3. ASSUME NEW x \in b, x.key = k
        PROVE  ~r.ignored /\ r.def.service = "firestore" /\ x.platform = r.def.platform /\ r.key = k
    <3>1. PICK i \in DOMAIN recs : /\ Live(recs[i]) /\ recs[i].def.service = "firestore"
                                   /\ x.key = recs[i].key /\ x.platform = recs[i].def.platform
      BY <1>2
    <3>2. i = n
      BY <3>1, <2>1, <2>3, <1>1
    <3> QED
      BY <3>1, <3>2, <2>1, <2>2 DEF Live
  <2>4. r.key = k
    BY <2>1, <2>2
  <2> HIDE DEF r
  <2>5. unregister_side_effects(b, r) = {x \in b : x.key # k}
    BY <2>3, <2>4 DEF unregister_side_effects
  <2> QED
    BY <2>5, <1>4 DEF r
<1> QED
  BY <1>3, <1>4

(* One definition of register: its record is new, the others stay, and the  *)
(* bridge follows.                                                          *)
LEMMA RegistersOne ==
    ASSUME NEW t, Tabled(t.records, t.bridge), NEW d \in Definitions, NEW g \in Nat
    PROVE  LET k   == key_for(d, g)
               new == NewRecord(d, k)
               u   == RegisterOne(t, d, g)
           IN  /\ Tabled(u.records, u.bridge)
               /\ \A i \in DOMAIN t.records :
                    /\ i \in DOMAIN u.records
                    /\ t.records[i].key = k => u.records[i] = new
                    /\ t.records[i].key # k => u.records[i] = t.records[i]
               /\ \A i \in DOMAIN u.records : i \in DOMAIN t.records \/ u.records[i] = new
               /\ \E i \in DOMAIN u.records : u.records[i] = new
<1> DEFINE k == key_for(d, g)
           new == NewRecord(d, k)
           u == RegisterOne(t, d, g)
           recs == t.records
           b == t.bridge
           known == k \in Keys(recs)
           m == u.records
<1>1. recs \in Seq(Record) /\ b = Deserving(recs)
      /\ (\A i, j \in DOMAIN recs : recs[i].key = recs[j].key => i = j)
      /\ \A i \in DOMAIN recs : recs[i].key[1] = recs[i].def.name
                               /\ (IsEvent(recs[i].def) => recs[i].key[2] # 0)
  BY DEF Tabled
<1>2. /\ Len(recs) \in Nat /\ DOMAIN recs = 1 .. Len(recs)
      /\ \A i \in DOMAIN recs : recs[i] \in Record
  BY <1>1, RecordsFacts
<1>3. new \in Record /\ k[1] = d.name /\ (IsEvent(d) => k[2] # 0) /\ new.key = k /\ new.def = d
      /\ ~new.stale /\ new.ignored = Ignored(d)
  BY NewRecordFacts DEF NewRecord
<1>4. /\ m = IF known THEN [recs EXCEPT ![IndexOf(recs, k)] = new] ELSE Append(recs, new)
      /\ u.bridge = admit(Released([records |-> recs, bridge |-> b], k), d, k)
  BY DEF RegisterOne, Released
<1>5. u.bridge = admit({x \in b : x.key # k}, d, k)
  <2>1. Released([records |-> recs, bridge |-> b], k) = {x \in b : x.key # k}
    BY Releases
  <2> QED
    BY <2>1, <1>4
<1> HIDE DEF k, new, u
<1>6. /\ m \in Seq(Record)
      /\ \A i \in DOMAIN recs :
           /\ i \in DOMAIN m
           /\ recs[i].key = k => m[i] = new
           /\ recs[i].key # k => m[i] = recs[i]
      /\ \A i \in DOMAIN m : i \in DOMAIN recs \/ m[i] = new
      /\ \E i \in DOMAIN m : m[i] = new
      /\ \A i, j \in DOMAIN m : m[i] = new /\ m[j] = new => i = j
  <2>1. CASE ~known
    <3>1. m = Append(recs, new) /\ m \in Seq(Record) /\ Len(m) = Len(recs) + 1
          /\ m[Len(recs) + 1] = new /\ \A i \in 1 .. Len(recs) : m[i] = recs[i]
      BY <2>1, <1>1, <1>3, <1>4, AppendProperties
    <3>2. DOMAIN m = 1 .. Len(recs) + 1
      BY <3>1, RecordsFacts
    <3>3. \A i \in DOMAIN recs : recs[i].key # k
      BY <2>1 DEF Keys
    <3>4. \A i \in DOMAIN recs : m[i] # new
      BY <3>1, <3>3, <1>2, <1>3
    <3>5. \A i \in DOMAIN m : i \in DOMAIN recs \/ i = Len(recs) + 1
      BY <3>2, <1>2
    <3> QED
      BY <3>1, <3>2, <3>3, <3>4, <3>5, <1>2
  <2>2. CASE known
    <3>1. PICK n \in DOMAIN recs : n = IndexOf(recs, k) /\ recs[n].key = k
      BY <2>2 DEF IndexOf, Keys
    <3>2. m = [recs EXCEPT ![n] = new] /\ DOMAIN m = DOMAIN recs
      BY <3>1, <2>2, <1>4
    <3>3. m[n] = new /\ \A i \in DOMAIN recs : i # n => m[i] = recs[i]
      BY <3>2
    <3>4. m \in [1 .. Len(recs) -> Record]
      BY <3>2, <3>3, <1>1, <1>2, <1>3
    <3>5. m \in Seq(Record)
      BY <3>4, <1>2, SeqDef
    <3>6. \A i \in DOMAIN recs : recs[i].key = k <=> i = n
      BY <3>1, <1>1
    <3>7. \A i \in DOMAIN recs : m[i] = new => i = n
      BY <3>3, <3>6, <1>3
    <3> QED
      BY <3>1, <3>2, <3>3, <3>5, <3>6, <3>7
  <2> QED
    BY <2>1, <2>2
<1> HIDE DEF m
<1>7. \A i \in DOMAIN m : m[i] = new \/ (i \in DOMAIN recs /\ recs[i].key # k /\ m[i] = recs[i])
  BY <1>6
<1>8. /\ \A i, j \in DOMAIN m : m[i].key = m[j].key => i = j
      /\ \A i \in DOMAIN m : m[i].key[1] = m[i].def.name /\ (IsEvent(m[i].def) => m[i].key[2] # 0)
  BY <1>1, <1>3, <1>6, <1>7
<1>9. u.bridge = Deserving(m)
  <2> DEFINE kept == {x \in b : x.key # k}
             own == IF d.service = "firestore" /\ ~Ignored(d) THEN {Registration(d, k)} ELSE {}
  <2>1. u.bridge = kept \cup own
    BY <1>5 DEF admit, Registered, Registration
  <2>2. ASSUME NEW x \in Deserving(m) PROVE x \in kept \cup own
    <3>1. PICK i \in DOMAIN m : /\ Live(m[i]) /\ m[i].def.service = "firestore"
                                /\ x = Registration(m[i].def, m[i].key)
      BY DEF Deserving
    <3>2. CASE m[i] = new
      BY <3>1, <3>2, <1>3 DEF Live
    <3>3. CASE i \in DOMAIN recs /\ recs[i].key # k /\ m[i] = recs[i]
      <4>1. x \in b
        BY <3>1, <3>3, <1>1 DEF Deserving
      <4>2. x.key # k
        BY <3>1, <3>3 DEF Registration
      <4> QED
        BY <4>1, <4>2
    <3> QED
      BY <3>2, <3>3, <1>7
  <2>3. ASSUME NEW x \in kept PROVE x \in Deserving(m)
    <3>1. PICK i \in DOMAIN recs : /\ Live(recs[i]) /\ recs[i].def.service = "firestore"
                                   /\ x = Registration(recs[i].def, recs[i].key)
      BY <1>1 DEF Deserving
    <3>2. recs[i].key # k
      BY <3>1 DEF Registration
    <3>3. i \in DOMAIN m /\ m[i] = recs[i]
      BY <3>2, <1>6
    <3> QED
      BY <3>1, <3>3 DEF Deserving
  <2>4. ASSUME NEW x \in own PROVE x \in Deserving(m)
    <3>1. d.service = "firestore" /\ ~Ignored(d) /\ x = Registration(d, k)
      OBVIOUS
    <3>2. PICK i \in DOMAIN m : m[i] = new
      BY <1>6
    <3>3. Live(m[i]) /\ m[i].def = d /\ m[i].key = k
      BY <3>1, <3>2, <1>3 DEF Live
    <3> QED
      BY <3>1, <3>3 DEF Deserving
  <2> QED
    BY <2>1, <2>2, <2>3, <2>4
<1>10. Tabled(m, u.bridge)
  BY <1>6, <1>8, <1>9 DEF Tabled
<1> QED
  BY <1>6, <1>10 DEF k, new, u, m

(* The table register makes of its definitions, one by one. *)
LEMMA RoundsExist ==
    ASSUME NEW t, NEW ds, NEW g, Len(ds) \in Nat
    PROVE  LET f == Registering(t, ds, g)
           IN  /\ register(t, ds, g) = f[Len(ds)]
               /\ f[0] = t
               /\ \A n \in 1 .. Len(ds) : f[n] = RegisterOne(f[n - 1], ds[n], g)
<1> DEFINE Makes(f, n) == f = [i \in 0 .. n |-> IF i = 0 THEN t ELSE RegisterOne(f[i - 1], ds[i], g)]
           T == {n \in Nat : ~\E f : Makes(f, n)}
<1>1. T = {}
  <2> SUFFICES ASSUME T # {} PROVE FALSE
    OBVIOUS
  <2>1. PICK n \in T : \A y \in T : n <= y
    <3>1. T \subseteq Nat
      OBVIOUS
    <3> HIDE DEF T
    <3> QED
      BY <3>1, Least
  <2>2. n \in Nat
    OBVIOUS
  <2>3. CASE n = 0
    <3> DEFINE f == [i \in 0 .. n |-> t]
    <3>1. Makes(f, n)
      BY <2>3
    <3> QED
      BY <3>1, <2>1
  <2>4. CASE n # 0
    <3>1. n - 1 \in Nat /\ ~(n <= n - 1)
      BY <2>2, <2>4
    <3>2. n - 1 \notin T
      BY <2>1, <3>1
    <3>3. PICK f : Makes(f, n - 1)
      BY <3>1, <3>2
    <3>4. \A i \in 0 .. n - 1 : f[i] = IF i = 0 THEN t ELSE RegisterOne(f[i - 1], ds[i], g)
      BY <3>3
    <3> DEFINE h == [i \in 0 .. n |-> IF i = n THEN RegisterOne(f[n - 1], ds[n], g) ELSE f[i]]
    <3>5. \A i \in 0 .. n - 1 : h[i] = f[i]
      BY <2>2
    <3>6. \A i \in 0 .. n : h[i] = IF i = 0 THEN t ELSE RegisterOne(h[i - 1], ds[i], g)
      <4> SUFFICES ASSUME NEW i \in 0 .. n
                   PROVE  h[i] = IF i = 0 THEN t ELSE RegisterOne(h[i - 1], ds[i], g)
        OBVIOUS
      <4>1. CASE i = n
        <5>1. h[i] = RegisterOne(f[n - 1], ds[n], g) /\ h[n - 1] = f[n - 1]
          BY <4>1, <3>1, <3>5, <2>2
        <5> HIDE DEF h
        <5> QED
          BY <5>1, <4>1, <2>4
      <4>2. CASE i # n
        <5>1. i \in 0 .. n - 1 /\ (i # 0 => i - 1 \in 0 .. n - 1)
          BY <4>2, <2>2
        <5> HIDE DEF h
        <5>2. h[i] = f[i] /\ (i # 0 => h[i - 1] = f[i - 1])
          BY <5>1, <3>5
        <5> QED
          BY <5>1, <5>2, <3>4
      <4> QED
        BY <4>1, <4>2
    <3>7. Makes(h, n)
      <4>1. h = [i \in 0 .. n |-> h[i]]
        OBVIOUS
      <4> HIDE DEF h
      <4> QED
        BY <4>1, <3>6
    <3> QED
      BY <3>7, <2>1
  <2> QED
    BY <2>3, <2>4
<1>2. PICK f : Makes(f, Len(ds))
  BY <1>1
<1>3. Makes(Registering(t, ds, g), Len(ds))
  BY <1>2 DEF Registering
<1>4. register(t, ds, g) = Registering(t, ds, g)[Len(ds)]
  BY DEF register
<1> DEFINE r == Registering(t, ds, g)
<1> HIDE DEF r
<1>5. \A n \in 0 .. Len(ds) : r[n] = IF n = 0 THEN t ELSE RegisterOne(r[n - 1], ds[n], g)
  BY <1>3 DEF r
<1>6. 0 \in 0 .. Len(ds) /\ \A n \in 1 .. Len(ds) : n \in 0 .. Len(ds) /\ n # 0
  OBVIOUS
<1> QED
  BY <1>4, <1>5, <1>6 DEF r

(* The table u that the first n definitions make of t: records are theirs,  *)
(* or those of t with other keys; each has a record; places are kept.       *)
Made(ds, g, m) == NewRecord(ds[m], key_for(ds[m], g))
Folded(t, ds, g, n, u) ==
  /\ Tabled(u.records, u.bridge)
  /\ \A i \in DOMAIN u.records :
       \/ \E m \in 1 .. n : u.records[i] = Made(ds, g, m)
       \/ /\ i \in DOMAIN t.records /\ u.records[i] = t.records[i]
          /\ \A m \in 1 .. n : t.records[i].key # key_for(ds[m], g)
  /\ \A m \in 1 .. n : \E i \in DOMAIN u.records, j \in 1 .. n :
       u.records[i] = Made(ds, g, j) /\ key_for(ds[j], g) = key_for(ds[m], g)
  /\ \A i \in DOMAIN t.records : i \in DOMAIN u.records /\ u.records[i].key = t.records[i].key

LEMMA FoldStep ==
    ASSUME NEW t, NEW ds \in Seq(Definitions), NEW g \in Nat, NEW n \in 1 .. Len(ds), NEW v,
           Folded(t, ds, g, n - 1, v)
    PROVE  Folded(t, ds, g, n, RegisterOne(v, ds[n], g))
<1> DEFINE d == ds[n]
           k == key_for(d, g)
           new == NewRecord(d, k)
           u == RegisterOne(v, d, g)
<1>1. /\ Tabled(u.records, u.bridge)
      /\ \A i \in DOMAIN v.records :
           /\ i \in DOMAIN u.records
           /\ v.records[i].key = k => u.records[i] = new
           /\ v.records[i].key # k => u.records[i] = v.records[i]
      /\ \A i \in DOMAIN u.records : i \in DOMAIN v.records \/ u.records[i] = new
      /\ \E i \in DOMAIN u.records : u.records[i] = new
  <2>1. Tabled(v.records, v.bridge)
    BY DEF Folded
  <2>2. d \in Definitions
    BY ElementOfSeq
  <2> QED
    BY <2>1, <2>2, RegistersOne
<1>2. new = Made(ds, g, n) /\ new.key = k /\ k = key_for(ds[n], g)
  BY DEF Made, NewRecord
<1>3. n \in Nat /\ n \in 1 .. n /\ \A m \in 1 .. n : m = n \/ m \in 1 .. n - 1
  BY LenProperties
<1>4. \A m \in 1 .. n - 1 : m \in 1 .. n
  BY <1>3
<1>5. \A m \in 1 .. n : Made(ds, g, m).key = key_for(ds[m], g)
  BY DEF Made, NewRecord
<1> HIDE DEF u, k, new, d
<1>6. ASSUME NEW i \in DOMAIN u.records
      PROVE  \/ \E m \in 1 .. n : u.records[i] = Made(ds, g, m)
             \/ /\ i \in DOMAIN t.records /\ u.records[i] = t.records[i]
                /\ \A m \in 1 .. n : t.records[i].key # key_for(ds[m], g)
  <2>1. CASE u.records[i] = new
    BY <2>1, <1>2, <1>3
  <2>2. CASE u.records[i] # new
    <3>1. i \in DOMAIN v.records /\ v.records[i].key # k /\ u.records[i] = v.records[i]
      BY <2>2, <1>1
    <3>2. CASE \E m \in 1 .. n - 1 : v.records[i] = Made(ds, g, m)
      BY <3>1, <3>2, <1>4
    <3>3. CASE /\ i \in DOMAIN t.records /\ v.records[i] = t.records[i]
               /\ \A m \in 1 .. n - 1 : t.records[i].key # key_for(ds[m], g)
      BY <3>1, <3>3, <1>2, <1>3
    <3> QED
      BY <3>1, <3>2, <3>3 DEF Folded
  <2> QED
    BY <2>1, <2>2
<1>7. ASSUME NEW m \in 1 .. n
      PROVE  \E i \in DOMAIN u.records, j \in 1 .. n :
               u.records[i] = Made(ds, g, j) /\ key_for(ds[j], g) = key_for(ds[m], g)
  <2>1. PICK w \in DOMAIN u.records : u.records[w] = new
    BY <1>1
  <2>2. CASE m = n
    BY <2>1, <2>2, <1>2, <1>3
  <2>3. CASE m \in 1 .. n - 1
    <3>1. PICK i \in DOMAIN v.records, j \in 1 .. n - 1 :
            v.records[i] = Made(ds, g, j) /\ key_for(ds[j], g) = key_for(ds[m], g)
      BY <2>3 DEF Folded
    <3>2. CASE v.records[i].key = k
      <4>1. key_for(ds[m], g) = k
        BY <3>1, <3>2, <1>4, <1>5
      <4> QED
        BY <4>1, <2>1, <1>2, <1>3
    <3>3. CASE v.records[i].key # k
      BY <3>1, <3>3, <1>1, <1>4
    <3> QED
      BY <3>2, <3>3
  <2> QED
    BY <2>2, <2>3, <1>3
<1>8. ASSUME NEW i \in DOMAIN t.records
      PROVE  i \in DOMAIN u.records /\ u.records[i].key = t.records[i].key
  <2>1. i \in DOMAIN v.records /\ v.records[i].key = t.records[i].key
    BY DEF Folded
  <2> QED
    BY <2>1, <1>1, <1>2
<1>9. Tabled(u.records, u.bridge)
  BY <1>1
<1>10. Folded(t, ds, g, n, u)
  BY <1>6, <1>7, <1>8, <1>9 DEF Folded
<1> QED
  BY <1>10 DEF u, d

LEMMA Registers ==
    ASSUME NEW t, Tabled(t.records, t.bridge), NEW ds \in Seq(Definitions), NEW g \in Nat
    PROVE  /\ \A n \in 0 .. Len(ds) : Folded(t, ds, g, n, Registering(t, ds, g)[n])
           /\ Folded(t, ds, g, Len(ds), register(t, ds, g))
<1> DEFINE f == Registering(t, ds, g)
           T == {n \in 0 .. Len(ds) : ~Folded(t, ds, g, n, f[n])}
<1>1. Len(ds) \in Nat
  BY LenProperties
<1>2. /\ register(t, ds, g) = f[Len(ds)]
      /\ f[0] = t
      /\ \A n \in 1 .. Len(ds) : f[n] = RegisterOne(f[n - 1], ds[n], g)
  BY <1>1, RoundsExist
<1> HIDE DEF f
<1>3. T = {}
  <2> SUFFICES ASSUME T # {} PROVE FALSE
    OBVIOUS
  <2>1. PICK n \in T : \A y \in T : n <= y
    <3>1. T \subseteq Nat
      BY <1>1
    <3> HIDE DEF T
    <3> QED
      BY <3>1, Least
  <2>2. n \in 0 .. Len(ds) /\ ~Folded(t, ds, g, n, f[n])
    OBVIOUS
  <2>3. CASE n = 0
    <3>1. 1 .. n = {}
      BY <2>3
    <3>2. Folded(t, ds, g, n, t)
      BY <3>1 DEF Folded
    <3> QED
      BY <3>2, <2>2, <2>3, <1>2
  <2>4. CASE n # 0
    <3>1. n \in 1 .. Len(ds) /\ n - 1 \in 0 .. Len(ds) /\ ~(n <= n - 1)
      BY <2>2, <2>4, <1>1
    <3>2. n - 1 \notin T
      BY <3>1, <2>1
    <3>3. Folded(t, ds, g, n - 1, f[n - 1])
      BY <3>1, <3>2
    <3>4. Folded(t, ds, g, n, RegisterOne(f[n - 1], ds[n], g))
      BY <3>1, <3>3, FoldStep
    <3> QED
      BY <3>1, <3>4, <2>2, <1>2
  <2> QED
    BY <2>3, <2>4
<1>4. Len(ds) \in 0 .. Len(ds)
  BY <1>1
<1>5. \A n \in 0 .. Len(ds) : Folded(t, ds, g, n, f[n])
  BY <1>3
<1> QED
  BY <1>2, <1>4, <1>5 DEF f

(* After a reload the table serves what was read. *)
LEMMA ReloadServes ==
    ASSUME NEW recs, NEW b, Tabled(recs, b), NEW ds \in Exports, NEW g \in Nat
    PROVE  LET keep == {key_for(ds[i], g) : i \in DOMAIN ds}
               t == [records |-> recs, bridge |-> b]
               u == register(remove_codebase_except(t, keep), ds, g)
           IN  Tabled(u.records, u.bridge) /\ Serving(u.records) = ToSet(ds)
<1> DEFINE keep == {key_for(ds[i], g) : i \in DOMAIN ds}
           t == remove_codebase_except([records |-> recs, bridge |-> b], keep)
           u == register(t, ds, g)
<1>1. ds \in Seq(Definitions) /\ DOMAIN ds = 1 .. Len(ds)
      /\ \A i, j \in DOMAIN ds : ds[i].name = ds[j].name => i = j
  BY ExportFacts, LenProperties
<1>2. /\ Tabled(t.records, t.bridge)
      /\ \A i \in DOMAIN t.records : t.records[i].stale \/ t.records[i].key \in keep
  BY RemoveKeeps
<1> HIDE DEF t
<1>3. Folded(t, ds, g, Len(ds), u)
  BY <1>1, <1>2, Registers
<1>4. \A m \in DOMAIN ds : /\ Made(ds, g, m).def = ds[m] /\ ~Made(ds, g, m).stale
                           /\ key_for(ds[m], g)[1] = ds[m].name
  BY DEF Made, NewRecord, key_for
<1> HIDE DEF u
<1>5. ASSUME NEW i \in DOMAIN u.records, ~u.records[i].stale PROVE u.records[i].def \in ToSet(ds)
  <2>1. CASE \E m \in 1 .. Len(ds) : u.records[i] = Made(ds, g, m)
    BY <2>1, <1>1, <1>4 DEF ToSet
  <2>2. CASE /\ i \in DOMAIN t.records /\ u.records[i] = t.records[i]
             /\ \A m \in 1 .. Len(ds) : t.records[i].key # key_for(ds[m], g)
    BY <2>2, <1>1, <1>2, <1>5
  <2> QED
    BY <2>1, <2>2, <1>3 DEF Folded
<1>6. ASSUME NEW m \in DOMAIN ds
      PROVE  \E i \in DOMAIN u.records : ~u.records[i].stale /\ u.records[i].def = ds[m]
  <2>1. PICK i \in DOMAIN u.records, j \in DOMAIN ds :
          u.records[i] = Made(ds, g, j) /\ key_for(ds[j], g) = key_for(ds[m], g)
    <3>1. \E i \in DOMAIN u.records, j \in 1 .. Len(ds) :
            u.records[i] = Made(ds, g, j) /\ key_for(ds[j], g) = key_for(ds[m], g)
      BY <1>1, <1>3 DEF Folded
    <3> QED
      BY <3>1, <1>1
  <2>2. j = m
    BY <2>1, <1>1, <1>4
  <2> QED
    BY <2>1, <2>2, <1>4
<1>7. Serving(u.records) = ToSet(ds)
  BY <1>5, <1>6 DEF Serving, ToSet
<1>8. Tabled(u.records, u.bridge)
  BY <1>3 DEF Folded
<1> QED
  BY <1>7, <1>8 DEF u, t

(* Registering definitions again that the table serves, each the only one   *)
(* of its name, leaves it serving the same.                                 *)
LEMMA SwitchServes ==
    ASSUME NEW t, Tabled(t.records, t.bridge), NEW ds \in Seq(Definitions), NEW g \in Nat
    PROVE  LET u == register(t, ds, g)
           IN  /\ Tabled(u.records, u.bridge)
               /\ (/\ ToSet(ds) \subseteq Serving(t.records)
                   /\ \A d, e \in Serving(t.records) : d.name = e.name => d = e)
                  => Serving(u.records) = Serving(t.records)
<1> DEFINE u == register(t, ds, g)
<1>1. Folded(t, ds, g, Len(ds), u)
  BY Registers
<1> HIDE DEF u
<1>2. DOMAIN ds = 1 .. Len(ds)
  BY LenProperties
<1>3. \A m \in DOMAIN ds : /\ Made(ds, g, m).def = ds[m] /\ ~Made(ds, g, m).stale
                           /\ Made(ds, g, m).key[1] = ds[m].name
  BY DEF Made, NewRecord, key_for
<1>4. ASSUME /\ ToSet(ds) \subseteq Serving(t.records)
             /\ \A d, e \in Serving(t.records) : d.name = e.name => d = e
      PROVE  Serving(u.records) = Serving(t.records)
  <2>1. \A m \in DOMAIN ds : ds[m] \in Serving(t.records)
    BY <1>4 DEF ToSet
  <2>2. ASSUME NEW i \in DOMAIN u.records, ~u.records[i].stale
        PROVE  u.records[i].def \in Serving(t.records)
    <3>1. CASE \E m \in 1 .. Len(ds) : u.records[i] = Made(ds, g, m)
      BY <3>1, <2>1, <1>2, <1>3
    <3>2. CASE i \in DOMAIN t.records /\ u.records[i] = t.records[i]
      BY <3>2, <2>2 DEF Serving
    <3> QED
      BY <3>1, <3>2, <1>1 DEF Folded
  <2>3. ASSUME NEW i \in DOMAIN t.records, ~t.records[i].stale
        PROVE  t.records[i].def \in Serving(u.records)
    <3>1. i \in DOMAIN u.records /\ u.records[i].key = t.records[i].key
      BY <1>1 DEF Folded
    <3>2. CASE \E m \in 1 .. Len(ds) : u.records[i] = Made(ds, g, m)
      <4>1. PICK m \in DOMAIN ds : u.records[i] = Made(ds, g, m)
        BY <3>2, <1>2
      <4>2. t.records[i].def.name = ds[m].name
        BY <4>1, <3>1, <1>3 DEF Tabled
      <4>3. t.records[i].def \in Serving(t.records) /\ ds[m] \in Serving(t.records)
        BY <2>1, <2>3 DEF Serving
      <4>4. t.records[i].def = ds[m]
        BY <4>2, <4>3, <1>4
      <4> QED
        BY <4>1, <4>4, <3>1, <1>3 DEF Serving
    <3>3. CASE u.records[i] = t.records[i]
      BY <3>1, <3>3, <2>3 DEF Serving
    <3> QED
      BY <3>1, <3>2, <3>3, <1>1 DEF Folded
  <2>4. Serving(u.records) \subseteq Serving(t.records)
    BY <2>2 DEF Serving
  <2>5. Serving(t.records) \subseteq Serving(u.records)
    <3> SUFFICES ASSUME NEW d \in Serving(t.records) PROVE d \in Serving(u.records)
      OBVIOUS
    <3>1. PICK i \in DOMAIN t.records : ~t.records[i].stale /\ d = t.records[i].def
      BY DEF Serving
    <3> QED
      BY <3>1, <2>3
  <2> QED
    BY <2>4, <2>5
<1>5. Tabled(u.records, u.bridge)
  BY <1>1 DEF Folded
<1> QED
  BY <1>4, <1>5 DEF u

UpTo(K, i) == {j \in K : j <= i}

(* Every rank up to its size is that of an element of a set of numbers. *)
LEMMA Ranked ==
    ASSUME NEW top \in Nat, NEW K, K \subseteq 1 .. top, NEW n \in 1 .. Cardinality(K)
    PROVE  \E i \in K : Cardinality(UpTo(K, i)) = n
<1> DEFINE below(i) == {j \in K : j <= i}
           T == {i \in 0 .. top : Cardinality(below(i)) >= n}
<1>1. IsFiniteSet(K) /\ Cardinality(K) \in Nat
  <2>1. IsFiniteSet(1 .. top)
    BY FS_Interval
  <2> QED
    BY <2>1, FS_Subset, FS_CardinalityType
<1>2. \A i : IsFiniteSet(below(i)) /\ Cardinality(below(i)) \in Nat
  <2> SUFFICES ASSUME NEW i PROVE IsFiniteSet(below(i)) /\ Cardinality(below(i)) \in Nat
    OBVIOUS
  <2>1. below(i) \subseteq K
    OBVIOUS
  <2> HIDE DEF below
  <2> QED
    BY <2>1, <1>1, FS_Subset, FS_CardinalityType
<1>3. top \in T
  <2>1. \A j \in K : j <= top
    OBVIOUS
  <2>2. below(top) = K
    BY <2>1
  <2>3. Cardinality(K) >= n
    BY <1>1
  <2> HIDE DEF below
  <2> QED
    BY <2>2, <2>3
<1>4. PICK i \in T : \A y \in T : i <= y
  <2>1. T \subseteq Nat
    OBVIOUS
  <2> HIDE DEF T
  <2>2. T # {}
    BY <1>3
  <2> QED
    BY <2>1, <2>2, Least
<1>5. i # 0
  <2>1. below(0) = {}
    <3>1. \A j \in K : ~(j <= 0)
      OBVIOUS
    <3> QED
      BY <3>1
  <2>2. Cardinality(below(0)) = 0
    BY <2>1, FS_EmptySet
  <2>3. n >= 1 /\ ~(0 >= n)
    BY <1>1
  <2>4. Cardinality(below(i)) >= n
    BY <1>4
  <2> HIDE DEF below
  <2> QED
    BY <2>2, <2>3, <2>4
<1>6. i \in Nat /\ i - 1 \in 0 .. top /\ ~(i <= i - 1)
  BY <1>5
<1>7. ~(Cardinality(below(i - 1)) >= n) /\ Cardinality(below(i)) >= n
  <2>1. i - 1 \notin T
    BY <1>4, <1>6
  <2> HIDE DEF below
  <2> QED
    BY <2>1, <1>4, <1>6
<1>8. i \in K
  <2> SUFFICES ASSUME i \notin K PROVE FALSE
    OBVIOUS
  <2>1. \A j \in K : j <= i <=> j <= i - 1
    BY <1>6
  <2>2. below(i) = below(i - 1)
    BY <2>1
  <2> HIDE DEF below
  <2> QED
    BY <2>2, <1>7
<1>9. Cardinality(below(i)) = Cardinality(below(i - 1)) + 1
  <2>1. \A j \in K : j <= i <=> (j = i \/ j <= i - 1)
    BY <1>6
  <2>2. below(i) = below(i - 1) \cup {i} /\ i \notin below(i - 1)
    BY <2>1, <1>6, <1>8
  <2> HIDE DEF below
  <2> QED
    BY <2>2, <1>2, FS_AddElement
<1>10. Cardinality(below(i)) = n
  <2> HIDE DEF below
  <2>1. PICK p \in Nat : p = Cardinality(below(i - 1))
    BY <1>2
  <2>2. ~(p >= n) /\ p + 1 >= n
    BY <2>1, <1>7, <1>9
  <2>3. p + 1 = n
    BY <2>2, <1>1
  <2> QED
    BY <2>1, <2>3, <1>9
<1> QED
  BY <1>8, <1>10 DEF UpTo

(* Picked takes elements from the places it is given. *)
LEMMA PickedFacts ==
    ASSUME NEW S, NEW s \in Seq(S), NEW K, K \subseteq DOMAIN s
    PROVE  /\ Picked(s, K) \in Seq(S)
           /\ \A n \in DOMAIN Picked(s, K) : \E i \in K : Picked(s, K)[n] = s[i]
<1> DEFINE nth(n) == CHOOSE i \in K : Cardinality({j \in K : j <= i}) = n
           all == [n \in 1 .. Cardinality(K) |-> s[nth(n)]]
<1>1. Picked(s, K) = all
  BY DEF Picked
<1>2. Len(s) \in Nat /\ DOMAIN s = 1 .. Len(s) /\ \A i \in DOMAIN s : s[i] \in S
  BY LenProperties, ElementOfSeq
<1>3. Cardinality(K) \in Nat
  <2>1. IsFiniteSet(1 .. Len(s))
    BY <1>2, FS_Interval
  <2> QED
    BY <2>1, <1>2, FS_Subset, FS_CardinalityType
<1>4. ASSUME NEW n \in 1 .. Cardinality(K) PROVE nth(n) \in K
  <2>1. \E i \in K : Cardinality(UpTo(K, i)) = n
    BY <1>2, Ranked
  <2>2. \E i \in K : Cardinality({j \in K : j <= i}) = n
    BY <2>1 DEF UpTo
  <2> QED
    BY <2>2
<1> HIDE DEF nth
<1>5. \A n \in 1 .. Cardinality(K) : all[n] = s[nth(n)] /\ nth(n) \in K /\ all[n] \in S
  BY <1>2, <1>4
<1>6. all \in [1 .. Cardinality(K) -> S] /\ DOMAIN all = 1 .. Cardinality(K)
  BY <1>5
<1> HIDE DEF all
<1>7. all \in Seq(S)
  BY <1>3, <1>6, SeqDef
<1> QED
  BY <1>1, <1>5, <1>6, <1>7

(* What begin_reload collects, the table serves and has not enabled. *)
LEMMA PendingServed ==
    ASSUME NEW recs \in Seq(Record)
    PROVE  /\ begin_reload(recs) \in Seq(Definitions)
           /\ ToSet(begin_reload(recs)) \subseteq Serving(recs)
           /\ \A d \in ToSet(begin_reload(recs)) : \A i \in DOMAIN recs :
                recs[i].enabled /\ ~recs[i].stale => recs[i].def # d
<1> DEFINE needs(r) == /\ ~r.stale
                       /\ ~\E i \in DOMAIN recs : /\ recs[i].enabled
                                                  /\ ~recs[i].stale
                                                  /\ recs[i].def.entry = r.def.entry
                                                  /\ EventTrigger(recs[i].def) = EventTrigger(r.def)
           defs == [i \in DOMAIN recs |-> recs[i].def]
           first(i) == \A j \in 1..i - 1 : needs(recs[j]) => defs[j] /= defs[i]
           kept == {i \in DOMAIN recs : needs(recs[i]) /\ first(i)}
           all == Picked(defs, kept)
<1>1. begin_reload(recs) = all
  BY DEF begin_reload
<1>2. Len(recs) \in Nat /\ DOMAIN recs = 1 .. Len(recs) /\ \A i \in DOMAIN recs : recs[i] \in Record
  BY RecordsFacts
<1>3. \A i \in kept : i \in DOMAIN recs /\ ~recs[i].stale /\ defs[i] = recs[i].def /\ needs(recs[i])
  OBVIOUS
<1>4. defs \in Seq(Definitions) /\ DOMAIN defs = DOMAIN recs
  <2>1. \A i \in DOMAIN recs : recs[i].def \in Definitions
    BY <1>2 DEF Record
  <2>2. defs \in [1 .. Len(recs) -> Definitions]
    BY <2>1, <1>2
  <2> QED
    BY <2>2, <1>2, SeqDef
<1>5. kept \subseteq DOMAIN defs
  BY <1>4
<1> HIDE DEF kept, defs
<1>6. all \in Seq(Definitions) /\ \A n \in DOMAIN all : \E i \in kept : all[n] = defs[i]
  BY <1>4, <1>5, PickedFacts
<1> HIDE DEF all
<1>7. \A d \in ToSet(all) : \E i \in kept : d = defs[i]
  BY <1>6 DEF ToSet
<1>8. ToSet(all) \subseteq Serving(recs)
  BY <1>3, <1>7 DEF Serving
<1>9. \A d \in ToSet(all) : \A i \in DOMAIN recs : recs[i].enabled /\ ~recs[i].stale => recs[i].def # d
  BY <1>3, <1>7
<1> QED
  BY <1>1, <1>6, <1>8, <1>9

-----------------------------------------------------------------------------
(* Sequences. *)

LEMMA SeqFacts ==
    ASSUME NEW S, NEW s \in Seq(S)
    PROVE  /\ Len(s) \in Nat /\ DOMAIN s = 1 .. Len(s)
           /\ \A i \in DOMAIN s : s[i] \in S
           /\ ToSet(s) \subseteq S
<1>1. Len(s) \in Nat /\ DOMAIN s = 1 .. Len(s) /\ \A i \in DOMAIN s : s[i] \in S
  BY LenProperties, ElementOfSeq
<1> QED
  BY <1>1 DEF ToSet

LEMMA ConcatFacts ==
    ASSUME NEW S, NEW s \in Seq(S), NEW t \in Seq(S)
    PROVE  /\ s \o t \in Seq(S) /\ Len(s \o t) = Len(s) + Len(t)
           /\ ToSet(s \o t) = ToSet(s) \cup ToSet(t)
           /\ \A i \in DOMAIN s : i \in DOMAIN (s \o t) /\ (s \o t)[i] = s[i]
           /\ \A i \in DOMAIN (s \o t) :
                i \in DOMAIN s \/ (i \notin DOMAIN s /\ \E j \in DOMAIN t : (s \o t)[i] = t[j])
<1> DEFINE c == s \o t
<1>1. /\ c \in Seq(S) /\ Len(c) = Len(s) + Len(t)
      /\ \A i \in 1 .. Len(s) + Len(t) : c[i] = IF i <= Len(s) THEN s[i] ELSE t[i - Len(s)]
  BY ConcatProperties
<1>2. /\ Len(s) \in Nat /\ DOMAIN s = 1 .. Len(s) /\ Len(t) \in Nat /\ DOMAIN t = 1 .. Len(t)
      /\ DOMAIN c = 1 .. Len(s) + Len(t)
  <2> HIDE DEF c
  <2> QED
    BY <1>1, SeqFacts
<1> HIDE DEF c
<1>3. \A i \in DOMAIN s : i \in DOMAIN c /\ c[i] = s[i]
  BY <1>1, <1>2
<1>4. \A i \in DOMAIN c : i \in DOMAIN s \/ (i \notin DOMAIN s /\ \E j \in DOMAIN t : c[i] = t[j])
  <2> SUFFICES ASSUME NEW i \in DOMAIN c, i \notin DOMAIN s PROVE \E j \in DOMAIN t : c[i] = t[j]
    OBVIOUS
  <2>1. i - Len(s) \in DOMAIN t /\ ~(i <= Len(s)) /\ i \in 1 .. Len(s) + Len(t)
    BY <1>2
  <2> QED
    BY <2>1, <1>1
<1>5. \A j \in DOMAIN t : \E i \in DOMAIN c : c[i] = t[j]
  <2> SUFFICES ASSUME NEW j \in DOMAIN t PROVE \E i \in DOMAIN c : c[i] = t[j]
    OBVIOUS
  <2>1. j + Len(s) \in DOMAIN c /\ ~(j + Len(s) <= Len(s)) /\ j + Len(s) - Len(s) = j
    BY <1>2
  <2>2. c[j + Len(s)] = t[j + Len(s) - Len(s)]
    BY <2>1, <1>1, <1>2
  <2> QED
    BY <2>1, <2>2
<1>6. ToSet(c) = ToSet(s) \cup ToSet(t)
  BY <1>3, <1>4, <1>5 DEF ToSet
<1> QED
  BY <1>1, <1>3, <1>4, <1>6 DEF c

LEMMA AppendFacts ==
    ASSUME NEW S, NEW s \in Seq(S), NEW e \in S
    PROVE  /\ Append(s, e) \in Seq(S) /\ Len(Append(s, e)) = Len(s) + 1
           /\ ToSet(Append(s, e)) = ToSet(s) \cup {e}
           /\ DOMAIN Append(s, e) = DOMAIN s \cup {Len(s) + 1} /\ Len(s) + 1 \notin DOMAIN s
           /\ \A i \in DOMAIN s : Append(s, e)[i] = s[i]
           /\ Append(s, e)[Len(s) + 1] = e
<1> DEFINE a == Append(s, e)
           n == Len(s) + 1
<1>1. /\ a \in Seq(S) /\ Len(a) = n
      /\ (\A i \in 1 .. Len(s) : a[i] = s[i]) /\ a[n] = e
  BY AppendProperties
<1> HIDE DEF a
<1>2. Len(s) \in Nat /\ DOMAIN s = 1 .. Len(s) /\ DOMAIN a = 1 .. n
  BY <1>1, SeqFacts
<1>3. DOMAIN a = DOMAIN s \cup {n} /\ n \notin DOMAIN s
  BY <1>2
<1>4. ToSet(a) = ToSet(s) \cup {e}
  <2> HIDE DEF n
  <2> QED
    BY <1>1, <1>2, <1>3 DEF ToSet
<1> QED
  BY <1>1, <1>2, <1>3, <1>4 DEF a

LEMMA TailFacts ==
    ASSUME NEW S, NEW s \in Seq(S), s # <<>>
    PROVE  /\ Head(s) \in S /\ Tail(s) \in Seq(S) /\ Len(s) = Len(Tail(s)) + 1
           /\ ToSet(s) = {Head(s)} \cup ToSet(Tail(s))
<1> DEFINE t == Tail(s)
<1>1. /\ Head(s) \in S /\ t \in Seq(S) /\ Len(t) = Len(s) - 1
      /\ \A i \in 1 .. Len(t) : t[i] = s[i + 1]
  BY HeadTailProperties
<1> HIDE DEF t
<1>2. Len(s) \in Nat /\ DOMAIN s = 1 .. Len(s) /\ Len(t) \in Nat /\ DOMAIN t = 1 .. Len(t)
      /\ Len(s) = Len(t) + 1
  BY <1>1, SeqFacts
<1>3. Head(s) = s[1] /\ 1 \in DOMAIN s
  BY <1>2
<1>4. \A i \in DOMAIN t : i + 1 \in DOMAIN s /\ t[i] = s[i + 1]
  BY <1>1, <1>2
<1>5. \A i \in DOMAIN s : i = 1 \/ \E j \in DOMAIN t : s[i] = t[j]
  <2> SUFFICES ASSUME NEW i \in DOMAIN s, i # 1 PROVE \E j \in DOMAIN t : s[i] = t[j]
    OBVIOUS
  <2>1. i - 1 \in DOMAIN t /\ i - 1 + 1 = i
    BY <1>2
  <2> QED
    BY <2>1, <1>4
<1>6. ToSet(s) = {Head(s)} \cup ToSet(t)
  BY <1>3, <1>4, <1>5 DEF ToSet
<1> QED
  BY <1>1, <1>2, <1>6 DEF t

-----------------------------------------------------------------------------
(* The bridge during a rewrite. *)

(* The record register makes of a definition. *)
LEMMA MadeFacts ==
    ASSUME NEW ds \in Seq(Definitions), NEW g \in Nat, NEW m \in DOMAIN ds
    PROVE  /\ Made(ds, g, m).key = key_for(ds[m], g) /\ Made(ds, g, m).def = ds[m]
           /\ Made(ds, g, m).enabled /\ ~Made(ds, g, m).stale
           /\ key_for(ds[m], g) = <<ds[m].name, IF IsEvent(ds[m]) THEN g + 1 ELSE 0>>
  BY DEF Made, NewRecord, key_for

(* After a reload a record is new, or as before and stale. *)
Reloaded(recs, b, ds, g) ==
  register(remove_codebase_except([records |-> recs, bridge |-> b],
                                  {key_for(ds[i], g) : i \in DOMAIN ds}), ds, g)

LEMMA ReloadShape ==
    ASSUME NEW recs, NEW b, Tabled(recs, b), NEW ds \in Exports, NEW g \in Nat
    PROVE  LET u == Reloaded(recs, b, ds, g)
           IN  /\ \A i \in DOMAIN u.records :
                    \/ \E m \in DOMAIN ds : u.records[i] = Made(ds, g, m)
                    \/ /\ i \in DOMAIN recs /\ u.records[i].stale
                       /\ u.records[i].key = recs[i].key /\ u.records[i].def = recs[i].def
                       /\ u.records[i].enabled = recs[i].enabled
               /\ \A i \in DOMAIN recs : i \in DOMAIN u.records /\ u.records[i].key = recs[i].key
<1> DEFINE keep == {key_for(ds[i], g) : i \in DOMAIN ds}
           t == remove_codebase_except([records |-> recs, bridge |-> b], keep)
           u == register(t, ds, g)
<1>1. ds \in Seq(Definitions) /\ DOMAIN ds = 1 .. Len(ds)
  BY ExportFacts, LenProperties
<1>2. /\ Tabled(t.records, t.bridge)
      /\ \A i \in DOMAIN t.records : t.records[i].stale \/ t.records[i].key \in keep
      /\ DOMAIN t.records = DOMAIN recs
      /\ \A i \in DOMAIN recs : /\ t.records[i].key = recs[i].key
                                /\ t.records[i].def = recs[i].def
                                /\ t.records[i].enabled = recs[i].enabled
  <2> HIDE DEF keep
  <2> QED
    BY RemoveKeeps
<1> HIDE DEF t
<1>3. Folded(t, ds, g, Len(ds), u)
  BY <1>1, <1>2, Registers
<1> HIDE DEF u
<1>4. ASSUME NEW i \in DOMAIN u.records, ~\E m \in DOMAIN ds : u.records[i] = Made(ds, g, m)
      PROVE  /\ i \in DOMAIN recs /\ u.records[i].stale
             /\ u.records[i].key = recs[i].key /\ u.records[i].def = recs[i].def
             /\ u.records[i].enabled = recs[i].enabled
  <2>1. /\ i \in DOMAIN t.records /\ u.records[i] = t.records[i]
        /\ \A m \in 1 .. Len(ds) : t.records[i].key # key_for(ds[m], g)
    BY <1>1, <1>3, <1>4 DEF Folded
  <2>2. t.records[i].key \notin keep
    BY <2>1, <1>1
  <2> QED
    BY <2>1, <2>2, <1>2
<1>5. \A i \in DOMAIN recs : i \in DOMAIN u.records /\ u.records[i].key = recs[i].key
  BY <1>2, <1>3 DEF Folded
<1> QED
  BY <1>4, <1>5 DEF u, t, Reloaded

(* What records call for is finite, and names keys they have. *)
LEMMA Deserves ==
    ASSUME NEW recs, Tabled(recs, Deserving(recs))
    PROVE  /\ Deserving(recs) \subseteq Registrations /\ IsFiniteSet(Deserving(recs))
           /\ \A x \in Deserving(recs) : x.key[2] # 0 /\ \E i \in DOMAIN recs : recs[i].key = x.key
           /\ \A x, y \in Deserving(recs) : x.key = y.key => x = y
           /\ \A i \in DOMAIN recs : \A x \in Deserving(recs) : x.key = recs[i].key =>
                /\ Live(recs[i]) /\ recs[i].def.service = "firestore"
                /\ x = Registration(recs[i].def, recs[i].key)
<1> DEFINE places == {i \in DOMAIN recs : Live(recs[i]) /\ recs[i].def.service = "firestore"}
           reg == [i \in places |-> Registration(recs[i].def, recs[i].key)]
           all == Deserving(recs)
<1>1. /\ recs \in Seq(Record)
      /\ \A i, j \in DOMAIN recs : recs[i].key = recs[j].key => i = j
      /\ \A i \in DOMAIN recs : IsEvent(recs[i].def) => recs[i].key[2] # 0
  BY DEF Tabled
<1>2. Len(recs) \in Nat /\ DOMAIN recs = 1 .. Len(recs) /\ \A i \in DOMAIN recs : recs[i] \in Record
  BY <1>1, RecordsFacts
<1>3. \A x \in all : \E i \in DOMAIN recs :
        /\ Live(recs[i]) /\ recs[i].def.service = "firestore"
        /\ x = Registration(recs[i].def, recs[i].key) /\ x.key = recs[i].key
  BY DEF Deserving, Registration
<1>4. IsFiniteSet(all)
  <2>1. IsFiniteSet(places)
    <3>1. places \subseteq 1 .. Len(recs) /\ IsFiniteSet(1 .. Len(recs))
      BY <1>2, FS_Interval
    <3> QED
      BY <3>1, FS_Subset
  <2>2. all = {reg[i] : i \in places}
    BY DEF Deserving
  <2>3. reg \in Surjection(places, all)
    <3>1. reg \in [places -> all] /\ \A x \in all : \E i \in places : reg[i] = x
      <4>1. DOMAIN reg = places /\ reg = [i \in places |-> reg[i]]
        OBVIOUS
      <4> HIDE DEF reg, all
      <4> QED
        BY <2>2, <4>1
    <3> HIDE DEF reg, places, all
    <3> QED
      BY <3>1 DEF Surjection
  <2> HIDE DEF reg, places, all
  <2> QED
    BY <2>1, <2>3, FS_Surjection
<1>5. all \subseteq Registrations
  <2>1. \A i \in DOMAIN recs : recs[i].def \in Definitions /\ recs[i].key \in Names \X Nat
    BY <1>2 DEF Record
  <2> QED
    BY <2>1, <1>3 DEF Registrations
<1>6. \A x \in all : x.key[2] # 0 /\ \E i \in DOMAIN recs : recs[i].key = x.key
  <2>1. \A i \in DOMAIN recs : recs[i].def.service = "firestore" => IsEvent(recs[i].def)
    BY DEF IsEvent
  <2> QED
    BY <2>1, <1>1, <1>3
<1>7. \A i \in DOMAIN recs : \A x \in all : x.key = recs[i].key =>
        /\ Live(recs[i]) /\ recs[i].def.service = "firestore"
        /\ x = Registration(recs[i].def, recs[i].key)
  BY <1>1, <1>3
<1>8. \A x, y \in all : x.key = y.key => x = y
  BY <1>3, <1>7
<1> QED
  BY <1>4, <1>5, <1>6, <1>7, <1>8

(* Less than the records call for, but with keys that others have too. *)
LEMMA PassingBelow ==
    ASSUME NEW recs, Tabled(recs, Deserving(recs)), NEW b, b \subseteq Deserving(recs),
           NEW more, \A i \in DOMAIN recs : \E j \in DOMAIN more : more[j].key = recs[i].key
    PROVE  Passing(b, more) /\ b \in SUBSET Registrations
<1>1. /\ Deserving(recs) \subseteq Registrations /\ IsFiniteSet(Deserving(recs))
      /\ \A x \in Deserving(recs) : x.key[2] # 0 /\ \E i \in DOMAIN recs : recs[i].key = x.key
  BY Deserves
<1>2. IsFiniteSet(b)
  BY <1>1, FS_Subset
<1> QED
  BY <1>1, <1>2 DEF Passing

(* A registration that a table has before and after all definitions, it has *)
(* after any number of them, if one key has one definition.                 *)
LEMMA FoldKeeps ==
    ASSUME NEW t, Tabled(t.records, t.bridge), NEW ds \in Seq(Definitions), NEW g \in Nat,
           \A i, j \in DOMAIN ds : key_for(ds[i], g) = key_for(ds[j], g) => ds[i] = ds[j],
           NEW n \in 0 .. Len(ds), NEW v, Folded(t, ds, g, n, v),
           NEW u, Folded(t, ds, g, Len(ds), u),
           NEW x \in t.bridge, x \in Deserving(u.records)
    PROVE  x \in v.bridge
<1>1. /\ Tabled(u.records, Deserving(u.records)) /\ Tabled(t.records, Deserving(t.records))
      /\ v.bridge = Deserving(v.records) /\ t.bridge = Deserving(t.records)
  BY DEF Folded, Tabled
<1>2. Len(ds) \in Nat /\ DOMAIN ds = 1 .. Len(ds) /\ 1 .. n \subseteq DOMAIN ds
  BY LenProperties
<1>3. PICK i \in DOMAIN t.records : /\ Live(t.records[i]) /\ t.records[i].def.service = "firestore"
                                    /\ x = Registration(t.records[i].def, t.records[i].key)
  BY <1>1 DEF Deserving
<1>4. x.key = t.records[i].key
  BY <1>3 DEF Registration
<1>5. /\ i \in DOMAIN u.records /\ u.records[i].key = x.key
      /\ i \in DOMAIN v.records /\ v.records[i].key = x.key
  BY <1>4 DEF Folded
<1>6. /\ Live(u.records[i]) /\ u.records[i].def.service = "firestore"
      /\ x = Registration(u.records[i].def, u.records[i].key)
  BY <1>1, <1>5, Deserves
<1>7. CASE \E m \in 1 .. n : v.records[i] = Made(ds, g, m)
  <2>1. PICK m \in DOMAIN ds : v.records[i] = Made(ds, g, m)
    BY <1>2, <1>7
  <2>2. Made(ds, g, m).key = key_for(ds[m], g)
    BY DEF Made, NewRecord
  <2>3. u.records[i] = Made(ds, g, m)
    <3>1. t.records[i].key = key_for(ds[m], g)
      BY <2>1, <2>2, <1>4, <1>5
    <3>2. \E j \in DOMAIN ds : u.records[i] = Made(ds, g, j)
      <4>1. \/ \E j \in 1 .. Len(ds) : u.records[i] = Made(ds, g, j)
            \/ \A j \in 1 .. Len(ds) : t.records[i].key # key_for(ds[j], g)
        BY <1>5 DEF Folded
      <4> QED
        BY <4>1, <3>1, <1>2
    <3>3. PICK j \in DOMAIN ds : u.records[i] = Made(ds, g, j)
      BY <3>2
    <3>4. Made(ds, g, j).key = key_for(ds[j], g)
      BY DEF Made, NewRecord
    <3>5. ds[j] = ds[m]
      BY <3>1, <3>3, <3>4, <1>4, <1>5
    <3> QED
      BY <3>3, <3>5 DEF Made
  <2> QED
    BY <2>1, <2>3, <1>1, <1>5, <1>6 DEF Deserving
<1>8. CASE v.records[i] = t.records[i]
  BY <1>8, <1>1, <1>3, <1>5 DEF Deserving
<1> QED
  BY <1>5, <1>7, <1>8 DEF Folded

(* register: what the bridge passes through lacks at most one registration  *)
(* that it has before and after.                                            *)
LEMMA RegisterPassing ==
    ASSUME NEW t, Tabled(t.records, t.bridge), t = [records |-> t.records, bridge |-> t.bridge],
           NEW ds \in Seq(Definitions), NEW g \in Nat
    PROVE  LET u == register(t, ds, g)
               bs == RegisterPasses(t, ds, g)
           IN  /\ bs \in Seq(SUBSET Registrations)
               /\ \A m \in DOMAIN bs :
                    /\ Passing(bs[m], u.records)
                    /\ (\A i, j \in DOMAIN ds : key_for(ds[i], g) = key_for(ds[j], g) => ds[i] = ds[j])
                       => Gap(bs[m], u.records, t.bridge)
<1> DEFINE u == register(t, ds, g)
           bs == RegisterPasses(t, ds, g)
           after == Registering(t, ds, g)
           alone == \A i, j \in DOMAIN ds : key_for(ds[i], g) = key_for(ds[j], g) => ds[i] = ds[j]
<1>1. Len(ds) \in Nat /\ DOMAIN ds = 1 .. Len(ds)
  BY LenProperties
<1>2. /\ \A n \in 0 .. Len(ds) : Folded(t, ds, g, n, after[n])
      /\ Folded(t, ds, g, Len(ds), u)
  BY Registers
<1>3. /\ after[0] = t
      /\ \A n \in 1 .. Len(ds) : after[n] = RegisterOne(after[n - 1], ds[n], g)
  BY <1>1, RoundsExist
<1>4. \A n \in 0 .. Len(ds) : after[n] = [records |-> after[n].records, bridge |-> after[n].bridge]
  <2> SUFFICES ASSUME NEW n \in 0 .. Len(ds)
               PROVE  after[n] = [records |-> after[n].records, bridge |-> after[n].bridge]
    OBVIOUS
  <2>1. CASE n = 0
    BY <2>1, <1>3
  <2>2. CASE n # 0
    <3>1. n \in 1 .. Len(ds)
      BY <2>2, <1>1
    <3>2. after[n] = RegisterOne(after[n - 1], ds[n], g)
      BY <3>1, <1>3
    <3> HIDE DEF after
    <3> QED
      BY <3>2 DEF RegisterOne
  <2> QED
    BY <2>1, <2>2
<1>5. bs = [m \in 1 .. 2 * Len(ds) |->
              IF m % 2 = 1 THEN Released(after[m \div 2], key_for(ds[m \div 2 + 1], g))
                           ELSE after[m \div 2].bridge]
  BY DEF RegisterPasses
<1> HIDE DEF after, u, bs
<1>6. ASSUME NEW n \in 0 .. Len(ds)
      PROVE  /\ Tabled(after[n].records, after[n].bridge) /\ after[n].bridge = Deserving(after[n].records)
             /\ \A i \in DOMAIN after[n].records : \E j \in DOMAIN u.records :
                  u.records[j].key = after[n].records[i].key
  <2> DEFINE v == after[n]
  <2>1. Folded(t, ds, g, n, v) /\ 1 .. n \subseteq 1 .. Len(ds)
    BY <1>1, <1>2
  <2> HIDE DEF v
  <2>2. ASSUME NEW i \in DOMAIN v.records
        PROVE  \E j \in DOMAIN u.records : u.records[j].key = v.records[i].key
    <3>1. CASE \E m \in 1 .. n : v.records[i] = Made(ds, g, m)
      <4>1. PICK m \in 1 .. Len(ds) : v.records[i] = Made(ds, g, m)
        BY <3>1, <2>1
      <4>2. \A j \in 1 .. Len(ds) : Made(ds, g, j).key = key_for(ds[j], g)
        BY DEF Made, NewRecord
      <4> QED
        BY <4>1, <4>2, <1>2 DEF Folded
    <3>2. CASE i \in DOMAIN t.records /\ v.records[i] = t.records[i]
      BY <3>2, <1>2 DEF Folded
    <3> QED
      BY <3>1, <3>2, <2>1 DEF Folded
  <2>3. Tabled(v.records, v.bridge)
    BY <2>1 DEF Folded
  <2> QED
    BY <2>2, <2>3 DEF v, Tabled
<1>7. ASSUME NEW m \in 1 .. 2 * Len(ds)
      PROVE  \E n \in 0 .. Len(ds) : \E k : bs[m] \in {after[n].bridge, {x \in after[n].bridge : x.key # k}}
  <2>1. m \div 2 \in 0 .. Len(ds)
    BY <1>1
  <2>2. CASE m % 2 # 1
    BY <2>1, <2>2, <1>5
  <2>3. CASE m % 2 = 1
    <3> DEFINE n == m \div 2
               k == key_for(ds[n + 1], g)
    <3>1. Tabled(after[n].records, after[n].bridge)
          /\ after[n] = [records |-> after[n].records, bridge |-> after[n].bridge]
      BY <2>1, <1>4, <1>6
    <3>2. Released(after[n], k) = {x \in after[n].bridge : x.key # k}
      <4> HIDE DEF n, k
      <4> DEFINE r == after[n].records
                 b == after[n].bridge
      <4>1. Tabled(r, b) /\ after[n] = [records |-> r, bridge |-> b]
        BY <3>1
      <4> HIDE DEF r, b
      <4>2. Released([records |-> r, bridge |-> b], k) = {x \in b : x.key # k}
        BY <4>1, Releases
      <4> QED
        BY <4>1, <4>2 DEF b
    <3>3. bs[m] = Released(after[n], k)
      BY <2>3, <1>5
    <3> QED
      BY <2>1, <3>2, <3>3
  <2> QED
    BY <2>2, <2>3
<1>8. ASSUME NEW m \in 1 .. 2 * Len(ds)
      PROVE  /\ bs[m] \in SUBSET Registrations /\ Passing(bs[m], u.records)
             /\ alone => Gap(bs[m], u.records, t.bridge)
  <2>0. PICK n \in 0 .. Len(ds) : \E k : bs[m] \in {after[n].bridge, {x \in after[n].bridge : x.key # k}}
    BY <1>7
  <2>1. PICK k : bs[m] \in {after[n].bridge, {x \in after[n].bridge : x.key # k}}
    BY <2>0
  <2> DEFINE v == after[n]
  <2>2. /\ Tabled(v.records, Deserving(v.records)) /\ v.bridge = Deserving(v.records)
        /\ \A i \in DOMAIN v.records : \E j \in DOMAIN u.records : u.records[j].key = v.records[i].key
        /\ Folded(t, ds, g, n, v)
    <3>1. /\ Tabled(v.records, v.bridge) /\ v.bridge = Deserving(v.records)
          /\ \A i \in DOMAIN v.records : \E j \in DOMAIN u.records : u.records[j].key = v.records[i].key
      BY <1>6
    <3> QED
      BY <3>1, <1>2
  <2>3. bs[m] \subseteq v.bridge /\ \A x \in v.bridge \ bs[m] : x.key = k
    BY <2>1
  <2> HIDE DEF v
  <2>4. Passing(bs[m], u.records) /\ bs[m] \in SUBSET Registrations
    <3> DEFINE r == v.records
               q == u.records
               c == bs[m]
    <3>1. /\ c \subseteq Deserving(r) /\ Tabled(r, Deserving(r))
          /\ \A i \in DOMAIN r : \E j \in DOMAIN q : q[j].key = r[i].key
      BY <2>2, <2>3
    <3> HIDE DEF r, q, c
    <3>2. Passing(c, q) /\ c \in SUBSET Registrations
      BY <3>1, PassingBelow
    <3> QED
      BY <3>2 DEF q, c
  <2>5. ASSUME alone PROVE Gap(bs[m], u.records, t.bridge)
    <3>1. \A x \in t.bridge \cap Deserving(u.records) : x \in v.bridge
      BY <2>2, <2>5, <1>2, FoldKeeps
    <3>2. \A x, y \in Deserving(u.records) : x.key = y.key => x = y
      <4>1. Tabled(u.records, Deserving(u.records))
        BY <1>2 DEF Folded, Tabled
      <4> QED
        BY <4>1, Deserves
    <3> QED
      BY <3>1, <3>2, <2>3 DEF Gap
  <2> QED
    BY <2>4, <2>5
<1>9. bs \in Seq(SUBSET Registrations) /\ DOMAIN bs = 1 .. 2 * Len(ds)
  <2>1. DOMAIN bs = 1 .. 2 * Len(ds) /\ bs = [m \in 1 .. 2 * Len(ds) |-> bs[m]]
    BY <1>5
  <2>2. bs \in [1 .. 2 * Len(ds) -> SUBSET Registrations]
    BY <2>1, <1>8
  <2>3. 2 * Len(ds) \in Nat
    BY <1>1
  <2> QED
    BY <2>1, <2>2, <2>3, SeqDef
<1> QED
  BY <1>8, <1>9 DEF u, bs

(* A reload: removals take nothing that is registered again. *)
LEMMA ReloadPassing ==
    ASSUME NEW recs, NEW b, Tabled(recs, b), NEW ds \in Exports, NEW g \in Nat
    PROVE  LET keep == {key_for(ds[i], g) : i \in DOMAIN ds}
               whole == [records |-> recs, bridge |-> b]
               u == Reloaded(recs, b, ds, g)
               bs == RemovalPasses(whole, keep) \o RegisterPasses(remove_codebase_except(whole, keep), ds, g)
           IN  /\ bs \in Seq(SUBSET Registrations)
               /\ \A m \in DOMAIN bs : Passing(bs[m], u.records) /\ Gap(bs[m], u.records, b)
<1> DEFINE keep == {key_for(ds[i], g) : i \in DOMAIN ds}
           whole == [records |-> recs, bridge |-> b]
           without(more) == remove_codebase_except(whole, more)
           t == without(keep)
           u == register(t, ds, g)
           S == SUBSET Registrations
           first == RemovalPasses(whole, keep)
           second == RegisterPasses(t, ds, g)
<1>1. /\ ds \in Seq(Definitions) /\ DOMAIN ds = 1 .. Len(ds)
      /\ \A i, j \in DOMAIN ds : ds[i].name = ds[j].name => i = j
  BY ExportFacts, LenProperties
<1>2. \A i, j \in DOMAIN ds : key_for(ds[i], g) = key_for(ds[j], g) => ds[i] = ds[j]
  <2>1. \A i \in DOMAIN ds : key_for(ds[i], g)[1] = ds[i].name
    BY DEF key_for
  <2> QED
    BY <2>1, <1>1
<1>3. /\ recs \in Seq(Record) /\ b = Deserving(recs)
      /\ \A i, j \in DOMAIN recs : recs[i].key = recs[j].key => i = j
  BY DEF Tabled
<1>4. Len(recs) \in Nat /\ DOMAIN recs = 1 .. Len(recs)
  BY <1>3, RecordsFacts
<1>5. ASSUME NEW more
      PROVE  /\ Tabled(without(more).records, without(more).bridge)
             /\ DOMAIN without(more).records = DOMAIN recs
             /\ \A i \in DOMAIN recs :
                  /\ without(more).records[i].key = recs[i].key
                  /\ without(more).records[i].def = recs[i].def
                  /\ without(more).records[i].ignored = recs[i].ignored
                  /\ recs[i].key \in more => without(more).records[i].stale = recs[i].stale
  BY RemoveKeeps
<1>6. t = [records |-> t.records, bridge |-> t.bridge]
  BY DEF remove_codebase_except
<1> HIDE DEF without, keep
<1>7. Tabled(t.records, t.bridge) /\ Folded(t, ds, g, Len(ds), u)
  <2>1. Tabled(t.records, t.bridge)
    BY <1>5
  <2> HIDE DEF t
  <2> QED
    BY <2>1, <1>1, Registers
<1>8. /\ second \in Seq(S)
      /\ \A m \in DOMAIN second : Passing(second[m], u.records) /\ Gap(second[m], u.records, t.bridge)
  <2> HIDE DEF t
  <2> QED
    BY <1>1, <1>2, <1>6, <1>7, RegisterPassing
<1>9. Tabled(u.records, Deserving(u.records))
  BY <1>7 DEF Folded, Tabled
<1>10. \A i \in DOMAIN u.records :
        \/ \E m \in DOMAIN ds : u.records[i] = Made(ds, g, m)
        \/ u.records[i].stale
  <2>1. u = Reloaded(recs, b, ds, g)
    BY DEF Reloaded, keep, without
  <2> HIDE DEF u
  <2> QED
    BY <2>1, ReloadShape
<1>11. \A i \in DOMAIN t.records : i \in DOMAIN u.records /\ u.records[i].key = t.records[i].key
  BY <1>7 DEF Folded
<1> HIDE DEF u, t
<1>12. ASSUME NEW x \in b, x \in Deserving(u.records), NEW more, keep \subseteq more
       PROVE  x \in without(more).bridge
  <2> DEFINE v == without(more)
  <2>1. PICK i \in DOMAIN recs : /\ Live(recs[i]) /\ recs[i].def.service = "firestore"
                                 /\ x = Registration(recs[i].def, recs[i].key)
    BY <1>3 DEF Deserving
  <2>2. x.key = recs[i].key
    BY <2>1 DEF Registration
  <2>3. i \in DOMAIN u.records /\ u.records[i].key = x.key
    BY <2>2, <1>5, <1>11 DEF t
  <2>4. Live(u.records[i])
    <3> DEFINE q == u.records
    <3>1. Tabled(q, Deserving(q)) /\ x \in Deserving(q) /\ i \in DOMAIN q /\ x.key = q[i].key
      BY <2>3, <1>9, <1>12
    <3> HIDE DEF q
    <3>2. Live(q[i])
      BY <3>1, Deserves
    <3> QED
      BY <3>2 DEF q
  <2>5. PICK m \in DOMAIN ds : u.records[i] = Made(ds, g, m)
    BY <2>3, <2>4, <1>10 DEF Live
  <2>6. x.key \in keep
    BY <2>3, <2>5 DEF keep, Made, NewRecord
  <2>7. /\ i \in DOMAIN v.records /\ v.records[i].key = recs[i].key /\ v.records[i].def = recs[i].def
        /\ v.records[i].ignored = recs[i].ignored /\ v.records[i].stale = recs[i].stale
        /\ v.bridge = Deserving(v.records)
    BY <2>2, <2>6, <1>5, <1>12 DEF Tabled
  <2> HIDE DEF v
  <2>8. x \in v.bridge
    BY <2>1, <2>7 DEF Deserving, Live
  <2> QED
    BY <2>8 DEF v
<1>13. ASSUME NEW m \in DOMAIN second PROVE Passing(second[m], u.records) /\ Gap(second[m], u.records, b)
  <2>1. \A x \in b \cap Deserving(u.records) : x \in t.bridge
    BY <1>12 DEF t
  <2> QED
    BY <2>1, <1>8 DEF Gap
<1>14. ASSUME NEW i \in DOMAIN recs
       PROVE  /\ first[i] \in S /\ Passing(first[i], u.records) /\ Gap(first[i], u.records, b)
  <2> DEFINE more == keep \cup {recs[j].key : j \in {n \in DOMAIN recs : n > i}}
             v == without(more)
  <2>1. first[i] = v.bridge
    BY DEF RemovalPasses, without
  <2>2. keep \subseteq more
    OBVIOUS
  <2> HIDE DEF more, first
  <2>3. /\ Tabled(v.records, Deserving(v.records)) /\ v.bridge = Deserving(v.records)
        /\ DOMAIN v.records = DOMAIN recs /\ \A j \in DOMAIN recs : v.records[j].key = recs[j].key
    BY <1>5 DEF Tabled
  <2>4. \A j \in DOMAIN v.records : \E n \in DOMAIN u.records : u.records[n].key = v.records[j].key
    BY <2>3, <1>5, <1>11 DEF t
  <2>5. \A x \in b \cap Deserving(u.records) : x \in v.bridge
    BY <2>2, <1>12
  <2> HIDE DEF v
  <2>6. Passing(v.bridge, u.records) /\ v.bridge \in S
    <3> DEFINE r == v.records
               q == u.records
    <3>1. /\ Tabled(r, Deserving(r)) /\ v.bridge = Deserving(r)
          /\ \A j \in DOMAIN r : \E n \in DOMAIN q : q[n].key = r[j].key
      BY <2>3, <2>4
    <3> HIDE DEF r, q
    <3>2. Passing(Deserving(r), q) /\ Deserving(r) \in SUBSET Registrations
      BY <3>1, PassingBelow
    <3> QED
      BY <3>1, <3>2 DEF q
  <2>7. Gap(v.bridge, u.records, b)
    BY <2>5 DEF Gap
  <2> QED
    BY <2>1, <2>6, <2>7
<1>15. first \in Seq(S) /\ DOMAIN first = DOMAIN recs
  <2>1. DOMAIN first = DOMAIN recs /\ first = [i \in DOMAIN recs |-> first[i]]
    BY DEF RemovalPasses
  <2> HIDE DEF first
  <2>2. first \in [1 .. Len(recs) -> S]
    BY <2>1, <1>4, <1>14
  <2> QED
    BY <2>1, <2>2, <1>4, SeqDef
<1> HIDE DEF first, second, S
<1>16. /\ first \o second \in Seq(S)
       /\ \A m \in DOMAIN (first \o second) :
            Passing((first \o second)[m], u.records) /\ Gap((first \o second)[m], u.records, b)
  <2>1. /\ first \o second \in Seq(S)
        /\ \A i \in DOMAIN first : (first \o second)[i] = first[i]
        /\ \A i \in DOMAIN (first \o second) :
             i \in DOMAIN first \/ \E j \in DOMAIN second : (first \o second)[i] = second[j]
    BY <1>8, <1>15, ConcatFacts
  <2> QED
    BY <2>1, <1>13, <1>14, <1>15
<1> QED
  BY <1>16 DEF first, second, S, u, t, without, keep, Reloaded

(* A rewrite goes through the contents it was given and ends with the last. *)
Through(r, b, bs, c) ==
  /\ r.was = b /\ r.left \in Seq(Contents) /\ r.left # <<>>
  /\ r.left[Len(r.left)] = c
  /\ \A x \in ToSet(r.left) : x = c \/ \E i \in DOMAIN bs : x = bs[i]

LEMMA RewriteFacts ==
    ASSUME NEW b, NEW bs \in Seq(Contents), NEW c \in Contents
    PROVE  Through(Rewrite(b, bs, c), b, bs, c)
<1> DEFINE K == {i \in DOMAIN bs : bs[i] /= IF i = 1 THEN b ELSE bs[i - 1]}
           p == Picked(bs, K)
           r == Rewrite(b, bs, c)
           S == Contents
<1>7. bs \in Seq(S) /\ c \in S
  OBVIOUS
<1> HIDE DEF S
<1>1. r.was = b /\ r.left = Append(p, c)
  BY DEF Rewrite
<1>2. K \subseteq DOMAIN bs
  OBVIOUS
<1> HIDE DEF K
<1>3. p \in Seq(S) /\ \A n \in DOMAIN p : \E i \in K : p[n] = bs[i]
  BY <1>2, <1>7, PickedFacts
<1> HIDE DEF p, r
<1>4. /\ r.left \in Seq(S) /\ Len(r.left) = Len(p) + 1
      /\ ToSet(r.left) = ToSet(p) \cup {c} /\ r.left[Len(p) + 1] = c /\ Len(p) \in Nat
  BY <1>1, <1>3, <1>7, AppendFacts, SeqFacts
<1>5. r.left # <<>>
  BY <1>4
<1>6. \A x \in ToSet(p) : \E i \in DOMAIN bs : x = bs[i]
  BY <1>2, <1>3 DEF ToSet
<1> QED
  BY <1>1, <1>4, <1>5, <1>6 DEF S, r, Through

-----------------------------------------------------------------------------
(* The invariant. *)

(* A bridge that agrees with the table, nobody rewriting it. *)
LEMMA FreeBridge ==
    ASSUME NEW recs, Tabled(recs, Deserving(recs)), NEW was, NEW over
    PROVE  Bridged(Deserving(recs), recs, was, <<>>, over)
<1>1. <<>> \in Seq(SUBSET Registrations) /\ ToSet(<<>>) = {}
  BY EmptySeq DEF ToSet
<1>2. Passing(Deserving(recs), recs)
  BY Deserves DEF Passing
<1>3. Gap(Deserving(recs), recs, was)
  BY DEF Gap
<1> QED
  BY <1>1, <1>2, <1>3 DEF Bridged

(* A bridge that a rewrite of the table has before it. *)
LEMMA TakenBridge ==
    ASSUME NEW recs, NEW b, Tabled(recs, b), NEW more, Tabled(more, Deserving(more)),
           \A i \in DOMAIN recs : \E j \in DOMAIN more : more[j].key = recs[i].key,
           NEW bs \in Seq(SUBSET Registrations), NEW over,
           \A m \in DOMAIN bs : Passing(bs[m], more) /\ (~over => Gap(bs[m], more, b))
    PROVE  LET r == Rewrite(b, bs, Deserving(more))
           IN  Bridged(b, more, r.was, r.left, over)
<1> DEFINE c == Deserving(more)
<1> PICK r : r = Rewrite(b, bs, c)
  OBVIOUS
<1>1. c \in SUBSET Registrations /\ Passing(c, more)
  BY PassingBelow
<1>2. Passing(b, more)
  <2>1. b = Deserving(recs)
    BY DEF Tabled
  <2> QED
    BY <2>1, PassingBelow
<1>3. Gap(b, more, b) /\ Gap(c, more, b)
  BY DEF Gap
<1> HIDE DEF c
<1>7. bs \in Seq(Contents) /\ c \in Contents /\ Contents = SUBSET Registrations
  BY <1>1 DEF Contents
<1>8. Through(r, b, bs, c)
  BY <1>7, RewriteFacts
<1>4. /\ r.was = b /\ r.left \in Seq(SUBSET Registrations) /\ r.left # <<>>
      /\ r.left[Len(r.left)] = c
      /\ \A x \in ToSet(r.left) : x = c \/ \E i \in DOMAIN bs : x = bs[i]
  BY <1>7, <1>8 DEF Through
<1>5. ASSUME NEW x \in ToSet(r.left) \cup {b}
      PROVE  Passing(x, more) /\ (~over => Gap(x, more, b))
  BY <1>1, <1>2, <1>3, <1>4
<1>6. Bridged(b, more, r.was, r.left, over)
  BY <1>4, <1>5 DEF Bridged, c
<1> QED
  BY <1>6 DEF c

LEMMA FreeTable ==
    ASSUME Inv, RegistryFree
    PROVE  Tabled(records, bridge) /\ Table = [records |-> records, bridge |-> bridge]
  BY DEF Inv, TableOK, BridgeOK, Bridged, RegistryFree, Table

(* The codebase's first definitions make the first table. *)
LEMMA InitInv == Init => Inv
<1> SUFFICES ASSUME Init PROVE Inv
  OBVIOUS
<1> DEFINE empty == [records |-> <<>>, bridge |-> {}]
           u == register(empty, Sources[1], 0)
<1>1. 1 \in DOMAIN Sources /\ Sources[1] \in Exports
  BY SourcesAssumption DEF Exports
<1>2. Sources[1] \in Seq(Definitions) /\ DOMAIN Sources[1] = 1 .. Len(Sources[1])
      /\ \A i, j \in DOMAIN Sources[1] : Sources[1][i].name = Sources[1][j].name => i = j
  BY <1>1, ExportFacts, LenProperties
<1>3. Tabled(empty.records, empty.bridge)
  <2>1. <<>> \in Seq(Record) /\ DOMAIN <<>> = {}
    BY EmptySeq
  <2>2. Deserving(<<>>) = {}
    BY <2>1 DEF Deserving
  <2> QED
    BY <2>1, <2>2 DEF Tabled
<1>4. Tabled(u.records, u.bridge) /\ Serving(u.records) = ToSet(Sources[1])
  <2> DEFINE ds == Sources[1]
             keep == {key_for(ds[i], 0) : i \in DOMAIN ds}
             t == remove_codebase_except(empty, keep)
  <2>1. t = empty
    <3>1. DOMAIN <<>> = {}
      OBVIOUS
    <3> QED
      BY <3>1 DEF remove_codebase_except
  <2>2. Tabled(<<>>, {})
    BY <1>3
  <2>3. /\ Tabled(register(t, ds, 0).records, register(t, ds, 0).bridge)
        /\ Serving(register(t, ds, 0).records) = ToSet(ds)
    BY <2>2, <1>1, ReloadServes
  <2> QED
    BY <2>1, <2>3
<1>5. records = u.records /\ bridge = u.bridge
  BY DEF Init
<1> HIDE DEF u
<1>6. TypeOK
  <2>1. loads \in Seq(Load)
    BY EmptySeq DEF Init
  <2>2. switching \in [pc : {"idle", "begun", "registering", "registered", "disabled"}, defs : Seq(Definitions)]
    BY EmptySeq DEF Init
  <2>3. loaded \in [defs : Exports, error : BOOLEAN] /\ source \in DOMAIN Sources
        /\ generation \in Nat /\ dirty \in BOOLEAN /\ overlapped \in BOOLEAN
    BY <1>1 DEF Init
  <2> QED
    BY <2>1, <2>2, <2>3 DEF TypeOK
<1>7. loads = <<>> /\ DOMAIN loads = {} /\ loaded.defs = Sources[1] /\ switching.pc = "idle"
  BY DEF Init
<1>8. LoadsOK
  BY <1>7 DEF LoadsOK
<1>9. RewritesOK
  BY <1>4, <1>5, <1>7 DEF RewritesOK, Rewriting
<1>10. WorkerOK
  BY DEF Init, WorkerOK
<1>11. TableOK /\ bridge = Deserving(records)
  BY <1>4, <1>5 DEF TableOK, Tabled
<1>12. BridgeOK
  <2>1. rewrite.left = <<>>
    BY DEF Init, NoRewrite
  <2>2. Bridged(Deserving(records), records, rewrite.was, <<>>, overlapped)
    BY <1>11, FreeBridge DEF TableOK
  <2> QED
    BY <2>1, <2>2, <1>11 DEF BridgeOK
<1> QED
  BY <1>6, <1>8, <1>9, <1>10, <1>11, <1>12 DEF Inv

LEMMA LoadFacts ==
    ASSUME Inv
    PROVE  /\ loads \in Seq(Load) /\ Len(loads) \in Nat /\ DOMAIN loads = 1 .. Len(loads)
           /\ \A l \in DOMAIN loads : loads[l] \in Load
<1>1. loads \in Seq(Load)
  BY DEF Inv, TypeOK
<1> QED
  BY <1>1, LenProperties, ElementOfSeq

(* A reload's step keeps loads a sequence of loads. *)
LEMMA LoadSet ==
    ASSUME Inv, NEW l \in DOMAIN loads, NEW new \in Load, SetLoad(l, new)
    PROVE  /\ loads' \in Seq(Load) /\ DOMAIN loads' = DOMAIN loads /\ loads'[l] = new
           /\ \A m \in DOMAIN loads : m # l => loads'[m] = loads[m]
<1>1. loads \in Seq(Load) /\ Len(loads) \in Nat /\ DOMAIN loads = 1 .. Len(loads)
      /\ \A m \in DOMAIN loads : loads[m] \in Load
  BY LoadFacts
<1>2. loads' = [loads EXCEPT ![l] = new] /\ loads \in [1 .. Len(loads) -> Load]
  BY <1>1, LenProperties DEF SetLoad
<1>3. DOMAIN loads' = DOMAIN loads /\ loads'[l] = new
      /\ \A m \in DOMAIN loads : m # l => loads'[m] = loads[m]
  BY <1>1, <1>2
<1>4. loads' \in [1 .. Len(loads) -> Load]
  BY <1>2
<1> QED
  BY <1>1, <1>3, <1>4, SeqDef

(* EditSource: the watcher holds a notification. *)
LEMMA EditStep == Inv /\ EditSource => Inv'
<1> SUFFICES ASSUME Inv, EditSource PROVE Inv'
  OBVIOUS
<1>1. source' \in DOMAIN Sources /\ dirty' = TRUE
      /\ UNCHANGED <<tableVars, loads, switching, overlapped>>
  BY DEF EditSource, switchVars
<1>2. TypeOK'
  BY <1>1 DEF Inv, TypeOK, tableVars
<1>3. TableOK' /\ LoadsOK' /\ RewritesOK'
  BY <1>1 DEF Inv, TableOK, LoadsOK, RewritesOK, Rewriting, tableVars
<1>4. BridgeOK'
  BY <1>1 DEF Inv, BridgeOK, tableVars
<1> QED
  BY <1>1, <1>2, <1>3, <1>4 DEF Inv, WorkerOK

(* Debounced: the notification becomes a reload. *)
LEMMA DebouncedStep == Inv /\ Debounced => Inv'
<1> SUFFICES ASSUME Inv, Debounced PROVE Inv'
  OBVIOUS
<1> DEFINE new == [pc |-> "spawned", defs |-> <<>>]
           n == Len(loads) + 1
<1>1. /\ dirty' = FALSE /\ loads' = Append(loads, new)
      /\ UNCHANGED <<tableVars, source, switching, overlapped>>
  BY DEF Debounced, switchVars
<1>2. loads \in Seq(Load) /\ Len(loads) \in Nat /\ DOMAIN loads = 1 .. Len(loads) /\ new \in Load
  BY LoadFacts DEF Load
<1>3. /\ loads' \in Seq(Load) /\ Len(loads') = n /\ loads'[n] = new
      /\ \A l \in DOMAIN loads : loads'[l] = loads[l]
  BY <1>1, <1>2, AppendProperties
<1>4. DOMAIN loads' = 1 .. n /\ n \in DOMAIN loads'
      /\ \A l \in DOMAIN loads' : l = n \/ l \in DOMAIN loads
  BY <1>2, <1>3, LenProperties
<1>5. TypeOK'
  BY <1>1, <1>3 DEF Inv, TypeOK, tableVars
<1>6. TableOK' /\ BridgeOK'
  BY <1>1 DEF Inv, TableOK, BridgeOK, tableVars
<1>7. LoadsOK'
  BY <1>1, <1>3, <1>4 DEF Inv, LoadsOK, tableVars
<1>8. RewritesOK'
  <2>1. Rewriting' = Rewriting
    <3>1. \A l \in DOMAIN loads : l \in DOMAIN loads'
      BY <1>2, <1>4
    <3> QED
      BY <3>1, <1>3, <1>4 DEF Rewriting
  <2>2. (\A l \in DOMAIN loads' : loads'[l].pc # "stored") => \A l \in DOMAIN loads : loads[l].pc # "stored"
    BY <1>2, <1>3, <1>4
  <2> QED
    BY <2>1, <2>2, <1>1 DEF Inv, RewritesOK, tableVars
<1>9. WorkerOK'
  BY <1>3, <1>4 DEF WorkerOK, Active
<1> QED
  BY <1>5, <1>6, <1>7, <1>8, <1>9 DEF Inv

(* Discover: a second rewrite under way is an overlap. *)
LEMMA DiscoverStep ==
    ASSUME Inv, NEW l \in DOMAIN loads, Discover(l)
    PROVE  Inv'
<1>1. /\ loads[l].pc = "spawned"
      /\ UNCHANGED <<tableVars, source, dirty, switching, worker>>
      /\ overlapped' = (overlapped \/ Rewriting /= {} \/ switching.pc = "begun")
  BY DEF Discover, switchVars
<1>2. PICK new \in Load : /\ SetLoad(l, new)
                          /\ new.pc \in {"discovered", "failed"}
                          /\ new.pc = "discovered" => new.defs \in Exports
  <2>1. [pc |-> "discovered", defs |-> Sources[source]] \in Load /\ Sources[source] \in Exports
        /\ [pc |-> "failed", defs |-> <<>>] \in Load
    BY DEF Inv, TypeOK, Exports, Load
  <2> QED
    BY <2>1 DEF Discover
<1>3. /\ loads' \in Seq(Load) /\ DOMAIN loads' = DOMAIN loads /\ loads'[l] = new
      /\ \A m \in DOMAIN loads : m # l => loads'[m] = loads[m]
  BY <1>2, LoadSet
<1>4. overlapped' \in BOOLEAN /\ (~overlapped' => ~overlapped /\ Rewriting = {} /\ switching.pc # "begun")
  BY <1>1 DEF Inv, TypeOK
<1>5. TypeOK'
  BY <1>1, <1>3, <1>4 DEF Inv, TypeOK, tableVars
<1>10. TableOK'
  BY <1>1 DEF Inv, TableOK, tableVars
<1>6. BridgeOK'
  <2>1. Bridged(bridge, records, rewrite.was, rewrite.left, overlapped)
    BY DEF Inv, BridgeOK
  <2>2. Bridged(bridge, records, rewrite.was, rewrite.left, overlapped')
    BY <2>1, <1>4 DEF Bridged
  <2> QED
    BY <2>2, <1>1 DEF BridgeOK, tableVars
<1>7. LoadsOK'
  BY <1>1, <1>2, <1>3, <1>4 DEF Inv, LoadsOK, tableVars
<1>8. RewritesOK'
  <2> SUFFICES ASSUME ~overlapped' PROVE RewritesOK'
    BY DEF RewritesOK
  <2>1. Rewriting' \subseteq {l}
    BY <1>3, <1>4 DEF Rewriting
  <2>2. switching'.pc # "begun"
    BY <1>1, <1>4
  <2>3. \A m \in DOMAIN loads : loads[m].pc # "stored"
    BY <1>4 DEF Rewriting
  <2>4. Serving(records)' = ToSet(loaded'.defs)
    BY <2>3, <1>1, <1>4 DEF Inv, RewritesOK, tableVars
  <2> QED
    BY <2>1, <2>2, <2>4 DEF RewritesOK
<1>9. WorkerOK'
  <2>1. l \in Active'
    BY <1>2, <1>3 DEF Active
  <2> QED
    BY <2>1 DEF WorkerOK
<1> QED
  BY <1>5, <1>6, <1>7, <1>8, <1>9, <1>10 DEF Inv

(* StoreLoaded: what was discovered is loaded, and still to be registered. *)
LEMMA StoreStep ==
    ASSUME Inv, NEW l \in DOMAIN loads, StoreLoaded(l)
    PROVE  Inv'
<1>1. UNCHANGED <<records, generation, bridge, rewrite, source, dirty, switching, worker, overlapped>>
  BY DEF StoreLoaded, switchVars
<1>2. loads[l] \in Load
  BY LoadFacts
<1>3. loaded \in [defs : Exports, error : BOOLEAN]
  BY DEF Inv, TypeOK
<1>4. CASE loads[l].pc = "failed"
  <2> DEFINE new == [loads[l] EXCEPT !.pc = "done"]
  <2>1. new \in Load /\ new.pc = "done" /\ SetLoad(l, new)
        /\ loaded' = [loaded EXCEPT !.error = TRUE]
    BY <1>2, <1>4 DEF StoreLoaded, Load
  <2> HIDE DEF new
  <2>2. /\ loads' \in Seq(Load) /\ DOMAIN loads' = DOMAIN loads /\ loads'[l] = new
        /\ \A m \in DOMAIN loads : m # l => loads'[m] = loads[m]
    BY <2>1, LoadSet
  <2>3. loaded' \in [defs : Exports, error : BOOLEAN] /\ loaded'.defs = loaded.defs /\ loaded'.error
    BY <2>1, <1>3
  <2>4. TypeOK'
    BY <2>2, <2>3, <1>1 DEF Inv, TypeOK
  <2>5. TableOK' /\ BridgeOK'
    BY <1>1 DEF Inv, TableOK, BridgeOK
  <2>6. LoadsOK'
    BY <2>1, <2>2, <2>3, <1>1 DEF Inv, LoadsOK
  <2>7. RewritesOK'
    <3>1. Rewriting' = Rewriting
      BY <2>1, <2>2, <1>4 DEF Rewriting
    <3>2. (\A m \in DOMAIN loads' : loads'[m].pc # "stored") => \A m \in DOMAIN loads : loads[m].pc # "stored"
      BY <2>2, <1>4
    <3> QED
      BY <3>1, <3>2, <2>3, <1>1 DEF Inv, RewritesOK
  <2>8. WorkerOK'
    BY <2>3 DEF WorkerOK
  <2> QED
    BY <2>4, <2>5, <2>6, <2>7, <2>8 DEF Inv
<1>5. CASE loads[l].pc = "discovered"
  <2> DEFINE new == [loads[l] EXCEPT !.pc = "stored"]
  <2>1. new \in Load /\ new.pc = "stored" /\ new.defs = loads[l].defs /\ SetLoad(l, new)
        /\ loaded' = [defs |-> loads[l].defs, error |-> FALSE]
    BY <1>2, <1>5 DEF StoreLoaded, Load
  <2> HIDE DEF new
  <2>2. /\ loads' \in Seq(Load) /\ DOMAIN loads' = DOMAIN loads /\ loads'[l] = new
        /\ \A m \in DOMAIN loads : m # l => loads'[m] = loads[m]
    BY <2>1, LoadSet
  <2>3. loads[l].defs \in Exports
    BY <1>5 DEF Inv, LoadsOK
  <2>4. TypeOK'
    BY <2>1, <2>2, <2>3, <1>1 DEF Inv, TypeOK
  <2>5. TableOK' /\ BridgeOK'
    BY <1>1 DEF Inv, TableOK, BridgeOK
  <2>6. Rewriting' = Rewriting /\ l \in Rewriting
    BY <2>1, <2>2, <1>5 DEF Rewriting
  <2>7. LoadsOK'
    <3> SUFFICES ASSUME NEW m \in DOMAIN loads
                 PROVE  /\ loads'[m].pc \in {"discovered", "stored"} => loads'[m].defs \in Exports
                        /\ loads'[m].pc = "stored" /\ ~overlapped => loads'[m].defs = loaded'.defs
      BY <2>2, <1>1 DEF LoadsOK
    <3>1. CASE m = l
      BY <3>1, <2>1, <2>2, <2>3
    <3>2. CASE m # l
      <4>1. loads'[m].pc = "stored" => m \in Rewriting
        BY <3>2, <2>2 DEF Rewriting
      <4>2. loads'[m].pc = "stored" => overlapped
        BY <4>1, <3>2, <2>6 DEF Inv, RewritesOK
      <4> QED
        BY <4>2, <3>2, <2>2 DEF Inv, LoadsOK
    <3> QED
      BY <3>1, <3>2
  <2>8. RewritesOK'
    BY <2>1, <2>2, <2>6, <1>1 DEF Inv, RewritesOK
  <2>9. WorkerOK'
    <3>1. l \in Active'
      BY <2>1, <2>2 DEF Active
    <3> QED
      BY <3>1 DEF WorkerOK
  <2> QED
    BY <2>4, <2>5, <2>7, <2>8, <2>9 DEF Inv
<1> QED
  BY <1>4, <1>5 DEF StoreLoaded

(* RegisterLoaded: the table becomes the one of what was discovered. *)
LEMMA RegisterStep ==
    ASSUME Inv, NEW l \in DOMAIN loads, RegisterLoaded(l)
    PROVE  Inv'
<1> DEFINE ds == loads[l].defs
           keep == {key_for(ds[i], generation) : i \in DOMAIN ds}
           t == remove_codebase_except(Table, keep)
           u == register(t, ds, generation)
           bs == RemovalPasses(Table, keep) \o RegisterPasses(t, ds, generation)
           new == [loads[l] EXCEPT !.pc = "registering"]
<1>1. /\ loads[l].pc = "stored" /\ RegistryFree /\ records' = u.records /\ SetLoad(l, new)
      /\ rewrite' = Rewrite(bridge, bs, u.bridge)
      /\ UNCHANGED <<loaded, generation, bridge, source, dirty, switching, worker, overlapped>>
  BY DEF RegisterLoaded, switchVars
<1>2. loads[l] \in Load
  BY LoadFacts
<1>3. new \in Load /\ new.pc = "registering"
  BY <1>2 DEF Load
<1> HIDE DEF new
<1>4. /\ loads' \in Seq(Load) /\ DOMAIN loads' = DOMAIN loads /\ loads'[l] = new
      /\ \A m \in DOMAIN loads : m # l => loads'[m] = loads[m]
  BY <1>1, <1>3, LoadSet
<1>5. ds \in Exports /\ generation \in Nat /\ Tabled(records, bridge)
  BY <1>1, FreeTable DEF Inv, LoadsOK, TypeOK
<1>6. Tabled(u.records, u.bridge) /\ Serving(u.records) = ToSet(ds)
  BY <1>5, ReloadServes DEF Table
<1>12. u = Reloaded(records, bridge, ds, generation)
  BY DEF Table, Reloaded
<1>13. bs \in Seq(SUBSET Registrations)
       /\ \A m \in DOMAIN bs : Passing(bs[m], u.records) /\ Gap(bs[m], u.records, bridge)
  BY <1>5, <1>12, ReloadPassing DEF Table
<1>14. \A i \in DOMAIN records : i \in DOMAIN u.records /\ u.records[i].key = records[i].key
  BY <1>5, <1>12, ReloadShape
<1> HIDE DEF u, bs
<1>7. TypeOK'
  BY <1>1, <1>4 DEF Inv, TypeOK
<1>8. TableOK' /\ BridgeOK'
  <2> DEFINE more == u.records
  <2>1. Tabled(more, Deserving(more)) /\ u.bridge = Deserving(more)
    BY <1>6 DEF Tabled
  <2>2. \A i \in DOMAIN records : \E j \in DOMAIN more : more[j].key = records[i].key
    BY <1>14
  <2>3. \A m \in DOMAIN bs : Passing(bs[m], more) /\ (~overlapped => Gap(bs[m], more, bridge))
    BY <1>13
  <2>4. rewrite' = Rewrite(bridge, bs, Deserving(more)) /\ records' = more
        /\ bridge' = bridge /\ overlapped' = overlapped
    BY <2>1, <1>1
  <2> HIDE DEF more
  <2>5. LET r == Rewrite(bridge, bs, Deserving(more))
        IN  Bridged(bridge, more, r.was, r.left, overlapped)
    BY <2>1, <2>2, <2>3, <1>5, <1>13, TakenBridge
  <2> QED
    BY <2>1, <2>4, <2>5 DEF TableOK, BridgeOK
<1>9. LoadsOK'
  BY <1>1, <1>3, <1>4 DEF Inv, LoadsOK
<1>10. RewritesOK'
  <2> SUFFICES ASSUME ~overlapped PROVE RewritesOK'
    BY <1>1 DEF RewritesOK
  <2>1. Rewriting = {l} /\ switching.pc # "begun"
    <3>1. l \in Rewriting
      BY <1>1 DEF Rewriting
    <3> QED
      BY <3>1 DEF Inv, RewritesOK
  <2>2. Rewriting' = {}
    BY <2>1, <1>3, <1>4 DEF Rewriting
  <2>3. Serving(records') = ToSet(loaded.defs)
    BY <1>1, <1>6 DEF Inv, LoadsOK
  <2> QED
    BY <2>1, <2>2, <2>3, <1>1 DEF RewritesOK
<1>11. WorkerOK'
  <2>1. l \in Active'
    BY <1>3, <1>4 DEF Active
  <2> QED
    BY <2>1 DEF WorkerOK
<1> QED
  BY <1>7, <1>8, <1>9, <1>10, <1>11 DEF Inv

(* Replace: the worker of the older code is gone. *)
LEMMA ReplaceStep ==
    ASSUME Inv, NEW l \in DOMAIN loads, Replace(l)
    PROVE  Inv'
<1> DEFINE new == [loads[l] EXCEPT !.pc = "done"]
<1>1. /\ loads[l].pc = "registered" /\ worker' = 0 /\ SetLoad(l, new)
      /\ UNCHANGED <<tableVars, source, dirty, switching, overlapped>>
  BY DEF Replace, switchVars, stop
<1>2. loads[l] \in Load
  BY LoadFacts
<1>3. new \in Load /\ new.pc = "done"
  BY <1>2 DEF Load
<1> HIDE DEF new
<1>4. /\ loads' \in Seq(Load) /\ DOMAIN loads' = DOMAIN loads /\ loads'[l] = new
      /\ \A m \in DOMAIN loads : m # l => loads'[m] = loads[m]
  BY <1>1, <1>3, LoadSet
<1>5. TypeOK'
  BY <1>1, <1>4 DEF Inv, TypeOK, tableVars
<1>6. TableOK' /\ BridgeOK'
  BY <1>1 DEF Inv, TableOK, BridgeOK, tableVars
<1>7. LoadsOK'
  BY <1>1, <1>3, <1>4 DEF Inv, LoadsOK, tableVars
<1>8. RewritesOK'
  <2>1. Rewriting' = Rewriting
    BY <1>1, <1>3, <1>4 DEF Rewriting
  <2>2. (\A m \in DOMAIN loads' : loads'[m].pc # "stored") => \A m \in DOMAIN loads : loads[m].pc # "stored"
    BY <1>1, <1>4
  <2> QED
    BY <2>1, <2>2, <1>1 DEF Inv, RewritesOK, tableVars
<1>9. WorkerOK'
  BY <1>1 DEF WorkerOK
<1> QED
  BY <1>5, <1>6, <1>7, <1>8, <1>9 DEF Inv

(* BeginSwitch: off disables event records, on collects what to register.   *)
LEMMA BeginSwitchStep == Inv /\ BeginSwitch => Inv'
<1> SUFFICES ASSUME Inv, BeginSwitch PROVE Inv'
  OBVIOUS
<1>1. /\ switching.pc = "idle"
      /\ RegistryFree
      /\ UNCHANGED <<loaded, bridge, rewrite, source, dirty, loads, worker>>
  BY DEF BeginSwitch, loadVars
<1>2. Tabled(records, bridge) /\ records \in Seq(Record)
  BY <1>1, FreeTable DEF Tabled
<1>3. Rewriting' = Rewriting /\ Active' = Active
  BY <1>1 DEF Rewriting, Active
<1>4. WorkerOK'
  BY <1>1, <1>3 DEF Inv, WorkerOK
<1>5. CASE Head(requests)
  <2> DEFINE defs == begin_reload(records)
  <2>1. /\ generation' = generation + 1 /\ switching' = [pc |-> "begun", defs |-> defs]
        /\ UNCHANGED records /\ overlapped' = (overlapped \/ Rewriting /= {})
    BY <1>5 DEF BeginSwitch
  <2>2. defs \in Seq(Definitions) /\ ToSet(defs) \subseteq Serving(records)
    BY <1>2, PendingServed
  <2> HIDE DEF defs
  <2>3. overlapped' \in BOOLEAN /\ (~overlapped' => ~overlapped /\ Rewriting = {})
    BY <2>1 DEF Inv, TypeOK
  <2>4. TypeOK'
    BY <2>1, <2>2, <2>3, <1>1 DEF Inv, TypeOK
  <2>5. TableOK' /\ BridgeOK'
    BY <2>1, <2>3, <1>1 DEF Inv, TableOK, BridgeOK, Bridged
  <2>6. LoadsOK'
    BY <2>3, <1>1 DEF Inv, LoadsOK
  <2>7. RewritesOK'
    BY <2>1, <2>2, <2>3, <1>1, <1>3 DEF Inv, RewritesOK
  <2> QED
    BY <2>4, <2>5, <2>6, <2>7, <1>4 DEF Inv
<1>6. CASE ~Head(requests)
  <2>1. /\ records' = disable_background(records) /\ switching' = [pc |-> "disabled", defs |-> <<>>]
        /\ UNCHANGED <<generation, overlapped>>
    BY <1>6 DEF BeginSwitch
  <2>2. Tabled(records', bridge) /\ Serving(records') = Serving(records)
    BY <2>1, <1>2, DisableKeeps
  <2>3. switching' \in [pc : {"idle", "begun", "registering", "registered", "disabled"}, defs : Seq(Definitions)]
    BY <2>1, EmptySeq
  <2>4. TypeOK'
    BY <2>1, <2>3, <1>1 DEF Inv, TypeOK
  <2>5. TableOK' /\ BridgeOK'
    <3>1. /\ bridge' = Deserving(records') /\ Tabled(records', Deserving(records'))
          /\ rewrite'.left = <<>>
      BY <2>2, <1>1 DEF Tabled, RegistryFree
    <3>2. Bridged(Deserving(records'), records', rewrite'.was, <<>>, overlapped')
      BY <3>1, FreeBridge
    <3> QED
      BY <3>1, <3>2 DEF TableOK, BridgeOK
  <2>6. LoadsOK'
    BY <2>1, <1>1 DEF Inv, LoadsOK
  <2>7. RewritesOK'
    BY <2>1, <2>2, <1>1, <1>3 DEF Inv, RewritesOK
  <2> QED
    BY <2>4, <2>5, <2>6, <2>7, <1>4 DEF Inv
<1> QED
  BY <1>5, <1>6

(* RegisterPending: what was collected is registered under the generation.  *)
LEMMA PendingStep == Inv /\ RegisterPending => Inv'
<1> SUFFICES ASSUME Inv, RegisterPending PROVE Inv'
  OBVIOUS
<1> DEFINE ds == switching.defs
           u == register(Table, ds, generation)
           bs == RegisterPasses(Table, ds, generation)
           alone == \A i, j \in DOMAIN ds :
                      key_for(ds[i], generation) = key_for(ds[j], generation) => ds[i] = ds[j]
<1>1. /\ switching.pc = "begun" /\ RegistryFree /\ records' = u.records
      /\ rewrite' = Rewrite(bridge, bs, u.bridge)
      /\ switching' = [pc |-> "registering", defs |-> <<>>]
      /\ UNCHANGED <<loaded, generation, bridge, source, dirty, loads, worker, overlapped>>
  BY DEF RegisterPending, loadVars
<1>2. ds \in Seq(Definitions) /\ generation \in Nat /\ Tabled(Table.records, Table.bridge)
      /\ Table.records = records /\ Table.bridge = bridge
      /\ Table = [records |-> Table.records, bridge |-> Table.bridge]
  BY <1>1, FreeTable DEF Inv, TypeOK, Table
<1>3. /\ Tabled(u.records, u.bridge)
      /\ (/\ ToSet(ds) \subseteq Serving(records)
          /\ \A d, e \in Serving(records) : d.name = e.name => d = e)
         => Serving(u.records) = Serving(records)
  BY <1>2, SwitchServes
<1>9. /\ bs \in Seq(SUBSET Registrations)
      /\ \A m \in DOMAIN bs : /\ Passing(bs[m], u.records)
                              /\ alone => Gap(bs[m], u.records, bridge)
  <2>1. /\ bs \in Seq(SUBSET Registrations)
        /\ \A m \in DOMAIN bs : /\ Passing(bs[m], u.records)
                                /\ alone => Gap(bs[m], u.records, Table.bridge)
    BY <1>2, RegisterPassing
  <2> HIDE DEF bs, u, alone
  <2> QED
    BY <2>1, <1>2
<1>10. \A i \in DOMAIN records : i \in DOMAIN u.records /\ u.records[i].key = records[i].key
  <2>1. Folded(Table, ds, generation, Len(ds), u)
    BY <1>2, Registers
  <2> QED
    BY <2>1, <1>2 DEF Folded
<1> HIDE DEF u, bs
<1>4. TypeOK'
  <2>1. switching' \in [pc : {"idle", "begun", "registering", "registered", "disabled"}, defs : Seq(Definitions)]
    BY <1>1, EmptySeq
  <2> QED
    BY <2>1, <1>1 DEF Inv, TypeOK
<1>11. ASSUME ~overlapped
       PROVE  /\ Rewriting = {} /\ ToSet(ds) \subseteq Serving(records)
              /\ Serving(records) = ToSet(loaded.defs)
              /\ \A d, e \in Serving(records) : d.name = e.name => d = e
  <2>1. Rewriting = {} /\ ToSet(ds) \subseteq Serving(records)
    BY <1>1, <1>11 DEF Inv, RewritesOK
  <2>2. \A l \in DOMAIN loads : loads[l].pc # "stored"
    BY <2>1 DEF Rewriting
  <2>3. Serving(records) = ToSet(loaded.defs)
    BY <2>2, <1>11 DEF Inv, RewritesOK
  <2>4. \A d, e \in Serving(records) : d.name = e.name => d = e
    <3>1. loaded.defs \in Exports
      BY DEF Inv, TypeOK
    <3>2. \A i, j \in DOMAIN loaded.defs : loaded.defs[i].name = loaded.defs[j].name => i = j
      BY <3>1, ExportFacts
    <3> QED
      BY <3>2, <2>3 DEF ToSet
  <2> QED
    BY <2>1, <2>3, <2>4
<1>12. ~overlapped => alone
  <2> SUFFICES ASSUME ~overlapped, NEW i \in DOMAIN ds, NEW j \in DOMAIN ds,
                      key_for(ds[i], generation) = key_for(ds[j], generation)
               PROVE  ds[i] = ds[j]
    OBVIOUS
  <2>1. ds[i] \in Serving(records) /\ ds[j] \in Serving(records)
    BY <1>11 DEF ToSet
  <2>2. ds[i].name = ds[j].name
    BY DEF key_for
  <2> QED
    BY <2>1, <2>2, <1>11
<1>5. TableOK' /\ BridgeOK'
  <2> DEFINE more == u.records
  <2>1. Tabled(more, Deserving(more)) /\ u.bridge = Deserving(more) /\ Tabled(records, bridge)
    BY <1>2, <1>3 DEF Tabled
  <2>2. \A i \in DOMAIN records : \E j \in DOMAIN more : more[j].key = records[i].key
    BY <1>10
  <2>3. \A m \in DOMAIN bs : Passing(bs[m], more) /\ (~overlapped => Gap(bs[m], more, bridge))
    <3>1. ASSUME ~overlapped PROVE \A m \in DOMAIN bs : Gap(bs[m], u.records, bridge)
      <4>1. alone
        BY <1>12, <3>1
      <4> HIDE DEF alone
      <4> QED
        BY <4>1, <1>9
    <3>2. \A m \in DOMAIN bs : Passing(bs[m], u.records)
      BY <1>9
    <3> HIDE DEF alone
    <3> QED
      BY <3>1, <3>2
  <2>4. rewrite' = Rewrite(bridge, bs, Deserving(more)) /\ records' = more
        /\ bridge' = bridge /\ overlapped' = overlapped
    BY <2>1, <1>1
  <2> HIDE DEF more
  <2>5. LET r == Rewrite(bridge, bs, Deserving(more))
        IN  Bridged(bridge, more, r.was, r.left, overlapped)
    BY <2>1, <2>2, <2>3, <1>9, TakenBridge
  <2> QED
    BY <2>1, <2>4, <2>5 DEF TableOK, BridgeOK
<1>6. LoadsOK'
  BY <1>1 DEF Inv, LoadsOK
<1>7. RewritesOK'
  <2> SUFFICES ASSUME ~overlapped PROVE RewritesOK'
    BY <1>1 DEF RewritesOK
  <2>1. Rewriting' = {}
    BY <1>1, <1>11 DEF Rewriting
  <2>2. Serving(records') = ToSet(loaded.defs)
    BY <1>1, <1>3, <1>11
  <2> QED
    BY <2>1, <2>2, <1>1 DEF RewritesOK
<1>8. WorkerOK'
  BY <1>1 DEF Inv, WorkerOK, Active
<1> QED
  BY <1>4, <1>5, <1>6, <1>7, <1>8 DEF Inv

(* EndSwitch, and what happens to the worker without a reload. *)
LEMMA EndSwitchStep == Inv /\ EndSwitch => Inv'
<1> SUFFICES ASSUME Inv, EndSwitch PROVE Inv'
  OBVIOUS
<1>1. /\ switching' = [pc |-> "idle", defs |-> <<>>]
      /\ UNCHANGED <<tableVars, loadVars, worker, overlapped>>
  BY DEF EndSwitch
<1>2. TypeOK'
  <2>1. switching' \in [pc : {"idle", "begun", "registering", "registered", "disabled"}, defs : Seq(Definitions)]
    BY <1>1, EmptySeq
  <2> QED
    BY <2>1, <1>1 DEF Inv, TypeOK, tableVars, loadVars
<1>3. TableOK' /\ LoadsOK' /\ WorkerOK'
  BY <1>1 DEF Inv, TableOK, LoadsOK, WorkerOK, Active, tableVars, loadVars
<1>5. BridgeOK'
  BY <1>1 DEF Inv, BridgeOK, tableVars
<1>4. RewritesOK'
  BY <1>1 DEF Inv, RewritesOK, Rewriting, tableVars, loadVars
<1> QED
  BY <1>2, <1>3, <1>4, <1>5 DEF Inv

(* RewriteBridge: the bridge gets what was next, and at the end what the    *)
(* records call for.                                                        *)
LEMMA RewriteStep == Inv /\ RewriteBridge => Inv'
<1> SUFFICES ASSUME Inv, RewriteBridge PROVE Inv'
  OBVIOUS
<1> DEFINE left == rewrite.left
           S == SUBSET Registrations
<1>1. /\ ~RegistryFree /\ bridge' = Head(left)
      /\ UNCHANGED <<loaded, records, generation, source, dirty, worker, overlapped>>
  BY DEF RewriteBridge
<1>2. left \in Seq(S) /\ left # <<>>
  BY <1>1 DEF Inv, BridgeOK, Bridged, RegistryFree
<1>3. /\ Head(left) \in S /\ Tail(left) \in Seq(S) /\ Len(left) = Len(Tail(left)) + 1
      /\ ToSet(left) = {Head(left)} \cup ToSet(Tail(left))
  BY <1>2, TailFacts
<1>4. Len(left) \in Nat /\ Len(Tail(left)) \in Nat /\ left[Len(left)] = Deserving(records)
  BY <1>2, <1>3, SeqFacts DEF Inv, BridgeOK, Bridged
<1>5. /\ loads' \in Seq(Load) /\ DOMAIN loads' = DOMAIN loads
      /\ \A l \in DOMAIN loads :
           \/ loads'[l] = loads[l]
           \/ /\ loads[l].pc = "registering" /\ loads'[l].pc = "registered"
              /\ loads'[l].defs = loads[l].defs
  <2>1. /\ loads \in Seq(Load) /\ Len(loads) \in Nat /\ DOMAIN loads = 1 .. Len(loads)
        /\ \A l \in DOMAIN loads : loads[l] \in Load
    BY LoadFacts
  <2>2. CASE Len(left) # 1
    BY <2>1, <2>2 DEF RewriteBridge
  <2>3. CASE Len(left) = 1
    <3>1. loads' = [l \in DOMAIN loads |-> IF loads[l].pc = "registering"
                                             THEN [loads[l] EXCEPT !.pc = "registered"]
                                             ELSE loads[l]]
      BY <2>3 DEF RewriteBridge
    <3>2. /\ DOMAIN loads' = DOMAIN loads
          /\ \A l \in DOMAIN loads :
               /\ loads'[l] \in Load
               /\ \/ loads'[l] = loads[l]
                  \/ /\ loads[l].pc = "registering" /\ loads'[l].pc = "registered"
                     /\ loads'[l].defs = loads[l].defs
      BY <2>1, <3>1 DEF Load
    <3>3. loads' \in [1 .. Len(loads) -> Load]
      BY <2>1, <3>1, <3>2
    <3> QED
      BY <2>1, <3>2, <3>3, SeqDef
  <2> QED
    BY <2>2, <2>3
<1>6. /\ switching' \in [pc : {"idle", "begun", "registering", "registered", "disabled"}, defs : Seq(Definitions)]
      /\ switching' = switching \/ (switching'.pc = "registered" /\ switching.pc = "registering")
  <2>1. \/ switching' = switching
        \/ switching.pc = "registering" /\ switching' = [pc |-> "registered", defs |-> <<>>]
    BY DEF RewriteBridge
  <2>2. CASE switching' = switching
    BY <2>2 DEF Inv, TypeOK
  <2>3. CASE switching.pc = "registering" /\ switching' = [pc |-> "registered", defs |-> <<>>]
    BY <2>3, EmptySeq
  <2> QED
    BY <2>1, <2>2, <2>3
<1>7. TypeOK'
  BY <1>1, <1>5, <1>6 DEF Inv, TypeOK
<1>8. TableOK'
  BY <1>1 DEF Inv, TableOK
<1>9. BridgeOK'
  <2>1. CASE Len(left) = 1
    <3>1. rewrite'.left = <<>>
      BY <2>1 DEF RewriteBridge, NoRewrite
    <3>2. bridge' = Deserving(records')
      <4>1. Head(left) = left[1]
        BY <1>2
      <4> QED
        BY <4>1, <2>1, <1>1, <1>4
    <3>3. Bridged(Deserving(records'), records', rewrite'.was, <<>>, overlapped')
      BY <1>8, FreeBridge DEF TableOK
    <3> QED
      BY <3>1, <3>2, <3>3 DEF BridgeOK
  <2>2. CASE Len(left) # 1
    <3> DEFINE tail == Tail(left)
    <3>1. rewrite' = [rewrite EXCEPT !.left = Tail(@)]
      BY <2>2 DEF RewriteBridge
    <3>2. rewrite'.left = tail /\ rewrite'.was = rewrite.was
      BY <3>1
    <3>3. \A i \in 1 .. Len(tail) : tail[i] = left[i + 1]
      BY <1>2, HeadTailProperties
    <3>4. /\ Len(tail) \in Nat /\ Len(left) = Len(tail) + 1 /\ tail \in Seq(S)
          /\ \A c \in ToSet(tail) \cup {bridge'} : c \in ToSet(left)
      BY <1>1, <1>3, <1>4
    <3> HIDE DEF tail, left
    <3>5. Len(tail) \in 1 .. Len(tail) /\ tail # <<>>
      BY <3>4, <2>2
    <3>6. tail[Len(tail)] = Deserving(records)
      <4>1. tail[Len(tail)] = left[Len(tail) + 1]
        BY <3>3, <3>5
      <4> QED
        BY <4>1, <3>4, <1>4
    <3>7. ASSUME NEW c \in ToSet(tail) \cup {bridge'}
          PROVE  Passing(c, records) /\ (~overlapped => Gap(c, records, rewrite.was))
      <4>1. c \in ToSet(left)
        BY <3>4
      <4> QED
        BY <4>1 DEF Inv, BridgeOK, Bridged, left
    <3> QED
      BY <3>2, <3>4, <3>5, <3>6, <3>7, <1>1 DEF BridgeOK, Bridged
  <2> QED
    BY <2>1, <2>2
<1>10. \A l \in DOMAIN loads : /\ loads'[l].pc = "stored" <=> loads[l].pc = "stored"
                               /\ loads'[l].pc \in {"discovered", "stored"} => loads'[l] = loads[l]
                               /\ loads[l].pc \in {"discovered", "stored"} => loads'[l] = loads[l]
                               /\ loads'[l].pc = "done" <=> loads[l].pc = "done"
  BY <1>5
<1>11. Rewriting' = Rewriting /\ Active' = Active
  BY <1>5, <1>10 DEF Rewriting, Active
<1>12. LoadsOK'
  BY <1>1, <1>5, <1>10 DEF Inv, LoadsOK
<1>13. RewritesOK'
  BY <1>1, <1>5, <1>6, <1>10, <1>11 DEF Inv, RewritesOK
<1>14. WorkerOK'
  BY <1>1, <1>11 DEF Inv, WorkerOK
<1> QED
  BY <1>7, <1>8, <1>9, <1>12, <1>13, <1>14 DEF Inv

LEMMA WorkerStep ==
    ASSUME Inv, UNCHANGED <<tableVars, loadVars, switching, overlapped>>,
           worker' \in {0, source, worker}
    PROVE  Inv'
<1>1. TypeOK' /\ TableOK' /\ LoadsOK'
  BY DEF Inv, TypeOK, TableOK, LoadsOK, tableVars, loadVars
<1>4. BridgeOK'
  BY DEF Inv, BridgeOK, tableVars
<1>2. RewritesOK'
  BY DEF Inv, RewritesOK, Rewriting, tableVars, loadVars
<1>3. WorkerOK'
  BY DEF Inv, WorkerOK, Active, tableVars, loadVars
<1> QED
  BY <1>1, <1>2, <1>3, <1>4 DEF Inv

LEMMA NextInv == Inv /\ [Next]_vars => Inv'
<1> SUFFICES ASSUME Inv, [Next]_vars PROVE Inv'
  OBVIOUS
<1> DEFINE Still == UNCHANGED <<tableVars, loadVars, switching, overlapped>> /\ worker' \in {0, source, worker}
<1>1. ASSUME NEW l \in DOMAIN loads, Reload(l) PROVE Inv'
  BY <1>1, DiscoverStep, StoreStep, RegisterStep, ReplaceStep DEF Reload
<1>2. ASSUME Switch PROVE Inv'
  BY <1>2, BeginSwitchStep, PendingStep, EndSwitchStep DEF Switch
<1>3. ASSUME \/ WorkerExits \/ HubSwitch \/ committed \/ enqueue \/ eventarc_register
             \/ eventarc_remove \/ eventarc_publish \/ Shutdown \/ UNCHANGED vars
      PROVE  Still
  BY <1>3 DEF WorkerExits, HubSwitch, committed, enqueue, eventarc_register, eventarc_remove,
              eventarc_publish, Shutdown, vars, switchVars
<1>4. ASSUME Coordinate PROVE Still
  BY <1>4 DEF Coordinate, Receive, Close, Drain, End, Join, switchVars
<1>5. ASSUME NEW i \in DOMAIN deliveries, Attempt(i) PROVE Still
  BY <1>5 DEF Attempt, Lookup, ConnectFails, Origin, Answered, Unanswered, switchVars, spawn
<1>6. ASSUME Still PROVE Inv'
  BY <1>6, WorkerStep
<1> HIDE DEF Still
<1> QED
  BY <1>1, <1>2, <1>3, <1>4, <1>5, <1>6, EditStep, DebouncedStep, RewriteStep DEF Next

(* The invariant holds in every reachable state: in particular the bridge   *)
(* agrees with the records whenever nobody rewrites them, and what it holds *)
(* meanwhile lacks at most one registration of both sides (BridgeOK).       *)
THEOREM Inductive == Spec => []Inv
  BY InitInv, NextInv, PTL DEF Spec

(* Every variable of the table, its reloads and the background switch keeps *)
(* its type.                                                                *)
THEOREM TypeCorrect == Spec => []TypeOK
<1>1. Inv => TypeOK
  BY DEF Inv
<1> QED
  BY <1>1, Inductive, PTL

(* For any versions of the code: whatever reloads, switches, commits and    *)
(* deliveries ran against each other, the bridge holds a registration for   *)
(* exactly the live Firestore records while nobody rewrites the table, and  *)
(* during a rewrite that no other overlapped lacks at most one of the       *)
(* functions live before and after; and once reloads have ended the table   *)
(* serves what the last successful one read, unless two rewrites            *)
(* overlapped, and a worker left running has loaded the code on disk.       *)
THEOREM RoutingStaysCurrent == Spec => []RoutingCurrent
<1>1. Inv => RoutingCurrent
  <2> SUFFICES ASSUME Inv PROVE RoutingCurrent
    OBVIOUS
  <2>1. Deserving(records) = Deserved
    BY DEF Deserving, Deserved
  <2>5. RegistryFree => bridge = Deserved
    BY <2>1 DEF Inv, BridgeOK, Bridged, RegistryFree
  <2>6. ~overlapped => \A x, y \in (rewrite.was \cap Deserved) \ bridge : x = y
    <3>1. bridge \in ToSet(rewrite.left) \cup {bridge}
      OBVIOUS
    <3> QED
      BY <3>1, <2>1 DEF Inv, BridgeOK, Bridged, Gap
  <2>2. LiveDefs = Serving(records)
    BY DEF LiveDefs, Serving
  <2>3. ASSUME Active = {}, ~overlapped PROVE LiveDefs = ToSet(loaded.defs)
    <3>1. \A l \in DOMAIN loads : loads[l].pc # "stored"
      BY <2>3 DEF Active
    <3> QED
      BY <3>1, <2>2, <2>3 DEF Inv, RewritesOK
  <2>4. ASSUME Active = {}, ~dirty, ~loaded.error PROVE worker \in {0, source}
    BY <2>4 DEF Inv, WorkerOK
  <2> QED
    BY <2>3, <2>4, <2>5, <2>6 DEF RoutingCurrent
<1> QED
  BY <1>1, Inductive, PTL

-----------------------------------------------------------------------------
(* Deliveries.  A change is sent to every generation of a record that is   *)
(* still registered: only the newest of them may be enabled, so that only  *)
(* the newest ever runs; a delivery whose handler was seen to run is over, *)
(* and the window admits an id once while it remembers it.                 *)

(* The generations of the records, while a switch is under way too: keys   *)
(* carry a generation no later than the current one; records of a name     *)
(* that are not stale have one definition, and of all only the newest is   *)
(* served; what is to be registered again has nothing enabled.             *)
KeysOK ==
  \A i \in DOMAIN records :
    /\ records[i].key[2] <= generation + 1
    /\ records[i].key[2] = 0 <=> ~IsEvent(records[i].def)

Twin(i, j) ==
  /\ records[i].key[1] = records[j].key[1]
  /\ records[i].key[2] # 0 /\ records[j].key[2] # 0
  /\ ~records[i].stale /\ ~records[j].stale

NewestOK ==
  \A i, j \in DOMAIN records :
    /\ Twin(i, j) => records[i].def = records[j].def
    /\ /\ records[i].key[1] = records[j].key[1]
       /\ records[i].key[2] # 0 /\ records[i].key[2] < records[j].key[2]
       => records[i].stale \/ ~records[i].enabled

PendingOK ==
  switching.pc = "begun" =>
    \A m \in DOMAIN switching.defs, i \in DOMAIN records :
      /\ IsEvent(switching.defs[m])
      /\ records[i].key[1] = switching.defs[m].name
      /\ records[i].key[2] # 0 /\ records[i].key[2] <= generation
      /\ ~records[i].stale
      => records[i].def = switching.defs[m] /\ ~records[i].enabled

Ladder == KeysOK /\ NewestOK /\ PendingOK

Queued == [key : (Names \cup {"*"}) \X Nat, id : Messages \cup ({"change"} \X Nat \X Nat)]
Request == [key : ((Names \cup {"*"}) \X Nat) \cup Subscribable,
            id : Messages \cup ({"change"} \X Nat \X Nat)]
Delivery == [event : Request, attempt : Nat \ {0},
             pc : {"send", "found", "calling", "delivered", "assumed", "failed", "joined"},
             cast : BOOLEAN]
Over == {"delivered", "assumed", "failed", "joined"}

Health == [admitted : Nat, deduplicated : Nat, delivered : Nat, assumed : Nat,
           failed : Nat, retries : Nat]

DeliveryTypes ==
  /\ sent \in Seq(Queued) /\ queue \in Seq(Queued)
  /\ seen \in Seq({event_id(e) : e \in Queued})
  /\ deliveries \in Seq(Delivery)
  /\ runs \in Seq([delivery : Nat, sure : BOOLEAN])
  /\ external \in Seq(Subscribable)
  /\ revision \in Nat
  /\ health \in Health

(* What is queued or delivered was sent; an id delivered is remembered or   *)
(* dropped, and only a dropped one is delivered twice.                      *)
AdmittedOK ==
  /\ ToSet(queue) \subseteq ToSet(sent)
  /\ \A i \in DOMAIN deliveries : ~deliveries[i].cast =>
       /\ deliveries[i].event \in ToSet(sent)
       /\ event_id(deliveries[i].event) \in Ids(seen) \cup dropped
  /\ \A i, j \in DOMAIN deliveries :
       /\ ~deliveries[i].cast /\ ~deliveries[j].cast
       /\ event_id(deliveries[i].event) = event_id(deliveries[j].event)
       /\ event_id(deliveries[i].event) \notin dropped
       => i = j

(* A run is one of a delivery's, which is over when the run is sure. *)
RanOK ==
  \A r \in DOMAIN runs :
    /\ runs[r].delivery \in DOMAIN deliveries
    /\ runs[r].sure => deliveries[runs[r].delivery].pc \in Over

(* A change sent is one of a commit made, and names an event function. *)
SentOK ==
  \A i \in DOMAIN sent : sent[i].id[1] = "change" =>
    sent[i].id[2] <= revision /\ sent[i].key[2] # 0

(* The same change was sent to a newer generation of the function. *)
Older(e, f) ==
  /\ e.id[1] = "change" /\ e.id = f.id
  /\ e.key[1] = f.key[1] /\ e.key[2] < f.key[2]
Outdated(e) == \E f \in ToSet(sent) : Older(e, f)

(* No record of the key is served any more, nor will be. *)
Dormant(k) ==
  /\ k[2] <= generation
  /\ \A i \in DOMAIN records : records[i].key = k => records[i].stale \/ ~records[i].enabled

OutdatedSleeps == \A e \in ToSet(sent) : Outdated(e) => Dormant(e.key)

Chosen(i) ==
  \/ deliveries[i].pc \in {"found", "calling"}
  \/ \E r \in DOMAIN runs : runs[r].delivery = i

NewestRuns ==
  \A i \in DOMAIN deliveries :
    ~deliveries[i].cast /\ Chosen(i) => ~Outdated(deliveries[i].event)

Delivering ==
  /\ DeliveryTypes /\ AdmittedOK /\ RanOK /\ SentOK /\ OutdatedSleeps /\ NewestRuns
  /\ EventsRunOnce

LEMMA LadderInit == Init => Ladder
<1> SUFFICES ASSUME Init PROVE Ladder
  OBVIOUS
<1> DEFINE empty == [records |-> <<>>, bridge |-> {}]
           ds == Sources[1]
           u == register(empty, ds, 0)
<1>1. ds \in Seq(Definitions) /\ DOMAIN ds = 1 .. Len(ds)
  <2>1. ds \in Exports
    BY SourcesAssumption DEF Exports
  <2> QED
    BY <2>1, ExportFacts, LenProperties
<1>2. Tabled(empty.records, empty.bridge)
  <2>1. <<>> \in Seq(Record) /\ DOMAIN <<>> = {}
    BY EmptySeq
  <2>2. Deserving(<<>>) = {}
    BY <2>1 DEF Deserving
  <2> QED
    BY <2>1, <2>2 DEF Tabled
<1>3. Folded(empty, ds, 0, Len(ds), u) /\ DOMAIN empty.records = {}
  <2>1. DOMAIN empty.records = {} /\ 0 \in Nat
    OBVIOUS
  <2> HIDE DEF empty, ds
  <2> QED
    BY <2>1, <1>1, <1>2, Registers
<1>4. records = u.records /\ generation = 0 /\ switching.pc = "idle"
  BY DEF Init
<1> HIDE DEF u, empty
<1>5. /\ \A i \in DOMAIN records : \E m \in DOMAIN ds : records[i] = Made(ds, 0, m)
      /\ \A i, j \in DOMAIN records : records[i].key = records[j].key => i = j
  BY <1>1, <1>3, <1>4 DEF Folded, Tabled
<1>6. \A m \in DOMAIN ds : /\ Made(ds, 0, m).def = ds[m]
                           /\ Made(ds, 0, m).key = <<ds[m].name, IF IsEvent(ds[m]) THEN 1 ELSE 0>>
  BY <1>1, MadeFacts
<1>7. KeysOK
  BY <1>4, <1>5, <1>6 DEF KeysOK
<1>8. NewestOK
  <2> SUFFICES ASSUME NEW i \in DOMAIN records, NEW j \in DOMAIN records
               PROVE  /\ Twin(i, j) => i = j
                      /\ records[i].key[2] # 0 => ~(records[i].key[2] < records[j].key[2])
    BY DEF NewestOK
  <2>1. \A n \in DOMAIN records :
          records[n].key = <<records[n].key[1], 1>> \/ records[n].key = <<records[n].key[1], 0>>
    BY <1>5, <1>6
  <2>2. records[i].key[2] \in {0, 1} /\ records[j].key[2] \in {0, 1}
    BY <2>1
  <2>3. ASSUME Twin(i, j) PROVE i = j
    <3>1. records[i].key = <<records[i].key[1], 1>> /\ records[j].key = <<records[j].key[1], 1>>
      BY <2>1, <2>3 DEF Twin
    <3> QED
      BY <3>1, <2>3, <1>5 DEF Twin
  <2> QED
    BY <2>2, <2>3
<1> QED
  BY <1>4, <1>7, <1>8 DEF Ladder, PendingOK

(* RegisterLoaded: what is not of the current generation has gone stale. *)
LEMMA LadderReload ==
    ASSUME Inv, Ladder, NEW l \in DOMAIN loads, RegisterLoaded(l)
    PROVE  Ladder'
<1> DEFINE ds == loads[l].defs
           g == generation
           keep == {key_for(ds[i], g) : i \in DOMAIN ds}
           u == register(remove_codebase_except(Table, keep), ds, g)
<1>1. /\ loads[l].pc = "stored" /\ RegistryFree /\ records' = u.records
      /\ UNCHANGED <<generation, switching>>
  BY DEF RegisterLoaded, switchVars
<1>2. ds \in Exports /\ g \in Nat /\ Tabled(records, bridge)
  BY <1>1, FreeTable DEF Inv, LoadsOK, TypeOK
<1>3. ds \in Seq(Definitions)
  BY <1>2, ExportFacts
<1>4. \A i \in DOMAIN u.records :
        \/ \E m \in DOMAIN ds : u.records[i] = Made(ds, g, m)
        \/ /\ i \in DOMAIN records /\ u.records[i].stale
           /\ u.records[i].key = records[i].key /\ u.records[i].def = records[i].def
           /\ u.records[i].enabled = records[i].enabled
  <2>1. u = Reloaded(records, bridge, ds, g)
    BY DEF Table, Reloaded
  <2> HIDE DEF ds, g, u
  <2> QED
    BY <2>1, <1>2, ReloadShape
<1>5. \A i, j \in DOMAIN u.records : u.records[i].key = u.records[j].key => i = j
  <2>1. Tabled(u.records, u.bridge)
    BY <1>2, ReloadServes DEF Table
  <2> QED
    BY <2>1 DEF Tabled
<1> HIDE DEF u
<1>6. \A m \in DOMAIN ds : /\ Made(ds, g, m).def = ds[m] /\ ~Made(ds, g, m).stale
                           /\ Made(ds, g, m).key = <<ds[m].name, IF IsEvent(ds[m]) THEN g + 1 ELSE 0>>
  <2> HIDE DEF ds, g
  <2> QED
    BY <1>2, <1>3, MadeFacts
<1>7. ASSUME NEW i \in DOMAIN records'
      PROVE  /\ records'[i].key[2] <= g + 1
             /\ records'[i].key[2] = 0 <=> ~IsEvent(records'[i].def)
             /\ ~records'[i].stale /\ records'[i].key[2] # 0 =>
                  records'[i].key = <<records'[i].key[1], g + 1>>
  <2>1. CASE \E m \in DOMAIN ds : records'[i] = Made(ds, g, m)
    <3>1. PICK m \in DOMAIN ds : records'[i] = Made(ds, g, m)
      BY <2>1
    <3> QED
      BY <3>1, <1>2, <1>6
  <2>2. CASE /\ i \in DOMAIN records /\ records'[i].stale
             /\ records'[i].key = records[i].key /\ records'[i].def = records[i].def
    BY <2>2 DEF Ladder, KeysOK
  <2> QED
    BY <2>1, <2>2, <1>1, <1>4
<1>8. KeysOK'
  BY <1>1, <1>7 DEF KeysOK
<1>9. NewestOK'
  <2> SUFFICES ASSUME NEW i \in DOMAIN records', NEW j \in DOMAIN records'
               PROVE  /\ Twin(i, j)' => i = j
                      /\ records'[i].key[2] # 0 /\ records'[i].key[2] < records'[j].key[2]
                           => records'[i].stale
    BY DEF NewestOK
  <2>1. ASSUME Twin(i, j)' PROVE i = j
    <3>1. records'[i].key = <<records'[i].key[1], g + 1>> /\ records'[j].key = <<records'[j].key[1], g + 1>>
          /\ records'[i].key[1] = records'[j].key[1]
      BY <2>1, <1>7 DEF Twin
    <3> QED
      BY <3>1, <1>1, <1>5
  <2>2. ASSUME records'[i].key[2] # 0, ~records'[i].stale
        PROVE  ~(records'[i].key[2] < records'[j].key[2])
    <3>1. records'[i].key[2] = g + 1 /\ records'[j].key[2] <= g + 1
      BY <2>2, <1>7
    <3>2. records'[j].key[2] \in Nat
      <4>1. Tabled(u.records, u.bridge)
        BY <1>2, ReloadServes DEF Table, u
      <4>2. u.records[j] \in Record
        BY <4>1, <1>1, RecordsFacts DEF Tabled
      <4> QED
        BY <4>2, <1>1 DEF Record
    <3> QED
      BY <3>1, <3>2, <1>2
  <2> QED
    BY <2>1, <2>2
<1>10. PendingOK'
  <2>1. ASSUME NEW i \in DOMAIN records', ~records'[i].stale, records'[i].key[2] # 0
        PROVE  ~(records'[i].key[2] <= g)
    BY <2>1, <1>2, <1>7
  <2> QED
    BY <2>1, <1>1 DEF PendingOK
<1> QED
  BY <1>8, <1>9, <1>10 DEF Ladder

(* BeginSwitch: records of a definition to be registered are all off. *)
LEMMA LadderBegin == Inv /\ Ladder /\ BeginSwitch => Ladder'
<1> SUFFICES ASSUME Inv, Ladder, BeginSwitch PROVE Ladder'
  OBVIOUS
<1>1. generation \in Nat /\ Tabled(records, bridge) /\ records \in Seq(Record)
  BY FreeTable DEF Inv, TypeOK, Tabled, BeginSwitch
<1>2. DOMAIN records = 1 .. Len(records) /\ \A i \in DOMAIN records : records[i] \in Record
  BY <1>1, RecordsFacts
<1>3. \A i \in DOMAIN records : records[i].key[2] \in Nat /\ records[i].key[1] = records[i].def.name
  BY <1>1, <1>2 DEF Record, Tabled
<1>4. CASE Head(requests)
  <2> DEFINE defs == begin_reload(records)
  <2>1. generation' = generation + 1 /\ switching' = [pc |-> "begun", defs |-> defs] /\ UNCHANGED records
    BY <1>4 DEF BeginSwitch
  <2>2. /\ ToSet(defs) \subseteq Serving(records)
        /\ \A d \in ToSet(defs) : \A i \in DOMAIN records :
             records[i].enabled /\ ~records[i].stale => records[i].def # d
    BY <1>1, PendingServed
  <2> HIDE DEF defs
  <2>3. KeysOK'
    <3>1. \A i \in DOMAIN records : records[i].key[2] <= generation' + 1
      BY <2>1, <1>1, <1>3 DEF Ladder, KeysOK
    <3> QED
      BY <3>1, <2>1 DEF Ladder, KeysOK
  <2>4. NewestOK'
    BY <2>1 DEF Ladder, NewestOK, Twin
  <2>5. PendingOK'
    <3> SUFFICES ASSUME NEW m \in DOMAIN defs, NEW i \in DOMAIN records,
                        IsEvent(defs[m]), records[i].key[1] = defs[m].name,
                        records[i].key[2] # 0, ~records[i].stale
                 PROVE  records[i].def = defs[m] /\ ~records[i].enabled
      BY <2>1 DEF PendingOK
    <3>1. PICK j \in DOMAIN records : ~records[j].stale /\ records[j].def = defs[m]
      BY <2>2 DEF Serving, ToSet
    <3>2. records[j].key[2] # 0 /\ records[j].key[1] = records[i].key[1]
      BY <3>1, <1>3 DEF Ladder, KeysOK
    <3>3. records[i].def = defs[m]
      BY <3>1, <3>2 DEF Ladder, NewestOK, Twin
    <3>4. ~records[i].enabled
      BY <3>3, <2>2 DEF ToSet
    <3> QED
      BY <3>3, <3>4
  <2> QED
    BY <2>3, <2>4, <2>5 DEF Ladder
<1>5. CASE ~Head(requests)
  <2>1. records' = disable_background(records) /\ UNCHANGED generation /\ switching'.pc = "disabled"
    <3>1. /\ records' = disable_background(records) /\ UNCHANGED generation
          /\ switching' = [pc |-> "disabled", defs |-> <<>>]
      BY <1>5 DEF BeginSwitch
    <3> QED
      BY <3>1
  <2>2. DOMAIN records' = DOMAIN records
        /\ \A i \in DOMAIN records :
             /\ records'[i].key = records[i].key /\ records'[i].def = records[i].def
             /\ records'[i].stale = records[i].stale
             /\ IsEvent(records[i].def) => ~records'[i].enabled
    BY <2>1, <1>2 DEF disable_background, Record
  <2>3. KeysOK'
    BY <2>1, <2>2 DEF Ladder, KeysOK
  <2>4. NewestOK'
    <3> SUFFICES ASSUME NEW i \in DOMAIN records, NEW j \in DOMAIN records
                 PROVE  /\ Twin(i, j)' => records'[i].def = records'[j].def
                        /\ records'[i].key[2] # 0 => ~records'[i].enabled
      BY <2>2 DEF NewestOK
    <3>1. Twin(i, j)' => Twin(i, j)
      BY <2>2 DEF Twin
    <3>2. Twin(i, j) => records[i].def = records[j].def
      BY DEF Ladder, NewestOK
    <3>3. records[i].key[2] # 0 => IsEvent(records[i].def)
      BY DEF Ladder, KeysOK
    <3> QED
      BY <3>1, <3>2, <3>3, <2>2
  <2> QED
    BY <2>1, <2>3, <2>4 DEF Ladder, PendingOK
<1> QED
  BY <1>4, <1>5

(* RegisterPending: what is registered leaves older records of its name     *)
(* with its definition, and off.                                            *)
LEMMA LadderPending == Inv /\ Ladder /\ RegisterPending => Ladder'
<1> SUFFICES ASSUME Inv, Ladder, RegisterPending PROVE Ladder'
  OBVIOUS
<1> DEFINE ds == switching.defs
           g == generation
           u == register(Table, ds, g)
<1>1. /\ switching.pc = "begun" /\ records' = u.records /\ UNCHANGED generation
      /\ switching'.pc = "registering" /\ RegistryFree
  BY DEF RegisterPending
<1>2. ds \in Seq(Definitions) /\ g \in Nat /\ Tabled(Table.records, Table.bridge) /\ Table.records = records
      /\ records \in Seq(Record)
  BY <1>1, FreeTable DEF Inv, TypeOK, Table, Tabled
<1>3. Folded(Table, ds, g, Len(ds), u) /\ DOMAIN ds = 1 .. Len(ds)
  BY <1>2, Registers, LenProperties
<1> HIDE DEF u
<1>4. /\ \A i \in DOMAIN records' :
           \/ \E m \in DOMAIN ds : records'[i] = Made(ds, g, m)
           \/ /\ i \in DOMAIN records /\ records'[i] = records[i]
              /\ \A m \in DOMAIN ds : records[i].key # key_for(ds[m], g)
      /\ \A i, j \in DOMAIN records' : records'[i].key = records'[j].key => i = j
  BY <1>1, <1>2, <1>3 DEF Folded, Tabled
<1>5. \A m \in DOMAIN ds : /\ Made(ds, g, m).def = ds[m] /\ ~Made(ds, g, m).stale
                           /\ Made(ds, g, m).key = key_for(ds[m], g)
                           /\ key_for(ds[m], g) = <<ds[m].name, IF IsEvent(ds[m]) THEN g + 1 ELSE 0>>
  BY <1>2, MadeFacts
<1>6. \A i \in DOMAIN records : records[i].key = <<records[i].key[1], records[i].key[2]>> /\ records[i].key[2] \in Nat
  <2>1. \A i \in DOMAIN records : records[i] \in Record
    BY <1>2, RecordsFacts
  <2> QED
    BY <2>1 DEF Record
<1>7. KeysOK'
  <2> SUFFICES ASSUME NEW i \in DOMAIN records'
               PROVE  /\ records'[i].key[2] <= g + 1
                      /\ records'[i].key[2] = 0 <=> ~IsEvent(records'[i].def)
    BY <1>1 DEF KeysOK
  <2>1. CASE \E m \in DOMAIN ds : records'[i] = Made(ds, g, m)
    <3>1. PICK m \in DOMAIN ds : records'[i] = Made(ds, g, m)
      BY <2>1
    <3> QED
      BY <3>1, <1>2, <1>5
  <2>2. CASE i \in DOMAIN records /\ records'[i] = records[i]
    BY <2>2 DEF Ladder, KeysOK
  <2> QED
    BY <2>1, <2>2, <1>4
<1>8. ASSUME NEW i \in DOMAIN records', NEW m \in DOMAIN ds, records'[i] = Made(ds, g, m),
             NEW j \in DOMAIN records, j \in DOMAIN records', records'[j] = records[j],
             \A n \in DOMAIN ds : records[j].key # key_for(ds[n], g),
             records'[i].key[1] = records'[j].key[1], records'[i].key[2] # 0, records'[j].key[2] # 0,
             ~records'[j].stale
      PROVE  /\ records'[i].def = records'[j].def /\ ~records'[j].enabled
             /\ records'[j].key[2] < records'[i].key[2]
  <2>1. IsEvent(ds[m]) /\ records'[i].key[2] = g + 1 /\ records[j].key[1] = ds[m].name
        /\ records'[i].def = ds[m]
    BY <1>5, <1>8
  <2>2. records[j].key # <<records[j].key[1], g + 1>>
    BY <2>1, <1>5, <1>8
  <2>3. records[j].key[2] # g + 1 /\ records[j].key[2] <= g + 1
    BY <2>2, <1>6 DEF Ladder, KeysOK
  <2>4. records[j].key[2] <= g
    BY <2>3, <1>2, <1>6
  <2>5. records[j].def = ds[m] /\ ~records[j].enabled
    BY <2>1, <2>4, <1>1, <1>8 DEF Ladder, PendingOK
  <2> QED
    BY <2>1, <2>4, <2>5, <1>2, <1>6, <1>8
<1>9. NewestOK'
  <2> SUFFICES ASSUME NEW i \in DOMAIN records', NEW j \in DOMAIN records',
                      records'[i].key[1] = records'[j].key[1],
                      records'[i].key[2] # 0
               PROVE  /\ Twin(i, j)' => records'[i].def = records'[j].def
                      /\ records'[i].key[2] < records'[j].key[2]
                           => records'[i].stale \/ ~records'[i].enabled
    BY DEF NewestOK, Twin
  <2> DEFINE NewRec(x) == \E m \in DOMAIN ds : records'[x] = Made(ds, g, m)
             OldRec(x) == /\ x \in DOMAIN records /\ records'[x] = records[x]
                          /\ \A m \in DOMAIN ds : records[x].key # key_for(ds[m], g)
  <2>1. ASSUME NEW x \in DOMAIN records' PROVE records'[x].key[2] \in Nat /\ records'[x].key[2] <= g + 1
    BY <1>1, <1>2, <1>4, <1>5, <1>6, <1>7 DEF KeysOK
  <2>2. CASE NewRec(i)
    <3>1. PICK m \in DOMAIN ds : records'[i] = Made(ds, g, m)
      BY <2>2
    <3>2. records'[i].key[2] = g + 1
      BY <3>1, <1>5
    <3>3. ~(records'[i].key[2] < records'[j].key[2])
      BY <3>2, <2>1, <1>2
    <3>4. ASSUME Twin(i, j)', NewRec(j) PROVE records'[i].def = records'[j].def
      <4>1. PICK n \in DOMAIN ds : records'[j] = Made(ds, g, n)
        BY <3>4
      <4>2. records'[i].key = records'[j].key
        BY <4>1, <3>1, <3>4, <1>5 DEF Twin
      <4> QED
        BY <4>2, <1>4
    <3>5. ASSUME Twin(i, j)', OldRec(j) PROVE records'[i].def = records'[j].def
      BY <3>1, <3>5, <1>8 DEF Twin
    <3> QED
      BY <3>3, <3>4, <3>5, <1>4
  <2>3. CASE OldRec(i) /\ NewRec(j)
    <3>1. PICK m \in DOMAIN ds : records'[j] = Made(ds, g, m)
      BY <2>3
    <3>2. ASSUME ~records'[i].stale, records'[j].key[2] # 0
          PROVE  records'[i].def = records'[j].def /\ ~records'[i].enabled
      BY <3>1, <3>2, <2>3, <1>8
    <3>3. records'[i].key[2] < records'[j].key[2] => records'[j].key[2] # 0
      BY <2>1
    <3> QED
      BY <3>2, <3>3 DEF Twin
  <2>4. CASE OldRec(i) /\ OldRec(j)
    <3>1. Twin(i, j)' => Twin(i, j)
      BY <2>4 DEF Twin
    <3> QED
      BY <3>1, <2>4 DEF Ladder, NewestOK
  <2> QED
    BY <2>2, <2>3, <2>4, <1>4
<1> QED
  BY <1>1, <1>7, <1>9 DEF Ladder, PendingOK

LEMMA LadderNext == Inv /\ Ladder /\ [Next]_vars => Ladder'
<1> SUFFICES ASSUME Inv, Ladder, [Next]_vars PROVE Ladder'
  OBVIOUS
<1> DEFINE Still == UNCHANGED <<records, generation>> /\ (UNCHANGED switching \/ switching'.pc # "begun")
<1>1. ASSUME NEW l \in DOMAIN loads, Reload(l) PROVE Ladder' \/ Still
  BY <1>1, LadderReload DEF Reload, Discover, StoreLoaded, Replace, tableVars, switchVars
<1>2. ASSUME Switch PROVE Ladder' \/ Still
  BY <1>2, LadderBegin, LadderPending DEF Switch, EndSwitch, tableVars
<1>3. ASSUME \/ WorkerExits \/ HubSwitch \/ committed \/ enqueue \/ eventarc_register
             \/ eventarc_remove \/ eventarc_publish \/ Shutdown \/ EditSource \/ Debounced
             \/ UNCHANGED vars
      PROVE  Still
  BY <1>3 DEF WorkerExits, HubSwitch, committed, enqueue, eventarc_register, eventarc_remove,
              eventarc_publish, Shutdown, EditSource, Debounced, vars, switchVars, tableVars
<1>4. ASSUME Coordinate PROVE Still
  BY <1>4 DEF Coordinate, Receive, Close, Drain, End, Join, switchVars, tableVars
<1>5. ASSUME NEW i \in DOMAIN deliveries, Attempt(i) PROVE Still
  BY <1>5 DEF Attempt, Lookup, ConnectFails, Origin, Answered, Unanswered, switchVars, tableVars
<1>7. ASSUME RewriteBridge PROVE Still
  BY <1>7 DEF RewriteBridge
<1>6. ASSUME Still PROVE Ladder'
  BY <1>6 DEF Ladder, KeysOK, NewestOK, PendingOK, Twin
<1> HIDE DEF Still
<1> QED
  BY <1>1, <1>2, <1>3, <1>4, <1>5, <1>6, <1>7 DEF Next

(* What is dormant stays so: only keys of the current generation, and those *)
(* of HTTP functions, are registered.                                       *)
LEMMA DormantStays ==
    ASSUME Inv, [Next]_vars, NEW k, k[2] \in Nat, k[2] # 0, Dormant(k)
    PROVE  Dormant(k)'
<1> DEFINE g == generation
           Still == UNCHANGED <<records, generation>>
<1>1. g \in Nat /\ records \in Seq(Record) /\ k[2] <= g
  BY DEF Inv, TypeOK, TableOK, Tabled, Dormant
<1>2. ASSUME NEW l \in DOMAIN loads, RegisterLoaded(l) PROVE Dormant(k)'
  <2> DEFINE ds == loads[l].defs
             u == Reloaded(records, bridge, ds, g)
  <2>1. /\ loads[l].pc = "stored" /\ RegistryFree /\ records' = u.records
        /\ UNCHANGED generation
    BY <1>2 DEF RegisterLoaded, Reloaded, Table
  <2>2. ds \in Exports /\ Tabled(records, bridge)
    BY <2>1, FreeTable DEF Inv, LoadsOK
  <2>3. ds \in Seq(Definitions)
    BY <2>2, ExportFacts
  <2> HIDE DEF u, ds, g
  <2>4. \A i \in DOMAIN u.records :
          \/ \E m \in DOMAIN ds : u.records[i] = Made(ds, g, m)
          \/ u.records[i].stale
    BY <2>2, <1>1, ReloadShape DEF u
  <2>5. \A m \in DOMAIN ds : Made(ds, g, m).key[2] \in {0, g + 1}
    BY <2>3, <1>1, MadeFacts
  <2>6. k[2] \notin {0, g + 1}
    BY <1>1
  <2> QED
    BY <2>1, <2>4, <2>5, <2>6 DEF Dormant
<1>3. ASSUME BeginSwitch PROVE Dormant(k)'
  <2>1. CASE Head(requests)
    <3>1. generation' = g + 1 /\ UNCHANGED records
      BY <2>1, <1>3 DEF BeginSwitch
    <3>2. k[2] <= g + 1
      BY <1>1
    <3> QED
      BY <3>1, <3>2 DEF Dormant
  <2>2. CASE ~Head(requests)
    <3>1. records' = disable_background(records) /\ UNCHANGED generation
      BY <2>2, <1>3 DEF BeginSwitch
    <3>2. \A i \in DOMAIN records : records[i] \in Record
      BY <1>1, RecordsFacts
    <3>3. DOMAIN records' = DOMAIN records
          /\ \A i \in DOMAIN records :
               /\ records'[i].key = records[i].key /\ records'[i].stale = records[i].stale
               /\ ~records[i].enabled => ~records'[i].enabled
      BY <3>1, <3>2 DEF disable_background, Record
    <3> QED
      BY <3>1, <3>3 DEF Dormant
  <2> QED
    BY <2>1, <2>2
<1>4. ASSUME RegisterPending PROVE Dormant(k)'
  <2> DEFINE ds == switching.defs
             u == register(Table, ds, g)
  <2>1. records' = u.records /\ UNCHANGED generation /\ RegistryFree
    BY <1>4 DEF RegisterPending
  <2>2. ds \in Seq(Definitions) /\ Tabled(Table.records, Table.bridge) /\ Table.records = records
    BY <2>1, FreeTable DEF Inv, TypeOK, Table
  <2> HIDE DEF g, ds
  <2>3. Folded(Table, ds, g, Len(ds), u) /\ DOMAIN ds = 1 .. Len(ds)
    BY <2>2, <1>1, Registers, LenProperties
  <2> HIDE DEF u
  <2>4. \A i \in DOMAIN u.records :
          \/ \E m \in DOMAIN ds : u.records[i] = Made(ds, g, m)
          \/ i \in DOMAIN records /\ u.records[i] = records[i]
    BY <2>2, <2>3 DEF Folded
  <2>5. \A m \in DOMAIN ds : Made(ds, g, m).key[2] \in {0, g + 1}
    BY <2>2, <1>1, MadeFacts
  <2>6. k[2] \notin {0, g + 1}
    BY <1>1
  <2> QED
    BY <2>1, <2>4, <2>5, <2>6 DEF Dormant
<1>5. ASSUME NEW l \in DOMAIN loads, Discover(l) \/ StoreLoaded(l) \/ Replace(l) PROVE Still
  BY <1>5 DEF Discover, StoreLoaded, Replace, tableVars
<1>6. ASSUME \/ EndSwitch \/ RewriteBridge \/ WorkerExits \/ HubSwitch \/ committed \/ enqueue \/ eventarc_register
             \/ eventarc_remove \/ eventarc_publish \/ Shutdown \/ EditSource \/ Debounced
             \/ UNCHANGED vars
      PROVE  Still
  BY <1>6 DEF EndSwitch, RewriteBridge, WorkerExits, HubSwitch, committed, enqueue, eventarc_register,
              eventarc_remove, eventarc_publish, Shutdown, EditSource, Debounced, vars, tableVars
<1>7. ASSUME Coordinate PROVE Still
  BY <1>7 DEF Coordinate, Receive, Close, Drain, End, Join, tableVars
<1>8. ASSUME NEW i \in DOMAIN deliveries, Attempt(i) PROVE Still
  BY <1>8 DEF Attempt, Lookup, ConnectFails, Origin, Answered, Unanswered, tableVars
<1>9. ASSUME Still PROVE Dormant(k)'
  BY <1>9 DEF Dormant
<1> HIDE DEF Still
<1> QED
  BY <1>2, <1>3, <1>4, <1>5, <1>6, <1>7, <1>8, <1>9 DEF Next, Reload, Switch

-----------------------------------------------------------------------------
(* Steps of the delivery. *)

LEMMA InFlightFinite ==
    ASSUME NEW S, NEW ds \in Seq(S)
    PROVE  IsFiniteSet(InFlight(ds)) /\ Cardinality(InFlight(ds)) \in Nat
<1>1. Len(ds) \in Nat /\ DOMAIN ds = 1 .. Len(ds)
  BY SeqFacts
<1>2. IsFiniteSet(1 .. Len(ds)) /\ InFlight(ds) \subseteq 1 .. Len(ds)
  BY <1>1, FS_Interval DEF InFlight
<1> QED
  BY <1>2, FS_Subset, FS_CardinalityType

(* The counters when a request is admitted, when it is a duplicate, and when *)
(* a delivery ends.                                                          *)
LEMMA CountAdmitted ==
    ASSUME NEW h \in Health, NEW k, k = [h EXCEPT !.admitted = @ + 1]
    PROVE  /\ k \in Health
           /\ k.admitted = h.admitted + 1 /\ k.deduplicated = h.deduplicated
           /\ k.delivered = h.delivered /\ k.assumed = h.assumed /\ k.failed = h.failed
  BY DEF Health

LEMMA CountDuplicate ==
    ASSUME NEW h \in Health, NEW k, k = [h EXCEPT !.deduplicated = @ + 1]
    PROVE  /\ k \in Health
           /\ k.admitted = h.admitted /\ k.deduplicated = h.deduplicated + 1
           /\ k.delivered = h.delivered /\ k.assumed = h.assumed /\ k.failed = h.failed
  BY DEF Health

LEMMA OneLess == ASSUME NEW r \in Nat, NEW a \in Nat \ {0} PROVE r + a - 1 \in Nat
  OBVIOUS

LEMMA OneMore ==
    ASSUME NEW d \in Nat, NEW s \in Nat, NEW f \in Nat
    PROVE  /\ d + 1 \in Nat /\ s + 1 \in Nat /\ f + 1 \in Nat
           /\ (d + 1) + s + f = d + s + f + 1
           /\ d + (s + 1) + f = d + s + f + 1
           /\ d + s + (f + 1) = d + s + f + 1
  OBVIOUS

Outcome(h, o, a) == [h EXCEPT ![o] = @ + 1, !.retries = @ + a - 1]

LEMMA CountOutcome ==
    ASSUME NEW h \in Health, NEW o \in {"delivered", "assumed", "failed"}, NEW a \in Nat \ {0}
    PROVE  /\ Outcome(h, o, a) \in Health
           /\ Outcome(h, o, a).admitted = h.admitted
           /\ Outcome(h, o, a).deduplicated = h.deduplicated
           /\ Outcome(h, o, a).delivered + Outcome(h, o, a).assumed + Outcome(h, o, a).failed
                = h.delivered + h.assumed + h.failed + 1
<1> DEFINE d == h.delivered
           s == h.assumed
           f == h.failed
           w == h.retries + a - 1
<1>1. h.retries \in Nat /\ d \in Nat /\ s \in Nat /\ f \in Nat
  BY DEF Health
<1>2. w \in Nat
  BY <1>1, OneLess
<1>3. /\ d + 1 \in Nat /\ s + 1 \in Nat /\ f + 1 \in Nat
      /\ (d + 1) + s + f = d + s + f + 1
      /\ d + (s + 1) + f = d + s + f + 1
      /\ d + s + (f + 1) = d + s + f + 1
  BY <1>1, OneMore
<1>4. CASE o = "delivered"
  <2> DEFINE v == d + 1
             k == [h EXCEPT !.delivered = v, !.retries = w]
  <2>1. Outcome(h, o, a) = k
    BY <1>4 DEF Outcome
  <2>2. v \in Nat
    BY <1>3
  <2> HIDE DEF v, w
  <2>3. /\ k \in Health /\ k.admitted = h.admitted /\ k.deduplicated = h.deduplicated
        /\ k.delivered = v /\ k.assumed = s /\ k.failed = f
    BY <2>2, <1>2 DEF Health
  <2> HIDE DEF k
  <2> QED
    BY <2>1, <2>3, <1>3 DEF v
<1>5. CASE o = "assumed"
  <2> DEFINE v == s + 1
             k == [h EXCEPT !.assumed = v, !.retries = w]
  <2>1. Outcome(h, o, a) = k
    BY <1>5 DEF Outcome
  <2>2. v \in Nat
    BY <1>3
  <2> HIDE DEF v, w
  <2>3. /\ k \in Health /\ k.admitted = h.admitted /\ k.deduplicated = h.deduplicated
        /\ k.delivered = d /\ k.assumed = v /\ k.failed = f
    BY <2>2, <1>2 DEF Health
  <2> HIDE DEF k
  <2> QED
    BY <2>1, <2>3, <1>3 DEF v
<1>6. CASE o = "failed"
  <2> DEFINE v == f + 1
             k == [h EXCEPT !.failed = v, !.retries = w]
  <2>1. Outcome(h, o, a) = k
    BY <1>6 DEF Outcome
  <2>2. v \in Nat
    BY <1>3
  <2> HIDE DEF v, w
  <2>3. /\ k \in Health /\ k.admitted = h.admitted /\ k.deduplicated = h.deduplicated
        /\ k.delivered = d /\ k.assumed = s /\ k.failed = v
    BY <2>2, <1>2 DEF Health
  <2> HIDE DEF k
  <2> QED
    BY <2>1, <2>3, <1>3 DEF v
<1> QED
  BY <1>4, <1>5, <1>6

(* RunsOnce is about runs, their deliveries' events and what was dropped. *)
LEMMA RunsKept ==
    ASSUME RunsOnce, runs' = runs, dropped \subseteq dropped',
           \A r \in DOMAIN runs : runs[r].delivery \in DOMAIN deliveries,
           \A i \in DOMAIN deliveries : /\ deliveries'[i].event = deliveries[i].event
                                        /\ deliveries'[i].cast = deliveries[i].cast
    PROVE  RunsOnce'
<1> SUFFICES ASSUME NEW i \in DOMAIN runs, NEW j \in DOMAIN runs, i < j,
                    ~deliveries[runs[i].delivery].cast, ~deliveries[runs[j].delivery].cast,
                    deliveries[runs[i].delivery].event.id = deliveries[runs[j].delivery].event.id,
                    deliveries[runs[i].delivery].event.key[1] = deliveries[runs[j].delivery].event.key[1]
             PROVE  ~runs[i].sure \/ event_id(deliveries[runs[j].delivery].event) \in dropped'
  BY DEF RunsOnce
<1> QED
  BY DEF RunsOnce

(* Steps that leave requests, deliveries and runs alone. *)
LEMMA QuietStep ==
    ASSUME Inv, [Next]_vars, Delivering,
           UNCHANGED <<sent, queue, seen, dropped, deliveries, runs, health>>,
           external' \in Seq(Subscribable), revision' \in Nat, revision <= revision',
           stopping' = "ended" => queue = <<>> /\ InFlight(deliveries) = {}
    PROVE  Delivering'
<1>1. DeliveryTypes'
  BY DEF Delivering, DeliveryTypes
<1>2. AdmittedOK' /\ RanOK'
  BY DEF Delivering, AdmittedOK, RanOK
<1>3. SentOK'
  <2> SUFFICES ASSUME NEW i \in DOMAIN sent, sent[i].id[1] = "change"
               PROVE  sent[i].id[2] <= revision' /\ sent[i].key[2] # 0
    BY DEF SentOK
  <2>1. sent[i].id[2] <= revision /\ sent[i].key[2] # 0
    BY DEF Delivering, SentOK
  <2>2. sent[i].id[2] \in Nat /\ revision \in Nat
    <3>1. sent[i] \in Queued
      BY SeqFacts DEF Delivering, DeliveryTypes
    <3> QED
      BY <3>1, EventsAssumption DEF Queued, Delivering, DeliveryTypes
  <2> QED
    BY <2>1, <2>2
<1>4. OutdatedSleeps'
  <2> SUFFICES ASSUME NEW e \in ToSet(sent), Outdated(e)
               PROVE  Dormant(e.key)'
    BY DEF OutdatedSleeps, Outdated, ToSet
  <2>1. Dormant(e.key)
    BY DEF Delivering, OutdatedSleeps
  <2>2. e \in Queued
    BY SeqFacts DEF Delivering, DeliveryTypes
  <2>3. e.key[2] \in Nat /\ e.key[2] # 0
    BY <2>2 DEF Outdated, Older, Delivering, SentOK, ToSet, Queued
  <2> QED
    BY <2>1, <2>3, DormantStays
<1>5. NewestRuns'
  BY DEF Delivering, NewestRuns, Chosen, Outdated, ToSet
<1>6. EventsRunOnce'
  <2>1. RunsOnce'
    BY DEF Delivering, EventsRunOnce, RunsOnce
  <2>2. NothingLost'
    BY DEF Delivering, EventsRunOnce, NothingLost, InFlight
  <2> QED
    BY <2>1, <2>2 DEF EventsRunOnce
<1> QED
  BY <1>1, <1>2, <1>3, <1>4, <1>5, <1>6 DEF Delivering

(* Requests are sent: ids of their own commit, the older of twins dormant. *)
LEMMA SendStep ==
    ASSUME Delivering, NEW new \in Seq(Queued),
           sent' = sent \o new, queue' = queue \o new,
           UNCHANGED <<records, generation, seen, dropped, deliveries, runs, health, stopping, external>>,
           revision' \in Nat, revision <= revision', stopping # "ended",
           \A e \in ToSet(new) : e.id[1] = "change" =>
             revision < e.id[2] /\ e.id[2] <= revision' /\ e.key[2] # 0,
           \A e, f \in ToSet(new) : Older(e, f) => Dormant(e.key)
    PROVE  Delivering'
<1>1. sent \in Seq(Queued) /\ queue \in Seq(Queued) /\ revision \in Nat
  BY DEF Delivering, DeliveryTypes
<1>2. /\ sent' \in Seq(Queued) /\ Len(sent') = Len(sent) + Len(new)
      /\ ToSet(sent') = ToSet(sent) \cup ToSet(new)
  BY <1>1, ConcatFacts
<1>3. /\ queue' \in Seq(Queued) /\ Len(queue') = Len(queue) + Len(new)
      /\ ToSet(queue') = ToSet(queue) \cup ToSet(new)
  BY <1>1, ConcatFacts
<1>4. Len(sent) \in Nat /\ Len(queue) \in Nat /\ Len(new) \in Nat
      /\ ToSet(sent) \subseteq Queued /\ ToSet(new) \subseteq Queued
  BY <1>1, SeqFacts
<1>5. \A e \in Queued : e.id[1] = "change" => e.id[2] \in Nat
  BY EventsAssumption DEF Queued
<1>6. \A e \in ToSet(sent) : e.id[1] = "change" => e.id[2] <= revision /\ e.key[2] # 0
  BY DEF Delivering, SentOK, ToSet
<1>7. \A e \in ToSet(sent), f \in ToSet(new) : ~Older(e, f) /\ ~Older(f, e)
  <2> SUFFICES ASSUME NEW e \in ToSet(sent), NEW f \in ToSet(new), e.id = f.id, e.id[1] = "change"
               PROVE  FALSE
    BY DEF Older
  <2>1. e.id[2] <= revision /\ revision < f.id[2] /\ e.id[2] \in Nat
    BY <1>4, <1>5, <1>6
  <2> QED
    BY <2>1, <1>1
<1>8. /\ \A e \in ToSet(sent) : Outdated(e)' <=> Outdated(e)
      /\ \A e \in ToSet(new) : Outdated(e)' => Dormant(e.key)
  BY <1>2, <1>7 DEF Outdated
<1>9. DeliveryTypes'
  BY <1>2, <1>3 DEF Delivering, DeliveryTypes
<1>10. AdmittedOK'
  <2>1. ToSet(queue') \subseteq ToSet(sent')
    BY <1>2, <1>3 DEF Delivering, AdmittedOK
  <2>2. \A i \in DOMAIN deliveries : ~deliveries[i].cast =>
       /\ deliveries[i].event \in ToSet(sent')
       /\ event_id(deliveries[i].event) \in Ids(seen) \cup dropped
    BY <1>2 DEF Delivering, AdmittedOK
  <2> QED
    BY <2>1, <2>2 DEF Delivering, AdmittedOK
<1>11. RanOK'
  BY DEF Delivering, RanOK
<1>12. SentOK'
  <2> SUFFICES ASSUME NEW e \in ToSet(sent'), e.id[1] = "change"
               PROVE  e.id[2] <= revision' /\ e.key[2] # 0
    BY DEF SentOK, ToSet
  <2>1. CASE e \in ToSet(new)
    BY <2>1
  <2>2. CASE e \in ToSet(sent)
    <3>1. e.id[2] <= revision /\ e.key[2] # 0 /\ e.id[2] \in Nat
      BY <2>2, <1>4, <1>5, <1>6
    <3> QED
      BY <3>1, <1>1
  <2> QED
    BY <2>1, <2>2, <1>2
<1>13. OutdatedSleeps'
  <2> SUFFICES ASSUME NEW e \in ToSet(sent'), Outdated(e)' PROVE Dormant(e.key)'
    BY DEF OutdatedSleeps
  <2>1. Dormant(e.key)
    BY <1>2, <1>8 DEF Delivering, OutdatedSleeps
  <2> QED
    BY <2>1 DEF Dormant
<1>14. NewestRuns'
  <2> SUFFICES ASSUME NEW i \in DOMAIN deliveries, ~deliveries[i].cast, Chosen(i)
               PROVE  ~Outdated(deliveries[i].event)'
    BY DEF NewestRuns, Chosen, Outdated
  <2>1. deliveries[i].event \in ToSet(sent) /\ ~Outdated(deliveries[i].event)
    BY DEF Delivering, AdmittedOK, NewestRuns
  <2> QED
    BY <2>1, <1>8
<1>15. EventsRunOnce'
  <2>1. RunsOnce'
    BY DEF Delivering, EventsRunOnce, RunsOnce
  <2>2. health.admitted \in Nat /\ health.deduplicated \in Nat
    BY DEF Delivering, DeliveryTypes, Health
  <2>3. Len(sent) = Len(queue) + health.admitted + health.deduplicated
    BY DEF Delivering, EventsRunOnce, NothingLost
  <2>4. Len(sent') = Len(queue') + health.admitted + health.deduplicated
    BY <2>2, <2>3, <1>2, <1>3, <1>4
  <2>5. NothingLost'
    BY <2>4 DEF Delivering, EventsRunOnce, NothingLost, InFlight
  <2> QED
    BY <2>1, <2>5 DEF EventsRunOnce
<1> QED
  BY <1>9, <1>10, <1>11, <1>12, <1>13, <1>14, <1>15 DEF Delivering

(* The requests of a commit: each names a trigger of the bridge and a change. *)
LEMMA CommitRequests ==
    ASSUME Inv, NEW changes \in Commits, NEW s \in Orders(Concerned(changes)), NEW rev \in Nat,
           NEW new, new = [i \in DOMAIN s |-> build_dispatch(s[i][2], rev, s[i][1])]
    PROVE  /\ new \in Seq(Queued)
           /\ \A e \in ToSet(new) : \E c \in Nat, i \in DOMAIN records :
                /\ records[i].key[2] # 0
                /\ e = [key |-> records[i].key, id |-> <<"change", rev, c>>]
<1> DEFINE P == Concerned(changes)
<1>1. records \in Seq(Record) /\ Passing(bridge, records)
  <2>1. bridge \in ToSet(rewrite.left) \cup {bridge}
    OBVIOUS
  <2> QED
    BY <2>1 DEF Inv, TableOK, Tabled, BridgeOK, Bridged
<1>2. \A i \in DOMAIN records : records[i] \in Record
  BY <1>1, RecordsFacts
<1>3. IsFiniteSet(bridge)
  BY <1>1 DEF Passing
<1>4. changes \in Seq(ToSet(changes))
  BY EventsAssumption
<1>5. Len(changes) \in Nat /\ DOMAIN changes = 1 .. Len(changes)
  BY <1>4, SeqFacts
<1>6. Cardinality(P) \in Nat
  <2>1. IsFiniteSet(1 .. Len(changes)) /\ P \subseteq (1 .. Len(changes)) \X bridge
    BY <1>5, FS_Interval DEF Concerned
  <2>2. IsFiniteSet((1 .. Len(changes)) \X bridge)
    BY <2>1, <1>3, FS_Product
  <2> HIDE DEF P
  <2>3. IsFiniteSet(P)
    BY <2>1, <2>2, FS_Subset
  <2> QED
    BY <2>3, FS_CardinalityType
<1>7. s \in [1 .. Cardinality(P) -> P] /\ DOMAIN s = 1 .. Cardinality(P)
  BY DEF Orders
<1>8. \A p \in P : p[1] \in Nat /\ p[2] \in bridge
  BY <1>5 DEF Concerned
<1>9. \A x \in bridge : \E i \in DOMAIN records : records[i].key[2] # 0 /\ x.key = records[i].key
  BY <1>1 DEF Passing
<1>10. \A i \in DOMAIN s : s[i][1] \in Nat /\ s[i][2] \in bridge
  <2>1. \A i \in DOMAIN s : s[i] \in P
    BY <1>7
  <2> HIDE DEF P
  <2> QED
    BY <2>1, <1>8
<1> HIDE DEF P
<1>11. ASSUME NEW i \in DOMAIN s
       PROVE  /\ new[i] \in Queued
              /\ \E c \in Nat, j \in DOMAIN records :
                   /\ records[j].key[2] # 0
                   /\ new[i] = [key |-> records[j].key, id |-> <<"change", rev, c>>]
  <2>1. new[i] = [key |-> s[i][2].key, id |-> <<"change", rev, s[i][1]>>]
    BY DEF build_dispatch
  <2>2. PICK j \in DOMAIN records : records[j].key[2] # 0 /\ s[i][2].key = records[j].key
    BY <1>9, <1>10
  <2>3. records[j].key \in (Names \cup {"*"}) \X Nat
    <3>1. records[j] \in Record
      BY <1>2
    <3> QED
      BY <3>1 DEF Record
  <2>4. <<"change", rev, s[i][1]>> \in {"change"} \X Nat \X Nat
    BY <1>10
  <2>5. new[i] = [key |-> records[j].key, id |-> <<"change", rev, s[i][1]>>]
    BY <2>1, <2>2
  <2>6. new[i] \in Queued
    BY <2>3, <2>4, <2>5 DEF Queued
  <2> QED
    BY <2>2, <2>5, <2>6, <1>10
<1>12. DOMAIN new = 1 .. Cardinality(P) /\ DOMAIN new = DOMAIN s
  BY <1>7
<1>13. new \in Seq(Queued)
  <2>1. new \in [1 .. Cardinality(P) -> Queued]
    BY <1>11, <1>12
  <2> QED
    BY <2>1, <1>6, SeqDef
<1>14. \A e \in ToSet(new) : \E i \in DOMAIN s : e = new[i]
  <2> HIDE DEF P
  <2> QED
    BY <1>12 DEF ToSet
<1>15. ASSUME NEW e \in ToSet(new)
       PROVE  \E c \in Nat, i \in DOMAIN records :
                /\ records[i].key[2] # 0
                /\ e = [key |-> records[i].key, id |-> <<"change", rev, c>>]
  <2>1. PICK i \in DOMAIN s : e = new[i]
    BY <1>14
  <2>2. PICK c \in Nat, j \in DOMAIN records :
          /\ records[j].key[2] # 0
          /\ new[i] = [key |-> records[j].key, id |-> <<"change", rev, c>>]
    BY <1>11
  <2> QED
    BY <2>1, <2>2
<1> QED
  BY <1>13, <1>15

(* committed: of two generations told of a change the older is dormant. *)
LEMMA CommittedStep ==
    ASSUME Inv, Ladder, Delivering, committed
    PROVE  Delivering'
<1>1. /\ revision' = revision + 1
      /\ UNCHANGED <<records, generation, seen, dropped, deliveries, runs, health, stopping, external>>
  BY DEF committed, tableVars, eventVars
<1>2. revision \in Nat /\ external \in Seq(Subscribable) /\ generation \in Nat
  BY DEF Delivering, DeliveryTypes, Inv, TypeOK
<1>3. revision' \in Nat /\ revision <= revision' /\ revision < revision'
  BY <1>1, <1>2
<1>4. CASE Closed
  <2>1. UNCHANGED <<sent, queue>>
    BY <1>4 DEF committed
  <2>2. [Next]_vars
    BY DEF Next
  <2>3. stopping' = "ended" => queue = <<>> /\ InFlight(deliveries) = {}
    BY <1>1 DEF Delivering, EventsRunOnce, NothingLost
  <2>4. external' \in Seq(Subscribable)
    BY <1>1, <1>2
  <2> QED
    BY <2>1, <2>2, <2>3, <2>4, <1>1, <1>3, QuietStep
<1>5. CASE ~Closed
  <2>1. PICK changes \in Commits : \E s \in Orders(Concerned(changes)) :
          LET new == [i \in DOMAIN s |-> build_dispatch(s[i][2], revision', s[i][1])]
          IN queue' = queue \o new /\ sent' = sent \o new
    BY <1>5 DEF committed
  <2>2. PICK s \in Orders(Concerned(changes)) :
          LET new == [i \in DOMAIN s |-> build_dispatch(s[i][2], revision', s[i][1])]
          IN queue' = queue \o new /\ sent' = sent \o new
    BY <2>1
  <2> DEFINE new == [i \in DOMAIN s |-> build_dispatch(s[i][2], revision', s[i][1])]
  <2>3. queue' = queue \o new /\ sent' = sent \o new
    BY <2>2
  <2>4. /\ new \in Seq(Queued)
        /\ \A e \in ToSet(new) : \E c \in Nat, i \in DOMAIN records :
             /\ records[i].key[2] # 0
             /\ e = [key |-> records[i].key, id |-> <<"change", revision', c>>]
    BY <1>3, CommitRequests
  <2> HIDE DEF new
  <2>5. \A i \in DOMAIN records : records[i].key \in Names \X Nat
    <3>1. \A i \in DOMAIN records : records[i] \in Record
      BY RecordsFacts DEF Inv, TableOK, Tabled
    <3> QED
      BY <3>1 DEF Record
  <2>7. ASSUME NEW e \in ToSet(new), e.id[1] = "change"
        PROVE  revision < e.id[2] /\ e.id[2] <= revision' /\ e.key[2] # 0
    <3>1. e.id[2] = revision' /\ e.key[2] # 0
      BY <2>4
    <3> QED
      BY <3>1, <1>3
  <2>8. ASSUME NEW e \in ToSet(new), NEW f \in ToSet(new), Older(e, f) PROVE Dormant(e.key)
    <3>1. PICK i \in DOMAIN records : records[i].key[2] # 0 /\ e.key = records[i].key
      BY <2>4
    <3>2. PICK j \in DOMAIN records : records[j].key[2] # 0 /\ f.key = records[j].key
      BY <2>4
    <3>3. records[i].key[1] = records[j].key[1] /\ records[i].key[2] < records[j].key[2]
      BY <3>1, <3>2, <2>8 DEF Older
    <3>4. records[i].stale \/ ~records[i].enabled
      BY <3>1, <3>3 DEF Ladder, NewestOK
    <3>5. records[i].key[2] <= generation
      <4>1. records[j].key[2] <= generation + 1
        BY DEF Ladder, KeysOK
      <4>2. records[i].key[2] \in Nat /\ records[j].key[2] \in Nat
        BY <2>5
      <4> QED
        BY <4>1, <4>2, <3>3, <1>2
    <3>6. \A n \in DOMAIN records : records[n].key = e.key => n = i
      BY <3>1 DEF Inv, TableOK, Tabled
    <3> QED
      BY <3>1, <3>4, <3>5, <3>6 DEF Dormant
  <2>9. stopping # "ended"
    BY <1>5 DEF Closed
  <2> QED
    BY <2>3, <2>4, <2>7, <2>8, <2>9, <1>1, <1>3, SendStep
<1> QED
  BY <1>4, <1>5

(* enqueue: a message is no change. *)
LEMMA EnqueueStep ==
    ASSUME Inv, Delivering, enqueue
    PROVE  Delivering'
<1>1. UNCHANGED <<records, generation, seen, dropped, deliveries, runs, health, stopping, external, revision>>
  BY DEF enqueue, tableVars
<1>2. revision \in Nat /\ external \in Seq(Subscribable) /\ sent \in Seq(Queued) /\ queue \in Seq(Queued)
  BY DEF Delivering, DeliveryTypes
<1>3. CASE Closed
  <2>1. UNCHANGED <<sent, queue>>
    BY <1>3 DEF enqueue
  <2>2. [Next]_vars
    BY DEF Next
  <2>3. stopping' = "ended" => queue = <<>> /\ InFlight(deliveries) = {}
    BY <1>1 DEF Delivering, EventsRunOnce, NothingLost
  <2>4. external' \in Seq(Subscribable) /\ revision' \in Nat /\ revision <= revision'
    BY <1>1, <1>2
  <2> QED
    BY <2>1, <2>2, <2>3, <2>4, <1>1, QuietStep
<1>4. CASE ~Closed
  <2>1. PICK m \in Messages, k \in {r.key : r \in {x \in {records[i] : i \in DOMAIN records} :
                                      x.def.service = "pubsub"}} \cup {Multicast} :
          queue' = Append(queue, [key |-> k, id |-> m]) /\ sent' = Append(sent, [key |-> k, id |-> m])
    BY <1>4 DEF enqueue
  <2> DEFINE e == [key |-> k, id |-> m]
             new == <<e>>
  <2>2. e \in Queued /\ e.id[1] # "change"
    <3>1. \A i \in DOMAIN records : records[i] \in Record
      BY RecordsFacts DEF Inv, TableOK, Tabled
    <3>2. k \in (Names \cup {"*"}) \X Nat
      BY <3>1, <2>1 DEF Record, Multicast
    <3> QED
      BY <3>2, EventsAssumption DEF Queued
  <2> HIDE DEF e
  <2>3. new \in Seq(Queued) /\ ToSet(new) = {e}
    BY <2>2 DEF ToSet
  <2>4. sent' = sent \o new /\ queue' = queue \o new
    BY <2>1, <2>2, <1>2, AppendIsConcat DEF e
  <2>5. \A x \in ToSet(new) : x.id[1] # "change"
    BY <2>2, <2>3
  <2>6. \A x, y \in ToSet(new) : ~Older(x, y)
    BY <2>5 DEF Older
  <2>7. stopping # "ended" /\ revision' \in Nat /\ revision <= revision'
    BY <1>1, <1>2, <1>4 DEF Closed
  <2> HIDE DEF new
  <2> QED
    BY <2>3, <2>4, <2>5, <2>6, <2>7, <1>1, SendStep
<1> QED
  BY <1>3, <1>4

(* A request received that is remembered is counted, and nothing else. *)
LEMMA DuplicateStep ==
    ASSUME Delivering, queue # <<>>, queue' = Tail(queue),
           event_id(Head(queue)) \in Ids(seen),
           SetCoordinator(admit_delivery(Coordinator, Head(queue))),
           UNCHANGED <<records, generation, stopping, sent, revision, runs, external>>
    PROVE  Delivering'
<1>1. /\ seen' = seen /\ dropped' = dropped /\ deliveries' = deliveries
      /\ health' = [health EXCEPT !.deduplicated = @ + 1]
  BY DEF SetCoordinator, admit_delivery, Coordinator
<1>2. queue \in Seq(Queued) /\ sent \in Seq(Queued)
      /\ health \in Health
  BY DEF Delivering, DeliveryTypes
<1>3. queue' \in Seq(Queued) /\ Len(queue) = Len(queue') + 1 /\ ToSet(queue') \subseteq ToSet(queue)
      /\ Len(queue') \in Nat
  <2>1. Tail(queue) \in Seq(Queued) /\ Len(queue) = Len(Tail(queue)) + 1
        /\ ToSet(queue) = {Head(queue)} \cup ToSet(Tail(queue))
    BY <1>2, TailFacts
  <2> QED
    BY <2>1, SeqFacts
<1>4. /\ health' \in Health
      /\ health'.deduplicated = health.deduplicated + 1 /\ health'.admitted = health.admitted
      /\ health'.delivered = health.delivered /\ health'.assumed = health.assumed
      /\ health'.failed = health.failed
  BY <1>1, <1>2, CountDuplicate
<1>5. DeliveryTypes'
  BY <1>1, <1>3, <1>4 DEF Delivering, DeliveryTypes
<1>6. AdmittedOK'
  <2>1. ToSet(queue') \subseteq ToSet(sent)
    BY <1>3 DEF Delivering, AdmittedOK
  <2> QED
    BY <2>1, <1>1 DEF Delivering, AdmittedOK
<1>7. RanOK' /\ SentOK'
  BY <1>1 DEF Delivering, RanOK, SentOK
<1>8. OutdatedSleeps' /\ NewestRuns'
  BY <1>1 DEF Delivering, OutdatedSleeps, Outdated, Dormant, NewestRuns, Chosen
<1>9. RunsOnce'
  BY <1>1 DEF Delivering, EventsRunOnce, RunsOnce
<1>10. NothingLost'
  <2>1. Len(sent) = Len(queue) + health.admitted + health.deduplicated
    BY DEF Delivering, EventsRunOnce, NothingLost
  <2>2. health.admitted \in Nat /\ health.deduplicated \in Nat
    BY <1>2 DEF Health
  <2>3. Len(sent) = Len(queue') + health'.admitted + health'.deduplicated
    BY <2>1, <2>2, <1>3, <1>4
  <2>4. stopping # "ended"
    BY DEF Delivering, EventsRunOnce, NothingLost
  <2> QED
    BY <2>3, <2>4, <1>1, <1>4 DEF Delivering, EventsRunOnce, NothingLost, InFlight
<1> QED
  BY <1>5, <1>6, <1>7, <1>8, <1>9, <1>10 DEF Delivering, EventsRunOnce

(* A request received whose id is not remembered starts a delivery. *)
LEMMA AdmitStep ==
    ASSUME Delivering, queue # <<>>, queue' = Tail(queue),
           event_id(Head(queue)) \notin Ids(seen),
           SetCoordinator(admit_delivery(Coordinator, Head(queue))),
           UNCHANGED <<records, generation, stopping, sent, revision, runs, external>>
    PROVE  Delivering'
<1> DEFINE e == Head(queue)
           x == event_id(e)
           full == Len(seen) >= DedupeCapacity
           kept == IF full THEN Tail(seen) ELSE seen
           d == [event |-> e, attempt |-> 1, pc |-> "send", cast |-> FALSE]
           n == Len(deliveries) + 1
           EventIds == {event_id(f) : f \in Queued}
<1>1. /\ seen' = Append(kept, x)
      /\ dropped' = IF full THEN dropped \cup {Head(seen)} ELSE dropped
      /\ health' = [health EXCEPT !.admitted = @ + 1]
      /\ deliveries' = Append(deliveries, d)
  BY DEF SetCoordinator, admit_delivery, Coordinator
<1>2. queue \in Seq(Queued) /\ sent \in Seq(Queued) /\ seen \in Seq(EventIds)
      /\ deliveries \in Seq(Delivery)
      /\ health \in Health
  BY DEF Delivering, DeliveryTypes
<1>3. queue' \in Seq(Queued) /\ Len(queue) = Len(queue') + 1 /\ Len(queue') \in Nat
      /\ ToSet(queue') \subseteq ToSet(sent) /\ e \in ToSet(sent) /\ e \in Queued
  <2>1. Tail(queue) \in Seq(Queued) /\ Len(queue) = Len(Tail(queue)) + 1 /\ e \in Queued
        /\ ToSet(queue) = {e} \cup ToSet(Tail(queue))
    BY <1>2, TailFacts
  <2>2. ToSet(queue) \subseteq ToSet(sent)
    BY DEF Delivering, AdmittedOK
  <2> QED
    BY <2>1, <2>2, SeqFacts
<1>4. d \in Delivery
  <2>1. e \in Request
    BY <1>3 DEF Queued, Request
  <2> QED
    BY <2>1 DEF Delivery
<1>5. x \in EventIds
  BY <1>3
<1> HIDE DEF e, x, EventIds
<1>6. /\ kept \in Seq(EventIds)
      /\ Ids(seen) \cup dropped \subseteq Ids(kept) \cup dropped'
      /\ dropped \subseteq dropped'
  <2>1. CASE ~full
    BY <2>1, <1>1, <1>2
  <2>2. CASE full
    <3>1. seen # <<>>
      <4>1. Len(<<>>) = 0 /\ ~(0 >= DedupeCapacity)
        BY PolicyAssumption
      <4> QED
        BY <4>1, <2>2
    <3>2. Tail(seen) \in Seq(EventIds) /\ ToSet(seen) = {Head(seen)} \cup ToSet(Tail(seen))
      BY <3>1, <1>2, TailFacts
    <3>3. kept = Tail(seen) /\ dropped' = dropped \cup {Head(seen)}
      BY <2>2, <1>1
    <3>4. Ids(seen) = ToSet(seen) /\ Ids(kept) = ToSet(kept)
      BY DEF Ids, ToSet
    <3> QED
      BY <3>2, <3>3, <3>4
  <2> QED
    BY <2>1, <2>2
<1> HIDE DEF kept, full, d
<1>7. /\ seen' \in Seq(EventIds)
      /\ Ids(seen) \cup dropped \cup {x} \subseteq Ids(seen') \cup dropped'
  <2>1. seen' \in Seq(EventIds) /\ ToSet(seen') = ToSet(kept) \cup {x}
    BY <1>1, <1>5, <1>6, AppendFacts
  <2>2. Ids(seen') = Ids(kept) \cup {x}
    BY <2>1 DEF Ids, ToSet
  <2> QED
    BY <2>1, <2>2, <1>6
<1>8. /\ deliveries' \in Seq(Delivery)
      /\ DOMAIN deliveries' = DOMAIN deliveries \cup {n} /\ n \notin DOMAIN deliveries
      /\ (\A i \in DOMAIN deliveries : deliveries'[i] = deliveries[i]) /\ deliveries'[n] = d
  <2> DEFINE a == Append(deliveries, d)
  <2>1. /\ a \in Seq(Delivery)
        /\ DOMAIN a = DOMAIN deliveries \cup {n} /\ n \notin DOMAIN deliveries
        /\ (\A i \in DOMAIN deliveries : a[i] = deliveries[i]) /\ a[n] = d
    BY <1>2, <1>4, AppendFacts
  <2>2. deliveries' = a
    BY <1>1
  <2> HIDE DEF a, n
  <2> QED
    BY <2>1, <2>2
<1>9. d.event = e /\ d.pc = "send" /\ ~d.cast
  BY DEF d
<1> HIDE DEF n
<1>10. /\ health' \in Health
       /\ health'.admitted = health.admitted + 1 /\ health'.deduplicated = health.deduplicated
       /\ health'.delivered = health.delivered /\ health'.assumed = health.assumed
       /\ health'.failed = health.failed
  BY <1>1, <1>2, CountAdmitted
<1>11. DeliveryTypes'
  BY <1>3, <1>7, <1>8, <1>10 DEF Delivering, DeliveryTypes, EventIds
<1>12. \A i \in DOMAIN deliveries : ~deliveries[i].cast =>
         /\ deliveries[i].event \in ToSet(sent)
         /\ event_id(deliveries[i].event) \in Ids(seen) \cup dropped
  BY DEF Delivering, AdmittedOK
<1>13. AdmittedOK'
  <2>1. \A i \in DOMAIN deliveries' : ~deliveries'[i].cast =>
          /\ deliveries'[i].event \in ToSet(sent)
          /\ event_id(deliveries'[i].event) \in Ids(seen') \cup dropped'
    BY <1>3, <1>7, <1>8, <1>9, <1>12 DEF x
  <2>2. ASSUME NEW i \in DOMAIN deliveries', NEW j \in DOMAIN deliveries',
               ~deliveries'[i].cast, ~deliveries'[j].cast,
               event_id(deliveries'[i].event) = event_id(deliveries'[j].event),
               event_id(deliveries'[i].event) \notin dropped'
        PROVE  i = j
    <3>1. event_id(deliveries'[n].event) = x /\ x \notin Ids(seen)
      BY <1>8, <1>9 DEF x, e
    <3>2. CASE i = n /\ j # n
      <4>1. j \in DOMAIN deliveries /\ ~deliveries[j].cast /\ event_id(deliveries[j].event) = x
        BY <3>1, <3>2, <2>2, <1>8
      <4>2. x \in dropped
        BY <4>1, <3>1, <1>12
      <4> QED
        BY <4>2, <3>1, <3>2, <2>2, <1>6
    <3>3. CASE j = n /\ i # n
      <4>1. i \in DOMAIN deliveries /\ ~deliveries[i].cast /\ event_id(deliveries[i].event) = x
        BY <3>1, <3>3, <2>2, <1>8
      <4>2. x \in dropped
        BY <4>1, <3>1, <1>12
      <4> QED
        BY <4>1, <4>2, <3>3, <2>2, <1>6, <1>8
    <3>4. CASE i # n /\ j # n
      <4>1. i \in DOMAIN deliveries /\ j \in DOMAIN deliveries
            /\ ~deliveries[i].cast /\ ~deliveries[j].cast
            /\ event_id(deliveries[i].event) = event_id(deliveries[j].event)
            /\ event_id(deliveries[i].event) \notin dropped
        BY <3>4, <2>2, <1>6, <1>8
      <4> QED
        BY <4>1 DEF Delivering, AdmittedOK
    <3> QED
      BY <3>2, <3>3, <3>4
  <2> QED
    BY <2>1, <2>2, <1>3 DEF AdmittedOK
<1>14. \A r \in DOMAIN runs : runs[r].delivery \in DOMAIN deliveries
  BY DEF Delivering, RanOK
<1>15. RanOK' /\ SentOK'
  BY <1>8, <1>14 DEF Delivering, RanOK, SentOK
<1>16. OutdatedSleeps'
  BY DEF Delivering, OutdatedSleeps, Outdated, Dormant
<1>17. NewestRuns'
  <2> SUFFICES ASSUME NEW i \in DOMAIN deliveries', ~deliveries'[i].cast, Chosen(i)'
               PROVE  ~Outdated(deliveries'[i].event)
    BY DEF NewestRuns, Outdated
  <2>1. i # n
    BY <1>8, <1>9, <1>14 DEF Chosen
  <2>2. i \in DOMAIN deliveries /\ ~deliveries[i].cast /\ Chosen(i) /\ deliveries'[i] = deliveries[i]
    BY <2>1, <1>8 DEF Chosen
  <2> QED
    BY <2>2 DEF Delivering, NewestRuns
<1>18. RunsOnce'
  BY <1>6, <1>8, <1>14 DEF Delivering, EventsRunOnce, RunsOnce
<1>19. NothingLost'
  <2>1. /\ Len(sent) = Len(queue) + health.admitted + health.deduplicated
        /\ health.admitted = health.delivered + health.assumed + health.failed
                             + Cardinality(InFlight(deliveries))
        /\ stopping # "ended"
    BY DEF Delivering, EventsRunOnce, NothingLost
  <2>2. InFlight(deliveries') = InFlight(deliveries) \cup {n} /\ n \notin InFlight(deliveries)
    BY <1>8, <1>9 DEF InFlight
  <2>3. IsFiniteSet(InFlight(deliveries)) /\ Cardinality(InFlight(deliveries)) \in Nat
    BY <1>2, InFlightFinite
  <2>4. Cardinality(InFlight(deliveries')) = Cardinality(InFlight(deliveries)) + 1
    BY <2>2, <2>3, FS_AddElement
  <2>5. health.admitted \in Nat /\ health.deduplicated \in Nat /\ health.delivered \in Nat
        /\ health.assumed \in Nat /\ health.failed \in Nat
    BY <1>2 DEF Health
  <2>6. Len(sent) = Len(queue') + health'.admitted + health'.deduplicated
    BY <2>1, <2>5, <1>3, <1>10
  <2>7. health'.admitted = health'.delivered + health'.assumed + health'.failed
                           + Cardinality(InFlight(deliveries'))
    <3> DEFINE b == health.delivered + health.assumed + health.failed
               c == Cardinality(InFlight(deliveries))
    <3>1. health.admitted = b + c /\ b \in Nat /\ c \in Nat
      BY <2>1, <2>3, <2>5
    <3>2. /\ health'.admitted = health.admitted + 1 /\ Cardinality(InFlight(deliveries')) = c + 1
          /\ health'.delivered + health'.assumed + health'.failed = b
      BY <2>4, <1>10
    <3> HIDE DEF b, c
    <3>3. health'.admitted = b + (c + 1)
      BY <3>1, <3>2
    <3> QED
      BY <3>2, <3>3
  <2> QED
    BY <2>1, <2>6, <2>7 DEF NothingLost
<1> QED
  BY <1>11, <1>13, <1>15, <1>16, <1>17, <1>18, <1>19 DEF Delivering, EventsRunOnce

(* Join: an outcome takes its delivery out of flight. *)
LEMMA JoinStep ==
    ASSUME Delivering, NEW n \in DOMAIN deliveries, Join(n)
    PROVE  Delivering'
<1> DEFINE d == [deliveries[n] EXCEPT !.pc = "joined"]
<1>1. /\ n \in InFlight(deliveries) /\ deliveries[n].pc \in {"delivered", "assumed", "failed"}
      /\ health' = [health EXCEPT ![deliveries[n].pc] = @ + 1,
                                  !.retries = @ + deliveries[n].attempt - 1]
      /\ deliveries' = [deliveries EXCEPT ![n] = d]
      /\ UNCHANGED <<records, generation, queue, seen, stopping, sent, dropped, revision, external, runs>>
  BY DEF Join, tableVars, eventVars
<1>2. deliveries \in Seq(Delivery)
      /\ health \in Health
  BY DEF Delivering, DeliveryTypes
<1>3. deliveries[n] \in Delivery /\ DOMAIN deliveries = 1 .. Len(deliveries)
  BY <1>2, SeqFacts
<1>4. d \in Delivery /\ d.pc = "joined" /\ d.event = deliveries[n].event /\ d.cast = deliveries[n].cast
  BY <1>3 DEF Delivery
<1> HIDE DEF d
<1>5. /\ deliveries' \in Seq(Delivery) /\ DOMAIN deliveries' = DOMAIN deliveries
      /\ deliveries'[n] = d /\ \A i \in DOMAIN deliveries : i # n => deliveries'[i] = deliveries[i]
  <2>1. deliveries' \in Seq(Delivery)
    BY <1>1, <1>2, <1>3, <1>4, ExceptSeq
  <2> QED
    BY <2>1, <1>1
<1>6. deliveries[n].attempt \in Nat \ {0}
  BY <1>3 DEF Delivery
<1>7. /\ health' \in Health
      /\ health'.admitted = health.admitted /\ health'.deduplicated = health.deduplicated
      /\ health'.delivered + health'.assumed + health'.failed
           = health.delivered + health.assumed + health.failed + 1
  <2> DEFINE o == deliveries[n].pc
             a == deliveries[n].attempt
             k == Outcome(health, o, a)
  <2>1. o \in {"delivered", "assumed", "failed"} /\ a \in Nat \ {0} /\ health' = k
    BY <1>1, <1>6 DEF Outcome
  <2> HIDE DEF o, a
  <2>2. /\ k \in Health
        /\ k.admitted = health.admitted /\ k.deduplicated = health.deduplicated
        /\ k.delivered + k.assumed + k.failed = health.delivered + health.assumed + health.failed + 1
    BY <2>1, <1>2, CountOutcome
  <2> HIDE DEF k
  <2> QED
    BY <2>1, <2>2
<1>8. \A i \in DOMAIN deliveries : /\ deliveries'[i].event = deliveries[i].event
                                   /\ deliveries'[i].cast = deliveries[i].cast
                                   /\ deliveries[i].pc \in Over => deliveries'[i].pc \in Over
                                   /\ deliveries'[i].pc \in {"found", "calling"} => deliveries'[i].pc = deliveries[i].pc
  BY <1>4, <1>5 DEF Over
<1>9. DeliveryTypes'
  BY <1>1, <1>5, <1>7 DEF Delivering, DeliveryTypes
<1>10. AdmittedOK'
  <2>1. /\ ToSet(queue) \subseteq ToSet(sent)
        /\ \A i \in DOMAIN deliveries' : ~deliveries'[i].cast =>
             /\ deliveries'[i].event \in ToSet(sent)
             /\ event_id(deliveries'[i].event) \in Ids(seen) \cup dropped
    BY <1>5, <1>8 DEF Delivering, AdmittedOK
  <2>2. \A i, j \in DOMAIN deliveries' :
          /\ ~deliveries'[i].cast /\ ~deliveries'[j].cast
          /\ event_id(deliveries'[i].event) = event_id(deliveries'[j].event)
          /\ event_id(deliveries'[i].event) \notin dropped
          => i = j
    BY <1>5, <1>8 DEF Delivering, AdmittedOK
  <2> QED
    BY <2>1, <2>2, <1>1 DEF AdmittedOK
<1>11. RanOK' /\ SentOK'
  BY <1>1, <1>5, <1>8 DEF Delivering, RanOK, SentOK
<1>12. OutdatedSleeps'
  BY <1>1 DEF Delivering, OutdatedSleeps, Outdated, Dormant
<1>13. NewestRuns'
  <2> SUFFICES ASSUME NEW i \in DOMAIN deliveries, ~deliveries[i].cast, Chosen(i)'
               PROVE  ~Outdated(deliveries[i].event)
    BY <1>1, <1>5, <1>8 DEF NewestRuns, Outdated
  <2>1. Chosen(i)
    BY <1>1, <1>8 DEF Chosen
  <2> QED
    BY <2>1 DEF Delivering, NewestRuns
<1>14. RunsOnce'
  <2>1. \A r \in DOMAIN runs : runs[r].delivery \in DOMAIN deliveries
    BY DEF Delivering, RanOK
  <2> QED
    BY <2>1, <1>1, <1>8, RunsKept DEF Delivering, EventsRunOnce
<1>15. NothingLost'
  <2>1. /\ Len(sent) = Len(queue) + health.admitted + health.deduplicated
        /\ health.admitted = health.delivered + health.assumed + health.failed
                             + Cardinality(InFlight(deliveries))
        /\ stopping # "ended"
    BY <1>1 DEF Delivering, EventsRunOnce, NothingLost
  <2>2. InFlight(deliveries') = InFlight(deliveries) \ {n}
    BY <1>4, <1>5 DEF InFlight
  <2>3. IsFiniteSet(InFlight(deliveries)) /\ Cardinality(InFlight(deliveries)) \in Nat
        /\ Cardinality(InFlight(deliveries')) \in Nat
    BY <1>2, <1>5, InFlightFinite
  <2>4. Cardinality(InFlight(deliveries')) = Cardinality(InFlight(deliveries)) - 1
    BY <2>2, <2>3, <1>1, FS_RemoveElement
  <2>5. /\ health.delivered + health.assumed + health.failed \in Nat
        /\ health'.delivered + health'.assumed + health'.failed \in Nat
    BY <1>2, <1>7 DEF Health
  <2>6. health'.admitted = health'.delivered + health'.assumed + health'.failed
                           + Cardinality(InFlight(deliveries'))
    BY <2>1, <2>3, <2>4, <2>5, <1>7
  <2> QED
    BY <2>1, <2>6, <1>1, <1>7 DEF NothingLost
<1> QED
  BY <1>9, <1>10, <1>11, <1>12, <1>13, <1>14, <1>15 DEF Delivering, EventsRunOnce

-----------------------------------------------------------------------------
(* Attempts.  A step that moves deliveries: none changes its event, what is *)
(* over stays so, only what is not outdated is found, and new ones are not  *)
(* the coordinator's.                                                       *)

Moved(es) ==
  /\ es \in Seq(Delivery)
  /\ \A j \in DOMAIN deliveries :
       /\ j \in DOMAIN es
       /\ es[j].event = deliveries[j].event /\ es[j].cast = deliveries[j].cast
       /\ deliveries[j].pc \in Over => es[j].pc \in Over
       /\ es[j].pc = "joined" <=> deliveries[j].pc = "joined"
       /\ ~deliveries[j].cast /\ es[j].pc \in {"found", "calling"} =>
            deliveries[j].pc \in {"found", "calling"} \/ ~Outdated(deliveries[j].event)
  /\ \A j \in DOMAIN es : j \notin DOMAIN deliveries => es[j].cast

Casting(new) == new \in Seq(Delivery) /\ \A j \in DOMAIN new : new[j].cast

LEMMA MovedSame == ASSUME Delivering PROVE Moved(deliveries)
  BY DEF Moved, Delivering, DeliveryTypes

LEMMA MovedOne ==
    ASSUME Delivering, NEW n \in DOMAIN deliveries, NEW d \in Delivery,
           deliveries[n].pc \notin Over, d.pc # "joined",
           d.event = deliveries[n].event, d.cast = deliveries[n].cast,
           ~d.cast /\ d.pc \in {"found", "calling"} =>
             deliveries[n].pc \in {"found", "calling"} \/ ~Outdated(d.event)
    PROVE  Moved([deliveries EXCEPT ![n] = d])
<1> DEFINE es == [deliveries EXCEPT ![n] = d]
<1>1. deliveries \in Seq(Delivery)
  BY DEF Delivering, DeliveryTypes
<1>2. es \in Seq(Delivery) /\ DOMAIN es = DOMAIN deliveries
  BY <1>1, ExceptSeq
<1>3. es[n] = d /\ \A j \in DOMAIN deliveries : j # n => es[j] = deliveries[j]
  OBVIOUS
<1> HIDE DEF es
<1>4. deliveries[n].pc # "joined"
  BY DEF Over
<1> QED
  BY <1>2, <1>3, <1>4 DEF Moved, es

LEMMA MovedMore ==
    ASSUME Delivering, NEW es, Moved(es), NEW new, Casting(new)
    PROVE  Moved(es \o new)
<1> DEFINE fs == es \o new
<1>1. es \in Seq(Delivery) /\ new \in Seq(Delivery)
  BY DEF Moved, Casting
<1>2. /\ fs \in Seq(Delivery)
      /\ \A j \in DOMAIN es : j \in DOMAIN fs /\ fs[j] = es[j]
      /\ \A j \in DOMAIN fs :
           j \in DOMAIN es \/ (j \notin DOMAIN es /\ \E i \in DOMAIN new : fs[j] = new[i])
  BY <1>1, ConcatFacts
<1> HIDE DEF fs
<1>3. \A j \in DOMAIN fs : j \notin DOMAIN deliveries => fs[j].cast
  BY <1>2 DEF Moved, Casting
<1> QED
  BY <1>2, <1>3 DEF Moved, fs

(* What moving deliveries keeps. *)
LEMMA MovedKeeps ==
    ASSUME Delivering, Moved(deliveries'),
           UNCHANGED <<records, generation, queue, seen, stopping, health, sent, dropped, revision, external>>
    PROVE  /\ AdmittedOK' /\ SentOK' /\ OutdatedSleeps' /\ NothingLost'
           /\ \A j \in DOMAIN deliveries' : ~deliveries'[j].cast =>
                j \in DOMAIN deliveries /\ ~deliveries[j].cast
           /\ \A e : Outdated(e)' <=> Outdated(e)
<1>1. \A j \in DOMAIN deliveries' : ~deliveries'[j].cast => j \in DOMAIN deliveries /\ ~deliveries[j].cast
  BY DEF Moved
<1>2. \A j \in DOMAIN deliveries : j \in DOMAIN deliveries'
         /\ deliveries'[j].event = deliveries[j].event /\ deliveries'[j].cast = deliveries[j].cast
         /\ (deliveries'[j].pc = "joined" <=> deliveries[j].pc = "joined")
  BY DEF Moved
<1>3. AdmittedOK'
  <2>1. /\ ToSet(queue) \subseteq ToSet(sent)
        /\ \A i \in DOMAIN deliveries' : ~deliveries'[i].cast =>
             /\ deliveries'[i].event \in ToSet(sent)
             /\ event_id(deliveries'[i].event) \in Ids(seen) \cup dropped
    BY <1>1, <1>2 DEF Delivering, AdmittedOK
  <2>2. \A i, j \in DOMAIN deliveries' :
          /\ ~deliveries'[i].cast /\ ~deliveries'[j].cast
          /\ event_id(deliveries'[i].event) = event_id(deliveries'[j].event)
          /\ event_id(deliveries'[i].event) \notin dropped
          => i = j
    BY <1>1, <1>2 DEF Delivering, AdmittedOK
  <2> QED
    BY <2>1, <2>2 DEF AdmittedOK
<1>4. SentOK'
  BY DEF Delivering, SentOK
<1>5. \A e : Outdated(e)' <=> Outdated(e)
  BY DEF Outdated
<1>6. OutdatedSleeps'
  BY DEF Delivering, OutdatedSleeps, Outdated, Dormant
<1>7. InFlight(deliveries') = InFlight(deliveries)
  BY <1>1, <1>2 DEF InFlight
<1>8. NothingLost'
  BY <1>7 DEF Delivering, EventsRunOnce, NothingLost
<1> QED
  BY <1>1, <1>3, <1>4, <1>5, <1>6, <1>8

LEMMA MoveStep ==
    ASSUME Delivering, Moved(deliveries'), UNCHANGED runs,
           UNCHANGED <<records, generation, queue, seen, stopping, health, sent, dropped, revision, external>>
    PROVE  Delivering'
<1>1. /\ AdmittedOK' /\ SentOK' /\ OutdatedSleeps' /\ NothingLost'
      /\ \A j \in DOMAIN deliveries' : ~deliveries'[j].cast => j \in DOMAIN deliveries /\ ~deliveries[j].cast
      /\ \A e : Outdated(e)' <=> Outdated(e)
  BY MovedKeeps
<1>2. DeliveryTypes'
  BY DEF Delivering, DeliveryTypes, Moved
<1>3. RanOK'
  BY DEF Delivering, RanOK, Moved
<1>4. NewestRuns'
  <2> SUFFICES ASSUME NEW j \in DOMAIN deliveries', ~deliveries'[j].cast, Chosen(j)'
               PROVE  ~Outdated(deliveries'[j].event)
    BY DEF NewestRuns, Outdated
  <2>1. j \in DOMAIN deliveries /\ ~deliveries[j].cast /\ deliveries'[j].event = deliveries[j].event
    BY <1>1 DEF Moved
  <2>2. Chosen(j) \/ ~Outdated(deliveries[j].event)
    BY <2>1 DEF Chosen, Moved
  <2>3. ~Outdated(deliveries[j].event)
    BY <2>1, <2>2 DEF Delivering, NewestRuns
  <2> QED
    BY <2>1, <2>3
<1>5. RunsOnce'
  <2>1. \A r \in DOMAIN runs : runs[r].delivery \in DOMAIN deliveries
    BY DEF Delivering, RanOK
  <2>2. \A i \in DOMAIN deliveries : /\ deliveries'[i].event = deliveries[i].event
                                     /\ deliveries'[i].cast = deliveries[i].cast
    BY DEF Moved
  <2> QED
    BY <2>1, <2>2, RunsKept DEF Delivering, EventsRunOnce
<1> QED
  BY <1>1, <1>2, <1>3, <1>4, <1>5 DEF Delivering, EventsRunOnce

(* Two requests for a function and an event, neither outdated, are one. *)
LEMMA SameId ==
    ASSUME Delivering, NEW e \in ToSet(sent), NEW f \in ToSet(sent),
           e.id = f.id, e.key[1] = f.key[1], ~Outdated(e), ~Outdated(f)
    PROVE  event_id(e) = event_id(f)
<1>1. e \in Queued /\ f \in Queued
  BY SeqFacts DEF Delivering, DeliveryTypes
<1>2. CASE e.id[1] # "change"
  BY <1>2 DEF event_id
<1>3. CASE e.id[1] = "change"
  <2>1. ~(e.key[2] < f.key[2]) /\ ~(f.key[2] < e.key[2])
    BY <1>3 DEF Outdated, Older
  <2>2. e.key[2] \in Nat /\ f.key[2] \in Nat
        /\ e.key = <<e.key[1], e.key[2]>> /\ f.key = <<f.key[1], f.key[2]>>
        /\ e = [key |-> e.key, id |-> e.id] /\ f = [key |-> f.key, id |-> f.id]
    BY <1>1 DEF Queued
  <2>3. e.key[2] = f.key[2]
    BY <2>1, <2>2
  <2>4. e.key = f.key
    BY <2>2, <2>3
  <2>5. e = f
    BY <2>2, <2>4
  <2> QED
    BY <2>5
<1> QED
  BY <1>2, <1>3

(* A handler runs: the delivery is not outdated, and is over when it is sure. *)
LEMMA RunStep ==
    ASSUME Delivering, Moved(deliveries'), NEW n \in DOMAIN deliveries, NEW b \in BOOLEAN,
           deliveries[n].pc = "calling", runs' = Run(n, b), b => deliveries'[n].pc \in Over,
           UNCHANGED <<records, generation, queue, seen, stopping, health, sent, dropped, revision, external>>
    PROVE  Delivering'
<1> DEFINE R == [delivery : Nat, sure : BOOLEAN]
           m == Len(runs) + 1
           new == [delivery |-> n, sure |-> b]
<1>1. /\ AdmittedOK' /\ SentOK' /\ OutdatedSleeps' /\ NothingLost'
      /\ \A j \in DOMAIN deliveries' : ~deliveries'[j].cast => j \in DOMAIN deliveries /\ ~deliveries[j].cast
      /\ \A e : Outdated(e)' <=> Outdated(e)
  BY MovedKeeps
<1>2. runs \in Seq(R) /\ deliveries \in Seq(Delivery)
  BY DEF Delivering, DeliveryTypes
<1>3. new \in R
  BY <1>2, SeqFacts
<1>4. /\ runs' \in Seq(R) /\ DOMAIN runs' = DOMAIN runs \cup {m} /\ m \notin DOMAIN runs
      /\ (\A r \in DOMAIN runs : runs'[r] = runs[r]) /\ runs'[m] = new
      /\ \A r \in DOMAIN runs : r < m
  <2> DEFINE a == Append(runs, new)
  <2>1. /\ a \in Seq(R) /\ DOMAIN a = DOMAIN runs \cup {m} /\ m \notin DOMAIN runs
        /\ (\A r \in DOMAIN runs : a[r] = runs[r]) /\ a[m] = new
    BY <1>2, <1>3, AppendFacts
  <2>2. runs' = a
    BY DEF Run
  <2>3. Len(runs) \in Nat /\ DOMAIN runs = 1 .. Len(runs)
    BY <1>2, SeqFacts
  <2>4. \A r \in DOMAIN runs : r < m
    BY <2>3
  <2> HIDE DEF a, m, new
  <2> QED
    BY <2>1, <2>2, <2>4
<1>5. new.delivery = n /\ new.sure = b
  OBVIOUS
<1> HIDE DEF new, m
<1>6. DeliveryTypes'
  BY <1>4 DEF Delivering, DeliveryTypes, Moved
<1>7. /\ \A r \in DOMAIN runs : /\ runs[r].delivery \in DOMAIN deliveries
                                /\ runs[r].sure => deliveries[runs[r].delivery].pc \in Over
      /\ n \in DOMAIN deliveries'
  BY DEF Delivering, RanOK, Moved
<1>8. RanOK'
  <2> SUFFICES ASSUME NEW r \in DOMAIN runs'
               PROVE  /\ runs'[r].delivery \in DOMAIN deliveries'
                      /\ runs'[r].sure => deliveries'[runs'[r].delivery].pc \in Over
    BY DEF RanOK
  <2>1. CASE r = m
    BY <2>1, <1>4, <1>5, <1>7
  <2>2. CASE r # m
    BY <2>2, <1>4, <1>7 DEF Moved
  <2> QED
    BY <2>1, <2>2
<1>9. \A j \in DOMAIN deliveries : ~deliveries[j].cast /\ Chosen(j) => ~Outdated(deliveries[j].event)
  BY DEF Delivering, NewestRuns
<1>10. Chosen(n)
  BY DEF Chosen
<1>11. NewestRuns'
  <2> SUFFICES ASSUME NEW j \in DOMAIN deliveries', ~deliveries'[j].cast, Chosen(j)'
               PROVE  ~Outdated(deliveries'[j].event)
    BY DEF NewestRuns, Outdated
  <2>1. j \in DOMAIN deliveries /\ ~deliveries[j].cast /\ deliveries'[j].event = deliveries[j].event
    BY <1>1 DEF Moved
  <2>2. CASE deliveries'[j].pc \in {"found", "calling"}
    <3>1. Chosen(j) \/ ~Outdated(deliveries[j].event)
      BY <2>1, <2>2 DEF Chosen, Moved
    <3> QED
      BY <3>1, <2>1, <1>9
  <2>3. CASE \E r \in DOMAIN runs' : runs'[r].delivery = j
    <3>1. j = n \/ \E r \in DOMAIN runs : runs[r].delivery = j
      BY <2>3, <1>4, <1>5
    <3>2. Chosen(j)
      BY <3>1, <1>10 DEF Chosen
    <3> QED
      BY <3>2, <2>1, <1>9
  <2> QED
    BY <2>2, <2>3 DEF Chosen
<1>12. RunsOnce'
  <2> SUFFICES ASSUME NEW i \in DOMAIN runs', NEW j \in DOMAIN runs', i < j,
                      ~deliveries'[runs'[i].delivery].cast, ~deliveries'[runs'[j].delivery].cast,
                      deliveries'[runs'[i].delivery].event.id = deliveries'[runs'[j].delivery].event.id,
                      deliveries'[runs'[i].delivery].event.key[1] = deliveries'[runs'[j].delivery].event.key[1],
                      runs'[i].sure
               PROVE  event_id(deliveries'[runs'[j].delivery].event) \in dropped
    BY DEF RunsOnce
  <2>1. i \in DOMAIN runs
    <3>1. \A r \in DOMAIN runs : r \in Nat
      BY <1>2, SeqFacts
    <3>2. m \in Nat
      BY <1>2, SeqFacts DEF m
    <3>3. ~(m < j)
      BY <3>1, <3>2, <1>4
    <3> QED
      BY <3>3, <1>4
  <2> DEFINE p == runs[i].delivery
             q == runs'[j].delivery
  <2>2. /\ p \in DOMAIN deliveries /\ runs'[i] = runs[i] /\ deliveries[p].pc \in Over
        /\ q \in DOMAIN deliveries
    BY <2>1, <1>4, <1>5, <1>7
  <2>3. /\ deliveries'[p].event = deliveries[p].event /\ deliveries'[p].cast = deliveries[p].cast
        /\ deliveries'[q].event = deliveries[q].event /\ deliveries'[q].cast = deliveries[q].cast
    BY <2>2 DEF Moved
  <2>4. CASE j # m
    <3>1. j \in DOMAIN runs /\ runs'[j] = runs[j]
      BY <2>4, <1>4
    <3> QED
      BY <3>1, <2>1, <2>2, <2>3 DEF Delivering, EventsRunOnce, RunsOnce
  <2>5. CASE j = m
    <3>1. q = n
      BY <2>5, <1>4, <1>5
    <3> DEFINE e == deliveries[p].event
               f == deliveries[n].event
    <3>2. ~deliveries[p].cast /\ ~deliveries[n].cast /\ e.id = f.id /\ e.key[1] = f.key[1]
      BY <3>1, <2>2, <2>3
    <3>3. e \in ToSet(sent) /\ f \in ToSet(sent)
      BY <3>2, <2>2 DEF Delivering, AdmittedOK
    <3>4. Chosen(p)
      BY <2>1 DEF Chosen
    <3>5. ~Outdated(e) /\ ~Outdated(f)
      BY <3>2, <3>4, <2>2, <1>9, <1>10
    <3>6. event_id(e) = event_id(f)
      BY <3>2, <3>3, <3>5, SameId
    <3>7. p # n
      BY <2>2 DEF Over
    <3>8. event_id(f) \in dropped
      BY <3>2, <3>6, <3>7, <2>2 DEF Delivering, AdmittedOK
    <3> QED
      BY <3>1, <3>8, <2>3
  <2> QED
    BY <2>4, <2>5
<1> QED
  BY <1>1, <1>6, <1>8, <1>11, <1>12 DEF Delivering, EventsRunOnce

(* How an attempt ends. *)
LEMMA EndFacts ==
    ASSUME NEW d \in Delivery
    PROVE  /\ Retried(d) \in Delivery /\ Retried(d).event = d.event /\ Retried(d).cast = d.cast
           /\ Retried(d).pc \in {"send", "failed"}
           /\ \A o \in {"found", "calling", "delivered", "assumed", "failed"} :
                /\ Ended(d, o) \in Delivery /\ Ended(d, o).event = d.event /\ Ended(d, o).cast = d.cast
                /\ Ended(d, o).pc = o
<1>1. ASSUME NEW o \in {"found", "calling", "delivered", "assumed", "failed"}
      PROVE  /\ Ended(d, o) \in Delivery /\ Ended(d, o).event = d.event /\ Ended(d, o).cast = d.cast
             /\ Ended(d, o).pc = o
  BY DEF Ended, Delivery
<1>2. CASE d.cast \/ d.attempt = MaxAttempts
  <2>1. Retried(d) = Ended(d, "failed")
    BY <1>2 DEF Retried, Ended
  <2> QED
    BY <2>1, <1>1
<1>3. CASE ~(d.cast \/ d.attempt = MaxAttempts)
  <2> DEFINE a == d.attempt + 1
  <2>1. a \in Nat \ {0}
    BY DEF Delivery
  <2>2. Retried(d) = [d EXCEPT !.pc = "send", !.attempt = a]
    BY <1>3 DEF Retried
  <2> HIDE DEF a
  <2>3. Retried(d) \in Delivery /\ Retried(d).event = d.event /\ Retried(d).cast = d.cast
        /\ Retried(d).pc = "send"
    BY <2>1, <2>2 DEF Delivery
  <2> QED
    BY <2>3, <1>1
<1> QED
  BY <1>2, <1>3

(* A dispatch of its own for each of some keys. *)
LEMMA CastFacts ==
    ASSUME NEW ks \in Seq(((Names \cup {"*"}) \X Nat) \cup Subscribable),
           NEW id \in Messages \cup ({"change"} \X Nat \X Nat)
    PROVE  Casting([i \in DOMAIN ks |-> [event |-> [key |-> ks[i], id |-> id],
                                         attempt |-> 1, pc |-> "send", cast |-> TRUE]])
<1> DEFINE d(i) == [event |-> [key |-> ks[i], id |-> id], attempt |-> 1, pc |-> "send", cast |-> TRUE]
           new == [i \in DOMAIN ks |-> d(i)]
<1>1. Len(ks) \in Nat /\ DOMAIN ks = 1 .. Len(ks)
      /\ \A i \in DOMAIN ks : ks[i] \in ((Names \cup {"*"}) \X Nat) \cup Subscribable
  BY SeqFacts
<1>2. \A i \in DOMAIN ks : [key |-> ks[i], id |-> id] \in Request
  BY <1>1 DEF Request
<1>3. \A i \in DOMAIN ks : d(i) \in Delivery /\ d(i).cast
  BY <1>2 DEF Delivery
<1> HIDE DEF d
<1>4. new \in [1 .. Len(ks) -> Delivery] /\ \A i \in DOMAIN new : new[i].cast
  BY <1>1, <1>3
<1>5. new \in Seq(Delivery)
  BY <1>1, <1>4, SeqDef
<1>6. Casting(new)
  BY <1>4, <1>5 DEF Casting
<1> QED
  BY <1>6 DEF d

(* The keys of records picked from the table. *)
LEMMA PickedKeys ==
    ASSUME Inv, NEW K, K \subseteq DOMAIN records, NEW p, p = Picked(records, K)
    PROVE  [i \in DOMAIN p |-> p[i].key] \in Seq(((Names \cup {"*"}) \X Nat) \cup Subscribable)
<1> DEFINE T == ((Names \cup {"*"}) \X Nat) \cup Subscribable
           ks == [i \in DOMAIN p |-> p[i].key]
<1>1. records \in Seq(Record)
  BY DEF Inv, TableOK, Tabled
<1>2. p \in Seq(Record)
  BY <1>1, PickedFacts
<1>3. Len(p) \in Nat /\ DOMAIN p = 1 .. Len(p) /\ \A i \in DOMAIN p : p[i] \in Record
  BY <1>2, SeqFacts
<1>4. \A i \in DOMAIN p : p[i].key \in T
  BY <1>3 DEF Record
<1>5. ks \in [1 .. Len(p) -> T]
  BY <1>3, <1>4
<1> QED
  BY <1>3, <1>5, SeqDef

LEMMA CastsFacts ==
    ASSUME Inv, NEW d \in Delivery
    PROVE  Casting(Casts(d))
<1> DEFINE p == CastTargets
           ks == [i \in DOMAIN p |-> p[i].key]
           K == {i \in DOMAIN records : /\ records[i].def.service \in {"auth", "storage"}
                                        /\ ~records[i].stale /\ ~records[i].ignored}
           id == d.event.id
<1>1. p = Picked(records, K) /\ K \subseteq DOMAIN records
  BY DEF CastTargets
<1> HIDE DEF K, p
<1>2. ks \in Seq(((Names \cup {"*"}) \X Nat) \cup Subscribable)
  BY <1>1, PickedKeys
<1>3. id \in Messages \cup ({"change"} \X Nat \X Nat)
  BY DEF Delivery, Request
<1>4. DOMAIN ks = DOMAIN p /\ \A i \in DOMAIN p : ks[i] = p[i].key
  OBVIOUS
<1> HIDE DEF ks, id
<1>5. Casting([i \in DOMAIN ks |-> [event |-> [key |-> ks[i], id |-> id],
                                    attempt |-> 1, pc |-> "send", cast |-> TRUE]])
  BY <1>2, <1>3, CastFacts
<1>6. Casts(d) = [i \in DOMAIN ks |-> [event |-> [key |-> ks[i], id |-> id],
                                       attempt |-> 1, pc |-> "send", cast |-> TRUE]]
  BY <1>4 DEF Casts, p, id
<1> QED
  BY <1>5, <1>6

(* eventarc_publish adds dispatches nobody retries. *)
LEMMA PublishStep ==
    ASSUME Inv, Delivering, eventarc_publish
    PROVE  Delivering'
<1> DEFINE T == ((Names \cup {"*"}) \X Nat) \cup Subscribable
           K == {i \in DOMAIN records : /\ records[i].def.service = "eventarc"
                                        /\ ~records[i].stale /\ ~records[i].ignored}
           own == Picked(records, K)
           keys == [i \in DOMAIN own |-> own[i].key]
           ks == eventarc_subscriptions
<1>1. ks = keys \o external /\ K \subseteq DOMAIN records
  BY DEF eventarc_subscriptions
<1> HIDE DEF K
<1>2. keys \in Seq(T)
  BY <1>1, PickedKeys
<1>3. external \in Seq(T)
  <2>1. external \in Seq(Subscribable)
    BY DEF Delivering, DeliveryTypes
  <2> QED
    BY <2>1
<1> HIDE DEF own, keys, T
<1>4. ks \in Seq(T)
  BY <1>1, <1>2, <1>3, ConcatFacts
<1>5. PICK m \in Messages :
        deliveries' = deliveries \o [i \in DOMAIN ks |-> [event |-> [key |-> ks[i], id |-> m],
                                                          attempt |-> 1, pc |-> "send", cast |-> TRUE]]
  BY DEF eventarc_publish
<1> HIDE DEF ks
<1> DEFINE new == [i \in DOMAIN ks |-> [event |-> [key |-> ks[i], id |-> m],
                                        attempt |-> 1, pc |-> "send", cast |-> TRUE]]
<1>6. Casting(new)
  BY <1>4, CastFacts DEF T
<1> HIDE DEF new
<1>7. Moved(deliveries \o new)
  BY <1>6, MovedSame, MovedMore
<1>8. Moved(deliveries')
  BY <1>5, <1>7 DEF new
<1>9. UNCHANGED <<runs, records, generation, queue, seen, stopping, health, sent, dropped, revision, external>>
  BY DEF eventarc_publish, tableVars
<1> QED
  BY <1>8, <1>9, MoveStep

(* Only a key that is not dormant is found in the table. *)
LEMMA LookupMoves ==
    ASSUME Inv, Delivering, NEW n \in DOMAIN deliveries, Lookup(n)
    PROVE  Moved(deliveries')
<1> DEFINE d == deliveries[n]
           k == d.event.key
<1>1. deliveries \in Seq(Delivery) /\ d \in Delivery /\ d.pc = "send" /\ d.pc \notin Over
  BY SeqFacts DEF Delivering, DeliveryTypes, Lookup, Over
<1>2. \A o \in {"found", "calling", "delivered", "assumed", "failed"} :
        /\ Ended(d, o) \in Delivery /\ Ended(d, o).event = d.event /\ Ended(d, o).cast = d.cast
        /\ Ended(d, o).pc = o
  BY <1>1, EndFacts
<1>3. /\ Retried(d) \in Delivery /\ Retried(d).event = d.event /\ Retried(d).cast = d.cast
      /\ Retried(d).pc \in {"send", "failed"}
  BY <1>1, EndFacts
<1>4. /\ Moved([deliveries EXCEPT ![n] = Ended(d, "delivered")])
      /\ Moved([deliveries EXCEPT ![n] = Ended(d, "failed")])
  BY <1>1, <1>2, MovedOne
<1>5. Moved([deliveries EXCEPT ![n] = Retried(d)])
  BY <1>1, <1>3, MovedOne
<1>6. CASE k = Multicast
  <2>1. deliveries' = [deliveries EXCEPT ![n] = Ended(d, "delivered")] \o Casts(d)
    BY <1>6 DEF Lookup
  <2>2. Casting(Casts(d))
    BY <1>1, CastsFacts
  <2> QED
    BY <2>1, <2>2, <1>4, MovedMore
<1>7. CASE k # Multicast /\ k \notin Keys(records)
  BY <1>4, <1>7 DEF Lookup
<1>8. CASE k # Multicast /\ k \in Keys(records) /\ get(records, k).stale
  BY <1>5, <1>8 DEF Lookup
<1>9. CASE k # Multicast /\ k \in Keys(records) /\ ~get(records, k).stale /\ ~get(records, k).enabled
  BY <1>4, <1>9 DEF Lookup
<1>10. CASE k # Multicast /\ k \in Keys(records) /\ ~get(records, k).stale /\ get(records, k).enabled
  <2>1. deliveries' = [deliveries EXCEPT ![n] = Ended(d, "found")]
    BY <1>10 DEF Lookup, Ended
  <2>2. \E i \in DOMAIN records : records[i].key = k /\ records[i] = get(records, k)
    BY <1>10 DEF Keys, get, IndexOf
  <2>3. ~Dormant(k)
    BY <2>2, <1>10 DEF Dormant
  <2>4. ~d.cast => ~Outdated(d.event)
    BY <2>3 DEF Delivering, OutdatedSleeps, AdmittedOK
  <2>5. Moved([deliveries EXCEPT ![n] = Ended(d, "found")])
    BY <2>4, <1>1, <1>2, MovedOne
  <2> QED
    BY <2>1, <2>5
<1> QED
  BY <1>6, <1>7, <1>8, <1>9, <1>10

LEMMA AttemptStep ==
    ASSUME Inv, Delivering, NEW n \in DOMAIN deliveries, Attempt(n)
    PROVE  Delivering'
<1> DEFINE d == deliveries[n]
<1>1. deliveries \in Seq(Delivery) /\ d \in Delivery
  BY SeqFacts DEF Delivering, DeliveryTypes
<1>2. \A o \in {"found", "calling", "delivered", "assumed", "failed"} :
        /\ Ended(d, o) \in Delivery /\ Ended(d, o).event = d.event /\ Ended(d, o).cast = d.cast
        /\ Ended(d, o).pc = o
  BY <1>1, EndFacts
<1>3. /\ Retried(d) \in Delivery /\ Retried(d).event = d.event /\ Retried(d).cast = d.cast
      /\ Retried(d).pc \in {"send", "failed"}
  BY <1>1, EndFacts
<1>4. ASSUME d.pc \notin Over PROVE Moved([deliveries EXCEPT ![n] = Retried(d)])
  BY <1>3, <1>4, MovedOne
<1>5. ASSUME d.pc \notin Over, NEW o \in {"delivered", "assumed", "failed"}
      PROVE  Moved([deliveries EXCEPT ![n] = Ended(d, o)])
  BY <1>2, <1>5, MovedOne
<1>6. UNCHANGED <<records, generation, queue, seen, stopping, health, sent, dropped, revision, external>>
  BY DEF Attempt, Lookup, ConnectFails, Origin, Answered, Unanswered, tableVars, eventVars
<1>7. CASE Lookup(n)
  <2>1. UNCHANGED runs
    BY <1>7 DEF Lookup
  <2> QED
    BY <2>1, <1>6, <1>7, LookupMoves, MoveStep
<1>8. CASE ConnectFails(n)
  <2>1. UNCHANGED runs /\ d.pc \notin Over
    BY <1>8 DEF ConnectFails, Over
  <2>2. \/ deliveries' = [deliveries EXCEPT ![n] = Retried(d)]
        \/ deliveries' = [deliveries EXCEPT ![n] = Ended(d, "assumed")]
    BY <1>8 DEF ConnectFails
  <2>3. Moved(deliveries')
    BY <2>1, <2>2, <1>4, <1>5
  <2> QED
    BY <2>1, <2>3, <1>6, MoveStep
<1>9. CASE Origin(n)
  <2>1. UNCHANGED runs /\ d.pc = "found" /\ d.pc \notin Over
    BY <1>9 DEF Origin, Over
  <2>2. \/ deliveries' = [deliveries EXCEPT ![n] = Retried(d)]
        \/ deliveries' = [deliveries EXCEPT ![n] = Ended(d, "calling")]
    BY <1>9 DEF Origin, Ended
  <2>3. Moved([deliveries EXCEPT ![n] = Ended(d, "calling")])
    BY <2>1, <1>2, MovedOne
  <2>4. Moved(deliveries')
    BY <2>1, <2>2, <2>3, <1>4
  <2> QED
    BY <2>1, <2>4, <1>6, MoveStep
<1>10. CASE Answered(n)
  <2>1. runs' = Run(n, TRUE) /\ d.pc = "calling" /\ d.pc \notin Over
    BY <1>10 DEF Answered, Over
  <2>2. PICK o \in {"delivered", "failed"} : deliveries' = [deliveries EXCEPT ![n] = Ended(d, o)]
    BY <1>10 DEF Answered
  <2>3. Moved(deliveries')
    BY <2>1, <2>2, <1>5
  <2>4. deliveries'[n].pc \in Over
    BY <2>2, <1>2 DEF Over
  <2> QED
    BY <2>1, <2>3, <2>4, <1>6, RunStep
<1>11. CASE Unanswered(n)
  <2>1. runs' = Run(n, FALSE) /\ d.pc = "calling" /\ d.pc \notin Over
    BY <1>11 DEF Unanswered, Over
  <2>2. \/ deliveries' = [deliveries EXCEPT ![n] = Retried(d)]
        \/ deliveries' = [deliveries EXCEPT ![n] = Ended(d, "assumed")]
    BY <1>11 DEF Unanswered
  <2>3. Moved(deliveries')
    BY <2>1, <2>2, <1>4, <1>5
  <2> QED
    BY <2>1, <2>3, <1>6, RunStep
<1> QED
  BY <1>7, <1>8, <1>9, <1>10, <1>11 DEF Attempt

LEMMA DeliveringInit == Init => Delivering
<1> SUFFICES ASSUME Init PROVE Delivering
  OBVIOUS
<1>1. /\ queue = <<>> /\ seen = <<>> /\ deliveries = <<>> /\ sent = <<>> /\ runs = <<>>
      /\ external = <<>> /\ revision = 0 /\ stopping = "no" /\ dropped = {}
      /\ health = [admitted |-> 0, deduplicated |-> 0, delivered |-> 0, assumed |-> 0,
                   failed |-> 0, retries |-> 0]
  BY DEF Init
<1>2. DeliveryTypes
  BY <1>1 DEF DeliveryTypes, Health
<1>3. AdmittedOK /\ RanOK /\ SentOK /\ OutdatedSleeps /\ NewestRuns /\ RunsOnce
  BY <1>1 DEF AdmittedOK, RanOK, SentOK, OutdatedSleeps, NewestRuns, RunsOnce, ToSet
<1>4. InFlight(deliveries) = {}
  BY <1>1 DEF InFlight
<1>5. Cardinality(InFlight(deliveries)) = 0
  BY <1>4, FS_EmptySet
<1>6. NothingLost
  BY <1>1, <1>5 DEF NothingLost
<1> QED
  BY <1>2, <1>3, <1>6 DEF Delivering, EventsRunOnce

LEMMA DeliveringNext == Inv /\ Ladder /\ Delivering /\ [Next]_vars => Delivering'
<1> SUFFICES ASSUME Inv, Ladder, Delivering, [Next]_vars PROVE Delivering'
  OBVIOUS
<1> DEFINE Same == UNCHANGED <<sent, queue, seen, dropped, deliveries, runs, health, revision>>
           Still == Same /\ UNCHANGED <<external, stopping>>
<1>1. external \in Seq(Subscribable) /\ revision \in Nat /\ revision <= revision
  BY DEF Delivering, DeliveryTypes
<1>2. stopping = "ended" => queue = <<>> /\ InFlight(deliveries) = {}
  BY DEF Delivering, EventsRunOnce, NothingLost
<1>3. ASSUME Same, external' \in Seq(Subscribable),
             stopping' = "ended" => queue = <<>> /\ InFlight(deliveries) = {}
      PROVE  Delivering'
  BY <1>1, <1>3, QuietStep
<1>4. ASSUME Still PROVE Delivering'
  <2>1. external' \in Seq(Subscribable)
    BY <1>1, <1>4
  <2>2. stopping' = "ended" => queue = <<>> /\ InFlight(deliveries) = {}
    BY <1>2, <1>4
  <2> QED
    BY <2>1, <2>2, <1>3, <1>4
<1>5. ASSUME NEW l \in DOMAIN loads, Reload(l) PROVE Still
  BY <1>5 DEF Reload, Discover, StoreLoaded, RegisterLoaded, Replace, deliveryVars, eventVars
<1>6. ASSUME \/ Switch \/ RewriteBridge \/ EditSource \/ Debounced \/ WorkerExits \/ HubSwitch
             \/ UNCHANGED vars
      PROVE  Still
  BY <1>6 DEF Switch, BeginSwitch, RegisterPending, EndSwitch, RewriteBridge, EditSource, Debounced, WorkerExits,
              HubSwitch, vars, deliveryVars, eventVars
<1>7. ASSUME eventarc_register PROVE Delivering'
  <2>1. PICK k \in Subscribable : external' = Append(external, k)
    BY <1>7 DEF eventarc_register
  <2>2. external' \in Seq(Subscribable)
    BY <2>1, <1>1, AppendFacts
  <2>3. Same /\ UNCHANGED stopping
    BY <1>7 DEF eventarc_register, deliveryVars
  <2> QED
    BY <2>2, <2>3, <1>2, <1>3
<1>8. ASSUME eventarc_remove PROVE Delivering'
  <2>1. PICK k \in ToSet(external) :
          external' = Picked(external, {i \in DOMAIN external : external[i] # k})
    BY <1>8 DEF eventarc_remove
  <2> DEFINE K == {i \in DOMAIN external : external[i] # k}
  <2>2. K \subseteq DOMAIN external /\ external' = Picked(external, K)
    BY <2>1
  <2> HIDE DEF K
  <2>3. external' \in Seq(Subscribable)
    BY <2>2, <1>1, PickedFacts
  <2>4. Same /\ UNCHANGED stopping
    BY <1>8 DEF eventarc_remove, deliveryVars
  <2> QED
    BY <2>3, <2>4, <1>2, <1>3
<1>9. ASSUME Shutdown \/ Close PROVE Delivering'
  <2>1. Same /\ UNCHANGED external /\ stopping' # "ended"
    BY <1>9 DEF Shutdown, Close, eventVars
  <2> QED
    BY <2>1, <1>1, <1>3
<1>10. ASSUME End PROVE Delivering'
  <2>1. Same /\ UNCHANGED external /\ queue = <<>> /\ InFlight(deliveries) = {}
    BY <1>10 DEF End, eventVars
  <2> QED
    BY <2>1, <1>1, <1>3
<1>11. ASSUME Receive \/ Drain PROVE Delivering'
  <2>1. /\ queue # <<>> /\ queue' = Tail(queue)
        /\ SetCoordinator(admit_delivery(Coordinator, Head(queue)))
        /\ UNCHANGED <<records, generation, stopping, sent, revision, runs, external>>
    BY <1>11 DEF Receive, Drain, tableVars, eventVars
  <2> QED
    BY <2>1, DuplicateStep, AdmitStep
<1>12. ASSUME NEW i \in DOMAIN deliveries, Join(i) PROVE Delivering'
  BY <1>12, JoinStep
<1>13. ASSUME NEW i \in DOMAIN deliveries, Attempt(i) PROVE Delivering'
  BY <1>13, AttemptStep
<1>14. ASSUME Coordinate PROVE Delivering'
  BY <1>9, <1>10, <1>11, <1>12, <1>14 DEF Coordinate
<1> HIDE DEF Still, Same
<1> QED
  BY <1>4, <1>5, <1>6, <1>7, <1>8, <1>9, <1>13, <1>14, CommittedStep, EnqueueStep, PublishStep DEF Next

(* A queued event is never lost and its function runs once for it, whatever *)
(* reloads, switches, faults and a shutdown come between: a second run      *)
(* follows only a lost answer, or an id the dedupe window has forgotten     *)
(* (committed, admit_delivery, drain, deliver, the Functions port).         *)
THEOREM EventsDelivered == Spec => []EventsRunOnce
<1>1. Delivering => EventsRunOnce
  BY DEF Delivering
<1> QED
  BY <1>1, Inductive, LadderInit, LadderNext, DeliveringInit, DeliveringNext, PTL DEF Spec
=============================================================================
