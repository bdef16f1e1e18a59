-------------------------- MODULE CoreStoreProofs ---------------------------
(***************************************************************************)
(* What CoreStore promises holds for every set of keys and values, every   *)
(* limit on the change log and every bound: what the store answers of its  *)
(* past is exact, its byte accounting is exact, and it implements          *)
(* VersionedStore.                                                         *)
(*                                                                         *)
(* The argument: the change log, with the changes of the commit under way  *)
(* behind it, is one sequence that grows only at its end (PlanWrite) and   *)
(* shrinks only at its front (Evict); moving a change from the plan to the *)
(* log does not change it.  Undoing that sequence leads from the documents *)
(* back to every revision from the floor on.                               *)
(***************************************************************************)
EXTENDS CoreStore, Integers, SequenceTheorems, FiniteSetTheorems, WellFoundedInduction, TLAPS

(* Undoing the changes of a log that are newer than revision r leaves       *)
(* document d under key k.                                                  *)
UndoneTo(changes, docs, k, r, d) ==
    /\ (\A i \in 1 .. Len(changes) : changes[i].key = k => changes[i].revision <= r)
          => docs[k] = d
    /\ \A i \in 1 .. Len(changes) :
          (/\ changes[i].key = k /\ changes[i].revision > r
           /\ \A j \in 1 .. i - 1 : changes[j].key = k => changes[j].revision <= r)
          => changes[i].before = d

(* Undoing leads from docs back to every revision from the floor on. *)
Reaches(changes, docs, past, floor) ==
    \A r \in floor .. Len(past) - 1, k \in Keys :
        UndoneTo(changes, docs, k, r, past[r + 1].docs[k])

(* A change leaves what the next one to its key finds, or what docs holds. *)
Chained(changes, docs) ==
    \A i \in 1 .. Len(changes) :
        /\ (\A j \in i + 1 .. Len(changes) : changes[j].key # changes[i].key)
              => docs[changes[i].key] = changes[i].after
        /\ \A j \in i + 1 .. Len(changes) :
              (/\ changes[j].key = changes[i].key
               /\ \A m \in i + 1 .. j - 1 : changes[m].key # changes[i].key)
              => changes[j].before = changes[i].after

(* The collection index holds the keys that had a document before the       *)
(* changes that lead to docs.                                               *)
Indexed(index, changes, docs) ==
    /\ \A c \in Collections : \A k \in index[c] : CollectionOf[k] = c
    /\ \A k \in Keys :
        /\ (\A i \in 1 .. Len(changes) : changes[i].key # k)
              => (k \in index[CollectionOf[k]] <=> docs[k] # Absent)
        /\ \A i \in 1 .. Len(changes) :
              (changes[i].key = k /\ \A j \in 1 .. i - 1 : changes[j].key # k)
              => (k \in index[CollectionOf[k]] <=> changes[i].before # Absent)

(* A log that leads to docs, in the order of its revisions. *)
LeadsTo(changes, docs, past, floor) ==
    /\ Reaches(changes, docs, past, floor)
    /\ Chained(changes, docs)
    /\ \A i, j \in 1 .. Len(changes) : i < j => changes[i].revision <= changes[j].revision

-----------------------------------------------------------------------------
(* Sequences of changes. *)

(* A non-empty set of numbers has a least one. *)
LEMMA Least ==
    ASSUME NEW T, T \subseteq Nat, T # {}
    PROVE  \E x \in T : \A y \in T : x <= y
<1>1. PICK x \in T : \A y \in T : ~(<<y, x>> \in OpToRel(<, Nat))
  BY WFMin, NatLessThanWellFounded
<1>2. \A y \in T : <<y, x>> \in OpToRel(<, Nat) <=> y < x
  BY DEF OpToRel
<1>3. \A y \in T : ~(y < x)
  BY <1>1, <1>2, Zenon
<1>4. \A y \in T : x <= y
  BY <1>3
<1> QED
  BY <1>4

(* A non-empty set of numbers up to n has a greatest one. *)
LEMMA Greatest ==
    ASSUME NEW n \in Nat, NEW T, T \subseteq 1 .. n, T # {}
    PROVE  \E x \in T : \A y \in T : y <= x
<1> DEFINE D == {n - y : y \in T}
<1>1. D \subseteq Nat /\ D # {}
  <2>1. \A y \in T : n - y \in Nat
    OBVIOUS
  <2>2. PICK y \in T : TRUE
    OBVIOUS
  <2>3. n - y \in D
    BY DEF D
  <2> QED
    BY <2>1, <2>3 DEF D
<1>2. PICK d \in D : \A e \in D : d <= e
  BY <1>1, Least
<1>3. \E x \in T : d = n - x
  BY <1>2 DEF D
<1> PICK x \in T : d = n - x
  BY <1>3
<1>4. ASSUME NEW y \in T PROVE y <= x
  <2>1. n - y \in D
    BY DEF D
  <2>2. n - x <= n - y
    BY <1>2, <2>1
  <2> QED
    BY <2>2
<1> QED
  BY <1>4

(* The fields of the changes of a log. *)
LEMMA ChangeFields ==
    ASSUME NEW C \in Seq(Change)
    PROVE  /\ Len(C) \in Nat
           /\ \A i \in 1 .. Len(C) :
                 C[i] \in Change /\ C[i].key \in Keys /\ C[i].revision \in Nat
<1>1. Len(C) \in Nat /\ \A i \in 1 .. Len(C) : C[i] \in Change
  BY ElementOfSeq, LenProperties
<1>2. \A c \in Change : c.key \in Keys /\ c.revision \in Nat
  BY BoundsAssumption DEF Change, Revisions
<1> QED
  BY <1>1, <1>2

(* Undoing passes over a change that is appended. *)
LEMMA UndoneAppend ==
    ASSUME NEW C \in Seq(Change), NEW c \in Change, NEW docs \in Documents, NEW k \in Keys,
           NEW r \in Nat, NEW d, c.before = docs[c.key], c.revision > r,
           UndoneTo(C, docs, k, r, d)
    PROVE  UndoneTo(Append(C, c), [docs EXCEPT ![c.key] = c.after], k, r, d)
<1> DEFINE A == Append(C, c)
           D == [docs EXCEPT ![c.key] = c.after]
<1>1. /\ Len(A) = Len(C) + 1 /\ A[Len(C) + 1] = c
      /\ \A i \in 1 .. Len(C) : A[i] = C[i]
  BY AppendProperties
<1>2. Len(C) \in Nat /\ \A i \in 1 .. Len(C) : C[i].revision \in Nat
  BY ChangeFields
<1>3. c.key \in Keys /\ c.revision \in Nat
  BY BoundsAssumption DEF Change, Revisions
<1>4. D[k] = IF k = c.key THEN c.after ELSE docs[k]
  BY <1>3 DEF Documents
<1> HIDE DEF A, D
<1>5. ASSUME \A i \in 1 .. Len(A) : A[i].key = k => A[i].revision <= r
      PROVE  D[k] = d
  <2>1. c.key # k
    BY <1>5, <1>1, <1>2, <1>3
  <2>2. \A i \in 1 .. Len(C) : C[i].key = k => C[i].revision <= r
    BY <1>5, <1>1, <1>2
  <2> QED
    BY <2>1, <2>2, <1>4 DEF UndoneTo
<1>6. ASSUME NEW i \in 1 .. Len(A), A[i].key = k, A[i].revision > r,
             \A j \in 1 .. i - 1 : A[j].key = k => A[j].revision <= r
      PROVE  A[i].before = d
  <2>1. CASE i \in 1 .. Len(C)
    <3>1. \A j \in 1 .. i - 1 : C[j].key = k => C[j].revision <= r
      BY <1>6, <1>1, <1>2, <2>1
    <3> QED
      BY <3>1, <2>1, <1>6, <1>1 DEF UndoneTo
  <2>2. CASE i = Len(C) + 1
    <3>1. \A j \in 1 .. Len(C) : C[j].key = k => C[j].revision <= r
      BY <1>6, <1>1, <1>2, <2>2
    <3>2. docs[k] = d
      BY <3>1 DEF UndoneTo
    <3> QED
      BY <3>2, <2>2, <1>6, <1>1
  <2> QED
    BY <2>1, <2>2, <1>1, <1>2
<1>7. UndoneTo(A, D, k, r, d)
  BY <1>5, <1>6 DEF UndoneTo
<1> QED
  BY <1>7 DEF A, D

(* Undoing does not miss a change that is not newer. *)
LEMMA UndoneTail ==
    ASSUME NEW C \in Seq(Change), C # <<>>, NEW docs, NEW k \in Keys,
           NEW r \in Nat, NEW d, C[1].revision <= r, UndoneTo(C, docs, k, r, d)
    PROVE  UndoneTo(Tail(C), docs, k, r, d)
<1> DEFINE T == Tail(C)
<1>1. Len(T) = Len(C) - 1 /\ \A i \in 1 .. Len(T) : T[i] = C[i + 1]
  BY HeadTailProperties
<1>2. Len(C) \in Nat /\ Len(C) # 0
  BY EmptySeq, LenProperties
<1> HIDE DEF T
<1>3. ASSUME \A i \in 1 .. Len(T) : T[i].key = k => T[i].revision <= r
      PROVE  docs[k] = d
  <2>1. ASSUME NEW i \in 1 .. Len(C), C[i].key = k PROVE C[i].revision <= r
    <3>1. CASE i = 1
      BY <3>1
    <3>2. CASE i # 1
      <4>1. i - 1 \in 1 .. Len(T) /\ T[i - 1] = C[i]
        BY <1>1, <1>2, <3>2
      <4> QED
        BY <4>1, <1>3, <2>1
    <3> QED
      BY <3>1, <3>2
  <2> QED
    BY <2>1 DEF UndoneTo
<1>4. ASSUME NEW i \in 1 .. Len(T), T[i].key = k, T[i].revision > r,
             \A j \in 1 .. i - 1 : T[j].key = k => T[j].revision <= r
      PROVE  T[i].before = d
  <2>1. i + 1 \in 1 .. Len(C) /\ T[i] = C[i + 1]
    BY <1>1, <1>2
  <2>2. ASSUME NEW j \in 1 .. i, C[j].key = k PROVE C[j].revision <= r
    <3>1. CASE j = 1
      BY <3>1
    <3>2. CASE j # 1
      <4>1. j - 1 \in 1 .. i - 1 /\ T[j - 1] = C[j]
        BY <1>1, <1>2, <3>2
      <4> QED
        BY <4>1, <1>4, <2>2
    <3> QED
      BY <3>1, <3>2
  <2>3. \A j \in 1 .. (i + 1) - 1 : C[j].key = k => C[j].revision <= r
    BY <2>2
  <2> QED
    BY <2>1, <2>3, <1>4 DEF UndoneTo
<1>5. UndoneTo(T, docs, k, r, d)
  BY <1>3, <1>4 DEF UndoneTo
<1> QED
  BY <1>5 DEF T

(* Every revision from the floor on is still reached after an append... *)
LEMMA ReachesAppend ==
    ASSUME NEW C \in Seq(Change), NEW c \in Change, NEW docs \in Documents, NEW past,
           Len(past) \in Nat, NEW floor \in Nat, c.before = docs[c.key],
           c.revision = Len(past), Reaches(C, docs, past, floor)
    PROVE  Reaches(Append(C, c), [docs EXCEPT ![c.key] = c.after], past, floor)
<1> SUFFICES ASSUME NEW r \in floor .. Len(past) - 1, NEW k \in Keys
             PROVE  UndoneTo(Append(C, c), [docs EXCEPT ![c.key] = c.after], k, r,
                             past[r + 1].docs[k])
  BY DEF Reaches
<1>1. r \in Nat /\ c.revision > r
  OBVIOUS
<1>2. UndoneTo(C, docs, k, r, past[r + 1].docs[k])
  BY DEF Reaches
<1> QED
  BY <1>1, <1>2, UndoneAppend

(* ... and, with a floor at its revision, after the oldest change went. *)
LEMMA ReachesTail ==
    ASSUME NEW C \in Seq(Change), C # <<>>, NEW docs, NEW past, Len(past) \in Nat,
           NEW floor \in Nat, NEW higher \in Nat, floor <= higher, C[1].revision <= higher,
           Reaches(C, docs, past, floor)
    PROVE  Reaches(Tail(C), docs, past, higher)
<1> SUFFICES ASSUME NEW r \in higher .. Len(past) - 1, NEW k \in Keys
             PROVE  UndoneTo(Tail(C), docs, k, r, past[r + 1].docs[k])
  BY DEF Reaches
<1>1. C[1].revision \in Nat
  <2>1. 1 \in 1 .. Len(C)
    BY EmptySeq, LenProperties
  <2> QED
    BY <2>1, ChangeFields
<1>2. r \in Nat /\ r \in floor .. Len(past) - 1 /\ C[1].revision <= r
  BY <1>1
<1>3. UndoneTo(C, docs, k, r, past[r + 1].docs[k])
  BY <1>2 DEF Reaches
<1> QED
  BY <1>2, <1>3, UndoneTail

(* A commit's changes lead to its revision as they lead to the others. *)
LEMMA ReachesInstalled ==
    ASSUME NEW C \in Seq(Change), NEW docs, NEW S, NEW past \in Seq(S), NEW new \in S,
           new.docs = docs, NEW floor \in Nat,
           \A i \in 1 .. Len(C) : C[i].revision <= Len(past),
           Reaches(C, docs, past, floor)
    PROVE  Reaches(C, docs, Append(past, new), floor)
<1>1. /\ Len(Append(past, new)) = Len(past) + 1 /\ Len(past) \in Nat
      /\ \A i \in 1 .. Len(past) : Append(past, new)[i] = past[i]
      /\ Append(past, new)[Len(past) + 1] = new
  BY AppendProperties, LenProperties
<1> SUFFICES ASSUME NEW r \in floor .. Len(past), NEW k \in Keys
             PROVE  UndoneTo(C, docs, k, r, Append(past, new)[r + 1].docs[k])
  BY <1>1 DEF Reaches
<1>2. CASE r = Len(past)
  <2>1. Append(past, new)[r + 1].docs[k] = docs[k]
    BY <1>1, <1>2
  <2>2. \A i \in 1 .. Len(C) : C[i].revision \in Nat /\ C[i].revision <= r
    BY <1>2, ChangeFields
  <2>3. UndoneTo(C, docs, k, r, docs[k])
    BY <2>2, <1>1 DEF UndoneTo
  <2> QED
    BY <2>1, <2>3
<1>3. CASE r # Len(past)
  <2>1. r \in floor .. Len(past) - 1 /\ r + 1 \in 1 .. Len(past)
    BY <1>1, <1>3
  <2>2. UndoneTo(C, docs, k, r, past[r + 1].docs[k])
    BY <2>1 DEF Reaches
  <2> QED
    BY <1>1, <2>1, <2>2
<1> QED
  BY <1>2, <1>3

(* An appended change finds what the last one to its key left. *)
LEMMA ChainedAppend ==
    ASSUME NEW C \in Seq(Change), NEW c \in Change, NEW docs \in Documents,
           c.before = docs[c.key], Chained(C, docs)
    PROVE  Chained(Append(C, c), [docs EXCEPT ![c.key] = c.after])
<1> DEFINE A == Append(C, c)
           D == [docs EXCEPT ![c.key] = c.after]
           n == Len(C)
<1>1. Len(A) = n + 1 /\ A[n + 1] = c /\ \A i \in 1 .. n : A[i] = C[i]
  BY AppendProperties
<1>2. n \in Nat /\ \A i \in 1 .. n : C[i].key \in Keys
  BY ChangeFields
<1>3. c.key \in Keys
  BY DEF Change
<1>4. \A k \in Keys : D[k] = IF k = c.key THEN c.after ELSE docs[k]
  BY <1>3 DEF Documents
<1> HIDE DEF A, D, n
<1>5. ASSUME NEW i \in 1 .. Len(A),
             \A j \in i + 1 .. Len(A) : A[j].key # A[i].key
      PROVE  D[A[i].key] = A[i].after
  <2>1. CASE i = n + 1
    BY <2>1, <1>1, <1>3, <1>4
  <2>2. CASE i \in 1 .. n
    <3>1. c.key # C[i].key
      BY <2>2, <1>1, <1>2, <1>5
    <3>2. \A j \in i + 1 .. n : C[j].key # C[i].key
      BY <2>2, <1>1, <1>2, <1>5
    <3>3. docs[C[i].key] = C[i].after
      BY <3>2, <2>2 DEF Chained, n
    <3> QED
      BY <3>1, <3>3, <2>2, <1>1, <1>2, <1>4
  <2> QED
    BY <2>1, <2>2, <1>1, <1>2
<1>6. ASSUME NEW i \in 1 .. Len(A), NEW j \in i + 1 .. Len(A), A[j].key = A[i].key,
             \A m \in i + 1 .. j - 1 : A[m].key # A[i].key
      PROVE  A[j].before = A[i].after
  <2>1. i \in 1 .. n
    BY <1>1, <1>2
  <2>2. CASE j = n + 1
    <3>1. \A m \in i + 1 .. n : C[m].key # C[i].key
      BY <2>1, <2>2, <1>1, <1>2, <1>6
    <3>2. docs[C[i].key] = C[i].after
      BY <3>1, <2>1 DEF Chained, n
    <3> QED
      BY <3>2, <2>1, <2>2, <1>1, <1>6
  <2>3. CASE j \in i + 1 .. n
    <3>1. \A m \in i + 1 .. j - 1 : C[m].key # C[i].key
      BY <2>1, <2>3, <1>1, <1>2, <1>6
    <3>2. C[j].key = C[i].key /\ A[j] = C[j] /\ A[i] = C[i]
      BY <2>1, <2>3, <1>1, <1>2, <1>6
    <3> QED
      BY <3>1, <3>2, <2>1, <2>3 DEF Chained, n
  <2> QED
    BY <2>1, <2>2, <2>3, <1>1, <1>2
<1>7. Chained(A, D)
  BY <1>5, <1>6 DEF Chained
<1> QED
  BY <1>7 DEF A, D

LEMMA ChainedTail ==
    ASSUME NEW C \in Seq(Change), C # <<>>, NEW docs, Chained(C, docs)
    PROVE  Chained(Tail(C), docs)
<1> DEFINE T == Tail(C)
<1>1. Len(T) = Len(C) - 1 /\ \A i \in 1 .. Len(T) : T[i] = C[i + 1]
  BY HeadTailProperties
<1>2. Len(C) \in Nat /\ Len(C) # 0
  BY EmptySeq, LenProperties
<1> HIDE DEF T
<1>3. ASSUME NEW i \in 1 .. Len(T), \A j \in i + 1 .. Len(T) : T[j].key # T[i].key
      PROVE  docs[T[i].key] = T[i].after
  <2>1. i + 1 \in 1 .. Len(C) /\ T[i] = C[i + 1]
    BY <1>1, <1>2
  <2>2. ASSUME NEW j \in (i + 1) + 1 .. Len(C) PROVE C[j].key # C[i + 1].key
    <3>1. j - 1 \in i + 1 .. Len(T) /\ T[j - 1] = C[j]
      BY <1>1, <1>2
    <3> QED
      BY <3>1, <2>1, <1>3
  <2> QED
    BY <2>1, <2>2 DEF Chained
<1>4. ASSUME NEW i \in 1 .. Len(T), NEW j \in i + 1 .. Len(T), T[j].key = T[i].key,
             \A m \in i + 1 .. j - 1 : T[m].key # T[i].key
      PROVE  T[j].before = T[i].after
  <2>1. i + 1 \in 1 .. Len(C) /\ T[i] = C[i + 1]
    BY <1>1, <1>2
  <2>2. j + 1 \in (i + 1) + 1 .. Len(C) /\ T[j] = C[j + 1]
    BY <1>1, <1>2
  <2>3. ASSUME NEW m \in (i + 1) + 1 .. (j + 1) - 1 PROVE C[m].key # C[i + 1].key
    <3>1. m - 1 \in i + 1 .. j - 1 /\ T[m - 1] = C[m]
      BY <1>1, <1>2
    <3> QED
      BY <3>1, <2>1, <1>4
  <2> QED
    BY <2>1, <2>2, <2>3, <1>4 DEF Chained
<1>5. Chained(T, docs)
  BY <1>3, <1>4 DEF Chained
<1> QED
  BY <1>5 DEF T

(* The index before an appended change. *)
LEMMA IndexedAppend ==
    ASSUME NEW C \in Seq(Change), NEW c \in Change, NEW docs \in Documents, NEW index,
           c.before = docs[c.key], Indexed(index, C, docs)
    PROVE  Indexed(index, Append(C, c), [docs EXCEPT ![c.key] = c.after])
<1> DEFINE A == Append(C, c)
           D == [docs EXCEPT ![c.key] = c.after]
           n == Len(C)
<1>1. Len(A) = n + 1 /\ A[n + 1] = c /\ \A i \in 1 .. n : A[i] = C[i]
  BY AppendProperties
<1>2. n \in Nat
  BY ChangeFields
<1>3. c.key \in Keys
  BY DEF Change
<1>4. \A k \in Keys : D[k] = IF k = c.key THEN c.after ELSE docs[k]
  BY <1>3 DEF Documents
<1> HIDE DEF A, D, n
<1>5. ASSUME NEW k \in Keys, \A i \in 1 .. Len(A) : A[i].key # k
      PROVE  k \in index[CollectionOf[k]] <=> D[k] # Absent
  <2>1. c.key # k /\ \A i \in 1 .. n : C[i].key # k
    BY <1>1, <1>2, <1>5
  <2> QED
    BY <2>1, <1>4 DEF Indexed, n
<1>6. ASSUME NEW k \in Keys, NEW i \in 1 .. Len(A), A[i].key = k,
             \A j \in 1 .. i - 1 : A[j].key # k
      PROVE  k \in index[CollectionOf[k]] <=> A[i].before # Absent
  <2>1. CASE i = n + 1
    <3>1. \A j \in 1 .. n : C[j].key # k
      BY <1>1, <1>2, <1>6, <2>1
    <3>2. k \in index[CollectionOf[k]] <=> docs[k] # Absent
      BY <3>1 DEF Indexed, n
    <3> QED
      BY <3>2, <2>1, <1>1, <1>6
  <2>2. CASE i \in 1 .. n
    <3>1. \A j \in 1 .. i - 1 : C[j].key # k
      BY <1>1, <1>2, <1>6, <2>2
    <3>2. C[i].key = k /\ A[i] = C[i]
      BY <1>1, <1>6, <2>2
    <3> QED
      BY <3>1, <3>2, <2>2 DEF Indexed, n
  <2> QED
    BY <2>1, <2>2, <1>1, <1>2
<1>7. \A q \in Collections : \A k \in index[q] : CollectionOf[k] = q
  BY DEF Indexed
<1>8. Indexed(index, A, D)
  BY <1>5, <1>6, <1>7, Zenon DEF Indexed
<1> QED
  BY <1>8 DEF A, D

(* What update_collection_index does to a key's entry. *)
LEMMA IndexUpdated ==
    ASSUME NEW index \in [Collections -> SUBSET Keys], NEW key \in Keys, NEW document
    PROVE  /\ update_collection_index(index, key, document # Absent) \in [Collections -> SUBSET Keys]
           /\ \A k \in Keys : k \in update_collection_index(index, key, document # Absent)[CollectionOf[k]]
                 <=> IF k = key THEN document # Absent ELSE k \in index[CollectionOf[k]]
           /\ (\A q \in Collections : \A k \in index[q] : CollectionOf[k] = q)
                 => \A q \in Collections : \A k \in update_collection_index(index, key, document # Absent)[q] :
                        CollectionOf[k] = q
<1> DEFINE new == update_collection_index(index, key, document # Absent)
<1>1. \A k \in Keys : CollectionOf[k] \in Collections
  BY DEF Collections
<1>2. new \in [Collections -> SUBSET Keys]
  BY <1>1 DEF update_collection_index
<1>3. \A q \in Collections : new[q] = IF q = CollectionOf[key]
                                        THEN IF document # Absent THEN index[q] \cup {key} ELSE index[q] \ {key}
                                        ELSE index[q]
  BY <1>1 DEF update_collection_index
<1> HIDE DEF new
<1>4. \A k \in Keys : k \in new[CollectionOf[k]]
          <=> IF k = key THEN document # Absent ELSE k \in index[CollectionOf[k]]
  BY <1>1, <1>3
<1>5. (\A q \in Collections : \A k \in index[q] : CollectionOf[k] = q)
          => \A q \in Collections : \A k \in new[q] : CollectionOf[k] = q
  BY <1>3
<1> QED
  BY <1>2, <1>4, <1>5 DEF new

(* Pushing the first change brings the index up to what the next one to its *)
(* key finds.                                                               *)
LEMMA IndexedPush ==
    ASSUME NEW C \in Seq(Change), C # <<>>, NEW docs, NEW index \in [Collections -> SUBSET Keys],
           Chained(C, docs), Indexed(index, C, docs)
    PROVE  Indexed(update_collection_index(index, Head(C).key, Head(C).after # Absent),
                   Tail(C), docs)
<1> DEFINE T == Tail(C)
           c == C[1]
           new == update_collection_index(index, c.key, c.after # Absent)
<1>1. Len(T) = Len(C) - 1 /\ \A i \in 1 .. Len(T) : T[i] = C[i + 1]
  BY HeadTailProperties
<1>2. Len(C) \in Nat /\ Len(C) # 0 /\ 1 \in 1 .. Len(C) /\ Head(C) = C[1]
  BY EmptySeq, LenProperties
<1>3. c.key \in Keys
  BY <1>2, ChangeFields
<1> HIDE DEF T, c
<1>4. /\ \A k \in Keys : k \in new[CollectionOf[k]]
            <=> IF k = c.key THEN c.after # Absent ELSE k \in index[CollectionOf[k]]
      /\ \A q \in Collections : \A k \in new[q] : CollectionOf[k] = q
  <2>1. \A q \in Collections : \A k \in index[q] : CollectionOf[k] = q
    BY DEF Indexed
  <2>2. \A k \in Keys : k \in new[CollectionOf[k]]
            <=> IF k = c.key THEN c.after # Absent ELSE k \in index[CollectionOf[k]]
    BY <1>3, IndexUpdated DEF update_collection_index
  <2>3. (\A q \in Collections : \A k \in index[q] : CollectionOf[k] = q)
            => \A q \in Collections : \A k \in new[q] : CollectionOf[k] = q
    BY <1>3, IndexUpdated DEF update_collection_index
  <2> QED
    BY <2>1, <2>2, <2>3
<1> HIDE DEF new
<1>5. ASSUME NEW k \in Keys, \A i \in 1 .. Len(T) : T[i].key # k
      PROVE  k \in new[CollectionOf[k]] <=> docs[k] # Absent
  <2>1. ASSUME NEW i \in 2 .. Len(C) PROVE C[i].key # k
    <3>1. i - 1 \in 1 .. Len(T) /\ T[i - 1] = C[i]
      BY <1>1, <1>2
    <3> QED
      BY <3>1, <1>5
  <2>2. CASE k = c.key
    <3>1. \A j \in 1 + 1 .. Len(C) : C[j].key # C[1].key
      BY <2>1, <2>2 DEF c
    <3>2. docs[c.key] = c.after
      BY <3>1, <1>2 DEF Chained, c
    <3> QED
      BY <3>2, <2>2, <1>4
  <2>3. CASE k # c.key
    <3>1. \A i \in 1 .. Len(C) : C[i].key # k
      BY <2>1, <2>3, <1>2 DEF c
    <3> QED
      BY <3>1, <2>3, <1>4 DEF Indexed
  <2> QED
    BY <2>2, <2>3
<1>6. ASSUME NEW k \in Keys, NEW i \in 1 .. Len(T), T[i].key = k,
             \A j \in 1 .. i - 1 : T[j].key # k
      PROVE  k \in new[CollectionOf[k]] <=> T[i].before # Absent
  <2>1. ASSUME NEW j \in 2 .. i PROVE C[j].key # k
    <3>1. j - 1 \in 1 .. i - 1 /\ T[j - 1] = C[j]
      BY <1>1, <1>2
    <3> QED
      BY <3>1, <1>6
  <2>2. i + 1 \in 1 .. Len(C) /\ T[i] = C[i + 1] /\ i + 1 \in 1 + 1 .. Len(C)
    BY <1>1, <1>2
  <2>3. CASE k = c.key
    <3>1. \A m \in 1 + 1 .. (i + 1) - 1 : C[m].key # C[1].key
      BY <2>1, <2>3 DEF c
    <3>2. C[i + 1].before = c.after
      BY <3>1, <2>2, <2>3, <1>2, <1>6 DEF Chained, c
    <3> QED
      BY <3>2, <2>2, <2>3, <1>4
  <2>4. CASE k # c.key
    <3>1. \A j \in 1 .. (i + 1) - 1 : C[j].key # k
      BY <2>1, <2>4, <1>2 DEF c
    <3>2. k \in index[CollectionOf[k]] <=> C[i + 1].before # Absent
      BY <3>1, <2>2, <1>6 DEF Indexed
    <3> QED
      BY <3>2, <2>2, <2>4, <1>4
  <2> QED
    BY <2>3, <2>4
<1>7. Indexed(new, T, docs)
  BY <1>4, <1>5, <1>6, Zenon DEF Indexed
<1> QED
  BY <1>2, <1>7 DEF T, c, new

LEMMA ConcatAppend ==
    ASSUME NEW S, NEW s \in Seq(S), NEW t \in Seq(S), NEW e \in S
    PROVE  s \o Append(t, e) = Append(s \o t, e)
<1>1. <<e>> \in Seq(S)
  OBVIOUS
<1>2. Append(t, e) = t \o <<e>> /\ s \o t \in Seq(S)
  BY AppendIsConcat, ConcatProperties
<1>3. Append(s \o t, e) = (s \o t) \o <<e>>
  BY <1>2, AppendIsConcat
<1>4. (s \o t) \o <<e>> = s \o (t \o <<e>>)
  BY <1>1, ConcatAssociative
<1> QED
  BY <1>2, <1>3, <1>4

(* Moving the first change of the plan to the log keeps the two together. *)
LEMMA ConcatPush ==
    ASSUME NEW S, NEW s \in Seq(S), NEW t \in Seq(S), t # <<>>
    PROVE  Append(s, Head(t)) \o Tail(t) = s \o t
<1> DEFINE a == Append(s, Head(t))
           u == Tail(t)
<1>1. /\ Head(t) \in S /\ u \in Seq(S) /\ Len(u) = Len(t) - 1
      /\ \A i \in 1 .. Len(u) : u[i] = t[i + 1]
  BY HeadTailProperties
<1>2. Len(s) \in Nat /\ Len(t) \in Nat \ {0} /\ Head(t) = t[1]
  BY EmptySeq, LenProperties
<1>3. /\ a \in Seq(S) /\ Len(a) = Len(s) + 1 /\ a[Len(s) + 1] = t[1]
      /\ \A i \in 1 .. Len(s) : a[i] = s[i]
  BY <1>1, <1>2, AppendProperties
<1> HIDE DEF a, u
<1>4. /\ a \o u \in Seq(S) /\ Len(a \o u) = Len(s) + Len(t)
      /\ \A i \in 1 .. Len(a) + Len(u) :
            (a \o u)[i] = IF i <= Len(a) THEN a[i] ELSE u[i - Len(a)]
  <2>1. /\ a \o u \in Seq(S) /\ Len(a \o u) = Len(a) + Len(u)
        /\ \A i \in 1 .. Len(a) + Len(u) :
              (a \o u)[i] = IF i <= Len(a) THEN a[i] ELSE u[i - Len(a)]
    BY <1>1, <1>3, ConcatProperties
  <2>2. Len(a) + Len(u) = Len(s) + Len(t)
    BY <1>1, <1>2, <1>3
  <2> QED
    BY <2>1, <2>2
<1>5. /\ s \o t \in Seq(S) /\ Len(s \o t) = Len(s) + Len(t)
      /\ \A i \in 1 .. Len(s) + Len(t) :
            (s \o t)[i] = IF i <= Len(s) THEN s[i] ELSE t[i - Len(s)]
  BY ConcatProperties
<1>6. ASSUME NEW i \in 1 .. Len(s) + Len(t) PROVE (a \o u)[i] = (s \o t)[i]
  <2>1. CASE i <= Len(s)
    BY <2>1, <1>1, <1>2, <1>3, <1>4, <1>5
  <2>2. CASE i = Len(s) + 1
    BY <2>2, <1>1, <1>2, <1>3, <1>4, <1>5
  <2>3. CASE i > Len(s) + 1
    <3>1. (a \o u)[i] = u[i - (Len(s) + 1)]
      BY <2>3, <1>1, <1>2, <1>3, <1>4
    <3>2. i - (Len(s) + 1) \in 1 .. Len(u)
      BY <2>3, <1>1, <1>2
    <3>3. u[i - (Len(s) + 1)] = t[(i - (Len(s) + 1)) + 1]
      BY <3>2, <1>1
    <3>4. (i - (Len(s) + 1)) + 1 = i - Len(s)
      BY <1>2
    <3> QED
      BY <3>1, <3>3, <3>4, <2>3, <1>2, <1>5
  <2>4. i \in Nat /\ Len(s) \in Nat
    BY <1>2
  <2>5. i <= Len(s) \/ i = Len(s) + 1 \/ i > Len(s) + 1
    BY <2>4
  <2> QED
    BY <2>1, <2>2, <2>3, <2>5
<1>7. a \o u = s \o t
  BY <1>4, <1>5, <1>6, SeqEqual
<1> QED
  BY <1>7 DEF a, u

(* The oldest change of the log is the oldest of both. *)
LEMMA ConcatTail ==
    ASSUME NEW S, NEW s \in Seq(S), NEW t \in Seq(S), s # <<>>
    PROVE  Tail(s) \o t = Tail(s \o t) /\ (s \o t)[1] = Head(s) /\ s \o t # <<>>
<1>1. /\ Tail(s) \in Seq(S) /\ Len(Tail(s)) = Len(s) - 1
      /\ \A i \in 1 .. Len(Tail(s)) : Tail(s)[i] = s[i + 1]
  BY HeadTailProperties
<1>2. Len(s) \in Nat \ {0} /\ Len(t) \in Nat /\ Head(s) = s[1]
  BY EmptySeq, LenProperties
<1>3. /\ s \o t \in Seq(S) /\ Len(s \o t) = Len(s) + Len(t)
      /\ \A i \in 1 .. Len(s) + Len(t) :
            (s \o t)[i] = IF i <= Len(s) THEN s[i] ELSE t[i - Len(s)]
  BY ConcatProperties
<1>4. s \o t # <<>> /\ (s \o t)[1] = Head(s)
  BY <1>2, <1>3
<1>5. /\ Tail(s \o t) \in Seq(S) /\ Len(Tail(s \o t)) = Len(s) + Len(t) - 1
      /\ \A i \in 1 .. Len(Tail(s \o t)) : Tail(s \o t)[i] = (s \o t)[i + 1]
  BY <1>3, <1>4, HeadTailProperties
<1>6. /\ Tail(s) \o t \in Seq(S) /\ Len(Tail(s) \o t) = Len(Tail(s)) + Len(t)
      /\ \A i \in 1 .. Len(Tail(s)) + Len(t) :
            (Tail(s) \o t)[i] = IF i <= Len(Tail(s)) THEN Tail(s)[i] ELSE t[i - Len(Tail(s))]
  BY <1>1, ConcatProperties
<1>7. ASSUME NEW i \in 1 .. Len(s) + Len(t) - 1
      PROVE  (Tail(s) \o t)[i] = Tail(s \o t)[i]
  <2>1. Tail(s \o t)[i] = (s \o t)[i + 1] /\ i + 1 \in 1 .. Len(s) + Len(t)
    BY <1>2, <1>5
  <2>2. (s \o t)[i + 1] = IF i + 1 <= Len(s) THEN s[i + 1] ELSE t[(i + 1) - Len(s)]
    BY <2>1, <1>3
  <2>3. (Tail(s) \o t)[i] = IF i <= Len(s) - 1 THEN Tail(s)[i] ELSE t[i - (Len(s) - 1)]
    BY <1>1, <1>2, <1>6
  <2>4. i <= Len(s) - 1 => Tail(s)[i] = s[i + 1]
    BY <1>1, <1>2
  <2>5. i - (Len(s) - 1) = (i + 1) - Len(s) /\ (i <= Len(s) - 1 <=> i + 1 <= Len(s))
    BY <1>2
  <2> QED
    BY <2>1, <2>2, <2>3, <2>4, <2>5
<1>8. Len(Tail(s) \o t) = Len(s) + Len(t) - 1
  BY <1>1, <1>2, <1>6
<1>9. Tail(s) \o t = Tail(s \o t)
  BY <1>5, <1>6, <1>7, <1>8, SeqEqual
<1> QED
  BY <1>4, <1>9

(* The three ways in which a log that leads to the documents changes. *)
LEMMA LeadsAppend ==
    ASSUME NEW C \in Seq(Change), NEW c \in Change, NEW docs \in Documents, NEW past,
           Len(past) \in Nat, NEW floor \in Nat, c.before = docs[c.key], c.revision = Len(past),
           \A i \in 1 .. Len(C) : C[i].revision <= Len(past),
           LeadsTo(C, docs, past, floor)
    PROVE  LeadsTo(Append(C, c), [docs EXCEPT ![c.key] = c.after], past, floor)
<1> DEFINE A == Append(C, c)
<1>1. Len(A) = Len(C) + 1 /\ A[Len(C) + 1] = c /\ \A i \in 1 .. Len(C) : A[i] = C[i]
  BY AppendProperties
<1>2. Len(C) \in Nat
  BY ChangeFields
<1> HIDE DEF A
<1>3. ASSUME NEW i \in 1 .. Len(A), NEW j \in 1 .. Len(A), i < j
      PROVE  A[i].revision <= A[j].revision
  BY <1>1, <1>2, <1>3 DEF LeadsTo
<1>4. Reaches(A, [docs EXCEPT ![c.key] = c.after], past, floor)
  BY ReachesAppend DEF LeadsTo, A
<1>5. Chained(A, [docs EXCEPT ![c.key] = c.after])
  BY ChainedAppend DEF LeadsTo, A
<1> QED
  BY <1>3, <1>4, <1>5 DEF LeadsTo, A

LEMMA LeadsTail ==
    ASSUME NEW C \in Seq(Change), C # <<>>, NEW docs, NEW past, Len(past) \in Nat,
           NEW floor \in Nat, NEW higher \in Nat, floor <= higher, C[1].revision <= higher,
           LeadsTo(C, docs, past, floor)
    PROVE  LeadsTo(Tail(C), docs, past, higher)
<1>1. Len(Tail(C)) = Len(C) - 1 /\ \A i \in 1 .. Len(Tail(C)) : Tail(C)[i] = C[i + 1]
  BY HeadTailProperties
<1>2. Len(C) \in Nat
  BY ChangeFields
<1>3. ASSUME NEW i \in 1 .. Len(Tail(C)), NEW j \in 1 .. Len(Tail(C)), i < j
      PROVE  Tail(C)[i].revision <= Tail(C)[j].revision
  <2>1. i + 1 \in 1 .. Len(C) /\ j + 1 \in 1 .. Len(C) /\ i + 1 < j + 1
    BY <1>1, <1>2, <1>3
  <2> QED
    BY <2>1, <1>1 DEF LeadsTo
<1>4. Reaches(Tail(C), docs, past, higher)
  BY ReachesTail DEF LeadsTo
<1>5. Chained(Tail(C), docs)
  BY ChainedTail DEF LeadsTo
<1> QED
  BY <1>3, <1>4, <1>5 DEF LeadsTo

LEMMA LeadsInstalled ==
    ASSUME NEW C \in Seq(Change), NEW docs, NEW S, NEW past \in Seq(S), NEW new \in S,
           new.docs = docs, NEW floor \in Nat,
           \A i \in 1 .. Len(C) : C[i].revision <= Len(past),
           LeadsTo(C, docs, past, floor)
    PROVE  LeadsTo(C, docs, Append(past, new), floor)
<1>1. Reaches(C, docs, Append(past, new), floor)
  BY ReachesInstalled DEF LeadsTo
<1> QED
  BY <1>1 DEF LeadsTo

-----------------------------------------------------------------------------
(* The byte accounting. *)

(* total is the sum of b over D: its elements can be listed with the sums   *)
(* of the list's prefixes.                                                  *)
Lists(n, e, sums, D, b, total) ==
    /\ \A i, j \in 1 .. n : e[i] = e[j] => i = j
    /\ \A v \in D : \E i \in 1 .. n : e[i] = v
    /\ sums[0] = 0 /\ sums[n] = total
    /\ \A i \in 1 .. n : sums[i] = sums[i - 1] + b[e[i]]
    /\ \A i, j \in 0 .. n : i <= j => sums[i] <= sums[j]
Sums(D, b, total) ==
    \E n \in Nat : \E e \in [1 .. n -> D], sums \in [0 .. n -> Nat] :
        Lists(n, e, sums, D, b, total)

LEMMA SumsNothing ==
    ASSUME NEW b
    PROVE  Sums({}, b, 0)
<1> DEFINE e == [i \in 1 .. 0 |-> 0]
           sums == [i \in 0 .. 0 |-> 0]
<1>1. e \in [1 .. 0 -> {}] /\ sums \in [0 .. 0 -> Nat] /\ sums[0] = 0
  OBVIOUS
<1> HIDE DEF e, sums
<1>2. Lists(0, e, sums, {}, b, 0)
  BY <1>1 DEF Lists
<1> QED
  BY <1>1, <1>2 DEF Sums

LEMMA SumsEmpty ==
    ASSUME NEW b, NEW total, Sums({}, b, total)
    PROVE  total = 0
<1>1. PICK n \in Nat : \E e \in [1 .. n -> {}], sums \in [0 .. n -> Nat] :
                          sums[0] = 0 /\ sums[n] = total
  BY DEF Sums, Lists
<1>2. n = 0
  <2>1. PICK e \in [1 .. n -> {}] : TRUE
    BY <1>1
  <2>2. n # 0 => e[1] \in {}
    BY <2>1
  <2> QED
    BY <2>2
<1> QED
  BY <1>1, <1>2

(* One more element. *)
LEMMA SumsAdd ==
    ASSUME NEW D, NEW b \in [D -> Nat], NEW total \in Nat, NEW v, v \notin D, NEW x \in Nat,
           Sums(D, b, total)
    PROVE  Sums(D \cup {v}, [u \in D \cup {v} |-> IF u = v THEN x ELSE b[u]], total + x)
<1> DEFINE more == [u \in D \cup {v} |-> IF u = v THEN x ELSE b[u]]
<1>0. PICK n \in Nat : \E e \in [1 .. n -> D], sums \in [0 .. n -> Nat] :
                          Lists(n, e, sums, D, b, total)
  BY DEF Sums
<1>1. PICK e \in [1 .. n -> D], sums \in [0 .. n -> Nat] :
        /\ \A i, j \in 1 .. n : e[i] = e[j] => i = j
        /\ \A u \in D : \E i \in 1 .. n : e[i] = u
        /\ sums[0] = 0 /\ sums[n] = total
        /\ \A i \in 1 .. n : sums[i] = sums[i - 1] + b[e[i]]
        /\ \A i, j \in 0 .. n : i <= j => sums[i] <= sums[j]
  BY <1>0 DEF Lists
<1>inj. \A i, j \in 1 .. n : e[i] = e[j] => i = j
  BY <1>1
<1>onto. \A u \in D : \E i \in 1 .. n : e[i] = u
  BY <1>1
<1>ends. sums[0] = 0 /\ sums[n] = total
  BY <1>1
<1>rec. \A i \in 1 .. n : sums[i] = sums[i - 1] + b[e[i]]
  BY <1>1
<1>mono. \A i, j \in 0 .. n : i <= j => sums[i] <= sums[j]
  BY <1>1
<1> DEFINE f == [i \in 1 .. n + 1 |-> IF i = n + 1 THEN v ELSE e[i]]
           s == [i \in 0 .. n + 1 |-> IF i = n + 1 THEN total + x ELSE sums[i]]
<1>2. \A i \in 1 .. n : e[i] \in D /\ e[i] # v /\ f[i] = e[i]
  OBVIOUS
<1>3. f[n + 1] = v /\ s[n + 1] = total + x /\ \A i \in 0 .. n : s[i] = sums[i] /\ sums[i] \in Nat
  OBVIOUS
<1>4. f \in [1 .. n + 1 -> D \cup {v}] /\ s \in [0 .. n + 1 -> Nat]
  OBVIOUS
<1>5. more[v] = x /\ \A u \in D : more[u] = b[u]
  OBVIOUS
<1> HIDE DEF f, s, more
<1>6. \A i, j \in 1 .. n + 1 : f[i] = f[j] => i = j
  BY <1>inj, <1>2, <1>3
<1>7. \A u \in D \cup {v} : \E i \in 1 .. n + 1 : f[i] = u
  <2>1. n + 1 \in 1 .. n + 1 /\ \A i \in 1 .. n : i \in 1 .. n + 1
    OBVIOUS
  <2> QED
    BY <1>onto, <1>2, <1>3, <2>1
<1>8. s[0] = 0 /\ s[n + 1] = total + x
  BY <1>ends, <1>3
<1>9. ASSUME NEW i \in 1 .. n + 1 PROVE s[i] = s[i - 1] + more[f[i]]
  <2>1. CASE i = n + 1
    <3>1. i - 1 = n /\ n \in 0 .. n
      BY <2>1
    <3> QED
      BY <2>1, <3>1, <1>ends, <1>3, <1>5
  <2>2. CASE i \in 1 .. n
    <3>1. i - 1 \in 0 .. n /\ i \in 0 .. n
      BY <2>2
    <3> QED
      BY <2>2, <3>1, <1>rec, <1>2, <1>3, <1>5
  <2> QED
    BY <2>1, <2>2
<1>10. ASSUME NEW i \in 0 .. n + 1, NEW j \in 0 .. n + 1, i <= j PROVE s[i] <= s[j]
  <2>1. n \in 0 .. n /\ \A m \in 0 .. n : m <= n
    OBVIOUS
  <2>2. \A m \in 0 .. n : s[m] <= total
    BY <1>ends, <1>mono, <1>3, <2>1
  <2>3. CASE j = n + 1
    BY <2>2, <2>3, <1>3
  <2>4. CASE j \in 0 .. n
    <3>1. i \in 0 .. n
      BY <2>4, <1>10
    <3> QED
      BY <2>4, <3>1, <1>mono, <1>3, <1>10
  <2> QED
    BY <2>3, <2>4
<1>11. Sums(D \cup {v}, more, total + x)
  <2>1. n + 1 \in Nat
    OBVIOUS
  <2>2. Lists(n + 1, f, s, D \cup {v}, more, total + x)
    BY <1>6, <1>7, <1>8, <1>9, <1>10 DEF Lists
  <2> QED
    BY <2>1, <2>2, <1>4 DEF Sums
<1> QED
  BY <1>11 DEF more

(* One element less. *)
LEMMA SumsRemove ==
    ASSUME NEW D, NEW b \in [D -> Nat], NEW total \in Nat, NEW v \in D, Sums(D, b, total)
    PROVE  b[v] <= total /\ Sums(D \ {v}, [u \in D \ {v} |-> b[u]], total - b[v])
<1> DEFINE less == [u \in D \ {v} |-> b[u]]
           x == b[v]
<1>0. PICK n \in Nat : \E e \in [1 .. n -> D], sums \in [0 .. n -> Nat] :
                          Lists(n, e, sums, D, b, total)
  BY DEF Sums
<1>1. PICK e \in [1 .. n -> D], sums \in [0 .. n -> Nat] :
        /\ \A i, j \in 1 .. n : e[i] = e[j] => i = j
        /\ \A u \in D : \E i \in 1 .. n : e[i] = u
        /\ sums[0] = 0 /\ sums[n] = total
        /\ \A i \in 1 .. n : sums[i] = sums[i - 1] + b[e[i]]
        /\ \A i, j \in 0 .. n : i <= j => sums[i] <= sums[j]
  BY <1>0 DEF Lists
<1>inj. \A i, j \in 1 .. n : e[i] = e[j] => i = j
  BY <1>1
<1>onto. \A u \in D : \E i \in 1 .. n : e[i] = u
  BY <1>1
<1>ends. sums[0] = 0 /\ sums[n] = total
  BY <1>1
<1>rec. \A i \in 1 .. n : sums[i] = sums[i - 1] + b[e[i]]
  BY <1>1
<1>mono. \A i, j \in 0 .. n : i <= j => sums[i] <= sums[j]
  BY <1>1
<1>2. PICK m \in 1 .. n : e[m] = v
  BY <1>onto
<1>3. x \in Nat /\ \A i \in 0 .. n : sums[i] \in Nat
  OBVIOUS
<1>4. m \in 0 .. n /\ m - 1 \in 0 .. n /\ n \in 0 .. n /\ sums[m] = sums[m - 1] + x
  BY <1>rec, <1>2
<1>5. \A i \in m .. n : i \in 0 .. n /\ sums[m] <= sums[i]
  BY <1>mono, <1>4
<1>6. \A i \in m .. n : x <= sums[i]
  BY <1>3, <1>4, <1>5
<1>7. x <= total
  <2>1. n \in m .. n
    BY <1>4
  <2> QED
    BY <2>1, <1>6, <1>ends
<1> DEFINE f == [i \in 1 .. n - 1 |-> IF i < m THEN e[i] ELSE e[i + 1]]
           s == [i \in 0 .. n - 1 |-> IF i < m THEN sums[i] ELSE sums[i + 1] - x]
<1>8. n - 1 \in Nat
  BY <1>2
<1>9. \A i \in 1 .. n - 1 :
        /\ i < m => f[i] = e[i] /\ i \in 1 .. n
        /\ i >= m => f[i] = e[i + 1] /\ i + 1 \in 1 .. n
  BY <1>2
<1>10. \A i \in 0 .. n - 1 :
        /\ i < m => s[i] = sums[i] /\ i \in 0 .. n
        /\ i >= m => s[i] = sums[i + 1] - x /\ i + 1 \in m .. n /\ i + 1 \in 0 .. n
  BY <1>2
<1>11. f \in [1 .. n - 1 -> D \ {v}]
  <2>1. \A i \in 1 .. n - 1 : f[i] \in D /\ f[i] # v
    <3>1. \A i \in 1 .. n : e[i] \in D /\ (e[i] = v => i = m)
      BY <1>inj, <1>2
    <3> QED
      BY <3>1, <1>2, <1>9
  <2> QED
    BY <2>1
<1>12. s \in [0 .. n - 1 -> Nat]
  <2>1. \A i \in 0 .. n - 1 : s[i] \in Nat
    BY <1>2, <1>3, <1>6, <1>10
  <2> QED
    BY <2>1
<1>13. \A u \in D \ {v} : less[u] = b[u]
  OBVIOUS
<1> HIDE DEF f, s, less, x
<1>14. ASSUME NEW i \in 1 .. n - 1, NEW j \in 1 .. n - 1, f[i] = f[j] PROVE i = j
  <2>1. CASE i < m /\ j < m
    BY <2>1, <1>inj, <1>9, <1>14
  <2>2. CASE i < m /\ j >= m
    <3>1. i = j + 1
      BY <2>2, <1>inj, <1>9, <1>14
    <3> QED
      BY <3>1, <2>2, <1>2
  <2>3. CASE i >= m /\ j < m
    <3>1. i + 1 = j
      BY <2>3, <1>inj, <1>9, <1>14
    <3> QED
      BY <3>1, <2>3, <1>2
  <2>4. CASE i >= m /\ j >= m
    <3>1. i + 1 = j + 1
      BY <2>4, <1>inj, <1>9, <1>14
    <3> QED
      BY <3>1
  <2> QED
    BY <2>1, <2>2, <2>3, <2>4, <1>2
<1>15. ASSUME NEW u \in D \ {v} PROVE \E i \in 1 .. n - 1 : f[i] = u
  <2>1. PICK i \in 1 .. n : e[i] = u
    BY <1>onto
  <2>2. i # m
    BY <2>1, <1>2
  <2>3. CASE i < m
    <3>1. i \in 1 .. n - 1
      BY <2>3, <1>2
    <3> QED
      BY <2>1, <2>3, <3>1, <1>9
  <2>4. CASE i > m
    <3>1. i - 1 \in 1 .. n - 1 /\ i - 1 >= m /\ (i - 1) + 1 = i
      BY <2>4, <1>2
    <3> QED
      BY <2>1, <3>1, <1>9
  <2> QED
    BY <2>2, <2>3, <2>4, <1>2
<1>16. s[0] = 0
  BY <1>ends, <1>2, <1>8, <1>10
<1>17. s[n - 1] = total - x
  <2>1. n - 1 \in 0 .. n - 1 /\ (n - 1) + 1 = n
    BY <1>8
  <2>2. CASE n - 1 >= m
    BY <2>1, <2>2, <1>ends, <1>10
  <2>3. CASE n - 1 < m
    <3>1. m = n
      BY <2>3, <1>2
    <3> QED
      BY <2>1, <2>3, <3>1, <1>ends, <1>3, <1>4, <1>10
  <2> QED
    BY <2>2, <2>3, <1>2
<1>18. ASSUME NEW i \in 1 .. n - 1 PROVE s[i] = s[i - 1] + less[f[i]]
  <2>1. i \in 0 .. n - 1 /\ i - 1 \in 0 .. n - 1 /\ f[i] \in D \ {v}
    BY <1>11
  <2>2. less[f[i]] = b[f[i]] /\ b[f[i]] \in Nat
    BY <2>1, <1>13
  <2>3. CASE i < m
    <3>1. s[i] = sums[i] /\ s[i - 1] = sums[i - 1] /\ f[i] = e[i] /\ i \in 1 .. n
      BY <2>1, <2>3, <1>2, <1>9, <1>10
    <3> QED
      BY <3>1, <2>2, <1>rec
  <2>4. CASE i = m
    <3>1. s[i] = sums[m + 1] - x /\ s[i - 1] = sums[m - 1] /\ f[i] = e[m + 1] /\ m + 1 \in 1 .. n
      BY <2>1, <2>4, <1>2, <1>9, <1>10
    <3>2. sums[m + 1] = sums[(m + 1) - 1] + b[e[m + 1]] /\ (m + 1) - 1 = m
      BY <3>1, <1>rec
    <3>3. m + 1 \in 0 .. n
      BY <3>1
    <3>4. sums[m + 1] = sums[m] + less[f[i]] /\ less[f[i]] \in Nat
      BY <3>1, <3>2, <2>2
    <3>5. sums[m + 1] - x = sums[m - 1] + less[f[i]]
      <4>1. PICK p \in Nat : p = sums[m - 1]
        BY <1>3, <1>4
      <4>2. PICK y \in Nat : y = less[f[i]]
        BY <3>4
      <4>3. PICK z \in Nat : z = x
        BY <1>3
      <4>4. sums[m] = p + z
        BY <4>1, <4>3, <1>4
      <4>5. sums[m + 1] = (p + z) + y
        BY <4>2, <4>4, <3>4
      <4>6. ((p + z) + y) - z = p + y
        OBVIOUS
      <4> QED
        BY <4>1, <4>2, <4>3, <4>5, <4>6
    <3> QED
      BY <3>1, <3>5
  <2>5. CASE i > m
    <3>1. s[i] = sums[i + 1] - x /\ f[i] = e[i + 1] /\ i + 1 \in 1 .. n
      BY <2>1, <2>5, <1>2, <1>9, <1>10
    <3>2. s[i - 1] = sums[i] - x
      <4>1. i - 1 >= m /\ (i - 1) + 1 = i
        BY <2>5, <1>2
      <4> QED
        BY <4>1, <2>1, <1>10
    <3>3. sums[i + 1] = sums[(i + 1) - 1] + b[e[i + 1]] /\ (i + 1) - 1 = i
      BY <3>1, <1>rec
    <3>4. i \in 0 .. n /\ i + 1 \in 0 .. n
      BY <3>1
    <3> QED
      BY <3>1, <3>2, <3>3, <3>4, <2>2, <1>3
  <2> QED
    BY <2>3, <2>4, <2>5, <1>2
<1>19. ASSUME NEW i \in 0 .. n - 1, NEW j \in 0 .. n - 1, i <= j PROVE s[i] <= s[j]
  <2>1. CASE j < m
    <3>1. s[i] = sums[i] /\ i \in 0 .. n /\ s[j] = sums[j] /\ j \in 0 .. n
      <4>1. i < m
        BY <2>1, <1>2, <1>19
      <4> QED
        BY <4>1, <2>1, <1>10
    <3> QED
      BY <3>1, <1>mono, <1>19
  <2>2. CASE i >= m
    <3>1. s[i] = sums[i + 1] - x /\ s[j] = sums[j + 1] - x /\ i + 1 \in 0 .. n /\ j + 1 \in 0 .. n
      BY <2>2, <1>2, <1>10, <1>19
    <3>2. sums[i + 1] <= sums[j + 1]
      BY <3>1, <1>mono, <1>19
    <3> QED
      BY <3>1, <3>2, <1>3
  <2>3. CASE i < m /\ j >= m
    <3>1. s[i] = sums[i] /\ i \in 0 .. n /\ s[j] = sums[j + 1] - x /\ j + 1 \in m .. n /\ j + 1 \in 0 .. n
      BY <2>3, <1>10
    <3>2. sums[i] <= sums[m - 1]
      BY <2>3, <3>1, <1>mono, <1>2, <1>4
    <3>3. sums[m] <= sums[j + 1]
      BY <3>1, <1>5
    <3>4. PICK a \in Nat : a = sums[i]
      BY <3>1, <1>3
    <3>5. PICK p \in Nat : p = sums[m - 1]
      BY <1>3, <1>4
    <3>6. PICK q \in Nat : q = sums[j + 1]
      BY <3>1, <1>3
    <3>7. PICK y \in Nat : y = x
      BY <1>3
    <3>8. p + y <= q
      BY <3>3, <3>5, <3>6, <3>7, <1>4
    <3>9. a <= q - y
      BY <3>2, <3>4, <3>5, <3>8
    <3> QED
      BY <3>1, <3>4, <3>6, <3>7, <3>9
  <2> QED
    BY <2>1, <2>2, <2>3, <1>2
<1>20. Sums(D \ {v}, less, total - x)
  <2>1. Lists(n - 1, f, s, D \ {v}, less, total - x)
    BY <1>14, <1>15, <1>16, <1>17, <1>18, <1>19 DEF Lists
  <2> QED
    BY <2>1, <1>8, <1>11, <1>12 DEF Sums
<1> QED
  BY <1>7, <1>20 DEF less, x

(* The references that the accounting holds for a version. *)
Counted(r, v) == IF v \in DOMAIN r.versions THEN r.versions[v].references ELSE 0

(* The accounting holds referenced versions only, and their bytes. *)
BytesOf(r) == [v \in DOMAIN r.versions |-> r.versions[v].bytes]
Accounts(r) ==
    /\ r \in ReplayVersions
    /\ \A v \in DOMAIN r.versions : r.versions[v].references >= 1
    /\ Sums(DOMAIN r.versions, BytesOf(r), r.bytes)

One(b) == IF b THEN 1 ELSE 0

LEMMA ReplayFields ==
    ASSUME NEW r \in ReplayVersions
    PROVE  /\ DOMAIN r.versions \subseteq DocumentVersion
           /\ r.versions \in [DOMAIN r.versions -> RetainedVersion]
           /\ r.bytes \in Nat
           /\ r = [versions |-> r.versions, bytes |-> r.bytes]
           /\ \A v \in DOMAIN r.versions :
                 r.versions[v].references \in Nat /\ r.versions[v].bytes \in Nat
<1>1. PICK V \in SUBSET DocumentVersion : r.versions \in [V -> RetainedVersion]
  BY DEF ReplayVersions
<1>2. r.bytes \in Nat /\ r = [versions |-> r.versions, bytes |-> r.bytes]
  BY DEF ReplayVersions
<1>3. \A x \in RetainedVersion : x.references \in Nat /\ x.bytes \in Nat
  BY DEF RetainedVersion
<1> QED
  BY <1>1, <1>2, <1>3

LEMMA ReplayMade ==
    ASSUME NEW V, V \subseteq DocumentVersion, NEW f \in [V -> RetainedVersion], NEW n \in Nat
    PROVE  [versions |-> f, bytes |-> n] \in ReplayVersions
BY DEF ReplayVersions

(* One more reference to the version that a document is, if it is one. *)
LEMMA AddVersion ==
    ASSUME NEW r, Accounts(r), NEW key \in Keys, NEW document \in Stored \cup {Absent}
    PROVE  /\ Accounts(add_replay_version(r, key, document))
           /\ \A v : Counted(add_replay_version(r, key, document), v)
                        = Counted(r, v) + One(Mentions(key, document, v))
<1> DEFINE q == add_replay_version(r, key, document)
           V == DOMAIN r.versions
           w == DocumentVersionOf(key, document)
<1>1. /\ V \subseteq DocumentVersion /\ r.versions \in [V -> RetainedVersion] /\ r.bytes \in Nat
      /\ r = [versions |-> r.versions, bytes |-> r.bytes]
      /\ \A v \in V : r.versions[v].references \in Nat /\ r.versions[v].bytes \in Nat
      /\ \A v \in V : r.versions[v].references >= 1
      /\ Sums(V, BytesOf(r), r.bytes)
  BY ReplayFields DEF Accounts
<1>2. \A v : Counted(r, v) \in Nat
  BY <1>1 DEF Counted
<1>3. CASE document = Absent
  <2>1. q = r /\ \A v : One(Mentions(key, document, v)) = 0
    BY <1>3 DEF add_replay_version, Mentions, One
  <2> QED
    BY <2>1, <1>2
<1>4. CASE document # Absent /\ w \in V
  <2> DEFINE f == [r.versions EXCEPT ![w].references = @ + 1]
  <2>1. q = [versions |-> f, bytes |-> r.bytes]
    BY <1>1, <1>4 DEF add_replay_version
  <2>2. /\ f \in [V -> RetainedVersion] /\ DOMAIN f = V
        /\ f[w].references = r.versions[w].references + 1 /\ f[w].bytes = r.versions[w].bytes
        /\ \A v \in V : v # w => f[v] = r.versions[v]
    BY <1>1, <1>4 DEF RetainedVersion
  <2> HIDE DEF f, q, V, w
  <2>3. q \in ReplayVersions /\ q.versions = f /\ q.bytes = r.bytes
    BY <2>1, <2>2, <1>1, ReplayMade
  <2>4. \A v \in DOMAIN q.versions : q.versions[v].references >= 1
    BY <2>2, <2>3, <1>1
  <2>5. BytesOf(q) = BytesOf(r)
    <3>1. \A v \in V : f[v].bytes = r.versions[v].bytes
      BY <2>2
    <3> QED
      BY <3>1, <2>2, <2>3 DEF BytesOf, V
  <2>6. Accounts(q)
    BY <2>2, <2>3, <2>4, <2>5, <1>1 DEF Accounts
  <2>7. ASSUME NEW v PROVE Counted(q, v) = Counted(r, v) + One(Mentions(key, document, v))
    <3>1. Mentions(key, document, v) <=> v = w
      BY <1>4 DEF Mentions, w
    <3>2. CASE v = w
      <4>1. Counted(q, v) = r.versions[w].references + 1 /\ Counted(r, v) = r.versions[w].references
        BY <3>2, <2>2, <2>3, <1>4 DEF Counted, V
      <4> QED
        BY <4>1, <3>1, <3>2 DEF One
    <3>3. CASE v # w
      <4>1. Counted(q, v) = Counted(r, v)
        BY <3>3, <2>2, <2>3 DEF Counted, V
      <4> QED
        BY <4>1, <3>1, <3>3, <1>2 DEF One
    <3> QED
      BY <3>2, <3>3
  <2> QED
    BY <2>6, <2>7 DEF q
<1>5. CASE document # Absent /\ w \notin V
  <2> DEFINE x == Size[document.value]
             f == [u \in V \cup {w} |-> IF u = w THEN [references |-> 1, bytes |-> x]
                                                 ELSE r.versions[u]]
  <2>1. x \in Nat /\ w \in DocumentVersion
    <3>1. document.value \in Values /\ document.update_time \in Times
      BY <1>5 DEF Stored
    <3> QED
      BY <3>1, SizeAssumption DEF DocumentVersionOf, DocumentVersion
  <2>2. q = [versions |-> f, bytes |-> r.bytes + x]
    BY <1>5 DEF add_replay_version
  <2>3. /\ f \in [V \cup {w} -> RetainedVersion] /\ DOMAIN f = V \cup {w}
        /\ f[w].references = 1 /\ f[w].bytes = x
        /\ \A v \in V : f[v] = r.versions[v]
    <3>1. [references |-> 1, bytes |-> x] \in RetainedVersion
      BY <2>1 DEF RetainedVersion
    <3> QED
      BY <3>1, <1>1, <1>5
  <2> HIDE DEF f, q, V, w, x
  <2>4. q \in ReplayVersions /\ q.versions = f /\ q.bytes = r.bytes + x
    BY <2>1, <2>2, <2>3, <1>1, ReplayMade
  <2>5. \A v \in DOMAIN q.versions : q.versions[v].references >= 1
    BY <2>3, <2>4, <1>1
  <2>6. BytesOf(q) = [u \in V \cup {w} |-> IF u = w THEN x ELSE BytesOf(r)[u]]
    <3>1. \A v \in V : BytesOf(r)[v] = r.versions[v].bytes
      BY DEF BytesOf, V
    <3> QED
      BY <3>1, <2>3, <2>4 DEF BytesOf
  <2>7. Sums(V \cup {w}, BytesOf(q), r.bytes + x)
    <3>1. BytesOf(r) \in [V -> Nat]
      BY <1>1 DEF BytesOf, V
    <3>2. Sums(V \cup {w}, [u \in V \cup {w} |-> IF u = w THEN x ELSE BytesOf(r)[u]], r.bytes + x)
      BY <3>1, <2>1, <1>1, <1>5, SumsAdd
    <3> QED
      BY <3>2, <2>6
  <2>8. Accounts(q)
    BY <2>3, <2>4, <2>5, <2>7 DEF Accounts
  <2>9. ASSUME NEW v PROVE Counted(q, v) = Counted(r, v) + One(Mentions(key, document, v))
    <3>1. Mentions(key, document, v) <=> v = w
      BY <1>5 DEF Mentions, w
    <3>2. CASE v = w
      <4>1. Counted(q, v) = 1 /\ Counted(r, v) = 0
        BY <3>2, <2>3, <2>4, <1>5 DEF Counted, V
      <4> QED
        BY <4>1, <3>1, <3>2 DEF One
    <3>3. CASE v # w
      <4>1. Counted(q, v) = Counted(r, v)
        BY <3>3, <2>3, <2>4 DEF Counted, V
      <4> QED
        BY <4>1, <3>1, <3>3, <1>2 DEF One
    <3> QED
      BY <3>2, <3>3
  <2> QED
    BY <2>8, <2>9 DEF q
<1> QED
  BY <1>3, <1>4, <1>5

(* One reference less. *)
LEMMA RemoveVersion ==
    ASSUME NEW r, Accounts(r), NEW key \in Keys, NEW document \in Stored \cup {Absent}
    PROVE  /\ Accounts(remove_replay_version(r, key, document))
           /\ \A v : Counted(r, v) >= One(Mentions(key, document, v))
                     => Counted(remove_replay_version(r, key, document), v)
                          = Counted(r, v) - One(Mentions(key, document, v))
<1> DEFINE q == remove_replay_version(r, key, document)
           V == DOMAIN r.versions
           w == DocumentVersionOf(key, document)
<1>1. /\ V \subseteq DocumentVersion /\ r.versions \in [V -> RetainedVersion] /\ r.bytes \in Nat
      /\ r = [versions |-> r.versions, bytes |-> r.bytes]
      /\ \A v \in V : r.versions[v].references \in Nat /\ r.versions[v].bytes \in Nat
      /\ \A v \in V : r.versions[v].references >= 1
      /\ Sums(V, BytesOf(r), r.bytes)
  BY ReplayFields DEF Accounts
<1>2. \A v : Counted(r, v) \in Nat
  BY <1>1 DEF Counted
<1>3. CASE document = Absent \/ w \notin V
  <2>1. q = r
    BY <1>3 DEF remove_replay_version
  <2>2. ASSUME NEW v, Counted(r, v) >= One(Mentions(key, document, v))
        PROVE  One(Mentions(key, document, v)) = 0
    <3>1. CASE Mentions(key, document, v)
      <4>1. v = w /\ w \notin V
        BY <3>1, <1>3 DEF Mentions
      <4>2. Counted(r, v) = 0
        BY <4>1 DEF Counted
      <4> QED
        BY <4>2, <3>1, <2>2 DEF One
    <3>2. CASE ~Mentions(key, document, v)
      BY <3>2 DEF One
    <3> QED
      BY <3>1, <3>2
  <2>3. \A v : Counted(r, v) >= One(Mentions(key, document, v))
               => Counted(r, v) = Counted(r, v) - One(Mentions(key, document, v))
    BY <2>2, <1>2
  <2> QED
    BY <2>1, <2>3
<1>4. CASE document # Absent /\ w \in V /\ ~(r.versions[w].references <= 1)
  <2> DEFINE f == [r.versions EXCEPT ![w].references = @ - 1]
  <2>1. q = [versions |-> f, bytes |-> r.bytes]
    BY <1>1, <1>4 DEF remove_replay_version
  <2>2. r.versions[w].references - 1 \in Nat /\ r.versions[w].references - 1 >= 1
    BY <1>1, <1>4
  <2>3. /\ f \in [V -> RetainedVersion] /\ DOMAIN f = V
        /\ f[w].references = r.versions[w].references - 1 /\ f[w].bytes = r.versions[w].bytes
        /\ \A v \in V : v # w => f[v] = r.versions[v]
    BY <1>1, <1>4, <2>2 DEF RetainedVersion
  <2> HIDE DEF f, q, V, w
  <2>4. q \in ReplayVersions /\ q.versions = f /\ q.bytes = r.bytes
    BY <2>1, <2>3, <1>1, ReplayMade
  <2>5. \A v \in DOMAIN q.versions : q.versions[v].references >= 1
    BY <2>2, <2>3, <2>4, <1>1
  <2>6. BytesOf(q) = BytesOf(r)
    <3>1. \A v \in V : f[v].bytes = r.versions[v].bytes
      BY <2>3
    <3> QED
      BY <3>1, <2>3, <2>4 DEF BytesOf, V
  <2>7. Accounts(q)
    BY <2>3, <2>4, <2>5, <2>6, <1>1 DEF Accounts
  <2>8. ASSUME NEW v PROVE Counted(q, v) = Counted(r, v) - One(Mentions(key, document, v))
    <3>1. Mentions(key, document, v) <=> v = w
      BY <1>4 DEF Mentions, w
    <3>2. CASE v = w
      <4>1. Counted(q, v) = r.versions[w].references - 1 /\ Counted(r, v) = r.versions[w].references
        BY <3>2, <2>3, <2>4, <1>4 DEF Counted, V
      <4> QED
        BY <4>1, <3>1, <3>2 DEF One
    <3>3. CASE v # w
      <4>1. Counted(q, v) = Counted(r, v)
        BY <3>3, <2>3, <2>4 DEF Counted, V
      <4> QED
        BY <4>1, <3>1, <3>3, <1>2 DEF One
    <3> QED
      BY <3>2, <3>3
  <2> QED
    BY <2>7, <2>8 DEF q
<1>5. CASE document # Absent /\ w \in V /\ r.versions[w].references <= 1
  <2> DEFINE x == r.versions[w].bytes
             f == [u \in V \ {w} |-> r.versions[u]]
  <2>1. x \in Nat /\ r.versions[w].references = 1
    BY <1>1, <1>5
  <2>2. BytesOf(r) \in [V -> Nat] /\ BytesOf(r)[w] = x
    BY <1>1, <1>5 DEF BytesOf
  <2>3. x <= r.bytes /\ Sums(V \ {w}, [u \in V \ {w} |-> BytesOf(r)[u]], r.bytes - x)
    <3>1. \A y \in Nat : BytesOf(r)[w] = y =>
              y <= r.bytes /\ Sums(V \ {w}, [u \in V \ {w} |-> BytesOf(r)[u]], r.bytes - y)
      BY <2>2, <1>1, <1>5, SumsRemove
    <3> QED
      BY <3>1, <2>1, <2>2
  <2>4. (IF r.bytes > x THEN r.bytes - x ELSE 0) = r.bytes - x /\ r.bytes - x \in Nat
    BY <2>1, <2>3, <1>1
  <2>5. q = [versions |-> f, bytes |-> r.bytes - x]
    <3>1. q = Discard(r, w)
      BY <1>5 DEF remove_replay_version
    <3>2. Discard(r, w) = [versions |-> f, bytes |-> IF r.bytes > x THEN r.bytes - x ELSE 0]
      BY DEF Discard
    <3> QED
      BY <3>1, <3>2, <2>4
  <2>6. f \in [V \ {w} -> RetainedVersion] /\ DOMAIN f = V \ {w} /\ \A v \in V \ {w} : f[v] = r.versions[v]
    BY <1>1
  <2> HIDE DEF f, q, V, w, x
  <2>7. q \in ReplayVersions /\ q.versions = f /\ q.bytes = r.bytes - x
    <3>1. V \ {w} \subseteq DocumentVersion
      BY <1>1
    <3> QED
      BY <3>1, <2>4, <2>5, <2>6, ReplayMade
  <2>8. \A v \in DOMAIN q.versions : q.versions[v].references >= 1
    BY <2>6, <2>7, <1>1
  <2>9. BytesOf(q) = [u \in V \ {w} |-> BytesOf(r)[u]]
    <3>1. \A v \in V : BytesOf(r)[v] = r.versions[v].bytes
      BY DEF BytesOf, V
    <3> QED
      BY <3>1, <2>6, <2>7 DEF BytesOf
  <2>10. Accounts(q)
    BY <2>3, <2>6, <2>7, <2>8, <2>9 DEF Accounts
  <2>11. ASSUME NEW v PROVE Counted(q, v) = Counted(r, v) - One(Mentions(key, document, v))
    <3>1. Mentions(key, document, v) <=> v = w
      BY <1>5 DEF Mentions, w
    <3>2. CASE v = w
      <4>1. Counted(q, v) = 0 /\ Counted(r, v) = 1
        BY <3>2, <2>1, <2>6, <2>7, <1>5 DEF Counted, V
      <4> QED
        BY <4>1, <3>1, <3>2 DEF One
    <3>3. CASE v # w
      <4>1. Counted(q, v) = Counted(r, v)
        BY <3>3, <2>6, <2>7 DEF Counted, V
      <4> QED
        BY <4>1, <3>1, <3>3, <1>2 DEF One
    <3> QED
      BY <3>2, <3>3
  <2> QED
    BY <2>10, <2>11 DEF q
<1> QED
  BY <1>3, <1>4, <1>5

(* The positions of a log whose change found, or left, version v. *)
Found(s, v) == {i \in 1 .. Len(s) : Mentions(s[i].key, s[i].before, v)}
Left(s, v)  == {i \in 1 .. Len(s) : Mentions(s[i].key, s[i].after, v)}
Refs(s, v)  == Cardinality(Found(s, v)) + Cardinality(Left(s, v))

LEMMA CountGrows ==
    ASSUME NEW S, NEW x, IsFiniteSet(S), x \notin S, NEW b \in BOOLEAN
    PROVE  /\ Cardinality(S) \in Nat
           /\ Cardinality(IF b THEN S \cup {x} ELSE S) = Cardinality(S) + One(b)
<1>1. Cardinality(S) \in Nat
  BY FS_CardinalityType
<1>2. Cardinality(S \cup {x}) = Cardinality(S) + 1
  BY FS_AddElement
<1> QED
  BY <1>1, <1>2 DEF One

LEMMA CountShifts ==
    ASSUME NEW n \in Nat, NEW S, S \subseteq 1 .. n
    PROVE  /\ IsFiniteSet(S) /\ IsFiniteSet({i + 1 : i \in S})
           /\ Cardinality({i + 1 : i \in S}) = Cardinality(S)
<1> DEFINE T == {i + 1 : i \in S}
           f == [i \in S |-> i + 1]
<1>1. IsFiniteSet(S)
  <2>1. IsFiniteSet(1 .. n)
    BY FS_Interval
  <2> QED
    BY <2>1, FS_Subset
<1>2. f \in Bijection(S, T)
  <2>1. f \in [S -> T] /\ \A i \in S : f[i] = i + 1 /\ i \in Int
    OBVIOUS
  <2>2. \A i, j \in S : f[i] = f[j] => i = j
    BY <2>1
  <2>3. \A t \in T : \E i \in S : f[i] = t
    OBVIOUS
  <2> QED
    BY <2>1, <2>2, <2>3 DEF Bijection, Injection, Surjection, IsInjective
<1>3. ExistsBijection(S, T)
  BY <1>2 DEF ExistsBijection
<1> QED
  BY <1>1, <1>3, FS_Bijection

LEMMA RefsAppend ==
    ASSUME NEW s \in Seq(Change), NEW c \in Change, NEW v
    PROVE  /\ Refs(s, v) \in Nat
           /\ Refs(Append(s, c), v) = Refs(s, v) + One(Mentions(c.key, c.before, v))
                                                 + One(Mentions(c.key, c.after, v))
<1> DEFINE n == Len(s)
           a == Append(s, c)
<1>1. n \in Nat /\ Len(a) = n + 1 /\ a[n + 1] = c /\ \A i \in 1 .. n : a[i] = s[i]
  BY AppendProperties, LenProperties
<1>2. IsFiniteSet(1 .. n) /\ n + 1 \notin 1 .. n /\ 1 .. n + 1 = (1 .. n) \cup {n + 1}
  <2>1. n + 1 \notin 1 .. n /\ 1 .. n + 1 = (1 .. n) \cup {n + 1}
    BY <1>1
  <2>2. n \in Int /\ 1 \in Int
    BY <1>1
  <2> HIDE DEF n
  <2>3. IsFiniteSet(1 .. n)
    BY <2>2, FS_Interval
  <2> QED
    BY <2>1, <2>3
<1> HIDE DEF n, a
<1>3. IsFiniteSet(Found(s, v)) /\ IsFiniteSet(Left(s, v))
      /\ n + 1 \notin Found(s, v) /\ n + 1 \notin Left(s, v)
  BY <1>2, FS_Subset DEF Found, Left, n
<1>4. Found(a, v) = IF Mentions(c.key, c.before, v) THEN Found(s, v) \cup {n + 1} ELSE Found(s, v)
  <2>1. Found(a, v) = {i \in (1 .. n) \cup {n + 1} : Mentions(a[i].key, a[i].before, v)}
    BY <1>1, <1>2 DEF Found
  <2>2. Found(s, v) = {i \in 1 .. n : Mentions(a[i].key, a[i].before, v)}
    BY <1>1 DEF Found, n
  <2> QED
    BY <2>1, <2>2, <1>1
<1>5. Left(a, v) = IF Mentions(c.key, c.after, v) THEN Left(s, v) \cup {n + 1} ELSE Left(s, v)
  <2>1. Left(a, v) = {i \in (1 .. n) \cup {n + 1} : Mentions(a[i].key, a[i].after, v)}
    BY <1>1, <1>2 DEF Left
  <2>2. Left(s, v) = {i \in 1 .. n : Mentions(a[i].key, a[i].after, v)}
    BY <1>1 DEF Left, n
  <2> QED
    BY <2>1, <2>2, <1>1
<1>6. /\ Mentions(c.key, c.before, v) \in BOOLEAN /\ Mentions(c.key, c.after, v) \in BOOLEAN
      /\ One(Mentions(c.key, c.before, v)) \in Nat /\ One(Mentions(c.key, c.after, v)) \in Nat
  BY DEF Mentions, One
<1>7. /\ Cardinality(Found(s, v)) \in Nat
      /\ Cardinality(Found(a, v)) = Cardinality(Found(s, v)) + One(Mentions(c.key, c.before, v))
  BY <1>3, <1>4, <1>6, CountGrows
<1>8. /\ Cardinality(Left(s, v)) \in Nat
      /\ Cardinality(Left(a, v)) = Cardinality(Left(s, v)) + One(Mentions(c.key, c.after, v))
  BY <1>3, <1>5, <1>6, CountGrows
<1>9. Refs(s, v) \in Nat
  BY <1>7, <1>8 DEF Refs
<1>10. Refs(a, v) = Refs(s, v) + One(Mentions(c.key, c.before, v)) + One(Mentions(c.key, c.after, v))
  BY <1>6, <1>7, <1>8 DEF Refs
<1> QED
  BY <1>9, <1>10 DEF a

LEMMA RefsTail ==
    ASSUME NEW s \in Seq(Change), s # <<>>, NEW v
    PROVE  /\ Refs(Tail(s), v) \in Nat
           /\ Refs(s, v) = Refs(Tail(s), v) + One(Mentions(Head(s).key, Head(s).before, v))
                                            + One(Mentions(Head(s).key, Head(s).after, v))
<1> DEFINE n == Len(s)
           t == Tail(s)
           c == s[1]
<1>1. n \in Nat \ {0} /\ Len(t) = n - 1 /\ Head(s) = c /\ \A i \in 1 .. n - 1 : t[i] = s[i + 1]
  BY HeadTailProperties, LenProperties, EmptySeq
<1> HIDE DEF n, t
<1>2. Found(t, v) \subseteq 1 .. n - 1 /\ Left(t, v) \subseteq 1 .. n - 1 /\ n - 1 \in Nat
  BY <1>1 DEF Found, Left
<1> DEFINE F == {i + 1 : i \in Found(t, v)}
           L == {i + 1 : i \in Left(t, v)}
<1>3. /\ IsFiniteSet(F) /\ Cardinality(F) = Cardinality(Found(t, v)) /\ 1 \notin F
      /\ IsFiniteSet(L) /\ Cardinality(L) = Cardinality(Left(t, v)) /\ 1 \notin L
  <2>1. 1 \notin F /\ 1 \notin L
    BY <1>2
  <2> QED
    BY <2>1, <1>2, CountShifts
<1>4. Found(s, v) = IF Mentions(c.key, c.before, v) THEN F \cup {1} ELSE F
  <2>1. ASSUME NEW i \in Found(s, v), i # 1 PROVE i \in F
    <3>1. i \in 1 .. n /\ Mentions(s[i].key, s[i].before, v)
      BY DEF Found, n
    <3>2. i - 1 \in 1 .. n - 1 /\ t[i - 1] = s[i] /\ (i - 1) + 1 = i
      BY <3>1, <2>1, <1>1
    <3>3. i - 1 \in Found(t, v)
      BY <3>1, <3>2, <1>1 DEF Found
    <3> QED
      BY <3>2, <3>3
  <2>2. ASSUME NEW i \in F PROVE i \in Found(s, v) /\ i # 1
    <3>1. PICK j \in Found(t, v) : i = j + 1
      OBVIOUS
    <3>2. j \in 1 .. n - 1 /\ Mentions(t[j].key, t[j].before, v)
      BY <1>1 DEF Found
    <3>3. i \in 1 .. n /\ i # 1 /\ s[i] = t[j]
      BY <3>1, <3>2, <1>1
    <3> QED
      BY <3>2, <3>3 DEF Found, n
  <2>3. 1 \in Found(s, v) <=> Mentions(c.key, c.before, v)
    BY <1>1 DEF Found, n
  <2> HIDE DEF F
  <2>4. CASE Mentions(c.key, c.before, v)
    <3>1. \A i : i \in Found(s, v) <=> i \in F \cup {1}
      BY <2>1, <2>2, <2>3, <2>4
    <3> QED
      BY <3>1, <2>4
  <2>5. CASE ~Mentions(c.key, c.before, v)
    <3>1. \A i : i \in Found(s, v) <=> i \in F
      BY <2>1, <2>2, <2>3, <2>5
    <3> QED
      BY <3>1, <2>5
  <2> QED
    BY <2>4, <2>5
<1>5. Left(s, v) = IF Mentions(c.key, c.after, v) THEN L \cup {1} ELSE L
  <2>1. ASSUME NEW i \in Left(s, v), i # 1 PROVE i \in L
    <3>1. i \in 1 .. n /\ Mentions(s[i].key, s[i].after, v)
      BY DEF Left, n
    <3>2. i - 1 \in 1 .. n - 1 /\ t[i - 1] = s[i] /\ (i - 1) + 1 = i
      BY <3>1, <2>1, <1>1
    <3>3. i - 1 \in Left(t, v)
      BY <3>1, <3>2, <1>1 DEF Left
    <3> QED
      BY <3>2, <3>3
  <2>2. ASSUME NEW i \in L PROVE i \in Left(s, v) /\ i # 1
    <3>1. PICK j \in Left(t, v) : i = j + 1
      OBVIOUS
    <3>2. j \in 1 .. n - 1 /\ Mentions(t[j].key, t[j].after, v)
      BY <1>1 DEF Left
    <3>3. i \in 1 .. n /\ i # 1 /\ s[i] = t[j]
      BY <3>1, <3>2, <1>1
    <3> QED
      BY <3>2, <3>3 DEF Left, n
  <2>3. 1 \in Left(s, v) <=> Mentions(c.key, c.after, v)
    BY <1>1 DEF Left, n
  <2> HIDE DEF L
  <2>4. CASE Mentions(c.key, c.after, v)
    <3>1. \A i : i \in Left(s, v) <=> i \in L \cup {1}
      BY <2>1, <2>2, <2>3, <2>4
    <3> QED
      BY <3>1, <2>4
  <2>5. CASE ~Mentions(c.key, c.after, v)
    <3>1. \A i : i \in Left(s, v) <=> i \in L
      BY <2>1, <2>2, <2>3, <2>5
    <3> QED
      BY <3>1, <2>5
  <2> QED
    BY <2>4, <2>5
<1> HIDE DEF F, L, c
<1>6. /\ Mentions(c.key, c.before, v) \in BOOLEAN /\ Mentions(c.key, c.after, v) \in BOOLEAN
      /\ One(Mentions(c.key, c.before, v)) \in Nat /\ One(Mentions(c.key, c.after, v)) \in Nat
  BY DEF Mentions, One
<1>7. /\ Cardinality(Found(t, v)) \in Nat
      /\ Cardinality(Found(s, v)) = Cardinality(Found(t, v)) + One(Mentions(c.key, c.before, v))
  <2>1. /\ Cardinality(F) \in Nat
        /\ Cardinality(IF Mentions(c.key, c.before, v) THEN F \cup {1} ELSE F)
              = Cardinality(F) + One(Mentions(c.key, c.before, v))
    BY <1>3, <1>6, CountGrows
  <2> QED
    BY <2>1, <1>3, <1>4
<1>8. /\ Cardinality(Left(t, v)) \in Nat
      /\ Cardinality(Left(s, v)) = Cardinality(Left(t, v)) + One(Mentions(c.key, c.after, v))
  <2>1. /\ Cardinality(L) \in Nat
        /\ Cardinality(IF Mentions(c.key, c.after, v) THEN L \cup {1} ELSE L)
              = Cardinality(L) + One(Mentions(c.key, c.after, v))
    BY <1>3, <1>6, CountGrows
  <2> QED
    BY <2>1, <1>3, <1>5
<1>9. Refs(t, v) \in Nat
  BY <1>7, <1>8 DEF Refs
<1>10. Refs(s, v) = Refs(t, v) + One(Mentions(c.key, c.before, v)) + One(Mentions(c.key, c.after, v))
  BY <1>6, <1>7, <1>8 DEF Refs
<1> QED
  BY <1>1, <1>9, <1>10 DEF t

-----------------------------------------------------------------------------
(* The inductive invariant. *)

(* The ghost history ends in the present, and its times increase. *)
HistoryOK ==
    /\ Len(history) = revision + 1
    /\ history[revision + 1].docs = documents
    /\ history[revision + 1].time = last_commit_time
    /\ \A i, j \in 1 .. Len(history) : i < j => history[i].time < history[j].time

(* The change log and the changes still to be pushed lead from the floor to *)
(* the documents, or, while a commit is planned, to the planned ones.       *)
Target  == IF pc = "plan" THEN plan.documents ELSE documents
Pushing == IF pc = "plan" THEN revision + 1 ELSE revision
LogOK ==
    /\ change_floor <= revision
    /\ pc \in {"idle", "expire"} => plan.changes = <<>>
    /\ \A i \in 1 .. Len(change_log) : change_log[i].revision <= revision
    /\ \A i \in 1 .. Len(plan.changes) : plan.changes[i].revision = Pushing
    /\ LeadsTo(change_log \o plan.changes, Target, history, change_floor)
    /\ Chained(plan.changes, Target)
    /\ Indexed(collections, plan.changes, Target)

(* A commit that is planned may still fail: nothing has changed yet. *)
PlanOK ==
    pc = "plan" =>
        /\ RevisionLeft
        /\ plan.time > last_commit_time
        /\ LeadsTo(change_log, documents, history, change_floor)
        /\ Indexed(collections, <<>>, documents)
        /\ released = [history |-> history, change_floor |-> change_floor,
                       history_floor |-> history_floor.revision]

(* The commit times follow the floor without a gap. *)
Follows(points, floor, past) ==
    /\ floor.time = past[floor.revision + 1].time
    /\ \A i \in 1 .. Len(points) :
          /\ points[i].revision = floor.revision + i
          /\ points[i].time = past[floor.revision + i + 1].time
TimesOK ==
    /\ Len(commit_times) + history_floor.revision + One(pc \in {"push", "evict"}) = revision
    /\ Follows(commit_times, history_floor, history)
    /\ pc \in {"idle", "plan"} => change_floor <= history_floor.revision

(* The commit under way adds one revision to the history it found. *)
ReleasedOK ==
    pc \in {"push", "evict", "expire"} =>
        /\ released.history # <<>>
        /\ history = Append(released.history, [time |-> last_commit_time, docs |-> documents])
        /\ released.change_floor <= change_floor
        /\ released.history_floor <= history_floor.revision

(* The accounting holds what the log refers to. *)
AccountsOK == Accounts(replay) /\ \A v : Refs(change_log, v) = Counted(replay, v)

Inv == /\ TypeOK /\ HistoryOK /\ LogOK /\ PlanOK /\ TimesOK /\ ReleasedOK /\ AccountsOK

-----------------------------------------------------------------------------
(* Types. *)

LEMMA NumberTypes ==
    /\ \A r \in Revisions : r \in Nat
    /\ \A t \in Times : t \in Nat
    /\ MaxRevision \in Nat /\ MaxTime \in Nat /\ MaxWrites \in Nat
    /\ MaxEntries \in Nat \ {0}
BY BoundsAssumption, LimitsAssumption DEF Revisions, Times

LEMMA WriteTyped ==
    ASSUME NEW w \in Writes, NEW docs \in Documents, NEW time \in Times
    PROVE  w.key \in Keys /\ apply_write(w, docs, time) \in Stored \cup {Absent}
<1>1. /\ w.key \in Keys
      /\ w.op \in {"create", "set", "patch", "delete", "verify"}
      /\ w.op \in {"create", "set", "patch"} => w.value \in Values
  BY DEF Writes
<1>2. docs[w.key] \in Stored \cup {Absent}
  BY <1>1 DEF Documents
<1>3. w.op \in {"create", "set", "patch"} => [value |-> w.value, update_time |-> time] \in Stored
  BY <1>1 DEF Stored
<1> QED
  BY <1>1, <1>2, <1>3 DEF apply_write

(* What a planned write does to the plan. *)
LEMMA PlanWriteFacts ==
    ASSUME TypeOK, RevisionLeft, NEW w \in Writes, PlanWrite(w)
    PROVE  \E c \in Change :
              /\ c.revision = revision + 1
              /\ c.before = plan.documents[c.key]
              /\ plan'.documents = [plan.documents EXCEPT ![c.key] = c.after]
              /\ \/ plan'.changes = Append(plan.changes, c)
                 \/ plan'.changes = plan.changes /\ plan'.documents = plan.documents
              /\ plan'.time = plan.time
              /\ plan' \in [time : Times, documents : Documents, changes : Seq(Change),
                            writes : 0 .. MaxWrites]
<1> DEFINE next == apply_write(w, plan.documents, plan.time)
           c == [revision |-> revision + 1, key |-> w.key,
                 before |-> plan.documents[w.key], after |-> next]
           docs == [plan.documents EXCEPT ![w.key] = next]
           made == IF c.before # next THEN Append(plan.changes, c) ELSE plan.changes
<1>1. /\ plan.documents \in Documents /\ plan.time \in Times /\ plan.changes \in Seq(Change)
      /\ plan.writes \in 0 .. MaxWrites /\ plan.writes < MaxWrites /\ revision \in Nat
  BY NumberTypes DEF TypeOK, PlanWrite
<1>2. w.key \in Keys /\ next \in Stored \cup {Absent}
  BY <1>1, WriteTyped
<1> HIDE DEF next
<1>3. plan.documents[w.key] \in Stored \cup {Absent} /\ docs \in Documents
  BY <1>1, <1>2 DEF Documents
<1>4. revision + 1 \in Revisions
  BY <1>1, NumberTypes DEF RevisionLeft, Revisions
<1>5. c \in Change
  BY <1>2, <1>3, <1>4 DEF Change
<1>6. made \in Seq(Change)
  BY <1>1, <1>5, AppendProperties
<1>7. plan.writes + 1 \in 0 .. MaxWrites
  BY <1>1, NumberTypes
<1>8. plan' = [time |-> plan.time, documents |-> docs, changes |-> made, writes |-> plan.writes + 1]
  <2>1. plan = [time |-> plan.time, documents |-> plan.documents, changes |-> plan.changes,
                writes |-> plan.writes]
    BY DEF TypeOK
  <2>2. plan' = [plan EXCEPT !.documents[w.key] = next,
                             !.changes = IF c.before # next THEN Append(@, c) ELSE @,
                             !.writes = @ + 1]
    BY DEF PlanWrite, Differs, next
  <2> QED
    BY <2>1, <2>2
<1>9. c.before = next => docs = plan.documents
  BY <1>1, <1>2 DEF Documents
<1>10. /\ c.revision = revision + 1 /\ c.key = w.key /\ c.before = plan.documents[w.key]
       /\ c.after = next
  OBVIOUS
<1>11. /\ plan'.documents = docs /\ plan'.changes = made /\ plan'.time = plan.time
       /\ plan' \in [time : Times, documents : Documents, changes : Seq(Change),
                     writes : 0 .. MaxWrites]
  BY <1>1, <1>3, <1>6, <1>7, <1>8
<1>12. docs = [plan.documents EXCEPT ![c.key] = c.after]
  BY <1>10
<1>13. made = Append(plan.changes, c) \/ (made = plan.changes /\ docs = plan.documents)
  BY <1>9
<1> HIDE DEF c, docs, made
<1> QED
  BY <1>5, <1>10, <1>11, <1>12, <1>13

(* The accounting follows the log. *)
LEMMA AccountsStep ==
    ASSUME Inv, [Next]_vars
    PROVE  AccountsOK'
<1>1. /\ Accounts(replay) /\ \A v : Refs(change_log, v) = Counted(replay, v)
      /\ change_log \in Seq(Change) /\ plan.changes \in Seq(Change)
  BY DEF Inv, AccountsOK, TypeOK
<1>2. CASE push_change
  <2> DEFINE c == Head(plan.changes)
             one == add_replay_version(replay, c.key, c.before)
             two == add_replay_version(one, c.key, c.after)
  <2>1. plan.changes # <<>> /\ replay' = two /\ change_log' = Append(change_log, c)
    BY <1>2 DEF push_change
  <2>2. c \in Change
    BY <2>1, <1>1, HeadTailProperties
  <2>3. c.key \in Keys /\ c.before \in Stored \cup {Absent} /\ c.after \in Stored \cup {Absent}
    BY <2>2 DEF Change
  <2> HIDE DEF c
  <2>4. /\ Accounts(one)
        /\ \A v : Counted(one, v) = Counted(replay, v) + One(Mentions(c.key, c.before, v))
    BY <1>1, <2>3, AddVersion
  <2> HIDE DEF one
  <2>5. /\ Accounts(two)
        /\ \A v : Counted(two, v) = Counted(one, v) + One(Mentions(c.key, c.after, v))
    BY <2>3, <2>4, AddVersion
  <2> HIDE DEF two
  <2>6. \A v : Refs(Append(change_log, c), v) = Refs(change_log, v)
                    + One(Mentions(c.key, c.before, v)) + One(Mentions(c.key, c.after, v))
    BY <1>1, <2>2, RefsAppend
  <2>7. \A v : Refs(Append(change_log, c), v) = Counted(two, v)
    BY <1>1, <2>4, <2>5, <2>6
  <2> QED
    BY <2>1, <2>5, <2>7 DEF AccountsOK
<1>3. CASE Evict /\ change_log # <<>>
  <2> DEFINE c == Head(change_log)
             one == remove_replay_version(replay, c.key, c.before)
             two == remove_replay_version(one, c.key, c.after)
  <2>1. replay' = two /\ change_log' = Tail(change_log)
    BY <1>3 DEF Evict
  <2>2. c \in Change
    BY <1>1, <1>3, HeadTailProperties
  <2>3. c.key \in Keys /\ c.before \in Stored \cup {Absent} /\ c.after \in Stored \cup {Absent}
    BY <2>2 DEF Change
  <2>4. \A v : /\ Refs(Tail(change_log), v) \in Nat
               /\ Refs(change_log, v) = Refs(Tail(change_log), v)
                    + One(Mentions(c.key, c.before, v)) + One(Mentions(c.key, c.after, v))
    BY <1>1, <1>3, RefsTail
  <2> HIDE DEF c
  <2>5. \A v : One(Mentions(c.key, c.before, v)) \in Nat /\ One(Mentions(c.key, c.after, v)) \in Nat
    BY DEF One
  <2>6. /\ Accounts(one)
        /\ \A v : Counted(replay, v) >= One(Mentions(c.key, c.before, v))
                  => Counted(one, v) = Counted(replay, v) - One(Mentions(c.key, c.before, v))
    BY <1>1, <2>3, RemoveVersion
  <2>7. ASSUME NEW v
        PROVE  Counted(one, v) = Refs(Tail(change_log), v) + One(Mentions(c.key, c.after, v))
    BY <1>1, <2>4, <2>5, <2>6
  <2> HIDE DEF one
  <2>8. /\ Accounts(two)
        /\ \A v : Counted(one, v) >= One(Mentions(c.key, c.after, v))
                  => Counted(two, v) = Counted(one, v) - One(Mentions(c.key, c.after, v))
    BY <2>3, <2>6, RemoveVersion
  <2>9. ASSUME NEW v PROVE Counted(two, v) = Refs(Tail(change_log), v)
    BY <2>4, <2>5, <2>7, <2>8
  <2> HIDE DEF two
  <2> QED
    BY <2>1, <2>8, <2>9 DEF AccountsOK
<1>4. CASE UNCHANGED log
  BY <1>1, <1>4 DEF log, AccountsOK
<1>5. push_change \/ (Evict /\ change_log # <<>>) \/ UNCHANGED log
  BY DEF Next, vars, BeginCommit, RevisionExhausted, PlanWrite, WriteFails, Install, Evict,
         EvictDone, push_commit_point, DropCommitPoint, Release
<1> QED
  BY <1>2, <1>3, <1>4, <1>5

(* Every step keeps the types. *)
LEMMA TypeStep ==
    ASSUME Inv, [Next]_vars
    PROVE  TypeOK'
<1> USE DEF TypeOK
<1>0. TypeOK /\ replay' \in ReplayVersions /\ (pc = "plan" => RevisionLeft)
  BY AccountsStep DEF Inv, AccountsOK, Accounts, PlanOK
<1>1. ASSUME NEW c \in Times, BeginCommit(c) PROVE TypeOK'
  <2>1. next_commit_time(c) \in Times
    BY <1>0, <1>1, NumberTypes DEF BeginCommit, RevisionLeft, next_commit_time, Times, Revisions
  <2>2. <<>> \in Seq(Change) /\ 0 \in 0 .. MaxWrites
    BY NumberTypes
  <2>3. plan' \in [time : Times, documents : Documents, changes : Seq(Change), writes : 0 .. MaxWrites]
    BY <1>0, <1>1, <2>1, <2>2 DEF BeginCommit
  <2>4. history_floor.revision \in Revisions
    BY <1>0 DEF CommitPoint
  <2>5. released' \in [history : Seq([time : Times, docs : Documents]), change_floor : Revisions,
                       history_floor : Revisions]
    BY <1>0, <1>1, <2>4 DEF BeginCommit
  <2> QED
    BY <1>0, <1>1, <2>3, <2>5 DEF BeginCommit, state, log, times
<1>2. ASSUME NEW w \in Writes, PlanWrite(w) PROVE TypeOK'
  <2>1. plan' \in [time : Times, documents : Documents, changes : Seq(Change), writes : 0 .. MaxWrites]
    BY <1>0, <1>2, PlanWriteFacts DEF PlanWrite
  <2> QED
    BY <1>0, <1>2, <2>1 DEF PlanWrite, state, log, times, ghost
<1>3. NoPlan \in [time : Times, documents : Documents, changes : Seq(Change), writes : 0 .. MaxWrites]
  <2>1. NoDocuments \in Documents /\ 0 \in Times /\ 0 \in 0 .. MaxWrites /\ <<>> \in Seq(Change)
    BY NumberTypes DEF NoDocuments, Documents, Times
  <2> QED
    BY <2>1 DEF NoPlan
<1>4. ASSUME NEW w \in Writes, WriteFails(w) PROVE TypeOK'
  BY <1>0, <1>3, <1>4 DEF WriteFails, state, log, times, ghost
<1>5. ASSUME Install PROVE TypeOK'
  <2>1. revision + 1 \in Revisions
    BY <1>0, <1>5, NumberTypes DEF Install, RevisionLeft, Revisions
  <2>2. plan.time \in Times /\ plan.documents \in Documents
    BY <1>0
  <2>3. [time |-> plan.time, docs |-> plan.documents] \in [time : Times, docs : Documents]
    BY <2>2
  <2>4. history' \in Seq([time : Times, docs : Documents])
    BY <1>0, <1>5, <2>3, AppendProperties DEF Install
  <2> QED
    BY <1>0, <1>5, <2>1, <2>2, <2>4 DEF Install, log, times
<1>6. ASSUME push_change PROVE TypeOK'
  <2> DEFINE c == Head(plan.changes)
  <2>1. plan.changes \in Seq(Change) /\ plan.changes # <<>>
    BY <1>0, <1>6 DEF push_change
  <2>2. c \in Change /\ Tail(plan.changes) \in Seq(Change)
    BY <2>1, HeadTailProperties
  <2>3. change_log' \in Seq(Change)
    BY <1>0, <1>6, <2>2, AppendProperties DEF push_change
  <2>4. c.key \in Keys
    BY <2>2 DEF Change
  <2>5. collections' \in [Collections -> SUBSET Keys]
    <3> HIDE DEF c
    <3>1. CollectionOf[c.key] \in Collections
      BY <2>4 DEF Collections
    <3>2. collections' = update_collection_index(collections, c.key, c.after # Absent)
      BY <1>6 DEF push_change, c
    <3> QED
      BY <1>0, <2>4, <3>1, <3>2 DEF update_collection_index
  <2>6. plan' \in [time : Times, documents : Documents, changes : Seq(Change), writes : 0 .. MaxWrites]
    BY <1>0, <1>6, <2>2 DEF push_change
  <2> QED
    BY <1>0, <1>6, <2>3, <2>5, <2>6 DEF push_change, times, ghost
<1>7. ASSUME Evict PROVE TypeOK'
  <2>1. CASE change_log = <<>>
    BY <1>0, <1>7, <2>1 DEF Evict, state, log, times, ghost
  <2>2. CASE change_log # <<>>
    <3>1. Head(change_log) \in Change /\ Tail(change_log) \in Seq(Change)
      BY <1>0, <2>2, HeadTailProperties
    <3>2. Head(change_log).revision \in Revisions
      BY <3>1 DEF Change
    <3>3. change_floor' \in Revisions /\ change_log' \in Seq(Change)
      BY <1>0, <1>7, <2>2, <3>1, <3>2 DEF Evict, FloorAfter
    <3> QED
      BY <1>0, <1>7, <3>3 DEF Evict, state, times, ghost
  <2> QED
    BY <2>1, <2>2
<1>8. ASSUME EvictDone PROVE TypeOK'
  BY <1>0, <1>8 DEF EvictDone, state, log, times, ghost
<1>9. ASSUME push_commit_point PROVE TypeOK'
  <2>1. [revision |-> revision, time |-> last_commit_time] \in CommitPoint
    BY <1>0 DEF CommitPoint
  <2>2. commit_times' \in Seq(CommitPoint)
    BY <1>0, <1>9, <2>1, AppendProperties DEF push_commit_point
  <2> QED
    BY <1>0, <1>9, <2>2 DEF push_commit_point, state, log, ghost
<1>10. ASSUME DropCommitPoint PROVE TypeOK'
  <2>1. commit_times # <<>>
    BY <1>0, <1>10, NumberTypes, EmptySeq DEF DropCommitPoint, PointExpired
  <2>2. Head(commit_times) \in CommitPoint /\ Tail(commit_times) \in Seq(CommitPoint)
    BY <1>0, <2>1, HeadTailProperties
  <2> QED
    BY <1>0, <1>10, <2>2 DEF DropCommitPoint, state, log, ghost
<1>11. ASSUME Release PROVE TypeOK'
  BY <1>0, <1>3, <1>11 DEF Release, state, log, times, ghost
<1>12. ASSUME UNCHANGED vars PROVE TypeOK'
  BY <1>0, <1>12 DEF vars, state, log, times, ghost
<1> QED
  BY <1>1, <1>2, <1>4, <1>5, <1>6, <1>7, <1>8, <1>9, <1>10, <1>11, <1>12
     DEF Next, RevisionExhausted

(* The history grows by what a commit installs, later than all before it. *)
LEMMA HistoryStep ==
    ASSUME Inv, [Next]_vars
    PROVE  HistoryOK'
<1> DEFINE R == [time : Times, docs : Documents]
           new == [time |-> plan.time, docs |-> plan.documents]
<1>1. /\ history \in Seq(R) /\ revision \in Nat /\ last_commit_time \in Nat /\ plan.time \in Nat
      /\ new \in R /\ HistoryOK
      /\ pc = "plan" => plan.time > last_commit_time
  BY NumberTypes DEF Inv, TypeOK, PlanOK
<1>2. CASE Install
  <2>1. /\ history' = Append(history, new) /\ revision' = revision + 1 /\ documents' = plan.documents
        /\ last_commit_time' = plan.time /\ plan.time > last_commit_time
    BY <1>1, <1>2 DEF Install
  <2> DEFINE h == Append(history, new)
             n == revision + 1
  <2>2. Len(history) = n /\ n \in Nat
    BY <1>1 DEF HistoryOK
  <2>3. Len(h) = n + 1 /\ h[n + 1] = new /\ \A i \in 1 .. n : h[i] = history[i]
    BY <1>1, <2>2, AppendProperties
  <2>4. \A i \in 1 .. n : history[i].time \in Nat
    <3>1. \A i \in 1 .. n : history[i] \in R
      BY <1>1, <2>2, ElementOfSeq
    <3> QED
      BY <3>1, NumberTypes
  <2>5. ASSUME NEW i \in 1 .. n PROVE history[i].time < plan.time
    <3>1. history[n].time = last_commit_time /\ n \in 1 .. n
      BY <1>1, <2>2 DEF HistoryOK
    <3>2. CASE i = n
      BY <3>1, <3>2, <2>1
    <3>3. CASE i # n
      <4>1. history[i].time < history[n].time
        BY <3>1, <3>3, <1>1, <2>2 DEF HistoryOK
      <4>2. \A a, b, d \in Nat : a < b /\ d > b => a < d
        OBVIOUS
      <4> QED
        BY <4>1, <4>2, <3>1, <2>1, <2>4, <1>1
    <3> QED
      BY <3>2, <3>3
  <2> HIDE DEF h
  <2>6. ASSUME NEW i \in 1 .. n + 1, NEW j \in 1 .. n + 1, i < j
        PROVE  h[i].time < h[j].time
    <3>1. i \in 1 .. n
      BY <2>2, <2>6
    <3>2. CASE j = n + 1
      BY <3>1, <3>2, <2>3, <2>5
    <3>3. CASE j \in 1 .. n
      BY <3>1, <3>3, <2>2, <2>3, <2>6, <1>1 DEF HistoryOK
    <3> QED
      BY <3>2, <3>3, <2>2
  <2>7. new.docs = plan.documents /\ new.time = plan.time
    OBVIOUS
  <2> HIDE DEF new, n
  <2>8. history' = h /\ revision' = n
    BY <2>1 DEF h, n
  <2> QED
    BY <2>1, <2>3, <2>6, <2>7, <2>8 DEF HistoryOK
<1>3. CASE UNCHANGED <<revision, last_commit_time, documents, history>>
  BY <1>1, <1>3 DEF HistoryOK
<1>4. Install \/ UNCHANGED <<revision, last_commit_time, documents, history>>
  BY DEF Next, vars, state, ghost, BeginCommit, RevisionExhausted, PlanWrite, WriteFails, push_change,
         Evict, EvictDone, push_commit_point, DropCommitPoint, Release
<1> QED
  BY <1>2, <1>3, <1>4

(* A commit that is planned leaves the state alone. *)
LEMMA PlanStep ==
    ASSUME Inv, [Next]_vars
    PROVE  PlanOK'
<1>1. TypeOK /\ LogOK /\ PlanOK
  BY DEF Inv
<1>2. ASSUME NEW c \in Times, BeginCommit(c) PROVE PlanOK'
  <2>1. pc = "idle" /\ plan.changes = <<>> /\ change_log \in Seq(Change)
    BY <1>1, <1>2 DEF BeginCommit, LogOK, TypeOK
  <2>2. change_log \o plan.changes = change_log /\ Target = documents
    BY <2>1, ConcatEmptySeq DEF Target
  <2>3. /\ LeadsTo(change_log, documents, history, change_floor)
        /\ Indexed(collections, <<>>, documents)
    BY <2>1, <2>2, <1>1 DEF LogOK
  <2>4. next_commit_time(c) > last_commit_time
    BY <1>1, NumberTypes DEF next_commit_time, TypeOK
  <2>5. plan'.time = next_commit_time(c) /\ RevisionLeft
    BY <1>2 DEF BeginCommit
  <2> HIDE DEF next_commit_time
  <2> QED
    BY <1>2, <2>3, <2>4, <2>5 DEF BeginCommit, PlanOK, RevisionLeft, state, log, times
<1>3. ASSUME NEW w \in Writes, PlanWrite(w) PROVE PlanOK'
  <2>1. pc = "plan" /\ RevisionLeft /\ plan'.time = plan.time
    BY <1>1, <1>3, PlanWriteFacts DEF PlanWrite, PlanOK
  <2> QED
    BY <1>1, <1>3, <2>1 DEF PlanWrite, PlanOK, RevisionLeft, state, log, times, ghost
<1>4. ASSUME UNCHANGED vars PROVE PlanOK'
  BY <1>1, <1>4 DEF vars, state, log, times, ghost, PlanOK, RevisionLeft
<1>5. ASSUME pc' # "plan" PROVE PlanOK'
  BY <1>5 DEF PlanOK
<1> QED
  BY <1>2, <1>3, <1>4, <1>5
     DEF Next, RevisionExhausted, WriteFails, Install, push_change, Evict, EvictDone,
         push_commit_point, DropCommitPoint, Release

(* The ghosts of the commit under way. *)
LEMMA ReleasedStep ==
    ASSUME Inv, [Next]_vars
    PROVE  ReleasedOK'
<1>1. TypeOK /\ PlanOK /\ ReleasedOK /\ TimesOK
  BY DEF Inv
<1>2. CASE Install
  <2>1. /\ released = [history |-> history, change_floor |-> change_floor,
                       history_floor |-> history_floor.revision]
        /\ change_floor \in Nat /\ history_floor.revision \in Nat
    BY <1>1, <1>2, NumberTypes DEF Install, PlanOK, TypeOK, CommitPoint
  <2>2. history # <<>>
    <3>1. Len(history) = revision + 1 /\ revision \in Nat /\ Len(<<>>) = 0
      BY NumberTypes DEF Inv, HistoryOK, TypeOK
    <3> QED
      BY <3>1
  <2> QED
    BY <1>2, <2>1, <2>2 DEF Install, ReleasedOK, log, times
<1>3. CASE Evict
  <2>1. CASE change_log = <<>>
    BY <1>1, <1>3, <2>1 DEF Evict, ReleasedOK, state, log, times, ghost
  <2>2. CASE change_log # <<>>
    <3>1. Head(change_log) \in Change
      BY <1>1, <2>2, HeadTailProperties DEF TypeOK
    <3>2. Head(change_log).revision \in Nat /\ change_floor \in Nat /\ released.change_floor \in Nat
      BY <3>1, <1>1, NumberTypes DEF Change, TypeOK
    <3>3. FloorAfter(Head(change_log)) >= change_floor /\ FloorAfter(Head(change_log)) \in Nat
      BY <3>2 DEF FloorAfter
    <3>4. released.change_floor <= FloorAfter(Head(change_log))
      BY <3>2, <3>3, <1>1, <1>3 DEF ReleasedOK, Evict
    <3>5. change_floor' = FloorAfter(Head(change_log))
      BY <1>3, <2>2 DEF Evict
    <3> QED
      BY <1>1, <1>3, <3>4, <3>5 DEF Evict, ReleasedOK, state, times, ghost
  <2> QED
    BY <2>1, <2>2
<1>4. CASE DropCommitPoint
  <2>1. commit_times # <<>>
    BY <1>1, <1>4, NumberTypes, EmptySeq DEF DropCommitPoint, PointExpired, TypeOK
  <2>2. Len(commit_times) \in Nat \ {0} /\ Head(commit_times) = commit_times[1]
    BY <1>1, <2>1, EmptySeq DEF TypeOK
  <2>3. history_floor.revision \in Nat /\ released.history_floor \in Nat
    BY <1>1, NumberTypes DEF TypeOK, CommitPoint
  <2>4. Head(commit_times).revision = history_floor.revision + 1
    BY <1>1, <2>2 DEF TimesOK, Follows
  <2>5. released.history_floor <= Head(commit_times).revision
    BY <1>1, <1>4, <2>3, <2>4 DEF ReleasedOK, DropCommitPoint
  <2> QED
    BY <1>1, <1>4, <2>5 DEF DropCommitPoint, ReleasedOK, state, log, ghost
<1>5. CASE push_change \/ EvictDone \/ push_commit_point \/ UNCHANGED vars
  BY <1>1, <1>5 DEF push_change, EvictDone, push_commit_point, vars, ReleasedOK, state, log, times, ghost
<1>6. CASE pc' \in {"idle", "plan"}
  BY <1>6 DEF ReleasedOK
<1> QED
  BY <1>2, <1>3, <1>4, <1>5, <1>6
     DEF Next, BeginCommit, PlanWrite, RevisionExhausted, WriteFails, Release

LEMMA NoChanges ==
    ASSUME NEW docs
    PROVE  Chained(<<>>, docs) /\ Len(<<>>) = 0
BY DEF Chained

(* The log and the plan lead to the target, whichever end of them moves. *)
LEMMA LogStep ==
    ASSUME Inv, [Next]_vars
    PROVE  LogOK'
<1> DEFINE R == [time : Times, docs : Documents]
           C == change_log \o plan.changes
<1>1. TypeOK /\ HistoryOK /\ LogOK /\ PlanOK
  BY DEF Inv
<1>2. /\ change_log \in Seq(Change) /\ plan.changes \in Seq(Change) /\ C \in Seq(Change)
      /\ history \in Seq(R) /\ Len(history) = revision + 1 /\ Len(history) \in Nat
      /\ revision \in Nat /\ change_floor \in Nat
      /\ documents \in Documents /\ plan.documents \in Documents
  BY <1>1, NumberTypes, ConcatProperties DEF TypeOK, HistoryOK
<1>3. /\ \A i \in 1 .. Len(change_log) : change_log[i].revision \in Nat
      /\ \A i \in 1 .. Len(plan.changes) : plan.changes[i].revision \in Nat
      /\ Len(change_log) \in Nat /\ Len(plan.changes) \in Nat
  BY <1>2, ChangeFields
<1>4. ASSUME NEW c \in Times, BeginCommit(c) PROVE LogOK'
  <2>1. /\ pc = "idle" /\ pc' = "plan" /\ plan.changes = <<>> /\ plan'.changes = <<>>
        /\ plan'.documents = documents
    BY <1>1, <1>4 DEF BeginCommit, LogOK
  <2>2. Target = documents /\ Target' = documents
    BY <2>1 DEF Target
  <2>3. \A i \in 1 .. Len(plan'.changes) : plan'.changes[i].revision = Pushing'
    BY <2>1, NoChanges
  <2> QED
    BY <1>1, <1>4, <2>1, <2>2, <2>3 DEF BeginCommit, LogOK, state, log, times
<1>5. ASSUME NEW w \in Writes, PlanWrite(w) PROVE LogOK'
  <2>1. pc = "plan" /\ pc' = "plan" /\ RevisionLeft
    BY <1>1, <1>5 DEF PlanWrite, PlanOK
  <2>2. PICK c \in Change :
              /\ c.revision = revision + 1
              /\ c.before = plan.documents[c.key]
              /\ plan'.documents = [plan.documents EXCEPT ![c.key] = c.after]
              /\ \/ plan'.changes = Append(plan.changes, c)
                 \/ plan'.changes = plan.changes /\ plan'.documents = plan.documents
    BY <1>1, <1>5, <2>1, PlanWriteFacts
  <2>3. Target = plan.documents /\ Target' = plan'.documents /\ Pushing = revision + 1
    BY <2>1 DEF Target, Pushing
  <2>4. Pushing' = revision + 1
    BY <2>1, <1>5 DEF Pushing, PlanWrite, state
  <2>5. UNCHANGED <<revision, collections, change_log, change_floor, history>>
    BY <1>5 DEF PlanWrite, state, log, ghost
  <2>6. CASE plan'.changes = plan.changes /\ plan'.documents = plan.documents
    BY <1>1, <2>1, <2>3, <2>4, <2>5, <2>6 DEF LogOK
  <2>7. CASE plan'.changes = Append(plan.changes, c)
    <3>1. change_log \o plan'.changes = Append(C, c)
      BY <2>7, <1>2, ConcatAppend
    <3>2. \A i \in 1 .. Len(C) : C[i].revision <= Len(history)
      <4>1. \A i \in 1 .. Len(change_log) : change_log[i].revision <= revision + 1
        BY <1>1, <1>2, <1>3 DEF LogOK
      <4>2. \A i \in 1 .. Len(plan.changes) : plan.changes[i].revision <= revision + 1
        BY <1>1, <1>2, <2>3 DEF LogOK
      <4>3. /\ Len(C) = Len(change_log) + Len(plan.changes)
            /\ \A i \in 1 .. Len(change_log) + Len(plan.changes) :
                  C[i] = IF i <= Len(change_log) THEN change_log[i]
                         ELSE plan.changes[i - Len(change_log)]
        BY <1>2, ConcatProperties
      <4> QED
        BY <1>2, <1>3, <4>1, <4>2, <4>3
    <3>3. LeadsTo(C, plan.documents, history, change_floor)
      BY <1>1, <2>3 DEF LogOK
    <3>4. c.revision = Len(history)
      BY <2>2, <1>2
    <3>5. LeadsTo(Append(C, c), plan'.documents, history, change_floor)
      <4>1. LeadsTo(Append(C, c), [plan.documents EXCEPT ![c.key] = c.after], history, change_floor)
        BY <1>2, <2>2, <3>2, <3>3, <3>4, LeadsAppend
      <4> QED
        BY <4>1, <2>2
    <3>6. Chained(plan'.changes, plan'.documents)
      <4>1. Chained(plan.changes, plan.documents)
        BY <1>1, <2>3 DEF LogOK
      <4>2. Chained(Append(plan.changes, c), [plan.documents EXCEPT ![c.key] = c.after])
        BY <1>2, <2>2, <4>1, ChainedAppend
      <4> QED
        BY <4>2, <2>2, <2>7
    <3>7. Indexed(collections, plan'.changes, plan'.documents)
      <4>1. Indexed(collections, plan.changes, plan.documents)
        BY <1>1, <2>3 DEF LogOK
      <4>2. Indexed(collections, Append(plan.changes, c), [plan.documents EXCEPT ![c.key] = c.after])
        BY <1>2, <2>2, <4>1, IndexedAppend
      <4> QED
        BY <4>2, <2>2, <2>7
    <3>8. \A i \in 1 .. Len(plan'.changes) : plan'.changes[i].revision = revision + 1
      <4>1. \A i \in 1 .. Len(plan.changes) : plan.changes[i].revision = revision + 1
        BY <1>1, <2>3 DEF LogOK
      <4>2. /\ Len(Append(plan.changes, c)) = Len(plan.changes) + 1
            /\ \A i \in 1 .. Len(plan.changes) : Append(plan.changes, c)[i] = plan.changes[i]
            /\ Append(plan.changes, c)[Len(plan.changes) + 1] = c
        BY <1>2, AppendProperties
      <4>3. \A i \in 1 .. Len(Append(plan.changes, c)) :
                Append(plan.changes, c)[i].revision = revision + 1
        BY <1>3, <2>2, <4>1, <4>2
      <4> QED
        BY <4>3, <2>7
    <3> HIDE DEF C
    <3> QED
      BY <1>1, <2>1, <2>3, <2>4, <2>5, <3>1, <3>5, <3>6, <3>7, <3>8 DEF LogOK
  <2> QED
    BY <2>2, <2>6, <2>7
<1>6. ASSUME NEW w \in Writes, WriteFails(w) PROVE LogOK'
  <2>1. /\ pc = "plan" /\ pc' = "idle" /\ plan'.changes = <<>>
        /\ UNCHANGED <<revision, documents, collections, change_log, change_floor, history>>
    BY <1>6 DEF WriteFails, NoPlan, state, log, ghost
  <2>2. Target' = documents /\ change_log \o <<>> = change_log
    BY <2>1, <1>2, ConcatEmptySeq DEF Target
  <2>3. /\ LeadsTo(change_log, documents, history, change_floor)
        /\ Indexed(collections, <<>>, documents)
    BY <1>1, <2>1 DEF PlanOK
  <2>4. \A i \in 1 .. Len(plan'.changes) : plan'.changes[i].revision = Pushing'
    BY <2>1, NoChanges
  <2> QED
    BY <1>1, <2>1, <2>2, <2>3, <2>4, NoChanges DEF LogOK
<1>7. ASSUME Install PROVE LogOK'
  <2> DEFINE new == [time |-> plan.time, docs |-> plan.documents]
  <2>1. /\ pc = "plan" /\ pc' = "push" /\ history' = Append(history, new)
        /\ revision' = revision + 1 /\ documents' = plan.documents
        /\ UNCHANGED <<collections, change_log, change_floor, plan>>
    BY <1>7 DEF Install, log
  <2>2. Target = plan.documents /\ Target' = plan.documents /\ Pushing = revision + 1
        /\ Pushing' = revision + 1
    BY <2>1 DEF Target, Pushing
  <2>3. new \in R /\ new.docs = plan.documents
    BY <1>1 DEF TypeOK
  <2>4. \A i \in 1 .. Len(change_log) : change_log[i].revision <= revision + 1
    BY <1>1, <1>2, <1>3 DEF LogOK
  <2>5. \A i \in 1 .. Len(C) : C[i].revision <= Len(history)
    <3>1. \A i \in 1 .. Len(plan.changes) : plan.changes[i].revision <= revision + 1
      BY <1>1, <1>2, <2>2 DEF LogOK
    <3>2. /\ Len(C) = Len(change_log) + Len(plan.changes)
          /\ \A i \in 1 .. Len(change_log) + Len(plan.changes) :
                C[i] = IF i <= Len(change_log) THEN change_log[i]
                       ELSE plan.changes[i - Len(change_log)]
      BY <1>2, ConcatProperties
    <3> QED
      BY <1>2, <1>3, <2>4, <3>1, <3>2
  <2>6. LeadsTo(C, plan.documents, Append(history, new), change_floor)
    <3>1. LeadsTo(C, plan.documents, history, change_floor)
      BY <1>1, <2>2 DEF LogOK
    <3> QED
      BY <1>2, <2>3, <2>5, <3>1, LeadsInstalled
  <2>7. change_floor <= revision + 1
    BY <1>1, <1>2 DEF LogOK
  <2> HIDE DEF new
  <2> QED
    BY <1>1, <2>1, <2>2, <2>4, <2>6, <2>7 DEF LogOK
<1>8. ASSUME push_change PROVE LogOK'
  <2> DEFINE c == Head(plan.changes)
             rest == Tail(plan.changes)
  <2>1. /\ pc = "push" /\ pc' = "evict" /\ plan.changes # <<>>
        /\ change_log' = Append(change_log, c) /\ plan'.changes = rest
        /\ collections' = update_collection_index(collections, c.key, c.after # Absent)
        /\ UNCHANGED <<revision, documents, change_floor, history>>
    BY <1>1, <1>8 DEF push_change, ghost, TypeOK
  <2>2. Target = documents /\ Target' = documents /\ Pushing = revision /\ Pushing' = revision
    BY <2>1 DEF Target, Pushing
  <2>3. Append(change_log, c) \o rest = C
    BY <1>2, <2>1, ConcatPush
  <2>4. /\ c \in Change /\ rest \in Seq(Change) /\ Len(rest) = Len(plan.changes) - 1
        /\ \A i \in 1 .. Len(rest) : rest[i] = plan.changes[i + 1]
    BY <1>2, <2>1, HeadTailProperties
  <2>5. c.revision = revision /\ Len(plan.changes) # 0
    <3>1. Len(plan.changes) \in Nat \ {0} /\ c = plan.changes[1]
      BY <1>2, <2>1, EmptySeq
    <3> QED
      BY <3>1, <1>1, <2>2 DEF LogOK
  <2>6. \A i \in 1 .. Len(rest) : rest[i].revision = revision
    BY <1>1, <1>3, <2>2, <2>4, <2>5 DEF LogOK
  <2>7. \A i \in 1 .. Len(Append(change_log, c)) : Append(change_log, c)[i].revision <= revision
    <3>1. /\ Len(Append(change_log, c)) = Len(change_log) + 1
          /\ \A i \in 1 .. Len(change_log) : Append(change_log, c)[i] = change_log[i]
          /\ Append(change_log, c)[Len(change_log) + 1] = c
      BY <1>2, <2>4, AppendProperties
    <3> QED
      BY <3>1, <1>1, <1>2, <1>3, <2>5 DEF LogOK
  <2>8. Chained(rest, documents)
    <3>1. Chained(plan.changes, documents)
      BY <1>1, <2>2 DEF LogOK
    <3> QED
      BY <3>1, <1>2, <2>1, ChainedTail
  <2>9. Indexed(collections', rest, documents)
    <3>1. Chained(plan.changes, documents) /\ Indexed(collections, plan.changes, documents)
      BY <1>1, <2>2 DEF LogOK
    <3>2. collections \in [Collections -> SUBSET Keys]
      BY <1>1 DEF TypeOK
    <3> QED
      BY <3>1, <3>2, <1>2, <2>1, IndexedPush
  <2> HIDE DEF c, rest
  <2> QED
    BY <1>1, <2>1, <2>2, <2>3, <2>6, <2>7, <2>8, <2>9 DEF LogOK
<1>9. ASSUME Evict PROVE LogOK'
  <2>1. /\ pc = "evict" /\ pc' = "evict"
        /\ UNCHANGED <<revision, documents, collections, plan, history>>
    BY <1>9 DEF Evict, state, ghost
  <2>2. Target' = Target /\ Pushing' = Pushing /\ Target = documents
    BY <2>1 DEF Target, Pushing
  <2>3. CASE change_log = <<>>
    <3>1. UNCHANGED <<change_log, change_floor>>
      BY <1>9, <2>3 DEF Evict, log
    <3> QED
      BY <3>1, <1>1, <2>1, <2>2 DEF LogOK
  <2>4. CASE change_log # <<>>
    <3> DEFINE c == Head(change_log)
               floor == FloorAfter(c)
    <3>1. change_log' = Tail(change_log) /\ change_floor' = floor
      BY <1>9, <2>4 DEF Evict
    <3>2. Tail(change_log) \o plan.changes = Tail(C) /\ C[1] = c /\ C # <<>>
      BY <1>2, <2>4, ConcatTail
    <3>3. Len(change_log) \in Nat \ {0} /\ c = change_log[1]
      BY <1>2, <2>4, EmptySeq
    <3>4. c.revision \in Nat /\ c.revision <= revision
      BY <3>3, <1>1, <1>3 DEF LogOK
    <3>5. floor \in Nat /\ change_floor <= floor /\ c.revision <= floor /\ floor <= revision
      BY <3>4, <1>1, <1>2 DEF FloorAfter, LogOK
    <3> HIDE DEF c, floor
    <3>6. LeadsTo(Tail(C), documents, history, floor)
      <4>1. LeadsTo(C, documents, history, change_floor)
        BY <1>1, <2>2 DEF LogOK
      <4> QED
        BY <4>1, <1>2, <3>2, <3>5, LeadsTail
    <3>7. \A i \in 1 .. Len(Tail(change_log)) : Tail(change_log)[i].revision <= revision
      <4>1. /\ Len(Tail(change_log)) = Len(change_log) - 1
            /\ \A i \in 1 .. Len(Tail(change_log)) : Tail(change_log)[i] = change_log[i + 1]
        BY <1>2, <2>4, HeadTailProperties
      <4> QED
        BY <4>1, <3>3, <1>1 DEF LogOK
    <3>8. pc' \notin {"idle", "expire"}
      BY <2>1
    <3> HIDE DEF C
    <3> QED
      BY <1>1, <2>1, <2>2, <3>1, <3>2, <3>5, <3>6, <3>7, <3>8 DEF LogOK
  <2> QED
    BY <2>3, <2>4
<1>10. ASSUME EvictDone PROVE LogOK'
  <2>1. /\ pc = "evict" /\ pc' = "push"
        /\ UNCHANGED <<revision, documents, collections, change_log, change_floor, plan, history>>
    BY <1>10 DEF EvictDone, state, log, ghost
  <2> QED
    BY <1>1, <2>1 DEF LogOK, Target, Pushing
<1>11. ASSUME push_commit_point PROVE LogOK'
  <2>1. /\ pc = "push" /\ pc' = "expire" /\ plan.changes = <<>>
        /\ UNCHANGED <<revision, documents, collections, change_log, change_floor, plan, history>>
    BY <1>11 DEF push_commit_point, state, log, ghost
  <2> QED
    BY <1>1, <2>1 DEF LogOK, Target, Pushing
<1>12. ASSUME DropCommitPoint \/ UNCHANGED vars PROVE LogOK'
  <2>1. UNCHANGED <<pc, revision, documents, collections, change_log, change_floor, plan, history>>
    BY <1>12 DEF DropCommitPoint, vars, state, log, ghost
  <2> QED
    BY <1>1, <2>1 DEF LogOK, Target, Pushing
<1>13. ASSUME Release PROVE LogOK'
  <2>1. /\ pc = "expire" /\ pc' = "idle" /\ plan'.changes = <<>> /\ plan.changes = <<>>
        /\ UNCHANGED <<revision, documents, collections, change_log, change_floor, history>>
    BY <1>1, <1>13 DEF Release, NoPlan, state, log, ghost, LogOK
  <2>2. Target = documents /\ Target' = documents
    BY <2>1 DEF Target
  <2>3. \A i \in 1 .. Len(plan'.changes) : plan'.changes[i].revision = Pushing'
    BY <2>1, NoChanges
  <2> QED
    BY <1>1, <2>1, <2>2, <2>3 DEF LogOK
<1> QED
  BY <1>4, <1>5, <1>6, <1>7, <1>8, <1>9, <1>10, <1>11, <1>12, <1>13 DEF Next, RevisionExhausted

LEMMA FollowsInstalled ==
    ASSUME NEW S, NEW past \in Seq(S), NEW new \in S, NEW points \in Seq(CommitPoint),
           NEW floor \in CommitPoint, floor.revision \in Nat,
           Len(points) + floor.revision + 1 <= Len(past), Follows(points, floor, past)
    PROVE  Follows(points, floor, Append(past, new))
<1>1. /\ Len(past) \in Nat /\ Len(points) \in Nat
      /\ \A i \in 1 .. Len(past) : Append(past, new)[i] = past[i]
  BY AppendProperties, LenProperties
<1>2. floor.revision + 1 \in 1 .. Len(past)
  BY <1>1
<1>3. \A i \in 1 .. Len(points) : floor.revision + i + 1 \in 1 .. Len(past)
  BY <1>1
<1> QED
  BY <1>1, <1>2, <1>3 DEF Follows

LEMMA FollowsPushed ==
    ASSUME NEW past, NEW points \in Seq(CommitPoint), NEW floor \in CommitPoint,
           floor.revision \in Nat, NEW p \in CommitPoint,
           p.revision = floor.revision + Len(points) + 1, p.time = past[p.revision + 1].time,
           Follows(points, floor, past)
    PROVE  Follows(Append(points, p), floor, past)
<1> DEFINE a == Append(points, p)
           n == Len(points)
<1>1. n \in Nat /\ Len(a) = n + 1 /\ a[n + 1] = p /\ \A i \in 1 .. n : a[i] = points[i]
  BY AppendProperties, LenProperties
<1> HIDE DEF a
<1>2. ASSUME NEW i \in 1 .. Len(a)
      PROVE  a[i].revision = floor.revision + i /\ a[i].time = past[floor.revision + i + 1].time
  <2>1. CASE i = n + 1
    <3>1. p.revision = floor.revision + i
      <4>1. \A f, m \in Nat : f + m + 1 = f + (m + 1)
        OBVIOUS
      <4> QED
        BY <4>1, <1>1, <2>1
    <3> QED
      BY <3>1, <1>1, <2>1
  <2>2. CASE i \in 1 .. n
    BY <1>1, <2>2 DEF Follows
  <2> QED
    BY <2>1, <2>2, <1>1
<1> QED
  BY <1>2 DEF Follows, a

LEMMA FollowsDropped ==
    ASSUME NEW past, NEW points \in Seq(CommitPoint), points # <<>>, NEW floor \in CommitPoint,
           floor.revision \in Nat, Follows(points, floor, past)
    PROVE  Follows(Tail(points), Head(points), past) /\ Head(points).revision = floor.revision + 1
<1> DEFINE t == Tail(points)
           h == Head(points)
<1>1. Len(t) = Len(points) - 1 /\ \A i \in 1 .. Len(t) : t[i] = points[i + 1]
  BY HeadTailProperties
<1>2. Len(points) \in Nat \ {0} /\ h = points[1]
  BY EmptySeq
<1> HIDE DEF t, h
<1>3. h.revision = floor.revision + 1 /\ h.time = past[h.revision + 1].time
  BY <1>2 DEF Follows
<1>4. ASSUME NEW i \in 1 .. Len(t)
      PROVE  t[i].revision = h.revision + i /\ t[i].time = past[h.revision + i + 1].time
  <2>1. i + 1 \in 1 .. Len(points) /\ t[i] = points[i + 1]
    BY <1>1, <1>2
  <2>2. /\ t[i].revision = floor.revision + (i + 1)
        /\ t[i].time = past[floor.revision + (i + 1) + 1].time
    BY <2>1 DEF Follows
  <2>3. h.revision + i = floor.revision + (i + 1)
    BY <1>3
  <2> QED
    BY <2>2, <2>3
<1> QED
  BY <1>3, <1>4 DEF Follows, t, h

(* The commit times follow each commit, and are gone when their revision is. *)
LEMMA TimesStep ==
    ASSUME Inv, [Next]_vars
    PROVE  TimesOK'
<1> DEFINE n == Len(commit_times)
           floor == history_floor.revision
           R == [time : Times, docs : Documents]
<1>1. TypeOK /\ HistoryOK /\ LogOK /\ TimesOK
  BY DEF Inv
<1>2. /\ commit_times \in Seq(CommitPoint) /\ history_floor \in CommitPoint /\ history \in Seq(R)
      /\ revision \in Nat /\ change_floor \in Nat /\ floor \in Nat /\ n \in Nat
      /\ Len(history) = revision + 1
      /\ Follows(commit_times, history_floor, history)
      /\ n + floor + One(pc \in {"push", "evict"}) = revision
  BY <1>1, NumberTypes, LenProperties DEF TypeOK, CommitPoint, HistoryOK, TimesOK
<1>3. CASE Install
  <2> DEFINE new == [time |-> plan.time, docs |-> plan.documents]
  <2>1. /\ pc = "plan" /\ pc' = "push" /\ revision' = revision + 1 /\ history' = Append(history, new)
        /\ UNCHANGED <<commit_times, history_floor>> /\ new \in R
    BY <1>1, <1>3 DEF Install, times, TypeOK
  <2>2. n + floor = revision
    BY <1>2, <2>1 DEF One
  <2>3. Follows(commit_times, history_floor, Append(history, new))
    <3>1. n + floor + 1 <= Len(history)
      BY <1>2, <2>2
    <3> HIDE DEF new
    <3> QED
      BY <3>1, <1>2, <2>1, FollowsInstalled
  <2>4. n + floor + 1 = revision + 1
    BY <1>2, <2>2
  <2>5. One(pc' \in {"push", "evict"}) = 1 /\ pc' \notin {"idle", "plan"}
    BY <2>1 DEF One
  <2> HIDE DEF new
  <2> QED
    BY <2>1, <2>3, <2>4, <2>5 DEF TimesOK
<1>4. CASE push_commit_point
  <2> DEFINE p == [revision |-> revision, time |-> last_commit_time]
  <2>1. /\ pc = "push" /\ pc' = "expire" /\ commit_times' = Append(commit_times, p)
        /\ UNCHANGED <<revision, history_floor, history>>
    BY <1>4 DEF push_commit_point, state, ghost
  <2>2. n + floor + 1 = revision
    BY <1>2, <2>1 DEF One
  <2>3. /\ p \in CommitPoint /\ p.revision = floor + n + 1
        /\ p.time = history[p.revision + 1].time
    BY <1>1, <1>2, <2>2 DEF TypeOK, CommitPoint, HistoryOK
  <2> HIDE DEF p
  <2>4. Follows(Append(commit_times, p), history_floor, history)
    BY <1>2, <2>3, FollowsPushed
  <2>5. Len(Append(commit_times, p)) + floor + 0 = revision
    <3>1. Len(Append(commit_times, p)) = n + 1
      BY <1>2, <2>3, AppendProperties
    <3> QED
      BY <3>1, <1>2, <2>2
  <2>6. One(pc' \in {"push", "evict"}) = 0 /\ pc' \notin {"idle", "plan"}
    BY <2>1 DEF One
  <2> QED
    BY <2>1, <2>4, <2>5, <2>6 DEF TimesOK
<1>5. CASE DropCommitPoint
  <2>1. /\ pc = "expire" /\ pc' = "expire" /\ history_floor' = Head(commit_times)
        /\ commit_times' = Tail(commit_times) /\ UNCHANGED <<revision, history>>
    BY <1>5 DEF DropCommitPoint, state, ghost
  <2>2. commit_times # <<>>
    BY <1>2, <1>5, NumberTypes, EmptySeq DEF DropCommitPoint, PointExpired
  <2>3. n + floor = revision
    BY <1>2, <2>1 DEF One
  <2>4. /\ Follows(Tail(commit_times), Head(commit_times), history)
        /\ Head(commit_times).revision = floor + 1
    BY <1>2, <2>2, FollowsDropped
  <2>5. Len(Tail(commit_times)) + Head(commit_times).revision + 0 = revision
    <3>1. Len(Tail(commit_times)) = n - 1
      BY <1>2, <2>2, HeadTailProperties
    <3> QED
      BY <3>1, <1>2, <2>3, <2>4
  <2>6. One(pc' \in {"push", "evict"}) = 0 /\ pc' \notin {"idle", "plan"}
    BY <2>1 DEF One
  <2> QED
    BY <2>1, <2>4, <2>5, <2>6 DEF TimesOK
<1>6. CASE Release
  <2>1. /\ pc = "expire" /\ pc' = "idle" /\ ~PointExpired
        /\ UNCHANGED <<revision, commit_times, history_floor, history, change_floor>>
    BY <1>6 DEF Release, state, log, times, ghost
  <2>2. n + floor = revision
    BY <1>2, <2>1 DEF One
  <2>3. change_floor <= floor
    <3>1. CASE commit_times = <<>>
      <4>1. floor = revision
        BY <3>1, <1>2, <2>2, EmptySeq
      <4> QED
        BY <4>1, <1>1 DEF LogOK
    <3>2. CASE commit_times # <<>>
      <4>1. Head(commit_times).revision = floor + 1
        BY <3>2, <1>2, FollowsDropped
      <4>2. ~(Head(commit_times).revision <= change_floor)
        BY <3>2, <2>1 DEF PointExpired
      <4> QED
        BY <4>1, <4>2, <1>2
    <3> QED
      BY <3>1, <3>2
  <2>4. One(pc' \in {"push", "evict"}) = One(pc \in {"push", "evict"})
    BY <2>1 DEF One
  <2> QED
    BY <2>1, <2>3, <2>4, <1>1 DEF TimesOK
<1>7. CASE /\ UNCHANGED <<revision, commit_times, history_floor, history>>
           /\ \/ pc \in {"push", "evict"} /\ pc' \in {"push", "evict"}
              \/ pc \in {"idle", "plan"} /\ pc' \in {"idle", "plan"} /\ change_floor' = change_floor
              \/ pc' = pc /\ change_floor' = change_floor
  <2>1. One(pc' \in {"push", "evict"}) = One(pc \in {"push", "evict"})
    BY <1>7 DEF One
  <2>2. pc' \in {"idle", "plan"} => pc \in {"idle", "plan"} /\ change_floor' = change_floor
    BY <1>7
  <2> QED
    BY <1>1, <1>7, <2>1, <2>2 DEF TimesOK
<1>8. \/ Install \/ push_commit_point \/ DropCommitPoint \/ Release
      \/ /\ UNCHANGED <<revision, commit_times, history_floor, history>>
         /\ \/ pc \in {"push", "evict"} /\ pc' \in {"push", "evict"}
            \/ pc \in {"idle", "plan"} /\ pc' \in {"idle", "plan"} /\ change_floor' = change_floor
            \/ pc' = pc /\ change_floor' = change_floor
  BY DEF Next, vars, state, log, times, ghost, BeginCommit, RevisionExhausted, PlanWrite, WriteFails,
         push_change, Evict, EvictDone
<1> QED
  BY <1>3, <1>4, <1>5, <1>6, <1>7, <1>8

-----------------------------------------------------------------------------
LEMMA InitInv == Init => Inv
<1> SUFFICES ASSUME Init PROVE Inv
  OBVIOUS
<1> DEFINE first == [time |-> 0, docs |-> NoDocuments]
<1>1. /\ 0 \in Revisions /\ 0 \in Times /\ NoDocuments \in Documents /\ 0 \in 0 .. MaxWrites
      /\ Origin \in CommitPoint
  BY NumberTypes DEF NoDocuments, Documents, Times, Revisions, Origin, CommitPoint
<1>2. Accounts(replay)
  <2>1. replay = [versions |-> <<>>, bytes |-> 0]
    BY DEF Init
  <2>2. DOMAIN replay.versions = {} /\ replay.bytes = 0
    BY <2>1
  <2>3. replay \in ReplayVersions
    <3>1. <<>> \in [{} -> RetainedVersion]
      OBVIOUS
    <3> QED
      BY <3>1, <2>1, ReplayMade
  <2> QED
    BY <2>2, <2>3, SumsNothing DEF Accounts
<1>3. \A v : Refs(<<>>, v) = 0 /\ Counted(replay, v) = 0
  <2>1. DOMAIN replay.versions = {}
    BY DEF Init
  <2>2. \A v : Found(<<>>, v) = {} /\ Left(<<>>, v) = {}
    BY DEF Found, Left
  <2> QED
    <3>1. \A v : Refs(<<>>, v) = 0 + 0
      BY <2>2, FS_EmptySet DEF Refs
    <3>2. \A v : Counted(replay, v) = 0
      BY <2>1 DEF Counted
    <3> QED
      BY <3>1, <3>2
<1>4. TypeOK
  <2>1. NoPlan \in [time : Times, documents : Documents, changes : Seq(Change), writes : 0 .. MaxWrites]
    BY <1>1 DEF NoPlan
  <2>2. <<first>> \in Seq([time : Times, docs : Documents])
    BY <1>1
  <2>3. collections \in [Collections -> SUBSET Keys]
    BY DEF Init
  <2>4. <<>> \in Seq(Change) /\ <<>> \in Seq(CommitPoint)
    OBVIOUS
  <2> QED
    BY <1>1, <1>2, <2>1, <2>2, <2>3, <2>4 DEF Init, TypeOK, Accounts
<1>5. Len(history) = 1 /\ history[1] = first
  BY DEF Init
<1>6. HistoryOK
  BY <1>5 DEF Init, HistoryOK
<1>7. LogOK
  <2>1. change_log \o plan.changes = <<>> /\ Len(<<>>) = 0
    <3>1. change_log = <<>> /\ plan.changes = <<>> /\ <<>> \in Seq(Change)
      BY DEF Init, NoPlan
    <3> QED
      BY <3>1, ConcatEmptySeq
  <2>2. Target = NoDocuments
    BY DEF Init, Target
  <2>3. LeadsTo(<<>>, NoDocuments, history, 0)
    <3>1. Reaches(<<>>, NoDocuments, history, 0)
      BY <1>5, <2>1 DEF Reaches, UndoneTo
    <3> QED
      BY <3>1, <2>1, NoChanges DEF LeadsTo
  <2>4. Indexed(collections, <<>>, NoDocuments)
    <3>1. \A c \in Collections : collections[c] = {}
      BY DEF Init
    <3>2. \A k \in Keys : CollectionOf[k] \in Collections /\ NoDocuments[k] = Absent
      BY DEF Collections, NoDocuments
    <3> QED
      BY <3>1, <3>2, <2>1 DEF Indexed
  <2>5. plan.changes = <<>>
    BY DEF Init, NoPlan
  <2> QED
    BY <2>1, <2>2, <2>3, <2>4, <2>5, NoChanges DEF Init, LogOK
<1>8. PlanOK /\ ReleasedOK
  BY DEF Init, PlanOK, ReleasedOK
<1>9. TimesOK
  BY <1>5 DEF Init, TimesOK, Follows, One, Origin
<1>10. AccountsOK
  BY <1>2, <1>3 DEF Init, AccountsOK
<1> QED
  BY <1>4, <1>6, <1>7, <1>8, <1>9, <1>10 DEF Inv

(* The invariant is inductive: it holds in every state. *)
THEOREM Inductive == Spec => []Inv
<1>1. Inv /\ [Next]_vars => Inv'
  BY TypeStep, HistoryStep, LogStep, PlanStep, TimesStep, ReleasedStep, AccountsStep DEF Inv
<1> QED
  BY InitInv, <1>1, PTL DEF Spec

(* Every variable of the store's State has its type. *)
THEOREM TypeCorrect == Spec => []TypeOK
<1>1. Inv => TypeOK
  BY DEF Inv
<1> QED
  BY <1>1, Inductive, PTL

-----------------------------------------------------------------------------
(* What the store answers. *)

(* The log, the documents and the index between two commits. *)
LEMMA IdleFacts ==
    ASSUME Inv, pc = "idle"
    PROVE  /\ LeadsTo(change_log, documents, history, change_floor)
           /\ Indexed(collections, <<>>, documents)
           /\ change_log \in Seq(Change) /\ Len(change_log) \in Nat
           /\ \A i \in 1 .. Len(change_log) :
                 change_log[i].revision \in Nat /\ change_log[i].revision <= revision
           /\ documents \in Documents
           /\ revision \in Nat /\ change_floor \in Nat /\ Len(history) = revision + 1
           /\ \A r \in 0 .. revision : history[r + 1].docs \in Documents /\ history[r + 1].time \in Nat
<1>1. TypeOK /\ HistoryOK /\ LogOK
  BY DEF Inv
<1>2. /\ change_log \in Seq(Change) /\ documents \in Documents
      /\ revision \in Nat /\ change_floor \in Nat /\ Len(history) = revision + 1
  BY <1>1, NumberTypes DEF TypeOK, HistoryOK
<1>3. plan.changes = <<>> /\ change_log \o <<>> = change_log /\ Target = documents
  BY <1>1, <1>2, ConcatEmptySeq DEF LogOK, Target
<1>4. /\ LeadsTo(change_log, documents, history, change_floor)
      /\ Indexed(collections, <<>>, documents)
      /\ \A i \in 1 .. Len(change_log) : change_log[i].revision <= revision
  BY <1>1, <1>3 DEF LogOK
<1>5. Len(change_log) \in Nat /\ \A i \in 1 .. Len(change_log) : change_log[i].revision \in Nat
  BY <1>2, ChangeFields
<1>6. ASSUME NEW r \in 0 .. revision
      PROVE  history[r + 1].docs \in Documents /\ history[r + 1].time \in Nat
  <2>1. r + 1 \in 1 .. Len(history)
    BY <1>2
  <2>2. history[r + 1] \in [time : Times, docs : Documents]
    BY <1>1, <2>1, ElementOfSeq DEF TypeOK
  <2> QED
    BY <2>2, NumberTypes
<1> QED
  BY <1>2, <1>4, <1>5, <1>6

(* The first change to a key after a revision, when there is one. *)
LEMMA FirstNewer ==
    ASSUME NEW k \in Keys, NEW r \in Nat, Newer(k, r) # {}, Len(change_log) \in Nat
    PROVE  LET i == CHOOSE i \in Newer(k, r) : \A j \in Newer(k, r) : i <= j
           IN  i \in Newer(k, r) /\ \A j \in Newer(k, r) : i <= j
<1>1. Newer(k, r) \subseteq Nat
  BY DEF Newer
<1>2. \E i \in Newer(k, r) : \A j \in Newer(k, r) : i <= j
  BY <1>1, Least
<1> HIDE DEF Newer
<1> QED
  BY <1>2

(* Undoing the newer changes to a key leaves what the revision held. *)
LEMMA UndoneExact ==
    ASSUME Inv, pc = "idle", NEW r \in change_floor .. revision, NEW k \in Keys
    PROVE  /\ Newer(k, r) = {} => documents[k] = history[r + 1].docs[k]
           /\ \A i \in Newer(k, r) : (\A j \in Newer(k, r) : i <= j)
                 => change_log[i].before = history[r + 1].docs[k]
<1>1. /\ Reaches(change_log, documents, history, change_floor) /\ Len(history) = revision + 1
      /\ revision \in Nat /\ change_floor \in Nat /\ Len(change_log) \in Nat
      /\ \A i \in 1 .. Len(change_log) : change_log[i].revision \in Nat
  BY IdleFacts DEF LeadsTo
<1>2. r \in change_floor .. Len(history) - 1 /\ r \in Nat
  BY <1>1
<1>3. UndoneTo(change_log, documents, k, r, history[r + 1].docs[k])
  BY <1>1, <1>2 DEF Reaches
<1>4. ASSUME Newer(k, r) = {} PROVE documents[k] = history[r + 1].docs[k]
  <2>1. \A i \in 1 .. Len(change_log) : change_log[i].key = k => change_log[i].revision <= r
    BY <1>1, <1>2, <1>4 DEF Newer
  <2> QED
    BY <2>1, <1>3 DEF UndoneTo
<1>5. ASSUME NEW i \in Newer(k, r), \A j \in Newer(k, r) : i <= j
      PROVE  change_log[i].before = history[r + 1].docs[k]
  <2>1. i \in 1 .. Len(change_log) /\ change_log[i].key = k /\ change_log[i].revision > r
    BY DEF Newer
  <2>2. ASSUME NEW j \in 1 .. i - 1, change_log[j].key = k PROVE change_log[j].revision <= r
    <3>1. j \in 1 .. Len(change_log) /\ ~(i <= j)
      BY <1>1, <2>1
    <3>2. j \notin Newer(k, r)
      BY <1>5, <3>1
    <3> QED
      BY <3>1, <3>2, <2>2, <1>1, <1>2 DEF Newer
  <2> QED
    BY <2>1, <2>2, <1>3 DEF UndoneTo
<1> QED
  BY <1>4, <1>5

LEMMA SnapshotsAreExact == Inv => SnapshotsExact
<1> SUFFICES ASSUME Inv, pc = "idle", NEW r \in change_floor .. revision
             PROVE  /\ snapshot_at_revision(r) = history[r + 1].docs
                    /\ \A c \in Collections :
                          CollectionsAt(r)[c] = {k \in Keys : CollectionOf[k] = c
                                                              /\ history[r + 1].docs[k] # Absent}
  BY DEF SnapshotsExact
<1> DEFINE first(k) == CHOOSE i \in Newer(k, r) : \A j \in Newer(k, r) : i <= j
<1>1. /\ revision \in Nat /\ change_floor \in Nat /\ Len(change_log) \in Nat
      /\ Indexed(collections, <<>>, documents)
  BY IdleFacts
<1>2. r \in Nat /\ r \in 0 .. revision
  BY <1>1
<1>3. history[r + 1].docs \in [Keys -> Stored \cup {Absent}]
  BY <1>2, IdleFacts DEF Documents
<1>4. ASSUME NEW k \in Keys, Newer(k, r) # {}
      PROVE  change_log[first(k)].before = history[r + 1].docs[k]
  <2>1. first(k) \in Newer(k, r) /\ \A j \in Newer(k, r) : first(k) <= j
    BY <1>1, <1>2, <1>4, FirstNewer
  <2> HIDE DEF first
  <2> QED
    BY <2>1, UndoneExact
<1>5. ASSUME NEW k \in Keys, Newer(k, r) = {}
      PROVE  documents[k] = history[r + 1].docs[k]
  BY <1>5, UndoneExact
<1>6. snapshot_at_revision(r) = history[r + 1].docs
  <2>1. \A k \in Keys : (IF Newer(k, r) = {} THEN documents[k] ELSE change_log[first(k)].before)
                            = history[r + 1].docs[k]
    BY <1>4, <1>5
  <2> HIDE DEF first
  <2>2. [k \in Keys |-> IF Newer(k, r) = {} THEN documents[k] ELSE change_log[first(k)].before]
           = history[r + 1].docs
    BY <2>1, <1>3
  <2> QED
    BY <2>2 DEF snapshot_at_revision, first
<1>7. ASSUME NEW c \in Collections
      PROVE  CollectionsAt(r)[c] = {k \in Keys : CollectionOf[k] = c
                                                 /\ history[r + 1].docs[k] # Absent}
  <2>1. \A k \in Keys : CollectionOf[k] = c => (k \in collections[c] <=> documents[k] # Absent)
    BY <1>1, NoChanges DEF Indexed
  <2>2. \A k \in Keys : CollectionOf[k] = c =>
            ((IF Newer(k, r) = {} THEN k \in collections[c]
              ELSE change_log[first(k)].before # Absent) <=> history[r + 1].docs[k] # Absent)
    BY <2>1, <1>4, <1>5
  <2>3. CollectionsAt(r)[c] =
            {k \in Keys : CollectionOf[k] = c /\
                IF Newer(k, r) = {} THEN k \in collections[c]
                ELSE change_log[first(k)].before # Absent}
    BY DEF CollectionsAt
  <2> HIDE DEF first
  <2> QED
    BY <2>2, <2>3
<1> QED
  BY <1>6, <1>7

LEMMA ReadTimesAreExact == Inv => ReadTimesExact
<1> SUFFICES ASSUME Inv, pc = "idle", NEW t \in history_floor.time .. MaxTime
             PROVE  /\ RevisionAt(t) \in change_floor .. revision
                    /\ history[RevisionAt(t) + 1].time <= t
                    /\ \A q \in 0 .. revision : history[q + 1].time <= t => q <= RevisionAt(t)
  BY DEF ReadTimesExact
<1> DEFINE n == Len(commit_times)
           floor == history_floor.revision
           upto == {i \in 1 .. n : \A j \in 1 .. i : commit_times[j].time <= t}
<1>1. TypeOK /\ TimesOK /\ HistoryOK
  BY DEF Inv
<1>2. /\ n \in Nat /\ floor \in Nat /\ revision \in Nat /\ change_floor \in Nat
      /\ history_floor.time \in Nat /\ MaxTime \in Nat
  BY <1>1, NumberTypes, LenProperties DEF TypeOK, CommitPoint
<1>3. n + floor = revision /\ change_floor <= floor
  BY <1>1, <1>2 DEF TimesOK, One
<1>4. /\ history[floor + 1].time <= t /\ t \in Nat
      /\ \A i \in 1 .. n : commit_times[i].revision = floor + i
                           /\ commit_times[i].time = history[floor + i + 1].time
  BY <1>1, <1>2 DEF TimesOK, Follows
<1>5. \A p, q \in 0 .. revision : p < q => history[p + 1].time < history[q + 1].time
  BY <1>1, <1>2 DEF HistoryOK
<1>6. \A q \in 0 .. revision : history[q + 1].time \in Nat
  BY IdleFacts
<1>7. ASSUME NEW q \in 0 .. revision, q > floor, history[q + 1].time <= t
      PROVE  q - floor \in upto
  <2>1. q - floor \in 1 .. n
    BY <1>2, <1>3, <1>7
  <2>2. ASSUME NEW j \in 1 .. q - floor PROVE commit_times[j].time <= t
    <3>1. j \in 1 .. n /\ floor + j \in 0 .. revision /\ floor + j <= q
      BY <1>2, <1>3, <2>1
    <3>2. commit_times[j].time = history[floor + j + 1].time
      BY <1>4, <3>1
    <3>3. history[(floor + j) + 1].time <= history[q + 1].time
      <4>1. CASE floor + j = q
        BY <4>1, <1>6
      <4>2. CASE floor + j < q
        BY <4>2, <3>1, <1>5, <1>6
      <4> QED
        BY <4>1, <4>2, <3>1, <1>2
    <3> QED
      BY <3>1, <3>2, <3>3, <1>4, <1>6, <1>7
  <2> QED
    BY <2>1, <2>2
<1>8. RevisionAt(t) = IF upto = {} THEN floor
                      ELSE commit_times[CHOOSE i \in upto : \A j \in upto : j <= i].revision
  BY DEF RevisionAt
<1>9. CASE upto = {}
  <2>1. RevisionAt(t) = floor
    BY <1>8, <1>9
  <2>2. \A q \in 0 .. revision : history[q + 1].time <= t => q <= floor
    BY <1>2, <1>7, <1>9
  <2>3. floor \in change_floor .. revision
    BY <1>2, <1>3
  <2> QED
    BY <2>1, <2>2, <2>3, <1>4
<1>10. CASE upto # {}
  <2> DEFINE m == CHOOSE i \in upto : \A j \in upto : j <= i
  <2>1. m \in upto /\ \A j \in upto : j <= m
    <3>1. upto \subseteq 1 .. n
      OBVIOUS
    <3> HIDE DEF upto
    <3>2. \E i \in upto : \A j \in upto : j <= i
      BY <3>1, <1>2, <1>10, Greatest
    <3> QED
      BY <3>2
  <2> HIDE DEF m
  <2>2. m \in 1 .. n /\ commit_times[m].time <= t
    BY <2>1
  <2>3. RevisionAt(t) = floor + m
    BY <1>4, <1>8, <1>10, <2>2 DEF m
  <2>4. floor + m \in change_floor .. revision
    BY <1>2, <1>3, <2>2
  <2>5. history[floor + m + 1].time <= t
    BY <1>4, <2>2
  <2>6. ASSUME NEW q \in 0 .. revision, history[q + 1].time <= t PROVE q <= floor + m
    <3>1. CASE q <= floor
      BY <3>1, <1>2, <2>2
    <3>2. CASE q > floor
      <4>1. q - floor <= m
        BY <3>2, <1>7, <2>1, <2>6
      <4> QED
        BY <4>1, <1>2, <2>2
    <3> QED
      BY <3>1, <3>2, <1>2
  <2> QED
    BY <2>3, <2>4, <2>5, <2>6
<1> QED
  BY <1>9, <1>10

LEMMA ChangesAreComplete == Inv => ChangesComplete
<1> SUFFICES ASSUME Inv, pc = "idle", NEW q \in (change_floor + 1) .. revision, NEW k \in Keys
             PROVE  LET of == {i \in changes_since(q - 1) :
                                 change_log[i].key = k /\ change_log[i].revision = q}
                    IN  IF of = {} THEN history[q].docs[k] = history[q + 1].docs[k]
                        ELSE \A i \in of :
                             /\ (\A j \in of : i <= j) => change_log[i].before = history[q].docs[k]
                             /\ (\A j \in of : j <= i) => change_log[i].after = history[q + 1].docs[k]
  BY DEF ChangesComplete
<1> DEFINE of == {i \in changes_since(q - 1) :
                     change_log[i].key = k /\ change_log[i].revision = q}
           n == Len(change_log)
<1>1. /\ n \in Nat /\ revision \in Nat /\ change_floor \in Nat
      /\ \A i \in 1 .. n : change_log[i].revision \in Nat
      /\ Chained(change_log, documents)
      /\ \A i, j \in 1 .. n : i < j => change_log[i].revision <= change_log[j].revision
  BY IdleFacts DEF LeadsTo
<1>2. q \in Nat /\ q - 1 \in Nat /\ q - 1 \in change_floor .. revision
      /\ q \in change_floor .. revision /\ (q - 1) + 1 = q
  BY <1>1
<1>3. \A i : i \in of <=> i \in 1 .. n /\ change_log[i].key = k /\ change_log[i].revision = q
  BY <1>1, <1>2 DEF changes_since
<1>4. \A r \in {q - 1, q} :
        /\ Newer(k, r) = {} => documents[k] = history[r + 1].docs[k]
        /\ \A i \in Newer(k, r) : (\A j \in Newer(k, r) : i <= j)
              => change_log[i].before = history[r + 1].docs[k]
  BY <1>2, UndoneExact
<1>5. \A r \in {q - 1, q} : \A i :
        i \in Newer(k, r) <=> i \in 1 .. n /\ change_log[i].key = k /\ change_log[i].revision > r
  BY DEF Newer
<1> HIDE DEF of
<1>6. ASSUME of = {} PROVE history[q].docs[k] = history[q + 1].docs[k]
  <2>1. Newer(k, q - 1) = Newer(k, q)
    <3>1. \A i : i \in Newer(k, q - 1) <=> i \in Newer(k, q)
      BY <1>1, <1>2, <1>3, <1>5, <1>6
    <3> QED
      BY <3>1 DEF Newer
  <2>2. CASE Newer(k, q) = {}
    BY <2>1, <2>2, <1>2, <1>4
  <2>3. CASE Newer(k, q) # {}
    <3>1. PICK i \in Newer(k, q) : \A j \in Newer(k, q) : i <= j
      <4>1. Newer(k, q) \subseteq Nat
        BY <1>1, <1>5
      <4> QED
        BY <4>1, <2>3, Least
    <3> QED
      BY <3>1, <2>1, <1>2, <1>4
  <2> QED
    BY <2>2, <2>3
<1>7. ASSUME NEW i \in of, \A j \in of : i <= j
      PROVE  change_log[i].before = history[q].docs[k]
  <2>1. i \in Newer(k, q - 1)
    BY <1>1, <1>2, <1>3, <1>5
  <2>2. ASSUME NEW j \in Newer(k, q - 1) PROVE i <= j
    <3>1. j \in 1 .. n /\ i \in 1 .. n /\ change_log[j].key = k /\ change_log[j].revision > q - 1
      BY <1>3, <1>5
    <3>2. CASE change_log[j].revision = q
      BY <3>1, <3>2, <1>3, <1>7
    <3>3. CASE change_log[j].revision > q
      <4>1. ~(j < i)
        <5>1. change_log[i].revision = q
          BY <1>3
        <5> QED
          BY <5>1, <3>1, <3>3, <1>1, <1>2
      <4> QED
        BY <4>1, <3>1
    <3> QED
      BY <3>1, <3>2, <3>3, <1>1, <1>2
  <2> QED
    BY <2>1, <2>2, <1>2, <1>4
<1>8. ASSUME NEW i \in of, \A j \in of : j <= i
      PROVE  change_log[i].after = history[q + 1].docs[k]
  <2>1. i \in 1 .. n /\ change_log[i].key = k /\ change_log[i].revision = q
    BY <1>3
  <2> DEFINE later == {j \in i + 1 .. n : change_log[j].key = k}
  <2>2. ASSUME NEW j PROVE j \in later <=> j \in Newer(k, q)
    <3>1. ASSUME j \in later PROVE j \in Newer(k, q)
      <4>1. j \in 1 .. n /\ i < j /\ change_log[j].key = k
        BY <3>1, <2>1, <1>1
      <4>2. j \notin of
        BY <4>1, <1>8, <2>1
      <4>3. change_log[j].revision >= q /\ change_log[j].revision # q /\ change_log[j].revision \in Nat
        BY <4>1, <4>2, <2>1, <1>1, <1>3
      <4> QED
        BY <4>1, <4>3, <1>2, <1>5
    <3>2. ASSUME j \in Newer(k, q) PROVE j \in later
      <4>1. j \in 1 .. n /\ change_log[j].key = k /\ change_log[j].revision > q
        BY <3>2, <1>5
      <4>2. j > i
        <5>1. j # i
          BY <4>1, <2>1, <1>2
        <5>2. ~(j < i)
          BY <4>1, <2>1, <1>1, <1>2
        <5> QED
          BY <5>1, <5>2, <4>1, <2>1
      <4> QED
        BY <4>1, <4>2, <2>1, <1>1
    <3> QED
      BY <3>1, <3>2
  <2>3. CASE later = {}
    <3>1. Newer(k, q) = {}
      BY <2>2, <2>3
    <3>2. \A j \in i + 1 .. Len(change_log) : change_log[j].key # change_log[i].key
      BY <2>1, <2>3
    <3>3. documents[k] = change_log[i].after
      BY <3>2, <2>1, <1>1 DEF Chained
    <3> QED
      BY <3>1, <3>3, <1>2, <1>4
  <2>4. CASE later # {}
    <3>1. PICK j \in later : \A m \in later : j <= m
      <4>1. later \subseteq Nat
        BY <2>1, <1>1
      <4> QED
        BY <4>1, <2>4, Least
    <3>2. j \in i + 1 .. n /\ change_log[j].key = k
      OBVIOUS
    <3>3. ASSUME NEW m \in i + 1 .. j - 1 PROVE change_log[m].key # change_log[i].key
      <4>1. m \in i + 1 .. n /\ ~(j <= m)
        BY <3>2, <2>1, <1>1
      <4>2. m \notin later
        BY <4>1, <3>1
      <4> QED
        BY <4>1, <4>2, <2>1
    <3>4. change_log[j].before = change_log[i].after
      BY <3>2, <3>3, <2>1, <1>1 DEF Chained
    <3> HIDE DEF later
    <3>5. j \in Newer(k, q) /\ \A m \in Newer(k, q) : j <= m
      BY <3>1, <2>2
    <3> QED
      BY <3>4, <3>5, <1>4
  <2> QED
    BY <2>3, <2>4
<1> QED
  BY <1>6, <1>7, <1>8 DEF of

LEMMA VersionsAreCounted == Inv => VersionsCounted
<1> SUFFICES ASSUME Inv PROVE VersionsCounted
  OBVIOUS
<1>1. Accounts(replay) /\ \A v : Refs(change_log, v) = Counted(replay, v)
  BY DEF Inv, AccountsOK
<1>2. \A v \in DocumentVersion :
          References(v) = IF v \in DOMAIN replay.versions THEN replay.versions[v].references ELSE 0
  BY <1>1 DEF References, Refs, Found, Left, Counted
<1>3. ASSUME change_log = <<>> PROVE replay.bytes = 0
  <2>1. \A v : Refs(change_log, v) = 0
    <3>1. \A v : Found(change_log, v) = {} /\ Left(change_log, v) = {}
      BY <1>3, NoChanges DEF Found, Left
    <3>2. \A v : Refs(change_log, v) = 0 + 0
      BY <3>1, FS_EmptySet DEF Refs
    <3> QED
      BY <3>2
  <2>2. DOMAIN replay.versions = {}
    <3>1. ASSUME NEW v \in DOMAIN replay.versions PROVE FALSE
      <4>1. replay.versions[v].references = 0
        BY <1>1, <2>1 DEF Counted
      <4>2. replay.versions[v].references >= 1
        BY <1>1 DEF Accounts
      <4> QED
        BY <4>1, <4>2
    <3> QED
      BY <3>1
  <2> QED
    BY <2>2, <1>1, SumsEmpty DEF Accounts
<1> QED
  BY <1>2, <1>3 DEF VersionsCounted

(* Whatever the limits of the log and however it was cut: every revision    *)
(* from the floor on is reconstructed as it was, a read time names the last *)
(* commit at or before it, changes_since skips nothing, and the byte        *)
(* accounting holds exactly what the log refers to, so that push_change's   *)
(* loop ends.                                                               *)
THEOREM AnswersAreExact == Spec => []AnswersExact
<1>1. Inv => AnswersExact
  BY SnapshotsAreExact, ReadTimesAreExact, ChangesAreComplete, VersionsAreCounted DEF AnswersExact
<1> QED
  BY <1>1, Inductive, PTL

-----------------------------------------------------------------------------
(* The refinement. *)

(* A step of CoreStore changes what VersionedStore sees only where the      *)
(* mutex is released after a commit.                                        *)
LEMMA RefinementStep ==
    ASSUME Inv, Inv', [Next]_vars
    PROVE  [Versioned!StoreNext]_(Versioned!store)
<1> DEFINE shown == <<IF pc = "idle" THEN history ELSE released.history,
                      IF pc = "idle" THEN change_floor ELSE released.change_floor,
                      IF pc = "idle" THEN history_floor.revision ELSE released.history_floor>>
<1>1. Versioned!store = shown
  BY DEF Versioned!store
<1>2. ASSUME NEW c \in Times, BeginCommit(c) PROVE shown' = shown
  BY <1>2 DEF BeginCommit, state, log, times
<1>3. ASSUME NEW w \in Writes, WriteFails(w) PROVE shown' = shown
  <2>1. released = [history |-> history, change_floor |-> change_floor,
                    history_floor |-> history_floor.revision]
    BY <1>3 DEF Inv, PlanOK, WriteFails
  <2> QED
    BY <1>3, <2>1 DEF WriteFails, log, times, ghost
<1>4. ASSUME NEW w \in Writes, PlanWrite(w) PROVE shown' = shown
  BY <1>4 DEF PlanWrite, state, log, times, ghost
<1>5. ASSUME \/ Install \/ push_change \/ Evict \/ EvictDone \/ push_commit_point
             \/ DropCommitPoint \/ UNCHANGED vars
      PROVE  shown' = shown
  <2>1. CASE UNCHANGED vars
    BY <2>1 DEF vars, state, log, times, ghost
  <2>2. CASE Install \/ push_change \/ Evict \/ EvictDone \/ push_commit_point \/ DropCommitPoint
    <3>1. pc # "idle" /\ pc' # "idle" /\ released' = released
      BY <2>2 DEF Install, push_change, Evict, EvictDone, push_commit_point, DropCommitPoint, ghost
    <3> QED
      BY <3>1
  <2> QED
    BY <1>5, <2>1, <2>2
<1>6. ASSUME Release PROVE Versioned!StoreNext
  <2> DEFINE R == [time : Times, docs : Documents]
             new == [time |-> last_commit_time, docs |-> documents]
             past == released.history
             n == Len(past)
  <2>1. pc = "expire" /\ pc' = "idle" /\ UNCHANGED <<history, change_floor, history_floor, released>>
    BY <1>6 DEF Release, log, times, ghost
  <2>2. /\ history = Append(past, new) /\ past \in Seq(R) /\ new \in R /\ n \in Nat
        /\ new.docs \in Documents
    BY <2>1, LenProperties DEF Inv, ReleasedOK, TypeOK
  <2>3. /\ Len(history) = n + 1 /\ history[n + 1] = new /\ \A i \in 1 .. n : history[i] = past[i]
    BY <2>2, AppendProperties
  <2>4. /\ revision \in Nat /\ Len(history) = revision + 1 /\ change_floor \in Nat
        /\ history_floor.revision \in Nat
        /\ released.change_floor \in Nat /\ released.history_floor \in Nat
    BY NumberTypes DEF Inv, TypeOK, HistoryOK, CommitPoint
  <2>5. revision = n
    BY <2>2, <2>3, <2>4
  <2>6. n # 0
    BY <2>1, <2>2, EmptySeq DEF Inv, ReleasedOK
  <2>7. past[n].time < new.time
    BY <2>2, <2>3, <2>6 DEF Inv, HistoryOK
  <2>8. change_floor \in released.change_floor .. n
    BY <2>1, <2>4, <2>5 DEF Inv, ReleasedOK, LogOK
  <2>9. history_floor.revision \in released.history_floor .. n
    <3>1. Len(commit_times) \in Nat /\ One(pc \in {"push", "evict"}) = 0
      BY <2>1, LenProperties DEF Inv, TypeOK, One
    <3>2. Len(commit_times) + history_floor.revision + 0 = revision
      BY <3>1 DEF Inv, TimesOK
    <3>3. history_floor.revision <= n
      BY <3>1, <3>2, <2>4, <2>5
    <3>4. released.history_floor <= history_floor.revision
      BY <2>1 DEF Inv, ReleasedOK
    <3> QED
      BY <3>3, <3>4, <2>4, <2>2
  <2>10. change_floor <= history_floor.revision
    <3>1. change_floor' <= history_floor'.revision
      BY <2>1 DEF Inv, TimesOK
    <3> QED
      BY <3>1, <2>1
  <2>11. /\ Versioned!store = <<past, released.change_floor, released.history_floor>>
         /\ Versioned!store' = <<history, change_floor, history_floor.revision>>
    BY <2>1 DEF Versioned!store
  <2>12. Versioned!Commit(documents, last_commit_time)
    <3>1. Versioned!TimeOf(Versioned!revision) = past[n].time
      BY <2>1, <2>2, <2>6 DEF Versioned!TimeOf, Versioned!revision
    <3>2. last_commit_time > past[n].time
      BY <2>7
    <3> QED
      BY <3>1, <3>2, <2>1, <2>2, <2>3, <2>8, <2>9, <2>10, <2>11 DEF Versioned!Commit
  <2> QED
    BY <2>12, <2>1, <2>2, <2>3 DEF Versioned!StoreNext, Versioned!Documents, Documents
<1>7. \/ shown' = shown
      \/ Release
  <2>1. CASE UNCHANGED vars
    BY <2>1, <1>5
  <2>2. CASE Next
    BY <2>2, <1>2, <1>3, <1>4, <1>5 DEF Next, RevisionExhausted
  <2> QED
    BY <2>1, <2>2
<1>8. ASSUME shown' = shown PROVE Versioned!store' = Versioned!store
  <2>1. Versioned!store' = shown'
    BY DEF Versioned!store
  <2> QED
    BY <2>1, <1>1, <1>8
<1> QED
  BY <1>6, <1>7, <1>8

(* Every behaviour of the replay log's Store is one of the versioned store: *)
(* what its users are promised between commits holds whatever the limits,   *)
(* through every failed write and every cut of the log.                     *)
THEOREM ImplementsStore == Spec => ImplementsVersionedStore
<1>1. Init => Versioned!StoreInit
  BY DEF Init, Origin, NoDocuments, Versioned!StoreInit, Versioned!NoDocuments
<1>2. Inv /\ Inv' /\ [Next]_vars => [Versioned!StoreNext]_(Versioned!store)
  BY RefinementStep
<1> QED
  BY <1>1, <1>2, Inductive, PTL DEF Spec, ImplementsVersionedStore, Versioned!StoreSpec
=============================================================================
