-------------------------- MODULE TasksQueueProofs --------------------------
(* Proofs about TasksQueue, for every value of its constants. *)
EXTENDS TasksQueue, FiniteSetTheorems, TLAPS

-----------------------------------------------------------------------------
(* Arithmetic.                                                              *)

(* The smaller and the larger of two integers. *)
LEMMA LeastMost ==
    ASSUME NEW a \in Int, NEW b \in Int
    PROVE  /\ Least(a, b) \in Int /\ Least(a, b) <= a /\ Least(a, b) <= b
           /\ Least(a, b) = a \/ Least(a, b) = b
           /\ Most(a, b) \in Int /\ Most(a, b) >= a /\ Most(a, b) >= b
           /\ Most(a, b) = a \/ Most(a, b) = b
  BY DEF Least, Most

(* Whole parts of a natural number. *)
LEMMA Parts ==
    ASSUME NEW a \in Nat, NEW b \in Nat \ {0}
    PROVE  a \div b \in Nat /\ (a \div b) * b <= a
  OBVIOUS

(* A natural multiple grows with its factor, one multiple at a time. *)
LEMMA Multiples ==
    ASSUME NEW r \in Nat, NEW a \in Nat, NEW b \in Nat
    PROVE  /\ r * a \in Nat
           /\ r * (a + 1) = r * a + r
           /\ a <= b => r * a <= r * b
  OBVIOUS

(* The fields of a configuration, and the bounds derived from them. *)
LEMMA ConfigFacts ==
    ASSUME NEW c \in Configs
    PROVE  /\ c.slots \in Nat /\ c.rate \in Nat /\ c.max_attempts \in Nat
           /\ c.min_backoff \in Nat /\ c.max_backoff \in Nat /\ c.max_doublings \in Nat
           /\ max_tokens(c) \in Nat \ {0}
           /\ RefillAge(c) \in Nat /\ Second <= RefillAge(c)
           /\ RetryAge(c) \in Nat
           /\ Second \in Nat \ {0} /\ Token \in Nat \ {0}
<1>1. /\ c.slots \in Nat /\ c.rate \in Nat /\ c.max_attempts \in Nat
      /\ c.min_backoff \in Nat /\ c.max_backoff \in Nat /\ c.max_doublings \in Nat
      /\ c.max_retry \in Nat \cup {NoLimit}
      /\ Second \in Nat \ {0} /\ Token \in Nat \ {0}
  BY ConstantsAssumption DEF ConfigType
<1>2. max_tokens(c) \in Nat \ {0}
  <2>1. c.rate * Second \in Nat
    BY <1>1, Multiples
  <2>2. Token + Token \div 10 \in Nat \ {0}
    BY <1>1, Parts
  <2> QED
    BY <2>1, <2>2 DEF max_tokens, Most
<1>3. RefillAge(c) \in Nat /\ Second <= RefillAge(c)
  <2>1. Most(c.rate, 1) \in Nat \ {0}
    BY <1>1 DEF Most
  <2>2. max_tokens(c) - 1 \in Nat
    BY <1>2
  <2>3. (max_tokens(c) - 1) \div Most(c.rate, 1) \in Nat
    BY <2>1, <2>2, Parts
  <2> QED
    BY <1>1, <2>3 DEF RefillAge, Most
<1>4. RetryAge(c) \in Nat
  BY <1>1 DEF RetryAge
<1> QED
  BY <1>1, <1>2, <1>3, <1>4

-----------------------------------------------------------------------------
(* Ascending lists a set of slots, each once. *)
LEMMA AscendingFacts ==
    ASSUME NEW N \in Nat, NEW S \in SUBSET (1 .. N)
    PROVE  /\ Ascending(S) \in Seq(1 .. N)
           /\ \A i, j \in DOMAIN Ascending(S) :
                 Ascending(S)[i] = Ascending(S)[j] => i = j
           /\ {Ascending(S)[i] : i \in DOMAIN Ascending(S)} = S
<1> DEFINE upTo(i) == {j \in S : j <= i}
           rank == [i \in S |-> Cardinality(upTo(i))]
           n == Cardinality(S)
<1>0. \A i \in S : i \in Int
  OBVIOUS
<1>1. IsFiniteSet(S)
  <2>1. IsFiniteSet(1 .. N)
    BY FS_Interval
  <2> QED
    BY <2>1, FS_Subset
<1>2. n \in Nat
  BY <1>1, FS_CardinalityType
<1>3. ASSUME NEW i \in S
      PROVE  /\ IsFiniteSet(upTo(i)) /\ rank[i] \in 1 .. n
  <2>1. IsFiniteSet(upTo(i)) /\ Cardinality(upTo(i)) <= n
    BY <1>1, FS_Subset
  <2>2. Cardinality(upTo(i)) \in Nat
    BY <2>1, FS_CardinalityType
  <2>3. i \in upTo(i)
    BY <1>0
  <2>4. Cardinality(upTo(i)) # 0
    BY <2>1, <2>3, FS_EmptySet
  <2> QED
    BY <1>2, <2>1, <2>2, <2>4
<1>4. ASSUME NEW i \in S, NEW j \in S, i < j
      PROVE  rank[i] # rank[j]
  <2>1. i \in Int /\ j \in Int /\ \A l \in S : l \in Int
    BY <1>0
  <2>2. upTo(i) \subseteq upTo(j)
    <3> SUFFICES ASSUME NEW l \in S, l <= i PROVE l <= j
      OBVIOUS
    <3> QED
      BY <1>4, <2>1
  <2>3. j \in upTo(j) /\ j \notin upTo(i)
    BY <1>4, <2>1
  <2> QED
    BY <1>3, <2>2, <2>3, FS_Subset
<1>5. rank \in Injection(S, 1 .. n)
  <2>1. rank \in [S -> 1 .. n]
    BY <1>3
  <2>2. \A i, j \in S : rank[i] = rank[j] => i = j
    BY <1>0, <1>4
  <2> QED
    BY <2>1, <2>2 DEF Injection, IsInjective
<1>6. rank \in Surjection(S, 1 .. n)
  <2>1. IsFiniteSet(1 .. n) /\ Cardinality(1 .. n) = n
    BY <1>2, FS_Interval
  <2> QED
    BY <1>5, <2>1, FS_Injection
<1>7. ASSUME NEW r \in 1 .. n
      PROVE  Ascending(S)[r] \in S /\ rank[Ascending(S)[r]] = r
  <2>1. \E i \in S : rank[i] = r
    BY <1>6 DEF Surjection
  <2>2. \E i \in S : Cardinality({j \in S : j <= i}) = r
    BY <2>1
  <2>3. Ascending(S)[r] = CHOOSE i \in S : Cardinality({j \in S : j <= i}) = r
    BY DEF Ascending
  <2> QED
    BY <2>2, <2>3
<1>8. Ascending(S) \in [1 .. n -> S]
  BY <1>7 DEF Ascending
<1>9. Ascending(S) \in Seq(1 .. N) /\ DOMAIN Ascending(S) = 1 .. n
  <2>1. Ascending(S) \in [1 .. n -> 1 .. N]
    BY <1>8
  <2> QED
    BY <1>2, <2>1
<1>10. ASSUME NEW i \in S
       PROVE  \E r \in 1 .. n : Ascending(S)[r] = i
  <2>1. rank[i] \in 1 .. n
    BY <1>3
  <2>2. rank[Ascending(S)[rank[i]]] = rank[i] /\ Ascending(S)[rank[i]] \in S
    BY <1>7, <2>1
  <2>3. Ascending(S)[rank[i]] = i
    BY <1>5, <2>2 DEF Injection, IsInjective
  <2> QED
    BY <2>1, <2>3
<1>11. \A i, j \in 1 .. n : Ascending(S)[i] = Ascending(S)[j] => i = j
  BY <1>7
<1>12. {Ascending(S)[i] : i \in 1 .. n} = S
  BY <1>7, <1>10
<1> QED
  BY <1>9, <1>11, <1>12

-----------------------------------------------------------------------------
(* One queue.                                                               *)

(* What the type of a sequence says of its length and elements. *)
LEMMA SeqFacts ==
    ASSUME NEW S, NEW s \in Seq(S)
    PROVE  /\ Len(s) \in Nat /\ DOMAIN s = 1 .. Len(s)
           /\ \A i \in 1 .. Len(s) : s[i] \in S
  OBVIOUS

(* A prefix of a sequence. *)
LEMMA PrefixFacts ==
    ASSUME NEW S, NEW s \in Seq(S), NEW m \in Nat, m <= Len(s)
    PROVE  /\ SubSeq(s, 1, m) \in Seq(S) /\ DOMAIN SubSeq(s, 1, m) = 1 .. m
           /\ \A i \in 1 .. m : SubSeq(s, 1, m)[i] = s[i]
  OBVIOUS

(* One sequence after another. *)
LEMMA ConcatFacts ==
    ASSUME NEW S, NEW s \in Seq(S), NEW t \in Seq(S)
    PROVE  /\ s \o t \in Seq(S) /\ DOMAIN (s \o t) = 1 .. (Len(s) + Len(t))
           /\ \A i \in 1 .. Len(s) : (s \o t)[i] = s[i]
           /\ \A i \in 1 .. Len(t) : (s \o t)[Len(s) + i] = t[i]
  OBVIOUS

(* What the type of a queue says of its fields. *)
LEMMA QueueFacts ==
    ASSUME NEW c \in Configs, NEW q \in Queue(c)
    PROVE  /\ q.config = c
           /\ q.pending \in Seq(Names) /\ Len(q.pending) \in Nat
           /\ q.open \in Seq(1 .. c.slots) /\ Len(q.open) \in Nat
           /\ \A i \in 1 .. Len(q.pending) : q.pending[i] \in Names
           /\ \A i \in 1 .. Len(q.open) : q.open[i] \in 1 .. c.slots
           /\ DOMAIN q.open = 1 .. Len(q.open)
           /\ DOMAIN q.pending = 1 .. Len(q.pending)
           /\ DOMAIN q.slots = 1 .. c.slots
           /\ \A i \in 1 .. c.slots : q.slots[i] \in Dispatch(c) \cup {Free}
           /\ Busy(q) \subseteq 1 .. c.slots
           /\ \A i \in Busy(q) : q.slots[i] \in Dispatch(c) /\ q.slots[i] # Free
           /\ q.tokens \in Nat /\ q.tokens <= max_tokens(c)
           /\ q.age \in Nat /\ q.level \in Nat /\ q.born \in Nat
<1>1. c.slots \in Nat /\ max_tokens(c) \in Nat /\ RefillAge(c) \in Nat
  BY ConfigFacts
<1>2. /\ q.config = c
      /\ q.pending \in Seq(Names) /\ q.open \in Seq(1 .. c.slots)
      /\ q.slots \in [1 .. c.slots -> Dispatch(c) \cup {Free}]
      /\ q.tokens \in 0 .. max_tokens(c)
      /\ q.age \in 0 .. RefillAge(c) /\ q.level \in Nat /\ q.born \in Nat
  BY DEF Queue
<1>3. /\ DOMAIN q.slots = 1 .. c.slots
      /\ \A i \in 1 .. c.slots : q.slots[i] \in Dispatch(c) \cup {Free}
  BY <1>2
<1>4. /\ Busy(q) \subseteq 1 .. c.slots
      /\ \A i \in Busy(q) : q.slots[i] \in Dispatch(c) /\ q.slots[i] # Free
  BY <1>3 DEF Busy
<1>5. /\ q.tokens \in Nat /\ q.tokens <= max_tokens(c) /\ q.age \in Nat
  BY <1>1, <1>2
<1>6. /\ Len(q.pending) \in Nat /\ DOMAIN q.pending = 1 .. Len(q.pending)
      /\ \A i \in 1 .. Len(q.pending) : q.pending[i] \in Names
  BY <1>2, SeqFacts
<1>7. /\ Len(q.open) \in Nat /\ DOMAIN q.open = 1 .. Len(q.open)
      /\ \A i \in 1 .. Len(q.open) : q.open[i] \in 1 .. c.slots
  BY <1>2, SeqFacts
<1> QED
  BY <1>2, <1>3, <1>4, <1>5, <1>6, <1>7

(* A new queue (TaskQueue::new). *)
LEMMA NewQueue ==
    ASSUME NEW c \in Configs, registrations \in Nat
    PROVE  /\ New(c) \in Queue(c) /\ Busy(New(c)) = {}
           /\ EachOpenOnce(New(c)) /\ RateOK(New(c))
<1>1. c.slots \in Nat /\ max_tokens(c) \in Nat /\ RefillAge(c) \in Nat
  BY ConfigFacts
<1>2. /\ <<>> \in Seq(Names)
      /\ [i \in 1 .. c.slots |-> Free] \in [1 .. c.slots -> Dispatch(c) \cup {Free}]
      /\ [i \in 1 .. c.slots |-> i] \in Seq(1 .. c.slots)
  BY <1>1
<1>3. New(c) \in Queue(c)
  BY <1>1, <1>2 DEF New, Queue
<1>4. Busy(New(c)) = {}
  BY DEF New, Busy
<1>5. EachOpenOnce(New(c))
  BY <1>1, <1>4 DEF New, EachOpenOnce
<1> QED
  BY <1>3, <1>4, <1>5 DEF New, RateOK

(* Enqueueing a task leaves slots and tokens alone. *)
LEMMA EnqueuedQueue ==
    ASSUME NEW c \in Configs, NEW q \in Queue(c), NEW n \in Names
    PROVE  /\ Enqueued(q, n) \in Queue(c)
           /\ Enqueued(q, n).slots = q.slots /\ Enqueued(q, n).born = q.born
           /\ EachOpenOnce(q) => EachOpenOnce(Enqueued(q, n))
           /\ RateOK(q) => RateOK(Enqueued(q, n))
<1>1. Append(q.pending, n) \in Seq(Names)
  BY QueueFacts
<1>2. Enqueued(q, n) \in Queue(c)
  <2>1. /\ q.count + 1 \in Int
        /\ q.known \cup {n} \in SUBSET Names
        /\ q.queued \cup {n} \in SUBSET Names
    BY DEF Queue
  <2> QED
    BY <1>1, <2>1 DEF Enqueued, Queue
<1>3. /\ Enqueued(q, n).slots = q.slots /\ Enqueued(q, n).born = q.born
      /\ Enqueued(q, n).open = q.open /\ Enqueued(q, n).config = q.config
      /\ Enqueued(q, n).tokens = q.tokens /\ Enqueued(q, n).age = q.age
      /\ Enqueued(q, n).level = q.level
  BY DEF Enqueued, Queue
<1> QED
  BY <1>2, <1>3 DEF EachOpenOnce, RateOK, Busy

(* Deleting a task leaves slots and tokens alone. *)
LEMMA RemovedQueue ==
    ASSUME NEW c \in Configs, NEW q \in Queue(c), NEW n \in Names
    PROVE  /\ Removed(q, n) \in Queue(c)
           /\ Removed(q, n).slots = q.slots /\ Removed(q, n).born = q.born
           /\ EachOpenOnce(q) => EachOpenOnce(Removed(q, n))
           /\ RateOK(q) => RateOK(Removed(q, n))
<1>1. Retained(q.pending, Places(q, n)) \in Seq(Names)
  <2>1. CASE Places(q, n) = {}
    BY <2>1, QueueFacts DEF Retained
  <2>2. CASE Places(q, n) # {}
    <3> DEFINE i == CHOOSE i \in Places(q, n) : TRUE
    <3>1. i \in 1 .. Len(q.pending)
      BY <2>2, QueueFacts DEF Places
    <3> HIDE DEF i
    <3>2. q.pending \in Seq(Names)
      BY QueueFacts
    <3>3. SubSeq(q.pending, 1, i - 1) \in Seq(Names)
      BY <3>1, <3>2
    <3>4. SubSeq(q.pending, i + 1, Len(q.pending)) \in Seq(Names)
      BY <3>1, <3>2
    <3>5. SubSeq(q.pending, 1, i - 1) \o SubSeq(q.pending, i + 1, Len(q.pending))
             \in Seq(Names)
      BY <3>3, <3>4
    <3> QED
      BY <2>2, <3>5 DEF Retained, i
  <2> QED
    BY <2>1, <2>2
<1>2. Removed(q, n) \in Queue(c)
  <2>1. /\ q.count - 1 \in Int
        /\ q.known \ {n} \in SUBSET Names
        /\ (IF Places(q, n) = {} THEN q.late \cup {n} ELSE q.late) \in SUBSET Names
    BY DEF Queue
  <2> QED
    BY <1>1, <2>1 DEF Removed, Queue
<1>3. /\ Removed(q, n).slots = q.slots /\ Removed(q, n).born = q.born
      /\ Removed(q, n).open = q.open /\ Removed(q, n).config = q.config
      /\ Removed(q, n).tokens = q.tokens /\ Removed(q, n).age = q.age
      /\ Removed(q, n).level = q.level
  BY DEF Removed, Queue
<1> QED
  BY <1>2, <1>3 DEF EachOpenOnce, RateOK, Busy

(* A refill adds what came in since the last one, and then less than a      *)
(* second has passed since.                                                 *)
LEMMA RefilledQueue ==
    ASSUME NEW c \in Configs, NEW q \in Queue(c)
    PROVE  /\ refill_tokens(q) \in Queue(c) /\ refill_tokens(q).age < Second
           /\ refill_tokens(q).slots = q.slots /\ refill_tokens(q).born = q.born
           /\ EachOpenOnce(q) => EachOpenOnce(refill_tokens(q))
           /\ RateOK(q) => RateOK(refill_tokens(q))
<1>1. CASE q.age < Second
  BY <1>1 DEF refill_tokens
<1>2. CASE ~(q.age < Second)
  <2> DEFINE more == Least(q.tokens + q.age * q.config.rate, max_tokens(q.config))
             p == refill_tokens(q)
  <2>1. /\ q.config = c /\ c.rate \in Nat /\ q.age \in Nat /\ q.tokens \in Nat
        /\ max_tokens(c) \in Nat /\ Second \in Nat \ {0} /\ q.level \in Nat
        /\ RefillAge(c) \in Nat
    BY ConfigFacts, QueueFacts
  <2>2. q.age * c.rate \in Nat /\ c.rate * q.age = q.age * c.rate /\ c.rate * 0 = 0
    BY <2>1, Multiples
  <2>3. more \in 0 .. max_tokens(c) /\ more <= q.tokens + q.age * c.rate
    BY <2>1, <2>2 DEF Least
  <2> HIDE DEF more
  <2>4. p = [q EXCEPT !.tokens = more, !.age = 0]
    BY <1>2 DEF refill_tokens, more
  <2>5. p \in Queue(c)
    <3>1. more \in 0 .. max_tokens(c) /\ 0 \in 0 .. RefillAge(c)
      BY <2>1, <2>3
    <3> QED
      BY <2>4, <3>1 DEF Queue
  <2>6. /\ p.slots = q.slots /\ p.open = q.open /\ p.born = q.born /\ p.config = c
        /\ p.level = q.level /\ p.tokens = more /\ p.age = 0
    BY <2>1, <2>4 DEF Queue
  <2>7. RateOK(q) => RateOK(p)
    <3> SUFFICES ASSUME RateOK(q), q.level # 0
                 PROVE  q.level + more + c.rate * 0 <= max_tokens(c) + c.rate * (Second - 1)
      BY <2>6 DEF RateOK
    <3>1. q.level + q.tokens + c.rate * q.age <= max_tokens(c) + c.rate * (Second - 1)
      BY <2>1 DEF RateOK
    <3>2. c.rate * (Second - 1) \in Nat /\ more \in Nat
      BY <2>1, <2>3, Multiples
    <3> QED
      BY <2>1, <2>2, <2>3, <3>1, <3>2
  <2>8. EachOpenOnce(q) => EachOpenOnce(p)
    BY <2>6 DEF EachOpenOnce, Busy
  <2> QED
    BY <2>1, <2>5, <2>6, <2>7, <2>8
<1> QED
  BY <1>1, <1>2

(* The loop of dispatch_tasks runs as often as tasks, slots and tokens allow.*)
LEMMA DispatchedFacts ==
    ASSUME NEW c \in Configs, NEW q \in Queue(c)
    PROVE  /\ Dispatched(q) \in Nat
           /\ Dispatched(q) <= Len(q.pending) /\ Dispatched(q) <= Len(q.open)
           /\ Dispatched(q) * Token \in Nat /\ Dispatched(q) * Token <= q.tokens
<1> DEFINE n == Dispatched(q)
           whole == q.tokens \div Token
<1>1. /\ Len(q.pending) \in Nat /\ Len(q.open) \in Nat /\ q.tokens \in Nat
      /\ Token \in Nat \ {0}
  BY ConfigFacts, QueueFacts
<1>2. whole \in Nat /\ whole * Token <= q.tokens
  BY <1>1, Parts
<1> HIDE DEF whole
<1>3. n \in Nat /\ n <= Len(q.pending) /\ n <= Len(q.open) /\ n <= whole
  BY <1>1, <1>2 DEF Dispatched, Least, whole
<1> HIDE DEF n
<1>4. Token * n \in Nat /\ Token * n <= Token * whole /\ Token * whole \in Nat
  BY <1>1, <1>2, <1>3, Multiples
<1>5. n * Token = Token * n /\ whole * Token = Token * whole
  BY <1>1, <1>2, <1>3
<1>6. n * Token \in Nat /\ n * Token <= q.tokens
  BY <1>1, <1>2, <1>4, <1>5
<1> QED
  BY <1>3, <1>6 DEF n

(* A new dispatch (dispatch_tasks). *)
LEMMA NewDispatchType ==
    ASSUME NEW c \in Configs, NEW id \in Nat, NEW n \in Names
    PROVE  NewDispatch(id, n) \in Dispatch(c) /\ NewDispatch(id, n) # Free
<1>1. c.max_backoff \in Nat /\ RetryAge(c) \in Nat
  BY ConfigFacts
<1>2. 0 \in 0 .. RetryAge(c) /\ Never \in 0 .. c.max_backoff \cup {Never}
  BY <1>1
<1>3. NewDispatch(id, n) \in Dispatch(c)
  BY <1>2 DEF NewDispatch, Dispatch, Status
<1> QED
  BY <1>3, FreeAssumption

(* What dispatch_tasks does to the slots: the last of the open ones are     *)
(* taken by new dispatches with ids of their own, the others stay.          *)
LEMMA DispatchSlots ==
    ASSUME NEW c \in Configs, NEW q \in Queue(c), NEW next \in Nat, EachOpenOnce(q)
    PROVE  LET p == dispatch_tasks(q, next)
               n == Dispatched(q)
               top == Len(q.open) + 1
           IN /\ DOMAIN p.slots = 1 .. c.slots
              /\ \A j \in 1 .. n : /\ q.open[top - j] \in 1 .. c.slots
                                   /\ q.open[top - j] \notin Busy(q)
                                   /\ p.slots[q.open[top - j]] = NewDispatch(next + j, q.pending[j])
                                   /\ q.pending[j] \in Names
              /\ \A i \in 1 .. c.slots :
                    (\A j \in 1 .. n : q.open[top - j] # i) => p.slots[i] = q.slots[i]
<1> DEFINE p == dispatch_tasks(q, next)
           n == Dispatched(q)
           top == Len(q.open) + 1
<1>1. /\ n \in Nat /\ n <= Len(q.pending) /\ n <= Len(q.open)
      /\ Len(q.pending) \in Nat /\ Len(q.open) \in Nat
      /\ DOMAIN q.slots = 1 .. c.slots /\ DOMAIN q.open = 1 .. Len(q.open)
  BY DispatchedFacts, QueueFacts
<1>2. p.slots = [i \in 1 .. c.slots |->
            IF Turns(q, i) = {} THEN q.slots[i]
            ELSE NewDispatch(next + Turn(q, i), q.pending[Turn(q, i)])]
  <2>1. p.slots = Filled(q, next)
    BY DEF dispatch_tasks, Queue
  <2> QED
    BY <1>1, <2>1 DEF Filled
<1> HIDE DEF p
<1>3. ASSUME NEW j \in 1 .. n
      PROVE  /\ top - j \in 1 .. Len(q.open) /\ j \in 1 .. Len(q.pending)
             /\ q.open[top - j] \in 1 .. c.slots /\ q.open[top - j] \notin Busy(q)
             /\ q.pending[j] \in Names
  <2>1. top - j \in 1 .. Len(q.open) /\ j \in 1 .. Len(q.pending)
    BY <1>1
  <2>2. q.open[top - j] \in 1 .. c.slots /\ q.pending[j] \in Names
    BY <2>1, QueueFacts
  <2>3. q.open[top - j] \in DOMAIN q.slots \ Busy(q)
    BY <1>1, <2>1 DEF EachOpenOnce
  <2> QED
    BY <2>1, <2>2, <2>3
<1>4. ASSUME NEW j \in 1 .. n
      PROVE  Turns(q, q.open[top - j]) = {j}
  <2>1. ASSUME NEW l \in 1 .. n, q.open[top - l] = q.open[top - j]
        PROVE  l = j
    <3>1. top - l = top - j
      BY <1>1, <1>3, <2>1 DEF EachOpenOnce
    <3> QED
      BY <1>1, <3>1
  <2> QED
    BY <2>1 DEF Turns
<1>5. ASSUME NEW j \in 1 .. n
      PROVE  p.slots[q.open[top - j]] = NewDispatch(next + j, q.pending[j])
  <2>1. Turn(q, q.open[top - j]) = j
    BY <1>4 DEF Turn
  <2> QED
    BY <1>2, <1>3, <1>4, <2>1
<1>6. ASSUME NEW i \in 1 .. c.slots, \A j \in 1 .. n : q.open[top - j] # i
      PROVE  p.slots[i] = q.slots[i]
  <2>1. Turns(q, i) = {}
    BY <1>6 DEF Turns
  <2> QED
    BY <1>2, <2>1
<1>7. DOMAIN p.slots = 1 .. c.slots
  BY <1>2
<1> QED
  BY <1>3, <1>5, <1>6, <1>7 DEF p, n

(* Which slots are busy after dispatch_tasks: those that were, with their   *)
(* dispatch, and those that it took, with new dispatches.                   *)
LEMMA DispatchBusy ==
    ASSUME NEW c \in Configs, NEW q \in Queue(c), NEW next \in Nat, EachOpenOnce(q),
           NEW i \in Busy(dispatch_tasks(q, next))
    PROVE  \/ i \in Busy(q) /\ dispatch_tasks(q, next).slots[i] = q.slots[i]
           \/ \E j \in 1 .. Dispatched(q) :
                /\ q.open[Len(q.open) + 1 - j] = i
                /\ q.pending[j] \in Names
                /\ dispatch_tasks(q, next).slots[i] = NewDispatch(next + j, q.pending[j])
<1>1. i \in 1 .. c.slots /\ dispatch_tasks(q, next).slots[i] # Free
  BY DispatchSlots DEF Busy
<1>0. \A j \in 1 .. Dispatched(q) :
        /\ q.pending[j] \in Names
        /\ dispatch_tasks(q, next).slots[q.open[Len(q.open) + 1 - j]]
              = NewDispatch(next + j, q.pending[j])
  BY DispatchSlots
<1>2. CASE \E j \in 1 .. Dispatched(q) : q.open[Len(q.open) + 1 - j] = i
  <2> PICK j \in 1 .. Dispatched(q) : q.open[Len(q.open) + 1 - j] = i
    BY <1>2
  <2> QED
    BY <1>0
<1>3. CASE \A j \in 1 .. Dispatched(q) : q.open[Len(q.open) + 1 - j] # i
  <2>1. dispatch_tasks(q, next).slots[i] = q.slots[i]
    BY <1>1, <1>3, DispatchSlots
  <2>2. DOMAIN q.slots = 1 .. c.slots
    BY QueueFacts
  <2> QED
    BY <1>1, <2>1, <2>2 DEF Busy
<1> QED
  BY <1>2, <1>3

(* A queue after dispatch_tasks. *)
LEMMA DispatchedQueue ==
    ASSUME NEW c \in Configs, NEW q \in Queue(c), NEW next \in Nat, EachOpenOnce(q),
           RateOK(q), q.age < Second
    PROVE  LET p == dispatch_tasks(q, next)
           IN p \in Queue(c) /\ EachOpenOnce(p) /\ RateOK(p) /\ p.born = q.born
<1> DEFINE p == dispatch_tasks(q, next)
           n == Dispatched(q)
           top == Len(q.open) + 1
<1>1. /\ n \in Nat /\ n <= Len(q.pending) /\ n <= Len(q.open)
      /\ n * Token \in Nat /\ n * Token <= q.tokens
  BY DispatchedFacts
<1>2. /\ Len(q.pending) \in Nat /\ Len(q.open) \in Nat /\ q.level \in Nat
      /\ q.tokens \in Nat /\ q.tokens <= max_tokens(c) /\ q.age \in Nat /\ q.config = c
      /\ q.pending \in Seq(Names) /\ q.open \in Seq(1 .. c.slots)
  BY QueueFacts
<1>3. max_tokens(c) \in Nat /\ c.rate \in Nat /\ Second \in Nat \ {0}
  BY ConfigFacts
<1>4. /\ p.slots = Filled(q, next)
      /\ p.open = SubSeq(q.open, 1, Len(q.open) - n)
      /\ p.tokens = q.tokens - n * Token /\ p.level = q.level + n * Token
      /\ p.age = q.age /\ p.config = q.config /\ p.born = q.born
  BY DEF dispatch_tasks, Queue
<1> HIDE DEF n
<1>5. p \in Queue(c)
  <2>1. SubSeq(q.open, 1, Len(q.open) - n) \in Seq(1 .. c.slots)
    <3>1. Len(q.open) - n \in Nat /\ Len(q.open) - n <= Len(q.open)
      BY <1>1, <1>2
    <3> QED
      BY <1>2, <3>1, PrefixFacts
  <2>2. SubSeq(q.pending, n + 1, Len(q.pending)) \in Seq(Names)
    BY <1>1, <1>2
  <2>3. q.count - n \in Int
    BY <1>1 DEF Queue
  <2>4. q.tokens - n * Token \in 0 .. max_tokens(c) /\ q.level + n * Token \in Nat
    BY <1>1, <1>2, <1>3
  <2>5. Filled(q, next) \in [1 .. c.slots -> Dispatch(c) \cup {Free}]
    <3>1. ASSUME NEW i \in 1 .. c.slots
          PROVE  p.slots[i] \in Dispatch(c) \cup {Free}
      <4>1. CASE i \in Busy(p)
        <5>1. CASE i \in Busy(q) /\ p.slots[i] = q.slots[i]
          BY <5>1, QueueFacts
        <5>2. CASE \E j \in 1 .. n : /\ q.pending[j] \in Names
                                     /\ p.slots[i] = NewDispatch(next + j, q.pending[j])
          <6> PICK j \in 1 .. n : /\ q.pending[j] \in Names
                                  /\ p.slots[i] = NewDispatch(next + j, q.pending[j])
            BY <5>2
          <6>1. next + j \in Nat
            BY <1>1
          <6> QED
            BY <6>1, NewDispatchType
        <5> QED
          BY <4>1, <5>1, <5>2, DispatchBusy DEF n
      <4>2. CASE i \notin Busy(p)
        BY <4>2, DispatchSlots DEF Busy
      <4> QED
        BY <4>1, <4>2
    <3>2. DOMAIN q.slots = 1 .. c.slots
      BY QueueFacts
    <3> QED
      BY <1>4, <3>1, <3>2 DEF Filled
  <2> QED
    BY <2>1, <2>2, <2>3, <2>4, <2>5 DEF dispatch_tasks, Queue, n
<1>6. EachOpenOnce(p)
  <2> DEFINE m == Len(q.open) - n
  <2>1. m \in Nat /\ m <= Len(q.open)
    BY <1>1, <1>2
  <2>2. DOMAIN p.open = 1 .. m /\ \A i \in 1 .. m : p.open[i] = q.open[i]
    BY <1>2, <1>4, <2>1, PrefixFacts
  <2>3. 1 .. m \subseteq DOMAIN q.open /\ DOMAIN q.open = 1 .. Len(q.open)
    BY <1>2, <2>1
  <2>4. ASSUME NEW i \in 1 .. m, NEW j \in 1 .. n
        PROVE  q.open[top - j] # q.open[i]
    <3>1. top - j \in 1 .. Len(q.open) /\ i \in 1 .. Len(q.open) /\ top - j # i
      BY <1>1, <1>2
    <3> QED
      BY <2>3, <3>1 DEF EachOpenOnce
  <2>5. ASSUME NEW i \in 1 .. m
        PROVE  p.open[i] \in DOMAIN p.slots \ Busy(p)
    <3>1. q.open[i] \in DOMAIN q.slots \ Busy(q)
      BY <2>3 DEF EachOpenOnce
    <3>2. q.open[i] \in 1 .. c.slots /\ q.slots[q.open[i]] = Free
      BY <3>1, QueueFacts DEF Busy
    <3>3. p.slots[q.open[i]] = q.slots[q.open[i]] /\ DOMAIN p.slots = 1 .. c.slots
      BY <2>4, <3>2, DispatchSlots DEF n
    <3> QED
      BY <2>2, <3>2, <3>3 DEF Busy
  <2>6. ASSUME NEW x \in DOMAIN p.slots \ Busy(p)
        PROVE  \E i \in 1 .. m : p.open[i] = x
    <3>1. x \in 1 .. c.slots /\ p.slots[x] = Free
      BY DispatchSlots DEF Busy
    <3>2. ASSUME NEW j \in 1 .. n PROVE q.open[top - j] # x
      <4>1. next + j \in Nat
        BY <1>1
      <4>2. q.pending[j] \in Names
            /\ p.slots[q.open[top - j]] = NewDispatch(next + j, q.pending[j])
        BY DispatchSlots DEF n
      <4> QED
        BY <3>1, <4>1, <4>2, NewDispatchType
    <3>3. q.slots[x] = Free
      BY <3>1, <3>2, DispatchSlots DEF n
    <3>4. x \in DOMAIN q.slots \ Busy(q)
      BY <3>1, <3>3, QueueFacts DEF Busy
    <3> PICK i \in 1 .. Len(q.open) : q.open[i] = x
      BY <2>3, <3>4 DEF EachOpenOnce
    <3>5. i \in 1 .. m
      <4>1. ASSUME i > m PROVE FALSE
        <5>1. top - i \in 1 .. n /\ top - (top - i) = i
          BY <1>1, <1>2, <4>1
        <5> QED
          BY <3>2, <5>1
      <4> QED
        BY <2>1, <4>1
    <3> QED
      BY <2>2, <3>5
  <2>7. {p.open[i] : i \in DOMAIN p.open} = DOMAIN p.slots \ Busy(p)
    BY <2>2, <2>5, <2>6
  <2>8. \A i, j \in DOMAIN p.open : p.open[i] = p.open[j] => i = j
    BY <2>2, <2>3 DEF EachOpenOnce
  <2> QED
    BY <2>7, <2>8 DEF EachOpenOnce
<1>7. RateOK(p)
  <2> DEFINE r == c.rate * q.age
             bound == max_tokens(c) + c.rate * (Second - 1)
  <2>1. /\ r \in Nat /\ c.rate * (Second - 1) \in Nat
        /\ r <= c.rate * (Second - 1)
    <3>1. Second - 1 \in Nat /\ q.age <= Second - 1
      BY <1>2, <1>3
    <3> QED
      BY <1>2, <1>3, <3>1, Multiples
  <2>2. p.level + p.tokens = q.level + q.tokens
    BY <1>1, <1>2, <1>4
  <2>3. q.level + q.tokens + r <= bound
    <3>1. CASE q.level = 0
      BY <1>2, <1>3, <2>1, <3>1
    <3>2. CASE q.level # 0
      BY <1>2, <3>2 DEF RateOK
    <3> QED
      BY <3>1, <3>2
  <2>4. p.level + p.tokens + c.rate * p.age <= bound
    BY <1>4, <2>2, <2>3
  <2> QED
    BY <1>2, <1>4, <2>4 DEF RateOK
<1> QED
  BY <1>4, <1>5, <1>6, <1>7

(* A retry is put back with a longer backoff (update_metadata). *)
LEMMA UpdatedType ==
    ASSUME NEW c \in Configs, NEW d \in Dispatch(c)
    PROVE  /\ Backoff(d.attempt, c) \in Int /\ d.attempt + 1 \in Nat \ {0}
<1>1. /\ c.max_backoff \in Nat /\ c.min_backoff \in Nat /\ c.max_doublings \in Nat
  BY ConfigFacts
<1>2. d.attempt \in Nat \ {0}
  BY DEF Dispatch
<1> DEFINE least == Least(d.attempt - 1, c.max_doublings)
           most == Most(0, d.attempt - c.max_doublings - 1)
<1>3. least \in Nat /\ most \in Int
  BY <1>1, <1>2 DEF Least, Most
<1> HIDE DEF least, most
<1>4. 2 ^ least \in Int /\ 2 ^ c.max_doublings \in Int
  BY <1>1, <1>3
<1> DEFINE grown == c.min_backoff * (2 ^ least + most * 2 ^ c.max_doublings)
<1>5. grown \in Int
  <2>1. most * 2 ^ c.max_doublings \in Int
    BY <1>3, <1>4
  <2>2. 2 ^ least + most * 2 ^ c.max_doublings \in Int
    BY <1>4, <2>1
  <2> QED
    BY <1>1, <2>2
<1>6. Backoff(d.attempt, c) \in Int
  <2>1. Backoff(d.attempt, c) = Least(c.max_backoff, grown)
    BY DEF Backoff, least, most
  <2> HIDE DEF grown
  <2> QED
    BY <1>1, <1>5, <2>1 DEF Least
<1> QED
  BY <1>2, <1>6

(* What process does to one dispatch: it frees the slot of one that is      *)
(* over, and any other keeps its id; one that runs afterwards ran before or *)
(* is started now, with the attempt that it had.                            *)
LEMMA ProcessedFacts ==
    ASSUME NEW c \in Configs, NEW d \in Dispatch(c), d # Free
    PROVE  /\ Over(d) => Processed(d, c) = Free
           /\ ~Over(d) =>
                /\ Processed(d, c) \in Dispatch(c) /\ Processed(d, c) # Free
                /\ Processed(d, c).id = d.id
                /\ Processed(d, c).status = "Running" <=> Starts(d) \/ d.status = "Running"
                /\ Processed(d, c).status = "Running" => Processed(d, c).attempt = d.attempt
<1>1. d.status \in Status
  BY DEF Dispatch
<1>2. CASE Over(d)
  BY <1>2 DEF Processed, Over, Starts
<1>3. CASE Starts(d)
  <2>1. Processed(d, c) = [d EXCEPT !.status = "Running"] /\ ~Over(d)
    BY <1>3 DEF Processed, Over, Starts
  <2>2. /\ Processed(d, c) \in Dispatch(c) /\ Processed(d, c).id = d.id
        /\ Processed(d, c).status = "Running" /\ Processed(d, c).attempt = d.attempt
    BY <2>1 DEF Dispatch, Status
  <2> QED
    BY <1>3, <2>1, <2>2, FreeAssumption
<1>4. CASE d.status = "Retry"
  <2>1. ~Over(d) /\ ~Starts(d)
    BY <1>4 DEF Over, Starts
  <2>2. CASE should_stop_retrying(d, c)
    <3>1. Processed(d, c) = [d EXCEPT !.status = "Failed"]
      BY <1>4, <2>1, <2>2 DEF Processed
    <3>2. /\ Processed(d, c) \in Dispatch(c) /\ Processed(d, c).id = d.id
          /\ Processed(d, c).status = "Failed"
      BY <3>1 DEF Dispatch, Status
    <3> QED
      BY <1>4, <2>1, <3>2, FreeAssumption
  <2>3. CASE ~should_stop_retrying(d, c)
    <3>1. Processed(d, c) = [update_metadata(d, c) EXCEPT !.status = "NotStarted"]
      BY <1>4, <2>1, <2>3 DEF Processed
    <3>2. /\ Backoff(d.attempt, c) \in Int /\ d.attempt + 1 \in Nat \ {0}
      BY UpdatedType
    <3>3. update_metadata(d, c) \in Dispatch(c) /\ update_metadata(d, c).id = d.id
      BY <3>2 DEF update_metadata, Dispatch
    <3>4. /\ Processed(d, c) \in Dispatch(c) /\ Processed(d, c).id = d.id
          /\ Processed(d, c).status = "NotStarted"
      BY <3>1, <3>3 DEF Dispatch, Status
    <3> QED
      BY <1>4, <2>1, <3>4, FreeAssumption
  <2> QED
    BY <2>2, <2>3
<1>5. CASE ~Over(d) /\ ~Starts(d) /\ d.status # "Retry"
  <2>1. Processed(d, c) = d
    BY <1>5 DEF Processed
  <2> QED
    BY <1>5, <2>1
<1> QED
  BY <1>2, <1>3, <1>4, <1>5

(* A queue after process: the slots of the dispatches that were over are    *)
(* free and open, and the others have their dispatch.                       *)
LEMMA ProcessedQueue ==
    ASSUME NEW c \in Configs, NEW q \in Queue(c), EachOpenOnce(q)
    PROVE  /\ process(q) \in Queue(c) /\ EachOpenOnce(process(q))
           /\ RateOK(q) => RateOK(process(q))
           /\ process(q).born = q.born
           /\ \A i \in 1 .. c.slots : process(q).slots[i] = Processed(q.slots[i], c)
           /\ Busy(process(q)) = {i \in Busy(q) : ~Over(q.slots[i])}
<1> DEFINE p == process(q)
           over == {i \in DOMAIN q.slots : Over(q.slots[i])}
<1>1. /\ q.config = c /\ c.slots \in Nat /\ DOMAIN q.slots = 1 .. c.slots
      /\ q.open \in Seq(1 .. c.slots) /\ Len(q.open) \in Nat
      /\ DOMAIN q.open = 1 .. Len(q.open)
      /\ \A i \in 1 .. c.slots : q.slots[i] \in Dispatch(c) \cup {Free}
  BY ConfigFacts, QueueFacts
<1>2. /\ p.slots = [i \in DOMAIN q.slots |-> Processed(q.slots[i], q.config)]
      /\ p.open = q.open \o Freed(q)
      /\ p.born = q.born /\ p.config = q.config
      /\ p.tokens = q.tokens /\ p.age = q.age /\ p.level = q.level
  BY DEF process, Queue
<1>3. /\ DOMAIN p.slots = 1 .. c.slots
      /\ \A i \in 1 .. c.slots : p.slots[i] = Processed(q.slots[i], c)
  BY <1>1, <1>2
<1>4. Processed(Free, c) = Free
  BY DEF Processed, Over, Starts
<1>5. ASSUME NEW i \in 1 .. c.slots
      PROVE  /\ p.slots[i] \in Dispatch(c) \cup {Free}
             /\ p.slots[i] = Free <=> q.slots[i] = Free \/ Over(q.slots[i])
  <2>1. CASE q.slots[i] = Free
    BY <1>3, <1>4, <2>1
  <2>2. CASE q.slots[i] # Free
    <3>1. q.slots[i] \in Dispatch(c)
      BY <1>1, <2>2
    <3> QED
      BY <1>3, <2>2, <3>1, ProcessedFacts
  <2> QED
    BY <2>1, <2>2
<1>6. over \in SUBSET (1 .. c.slots) /\ Freed(q) = Ascending(over)
  BY <1>1 DEF Freed
<1> HIDE DEF over
<1>7. /\ Freed(q) \in Seq(1 .. c.slots)
      /\ \A i, j \in DOMAIN Freed(q) : Freed(q)[i] = Freed(q)[j] => i = j
      /\ {Freed(q)[i] : i \in DOMAIN Freed(q)} = over
  <2>1. c.slots \in Nat /\ over \in SUBSET (1 .. c.slots)
    BY <1>1, <1>6
  <2>2. /\ Ascending(over) \in Seq(1 .. c.slots)
        /\ \A i, j \in DOMAIN Ascending(over) :
              Ascending(over)[i] = Ascending(over)[j] => i = j
        /\ {Ascending(over)[i] : i \in DOMAIN Ascending(over)} = over
    BY <2>1, AscendingFacts, Zenon
  <2> QED
    BY <1>6, <2>2, Zenon
<1>8. /\ Len(Freed(q)) \in Nat /\ DOMAIN Freed(q) = 1 .. Len(Freed(q))
  BY <1>7, SeqFacts
<1>10. p \in Queue(c)
  <2>1. q.open \o Freed(q) \in Seq(1 .. c.slots)
    BY <1>1, <1>7, ConcatFacts
  <2>2. [i \in DOMAIN q.slots |-> Processed(q.slots[i], q.config)]
           \in [1 .. c.slots -> Dispatch(c) \cup {Free}]
    BY <1>1, <1>3, <1>5
  <2>3. q.ended \cup {q.slots[i].task : i \in {i \in Busy(q) : Over(q.slots[i])}}
           \in SUBSET Names
    <3>1. ASSUME NEW i \in Busy(q) PROVE q.slots[i].task \in Names
      <4>1. q.slots[i] \in Dispatch(c)
        BY QueueFacts
      <4> QED
        BY <4>1 DEF Dispatch
    <3>2. q.ended \in SUBSET Names
      BY DEF Queue
    <3> QED
      BY <3>1, <3>2
  <2> QED
    BY <2>1, <2>2, <2>3 DEF process, Queue
<1>11. Busy(p) = {i \in Busy(q) : ~Over(q.slots[i])}
  BY <1>1, <1>3, <1>5 DEF Busy
<1>12. EachOpenOnce(p)
  <2> DEFINE m == Len(q.open)
             f == Len(Freed(q))
  <2>1. /\ DOMAIN p.open = 1 .. (m + f)
        /\ \A i \in 1 .. m : p.open[i] = q.open[i]
        /\ \A i \in 1 .. f : p.open[m + i] = Freed(q)[i]
    BY <1>1, <1>2, <1>7, ConcatFacts
  <2>2. ASSUME NEW i \in 1 .. (m + f), i \notin 1 .. m
        PROVE  i - m \in 1 .. f /\ p.open[i] = Freed(q)[i - m]
    <3>1. i - m \in 1 .. f /\ m + (i - m) = i
      BY <1>1, <1>8, <2>2
    <3> QED
      BY <2>1, <3>1
  <2>3. \A i \in 1 .. m : q.open[i] \in DOMAIN q.slots \ Busy(q)
    BY <1>1 DEF EachOpenOnce
  <2>4. \A i \in 1 .. f : Freed(q)[i] \in over
    BY <1>7, <1>8
  <2>5. over \subseteq Busy(q)
    BY DEF Busy, Over, over
  <2>6. ASSUME NEW i \in 1 .. (m + f), NEW j \in 1 .. (m + f), p.open[i] = p.open[j]
        PROVE  i = j
    <3>1. CASE i \in 1 .. m /\ j \in 1 .. m
      BY <1>1, <2>1, <2>6, <3>1 DEF EachOpenOnce
    <3>2. CASE i \in 1 .. m /\ j \notin 1 .. m
      <4>1. p.open[i] \notin Busy(q) /\ p.open[j] \in Busy(q)
        BY <2>1, <2>2, <2>3, <2>4, <2>5, <3>2
      <4> QED
        BY <2>6, <4>1
    <3>3. CASE i \notin 1 .. m /\ j \in 1 .. m
      <4>1. p.open[j] \notin Busy(q) /\ p.open[i] \in Busy(q)
        BY <2>1, <2>2, <2>3, <2>4, <2>5, <3>3
      <4> QED
        BY <2>6, <4>1
    <3>4. CASE i \notin 1 .. m /\ j \notin 1 .. m
      <4>1. /\ i - m \in 1 .. f /\ j - m \in 1 .. f
            /\ Freed(q)[i - m] = Freed(q)[j - m]
        BY <2>2, <2>6, <3>4
      <4>2. i - m = j - m
        BY <1>7, <1>8, <4>1
      <4> QED
        BY <1>1, <4>2
    <3> QED
      BY <3>1, <3>2, <3>3, <3>4
  <2>7. ASSUME NEW i \in 1 .. (m + f)
        PROVE  p.open[i] \in DOMAIN p.slots \ Busy(p)
    <3>1. CASE i \in 1 .. m
      BY <1>1, <1>3, <1>11, <2>1, <2>3, <3>1
    <3>2. CASE i \notin 1 .. m
      <4>1. p.open[i] \in over
        BY <2>2, <2>4, <3>2
      <4> QED
        BY <1>1, <1>3, <1>11, <4>1 DEF over
    <3> QED
      BY <3>1, <3>2
  <2>8. ASSUME NEW x \in DOMAIN p.slots \ Busy(p)
        PROVE  \E i \in 1 .. (m + f) : p.open[i] = x
    <3>1. CASE x \in over
      <4> PICK i \in 1 .. f : Freed(q)[i] = x
        BY <1>7, <1>8, <3>1
      <4>1. m + i \in 1 .. (m + f)
        BY <1>1, <1>8
      <4> QED
        BY <2>1, <4>1
    <3>2. CASE x \notin over
      <4>1. x \in DOMAIN q.slots \ Busy(q)
        BY <1>1, <1>3, <1>11, <3>2 DEF over
      <4> PICK i \in 1 .. m : q.open[i] = x
        BY <1>1, <4>1 DEF EachOpenOnce
      <4>2. i \in 1 .. (m + f)
        BY <1>1, <1>8
      <4> QED
        BY <2>1, <4>2
    <3> QED
      BY <3>1, <3>2
  <2>9. {p.open[i] : i \in DOMAIN p.open} = DOMAIN p.slots \ Busy(p)
    BY <2>1, <2>7, <2>8
  <2> QED
    BY <2>1, <2>6, <2>9 DEF EachOpenOnce
<1>13. RateOK(q) => RateOK(p)
  BY <1>2 DEF RateOK
<1> QED
  BY <1>2, <1>3, <1>10, <1>11, <1>12, <1>13

(* An outcome is written to the dispatch that it is of and no other         *)
(* (complete).                                                              *)
LEMMA CompletedQueue ==
    ASSUME NEW c \in Configs, NEW q \in Queue(c), NEW id, NEW delivered \in BOOLEAN
    PROVE  /\ complete(q, id, delivered) \in Queue(c)
           /\ EachOpenOnce(q) => EachOpenOnce(complete(q, id, delivered))
           /\ RateOK(q) => RateOK(complete(q, id, delivered))
           /\ complete(q, id, delivered).born = q.born
           /\ Busy(complete(q, id, delivered)) = Busy(q)
           /\ \A i \in Busy(q) :
                /\ complete(q, id, delivered).slots[i].id = q.slots[i].id
                /\ Matches(q.slots[i], id) =>
                      complete(q, id, delivered).slots[i].status # "Running"
                /\ ~Matches(q.slots[i], id) =>
                      complete(q, id, delivered).slots[i] = q.slots[i]
<1> DEFINE p == complete(q, id, delivered)
           settled(d) == IF Matches(d, id)
                         THEN IF delivered THEN [d EXCEPT !.status = "Finished"]
                              ELSE [d EXCEPT !.status = "Retry", !.last_run = 0]
                         ELSE d
<1>1. /\ c.max_backoff \in Nat /\ DOMAIN q.slots = 1 .. c.slots
      /\ \A i \in 1 .. c.slots : q.slots[i] \in Dispatch(c) \cup {Free}
      /\ Busy(q) \subseteq 1 .. c.slots
      /\ \A i \in Busy(q) : q.slots[i] \in Dispatch(c)
  BY ConfigFacts, QueueFacts
<1>2. /\ p.slots = [i \in DOMAIN q.slots |-> settled(q.slots[i])]
      /\ p.open = q.open /\ p.born = q.born /\ p.config = q.config
      /\ p.tokens = q.tokens /\ p.age = q.age /\ p.level = q.level
  BY DEF complete, Queue
<1>3. ASSUME NEW d \in Dispatch(c)
      PROVE  /\ settled(d) \in Dispatch(c) /\ settled(d) # Free /\ settled(d).id = d.id
             /\ Matches(d, id) => settled(d).status # "Running"
             /\ ~Matches(d, id) => settled(d) = d
  <2>1. 0 \in 0 .. c.max_backoff \cup {Never}
    BY <1>1
  <2>2. CASE Matches(d, id) /\ delivered
    <3>1. settled(d) = [d EXCEPT !.status = "Finished"]
      BY <2>2
    <3> QED
      BY <2>2, <3>1, FreeAssumption DEF Dispatch, Status
  <2>3. CASE Matches(d, id) /\ ~delivered
    <3>1. settled(d) = [d EXCEPT !.status = "Retry", !.last_run = 0]
      BY <2>3
    <3> QED
      BY <2>1, <2>3, <3>1, FreeAssumption DEF Dispatch, Status
  <2>4. CASE ~Matches(d, id)
    BY <2>4, FreeAssumption
  <2> QED
    BY <2>2, <2>3, <2>4
<1>4. settled(Free) = Free
  BY DEF Matches
<1> HIDE DEF settled
<1>5. \A i \in 1 .. c.slots : p.slots[i] = settled(q.slots[i])
  BY <1>1, <1>2
<1>6. ASSUME NEW i \in 1 .. c.slots
      PROVE  /\ p.slots[i] \in Dispatch(c) \cup {Free}
             /\ p.slots[i] = Free <=> q.slots[i] = Free
  BY <1>1, <1>3, <1>4, <1>5
<1>7. p \in Queue(c)
  <2>1. [i \in DOMAIN q.slots |-> settled(q.slots[i])]
           \in [1 .. c.slots -> Dispatch(c) \cup {Free}]
    BY <1>1, <1>5, <1>6
  <2> QED
    BY <2>1 DEF complete, Queue, settled
<1>8. DOMAIN p.slots = DOMAIN q.slots /\ Busy(p) = Busy(q)
  BY <1>1, <1>2, <1>6 DEF Busy
<1>9. EachOpenOnce(q) => EachOpenOnce(p)
  BY <1>2, <1>8 DEF EachOpenOnce
<1>10. RateOK(q) => RateOK(p)
  BY <1>2 DEF RateOK
<1>11. ASSUME NEW i \in Busy(q)
       PROVE  /\ p.slots[i].id = q.slots[i].id
              /\ Matches(q.slots[i], id) => p.slots[i].status # "Running"
              /\ ~Matches(q.slots[i], id) => p.slots[i] = q.slots[i]
  BY <1>1, <1>3, <1>5
<1> QED
  BY <1>2, <1>7, <1>8, <1>9, <1>10, <1>11

(* Time changes no dispatch but its instants, and drains the level as fast  *)
(* as it brings the next refill.                                            *)
LEMMA AgedQueue ==
    ASSUME NEW c \in Configs, NEW q \in Queue(c)
    PROVE  /\ Aged(q) \in Queue(c)
           /\ EachOpenOnce(q) => EachOpenOnce(Aged(q))
           /\ RateOK(q) => RateOK(Aged(q))
           /\ Aged(q).born = q.born
           /\ Busy(Aged(q)) = Busy(q)
           /\ \A i \in Busy(q) : /\ Aged(q).slots[i].id = q.slots[i].id
                                 /\ Aged(q).slots[i].status = q.slots[i].status
                                 /\ Aged(q).slots[i].attempt = q.slots[i].attempt
<1> DEFINE p == Aged(q)
<1>1. /\ c.max_backoff \in Nat /\ RetryAge(c) \in Nat /\ RefillAge(c) \in Nat
      /\ c.rate \in Nat /\ max_tokens(c) \in Nat /\ Second \in Nat \ {0}
  BY ConfigFacts
<1>2. /\ q.config = c /\ DOMAIN q.slots = 1 .. c.slots
      /\ \A i \in 1 .. c.slots : q.slots[i] \in Dispatch(c) \cup {Free}
      /\ Busy(q) \subseteq 1 .. c.slots
      /\ \A i \in Busy(q) : q.slots[i] \in Dispatch(c)
      /\ q.age \in Nat /\ q.level \in Nat /\ q.tokens \in Nat
  BY QueueFacts
<1>3. /\ p.slots = [i \in DOMAIN q.slots |-> AgedDispatch(q.slots[i], c)]
      /\ p.open = q.open /\ p.born = q.born /\ p.config = c
      /\ p.tokens = q.tokens /\ p.age = Older(q.age, RefillAge(c))
      /\ p.level = Most(q.level - c.rate, 0)
  BY <1>2 DEF Aged, Queue
<1>4. ASSUME NEW d \in Dispatch(c)
      PROVE  /\ AgedDispatch(d, c) \in Dispatch(c) /\ AgedDispatch(d, c) # Free /\ AgedDispatch(d, c).id = d.id
             /\ AgedDispatch(d, c).status = d.status /\ AgedDispatch(d, c).attempt = d.attempt
  <2>1. d # Free
    BY FreeAssumption
  <2> DEFINE ran == IF d.last_run = Never THEN Never ELSE Older(d.last_run, c.max_backoff)
             began == Older(d.started, RetryAge(c))
  <2>2. AgedDispatch(d, c) = [d EXCEPT !.last_run = ran, !.started = began]
    BY <2>1 DEF AgedDispatch
  <2>3. ran \in 0 .. c.max_backoff \cup {Never}
    <3>1. CASE d.last_run = Never
      BY <3>1
    <3>2. CASE d.last_run # Never
      <4>1. d.last_run \in 0 .. c.max_backoff
        BY <3>2 DEF Dispatch
      <4> QED
        BY <1>1, <3>2, <4>1 DEF Older, Least
    <3> QED
      BY <3>1, <3>2
  <2>4. began \in 0 .. RetryAge(c)
    <3>1. d.started \in 0 .. RetryAge(c)
      BY DEF Dispatch
    <3> QED
      BY <1>1, <3>1 DEF Older, Least
  <2> HIDE DEF ran, began
  <2>5. /\ AgedDispatch(d, c) \in Dispatch(c) /\ AgedDispatch(d, c).id = d.id
        /\ AgedDispatch(d, c).status = d.status /\ AgedDispatch(d, c).attempt = d.attempt
    BY <2>2, <2>3, <2>4 DEF Dispatch
  <2> QED
    BY <2>5, FreeAssumption
<1>5. AgedDispatch(Free, c) = Free
  BY DEF AgedDispatch
<1>6. \A i \in 1 .. c.slots : p.slots[i] = AgedDispatch(q.slots[i], c)
  BY <1>2, <1>3
<1>7. ASSUME NEW i \in 1 .. c.slots
      PROVE  /\ p.slots[i] \in Dispatch(c) \cup {Free}
             /\ p.slots[i] = Free <=> q.slots[i] = Free
  BY <1>2, <1>4, <1>5, <1>6
<1>8. p \in Queue(c)
  <2>1. [i \in DOMAIN q.slots |-> AgedDispatch(q.slots[i], c)]
           \in [1 .. c.slots -> Dispatch(c) \cup {Free}]
    BY <1>2, <1>6, <1>7
  <2>2. Older(q.age, RefillAge(c)) \in 0 .. RefillAge(c)
    BY <1>1, <1>2 DEF Older, Least
  <2>3. Most(q.level - c.rate, 0) \in Nat
    BY <1>1, <1>2 DEF Most
  <2>4. p = [q EXCEPT !.age = Older(q.age, RefillAge(c)),
                      !.level = Most(q.level - c.rate, 0),
                      !.slots = [i \in DOMAIN q.slots |-> AgedDispatch(q.slots[i], c)]]
    BY <1>2 DEF Aged
  <2> QED
    BY <2>1, <2>2, <2>3, <2>4 DEF Queue
<1> HIDE DEF p
<1>9. DOMAIN p.slots = DOMAIN q.slots /\ Busy(p) = Busy(q)
  BY <1>2, <1>3, <1>7 DEF Busy
<1>10. EachOpenOnce(q) => EachOpenOnce(p)
  BY <1>3, <1>9 DEF EachOpenOnce
<1>11. RateOK(q) => RateOK(p)
  <2> SUFFICES ASSUME RateOK(q), p.level # 0
               PROVE  p.level + p.tokens + c.rate * p.age
                         <= max_tokens(c) + c.rate * (Second - 1)
    BY <1>3 DEF RateOK
  <2>1. p.level = q.level - c.rate /\ q.level # 0
    BY <1>1, <1>2, <1>3 DEF Most
  <2>2. q.level + q.tokens + c.rate * q.age <= max_tokens(c) + c.rate * (Second - 1)
    BY <1>2, <2>1 DEF RateOK
  <2>3. p.age \in Nat /\ p.age <= q.age + 1
    BY <1>1, <1>2, <1>3 DEF Older, Least
  <2>4. /\ c.rate * p.age \in Nat /\ c.rate * q.age \in Nat
        /\ c.rate * p.age <= c.rate * q.age + c.rate
    <3>1. c.rate * p.age \in Nat /\ c.rate * p.age <= c.rate * (q.age + 1)
      BY <1>1, <1>2, <2>3, Multiples
    <3>2. c.rate * q.age \in Nat /\ c.rate * (q.age + 1) = c.rate * q.age + c.rate
      BY <1>1, <1>2, Multiples
    <3> QED
      BY <3>1, <3>2
  <2>5. c.rate * (Second - 1) \in Nat
    BY <1>1, Multiples
  <2> QED
    <3> DEFINE was == c.rate * q.age
               is == c.rate * p.age
               room == c.rate * (Second - 1)
    <3>1. was \in Nat /\ is \in Nat /\ room \in Nat /\ is <= was + c.rate
      BY <2>4, <2>5
    <3>2. q.level + q.tokens + was <= max_tokens(c) + room
      BY <2>2
    <3> HIDE DEF was, is, room
    <3>3. (q.level - c.rate) + q.tokens + is <= max_tokens(c) + room
      BY <1>1, <1>2, <3>1, <3>2
    <3> QED
      BY <1>3, <2>1, <3>3 DEF is, room
<1>12. ASSUME NEW i \in Busy(q)
       PROVE  /\ p.slots[i].id = q.slots[i].id
              /\ p.slots[i].status = q.slots[i].status
              /\ p.slots[i].attempt = q.slots[i].attempt
  BY <1>2, <1>4, <1>6
<1> QED
  BY <1>3, <1>8, <1>9, <1>10, <1>11, <1>12 DEF p

-----------------------------------------------------------------------------
(* Dispatches and their requests.                                           *)

(* The ids of the dispatches that dispatch_tasks makes are new, so that no  *)
(* request under way has one of them.                                       *)
LEMMA DispatchIds ==
    ASSUME NEW c \in Configs, NEW q \in Queue(c), NEW next \in Nat, EachOpenOnce(q),
           \A i \in Busy(q) : q.slots[i].id <= next,
           \A i, j \in Busy(q) : q.slots[i].id = q.slots[j].id => i = j,
           NEW p, p = dispatch_tasks(q, next)
    PROVE  /\ \A i \in Busy(p) :
                /\ p.slots[i].id \in Nat /\ p.slots[i].id <= next + Dispatched(q)
                /\ \/ i \in Busy(q) /\ p.slots[i] = q.slots[i]
                   \/ p.slots[i].id > next /\ p.slots[i].status = "NotStarted"
           /\ \A i, j \in Busy(p) : p.slots[i].id = p.slots[j].id => i = j
<1> DEFINE n == Dispatched(q)
           fresh(i, j) == /\ q.open[Len(q.open) + 1 - j] = i
                          /\ p.slots[i] = NewDispatch(next + j, q.pending[j])
<1>1. n \in Nat /\ \A i \in Busy(q) : q.slots[i].id \in Nat
  <2>1. \A i \in Busy(q) : q.slots[i] \in Dispatch(c)
    BY QueueFacts
  <2> QED
    BY <2>1, DispatchedFacts DEF Dispatch
<1>2. ASSUME NEW i \in Busy(p)
      PROVE  \/ i \in Busy(q) /\ p.slots[i] = q.slots[i]
             \/ \E j \in 1 .. n : fresh(i, j)
  BY DispatchBusy
<1> HIDE DEF n
<1>3. ASSUME NEW i, NEW j \in 1 .. n, fresh(i, j)
      PROVE  p.slots[i].id = next + j /\ p.slots[i].status = "NotStarted"
  BY <1>3 DEF NewDispatch
<1>4. ASSUME NEW i \in Busy(p)
      PROVE  /\ p.slots[i].id \in Nat /\ p.slots[i].id <= next + n
             /\ \/ i \in Busy(q) /\ p.slots[i] = q.slots[i]
                \/ p.slots[i].id > next /\ p.slots[i].status = "NotStarted"
  <2>1. CASE i \in Busy(q) /\ p.slots[i] = q.slots[i]
    BY <1>1, <2>1
  <2>2. CASE \E j \in 1 .. n : fresh(i, j)
    <3> PICK j \in 1 .. n : fresh(i, j)
      BY <2>2
    <3>1. p.slots[i].id = next + j /\ p.slots[i].status = "NotStarted"
      BY <1>3
    <3> QED
      BY <1>1, <3>1
  <2> QED
    BY <1>2, <2>1, <2>2
<1>5. ASSUME NEW i \in Busy(p), NEW j \in Busy(p), p.slots[i].id = p.slots[j].id
      PROVE  i = j
  <2>1. CASE p.slots[i].id <= next
    <3>1. /\ i \in Busy(q) /\ p.slots[i] = q.slots[i]
          /\ j \in Busy(q) /\ p.slots[j] = q.slots[j]
      BY <1>4, <1>5, <2>1
    <3> QED
      BY <1>5, <3>1
  <2>2. CASE p.slots[i].id > next
    <3> PICK a \in 1 .. n : fresh(i, a)
      BY <1>1, <1>2, <2>2
    <3> PICK b \in 1 .. n : fresh(j, b)
      BY <1>1, <1>2, <1>5, <2>2
    <3>1. p.slots[i].id = next + a
      BY <1>3
    <3>2. p.slots[j].id = next + b
      BY <1>3
    <3>3. a = b
      BY <1>1, <1>5, <3>1, <3>2
    <3> QED
      BY <3>3
  <2> QED
    BY <1>4, <2>1, <2>2
<1> QED
  BY <1>4, <1>5 DEF n

(* Process makes one request for each dispatch that it starts, none of      *)
(* which had one.                                                           *)
LEMMA ProcessedRequests ==
    ASSUME NEW c \in Configs, NEW q \in Queue(c), EachOpenOnce(q), NEW k, NEW under_way,
           OwnRequests(k, q, under_way),
           \A i, j \in Busy(q) : q.slots[i].id = q.slots[j].id => i = j
    PROVE  /\ OwnRequests(k, process(q), under_way \cup Made(k, q))
           /\ \A i \in Busy(process(q)) :
                 i \in Busy(q) /\ process(q).slots[i].id = q.slots[i].id
<1> DEFINE p == process(q)
<1>1. /\ p.born = q.born /\ Busy(p) \subseteq Busy(q)
      /\ \A i \in Busy(p) : /\ ~Over(q.slots[i])
                            /\ p.slots[i] = Processed(q.slots[i], c)
                            /\ q.slots[i] \in Dispatch(c) /\ q.slots[i] # Free
  BY ProcessedQueue, QueueFacts
<1> HIDE DEF p
<1>2. ASSUME NEW i \in Busy(p)
      PROVE  /\ p.slots[i].id = q.slots[i].id
             /\ p.slots[i].status = "Running"
                   <=> Starts(q.slots[i]) \/ q.slots[i].status = "Running"
             /\ p.slots[i].status = "Running" => p.slots[i].attempt = q.slots[i].attempt
  BY <1>1, ProcessedFacts
<1>3. ASSUME NEW i \in Busy(p)
      PROVE  {r \in under_way \cup Made(k, q) : r.id = p.slots[i].id}
                = IF p.slots[i].status = "Running" THEN {Request(k, p, p.slots[i])} ELSE {}
  <2> DEFINE d == q.slots[i]
  <2>1. i \in Busy(q)
    BY <1>1
  <2>2. {r \in under_way : r.id = d.id}
           = IF d.status = "Running" THEN {Request(k, q, d)} ELSE {}
    BY <2>1 DEF OwnRequests
  <2>3. {r \in Made(k, q) : r.id = d.id} = IF Starts(d) THEN {Request(k, q, d)} ELSE {}
    BY <2>1 DEF Made, Request
  <2>4. {r \in under_way \cup Made(k, q) : r.id = d.id}
           = {r \in under_way : r.id = d.id} \cup {r \in Made(k, q) : r.id = d.id}
    OBVIOUS
  <2>5. p.slots[i].status = "Running" => Request(k, p, p.slots[i]) = Request(k, q, d)
    BY <1>1, <1>2 DEF Request
  <2>6. p.slots[i].id = d.id
    BY <1>2
  <2>7. CASE Starts(d)
    <3>1. d.status # "Running" /\ p.slots[i].status = "Running"
      BY <1>2, <2>7 DEF Starts
    <3> QED
      BY <2>2, <2>3, <2>4, <2>5, <2>6, <2>7, <3>1
  <2>8. CASE ~Starts(d)
    <3>1. p.slots[i].status = "Running" <=> d.status = "Running"
      BY <1>2, <2>8
    <3> QED
      BY <2>2, <2>3, <2>4, <2>5, <2>6, <2>8, <3>1
  <2> QED
    BY <2>7, <2>8
<1>4. OwnRequests(k, p, under_way \cup Made(k, q))
  BY <1>3 DEF OwnRequests
<1> QED
  BY <1>1, <1>2, <1>4 DEF p

-----------------------------------------------------------------------------
(* The steps.                                                               *)

(* The ids of dispatches are numbers. *)
LEMMA SlotIds ==
    ASSUME TypeOK, NEW k \in DOMAIN queues, NEW i \in Busy(queues[k])
    PROVE  queues[k].slots[i].id \in Nat
<1> PICK c \in Configs : queues[k] \in Queue(c)
  BY DEF TypeOK
<1>1. queues[k].slots[i] \in Dispatch(c)
  BY QueueFacts
<1> QED
  BY <1>1 DEF Dispatch

(* A step that changes neither the dispatches of a queue nor their requests *)
(* leaves each its own.                                                     *)
LEMMA OtherRequests ==
    ASSUME NEW k, NEW q, NEW p, NEW under_way, NEW now,
           OwnRequests(k, q, under_way), Busy(p) = Busy(q), p.born = q.born,
           \A i \in Busy(q) : /\ p.slots[i].id = q.slots[i].id
                              /\ p.slots[i].status = q.slots[i].status
                              /\ p.slots[i].attempt = q.slots[i].attempt,
           \A i \in Busy(q) : \A r \in now \cup under_way :
              r.id = q.slots[i].id => (r \in now <=> r \in under_way)
    PROVE  OwnRequests(k, p, now)
<1> SUFFICES ASSUME NEW i \in Busy(q)
             PROVE  {r \in now : r.id = p.slots[i].id}
                       = IF p.slots[i].status = "Running"
                         THEN {Request(k, p, p.slots[i])} ELSE {}
  BY DEF OwnRequests
<1>1. {r \in now : r.id = p.slots[i].id} = {r \in under_way : r.id = q.slots[i].id}
  OBVIOUS
<1>2. Request(k, p, p.slots[i]) = Request(k, q, q.slots[i])
  BY DEF Request
<1> QED
  BY <1>1, <1>2 DEF OwnRequests

(* A step that writes one queue, keeps the invariant if the queue has its   *)
(* type, its slots and rate in order, and ids and requests of its own.      *)
LEMMA OneQueue ==
    ASSUME IInv, NEW k \in QueueKeys, NEW c \in Configs, NEW x \in Queue(c),
           EachOpenOnce(x), RateOK(x),
           DOMAIN queues' = DOMAIN queues \cup {k}, queues'[k] = x,
           \A l \in DOMAIN queues \ {k} : queues'[l] = queues[l],
           order' \in Seq(DOMAIN queues'),
           next_dispatch' \in Nat, next_dispatch <= next_dispatch',
           requests' \in SUBSET [key : DOMAIN queues', id : Nat, attempt : Nat, born : Nat],
           ticker' \in BOOLEAN, turn' \in Nat \ {0},
           refresh' \in [key : QueueKeys, config : Configs] \cup {Idle},
           registrations' \in Nat,
           \A r \in requests' : r.id <= next_dispatch',
           \A i \in Busy(x) : x.slots[i].id <= next_dispatch',
           \A i, j \in Busy(x) : x.slots[i].id = x.slots[j].id => i = j,
           \A l \in DOMAIN queues \ {k} : \A i \in Busy(x), j \in Busy(queues[l]) :
              x.slots[i].id # queues[l].slots[j].id,
           OwnRequests(k, x, requests'),
           \A l \in DOMAIN queues \ {k} : OwnRequests(l, queues[l], requests')
    PROVE  IInv'
<1>1. ASSUME NEW l \in DOMAIN queues'
      PROVE  \/ l = k /\ queues'[l] = x
             \/ l \in DOMAIN queues \ {k} /\ queues'[l] = queues[l]
  <2>1. CASE l = k
    BY <2>1
  <2>2. CASE l # k
    <3>1. l \in DOMAIN queues \ {k}
      BY <2>2
    <3> QED
      BY <3>1
  <2> QED
    BY <2>1, <2>2
<1>2. TypeOK'
  <2>1. \A l \in DOMAIN queues' : \E d \in Configs : queues'[l] \in Queue(d)
    BY <1>1 DEF IInv, TypeOK
  <2>2. DOMAIN queues' \in SUBSET QueueKeys
    BY DEF IInv, TypeOK
  <2> QED
    BY <2>1, <2>2 DEF TypeOK
<1>3. SlotsAccounted'
  BY <1>1 DEF IInv, SlotsAccounted
<1>4. OutcomesAreOwn'
  BY <1>1 DEF IInv, OutcomesAreOwn
<1>5. \A l \in DOMAIN queues' : RateOK(queues'[l])
  BY <1>1 DEF IInv
<1>6. IdsOK'
  <2>1. ASSUME NEW l \in DOMAIN queues', NEW i \in Busy(queues'[l])
        PROVE  queues'[l].slots[i].id <= next_dispatch'
    <3>1. CASE l = k
      BY <2>1, <3>1
    <3>2. CASE l # k
      <4>1. l \in DOMAIN queues /\ queues'[l] = queues[l] /\ i \in Busy(queues[l])
        BY <1>1, <2>1, <3>2
      <4>2. queues[l].slots[i].id <= next_dispatch
        BY <4>1 DEF IInv, IdsOK
      <4>3. queues[l].slots[i].id \in Nat /\ next_dispatch \in Nat
        BY <4>1, SlotIds DEF IInv, TypeOK
      <4> QED
        BY <4>1, <4>2, <4>3
    <3> QED
      BY <3>1, <3>2
  <2>2. ASSUME NEW l \in DOMAIN queues', NEW m \in DOMAIN queues',
               NEW i \in Busy(queues'[l]), NEW j \in Busy(queues'[m]),
               queues'[l].slots[i].id = queues'[m].slots[j].id
        PROVE  l = m /\ i = j
    <3>1. CASE l = k /\ m = k
      BY <2>2, <3>1
    <3>2. CASE l = k /\ m # k
      BY <1>1, <2>2, <3>2
    <3>3. CASE l # k /\ m = k
      BY <1>1, <2>2, <3>3
    <3>4. CASE l # k /\ m # k
      BY <1>1, <2>2, <3>4 DEF IInv, IdsOK
    <3> QED
      BY <3>1, <3>2, <3>3, <3>4
  <2> QED
    BY <2>1, <2>2 DEF IdsOK, Busy
<1> QED
  BY <1>2, <1>3, <1>4, <1>5, <1>6 DEF IInv

(* What the invariant says of one queue. *)
LEMMA QueueOf ==
    ASSUME IInv, NEW k \in DOMAIN queues
    PROVE  /\ k \in QueueKeys
           /\ \E c \in Configs : queues[k] \in Queue(c)
           /\ EachOpenOnce(queues[k]) /\ RateOK(queues[k])
           /\ OwnRequests(k, queues[k], requests)
           /\ \A i \in Busy(queues[k]) : queues[k].slots[i].id <= next_dispatch
           /\ \A i, j \in Busy(queues[k]) :
                 queues[k].slots[i].id = queues[k].slots[j].id => i = j
  BY DEF IInv, TypeOK, SlotsAccounted, OutcomesAreOwn, IdsOK

(* A step that changes no dispatch and no request. *)
LEMMA QuietStep ==
    ASSUME IInv, NEW k \in DOMAIN queues, NEW c \in Configs, NEW x \in Queue(c),
           EachOpenOnce(x), RateOK(x),
           x.slots = queues[k].slots, x.born = queues[k].born,
           queues' = [queues EXCEPT ![k] = x],
           UNCHANGED <<order, next_dispatch, requests, refresh, registrations>>,
           ticker' \in BOOLEAN, turn' \in Nat \ {0}
    PROVE  IInv'
<1>1. /\ DOMAIN queues' = DOMAIN queues \cup {k} /\ queues'[k] = x
      /\ \A l \in DOMAIN queues \ {k} : queues'[l] = queues[l]
      /\ DOMAIN queues' = DOMAIN queues
  OBVIOUS
<1>2. Busy(x) = Busy(queues[k])
  BY DEF Busy
<1>3. OwnRequests(k, x, requests)
  BY <1>2, QueueOf DEF OwnRequests, Request
<1>4. /\ \A i \in Busy(x) : x.slots[i].id <= next_dispatch
      /\ \A i, j \in Busy(x) : x.slots[i].id = x.slots[j].id => i = j
  BY <1>2, QueueOf
<1>5. \A l \in DOMAIN queues \ {k} : \A i \in Busy(x), j \in Busy(queues[l]) :
         x.slots[i].id # queues[l].slots[j].id
  BY <1>2 DEF IInv, IdsOK
<1>6. \A l \in DOMAIN queues \ {k} : OwnRequests(l, queues[l], requests)
  BY QueueOf
<1>7. /\ order' \in Seq(DOMAIN queues') /\ next_dispatch' \in Nat
      /\ next_dispatch <= next_dispatch'
      /\ requests' \in SUBSET [key : DOMAIN queues', id : Nat, attempt : Nat, born : Nat]
      /\ refresh' \in [key : QueueKeys, config : Configs] \cup {Idle}
      /\ registrations' \in Nat
      /\ \A r \in requests' : r.id <= next_dispatch'
  BY <1>1 DEF IInv, TypeOK, IdsOK
<1> QED
  BY <1>1, <1>3, <1>4, <1>5, <1>6, <1>7, QueueOf, OneQueue

(* Registering a queue, for the first time or in the place of another. *)
LEMMA RegisterStep ==
    ASSUME IInv, NEW k \in QueueKeys, NEW c \in Configs, register_queue(k, c),
           refresh' \in [key : QueueKeys, config : Configs] \cup {Idle}
    PROVE  IInv'
<1>1. registrations \in Nat /\ order \in Seq(DOMAIN queues)
  BY DEF IInv, TypeOK
<1>2. /\ New(c) \in Queue(c) /\ Busy(New(c)) = {}
      /\ EachOpenOnce(New(c)) /\ RateOK(New(c))
  BY <1>1, NewQueue
<1>3. /\ DOMAIN queues' = DOMAIN queues \cup {k} /\ queues'[k] = New(c)
      /\ \A l \in DOMAIN queues \ {k} : queues'[l] = queues[l]
  BY DEF register_queue
<1>4. order' \in Seq(DOMAIN queues')
  <2>1. order \in Seq(DOMAIN queues')
    BY <1>1, <1>3
  <2>2. Append(order, k) \in Seq(DOMAIN queues')
    BY <1>3, <2>1
  <2> QED
    BY <2>1, <2>2 DEF register_queue
<1>5. OwnRequests(k, New(c), requests)
  BY <1>2 DEF OwnRequests
<1>6. \A l \in DOMAIN queues \ {k} : OwnRequests(l, queues[l], requests)
  BY QueueOf
<1>7. /\ next_dispatch' = next_dispatch /\ requests' = requests
      /\ next_dispatch \in Nat /\ next_dispatch <= next_dispatch
      /\ requests \in SUBSET [key : DOMAIN queues', id : Nat, attempt : Nat, born : Nat]
      /\ ticker' \in BOOLEAN /\ turn' \in Nat \ {0} /\ registrations' \in Nat
      /\ \A r \in requests : r.id <= next_dispatch
  BY <1>1, <1>3 DEF register_queue, IInv, TypeOK, IdsOK
<1>8. /\ \A i \in Busy(New(c)) : New(c).slots[i].id <= next_dispatch
      /\ \A i, j \in Busy(New(c)) : New(c).slots[i].id = New(c).slots[j].id => i = j
      /\ \A l \in DOMAIN queues \ {k} : \A i \in Busy(New(c)), j \in Busy(queues[l]) :
            New(c).slots[i].id # queues[l].slots[j].id
  BY <1>2
<1> DEFINE x == New(c)
<1> HIDE DEF x
<1>9. /\ x \in Queue(c) /\ EachOpenOnce(x) /\ RateOK(x) /\ queues'[k] = x
      /\ OwnRequests(k, x, requests')
      /\ \A i \in Busy(x) : x.slots[i].id <= next_dispatch'
      /\ \A i, j \in Busy(x) : x.slots[i].id = x.slots[j].id => i = j
      /\ \A l \in DOMAIN queues \ {k} : \A i \in Busy(x), j \in Busy(queues[l]) :
            x.slots[i].id # queues[l].slots[j].id
  BY <1>2, <1>3, <1>5, <1>7, <1>8 DEF x
<1> QED
  BY <1>3, <1>4, <1>6, <1>7, <1>9, OneQueue

(* Accepting or refusing a task. *)
LEMMA EnqueueStep ==
    ASSUME IInv, NEW k \in QueueKeys, NEW n \in Names, enqueue(k, n)
    PROVE  IInv'
<1>1. /\ UNCHANGED <<order, next_dispatch, requests, refresh, registrations>>
      /\ ticker' \in BOOLEAN /\ turn' \in Nat \ {0}
  BY DEF enqueue, IInv, TypeOK
<1>2. CASE Known(k) /\ Accepts(queues[k], n)
  <2>1. k \in DOMAIN queues /\ queues' = [queues EXCEPT ![k] = Enqueued(queues[k], n)]
    BY <1>2 DEF enqueue, Known
  <2> PICK c \in Configs : queues[k] \in Queue(c)
    BY <2>1, QueueOf
  <2>2. /\ Enqueued(queues[k], n) \in Queue(c)
        /\ EachOpenOnce(Enqueued(queues[k], n)) /\ RateOK(Enqueued(queues[k], n))
        /\ Enqueued(queues[k], n).slots = queues[k].slots
        /\ Enqueued(queues[k], n).born = queues[k].born
    BY <2>1, QueueOf, EnqueuedQueue
  <2> QED
    BY <1>1, <2>1, <2>2, QuietStep
<1>3. CASE ~(Known(k) /\ Accepts(queues[k], n))
  <2>1. queues' = queues
    BY <1>3 DEF enqueue
  <2> QED
    BY <1>1, <2>1 DEF IInv, TypeOK, SlotsAccounted, OutcomesAreOwn, IdsOK
<1> QED
  BY <1>2, <1>3

(* Deleting a task. *)
LEMMA RemoveStep ==
    ASSUME IInv, NEW k \in QueueKeys, NEW n \in Names, remove(k, n)
    PROVE  IInv'
<1>1. /\ UNCHANGED <<order, next_dispatch, requests, refresh, registrations>>
      /\ ticker' \in BOOLEAN /\ turn' \in Nat \ {0}
      /\ k \in DOMAIN queues /\ queues' = [queues EXCEPT ![k] = Removed(queues[k], n)]
  BY DEF remove, Known, IInv, TypeOK
<1> PICK c \in Configs : queues[k] \in Queue(c)
  BY <1>1, QueueOf
<1>2. /\ Removed(queues[k], n) \in Queue(c)
      /\ EachOpenOnce(Removed(queues[k], n)) /\ RateOK(Removed(queues[k], n))
      /\ Removed(queues[k], n).slots = queues[k].slots
      /\ Removed(queues[k], n).born = queues[k].born
  BY <1>1, QueueOf, RemovedQueue
<1> QED
  BY <1>1, <1>2, QuietStep

(* The visit of the tick to one queue: new dispatches have ids beyond those *)
(* in use anywhere, and each dispatch that starts gets the one request that *)
(* it lacked.                                                               *)
LEMMA TickStep ==
    ASSUME IInv, tick
    PROVE  IInv'
<1> DEFINE k == order[turn]
           q == refill_tokens(queues[k])
           p == dispatch_tasks(q, next_dispatch)
           x == process(p)
           n == Dispatched(q)
<1>1. /\ k \in DOMAIN queues /\ next_dispatch \in Nat
      /\ turn' \in Nat \ {0} /\ ticker' \in BOOLEAN
      /\ UNCHANGED <<order, refresh, registrations>>
  <2>1. order \in Seq(DOMAIN queues) /\ turn \in DOMAIN order /\ turn \in Nat \ {0}
    BY DEF tick, IInv, TypeOK
  <2>2. k \in DOMAIN queues
    BY <2>1, SeqFacts
  <2> QED
    BY <2>1, <2>2 DEF tick, IInv, TypeOK
<1> PICK c \in Configs : queues[k] \in Queue(c)
  BY <1>1, QueueOf
<1>2. /\ q \in Queue(c) /\ q.age < Second
      /\ q.slots = queues[k].slots /\ q.born = queues[k].born
      /\ EachOpenOnce(q) /\ RateOK(q) /\ Busy(q) = Busy(queues[k])
  <2>1. /\ q \in Queue(c) /\ q.age < Second
        /\ q.slots = queues[k].slots /\ q.born = queues[k].born
        /\ EachOpenOnce(q) /\ RateOK(q)
    BY <1>1, QueueOf, RefilledQueue
  <2> QED
    BY <2>1 DEF Busy
<1>3. CASE ~is_active(q)
  <2>1. /\ queues' = [queues EXCEPT ![k] = q]
        /\ next_dispatch' = next_dispatch /\ requests' = requests
    BY <1>3 DEF tick
  <2> HIDE DEF k, q
  <2> QED
    BY <1>1, <1>2, <2>1, QuietStep
<1>4. CASE is_active(q)
  <2>1. /\ queues' = [queues EXCEPT ![k] = x]
        /\ next_dispatch' = next_dispatch + n
        /\ requests' = requests \cup Made(k, p)
    BY <1>4 DEF tick
  <2>2. n \in Nat
    BY <1>2, DispatchedFacts
  <2>3. p \in Queue(c) /\ EachOpenOnce(p) /\ RateOK(p) /\ p.born = q.born
    BY <1>1, <1>2, DispatchedQueue
  <2>4. /\ x \in Queue(c) /\ EachOpenOnce(x) /\ RateOK(x)
    BY <2>3, ProcessedQueue
  <2>5. /\ OwnRequests(k, q, requests)
        /\ \A i \in Busy(q) : q.slots[i].id <= next_dispatch
        /\ \A i, j \in Busy(q) : q.slots[i].id = q.slots[j].id => i = j
    <3> HIDE DEF q
    <3>1. /\ \A i \in Busy(q) : q.slots[i].id <= next_dispatch
          /\ \A i, j \in Busy(q) : q.slots[i].id = q.slots[j].id => i = j
      BY <1>1, <1>2, QueueOf
    <3>2. OwnRequests(k, queues[k], requests)
      BY <1>1, QueueOf
    <3>3. OwnRequests(k, q, requests)
      BY <1>2, <3>2 DEF OwnRequests, Request
    <3> QED
      BY <3>1, <3>3
  <2>6. /\ \A i \in Busy(p) :
             /\ p.slots[i].id \in Nat /\ p.slots[i].id <= next_dispatch + n
             /\ \/ i \in Busy(q) /\ p.slots[i] = q.slots[i]
                \/ p.slots[i].id > next_dispatch /\ p.slots[i].status = "NotStarted"
        /\ \A i, j \in Busy(p) : p.slots[i].id = p.slots[j].id => i = j
    BY <1>1, <1>2, <2>5, DispatchIds
  <2> HIDE DEF k, q, n
  <2>7. \A r \in requests : r.id \in Nat /\ r.id <= next_dispatch
    BY DEF IInv, TypeOK, IdsOK
  <2>8. OwnRequests(k, p, requests)
    <3> HIDE DEF p
    <3> SUFFICES ASSUME NEW i \in Busy(p)
                 PROVE  {r \in requests : r.id = p.slots[i].id}
                           = IF p.slots[i].status = "Running"
                             THEN {Request(k, p, p.slots[i])} ELSE {}
      BY DEF OwnRequests
    <3>1. CASE i \in Busy(q) /\ p.slots[i] = q.slots[i]
      BY <2>3, <2>5, <3>1 DEF OwnRequests, Request
    <3>2. CASE p.slots[i].id > next_dispatch /\ p.slots[i].status = "NotStarted"
      <4>1. \A r \in requests : r.id # p.slots[i].id
        BY <1>1, <2>6, <2>7, <3>2
      <4> QED
        BY <3>2, <4>1
    <3> QED
      BY <2>6, <3>1, <3>2
  <2>9. /\ OwnRequests(k, x, requests')
        /\ \A i \in Busy(x) : i \in Busy(p) /\ x.slots[i].id = p.slots[i].id
    BY <2>1, <2>3, <2>6, <2>8, ProcessedRequests
  <2> HIDE DEF p, x
  <2>10. ASSUME NEW l \in DOMAIN queues \ {k}, NEW i \in Busy(p), NEW j \in Busy(queues[l])
         PROVE  p.slots[i].id # queues[l].slots[j].id
    <3>1. CASE i \in Busy(q) /\ p.slots[i] = q.slots[i]
      BY <1>1, <1>2, <3>1 DEF IInv, IdsOK
    <3>2. CASE p.slots[i].id > next_dispatch
      <4>1. queues[l].slots[j].id <= next_dispatch /\ queues[l].slots[j].id \in Nat
        BY QueueOf, SlotIds DEF IInv
      <4> QED
        BY <1>1, <2>6, <3>2, <4>1
    <3> QED
      BY <2>6, <3>1, <3>2
  <2>11. \A r \in Made(k, p) : \E i \in Busy(p) : r = Request(k, p, p.slots[i])
    BY DEF Made
  <2>12. ASSUME NEW l \in DOMAIN queues \ {k}
         PROVE  OwnRequests(l, queues[l], requests')
    <3>1. ASSUME NEW j \in Busy(queues[l]), NEW r \in Made(k, p)
          PROVE  r.id # queues[l].slots[j].id
      <4> PICK i \in Busy(p) : r = Request(k, p, p.slots[i])
        BY <2>11
      <4> QED
        BY <2>10 DEF Request
    <3>2. OwnRequests(l, queues[l], requests)
      BY QueueOf
    <3> QED
      BY <2>1, <3>1, <3>2 DEF OwnRequests
  <2>13. /\ requests' \in SUBSET [key : DOMAIN queues, id : Nat, attempt : Nat, born : Nat]
         /\ \A r \in requests' : r.id <= next_dispatch + n
    <3>1. ASSUME NEW r \in Made(k, p)
          PROVE  /\ r \in [key : DOMAIN queues, id : Nat, attempt : Nat, born : Nat]
                 /\ r.id <= next_dispatch + n
      <4> PICK i \in Busy(p) : r = Request(k, p, p.slots[i])
        BY <2>11
      <4>1. p.slots[i] \in Dispatch(c) /\ p.born \in Nat
        BY <2>3, QueueFacts
      <4>2. p.slots[i].attempt \in Nat
        BY <4>1 DEF Dispatch
      <4> QED
        BY <1>1, <2>6, <4>1, <4>2 DEF Request
    <3>2. requests \in SUBSET [key : DOMAIN queues, id : Nat, attempt : Nat, born : Nat]
      BY DEF IInv, TypeOK
    <3>3. \A r \in requests : r.id <= next_dispatch + n
      BY <1>1, <2>2, <2>7
    <3> QED
      BY <2>1, <3>1, <3>2, <3>3
  <2>14. /\ DOMAIN queues' = DOMAIN queues \cup {k} /\ queues'[k] = x
         /\ \A l \in DOMAIN queues \ {k} : queues'[l] = queues[l]
         /\ DOMAIN queues' = DOMAIN queues
    BY <1>1, <2>1
  <2>15. /\ next_dispatch' \in Nat /\ next_dispatch <= next_dispatch'
         /\ \A r \in requests' : r.id <= next_dispatch'
         /\ \A i \in Busy(x) : x.slots[i].id <= next_dispatch'
    BY <1>1, <2>1, <2>2, <2>6, <2>9, <2>13
  <2>16. /\ \A i, j \in Busy(x) : x.slots[i].id = x.slots[j].id => i = j
         /\ \A l \in DOMAIN queues \ {k} : \A i \in Busy(x), j \in Busy(queues[l]) :
               x.slots[i].id # queues[l].slots[j].id
    BY <2>6, <2>9, <2>10
  <2>17. /\ order' \in Seq(DOMAIN queues')
         /\ requests' \in SUBSET [key : DOMAIN queues', id : Nat, attempt : Nat, born : Nat]
         /\ refresh' \in [key : QueueKeys, config : Configs] \cup {Idle}
         /\ registrations' \in Nat /\ k \in QueueKeys
    BY <1>1, <2>13, <2>14 DEF IInv, TypeOK
  <2> QED
    BY <1>1, <2>4, <2>9, <2>12, <2>14, <2>15, <2>16, <2>17, OneQueue
<1> QED
  BY <1>3, <1>4

(* An outcome arrives: it settles the one dispatch that has its id, and     *)
(* that dispatch runs the attempt that the request was made for.            *)
LEMMA RunStep ==
    ASSUME IInv, NEW r \in requests, NEW delivered \in BOOLEAN, run(r, delivered)
    PROVE  IInv'
<1> DEFINE k == r.key
           q == queues[k]
           x == complete(q, r.id, delivered)
<1>1. /\ k \in DOMAIN queues /\ r.id \in Nat
      /\ requests' = requests \ {r} /\ queues' = [queues EXCEPT ![k] = x]
      /\ UNCHANGED <<order, next_dispatch, ticker, turn, refresh, registrations>>
  BY DEF run, IInv, TypeOK
<1> PICK c \in Configs : queues[k] \in Queue(c)
  BY <1>1, QueueOf
<1>2. EachOpenOnce(q) /\ RateOK(q) /\ OwnRequests(k, q, requests)
  BY <1>1, QueueOf
<1>3. /\ x \in Queue(c) /\ EachOpenOnce(x) /\ RateOK(x)
      /\ x.born = q.born /\ Busy(x) = Busy(q)
      /\ \A i \in Busy(q) :
           /\ x.slots[i].id = q.slots[i].id
           /\ Matches(q.slots[i], r.id) => x.slots[i].status # "Running"
           /\ ~Matches(q.slots[i], r.id) => x.slots[i] = q.slots[i]
  BY <1>2, CompletedQueue
<1> HIDE DEF x
<1>4. ASSUME NEW l \in DOMAIN queues, NEW i \in Busy(queues[l]), queues[l].slots[i].id = r.id
      PROVE  queues[l].slots[i].status = "Running" /\ r = Request(l, queues[l], queues[l].slots[i])
  <2>1. OwnRequests(l, queues[l], requests)
    BY QueueOf
  <2>2. r \in {s \in requests : s.id = queues[l].slots[i].id}
    BY <1>4
  <2> QED
    BY <2>1, <2>2 DEF OwnRequests
<1>5. OwnRequests(k, x, requests')
  <2> SUFFICES ASSUME NEW i \in Busy(q)
               PROVE  {s \in requests' : s.id = x.slots[i].id}
                         = IF x.slots[i].status = "Running"
                           THEN {Request(k, x, x.slots[i])} ELSE {}
    BY <1>3 DEF OwnRequests
  <2>1. {s \in requests : s.id = q.slots[i].id}
           = IF q.slots[i].status = "Running" THEN {Request(k, q, q.slots[i])} ELSE {}
    BY <1>2 DEF OwnRequests
  <2>2. x.slots[i].id = q.slots[i].id
    BY <1>3
  <2>3. CASE q.slots[i].id = r.id
    <3>1. q.slots[i].status = "Running" /\ r = Request(k, q, q.slots[i])
      BY <1>1, <1>4, <2>3
    <3>2. Matches(q.slots[i], r.id)
      BY <2>3, <3>1 DEF Matches, Busy
    <3>3. x.slots[i].status # "Running"
      BY <1>3, <3>2
    <3> QED
      BY <1>1, <2>1, <2>2, <3>1, <3>3
  <2>4. CASE q.slots[i].id # r.id
    <3>1. x.slots[i] = q.slots[i]
      BY <1>3, <2>4 DEF Matches
    <3>2. {s \in requests' : s.id = q.slots[i].id} = {s \in requests : s.id = q.slots[i].id}
      BY <1>1, <2>4
    <3> QED
      BY <1>3, <2>1, <3>1, <3>2 DEF Request
  <2> QED
    BY <2>3, <2>4
<1>6. ASSUME NEW l \in DOMAIN queues \ {k}
      PROVE  OwnRequests(l, queues[l], requests')
  <2>1. ASSUME NEW i \in Busy(queues[l]) PROVE queues[l].slots[i].id # r.id
    <3>1. ASSUME queues[l].slots[i].id = r.id PROVE FALSE
      <4>1. r = Request(l, queues[l], queues[l].slots[i])
        BY <1>4, <3>1
      <4> QED
        BY <4>1 DEF Request
    <3> QED
      BY <3>1
  <2>2. OwnRequests(l, queues[l], requests)
    BY QueueOf
  <2> QED
    BY <1>1, <2>1, <2>2 DEF OwnRequests
<1>7. /\ DOMAIN queues' = DOMAIN queues \cup {k} /\ queues'[k] = x
      /\ \A l \in DOMAIN queues \ {k} : queues'[l] = queues[l]
      /\ DOMAIN queues' = DOMAIN queues
  BY <1>1
<1>8. /\ \A i \in Busy(x) : x.slots[i].id <= next_dispatch
      /\ \A i, j \in Busy(x) : x.slots[i].id = x.slots[j].id => i = j
  BY <1>1, <1>3, QueueOf
<1>9. \A l \in DOMAIN queues \ {k} : \A i \in Busy(x), j \in Busy(queues[l]) :
         x.slots[i].id # queues[l].slots[j].id
  BY <1>1, <1>3 DEF IInv, IdsOK
<1>10. /\ order' \in Seq(DOMAIN queues')
       /\ next_dispatch' \in Nat /\ next_dispatch <= next_dispatch'
       /\ requests' \in SUBSET [key : DOMAIN queues', id : Nat, attempt : Nat, born : Nat]
       /\ ticker' \in BOOLEAN /\ turn' \in Nat \ {0}
       /\ refresh' \in [key : QueueKeys, config : Configs] \cup {Idle}
       /\ registrations' \in Nat /\ k \in QueueKeys
       /\ \A s \in requests' : s.id <= next_dispatch'
  BY <1>1, <1>7 DEF IInv, TypeOK, IdsOK
<1> HIDE DEF k, q
<1> QED
  BY <1>1, <1>3, <1>5, <1>6, <1>7, <1>8, <1>9, <1>10, OneQueue

(* Time passes for every queue. *)
LEMMA ClockStep ==
    ASSUME IInv, Clock
    PROVE  IInv'
<1>1. /\ DOMAIN queues' = DOMAIN queues
      /\ \A k \in DOMAIN queues : queues'[k] = Aged(queues[k])
      /\ UNCHANGED <<order, next_dispatch, requests, ticker, turn, refresh, registrations>>
  BY DEF Clock
<1>2. ASSUME NEW k \in DOMAIN queues
      PROVE  /\ \E c \in Configs : queues'[k] \in Queue(c)
             /\ EachOpenOnce(queues'[k]) /\ RateOK(queues'[k])
             /\ queues'[k].born = queues[k].born
             /\ Busy(queues'[k]) = Busy(queues[k])
             /\ \A i \in Busy(queues[k]) :
                   /\ queues'[k].slots[i].id = queues[k].slots[i].id
                   /\ queues'[k].slots[i].status = queues[k].slots[i].status
                   /\ queues'[k].slots[i].attempt = queues[k].slots[i].attempt
  <2> PICK c \in Configs : queues[k] \in Queue(c)
    BY QueueOf
  <2>1. EachOpenOnce(queues[k]) /\ RateOK(queues[k])
    BY QueueOf
  <2>2. queues'[k] = Aged(queues[k])
    BY <1>1
  <2> QED
    BY <2>1, <2>2, AgedQueue
<1>3. TypeOK'
  BY <1>1, <1>2 DEF IInv, TypeOK
<1>4. SlotsAccounted'
  BY <1>1, <1>2 DEF SlotsAccounted
<1>5. OutcomesAreOwn'
  <2>1. ASSUME NEW k \in DOMAIN queues
        PROVE  OwnRequests(k, queues'[k], requests)
    <3>1. OwnRequests(k, queues[k], requests)
      BY QueueOf
    <3> QED
      BY <1>2, <3>1, OtherRequests
  <2> QED
    BY <1>1, <2>1 DEF OutcomesAreOwn
<1>6. IdsOK'
  <2>1. \A k \in DOMAIN queues : \A i \in Busy(queues'[k]) :
           queues'[k].slots[i].id <= next_dispatch
    BY <1>2 DEF IInv, IdsOK
  <2>2. \A k, l \in DOMAIN queues : \A i \in Busy(queues'[k]), j \in Busy(queues'[l]) :
           queues'[k].slots[i].id = queues'[l].slots[j].id => k = l /\ i = j
    BY <1>2 DEF IInv, IdsOK
  <2>3. \A r \in requests : r.id <= next_dispatch
    BY DEF IInv, IdsOK
  <2> QED
    BY <1>1, <2>1, <2>2, <2>3 DEF IdsOK
<1>7. \A k \in DOMAIN queues' : RateOK(queues'[k])
  BY <1>1, <1>2
<1> QED
  BY <1>3, <1>4, <1>5, <1>6, <1>7 DEF IInv

-----------------------------------------------------------------------------
(* Init satisfies the inductive invariant. *)
LEMMA InitIInv == Init => IInv
<1> SUFFICES ASSUME Init PROVE IInv
  OBVIOUS
<1>1. DOMAIN queues = {}
  BY DEF Init
<1>2. TypeOK
  BY <1>1 DEF Init, TypeOK
<1> QED
  BY <1>1, <1>2 DEF Init, IInv, SlotsAccounted, OutcomesAreOwn, IdsOK

(* Every step preserves the inductive invariant. *)
LEMMA NextIInv == IInv /\ [Next]_vars => IInv'
<1> SUFFICES ASSUME IInv, [Next]_vars PROVE IInv'
  OBVIOUS
<1>1. ASSUME NEW k \in QueueKeys, NEW c \in Configs, register(k, c) PROVE IInv'
  <2>1. register_queue(k, c) /\ refresh' \in [key : QueueKeys, config : Configs] \cup {Idle}
    BY <1>1 DEF register, IInv, TypeOK
  <2> QED
    BY <2>1, RegisterStep
<1>2. ASSUME NEW k \in QueueKeys, NEW c \in Configs, RefreshCompares(k, c) PROVE IInv'
  <2>1. refresh' \in [key : QueueKeys, config : Configs] \cup {Idle}
    BY <1>2 DEF RefreshCompares
  <2>2. UNCHANGED <<queues, order, next_dispatch, requests, ticker, turn, registrations>>
    BY <1>2 DEF RefreshCompares
  <2> QED
    BY <2>1, <2>2 DEF IInv, TypeOK, SlotsAccounted, OutcomesAreOwn, IdsOK
<1>3. CASE RefreshRegisters
  <2>1. /\ register_queue(refresh.key, refresh.config) /\ refresh' = Idle
        /\ refresh.key \in QueueKeys /\ refresh.config \in Configs
    BY <1>3 DEF RefreshRegisters, IInv, TypeOK
  <2> QED
    BY <2>1, RegisterStep
<1>4. ASSUME NEW k \in QueueKeys, NEW n \in Names, enqueue(k, n) PROVE IInv'
  BY <1>4, EnqueueStep
<1>5. ASSUME NEW k \in QueueKeys, NEW n \in Names, remove(k, n) PROVE IInv'
  BY <1>5, RemoveStep
<1>6. CASE tick
  BY <1>6, TickStep
<1>7. CASE shutdown
  <2>1. ticker' \in BOOLEAN
    BY <1>7 DEF shutdown
  <2>2. UNCHANGED <<queues, order, next_dispatch, requests, turn, refresh, registrations>>
    BY <1>7 DEF shutdown
  <2> QED
    BY <2>1, <2>2 DEF IInv, TypeOK, SlotsAccounted, OutcomesAreOwn, IdsOK
<1>8. ASSUME NEW r \in requests, NEW delivered \in BOOLEAN, run(r, delivered) PROVE IInv'
  BY <1>8, RunStep
<1>9. CASE Clock
  BY <1>9, ClockStep
<1>10. CASE UNCHANGED vars
  BY <1>10 DEF vars, IInv, TypeOK, SlotsAccounted, OutcomesAreOwn, IdsOK
<1> QED
  BY <1>1, <1>2, <1>3, <1>4, <1>5, <1>6, <1>7, <1>8, <1>9, <1>10 DEF Next

(* The inductive invariant holds throughout. *)
THEOREM Inductive == Spec => []IInv
<1>1. Init => IInv
  BY InitIInv
<1>2. IInv /\ [Next]_vars => IInv'
  BY NextIInv
<1> QED
  BY <1>1, <1>2, PTL DEF Spec

(* Every field keeps its type, and no bucket holds more tokens than         *)
(* max_tokens (refill_tokens, dispatch_tasks).                              *)
THEOREM TypeCorrect == Spec => []TypeOK
<1>1. IInv => TypeOK
  BY DEF IInv
<1> QED
  BY <1>1, Inductive, PTL

(* No slot is leaked or given out twice: the stack of open slots holds each *)
(* free slot once (dispatch_tasks, process, complete).                      *)
THEOREM SlotsAreAccounted == Spec => []SlotsAccounted
<1>1. IInv => SlotsAccounted
  BY DEF IInv
<1> QED
  BY <1>1, Inductive, PTL

(* A late outcome never settles another dispatch or another attempt, even   *)
(* after its queue was replaced (run, complete).                            *)
THEOREM OutcomesSettleTheirOwn == Spec => []OutcomesAreOwn
<1>1. IInv => OutcomesAreOwn
  BY DEF IInv
<1> QED
  BY <1>1, Inductive, PTL

(* No schedule of the ticker makes a queue exceed its rate by more than a   *)
(* full bucket and the tokens of less than a second (refill_tokens).        *)
THEOREM RateIsKept == Spec => []Paced
<1>1. IInv => Paced
  <2> SUFFICES ASSUME IInv, NEW k \in DOMAIN queues
               PROVE  queues[k].level <= max_tokens(queues[k].config)
                                         + queues[k].config.rate * (Second - 1)
    BY DEF Paced
  <2> DEFINE q == queues[k]
  <2> PICK c \in Configs : q \in Queue(c)
    BY QueueOf
  <2>1. /\ q.config = c /\ q.level \in Nat /\ q.tokens \in Nat /\ q.age \in Nat
        /\ c.rate \in Nat /\ max_tokens(c) \in Nat /\ Second \in Nat \ {0}
    BY QueueFacts, ConfigFacts
  <2>2. c.rate * q.age \in Nat /\ c.rate * (Second - 1) \in Nat
    BY <2>1, Multiples
  <2>3. RateOK(q)
    BY QueueOf
  <2> HIDE DEF q
  <2>4. q.level # 0 => q.level + q.tokens + c.rate * q.age
                          <= max_tokens(c) + c.rate * (Second - 1)
    BY <2>1, <2>3 DEF RateOK
  <2>5. q.level <= max_tokens(c) + c.rate * (Second - 1)
    BY <2>1, <2>2, <2>4
  <2> QED
    BY <2>1, <2>5 DEF q
<1> QED
  BY <1>1, Inductive, PTL
-----------------------------------------------------------------------------
(* The capacity.                                                            *)

(* The account of a queue: count and the tasks deleted after their dispatch *)
(* make up the pending ones, and a name is deleted so once, since a queue   *)
(* takes a name once.                                                       *)
Account(q) ==
    /\ IsFiniteSet(q.late)
    /\ q.late \subseteq q.queued /\ q.known \subseteq q.queued
    /\ q.late \cap q.known = {}
    /\ q.count + Cardinality(q.late) = Len(q.pending)
    /\ q.count <= QUEUE_CAPACITY

Accounted == \A k \in DOMAIN queues : Account(queues[k])

(* What leaves the account of a queue alone. *)
LEMMA SameAccount ==
    ASSUME NEW q, NEW p, Account(q),
           p.late = q.late, p.queued = q.queued, p.known = q.known,
           p.count = q.count, p.pending = q.pending
    PROVE  Account(p)
  BY DEF Account

(* A new queue is empty. *)
LEMMA NewAccount ==
    ASSUME NEW c \in Configs
    PROVE  Account(New(c))
  BY FS_EmptySet, ConstantsAssumption DEF Account, New

(* A task that is accepted fits. *)
LEMMA EnqueuedAccount ==
    ASSUME NEW c \in Configs, NEW q \in Queue(c), NEW n \in Names, Account(q), Accepts(q, n)
    PROVE  Account(Enqueued(q, n))
<1>1. /\ q.count \in Int /\ q.pending \in Seq(Names) /\ Cardinality(q.late) \in Nat
      /\ QUEUE_CAPACITY \in Nat
  BY FS_CardinalityType, ConstantsAssumption DEF Queue, Account
<1> DEFINE p == Enqueued(q, n)
<1>2. /\ p.late = q.late /\ p.queued = q.queued \cup {n} /\ p.known = q.known \cup {n}
      /\ p.count = q.count + 1 /\ p.pending = Append(q.pending, n)
  BY DEF Queue, Enqueued
<1>3. Len(p.pending) = Len(q.pending) + 1 /\ Len(q.pending) \in Nat
  BY <1>1, <1>2
<1>4. p.late \cap p.known = {}
  BY <1>2 DEF Account, Accepts
<1> HIDE DEF p
<1>5. p.count <= QUEUE_CAPACITY
  BY <1>1, <1>2 DEF Accepts
<1>6. p.count + Cardinality(p.late) = Len(p.pending)
  <2>1. q.count + Cardinality(q.late) = Len(q.pending)
    BY DEF Account
  <2>2. Cardinality(p.late) = Cardinality(q.late) /\ p.count = q.count + 1
    BY <1>2
  <2>3. q.count \in Int /\ Cardinality(q.late) \in Nat
    BY <1>1
  <2> QED
    BY <1>3, <2>1, <2>2, <2>3
<1> QED
  BY <1>2, <1>4, <1>5, <1>6 DEF Account, p

(* One place of a sequence dropped. *)
LEMMA RetainedLength ==
    ASSUME NEW S, NEW s \in Seq(S), NEW places \in SUBSET DOMAIN s, places # {}
    PROVE  Len(Retained(s, places)) = Len(s) - 1
<1> DEFINE i == CHOOSE i \in places : TRUE
<1>1. i \in 1 .. Len(s) /\ Len(s) \in Nat
  BY DEF Retained
<1>2. Retained(s, places) = SubSeq(s, 1, i - 1) \o SubSeq(s, i + 1, Len(s))
  BY DEF Retained
<1> HIDE DEF i
<1>3. /\ SubSeq(s, 1, i - 1) \in Seq(S) /\ Len(SubSeq(s, 1, i - 1)) = i - 1
      /\ SubSeq(s, i + 1, Len(s)) \in Seq(S) /\ Len(SubSeq(s, i + 1, Len(s))) = Len(s) - i
  BY <1>1
<1> DEFINE l == SubSeq(s, 1, i - 1)
           r == SubSeq(s, i + 1, Len(s))
<1> HIDE DEF l, r
<1>4. /\ l \in Seq(S) /\ Len(l) = i - 1
      /\ r \in Seq(S) /\ Len(r) = Len(s) - i
  BY <1>3 DEF l, r
<1>5. Len(l \o r) = Len(l) + Len(r)
  BY <1>4
<1>6. Retained(s, places) = l \o r
  BY <1>2 DEF l, r
<1>7. Len(Retained(s, places)) = Len(l) + Len(r)
  BY <1>5, <1>6
<1> QED
  BY <1>1, <1>4, <1>7

(* A deleted task leaves the pending ones, or makes the count one too few. *)
LEMMA RemovedAccount ==
    ASSUME NEW c \in Configs, NEW q \in Queue(c), NEW n \in Names, Account(q), n \in q.known
    PROVE  Account(Removed(q, n))
<1>1. /\ q.count \in Int /\ q.pending \in Seq(Names) /\ Cardinality(q.late) \in Nat
      /\ QUEUE_CAPACITY \in Nat /\ Len(q.pending) \in Nat
  BY FS_CardinalityType, ConstantsAssumption DEF Queue, Account
<1> DEFINE p == Removed(q, n)
<1>2. /\ p.late = (IF Places(q, n) = {} THEN q.late \cup {n} ELSE q.late)
      /\ p.queued = q.queued /\ p.known = q.known \ {n}
      /\ p.count = q.count - 1 /\ p.pending = Retained(q.pending, Places(q, n))
  BY DEF Queue, Removed
<1>3. n \in q.queued /\ n \notin q.late
  BY DEF Account
<1>4. CASE Places(q, n) = {}
  <2>1. p.pending = q.pending /\ p.late = q.late \cup {n}
    BY <1>2, <1>4 DEF Retained
  <2>2. IsFiniteSet(p.late) /\ Cardinality(p.late) = Cardinality(q.late) + 1
    BY <1>3, <2>1, FS_AddElement DEF Account
  <2> HIDE DEF p
  <2>3. p.count + Cardinality(p.late) = Len(p.pending) /\ p.count <= QUEUE_CAPACITY
    BY <1>1, <1>2, <2>1, <2>2 DEF Account
  <2>4. p.late \subseteq p.queued /\ p.known \subseteq p.queued /\ p.late \cap p.known = {}
    BY <1>2, <1>3, <2>1 DEF Account
  <2> QED
    BY <2>2, <2>3, <2>4 DEF Account, p
<1>5. CASE Places(q, n) # {}
  <2>1. Len(p.pending) = Len(q.pending) - 1
    <3>1. Places(q, n) \in SUBSET DOMAIN q.pending
      BY DEF Places
    <3> QED
      BY <1>1, <1>2, <1>5, <3>1, RetainedLength
  <2>2. p.late = q.late
    BY <1>2, <1>5
  <2> HIDE DEF p
  <2>3. p.count + Cardinality(p.late) = Len(p.pending) /\ p.count <= QUEUE_CAPACITY
    BY <1>1, <1>2, <2>1, <2>2 DEF Account
  <2>4. p.late \subseteq p.queued /\ p.known \subseteq p.queued /\ p.late \cap p.known = {}
    BY <1>2, <2>2 DEF Account
  <2> QED
    BY <2>2, <2>3, <2>4 DEF Account, p
<1> QED
  BY <1>4, <1>5

(* What is dispatched leaves count and pending together. *)
LEMMA DispatchedAccount ==
    ASSUME NEW c \in Configs, NEW q \in Queue(c), NEW next \in Nat, Account(q)
    PROVE  Account(dispatch_tasks(q, next))
<1> DEFINE p == dispatch_tasks(q, next)
           n == Dispatched(q)
<1>1. /\ q.count \in Int /\ q.pending \in Seq(Names) /\ Cardinality(q.late) \in Nat
      /\ QUEUE_CAPACITY \in Nat /\ Len(q.pending) \in Nat
  BY FS_CardinalityType, ConstantsAssumption DEF Queue, Account
<1>2. n \in Nat /\ n <= Len(q.pending)
  BY DispatchedFacts
<1>3. /\ p.late = q.late /\ p.queued = q.queued /\ p.known = q.known
      /\ p.count = q.count - n /\ p.pending = SubSeq(q.pending, n + 1, Len(q.pending))
  BY DEF Queue, dispatch_tasks
<1> HIDE DEF p, n
<1>4. Len(p.pending) = Len(q.pending) - n
  BY <1>1, <1>2, <1>3
<1>5. p.count + Cardinality(p.late) = Len(p.pending) /\ p.count <= QUEUE_CAPACITY
  <2>1. q.count + Cardinality(q.late) = Len(q.pending) /\ q.count <= QUEUE_CAPACITY
    BY DEF Account
  <2>2. Cardinality(p.late) = Cardinality(q.late)
    BY <1>3
  <2> QED
    BY <1>1, <1>2, <1>3, <1>4, <2>1, <2>2
<1> QED
  BY <1>3, <1>5 DEF Account, p

(* The operations that only touch slots and tokens. *)
LEMMA QuietAccounts ==
    ASSUME NEW c \in Configs, NEW q \in Queue(c), Account(q)
    PROVE  /\ Account(refill_tokens(q)) /\ Account(process(q)) /\ Account(Aged(q))
           /\ \A id, delivered : Account(complete(q, id, delivered))
<1>1. Account(refill_tokens(q))
  BY SameAccount DEF Queue, refill_tokens
<1>2. Account(process(q))
  BY SameAccount DEF Queue, process
<1>3. Account(Aged(q))
  BY SameAccount DEF Queue, Aged
<1>4. ASSUME NEW id, NEW delivered PROVE Account(complete(q, id, delivered))
  BY SameAccount DEF Queue, complete
<1> QED
  BY <1>1, <1>2, <1>3, <1>4

(* One queue written, with an account in order. *)
LEMMA OneAccount ==
    ASSUME Accounted, NEW k, NEW q, Account(q), queues' = [queues EXCEPT ![k] = q]
    PROVE  Accounted'
  BY DEF Accounted

(* Every step keeps the accounts. *)
LEMMA NextAccounted == IInv /\ Accounted /\ [Next]_vars => Accounted'
<1> SUFFICES ASSUME IInv, Accounted, [Next]_vars PROVE Accounted'
  OBVIOUS
<1>1. ASSUME NEW k, NEW c \in Configs, register_queue(k, c) PROVE Accounted'
  BY <1>1, NewAccount DEF register_queue, Accounted
<1>2. ASSUME NEW k \in QueueKeys, NEW c \in Configs, register(k, c) PROVE Accounted'
  BY <1>1, <1>2 DEF register
<1>3. CASE RefreshRegisters
  <2>1. refresh.config \in Configs
    BY <1>3 DEF RefreshRegisters, IInv, TypeOK
  <2> QED
    BY <1>1, <1>3, <2>1 DEF RefreshRegisters
<1>4. ASSUME NEW k \in QueueKeys, NEW n \in Names, enqueue(k, n) PROVE Accounted'
  <2>1. CASE Known(k) /\ Accepts(queues[k], n)
    <3> PICK c \in Configs : queues[k] \in Queue(c)
      BY <2>1, QueueOf DEF Known
    <3>1. Account(Enqueued(queues[k], n))
      BY <2>1, EnqueuedAccount DEF Accounted, Known
    <3>2. queues' = [queues EXCEPT ![k] = Enqueued(queues[k], n)]
      BY <1>4, <2>1 DEF enqueue
    <3> QED
      BY <3>1, <3>2, OneAccount
  <2>2. CASE ~(Known(k) /\ Accepts(queues[k], n))
    BY <1>4, <2>2 DEF enqueue, Accounted
  <2> QED
    BY <2>1, <2>2
<1>5. ASSUME NEW k \in QueueKeys, NEW n \in Names, remove(k, n) PROVE Accounted'
  <2>1. k \in DOMAIN queues /\ n \in queues[k].known
    BY <1>5 DEF remove, Known
  <2> PICK c \in Configs : queues[k] \in Queue(c)
    BY <2>1, QueueOf
  <2>2. Account(Removed(queues[k], n))
    BY <2>1, RemovedAccount DEF Accounted
  <2>3. queues' = [queues EXCEPT ![k] = Removed(queues[k], n)]
    BY <1>5 DEF remove
  <2> QED
    BY <2>2, <2>3, OneAccount
<1>6. CASE tick
  <2> DEFINE k == order[turn]
             q == refill_tokens(queues[k])
             p == dispatch_tasks(q, next_dispatch)
  <2>1. k \in DOMAIN queues /\ next_dispatch \in Nat
    <3>1. order \in Seq(DOMAIN queues) /\ turn \in DOMAIN order /\ next_dispatch \in Nat
      BY <1>6 DEF tick, IInv, TypeOK
    <3> QED
      BY <3>1, SeqFacts
  <2> PICK c \in Configs : queues[k] \in Queue(c)
    BY <2>1, QueueOf
  <2>2. q \in Queue(c) /\ q.age < Second /\ Account(q) /\ EachOpenOnce(q) /\ RateOK(q)
    BY <2>1, QueueOf, RefilledQueue, QuietAccounts DEF Accounted
  <2>3. CASE is_active(q)
    <3>1. p \in Queue(c) /\ Account(p)
      BY <2>1, <2>2, DispatchedQueue, DispatchedAccount
    <3>2. Account(process(p))
      BY <3>1, QuietAccounts
    <3>3. queues' = [queues EXCEPT ![k] = process(p)]
      BY <1>6, <2>3 DEF tick
    <3> HIDE DEF k, p, q
    <3> QED
      BY <3>2, <3>3, OneAccount
  <2>4. CASE ~is_active(q)
    <3>1. queues' = [queues EXCEPT ![k] = q]
      BY <1>6, <2>4 DEF tick
    <3> HIDE DEF k, p, q
    <3> QED
      BY <2>2, <3>1, OneAccount
  <2> QED
    BY <2>3, <2>4
<1>7. ASSUME NEW r \in requests, NEW delivered \in BOOLEAN, run(r, delivered) PROVE Accounted'
  <2>1. r.key \in DOMAIN queues
    BY DEF IInv, TypeOK
  <2> PICK c \in Configs : queues[r.key] \in Queue(c)
    BY <2>1, QueueOf
  <2>2. Account(complete(queues[r.key], r.id, delivered))
    BY <2>1, QuietAccounts DEF Accounted
  <2>3. queues' = [queues EXCEPT ![r.key] = complete(queues[r.key], r.id, delivered)]
    BY <1>7 DEF run
  <2> QED
    BY <2>2, <2>3, OneAccount
<1>8. CASE Clock
  <2>1. ASSUME NEW k \in DOMAIN queues PROVE Account(Aged(queues[k]))
    <3> PICK c \in Configs : queues[k] \in Queue(c)
      BY QueueOf
    <3> QED
      BY QuietAccounts DEF Accounted
  <2> QED
    BY <1>8, <2>1 DEF Clock, Accounted
<1>9. ASSUME UNCHANGED queues PROVE Accounted'
  BY <1>9 DEF Accounted
<1>10. ASSUME NEW k \in QueueKeys, NEW c \in Configs, RefreshCompares(k, c) PROVE Accounted'
  BY <1>9, <1>10 DEF RefreshCompares
<1>11. CASE shutdown
  BY <1>9, <1>11 DEF shutdown
<1>12. CASE UNCHANGED vars
  BY <1>9, <1>12 DEF vars
<1> QED
  BY <1>2, <1>3, <1>4, <1>5, <1>6, <1>7, <1>8, <1>10, <1>11, <1>12 DEF Next

(* However tasks are enqueued, dispatched and deleted, the pending tasks    *)
(* exceed the capacity by at most as many as were deleted after their       *)
(* dispatch, each of which counts twice (enqueue, dispatch_tasks, delete).  *)
THEOREM CapacityIsKept == Spec => []PendingBounded
<1>1. Init => Accounted
  BY DEF Init, Accounted
<1>2. IInv /\ Accounted /\ [Next]_vars => Accounted'
  BY NextAccounted
<1>3. IInv /\ Accounted => PendingBounded
  <2> SUFFICES ASSUME IInv, Accounted, NEW k \in DOMAIN queues
               PROVE  Len(queues[k].pending) <= QUEUE_CAPACITY + Cardinality(queues[k].late)
    BY DEF PendingBounded
  <2> PICK c \in Configs : queues[k] \in Queue(c)
    BY QueueOf
  <2>1. /\ queues[k].count \in Int /\ Cardinality(queues[k].late) \in Nat
        /\ QUEUE_CAPACITY \in Nat
    BY FS_CardinalityType, ConstantsAssumption DEF Queue, Accounted, Account
  <2> QED
    BY <2>1 DEF Accounted, Account
<1> QED
  BY <1>1, <1>2, <1>3, Inductive, PTL DEF Spec
=============================================================================
