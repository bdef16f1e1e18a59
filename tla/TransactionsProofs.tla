------------------------- MODULE TransactionsProofs -------------------------
(* Proofs about Transactions, for every set of keys, tokens and workers and  *)
(* every bound on revisions.                                                 *)
EXTENDS Transactions, TLAPS

-----------------------------------------------------------------------------
(* The inductive invariant.                                                  *)

(* There is a revision, and revisions keep to their bound. *)
RevisionOK == Len(history) \in Nat /\ revision \in 0 .. MaxRevision

(* What is expected at commit is what the client saw, in the snapshot. *)
SnapshotRead ==
    \A t \in Tokens :
        LET tx == transactions[t] IN
        /\ tx.snapshot <= revision
        /\ DOMAIN tx.reads = DOMAIN tx.seen
        /\ \A k \in DOMAIN tx.reads : /\ tx.reads[k] = DocsAt(tx.snapshot)[k]
                                      /\ tx.seen[k] = tx.reads[k]

(* The write lock: at most one request is being served. *)
Locked ==
    \A v, w \in Workers : requests[v].stage # "free" /\ requests[w].stage # "free" => v = w

(* A request was validated against the revision it judges, and since then    *)
(* only the delete endpoints have committed.                                 *)
RequestOK(q) ==
    /\ q.stage # "free" =>
          /\ q.current <= revision
          /\ \A k \in DOMAIN q.seen : DocsAt(q.current)[k] = q.seen[k]
    /\ q.stage = "authorize" => (q.current + 1) .. revision \subseteq cleared
    /\ q.stage = "respond" => /\ q.revision <= revision
                              /\ (q.revision + 1) .. revision \subseteq cleared
RequestsOK == \A w \in Workers : RequestOK(requests[w])

(* The token of a request has left the table, and has not committed yet.     *)
TokenSpent(q) ==
    q.token # NoToken =>
        /\ q.stage # "free" => transactions[q.token].status = "gone"
        /\ q.stage = "authorize" => \A c \in committed : c.token # q.token
TokensSpent == \A w \in Workers : TokenSpent(requests[w])

(* A commit keeps what its request was promised, and its token stays gone.   *)
CommittedOK ==
    \A c \in committed :
        /\ c.current < c.revision /\ c.revision <= revision
        /\ c.token # NoToken => transactions[c.token].status = "gone"

Inv ==
    /\ TypeOK /\ RevisionOK /\ SnapshotRead /\ Locked /\ RequestsOK /\ TokensSpent
    /\ CommittedOK /\ ReadsHoldAtCommit /\ JudgedIsReplaced /\ CommitsOnce

-----------------------------------------------------------------------------
(* The types of the parts.                                                   *)

(* Partial functions on the keys. *)
LEMMA ReadsFacts ==
    /\ \A K \in SUBSET Keys : \A f \in [K -> Stored \cup {Absent}] : f \in Reads
    /\ \A f \in Reads : /\ DOMAIN f \subseteq Keys
                         /\ f \in [DOMAIN f -> Stored \cup {Absent}]
  BY DEF Reads

LEMMA WritesFacts ==
    /\ \A K \in SUBSET Keys : \A f \in [K -> Ops] : f \in Writes
    /\ \A f \in Writes : DOMAIN f \subseteq Keys /\ f \in [DOMAIN f -> Ops]
  BY DEF Writes

(* The records that begin and end a transaction or a request. *)
LEMMA EmptyFacts ==
    /\ NoReads \in Reads /\ DOMAIN NoReads = {}
    /\ Unused \in Transaction /\ Free \in Request
<1>1. NoReads \in Reads /\ DOMAIN NoReads = {}
  BY ReadsFacts DEF NoReads
<1>2. [k \in {} |-> "put"] \in Writes
  BY WritesFacts
<1>3. 0 \in 0 .. MaxRevision
  BY BoundAssumption
<1> QED
  BY <1>1, <1>2, <1>3 DEF Unused, Transaction, Free, Request

(* A revision that was made has documents of its own. *)
LEMMA RevisionFacts ==
    ASSUME TypeOK, RevisionOK
    PROVE  /\ Len(history) = revision + 1
           /\ \A r \in 0 .. revision : r + 1 \in DOMAIN history /\ DocsAt(r) \in Documents
<1> DEFINE Item == [time : 0 .. MaxRevision, docs : Documents]
<1>1. history \in Seq(Item)
  BY DEF TypeOK
<1>2. Len(history) \in Nat /\ Len(history) = revision + 1 /\ revision \in Nat
  BY BoundAssumption DEF RevisionOK, revision
<1>3. \A i \in 1 .. Len(history) : i \in DOMAIN history /\ history[i] \in Item
  <2> HIDE DEF Item
  <2> QED
    BY <1>1, <1>2
<1> QED
  BY <1>2, <1>3 DEF DocsAt

(* A commit adds a revision and leaves those before it alone. *)
LEMMA CommitFacts ==
    ASSUME TypeOK, RevisionOK, revision < MaxRevision, NEW docs \in Documents, StoreCommit(docs)
    PROVE  /\ history' \in Seq([time : 0 .. MaxRevision, docs : Documents])
           /\ RevisionOK'
           /\ revision' = revision + 1
           /\ \A r \in 0 .. revision : history'[r + 1] = history[r + 1]
<1> DEFINE new == [time |-> revision + 1, docs |-> docs]
           Item == [time : 0 .. MaxRevision, docs : Documents]
<1>1. history' = Append(history, new)
  BY DEF StoreCommit, Commit
<1>2. MaxRevision \in Nat /\ revision \in Nat /\ Len(history) = revision + 1
  BY BoundAssumption, RevisionFacts DEF RevisionOK
<1>3. history \in Seq(Item) /\ new \in Item
  BY <1>2 DEF TypeOK
<1>4. /\ history' \in Seq(Item) /\ Len(history') = Len(history) + 1
      /\ \A i \in 1 .. Len(history) : history'[i] = history[i]
      /\ history'[Len(history) + 1] = new
  <2> HIDE DEF new, Item
  <2> QED
    BY <1>1, <1>3
<1>5. revision' = revision + 1
  BY <1>2, <1>4 DEF revision
<1> QED
  BY <1>2, <1>4, <1>5 DEF RevisionOK

(* What writes leave is a set of documents again. *)
LEMMA ApplyType ==
    ASSUME NEW docs \in Documents, NEW writes, NEW r \in Stored
    PROVE  ApplyWrites(docs, writes, r) \in Documents
  BY DEF ApplyWrites, Documents

LEMMA NextStored ==
    ASSUME RevisionOK, revision < MaxRevision
    PROVE  revision + 1 \in Stored /\ revision \in 0 .. revision
  BY BoundAssumption DEF RevisionOK

-----------------------------------------------------------------------------
(* Every step keeps the invariant.                                           *)

LEMMA InitInv == Init => Inv
<1> SUFFICES ASSUME Init PROVE Inv
  OBVIOUS
<1> USE DEF Init
<1>1. revision = 0 /\ Len(history) = 1
  BY DEF StoreInit, revision
<1>2. TypeOK
  <2>1. NoDocuments \in Documents
    BY DEF NoDocuments, Documents
  <2>2. 0 \in 0 .. MaxRevision
    BY BoundAssumption
  <2>3. history \in Seq([time : 0 .. MaxRevision, docs : Documents])
    BY <2>1, <2>2 DEF StoreInit
  <2> QED
    BY <2>3, EmptyFacts DEF TypeOK
<1>3. RevisionOK
  BY <1>1, BoundAssumption DEF RevisionOK
<1>4. SnapshotRead
  BY <1>1, EmptyFacts DEF SnapshotRead, Unused
<1>5. Locked /\ RequestsOK /\ TokensSpent
  BY DEF Locked, RequestsOK, RequestOK, TokensSpent, TokenSpent, Free
<1> QED
  BY <1>2, <1>3, <1>4, <1>5
  DEF Inv, CommittedOK, ReadsHoldAtCommit, JudgedIsReplaced, CommitsOnce

(* The token table changes, and no token comes back. *)
TableStep ==
    /\ UNCHANGED <<store, requests, clearing, ghost>>
    /\ transactions' \in [Tokens -> Transaction]
    /\ \A t \in Tokens : transactions[t].status = "gone" => transactions'[t].status = "gone"

LEMMA TableInv ==
    ASSUME Inv, TableStep, SnapshotRead'
    PROVE  Inv'
<1> USE DEF Inv, TableStep
<1>1. /\ UNCHANGED <<history, requests, clearing, committed, cleared>> /\ UNCHANGED revision
  BY DEF store, ghost, revision
<1>2. TypeOK'
  BY <1>1 DEF TypeOK
<1>3. RevisionOK' /\ Locked'
  BY <1>1 DEF RevisionOK, Locked
<1>4. RequestsOK'
  BY <1>1 DEF RequestsOK, RequestOK, DocsAt
<1>5. TokensSpent'
  BY <1>1 DEF TokensSpent, TokenSpent, TypeOK, Request
<1>6. CommittedOK'
  <2>1. \A c \in committed : c.token \in Tokens \cup {NoToken}
    BY DEF TypeOK
  <2> QED
    BY <1>1, <2>1 DEF CommittedOK
<1>7. ReadsHoldAtCommit' /\ JudgedIsReplaced' /\ CommitsOnce'
  BY <1>1 DEF ReadsHoldAtCommit, JudgedIsReplaced, CommitsOnce, DocsAt
<1> QED
  BY <1>2, <1>3, <1>4, <1>5, <1>6, <1>7

LEMMA BeginInv ==
    ASSUME Inv, NEW t \in Tokens, NEW read_only \in BOOLEAN, begin_transaction(t, read_only)
    PROVE  Inv'
<1> DEFINE new == [Unused EXCEPT !.status = "open", !.read_only = read_only, !.snapshot = revision]
<1>1. transactions \in [Tokens -> Transaction] /\ revision \in 0 .. MaxRevision
  BY DEF Inv, TypeOK, RevisionOK
<1>2. /\ transactions' = [transactions EXCEPT ![t] = new]
      /\ transactions[t].status = "unused"
      /\ UNCHANGED <<store, requests, clearing, ghost>>
  BY DEF begin_transaction
<1>3. new \in Transaction /\ new.snapshot = revision /\ new.reads = NoReads /\ new.seen = NoReads
  BY <1>1, EmptyFacts DEF Unused, Transaction
<1>4. TableStep
  BY <1>1, <1>2, <1>3 DEF TableStep
<1>5. UNCHANGED <<history, revision>>
  BY <1>2 DEF store, revision
<1>6. SnapshotRead'
  <2> SUFFICES ASSUME NEW u \in Tokens
               PROVE  LET tx == transactions'[u] IN
                      /\ tx.snapshot <= revision'
                      /\ DOMAIN tx.reads = DOMAIN tx.seen
                      /\ \A k \in DOMAIN tx.reads : /\ tx.reads[k] = history'[tx.snapshot + 1].docs[k]
                                                    /\ tx.seen[k] = tx.reads[k]
    BY DEF SnapshotRead, DocsAt
  <2>1. CASE u = t
    BY <2>1, <1>1, <1>2, <1>3, <1>5, EmptyFacts
  <2>2. CASE u # t
    BY <2>2, <1>1, <1>2, <1>5 DEF Inv, SnapshotRead, DocsAt
  <2> QED
    BY <2>1, <2>2
<1> QED
  BY <1>4, <1>6, TableInv

LEMMA AnswerInv ==
    ASSUME Inv, NEW t \in Tokens, NEW K \in SUBSET Keys, Answer(t, K)
    PROVE  Inv'
<1> DEFINE tx == transactions[t]
           found == [k \in K |-> DocsAt(tx.snapshot)[k]]
           reads == record_read(tx.reads, found)
           seen == [k \in DOMAIN tx.seen \cup K |-> IF k \in K THEN found[k] ELSE tx.seen[k]]
<1>1. /\ transactions \in [Tokens -> Transaction]
      /\ tx.snapshot \in 0 .. revision /\ tx.reads \in Reads /\ tx.seen \in Reads
      /\ DOMAIN tx.reads = DOMAIN tx.seen
      /\ \A k \in DOMAIN tx.reads : /\ tx.reads[k] = DocsAt(tx.snapshot)[k]
                                    /\ tx.seen[k] = tx.reads[k]
  BY BoundAssumption DEF Inv, TypeOK, Transaction, SnapshotRead, RevisionOK
<1>2. /\ transactions' = [transactions EXCEPT ![t].reads = reads, ![t].seen = seen]
      /\ UNCHANGED <<store, requests, clearing, ghost>>
  BY DEF Answer
<1>3. /\ DOMAIN reads = DOMAIN tx.reads \cup K /\ DOMAIN seen = DOMAIN tx.reads \cup K
      /\ \A k \in DOMAIN reads : reads[k] = DocsAt(tx.snapshot)[k] /\ seen[k] = reads[k]
  BY <1>1 DEF record_read
<1>4. reads \in Reads /\ seen \in Reads
  <2>1. DocsAt(tx.snapshot) \in [Keys -> Stored \cup {Absent}]
    BY <1>1, RevisionFacts DEF Inv, Documents
  <2>2. DOMAIN reads \in SUBSET Keys
    BY <1>1, <1>3, ReadsFacts
  <2>3. reads = [k \in DOMAIN reads |-> reads[k]] /\ seen = [k \in DOMAIN seen |-> seen[k]]
    BY DEF record_read
  <2>4. \A k \in DOMAIN reads : reads[k] \in Stored \cup {Absent} /\ seen[k] \in Stored \cup {Absent}
    BY <1>3, <2>1, <2>2
  <2>5. /\ reads \in [DOMAIN reads -> Stored \cup {Absent}]
        /\ seen \in [DOMAIN reads -> Stored \cup {Absent}]
    <3> HIDE DEF reads, seen
    <3> QED
      BY <1>3, <2>3, <2>4
  <2> QED
    BY <2>2, <2>5, ReadsFacts
<1> HIDE DEF reads, seen
<1>5. /\ transactions'[t].reads = reads /\ transactions'[t].seen = seen
      /\ transactions'[t].snapshot = tx.snapshot /\ transactions'[t].status = tx.status
      /\ transactions'[t] \in Transaction
      /\ \A u \in Tokens \ {t} : transactions'[u] = transactions[u]
      /\ transactions' \in [Tokens -> Transaction]
  <2> DEFINE new == [tx EXCEPT !.reads = reads, !.seen = seen]
  <2>1. /\ new \in Transaction /\ new.reads = reads /\ new.seen = seen
        /\ new.snapshot = tx.snapshot /\ new.status = tx.status
    BY <1>1, <1>4 DEF Transaction
  <2>2. transactions' = [transactions EXCEPT ![t] = new]
    BY <1>1, <1>2
  <2> HIDE DEF new
  <2> QED
    BY <1>1, <2>1, <2>2
<1>6. TableStep
  <2>1. \A u \in Tokens : transactions[u].status = "gone" => transactions'[u].status = "gone"
    BY <1>5
  <2> QED
    BY <1>2, <1>5, <2>1 DEF TableStep
<1>7. UNCHANGED <<history, revision>>
  BY <1>2 DEF store, revision
<1>8. SnapshotRead'
  <2> SUFFICES ASSUME NEW u \in Tokens
               PROVE  LET x == transactions'[u] IN
                      /\ x.snapshot <= revision'
                      /\ DOMAIN x.reads = DOMAIN x.seen
                      /\ \A k \in DOMAIN x.reads : /\ x.reads[k] = history'[x.snapshot + 1].docs[k]
                                                   /\ x.seen[k] = x.reads[k]
    BY DEF SnapshotRead, DocsAt
  <2>1. CASE u = t
    BY <2>1, <1>1, <1>3, <1>5, <1>7 DEF DocsAt
  <2>2. CASE u # t
    BY <2>2, <1>5, <1>7 DEF Inv, SnapshotRead, DocsAt
  <2> QED
    BY <2>1, <2>2
<1> QED
  BY <1>6, <1>8, TableInv

(* A token leaves the table. *)
LEMMA TakeFacts ==
    ASSUME Inv, NEW t \in Tokens, transactions' = TakeToken(t), UNCHANGED history
    PROVE  /\ transactions' \in [Tokens -> Transaction]
           /\ transactions'[t].status = "gone"
           /\ \A u \in Tokens \ {t} : transactions'[u] = transactions[u]
           /\ SnapshotRead'
<1> DEFINE new == [Unused EXCEPT !.status = "gone"]
<1>1. transactions \in [Tokens -> Transaction]
  BY DEF Inv, TypeOK
<1>2. /\ new \in Transaction /\ new.snapshot = 0 /\ new.reads = NoReads /\ new.seen = NoReads
      /\ new.status = "gone"
  BY EmptyFacts DEF Unused, Transaction
<1>3. transactions' = [transactions EXCEPT ![t] = new]
  BY DEF TakeToken
<1> HIDE DEF new
<1>4. /\ transactions' \in [Tokens -> Transaction]
      /\ transactions'[t] = new
      /\ \A u \in Tokens \ {t} : transactions'[u] = transactions[u]
  BY <1>1, <1>2, <1>3
<1>5. UNCHANGED revision /\ 0 <= revision
  BY BoundAssumption DEF revision, Inv, RevisionOK
<1>6. SnapshotRead'
  <2> SUFFICES ASSUME NEW u \in Tokens
               PROVE  LET x == transactions'[u] IN
                      /\ x.snapshot <= revision'
                      /\ DOMAIN x.reads = DOMAIN x.seen
                      /\ \A k \in DOMAIN x.reads : /\ x.reads[k] = history'[x.snapshot + 1].docs[k]
                                                   /\ x.seen[k] = x.reads[k]
    BY DEF SnapshotRead, DocsAt
  <2>1. CASE u = t
    BY <2>1, <1>2, <1>4, <1>5, EmptyFacts
  <2>2. CASE u # t
    BY <2>2, <1>4, <1>5 DEF Inv, SnapshotRead, DocsAt
  <2> QED
    BY <2>1, <2>2
<1> QED
  BY <1>2, <1>4, <1>6

(* rollback, and a commit that is rejected. *)
LEMMA DropInv ==
    ASSUME Inv, NEW t \in Tokens, transactions' = TakeToken(t),
           UNCHANGED <<store, requests, clearing, ghost>>
    PROVE  Inv'
<1>1. UNCHANGED history
  BY DEF store
<1>2. TableStep
  BY <1>1, TakeFacts DEF TableStep
<1> QED
  BY <1>1, <1>2, TakeFacts, TableInv

-----------------------------------------------------------------------------
(* Requests.                                                                 *)

(* The request of one worker changes and the store does not; its token, if   *)
(* it has one, may leave the table.                                          *)
RequestStep(w) ==
    /\ UNCHANGED <<store, clearing, ghost>>
    /\ requests' \in [Workers -> Request]
    /\ \A v \in Workers \ {w} : requests'[v] = requests[v]
    /\ transactions' \in [Tokens -> Transaction]
    /\ \A t \in Tokens : transactions[t].status = "gone" => transactions'[t].status = "gone"

LEMMA RequestInv ==
    ASSUME Inv, NEW w \in Workers, RequestStep(w),
           SnapshotRead', Locked', RequestOK(requests[w])', TokenSpent(requests[w])'
    PROVE  Inv'
<1> USE DEF Inv, RequestStep
<1>1. UNCHANGED <<history, clearing, committed, cleared, revision>>
  BY DEF store, ghost, revision
<1>2. TypeOK' /\ RevisionOK'
  BY <1>1 DEF TypeOK, RevisionOK
<1>3. RequestsOK'
  <2>1. ASSUME NEW v \in Workers, v # w PROVE RequestOK(requests[v])'
    BY <1>1, <2>1 DEF RequestsOK, RequestOK, DocsAt
  <2> QED
    BY <2>1 DEF RequestsOK
<1>4. TokensSpent'
  <2>1. ASSUME NEW v \in Workers, v # w PROVE TokenSpent(requests[v])'
    BY <1>1, <2>1 DEF TokensSpent, TokenSpent, TypeOK, Request
  <2> QED
    BY <2>1 DEF TokensSpent
<1>5. CommittedOK'
  <2>1. \A c \in committed : c.token \in Tokens \cup {NoToken}
    BY DEF TypeOK
  <2> QED
    BY <1>1, <2>1 DEF CommittedOK
<1>6. ReadsHoldAtCommit' /\ JudgedIsReplaced' /\ CommitsOnce'
  BY <1>1 DEF ReadsHoldAtCommit, JudgedIsReplaced, CommitsOnce, DocsAt
<1> QED
  BY <1>2, <1>3, <1>4, <1>5, <1>6

LEMMA CommitTransactionInv ==
    ASSUME Inv, NEW w \in Workers, NEW t \in Tokens, NEW writes \in Writes,
           CommitTransaction(w, t, writes)
    PROVE  Inv'
<1> DEFINE tx == transactions[t]
           new == [stage |-> "authorize", token |-> t, writes |-> writes, current |-> revision,
                   seen |-> tx.seen, revision |-> 0]
<1>1. /\ requests \in [Workers -> Request] /\ tx \in Transaction
      /\ revision \in 0 .. MaxRevision /\ 0 \in 0 .. MaxRevision
  BY BoundAssumption DEF Inv, TypeOK, RevisionOK
<1>2. /\ \A v \in Workers : requests[v].stage = "free"
      /\ tx.status = "open" /\ ReadsHold(t)
      /\ requests' = [requests EXCEPT ![w] = new]
      /\ transactions' = TakeToken(t)
      /\ UNCHANGED <<store, clearing, ghost>>
  BY DEF CommitTransaction, LockFree
<1>3. UNCHANGED <<history, revision, committed, cleared>>
  BY <1>2 DEF store, ghost, revision
<1>4. /\ transactions' \in [Tokens -> Transaction] /\ transactions'[t].status = "gone"
      /\ \A u \in Tokens \ {t} : transactions'[u] = transactions[u]
      /\ SnapshotRead'
  BY <1>2, <1>3, TakeFacts
<1>5. /\ new \in Request /\ new.stage = "authorize" /\ new.token = t
      /\ new.current = revision /\ new.seen = tx.seen
  BY <1>1 DEF Request, Transaction
<1>6. \A k \in DOMAIN tx.seen : DocsAt(revision)[k] = tx.seen[k]
  BY <1>2 DEF ReadsHold, Inv, SnapshotRead
<1>7. \A c \in committed : c.token # t
  BY <1>2, TokenAssumption DEF Inv, CommittedOK
<1> HIDE DEF new, tx
<1>8. /\ requests'[w] = new /\ requests' \in [Workers -> Request]
      /\ \A v \in Workers \ {w} : requests'[v] = requests[v]
  BY <1>1, <1>2, <1>5
<1>9. RequestStep(w)
  BY <1>2, <1>4, <1>8 DEF RequestStep
<1>10. Locked'
  BY <1>2, <1>8 DEF Locked
<1>11. RequestOK(requests[w])'
  BY <1>1, <1>3, <1>5, <1>6, <1>8 DEF RequestOK, DocsAt
<1>12. TokenSpent(requests[w])'
  BY <1>3, <1>4, <1>5, <1>7, <1>8 DEF TokenSpent
<1> QED
  BY <1>4, <1>9, <1>10, <1>11, <1>12, RequestInv

(* A request without a token starts over at the current revision. *)
LEMMA StartInv ==
    ASSUME Inv, NEW w \in Workers, NEW writes \in Writes,
           \A v \in Workers \ {w} : requests[v].stage = "free",
           requests' = [requests EXCEPT ![w] =
               [Free EXCEPT !.stage = "authorize", !.writes = writes, !.current = revision]],
           UNCHANGED <<store, transactions, clearing, ghost>>
    PROVE  Inv'
<1> DEFINE new == [Free EXCEPT !.stage = "authorize", !.writes = writes, !.current = revision]
<1>1. requests \in [Workers -> Request] /\ revision \in 0 .. MaxRevision
  BY DEF Inv, TypeOK, RevisionOK
<1>2. UNCHANGED <<history, revision, committed, cleared>>
  BY DEF store, ghost, revision
<1>3. /\ new \in Request /\ new.stage = "authorize" /\ new.token = NoToken
      /\ new.current = revision /\ new.seen = NoReads
  BY <1>1, EmptyFacts DEF Request, Free
<1>4. requests' = [requests EXCEPT ![w] = new]
  OBVIOUS
<1> HIDE DEF new
<1>5. /\ requests'[w] = new /\ requests' \in [Workers -> Request]
      /\ \A v \in Workers \ {w} : requests'[v] = requests[v]
  BY <1>1, <1>3, <1>4
<1>6. RequestStep(w)
  BY <1>5 DEF RequestStep, Inv, TypeOK
<1>7. Locked'
  BY <1>5 DEF Locked
<1>8. RequestOK(requests[w])' /\ TokenSpent(requests[w])'
  <2>1. \A k \in DOMAIN new.seen : FALSE
    BY <1>3, EmptyFacts
  <2>2. RequestOK(requests[w])'
    <3>1. /\ requests'[w].stage = "authorize" /\ requests'[w].current = revision
          /\ \A k \in DOMAIN requests'[w].seen : FALSE
      BY <1>3, <1>5, <2>1
    <3>2. revision \in Nat /\ revision' = revision
      BY <1>1, <1>2, BoundAssumption
    <3> QED
      BY <3>1, <3>2 DEF RequestOK
  <2>3. TokenSpent(requests[w])'
    BY <1>3, <1>5 DEF TokenSpent
  <2> QED
    BY <2>2, <2>3
<1>9. SnapshotRead'
  BY <1>2 DEF Inv, SnapshotRead, DocsAt
<1> QED
  BY <1>6, <1>7, <1>8, <1>9, RequestInv

(* A request ends, and the write lock is free. *)
LEMMA EndInv ==
    ASSUME Inv, NEW w \in Workers, requests' = [requests EXCEPT ![w] = Free],
           UNCHANGED <<store, transactions, clearing, ghost>>
    PROVE  Inv'
<1>1. requests \in [Workers -> Request]
  BY DEF Inv, TypeOK
<1>2. UNCHANGED <<history, revision>>
  BY DEF store, revision
<1>3. Free \in Request /\ Free.stage = "free" /\ Free.token = NoToken
  BY EmptyFacts DEF Free
<1>4. /\ requests'[w] = Free /\ requests' \in [Workers -> Request]
      /\ \A v \in Workers \ {w} : requests'[v] = requests[v]
  BY <1>1, <1>3
<1>5. RequestStep(w)
  BY <1>4 DEF RequestStep, Inv, TypeOK
<1>6. Locked'
  BY <1>3, <1>4 DEF Locked, Inv
<1>7. RequestOK(requests[w])' /\ TokenSpent(requests[w])'
  BY <1>3, <1>4 DEF RequestOK, TokenSpent
<1>8. SnapshotRead'
  BY <1>2 DEF Inv, SnapshotRead, DocsAt
<1> QED
  BY <1>5, <1>6, <1>7, <1>8, RequestInv

-----------------------------------------------------------------------------
(* Commits.                                                                  *)

(* What was true of a revision stays true, whatever is committed next. *)
LEMMA PastKept ==
    ASSUME Inv, revision < MaxRevision, NEW docs \in Documents, StoreCommit(docs),
           UNCHANGED transactions
    PROVE  /\ history' \in Seq([time : 0 .. MaxRevision, docs : Documents])
           /\ RevisionOK' /\ SnapshotRead'
           /\ revision \in Nat /\ revision' = revision + 1
           /\ \A r \in 0 .. revision : history'[r + 1] = history[r + 1]
           /\ \A c \in committed : \A k \in DOMAIN c.seen :
                 history'[c.current + 1].docs[k] = c.seen[k]
<1>1. /\ history' \in Seq([time : 0 .. MaxRevision, docs : Documents])
      /\ RevisionOK' /\ revision' = revision + 1
      /\ \A r \in 0 .. revision : history'[r + 1] = history[r + 1]
  BY CommitFacts DEF Inv
<1>2. revision \in Nat
  BY BoundAssumption DEF Inv, RevisionOK
<1>3. SnapshotRead'
  <2> SUFFICES ASSUME NEW u \in Tokens
               PROVE  LET x == transactions[u] IN
                      /\ x.snapshot <= revision'
                      /\ DOMAIN x.reads = DOMAIN x.seen
                      /\ \A k \in DOMAIN x.reads : /\ x.reads[k] = history'[x.snapshot + 1].docs[k]
                                                   /\ x.seen[k] = x.reads[k]
    BY DEF SnapshotRead, DocsAt
  <2>1. transactions[u].snapshot \in 0 .. revision
    BY <1>2, BoundAssumption DEF Inv, TypeOK, Transaction, SnapshotRead
  <2>2. transactions[u].snapshot <= revision'
    BY <1>1, <1>2, <2>1
  <2>3. history'[transactions[u].snapshot + 1] = history[transactions[u].snapshot + 1]
    BY <1>1, <2>1
  <2> QED
    BY <2>2, <2>3 DEF Inv, SnapshotRead, DocsAt
<1>4. ASSUME NEW c \in committed, NEW k \in DOMAIN c.seen
      PROVE  history'[c.current + 1].docs[k] = c.seen[k]
  <2>1. c.current \in 0 .. revision
    BY <1>2, BoundAssumption DEF Inv, TypeOK, CommittedOK
  <2> QED
    BY <1>1, <2>1 DEF Inv, ReadsHoldAtCommit, DocsAt
<1> QED
  BY <1>1, <1>2, <1>3, <1>4

LEMMA ApplyInv ==
    ASSUME Inv, NEW w \in Workers, apply_writes(w)
    PROVE  Inv'
<1> DEFINE q == requests[w]
           docs == ApplyWrites(DocsAt(revision), q.writes, revision + 1)
           new == [token |-> q.token, seen |-> q.seen, current |-> q.current,
                   revision |-> revision + 1]
<1>1. /\ q.stage = "authorize" /\ revision < MaxRevision /\ StoreCommit(docs)
      /\ committed' = committed \cup {new}
      /\ requests' = [requests EXCEPT ![w].stage = "respond", ![w].revision = revision + 1]
      /\ UNCHANGED <<transactions, clearing, cleared>>
  BY DEF apply_writes
<1>2. /\ requests \in [Workers -> Request] /\ q \in Request
      /\ q.token \in Tokens \cup {NoToken} /\ q.seen \in Reads
      /\ q.current \in 0 .. MaxRevision
  BY DEF Inv, TypeOK, Request
<1>3. docs \in Documents
  <2>1. DocsAt(revision) \in Documents /\ revision + 1 \in Stored
    BY <1>1, NextStored, RevisionFacts DEF Inv
  <2> QED
    BY <2>1, ApplyType
<1> HIDE DEF docs
<1>4. /\ history' \in Seq([time : 0 .. MaxRevision, docs : Documents])
      /\ RevisionOK' /\ SnapshotRead'
      /\ revision \in Nat /\ revision' = revision + 1
      /\ \A r \in 0 .. revision : history'[r + 1] = history[r + 1]
      /\ \A c \in committed : \A k \in DOMAIN c.seen :
            history'[c.current + 1].docs[k] = c.seen[k]
  BY <1>1, <1>3, PastKept
<1>5. /\ q.current \in 0 .. revision
      /\ \A k \in DOMAIN q.seen : history[q.current + 1].docs[k] = q.seen[k]
      /\ (q.current + 1) .. revision \subseteq cleared
  BY <1>1, <1>2, <1>4, BoundAssumption DEF Inv, RequestsOK, RequestOK, DocsAt
<1>6. /\ q.token # NoToken => /\ transactions[q.token].status = "gone"
                              /\ \A c \in committed : c.token # q.token
  BY <1>1 DEF Inv, TokensSpent, TokenSpent
<1>7. \A v \in Workers \ {w} : requests[v].stage = "free"
  BY <1>1 DEF Inv, Locked
<1>8. /\ requests'[w].stage = "respond" /\ requests'[w].revision = revision + 1
      /\ requests'[w].token = q.token /\ requests'[w].seen = q.seen
      /\ requests'[w].current = q.current
      /\ \A v \in Workers \ {w} : requests'[v] = requests[v]
      /\ requests' \in [Workers -> Request]
  <2> DEFINE next == [q EXCEPT !.stage = "respond", !.revision = revision + 1]
  <2>1. /\ next \in Request /\ next.stage = "respond" /\ next.revision = revision + 1
        /\ next.token = q.token /\ next.seen = q.seen /\ next.current = q.current
    <3>1. revision + 1 \in 0 .. MaxRevision
      BY <1>1, <1>4, BoundAssumption
    <3> HIDE DEF q
    <3> QED
      BY <1>2, <3>1 DEF Request
  <2>2. requests' = [requests EXCEPT ![w] = next]
    BY <1>1, <1>2
  <2> HIDE DEF next
  <2> QED
    BY <1>2, <2>1, <2>2
<1>9. /\ new.token = q.token /\ new.seen = q.seen /\ new.current = q.current
      /\ new.revision = revision + 1
      /\ new \in [token : Tokens \cup {NoToken}, seen : Reads,
                  current : 0 .. MaxRevision, revision : 0 .. MaxRevision]
  BY <1>1, <1>2, <1>4, BoundAssumption
<1> HIDE DEF new, q
<1>10. TypeOK'
  BY <1>1, <1>4, <1>8, <1>9 DEF Inv, TypeOK
<1>11. Locked'
  BY <1>7, <1>8 DEF Locked
<1>12. RequestsOK'
  <2>1. RequestOK(requests[w])'
    BY <1>4, <1>5, <1>8 DEF RequestOK, DocsAt
  <2>2. ASSUME NEW v \in Workers, v # w PROVE RequestOK(requests[v])'
    BY <1>7, <1>8, <2>2 DEF RequestOK
  <2> QED
    BY <2>1, <2>2 DEF RequestsOK
<1>13. TokensSpent'
  <2>1. TokenSpent(requests[w])'
    BY <1>1, <1>6, <1>8 DEF TokenSpent
  <2>2. ASSUME NEW v \in Workers, v # w PROVE TokenSpent(requests[v])'
    BY <1>7, <1>8, <2>2 DEF TokenSpent
  <2> QED
    BY <2>1, <2>2 DEF TokensSpent
<1>14. CommittedOK'
  <2> SUFFICES ASSUME NEW c \in committed'
               PROVE  /\ c.current < c.revision /\ c.revision <= revision'
                      /\ c.token # NoToken => transactions'[c.token].status = "gone"
    BY DEF CommittedOK
  <2>1. CASE c \in committed
    <3>1. c.revision \in 0 .. MaxRevision
      BY <2>1 DEF Inv, TypeOK
    <3> QED
      BY <2>1, <3>1, <1>1, <1>4, BoundAssumption DEF Inv, CommittedOK
  <2>2. CASE c = new
    BY <2>2, <1>1, <1>4, <1>5, <1>6, <1>9
  <2> QED
    BY <2>1, <2>2, <1>1
<1>15. ReadsHoldAtCommit'
  <2> SUFFICES ASSUME NEW c \in committed', NEW k \in DOMAIN c.seen
               PROVE  history'[c.current + 1].docs[k] = c.seen[k]
    BY DEF ReadsHoldAtCommit, DocsAt
  <2>1. CASE c \in committed
    BY <2>1, <1>4
  <2>2. CASE c = new
    BY <2>2, <1>4, <1>5, <1>9
  <2> QED
    BY <2>1, <2>2, <1>1
<1>16. JudgedIsReplaced'
  <2> SUFFICES ASSUME NEW c \in committed'
               PROVE  (c.current + 1) .. (c.revision - 1) \subseteq cleared
    BY <1>1 DEF JudgedIsReplaced
  <2>1. CASE c \in committed
    BY <2>1 DEF Inv, JudgedIsReplaced
  <2>2. CASE c = new
    BY <2>2, <1>4, <1>5, <1>9
  <2> QED
    BY <2>1, <2>2, <1>1
<1>17. CommitsOnce'
  BY <1>1, <1>6, <1>9 DEF Inv, CommitsOnce
<1> QED
  BY <1>4, <1>10, <1>11, <1>12, <1>13, <1>14, <1>15, <1>16, <1>17 DEF Inv

LEMMA ClearInv ==
    ASSUME Inv, ClearCommit
    PROVE  Inv'
<1> DEFINE docs == ApplyWrites(DocsAt(revision), [k \in clearing |-> "delete"], revision + 1)
<1>1. /\ revision < MaxRevision /\ StoreCommit(docs)
      /\ clearing' = {} /\ cleared' = cleared \cup {revision + 1}
      /\ UNCHANGED <<transactions, requests, committed>>
  BY DEF ClearCommit
<1>2. docs \in Documents
  <2>1. DocsAt(revision) \in Documents /\ revision + 1 \in Stored
    BY <1>1, NextStored, RevisionFacts DEF Inv
  <2> QED
    BY <2>1, ApplyType
<1> HIDE DEF docs
<1>3. /\ history' \in Seq([time : 0 .. MaxRevision, docs : Documents])
      /\ RevisionOK' /\ SnapshotRead'
      /\ revision \in Nat /\ revision' = revision + 1
      /\ \A r \in 0 .. revision : history'[r + 1] = history[r + 1]
      /\ \A c \in committed : \A k \in DOMAIN c.seen :
            history'[c.current + 1].docs[k] = c.seen[k]
  BY <1>1, <1>2, PastKept
<1>4. TypeOK'
  BY <1>1, <1>3 DEF Inv, TypeOK
<1>5. Locked' /\ TokensSpent' /\ CommitsOnce'
  BY <1>1 DEF Inv, Locked, TokensSpent, TokenSpent, CommitsOnce
<1>6. RequestsOK'
  <2> SUFFICES ASSUME NEW v \in Workers PROVE RequestOK(requests[v])'
    BY DEF RequestsOK
  <2> DEFINE q == requests[v]
  <2>1. /\ q.current \in 0 .. MaxRevision /\ q.revision \in 0 .. MaxRevision
        /\ RequestOK(q) /\ requests'[v] = q
    BY <1>1 DEF Inv, TypeOK, Request, RequestsOK
  <2> HIDE DEF q
  <2>2. CASE q.stage = "free"
    BY <2>1, <2>2 DEF RequestOK
  <2>3. CASE q.stage # "free"
    <3>1. q.current \in 0 .. revision /\ q.current <= revision'
      BY <1>3, <2>1, <2>3, BoundAssumption DEF RequestOK
    <3>2. \A k \in DOMAIN q.seen : history'[q.current + 1].docs[k] = q.seen[k]
      BY <1>3, <2>1, <2>3, <3>1 DEF RequestOK, DocsAt
    <3>3. q.stage = "authorize" => (q.current + 1) .. revision' \subseteq cleared'
      BY <1>1, <1>3, <2>1, <3>1 DEF RequestOK
    <3>4. q.stage = "respond" => /\ q.revision <= revision'
                                 /\ (q.revision + 1) .. revision' \subseteq cleared'
      BY <1>1, <1>3, <2>1, BoundAssumption DEF RequestOK
    <3> QED
      BY <2>1, <3>1, <3>2, <3>3, <3>4 DEF RequestOK, DocsAt
  <2> QED
    BY <2>2, <2>3
<1>7. CommittedOK'
  <2>1. \A c \in committed : c.revision \in 0 .. MaxRevision
    BY DEF Inv, TypeOK
  <2> QED
    BY <1>1, <1>3, <2>1, BoundAssumption DEF Inv, CommittedOK
<1>8. ReadsHoldAtCommit'
  BY <1>1, <1>3 DEF ReadsHoldAtCommit, DocsAt
<1>9. JudgedIsReplaced'
  BY <1>1 DEF Inv, JudgedIsReplaced
<1> QED
  BY <1>3, <1>4, <1>5, <1>6, <1>7, <1>8, <1>9 DEF Inv

-----------------------------------------------------------------------------

LEMMA NextInv == Inv /\ [Next]_vars => Inv'
<1> SUFFICES ASSUME Inv, [Next]_vars PROVE Inv'
  OBVIOUS
<1>1. ASSUME NEW t \in Tokens, NEW read_only \in BOOLEAN, begin_transaction(t, read_only)
      PROVE  Inv'
  BY <1>1, BeginInv
<1>2. ASSUME NEW t \in Tokens, NEW K \in SUBSET Keys, Answer(t, K) PROVE Inv'
  BY <1>2, AnswerInv
<1>3. ASSUME NEW t \in Tokens, NEW k \in Keys, get_document(t, k) PROVE Inv'
  BY <1>2, <1>3 DEF get_document
<1>4. ASSUME NEW t \in Tokens, NEW K \in SUBSET Keys, batch_get_documents(t, K) PROVE Inv'
  BY <1>2, <1>4 DEF batch_get_documents
<1>5. ASSUME NEW t \in Tokens, run_query(t) PROVE Inv'
  BY <1>2, <1>5 DEF run_query, Present
<1>6. ASSUME NEW t \in Tokens, rollback(t) PROVE Inv'
  BY <1>6, DropInv DEF rollback
<1>7. ASSUME NEW w \in Workers, NEW t \in Tokens, NEW writes \in Writes,
             CommitTransaction(w, t, writes)
      PROVE  Inv'
  BY <1>7, CommitTransactionInv
<1>8. ASSUME NEW w \in Workers, NEW t \in Tokens, NEW writes \in Writes,
             CommitRejected(w, t, writes)
      PROVE  Inv'
  BY <1>8, DropInv DEF CommitRejected
<1>9. ASSUME NEW w \in Workers, NEW writes \in Writes, WriteRequest(w, writes) PROVE Inv'
  BY <1>9, StartInv DEF WriteRequest, LockFree
<1>10. ASSUME NEW w \in Workers, NEW k \in Keys, NEW op \in Ops, BatchContinues(w, k, op)
       PROVE  Inv'
  <2>1. [j \in {k} |-> op] \in Writes
    BY WritesFacts
  <2>2. \A v \in Workers \ {w} : requests[v].stage = "free"
    BY <1>10 DEF BatchContinues, Inv, Locked
  <2> QED
    BY <1>10, <2>1, <2>2, StartInv DEF BatchContinues
<1>11. ASSUME NEW w \in Workers, WriteFails(w) \/ Respond(w) PROVE Inv'
  BY <1>11, EndInv DEF WriteFails, Respond
<1>12. ASSUME NEW w \in Workers, apply_writes(w) PROVE Inv'
  BY <1>12, ApplyInv
<1>13. CASE ClearRead
  <2>1. UNCHANGED <<history, transactions, requests, committed, cleared, revision>>
    BY <1>13 DEF ClearRead, store, ghost, revision
  <2>2. clearing' \subseteq Keys
    BY <1>13 DEF ClearRead, Present
  <2>3. TypeOK' /\ RevisionOK' /\ SnapshotRead' /\ Locked'
    BY <2>1, <2>2 DEF Inv, TypeOK, RevisionOK, SnapshotRead, Locked, DocsAt
  <2>4. RequestsOK' /\ TokensSpent' /\ CommittedOK'
    BY <2>1 DEF Inv, RequestsOK, RequestOK, TokensSpent, TokenSpent, CommittedOK, DocsAt
  <2>5. ReadsHoldAtCommit' /\ JudgedIsReplaced' /\ CommitsOnce'
    BY <2>1 DEF Inv, ReadsHoldAtCommit, JudgedIsReplaced, CommitsOnce, DocsAt
  <2> QED
    BY <2>3, <2>4, <2>5 DEF Inv
<1>14. CASE ClearCommit
  BY <1>14, ClearInv
<1>15. CASE UNCHANGED vars
  <2>1. UNCHANGED <<history, transactions, requests, clearing, committed, cleared, revision>>
    BY <1>15 DEF vars, store, ghost, revision
  <2>2. TypeOK' /\ RevisionOK' /\ SnapshotRead' /\ Locked'
    BY <2>1 DEF Inv, TypeOK, RevisionOK, SnapshotRead, Locked, DocsAt
  <2>3. RequestsOK' /\ TokensSpent' /\ CommittedOK'
    BY <2>1 DEF Inv, RequestsOK, RequestOK, TokensSpent, TokenSpent, CommittedOK, DocsAt
  <2>4. ReadsHoldAtCommit' /\ JudgedIsReplaced' /\ CommitsOnce'
    BY <2>1 DEF Inv, ReadsHoldAtCommit, JudgedIsReplaced, CommitsOnce, DocsAt
  <2> QED
    BY <2>2, <2>3, <2>4 DEF Inv
<1> QED
  BY <1>1, <1>3, <1>4, <1>5, <1>6, <1>7, <1>8, <1>9, <1>10, <1>11, <1>12, <1>13, <1>14, <1>15
  DEF Next

(* The invariant holds in every reachable state: one request is served at a  *)
(* time, its reads hold in the revision it judges, and only the delete       *)
(* endpoints commit between that revision and its answer (write_lock,        *)
(* FirestoreService::commit).                                                *)
THEOREM Inductive == Spec => []Inv
<1>1. Init => Inv
  BY InitInv
<1>2. Inv /\ [Next]_vars => Inv'
  BY NextInv
<1> QED
  BY <1>1, <1>2, PTL DEF Spec

(* The token table, the requests and the commits keep their types            *)
(* (FirestoreService::transactions).                                         *)
THEOREM TypeCorrect == Spec => []TypeOK
<1>1. Inv => TypeOK
  BY DEF Inv
<1> QED
  BY <1>1, Inductive, PTL

(* Whatever a client of a transaction was told, however often and in which   *)
(* order it read, holds in the revision its commit was validated against     *)
(* (record_read, FirestoreService::commit).                                  *)
THEOREM ReadsAreValidated == Spec => []ReadsHoldAtCommit
<1>1. Inv => ReadsHoldAtCommit
  BY DEF Inv
<1> QED
  BY <1>1, Inductive, PTL

(* Between the revision that the rules judged and the one that the writes    *)
(* made, only the delete endpoints committed (RulesRuntime::write_lock).     *)
THEOREM JudgementStands == Spec => []JudgedIsReplaced
<1>1. Inv => JudgedIsReplaced
  BY DEF Inv
<1> QED
  BY <1>1, Inductive, PTL

(* A response is read before any other locked write commits (apply_writes).  *)
THEOREM ResponseIsOwn == Spec => []ResponseIsOwnCommit
<1>1. Inv => ResponseIsOwnCommit
  BY DEF Inv, RequestsOK, RequestOK, ResponseIsOwnCommit
<1> QED
  BY <1>1, Inductive, PTL

(* A token commits at most once (FirestoreService::commit removes it first). *)
THEOREM TokensCommitOnce == Spec => []CommitsOnce
<1>1. Inv => CommitsOnce
  BY DEF Inv
<1> QED
  BY <1>1, Inductive, PTL

(* The front ends use the store as it is meant to be used: their steps are   *)
(* commits of whole sets of documents at later and later times, or leave it  *)
(* alone (Store::commit).                                                    *)
THEOREM UsesStore == Spec => StoreSpec
<1>1. Init => StoreInit
  BY DEF Init
<1>2. ASSUME TypeOK, RevisionOK, revision < MaxRevision, NEW docs \in Documents, StoreCommit(docs)
      PROVE  StoreNext
  <2> DEFINE new == [time |-> revision + 1, docs |-> docs]
  <2>1. history' = Append(history, new)
    BY <1>2 DEF StoreCommit, Commit
  <2>2. history'[Len(history')] = new
    <3>1. history \in Seq([time : 0 .. MaxRevision, docs : Documents])
      BY <1>2 DEF TypeOK
    <3> HIDE DEF new
    <3> QED
      BY <2>1, <3>1
  <2>3. Commit(docs, revision + 1)
    BY <1>2 DEF StoreCommit
  <2> QED
    BY <1>2, <2>2, <2>3 DEF StoreNext
<1>3. Inv /\ [Next]_vars => [StoreNext]_store
  <2> SUFFICES ASSUME Inv, [Next]_vars PROVE [StoreNext]_store
    OBVIOUS
  <2>1. DocsAt(revision) \in Documents
    BY RevisionFacts, BoundAssumption DEF Inv, RevisionOK
  <2>2. ASSUME NEW w \in Workers, apply_writes(w) PROVE StoreNext
    <3>1. revision < MaxRevision /\ revision + 1 \in Stored
      BY <2>2, NextStored DEF Inv, apply_writes
    <3> QED
      BY <1>2, <2>1, <2>2, <3>1, ApplyType DEF Inv, apply_writes
  <2>3. CASE ClearCommit
    <3>1. revision < MaxRevision /\ revision + 1 \in Stored
      BY <2>3, NextStored DEF Inv, ClearCommit
    <3> QED
      BY <1>2, <2>1, <2>3, <3>1, ApplyType DEF Inv, ClearCommit
  <2>4. CASE UNCHANGED vars
    BY <2>4 DEF vars
  <2> QED
    BY <2>2, <2>3, <2>4
    DEF Next, begin_transaction, get_document, batch_get_documents, run_query, Answer, rollback,
        CommitTransaction, CommitRejected, WriteRequest, BatchContinues, WriteFails, Respond,
        ClearRead
<1> QED
  BY <1>1, <1>3, Inductive, PTL DEF Spec, StoreSpec
=============================================================================
