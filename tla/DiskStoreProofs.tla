-------------------------- MODULE DiskStoreProofs --------------------------
(* Proofs about DiskStore, for every value of its constants. *)
EXTENDS DiskStore, SequenceTheorems, TLAPS

(* Applying mutations (apply_mutations) yields documents. *)
LEMMA ApplyType ==
    ASSUME NEW docs \in Documents, NEW m \in Mutations
    PROVE  apply_mutations(docs, m) \in Documents
  BY DEF Documents, Mutations, apply_mutations

(* The contents of a new store and the empty plan have their types. *)
LEMMA BlankType == Blank \in Contents /\ NoRecord \in WalRecord
<1>1. Blank.docs \in Documents
  BY DEF Blank, Documents
<1>2. [k \in {} |-> Absent] \in Mutations
  BY DEF Mutations
<1> QED
  BY <1>1, <1>2, BoundsAssumption DEF Blank, Contents, NoRecord, WalRecord, Revisions, Times

(* persist_record yields a persisted state. *)
LEMMA PersistType ==
    ASSUME NEW db \in Persisted, NEW record \in WalRecord
    PROVE  persist_record(db, record) \in Persisted
  BY ApplyType DEF Persisted, WalRecord, persist_record

(* persist_state yields a persisted state. *)
LEMMA PersistStateType ==
    ASSUME TypeOK, NEW docs \in Documents
    PROVE  PersistState(docs) \in Persisted
  BY DEF TypeOK, Persisted, PersistState

(* What a prefix of a sequence is: its type, its length, its elements. *)
LEMMA PrefixFacts ==
    ASSUME NEW S, NEW s, NEW n \in Nat, \A i \in 1 .. n : s[i] \in S
    PROVE  /\ SubSeq(s, 1, n) \in Seq(S)
           /\ Len(SubSeq(s, 1, n)) = n
           /\ \A i \in 1 .. n : SubSeq(s, 1, n)[i] = s[i]
  OBVIOUS

(* A truncated journal is a sequence of frames of length zero. *)
LEMMA NoFrames == <<>> \in Seq(WalRecord) /\ Len(<<>>) = 0
  OBVIOUS

(* What TypeOK says of the numbers in the state. *)
LEMMA NumberFacts ==
    ASSUME TypeOK
    PROVE  /\ MaxRevision \in Nat /\ MaxTime \in Nat
           /\ memory.revision \in Nat /\ memory.revision <= MaxRevision
           /\ memory.time \in Nat /\ memory.time <= MaxTime
           /\ plan.revision \in Nat /\ plan.time \in Nat /\ plan.mutations \in Mutations
           /\ plan.revision <= MaxRevision /\ plan.time <= MaxTime
           /\ batches \in Nat /\ acked \in Nat /\ safe \in Nat
           /\ database.revision \in Nat /\ database.time \in Nat /\ database.docs \in Documents
           /\ durable.revision \in Nat /\ durable.time \in Nat /\ durable.docs \in Documents
           /\ durable.revision <= MaxRevision
  BY BoundsAssumption DEF TypeOK, Persisted, WalRecord, Revisions, Times

(* What the type of a sequence of frames says of each frame's numbers. *)
LEMMA FrameFacts ==
    ASSUME NEW frames \in Seq(WalRecord)
    PROVE  /\ Len(frames) \in Nat
           /\ \A i \in 1 .. Len(frames) :
                /\ frames[i] \in WalRecord
                /\ frames[i].revision \in Nat /\ frames[i].revision <= MaxRevision
                /\ frames[i].time \in Nat
                /\ frames[i].mutations \in Mutations
<1>1. \A r \in WalRecord : /\ r.revision \in Nat /\ r.revision <= MaxRevision
                          /\ r.time \in Nat /\ r.mutations \in Mutations
  BY BoundsAssumption DEF WalRecord, Revisions, Times
<1>2. \A i \in 1 .. Len(frames) : frames[i] \in WalRecord
  BY ElementOfSeq
<1>3. Len(frames) \in Nat
  BY LenProperties
<1> QED
  BY <1>1, <1>2, <1>3

(* What TypeOK says of the entries of the ghost history. *)
LEMMA HistoryFacts ==
    ASSUME TypeOK
    PROVE  /\ Len(history) \in Nat
           /\ \A i \in 1 .. Len(history) :
                /\ history[i] \in Contents
                /\ history[i].time \in Nat /\ history[i].docs \in Documents
<1>1. \A c \in Contents : c.time \in Nat /\ c.docs \in Documents
  BY BoundsAssumption DEF Contents, Times
<1>2. \A i \in 1 .. Len(history) : history[i] \in Contents
  BY ElementOfSeq DEF TypeOK
<1>3. Len(history) \in Nat
  BY LenProperties DEF TypeOK
<1> QED
  BY <1>1, <1>2, <1>3

(* What TypeOK says of the journal's frames. *)
LEMMA JournalFacts ==
    ASSUME TypeOK
    PROVE  /\ Len(journal) \in Nat
           /\ \A i \in 1 .. Len(journal) :
                /\ journal[i] \in WalRecord
                /\ journal[i].revision \in Nat /\ journal[i].revision <= MaxRevision
                /\ journal[i].time \in Nat
                /\ journal[i].mutations \in Mutations
<1>1. journal \in Seq(WalRecord)
  BY DEF TypeOK
<1> QED
  BY <1>1, FrameFacts

(* A directory that has just been created satisfies the invariant. *)
THEOREM InitIInv == Init => IInv
<1> SUFFICES ASSUME Init PROVE IInv
  OBVIOUS
<1>1. TypeOK
  <2>1. Blank.docs \in Documents /\ <<Blank>> \in Seq(Contents)
    BY BlankType DEF Contents
  <2>2. 0 \in Revisions /\ 0 \in Times
    BY BoundsAssumption DEF Revisions, Times
  <2>3. database \in Persisted /\ durable \in Persisted
    BY <2>1, <2>2 DEF Init, Persisted
  <2>4. plan \in WalRecord /\ transaction \in Documents /\ history \in Seq(Contents)
    BY <2>1, BlankType DEF Init
  <2>5. journal \in Seq(WalRecord) /\ synced \in Seq(WalRecord)
    BY NoFrames DEF Init
  <2> QED
    BY <2>2, <2>3, <2>4, <2>5 DEF Init, TypeOK, PCs
<1>2. HistoryOK
  BY <1>1, BoundsAssumption DEF Init, HistoryOK, Blank
<1>3. FramesOK /\ SyncedOK /\ NoJournalOK
  BY DEF Init, FramesOK, SyncedOK, NoJournalOK
<1>4. DownOK /\ WorkingOK /\ HolderOK
  BY DEF Init, DownOK, WorkingOK, HolderOK, Down, Serving, PCs, Recoverable, RecoveredFrom
<1>5. ServesAcknowledged /\ CrashKeepsAcknowledged /\ ReplayNeverRefuses
  BY DEF Init, ServesAcknowledged, CrashKeepsAcknowledged, ReplayNeverRefuses,
         Serving, Down, Recoverable, RecoveredFrom
<1> QED
  BY <1>1, <1>2, <1>3, <1>4, <1>5 DEF IInv

(* OpenJournal preserves the invariant. *)
LEMMA OpenJournalStep == IInv /\ OpenJournal => IInv'
<1> SUFFICES ASSUME IInv, OpenJournal PROVE IInv'
  OBVIOUS
<1> USE DEF OpenJournal, mutex, state, local, files, ghost
<1>1. TypeOK'
  BY ApplyType, BoundsAssumption DEF IInv, TypeOK, PCs, Revisions, Times
<1>2. HistoryOK'
  BY DEF IInv, TypeOK, HistoryOK
<1>3. FramesOK' /\ SyncedOK' /\ NoJournalOK'
  BY DEF IInv, TypeOK, FramesOK, SyncedOK, NoJournalOK
<1>4. DownOK' /\ WorkingOK' /\ HolderOK'
  BY DEF IInv, TypeOK, DownOK, WorkingOK, HolderOK, Down, Serving, PCs, Recoverable, RecoveredFrom
<1>5. ServesAcknowledged' /\ CrashKeepsAcknowledged' /\ ReplayNeverRefuses'
  BY DEF IInv, TypeOK, ServesAcknowledged, CrashKeepsAcknowledged, ReplayNeverRefuses,
         DownOK, NoJournalOK, Serving, PCs, Down, Recoverable, RecoveredFrom
<1> QED
  BY <1>1, <1>2, <1>3, <1>4, <1>5 DEF IInv

(* OpenRefusesTail preserves the invariant. *)
LEMMA OpenRefusesTailStep == IInv /\ OpenRefusesTail => IInv'
<1> SUFFICES ASSUME IInv, OpenRefusesTail PROVE IInv'
  OBVIOUS
<1> USE DEF OpenRefusesTail, mutex, state, local, files, ghost
<1>1. TypeOK'
  BY ApplyType, BoundsAssumption DEF IInv, TypeOK, PCs, Revisions, Times
<1>2. HistoryOK'
  BY DEF IInv, TypeOK, HistoryOK
<1>3. FramesOK' /\ SyncedOK' /\ NoJournalOK'
  BY DEF IInv, TypeOK, FramesOK, SyncedOK, NoJournalOK
<1>4. DownOK' /\ WorkingOK' /\ HolderOK'
  BY DEF IInv, TypeOK, DownOK, WorkingOK, HolderOK, Down, Serving, PCs, Recoverable, RecoveredFrom
<1>5. ServesAcknowledged' /\ CrashKeepsAcknowledged' /\ ReplayNeverRefuses'
  BY DEF IInv, TypeOK, ServesAcknowledged, CrashKeepsAcknowledged, ReplayNeverRefuses,
         DownOK, NoJournalOK, Serving, PCs, Down, Recoverable, RecoveredFrom
<1> QED
  BY <1>1, <1>2, <1>3, <1>4, <1>5 DEF IInv

(* FinishOpen preserves the invariant. *)
LEMMA FinishOpenStep == IInv /\ FinishOpen => IInv'
<1> SUFFICES ASSUME IInv, FinishOpen PROVE IInv'
  OBVIOUS
<1> PICK mode \in Durabilities : Load(mode)
  BY DEF FinishOpen
<1> USE DEF local
<1>0. TypeOK
  BY DEF IInv
<1>a. \A i \in 1 .. Len(journal) : journal[i].revision <= durable.revision
  <2> SUFFICES ASSUME NEW i \in 1 .. Len(journal), journal[i].revision > durable.revision
               PROVE  FALSE
    BY <1>0, NumberFacts, JournalFacts
  <2> i \in Unreplayed
    BY DEF Unreplayed
  <2> QED
    BY DEF FinishOpen
<1>b. pc = "replay" /\ acked = durable.revision /\ Len(history) = acked + 1 /\ database = durable
      /\ tail = "clean"
  <2>1. pc = "replay"
    BY DEF FinishOpen
  <2>2. acked = Recoverable /\ Len(history) = acked + 1 /\ database = durable /\ tail = "clean"
    BY <2>1 DEF IInv, DownOK, Down
  <2>3. Recoverable = durable.revision
    BY <1>0, <1>a, NumberFacts, JournalFacts DEF Recoverable, RecoveredFrom
  <2> QED
    BY <2>1, <2>2, <2>3
<1>c. /\ journal' = <<>> /\ synced' = <<>> /\ tail' = tail /\ Len(journal') = 0
      /\ pc' = "idle" /\ requires_restart' = FALSE
      /\ memory' = [revision |-> durable.revision, time |-> durable.time]
      /\ safe' = durable.revision /\ acked' = acked /\ history' = history
      /\ database' = database /\ durable' = durable
  BY NoFrames DEF FinishOpen, Load
<1>1. TypeOK'
  <2>1. memory' \in [revision : Revisions, time : Times] /\ safe' \in Revisions
    BY <1>0, <1>c DEF TypeOK, Persisted
  <2> QED
    BY <1>0, <1>c, <2>1, NoFrames DEF TypeOK, Load, PCs
<1>2. HistoryOK'
  BY <1>0, <1>b, <1>c, NumberFacts, HistoryFacts DEF IInv, HistoryOK
<1>3. FramesOK' /\ SyncedOK' /\ NoJournalOK'
  BY <1>b, <1>c DEF FramesOK, SyncedOK, NoJournalOK
<1>4. DownOK' /\ HolderOK'
  BY <1>c DEF DownOK, HolderOK, Down, Serving
<1>5. WorkingOK'
  BY <1>0, <1>b, <1>c, NumberFacts, HistoryFacts DEF IInv, HistoryOK, WorkingOK
<1>6. ServesAcknowledged' /\ CrashKeepsAcknowledged' /\ ReplayNeverRefuses'
  BY <1>0, <1>b, <1>c, NumberFacts, HistoryFacts
  DEF IInv, HistoryOK, ServesAcknowledged, CrashKeepsAcknowledged, ReplayNeverRefuses, Recoverable,
      RecoveredFrom
<1> QED
  BY <1>1, <1>2, <1>3, <1>4, <1>5, <1>6 DEF IInv

(* OpenWithoutJournal preserves the invariant. *)
LEMMA OpenWithoutJournalStep == IInv /\ OpenWithoutJournal => IInv'
<1> SUFFICES ASSUME IInv, OpenWithoutJournal PROVE IInv'
  OBVIOUS
<1> PICK mode \in Durabilities : Load(mode)
  BY DEF OpenWithoutJournal
<1>0. TypeOK /\ ~Journaled /\ pc \in {"crashed", "cut"}
  BY DEF IInv, OpenWithoutJournal
<1>a. journal = <<>> /\ synced = <<>> /\ tail = "clean" /\ Len(journal) = 0 /\ Len(synced) = 0
  BY <1>0, NoFrames DEF IInv, NoJournalOK
<1>b. acked = durable.revision /\ Len(history) = acked + 1 /\ database = durable
  BY <1>0, <1>a DEF IInv, DownOK, Down, Recoverable, RecoveredFrom
<1>c. /\ journal' = journal /\ synced' = synced /\ tail' = tail
      /\ pc' = "idle" /\ requires_restart' = FALSE
      /\ memory' = [revision |-> durable.revision, time |-> durable.time]
      /\ safe' = durable.revision /\ acked' = acked /\ history' = history
      /\ database' = database /\ durable' = durable
  BY DEF OpenWithoutJournal, Load
<1>1. TypeOK'
  <2>1. memory' \in [revision : Revisions, time : Times] /\ safe' \in Revisions
    BY <1>0, <1>c DEF TypeOK, Persisted
  <2> QED
    BY <1>0, <1>c, <2>1 DEF TypeOK, Load, PCs, local
<1>d. TypeOK /\ HistoryOK
  BY DEF IInv
<1>2. HistoryOK'
  BY <1>b, <1>c, <1>d, NumberFacts DEF HistoryOK
<1>3. FramesOK' /\ SyncedOK' /\ NoJournalOK'
  BY <1>a, <1>c DEF FramesOK, SyncedOK, NoJournalOK
<1>4. DownOK' /\ HolderOK'
  BY <1>c DEF DownOK, HolderOK, Down, Serving
<1>5. WorkingOK'
  BY <1>0, <1>a, <1>b, <1>c, NumberFacts DEF IInv, NoJournalOK, HistoryOK, WorkingOK
<1>6. ServesAcknowledged' /\ CrashKeepsAcknowledged' /\ ReplayNeverRefuses'
  BY <1>0, <1>b, <1>c DEF IInv, HistoryOK, ServesAcknowledged, CrashKeepsAcknowledged,
                          ReplayNeverRefuses
<1> QED
  BY <1>1, <1>2, <1>3, <1>4, <1>5, <1>6 DEF IInv

(* redb's durable state overtakes every frame of the journal. *)
LEMMA OvertakeFrames ==
    ASSUME TypeOK, SyncedOK, durable' \in Persisted, journal' = journal, synced' = synced,
           durable'.revision >= durable.revision,
           \A i \in 1 .. Len(journal) : journal[i].revision <= durable'.revision
    PROVE  FramesOK' /\ SyncedOK'
<1>1. durable'.revision \in Nat /\ durable.revision \in Nat
  BY BoundsAssumption, NumberFacts DEF Persisted, Revisions
<1>2. FramesOK'
  BY <1>1, JournalFacts DEF FramesOK
<1>3. synced \in Seq(WalRecord)
  BY DEF TypeOK
<1>4. ASSUME NEW i \in 1 .. Len(synced) PROVE synced[i].revision <= durable'.revision
  <2>1. synced[i].revision \in Nat /\ Len(synced) \in Nat
    BY <1>3, FrameFacts
  <2>2. CASE synced[i].revision <= durable.revision
    BY <1>1, <2>1, <2>2
  <2>3. CASE Len(synced) <= Len(journal) /\ synced[i] = journal[i]
    BY <2>1, <2>3, JournalFacts
  <2> QED
    BY <2>2, <2>3 DEF SyncedOK
<1> QED
  BY <1>2, <1>4 DEF SyncedOK

(* The planned record becomes the journal's last frame. *)
LEMMA AppendFrame ==
    ASSUME TypeOK, FramesOK, WorkingOK, HolderOK, CrashKeepsAcknowledged,
           Journaled, pc = "append", journal' = Append(journal, plan),
           UNCHANGED <<durable, history, acked>>
    PROVE  /\ journal' \in Seq(WalRecord)
           /\ Len(journal') = Len(journal) + 1
           /\ journal'[Len(journal) + 1] = plan
           /\ \A i \in 1 .. Len(journal) : journal'[i] = journal[i]
           /\ FramesOK' /\ CrashKeepsAcknowledged'
<1>1. /\ journal' \in Seq(WalRecord)
      /\ Len(journal') = Len(journal) + 1
      /\ journal'[Len(journal) + 1] = plan
      /\ \A i \in 1 .. Len(journal) : journal'[i] = journal[i]
  <2>1. journal \in Seq(WalRecord) /\ plan \in WalRecord
    BY DEF TypeOK
  <2> QED
    BY <2>1, AppendProperties
<1>6. \A j \in 1 .. Len(journal') : j \in 1 .. Len(journal) \/ j = Len(journal) + 1
  <2>1. Len(journal) \in Nat /\ Len(journal') = Len(journal) + 1
    BY <1>1, JournalFacts
  <2> QED
    BY <2>1
<1>2. ~requires_restart /\ pc \in Serving
  BY DEF HolderOK, Serving, Down, PCs
<1>3. /\ Len(history) = acked + 2 /\ plan.revision = acked + 1
      /\ \A i \in 1 .. Len(journal) : journal[i].revision <= acked
      /\ durable.revision <= acked
      /\ plan.time = history[plan.revision + 1].time
      /\ history[plan.revision + 1].docs =
             apply_mutations(history[plan.revision].docs, plan.mutations)
  BY <1>2, NumberFacts, HistoryFacts DEF WorkingOK, HolderOK
<1>4. FramesOK'
  <2> SUFFICES ASSUME NEW i \in 1 .. Len(journal'), journal'[i].revision > durable.revision
               PROVE  LET r == journal'[i].revision IN
                      /\ r < Len(history)
                      /\ journal'[i].time = history[r + 1].time
                      /\ history[r + 1].docs = apply_mutations(history[r].docs, journal'[i].mutations)
                      /\ \A j \in 1 .. Len(journal') : i < j => journal'[j].revision > r
                      /\ r = durable.revision + 1 \/ (i > 1 /\ journal'[i - 1].revision = r - 1)
    BY DEF FramesOK
  <2>1. CASE i \in 1 .. Len(journal)
    <3>1. journal'[i] = journal[i] /\ (i > 1 => journal'[i - 1] = journal[i - 1])
      BY <1>1, <2>1, JournalFacts
    <3>2. \A j \in 1 .. Len(journal') : i < j => journal'[j].revision > journal[i].revision
      <4> SUFFICES ASSUME NEW j \in 1 .. Len(journal'), i < j
                   PROVE  journal'[j].revision > journal[i].revision
        OBVIOUS
      <4>1. CASE j \in 1 .. Len(journal)
        BY <1>1, <2>1, <3>1, <4>1 DEF FramesOK
      <4>2. CASE j = Len(journal) + 1
        <5>1. journal'[j].revision = acked + 1 /\ journal[i].revision <= acked
          BY <1>1, <1>3, <2>1, <4>2
        <5>2. acked \in Nat /\ journal[i].revision \in Nat
          BY <2>1, NumberFacts, JournalFacts
        <5> QED
          BY <5>1, <5>2
      <4> QED
        BY <1>6, <4>1, <4>2
    <3> QED
      BY <2>1, <3>1, <3>2 DEF FramesOK
  <2>2. CASE i = Len(journal) + 1
    <3>1. journal'[i] = plan /\ (i > 1 => journal'[i - 1] = journal[Len(journal)])
      BY <1>1, <2>2, JournalFacts
    <3>2. plan.revision = durable.revision + 1
          \/ (i > 1 /\ journal[Len(journal)].revision = plan.revision - 1)
      <4>1. acked \in Nat /\ durable.revision \in Nat /\ Len(journal) \in Nat
        BY NumberFacts, JournalFacts
      <4>2. CASE acked = durable.revision
        BY <1>3, <4>1, <4>2
      <4>3. CASE acked > durable.revision
        <5>1. Len(journal) > 0 /\ journal[Len(journal)].revision >= acked
          BY <4>1, <4>3 DEF CrashKeepsAcknowledged, Recoverable, RecoveredFrom
        <5>2. Len(journal) \in 1 .. Len(journal)
          BY <4>1, <5>1
        <5>3. journal[Len(journal)].revision <= acked /\ journal[Len(journal)].revision \in Nat
          BY <1>3, <5>2, JournalFacts
        <5> QED
          BY <1>3, <2>2, <4>1, <5>1, <5>3
      <4> QED
        BY <1>3, <4>1, <4>2, <4>3
    <3>3. \A j \in 1 .. Len(journal') : ~(i < j)
      BY <1>1, <2>2, JournalFacts
    <3>4. plan.revision < Len(history)
      BY <1>3, NumberFacts
    <3> QED
      BY <1>3, <3>1, <3>2, <3>3, <3>4
  <2> QED
    BY <1>6, <2>1, <2>2
<1>5. CrashKeepsAcknowledged'
  <2>1. Len(journal') > 0 /\ journal'[Len(journal')].revision = acked + 1
    <3>1. Len(journal) \in Nat
      BY JournalFacts
    <3> QED
      BY <1>1, <1>3, <3>1
  <2>2. acked \in Nat /\ durable.revision \in Nat
    BY NumberFacts
  <2> QED
    BY <1>3, <2>1, <2>2 DEF CrashKeepsAcknowledged, Recoverable, RecoveredFrom
<1> QED
  BY <1>1, <1>4, <1>5

(* AppendFails preserves the invariant. *)
LEMMA AppendFailsStep == IInv /\ AppendFails => IInv'
<1> SUFFICES ASSUME IInv, AppendFails PROVE IInv'
  OBVIOUS
<1>0. TypeOK /\ HistoryOK /\ FramesOK /\ SyncedOK /\ WorkingOK /\ HolderOK
      /\ ServesAcknowledged /\ CrashKeepsAcknowledged
  BY DEF IInv
<1>a. pc = "append" /\ pc' = "idle" /\ requires_restart' = TRUE /\ ~requires_restart
      /\ UNCHANGED <<durability, memory, unflushed, plan, batches, transaction, database,
                     durable, synced, history, acked, safe>>
  BY <1>0 DEF AppendFails, Fence, local, ghost, HolderOK, Serving, Down, PCs
<1>b. Journaled
  BY <1>a DEF IInv, NoJournalOK
<1>c. CASE journal' = journal /\ tail' \in {"clean", "short", "bad"}
  <2>1. TypeOK'
    BY <1>0, <1>a, <1>c DEF TypeOK, PCs
  <2>2. HistoryOK' /\ FramesOK' /\ SyncedOK' /\ NoJournalOK'
    BY <1>0, <1>a, <1>b, <1>c DEF HistoryOK, FramesOK, SyncedOK, NoJournalOK
  <2>3. DownOK' /\ WorkingOK' /\ HolderOK' /\ ReplayNeverRefuses'
    BY <1>a DEF DownOK, WorkingOK, HolderOK, Down, Serving, ReplayNeverRefuses
  <2>4. ServesAcknowledged' /\ CrashKeepsAcknowledged'
    BY <1>0, <1>a, <1>c DEF ServesAcknowledged, CrashKeepsAcknowledged, Serving, Down, PCs,
                            Recoverable, RecoveredFrom
  <2> QED
    BY <2>1, <2>2, <2>3, <2>4 DEF IInv
<1>d. CASE tail' = tail /\ journal' = Append(journal, plan)
  <2>0. /\ journal' \in Seq(WalRecord) /\ Len(journal') = Len(journal) + 1
        /\ \A i \in 1 .. Len(journal) : journal'[i] = journal[i]
        /\ FramesOK' /\ CrashKeepsAcknowledged'
    BY <1>0, <1>a, <1>b, <1>d, AppendFrame
  <2>1. TypeOK'
    BY <1>0, <1>a, <1>d, <2>0 DEF TypeOK, PCs
  <2>2. HistoryOK' /\ NoJournalOK'
    BY <1>0, <1>a, <1>b DEF HistoryOK, NoJournalOK
  <2>3. SyncedOK'
    BY <1>0, <1>a, <2>0, JournalFacts DEF SyncedOK
  <2>4. DownOK' /\ WorkingOK' /\ HolderOK' /\ ReplayNeverRefuses'
    BY <1>a DEF DownOK, WorkingOK, HolderOK, Down, Serving, ReplayNeverRefuses
  <2>5. ServesAcknowledged'
    BY <1>0, <1>a DEF ServesAcknowledged, Serving, Down, PCs
  <2> QED
    BY <2>0, <2>1, <2>2, <2>3, <2>4, <2>5 DEF IInv
<1> QED
  BY <1>0, <1>c, <1>d DEF AppendFails, WriteFrame, TypeOK

(* AppendJournal preserves the invariant. *)
LEMMA AppendJournalStep == IInv /\ AppendJournal => IInv'
<1> SUFFICES ASSUME IInv, AppendJournal PROVE IInv'
  OBVIOUS
<1>0. TypeOK /\ HistoryOK /\ FramesOK /\ SyncedOK /\ WorkingOK /\ HolderOK
      /\ ServesAcknowledged /\ CrashKeepsAcknowledged
  BY DEF IInv
<1>a. pc = "append" /\ pc' = "persist" /\ ~requires_restart
      /\ UNCHANGED <<durability, memory, requires_restart, unflushed, plan, batches, transaction,
                     database, durable, history, acked, safe>>
      /\ synced' \in {journal', synced}
  BY <1>0 DEF AppendJournal, state, local, ghost, HolderOK, Serving, Down, PCs
<1>b. Journaled /\ tail = "clean"
  BY <1>0, <1>a DEF IInv, NoJournalOK, WorkingOK, Serving, Down, PCs
<1>c. tail' = tail /\ journal' = Append(journal, plan)
  BY <1>b DEF AppendJournal, WriteFrame
<1>d. /\ journal' \in Seq(WalRecord) /\ Len(journal') = Len(journal) + 1
      /\ journal'[Len(journal) + 1] = plan
      /\ \A i \in 1 .. Len(journal) : journal'[i] = journal[i]
      /\ FramesOK' /\ CrashKeepsAcknowledged'
  BY <1>0, <1>a, <1>b, <1>c, AppendFrame
<1>1. TypeOK'
  BY <1>0, <1>a, <1>c, <1>d DEF TypeOK, PCs
<1>2. HistoryOK' /\ NoJournalOK'
  BY <1>0, <1>a, <1>b DEF HistoryOK, NoJournalOK
<1>3. SyncedOK'
  BY <1>0, <1>a, <1>d, JournalFacts DEF SyncedOK
<1>4. DownOK' /\ ReplayNeverRefuses'
  BY <1>a DEF DownOK, Down, ReplayNeverRefuses
<1>5. WorkingOK'
  <2>1. \A i \in 1 .. Len(journal') : journal'[i].revision <= acked \/ i = Len(journal')
    BY <1>0, <1>a, <1>d, JournalFacts DEF WorkingOK, Serving, Down, PCs
  <2> QED
    BY <1>0, <1>a, <1>b, <1>c, <2>1 DEF WorkingOK, Serving, Down, PCs
<1>6. HolderOK'
  BY <1>0, <1>a, <1>d, JournalFacts DEF HolderOK, Serving, Down, PCs
<1>7. ServesAcknowledged'
  BY <1>0, <1>a DEF ServesAcknowledged, Serving, Down, PCs
<1> QED
  BY <1>1, <1>2, <1>3, <1>4, <1>5, <1>6, <1>7, <1>d DEF IInv

(* What the record of the commit under way makes of redb's contents. *)
LEMMA PersistFacts ==
    ASSUME IInv, pc = "persist"
    PROVE  LET d == persist_record(database, plan) IN
           /\ ~requires_restart /\ tail = "clean"
           /\ d \in Persisted
           /\ d.revision = acked + 1 /\ plan.revision = acked + 1 /\ plan.time = d.time
           /\ Len(history) = acked + 2
           /\ d.time = history[acked + 2].time
           /\ d.docs = history[acked + 2].docs
           /\ durable.revision <= acked
           /\ acked \in Nat /\ durable.revision \in Nat
           /\ \A i \in 1 .. Len(journal) : journal[i].revision <= acked + 1
<1>0. TypeOK /\ HistoryOK /\ WorkingOK /\ HolderOK /\ ServesAcknowledged
  BY DEF IInv
<1>1. ~requires_restart /\ pc \in Serving
  BY <1>0 DEF HolderOK, Serving, Down, PCs
<1>2. acked \in Nat /\ durable.revision \in Nat /\ plan.revision \in Nat
  BY <1>0, NumberFacts
<1>3. /\ tail = "clean" /\ Len(history) = acked + 2 /\ durable.revision <= acked
      /\ memory.revision = acked /\ plan.revision = acked + 1
  BY <1>0, <1>1, <1>2 DEF WorkingOK, HolderOK
<1>4. database \in Persisted /\ plan \in WalRecord
  BY <1>0 DEF TypeOK
<1>5. persist_record(database, plan) \in Persisted
  BY <1>4, PersistType
<1>6. /\ plan.time = history[acked + 2].time
      /\ history[acked + 2].docs = apply_mutations(history[acked + 1].docs, plan.mutations)
      /\ database.docs = history[acked + 1].docs
  BY <1>0, <1>1, <1>2, <1>3 DEF HolderOK, ServesAcknowledged
<1>7. ASSUME NEW i \in 1 .. Len(journal) PROVE journal[i].revision <= acked + 1
  <2>1. journal[i].revision \in Nat
    BY <1>0, JournalFacts
  <2>2. CASE journal[i].revision <= acked
    BY <1>2, <2>1, <2>2
  <2>3. CASE i = Len(journal)
    <3>1. Journaled
      BY <1>0, <2>3, JournalFacts, NoFrames DEF IInv, NoJournalOK
    <3>2. journal[i] = plan
      BY <1>0, <2>3, <3>1 DEF HolderOK
    <3> QED
      BY <1>2, <1>3, <3>2
  <2> QED
    BY <1>0, <1>1, <2>2, <2>3 DEF WorkingOK
<1> QED
  BY <1>1, <1>2, <1>3, <1>5, <1>6, <1>7 DEF persist_record

(* PersistCommit preserves the invariant. *)
LEMMA PersistCommitStep == IInv /\ PersistCommit => IInv'
<1> SUFFICES ASSUME IInv, PersistCommit PROVE IInv'
  OBVIOUS
<1> DEFINE d == persist_record(database, plan)
<1>0. TypeOK /\ HistoryOK /\ FramesOK /\ SyncedOK /\ NoJournalOK /\ CrashKeepsAcknowledged
      /\ HolderOK
  BY DEF IInv
<1>a. /\ pc = "persist" /\ pc' \in {"idle", "checkpoint"} /\ (pc' = "checkpoint" => Journaled)
      /\ UNCHANGED <<durability, requires_restart, plan, batches, transaction, journal, tail,
                     synced, history>>
      /\ database' = d /\ acked' = plan.revision
      /\ memory' = [revision |-> plan.revision, time |-> plan.time]
      /\ \/ durable' = d /\ safe' = plan.revision /\ UNCHANGED unflushed
         \/ durable' = durable /\ safe' = safe /\ pc' = "idle" /\ unflushed' = TRUE
  BY DEF PersistCommit, RedbCommit, redb_durability, MarkUnflushed, local
<1>b. /\ ~requires_restart /\ tail = "clean"
      /\ d \in Persisted
      /\ d.revision = acked + 1 /\ plan.revision = acked + 1 /\ plan.time = d.time
      /\ Len(history) = acked + 2
      /\ d.time = history[acked + 2].time
      /\ d.docs = history[acked + 2].docs
      /\ durable.revision <= acked
      /\ acked \in Nat /\ durable.revision \in Nat
      /\ \A i \in 1 .. Len(journal) : journal[i].revision <= acked + 1
  BY <1>a, PersistFacts
<1> HIDE DEF d
<1>1. TypeOK'
  <2>1. plan.revision \in Revisions /\ plan.time \in Times
    BY <1>0 DEF TypeOK, WalRecord
  <2>2. memory' \in [revision : Revisions, time : Times] /\ acked' \in Revisions
    BY <1>a, <2>1
  <2>3. durable' \in Persisted /\ safe' \in Revisions /\ unflushed' \in BOOLEAN
    BY <1>0, <1>a, <1>b, <2>1 DEF TypeOK
  <2> QED
    BY <1>0, <1>a, <1>b, <2>2, <2>3 DEF TypeOK, PCs
<1>2. HistoryOK'
  <2>1. safe \in Nat
    BY <1>0, NumberFacts
  <2> QED
    BY <1>0, <1>a, <1>b, <2>1 DEF HistoryOK
<1>3. FramesOK' /\ SyncedOK'
  <2>1. CASE durable' = d
    BY <1>0, <1>a, <1>b, <2>1, OvertakeFrames
  <2>2. CASE durable' = durable
    BY <1>0, <1>a, <2>2 DEF FramesOK, SyncedOK
  <2> QED
    BY <1>a, <2>1, <2>2
<1>4. NoJournalOK' /\ DownOK' /\ ReplayNeverRefuses'
  BY <1>0, <1>a DEF NoJournalOK, DownOK, Down, ReplayNeverRefuses
<1>5. WorkingOK'
  BY <1>a, <1>b DEF WorkingOK
<1>6. HolderOK'
  BY <1>a, <1>b DEF HolderOK
<1>7. ServesAcknowledged'
  BY <1>a, <1>b DEF ServesAcknowledged
<1>8. CrashKeepsAcknowledged'
  <2>1. CASE durable' = d
    <3>1. Len(journal) \in Nat /\ (Len(journal) > 0 => journal[Len(journal)].revision \in Nat)
      BY <1>0, JournalFacts
    <3> QED
      BY <1>a, <1>b, <2>1, <3>1 DEF CrashKeepsAcknowledged, Recoverable, RecoveredFrom
  <2>2. CASE Journaled /\ durable' = durable
    <3>1. Len(journal) > 0 /\ journal[Len(journal)] = plan
      BY <1>0, <1>a, <2>2 DEF HolderOK
    <3> QED
      BY <1>a, <1>b, <2>2, <3>1 DEF CrashKeepsAcknowledged, Recoverable, RecoveredFrom
  <2> QED
    BY <1>a, <2>1, <2>2 DEF CrashKeepsAcknowledged
<1> QED
  BY <1>1, <1>2, <1>3, <1>4, <1>5, <1>6, <1>7, <1>8 DEF IInv

(* PersistFails preserves the invariant. *)
LEMMA PersistFailsStep == IInv /\ PersistFails => IInv'
<1> SUFFICES ASSUME IInv, PersistFails PROVE IInv'
  OBVIOUS
<1> DEFINE d == persist_record(database, plan)
<1>0. TypeOK /\ HistoryOK /\ FramesOK /\ SyncedOK /\ NoJournalOK /\ CrashKeepsAcknowledged
      /\ ServesAcknowledged
  BY DEF IInv
<1>a. /\ pc = "persist" /\ pc' = "idle" /\ requires_restart' = TRUE
      /\ UNCHANGED <<durability, memory, unflushed, plan, batches, transaction, database,
                     journal, tail, synced, history, acked, safe>>
      /\ durable' = d \/ durable' = durable
  BY DEF PersistFails, Fence, RedbCommitFails, local, ghost
<1>b. /\ d \in Persisted
      /\ d.revision = acked + 1
      /\ Len(history) = acked + 2
      /\ d.time = history[acked + 2].time
      /\ d.docs = history[acked + 2].docs
      /\ durable.revision <= acked
      /\ acked \in Nat /\ durable.revision \in Nat
      /\ \A i \in 1 .. Len(journal) : journal[i].revision <= acked + 1
  BY <1>a, PersistFacts
<1> HIDE DEF d
<1>1. TypeOK'
  BY <1>0, <1>a, <1>b DEF TypeOK, PCs
<1>2. HistoryOK'
  <2>1. safe \in Nat
    BY <1>0, NumberFacts
  <2> QED
    BY <1>0, <1>a, <1>b, <2>1 DEF HistoryOK
<1>3. FramesOK' /\ SyncedOK'
  <2>1. CASE durable' = d
    BY <1>0, <1>a, <1>b, <2>1, OvertakeFrames
  <2>2. CASE durable' = durable
    BY <1>0, <1>a, <2>2 DEF FramesOK, SyncedOK
  <2> QED
    BY <1>a, <2>1, <2>2
<1>4. NoJournalOK' /\ DownOK' /\ WorkingOK' /\ HolderOK' /\ ReplayNeverRefuses'
  BY <1>0, <1>a DEF NoJournalOK, DownOK, WorkingOK, HolderOK, Down, Serving, ReplayNeverRefuses
<1>5. ServesAcknowledged'
  BY <1>0, <1>a DEF ServesAcknowledged, Serving, Down, PCs
<1>6. CrashKeepsAcknowledged'
  <2>1. CASE durable' = d
    <3>1. Len(journal) \in Nat /\ (Len(journal) > 0 => journal[Len(journal)].revision \in Nat)
      BY <1>0, JournalFacts
    <3> QED
      BY <1>a, <1>b, <2>1, <3>1 DEF CrashKeepsAcknowledged, Recoverable, RecoveredFrom
  <2>2. CASE durable' = durable
    BY <1>0, <1>a, <2>2 DEF CrashKeepsAcknowledged, Recoverable, RecoveredFrom
  <2> QED
    BY <1>a, <2>1, <2>2
<1> QED
  BY <1>1, <1>2, <1>3, <1>4, <1>5, <1>6 DEF IInv

(* While the mutex is held and no commit is planned, the State is at the    *)
(* last acknowledged revision, or past it by the batches of a bulk load.    *)
LEMMA WorkingFacts ==
    ASSUME IInv, pc \in Serving, ~requires_restart, pc \notin {"append", "persist"}
    PROVE  /\ tail = "clean"
           /\ memory.revision \in Nat /\ acked \in Nat /\ durable.revision \in Nat /\ safe \in Nat
           /\ batches \in Nat
           /\ Len(history) = memory.revision + 1
           /\ memory.time = history[memory.revision + 1].time
           /\ memory.revision = acked + IF pc = "bulk" THEN batches ELSE 0
           /\ durable.revision <= acked
           /\ \A i \in 1 .. Len(journal) : journal[i].revision <= acked
           /\ database.revision = acked
           /\ database.time = history[acked + 1].time
           /\ database.docs = history[acked + 1].docs
<1>1. TypeOK /\ WorkingOK /\ ServesAcknowledged
  BY DEF IInv
<1> QED
  BY <1>1, NumberFacts DEF WorkingOK, ServesAcknowledged

(* The journal is truncated when redb has overtaken it. *)
LEMMA CheckpointFacts ==
    ASSUME IInv, pc \in {"checkpoint", "flush_checkpoint"},
           UNCHANGED <<durable, history, acked>>,
           Checkpoint \/ CheckpointFails
    PROVE  /\ journal' \in Seq(WalRecord) /\ synced' \in Seq(WalRecord) /\ tail' = "clean"
           /\ FramesOK' /\ SyncedOK'
           /\ CrashKeepsAcknowledged'
           /\ \A i \in 1 .. Len(journal') : journal'[i].revision <= acked
<1>0. TypeOK /\ FramesOK /\ SyncedOK /\ HolderOK /\ CrashKeepsAcknowledged
  BY DEF IInv
<1>1. pc \in Serving /\ ~requires_restart /\ durable.revision = acked
  BY <1>0 DEF HolderOK, Serving, Down, PCs
<1>2. tail = "clean" /\ acked \in Nat /\ \A i \in 1 .. Len(journal) : journal[i].revision <= acked
  BY <1>1, WorkingFacts
<1>3. CASE UNCHANGED <<journal, tail, synced>>
  BY <1>0, <1>2, <1>3 DEF TypeOK, FramesOK, SyncedOK, CrashKeepsAcknowledged, Recoverable,
                          RecoveredFrom
<1>4. CASE journal' = <<>> /\ tail' = "clean" /\ synced' \in {synced, <<>>}
  <2>1. Len(journal') = 0 /\ journal' \in Seq(WalRecord) /\ synced' \in Seq(WalRecord)
    BY <1>0, <1>4, NoFrames DEF TypeOK
  <2>2. FramesOK' /\ CrashKeepsAcknowledged'
    BY <1>1, <1>2, <2>1 DEF FramesOK, CrashKeepsAcknowledged, Recoverable, RecoveredFrom
  <2>3. ASSUME NEW i \in 1 .. Len(synced') PROVE synced'[i].revision <= durable.revision
    <3>1. synced' = synced
      BY <1>4, NoFrames
    <3>2. synced \in Seq(WalRecord)
      BY <1>0 DEF TypeOK
    <3>3. CASE synced[i].revision <= durable.revision
      BY <3>1, <3>3
    <3>4. CASE Len(synced) <= Len(journal) /\ synced[i] = journal[i]
      <4>1. Len(synced) \in Nat /\ Len(journal) \in Nat
        BY <1>0, <3>2, FrameFacts, JournalFacts
      <4> QED
        BY <1>1, <1>2, <3>1, <3>4, <4>1
    <3> QED
      BY <1>0, <3>1, <3>3, <3>4 DEF SyncedOK
  <2> QED
    BY <1>4, <2>1, <2>2, <2>3 DEF SyncedOK
<1> QED
  BY <1>3, <1>4 DEF Checkpoint, CheckpointFails

(* CheckpointCommit preserves the invariant. *)
LEMMA CheckpointCommitStep == IInv /\ CheckpointCommit => IInv'
<1> SUFFICES ASSUME IInv, CheckpointCommit PROVE IInv'
  OBVIOUS
<1>0. TypeOK /\ HistoryOK /\ NoJournalOK /\ HolderOK /\ WorkingOK /\ ServesAcknowledged
  BY DEF IInv
<1>a. /\ pc = "checkpoint" /\ pc' = "idle" /\ (Checkpoint \/ CheckpointFails)
      /\ UNCHANGED <<durability, memory, requires_restart, unflushed, plan, batches, transaction,
                     database, durable, history, acked, safe>>
  BY DEF CheckpointCommit, state, local, ghost
<1>b. /\ journal' \in Seq(WalRecord) /\ synced' \in Seq(WalRecord) /\ tail' = "clean"
      /\ FramesOK' /\ SyncedOK' /\ CrashKeepsAcknowledged'
      /\ \A i \in 1 .. Len(journal') : journal'[i].revision <= acked
  BY <1>a, CheckpointFacts
<1>1. TypeOK'
  BY <1>0, <1>a, <1>b DEF TypeOK, PCs
<1>2. HistoryOK' /\ NoJournalOK' /\ DownOK' /\ ReplayNeverRefuses'
  BY <1>0, <1>a DEF HistoryOK, NoJournalOK, DownOK, Down, ReplayNeverRefuses
<1>3. WorkingOK' /\ HolderOK' /\ ServesAcknowledged'
  BY <1>0, <1>a, <1>b DEF WorkingOK, HolderOK, ServesAcknowledged, Serving, Down, PCs
<1> QED
  BY <1>1, <1>2, <1>3, <1>b DEF IInv

(* CheckpointFlush preserves the invariant. *)
LEMMA CheckpointFlushStep == IInv /\ CheckpointFlush => IInv'
<1> SUFFICES ASSUME IInv, CheckpointFlush PROVE IInv'
  OBVIOUS
<1>0. TypeOK /\ HistoryOK /\ NoJournalOK /\ HolderOK /\ WorkingOK /\ ServesAcknowledged
  BY DEF IInv
<1>a. /\ pc = "flush_checkpoint" /\ pc' = "idle" /\ Checkpoint
      /\ unflushed' = FALSE /\ safe' = memory.revision
      /\ UNCHANGED <<durability, memory, requires_restart, plan, batches, transaction,
                     database, durable, history, acked>>
  BY DEF CheckpointFlush, local
<1>b. /\ journal' \in Seq(WalRecord) /\ synced' \in Seq(WalRecord) /\ tail' = "clean"
      /\ FramesOK' /\ SyncedOK' /\ CrashKeepsAcknowledged'
      /\ \A i \in 1 .. Len(journal') : journal'[i].revision <= acked
  BY <1>a, CheckpointFacts
<1>c. pc \in Serving /\ ~requires_restart /\ durable.revision = acked
  BY <1>0, <1>a DEF HolderOK, Serving, Down, PCs
<1>d. memory.revision = acked /\ acked \in Nat
  BY <1>a, <1>c, WorkingFacts
<1>1. TypeOK'
  <2>1. safe' \in Revisions
    BY <1>0, <1>a, <1>d DEF TypeOK
  <2> QED
    BY <1>0, <1>a, <1>b, <2>1 DEF TypeOK, PCs
<1>2. HistoryOK'
  BY <1>0, <1>a, <1>c, <1>d DEF HistoryOK
<1>3. NoJournalOK' /\ DownOK' /\ ReplayNeverRefuses'
  BY <1>0, <1>a DEF NoJournalOK, DownOK, Down, ReplayNeverRefuses
<1>4. WorkingOK' /\ HolderOK' /\ ServesAcknowledged'
  BY <1>0, <1>a, <1>b, <1>c DEF WorkingOK, HolderOK, ServesAcknowledged, Serving, Down, PCs
<1> QED
  BY <1>1, <1>2, <1>3, <1>4, <1>b DEF IInv

(* redb durably commits the State's revision with the documents of the end  *)
(* of the history: the flush, and the end of a bulk load.                  *)
LEMMA PersistStateFacts ==
    ASSUME IInv, pc \in {"flush_persist", "bulk"}, NEW docs \in Documents,
           docs = history[Len(history)].docs,
           UNCHANGED <<journal, synced, history>>, durable' = PersistState(docs)
    PROVE  /\ durable' \in Persisted
           /\ durable'.revision = memory.revision /\ durable'.time = memory.time
           /\ durable'.docs = docs
           /\ acked <= memory.revision
           /\ durable'.time = history[memory.revision + 1].time
           /\ durable'.docs = history[memory.revision + 1].docs
           /\ Len(history) = memory.revision + 1
           /\ \A i \in 1 .. Len(journal) : journal[i].revision <= durable'.revision
           /\ FramesOK' /\ SyncedOK'
           /\ RecoveredFrom(durable', journal) = memory.revision
<1>0. TypeOK /\ SyncedOK /\ HolderOK
  BY DEF IInv
<1>1. pc \in Serving /\ ~requires_restart
  BY <1>0 DEF HolderOK, Serving, Down, PCs
<1>2. /\ memory.revision \in Nat /\ acked \in Nat /\ durable.revision \in Nat /\ batches \in Nat
      /\ Len(history) = memory.revision + 1
      /\ memory.time = history[memory.revision + 1].time
      /\ memory.revision = acked + IF pc = "bulk" THEN batches ELSE 0
      /\ durable.revision <= acked
      /\ \A i \in 1 .. Len(journal) : journal[i].revision <= acked
  BY <1>1, WorkingFacts
<1>3. /\ durable' \in Persisted
      /\ durable'.revision = memory.revision /\ durable'.time = memory.time /\ durable'.docs = docs
  BY <1>0, PersistStateType DEF PersistState
<1>4. acked <= memory.revision
  BY <1>2
<1>5. \A i \in 1 .. Len(journal) : journal[i].revision <= durable'.revision
  <2>1. \A i \in 1 .. Len(journal) : journal[i].revision \in Nat
    BY <1>0, JournalFacts
  <2> QED
    BY <1>2, <1>3, <1>4, <2>1
<1>6. FramesOK' /\ SyncedOK'
  BY <1>0, <1>2, <1>3, <1>4, <1>5, OvertakeFrames
<1>7. RecoveredFrom(durable', journal) = memory.revision
  <2>1. Len(journal) \in Nat /\ (Len(journal) > 0 => journal[Len(journal)].revision \in Nat)
    BY <1>0, JournalFacts
  <2> QED
    BY <1>2, <1>3, <1>5, <2>1 DEF RecoveredFrom
<1> QED
  BY <1>2, <1>3, <1>4, <1>5, <1>6, <1>7

(* PersistStateDurably preserves the invariant. *)
LEMMA PersistStateDurablyStep == IInv /\ persist_state_durably => IInv'
<1> SUFFICES ASSUME IInv, persist_state_durably PROVE IInv'
  OBVIOUS
<1> DEFINE docs == database.docs
<1>0. TypeOK /\ HistoryOK /\ NoJournalOK /\ HolderOK
  BY DEF IInv
<1>a. /\ pc = "flush_persist" /\ pc' = (IF Journaled THEN "flush_checkpoint" ELSE "idle")
      /\ unflushed' = Journaled /\ safe' = (IF Journaled THEN safe ELSE memory.revision)
      /\ database' = PersistState(docs) /\ durable' = PersistState(docs)
      /\ UNCHANGED <<durability, memory, requires_restart, plan, batches, transaction,
                     journal, tail, synced, history, acked>>
  BY DEF persist_state_durably, RedbCommit, local
<1>b. pc \in Serving /\ ~requires_restart
  BY <1>0, <1>a DEF HolderOK, Serving, Down, PCs
<1>c. /\ memory.revision = acked /\ docs = history[Len(history)].docs /\ docs \in Documents
      /\ acked \in Nat /\ safe \in Nat /\ tail = "clean"
      /\ memory.time = history[memory.revision + 1].time
      /\ \A i \in 1 .. Len(journal) : journal[i].revision <= acked
  BY <1>0, <1>a, <1>b, WorkingFacts, NumberFacts
<1>d. /\ durable' \in Persisted
      /\ durable'.revision = memory.revision /\ durable'.time = memory.time
      /\ durable'.docs = docs
      /\ durable'.time = history[memory.revision + 1].time
      /\ durable'.docs = history[memory.revision + 1].docs
      /\ Len(history) = memory.revision + 1
      /\ FramesOK' /\ SyncedOK'
      /\ RecoveredFrom(durable', journal) = memory.revision
  BY <1>a, <1>c, PersistStateFacts
<1> HIDE DEF docs
<1>1. TypeOK'
  <2>1. unflushed' \in BOOLEAN /\ safe' \in Revisions
    BY <1>0, <1>a, <1>c, ModesAssumption DEF TypeOK
  <2> QED
    BY <1>0, <1>a, <1>d, <2>1 DEF TypeOK, PCs
<1>2. HistoryOK'
  BY <1>0, <1>a, <1>c, <1>d DEF HistoryOK
<1>3. NoJournalOK' /\ DownOK' /\ ReplayNeverRefuses'
  BY <1>0, <1>a DEF NoJournalOK, DownOK, Down, ReplayNeverRefuses
<1>4. WorkingOK'
  BY <1>a, <1>c, <1>d DEF WorkingOK
<1>5. HolderOK'
  BY <1>0, <1>a, <1>b, <1>c, <1>d DEF HolderOK
<1>6. ServesAcknowledged' /\ CrashKeepsAcknowledged'
  BY <1>a, <1>c, <1>d DEF ServesAcknowledged, CrashKeepsAcknowledged, Recoverable
<1> QED
  BY <1>1, <1>2, <1>3, <1>4, <1>5, <1>6, <1>d DEF IInv

(* FlushFails preserves the invariant. *)
LEMMA FlushFailsStep == IInv /\ FlushFails => IInv'
<1> SUFFICES ASSUME IInv, FlushFails PROVE IInv'
  OBVIOUS
<1>0. TypeOK /\ HistoryOK /\ FramesOK /\ SyncedOK /\ NoJournalOK /\ HolderOK
      /\ ServesAcknowledged /\ CrashKeepsAcknowledged
  BY DEF IInv
<1>a. /\ pc \in {"flush_sync", "flush_persist", "flush_checkpoint"} /\ pc' = "idle"
      /\ requires_restart' = TRUE
      /\ UNCHANGED <<durability, memory, unflushed, plan, batches, transaction, database,
                     history, acked, safe>>
      /\ \/ UNCHANGED <<durable, journal, tail, synced>>
         \/ /\ pc = "flush_persist" /\ durable' = PersistState(database.docs)
            /\ UNCHANGED <<journal, tail, synced>>
         \/ pc = "flush_checkpoint" /\ CheckpointFails /\ UNCHANGED durable
  BY DEF FlushFails, Fence, RedbCommitFails, local, ghost, files
<1>b. pc \in Serving /\ ~requires_restart
  BY <1>0, <1>a DEF HolderOK, Serving, Down, PCs
<1>c. /\ memory.revision = acked /\ database.docs = history[Len(history)].docs
      /\ database.docs \in Documents /\ acked \in Nat /\ safe \in Nat /\ tail = "clean"
      /\ durable.revision \in Nat /\ durable.revision <= acked
  <2>1. pc # "bulk" /\ pc \notin {"append", "persist"} /\ database.docs \in Documents
    BY <1>0, <1>a, NumberFacts
  <2>2. /\ memory.revision \in Nat /\ acked \in Nat /\ batches \in Nat
        /\ memory.revision = acked + IF pc = "bulk" THEN batches ELSE 0
        /\ tail = "clean" /\ safe \in Nat
        /\ Len(history) = memory.revision + 1
        /\ memory.time = history[memory.revision + 1].time
        /\ database.docs = history[acked + 1].docs
        /\ durable.revision \in Nat /\ durable.revision <= acked
        /\ \A i \in 1 .. Len(journal) : journal[i].revision <= acked
    BY <1>b, <2>1, WorkingFacts
  <2> QED
    BY <2>1, <2>2
<1>d. /\ durable' \in Persisted /\ journal' \in Seq(WalRecord) /\ synced' \in Seq(WalRecord)
      /\ tail' = "clean" /\ FramesOK' /\ SyncedOK' /\ CrashKeepsAcknowledged'
      /\ durable' = durable \/ /\ durable'.revision = acked
                               /\ durable'.time = history[acked + 1].time
                               /\ durable'.docs = history[acked + 1].docs
  <2>1. CASE UNCHANGED <<durable, journal, tail, synced>>
    BY <1>0, <1>a, <1>c, <2>1 DEF TypeOK, FramesOK, SyncedOK, CrashKeepsAcknowledged,
                                  Recoverable, RecoveredFrom
  <2>2. CASE /\ pc = "flush_persist" /\ durable' = PersistState(database.docs)
             /\ UNCHANGED <<journal, tail, synced>>
    <3>1. /\ durable' \in Persisted
          /\ durable'.revision = memory.revision
          /\ durable'.time = history[memory.revision + 1].time
          /\ durable'.docs = history[memory.revision + 1].docs
          /\ FramesOK' /\ SyncedOK'
          /\ RecoveredFrom(durable', journal) = memory.revision
      BY <1>a, <1>c, <2>2, PersistStateFacts
    <3> QED
      BY <1>0, <1>a, <1>c, <2>2, <3>1 DEF TypeOK, CrashKeepsAcknowledged, Recoverable
  <2>3. CASE pc = "flush_checkpoint" /\ CheckpointFails /\ UNCHANGED durable
    BY <1>0, <1>a, <2>3, CheckpointFacts DEF TypeOK
  <2> QED
    BY <1>a, <2>1, <2>2, <2>3
<1>1. TypeOK'
  BY <1>0, <1>a, <1>d DEF TypeOK, PCs
<1>2. HistoryOK'
  BY <1>0, <1>a, <1>c, <1>d DEF HistoryOK
<1>3. NoJournalOK' /\ DownOK' /\ WorkingOK' /\ HolderOK' /\ ReplayNeverRefuses'
  BY <1>0, <1>a, <1>d DEF NoJournalOK, DownOK, WorkingOK, HolderOK, Down, Serving,
                          ReplayNeverRefuses
<1>4. ServesAcknowledged'
  BY <1>0, <1>a, <1>b DEF ServesAcknowledged
<1> QED
  BY <1>1, <1>2, <1>3, <1>4, <1>d DEF IInv

(* BeginFlush preserves the invariant. *)
LEMMA BeginFlushStep == IInv /\ BeginFlush => IInv'
<1> SUFFICES ASSUME IInv, BeginFlush PROVE IInv'
  OBVIOUS
<1>0. TypeOK /\ HistoryOK /\ FramesOK /\ SyncedOK /\ NoJournalOK /\ WorkingOK
      /\ ServesAcknowledged /\ CrashKeepsAcknowledged
  BY DEF IInv
<1>a. /\ pc = "idle" /\ ~requires_restart
      /\ pc' = (IF Journaled THEN "flush_sync" ELSE "flush_persist")
      /\ UNCHANGED <<durability, memory, requires_restart, unflushed, plan, batches, transaction,
                     database, durable, journal, tail, synced, history, acked, safe>>
  BY DEF BeginFlush, state, local, files, ghost
<1>1. TypeOK' /\ HistoryOK' /\ FramesOK' /\ SyncedOK' /\ NoJournalOK'
  BY <1>0, <1>a DEF TypeOK, PCs, HistoryOK, FramesOK, SyncedOK, NoJournalOK
<1>2. DownOK' /\ WorkingOK' /\ HolderOK' /\ ReplayNeverRefuses'
  BY <1>0, <1>a DEF DownOK, WorkingOK, HolderOK, ReplayNeverRefuses, Serving, Down, PCs
<1>3. ServesAcknowledged' /\ CrashKeepsAcknowledged'
  BY <1>0, <1>a DEF ServesAcknowledged, CrashKeepsAcknowledged, Recoverable, RecoveredFrom,
                    Serving, Down, PCs
<1> QED
  BY <1>1, <1>2, <1>3 DEF IInv

(* SyncJournal preserves the invariant. *)
LEMMA SyncJournalStep == IInv /\ SyncJournal => IInv'
<1> SUFFICES ASSUME IInv, SyncJournal PROVE IInv'
  OBVIOUS
<1>0. TypeOK /\ HistoryOK /\ FramesOK /\ NoJournalOK /\ WorkingOK /\ HolderOK
      /\ ServesAcknowledged /\ CrashKeepsAcknowledged
  BY DEF IInv
<1>a. /\ pc = "flush_sync" /\ pc' = "flush_persist" /\ synced' = journal
      /\ UNCHANGED <<durability, memory, requires_restart, unflushed, plan, batches, transaction,
                     database, durable, journal, tail, history, acked, safe>>
  BY DEF SyncJournal, state, local, ghost
<1>1. TypeOK' /\ HistoryOK' /\ FramesOK' /\ NoJournalOK'
  BY <1>0, <1>a DEF TypeOK, PCs, HistoryOK, FramesOK, NoJournalOK
<1>2. SyncedOK'
  BY <1>0, <1>a, JournalFacts DEF SyncedOK
<1>3. DownOK' /\ WorkingOK' /\ HolderOK' /\ ReplayNeverRefuses'
  BY <1>0, <1>a DEF DownOK, WorkingOK, HolderOK, ReplayNeverRefuses, Serving, Down, PCs
<1>4. ServesAcknowledged' /\ CrashKeepsAcknowledged'
  BY <1>0, <1>a DEF ServesAcknowledged, CrashKeepsAcknowledged, Recoverable, RecoveredFrom,
                    Serving, Down, PCs
<1> QED
  BY <1>1, <1>2, <1>3, <1>4 DEF IInv

(* BeginBulk preserves the invariant. *)
LEMMA BeginBulkStep == IInv /\ begin_bulk_commit => IInv'
<1> SUFFICES ASSUME IInv, begin_bulk_commit PROVE IInv'
  OBVIOUS
<1>0. TypeOK /\ HistoryOK /\ FramesOK /\ SyncedOK /\ NoJournalOK /\ WorkingOK
      /\ ServesAcknowledged /\ CrashKeepsAcknowledged
  BY DEF IInv
<1>a. /\ pc = "idle" /\ ~requires_restart /\ pc' = "bulk"
      /\ transaction' = database.docs /\ batches' = 0
      /\ UNCHANGED <<durability, memory, requires_restart, unflushed, plan,
                     database, durable, journal, tail, synced, history, acked, safe>>
  BY DEF begin_bulk_commit, state, files, ghost
<1>b. pc \in Serving /\ pc \notin {"append", "persist"} /\ pc # "bulk"
  BY <1>a DEF Serving, Down, PCs
<1>c. /\ acked \in Nat /\ memory.revision \in Nat /\ memory.revision = acked
      /\ Len(history) = memory.revision + 1 /\ database.docs = history[acked + 1].docs
      /\ memory.time = history[memory.revision + 1].time
      /\ tail = "clean" /\ durable.revision <= acked
      /\ \A i \in 1 .. Len(journal) : journal[i].revision <= acked
  <2>1. /\ acked \in Nat /\ memory.revision \in Nat /\ batches \in Nat
        /\ memory.revision = acked + IF pc = "bulk" THEN batches ELSE 0
        /\ Len(history) = memory.revision + 1 /\ database.docs = history[acked + 1].docs
        /\ memory.time = history[memory.revision + 1].time
        /\ tail = "clean" /\ durable.revision <= acked
        /\ \A i \in 1 .. Len(journal) : journal[i].revision <= acked
    BY <1>a, <1>b, WorkingFacts
  <2> QED
    BY <1>b, <2>1
<1>1. TypeOK'
  <2>1. 0 \in Revisions /\ database.docs \in Documents
    BY <1>0, BoundsAssumption, NumberFacts DEF Revisions
  <2> QED
    BY <1>0, <1>a, <2>1 DEF TypeOK, PCs
<1>2. HistoryOK' /\ FramesOK' /\ SyncedOK' /\ NoJournalOK'
  BY <1>0, <1>a DEF HistoryOK, FramesOK, SyncedOK, NoJournalOK
<1>3. WorkingOK' /\ HolderOK'
  BY <1>a, <1>c DEF WorkingOK, HolderOK
<1>4. DownOK' /\ ReplayNeverRefuses' /\ ServesAcknowledged' /\ CrashKeepsAcknowledged'
  BY <1>0, <1>a DEF DownOK, ReplayNeverRefuses, ServesAcknowledged, CrashKeepsAcknowledged,
                    Recoverable, RecoveredFrom, Serving, Down, PCs
<1> QED
  BY <1>1, <1>2, <1>3, <1>4 DEF IInv

(* What the invariant says while a bulk load is open. *)
LEMMA BulkFacts ==
    ASSUME IInv, pc = "bulk"
    PROVE  /\ ~requires_restart /\ tail = "clean"
           /\ acked \in Nat /\ memory.revision \in Nat /\ batches \in Nat /\ safe \in Nat
           /\ memory.time \in Nat /\ durable.revision \in Nat
           /\ memory.revision = acked + batches
           /\ Len(history) = memory.revision + 1
           /\ memory.time = history[memory.revision + 1].time
           /\ transaction = history[Len(history)].docs /\ transaction \in Documents
           /\ durable.revision <= acked
           /\ \A i \in 1 .. Len(journal) : journal[i].revision <= acked
<1>0. TypeOK /\ HolderOK
  BY DEF IInv
<1>1. pc \in Serving /\ ~requires_restart /\ pc \notin {"append", "persist"}
      /\ transaction = history[Len(history)].docs
  BY <1>0 DEF HolderOK, Serving, Down, PCs
<1>2. transaction \in Documents /\ memory.time \in Nat
  BY <1>0, NumberFacts DEF TypeOK
<1>3. /\ acked \in Nat /\ memory.revision \in Nat /\ batches \in Nat /\ safe \in Nat
      /\ durable.revision \in Nat
      /\ memory.revision = acked + IF pc = "bulk" THEN batches ELSE 0
      /\ Len(history) = memory.revision + 1
      /\ memory.time = history[memory.revision + 1].time
      /\ tail = "clean" /\ durable.revision <= acked
      /\ \A i \in 1 .. Len(journal) : journal[i].revision <= acked
  BY <1>1, WorkingFacts
<1> QED
  BY <1>1, <1>2, <1>3

(* BulkFinish preserves the invariant. *)
LEMMA BulkFinishStep == IInv /\ BulkFinish => IInv'
<1> SUFFICES ASSUME IInv, BulkFinish PROVE IInv'
  OBVIOUS
<1>0. TypeOK /\ HistoryOK /\ FramesOK /\ SyncedOK /\ NoJournalOK
      /\ ServesAcknowledged /\ CrashKeepsAcknowledged
  BY DEF IInv
<1>a. /\ pc = "bulk" /\ pc' = "idle"
      /\ UNCHANGED <<durability, memory, requires_restart, unflushed, plan, batches, transaction,
                     journal, tail, synced, history>>
  BY DEF BulkFinish, state, local
<1>b. /\ ~requires_restart /\ tail = "clean"
      /\ acked \in Nat /\ memory.revision \in Nat /\ batches \in Nat /\ safe \in Nat
      /\ memory.revision = acked + batches
      /\ Len(history) = memory.revision + 1
      /\ memory.time = history[memory.revision + 1].time
      /\ transaction = history[Len(history)].docs /\ transaction \in Documents
      /\ durable.revision <= acked
      /\ \A i \in 1 .. Len(journal) : journal[i].revision <= acked
  BY <1>a, BulkFacts
<1>c. DownOK' /\ ReplayNeverRefuses' /\ NoJournalOK'
  BY <1>0, <1>a DEF DownOK, ReplayNeverRefuses, NoJournalOK, Down
<1>d. CASE batches = 0
  <2>1. UNCHANGED <<database, durable, acked, safe>>
    BY <1>d DEF BulkFinish
  <2>2. TypeOK' /\ HistoryOK' /\ FramesOK' /\ SyncedOK'
    BY <1>0, <1>a, <2>1 DEF TypeOK, PCs, HistoryOK, FramesOK, SyncedOK
  <2>3. WorkingOK' /\ HolderOK'
    BY <1>a, <1>b, <1>d, <2>1 DEF WorkingOK, HolderOK
  <2>4. ServesAcknowledged' /\ CrashKeepsAcknowledged'
    BY <1>0, <1>a, <2>1 DEF ServesAcknowledged, CrashKeepsAcknowledged, Recoverable,
                            RecoveredFrom, Serving, Down, PCs
  <2> QED
    BY <1>c, <2>2, <2>3, <2>4 DEF IInv
<1>e. CASE batches # 0
  <2>1. /\ database' = PersistState(transaction) /\ durable' = PersistState(transaction)
        /\ acked' = memory.revision /\ safe' = memory.revision
    BY <1>e DEF BulkFinish, RedbCommit
  <2>2. /\ durable' \in Persisted
        /\ durable'.revision = memory.revision /\ durable'.time = memory.time
        /\ durable'.time = history[memory.revision + 1].time
        /\ durable'.docs = history[memory.revision + 1].docs
        /\ \A i \in 1 .. Len(journal) : journal[i].revision <= durable'.revision
        /\ FramesOK' /\ SyncedOK'
        /\ RecoveredFrom(durable', journal) = memory.revision
    BY <1>a, <1>b, <2>1, PersistStateFacts
  <2>3. TypeOK'
    <3>1. memory.revision \in Revisions
      BY <1>0 DEF TypeOK
    <3> QED
      BY <1>0, <1>a, <2>1, <2>2, <3>1 DEF TypeOK, PCs
  <2>4. HistoryOK'
    BY <1>0, <1>a, <1>b, <2>1, <2>2 DEF HistoryOK
  <2>5. WorkingOK' /\ HolderOK'
    BY <1>a, <1>b, <2>1, <2>2 DEF WorkingOK, HolderOK
  <2>6. ServesAcknowledged' /\ CrashKeepsAcknowledged'
    BY <1>a, <1>b, <2>1, <2>2 DEF ServesAcknowledged, CrashKeepsAcknowledged, Recoverable
  <2> QED
    BY <1>c, <2>2, <2>3, <2>4, <2>5, <2>6 DEF IInv
<1> QED
  BY <1>d, <1>e

(* BulkFinishFails preserves the invariant. *)
LEMMA BulkFinishFailsStep == IInv /\ BulkFinishFails => IInv'
<1> SUFFICES ASSUME IInv, BulkFinishFails PROVE IInv'
  OBVIOUS
<1>0. TypeOK /\ HistoryOK /\ FramesOK /\ SyncedOK /\ NoJournalOK
      /\ ServesAcknowledged /\ CrashKeepsAcknowledged
  BY DEF IInv
<1>a. /\ pc = "bulk" /\ pc' = "idle" /\ requires_restart' = TRUE
      /\ UNCHANGED <<durability, memory, unflushed, plan, batches, transaction, database,
                     journal, tail, synced, history, acked, safe>>
      /\ durable' = durable \/ durable' = PersistState(transaction)
  BY DEF BulkFinishFails, Fence, RedbCommitFails, local, ghost
<1>b. /\ acked \in Nat /\ memory.revision \in Nat /\ batches \in Nat /\ safe \in Nat
      /\ memory.revision = acked + batches
      /\ Len(history) = memory.revision + 1
      /\ transaction = history[Len(history)].docs /\ transaction \in Documents
      /\ durable.revision <= acked /\ durable.revision \in Nat
  BY <1>a, BulkFacts
<1>1. DownOK' /\ WorkingOK' /\ HolderOK' /\ ReplayNeverRefuses' /\ NoJournalOK'
  BY <1>0, <1>a DEF DownOK, WorkingOK, HolderOK, ReplayNeverRefuses, NoJournalOK, Down, Serving
<1>2. ServesAcknowledged'
  BY <1>0, <1>a DEF ServesAcknowledged, Serving, Down, PCs
<1>c. CASE durable' = durable
  BY <1>0, <1>1, <1>2, <1>a, <1>c
  DEF IInv, TypeOK, PCs, HistoryOK, FramesOK, SyncedOK, CrashKeepsAcknowledged, Recoverable,
      RecoveredFrom
<1>d. CASE durable' = PersistState(transaction)
  <2>1. /\ durable' \in Persisted
        /\ durable'.revision = memory.revision
        /\ durable'.time = history[memory.revision + 1].time
        /\ durable'.docs = history[memory.revision + 1].docs
        /\ FramesOK' /\ SyncedOK'
        /\ RecoveredFrom(durable', journal) = memory.revision
    BY <1>a, <1>b, <1>d, PersistStateFacts
  <2>2. TypeOK'
    BY <1>0, <1>a, <2>1 DEF TypeOK, PCs
  <2>3. HistoryOK'
    BY <1>0, <1>a, <1>b, <2>1 DEF HistoryOK
  <2>4. CrashKeepsAcknowledged'
    BY <1>a, <1>b, <2>1 DEF CrashKeepsAcknowledged, Recoverable
  <2> QED
    BY <1>1, <1>2, <2>1, <2>2, <2>3, <2>4 DEF IInv
<1> QED
  BY <1>a, <1>c, <1>d

(* BulkAbandon preserves the invariant. *)
LEMMA BulkAbandonStep == IInv /\ BulkAbandon => IInv'
<1> SUFFICES ASSUME IInv, BulkAbandon PROVE IInv'
  OBVIOUS
<1>0. TypeOK /\ HistoryOK /\ FramesOK /\ SyncedOK /\ NoJournalOK
      /\ ServesAcknowledged /\ CrashKeepsAcknowledged
  BY DEF IInv
<1>a. /\ pc = "bulk" /\ pc' = "idle" /\ requires_restart' = (batches > 0)
      /\ UNCHANGED <<durability, memory, unflushed, plan, batches, transaction, database,
                     durable, journal, tail, synced, history, acked, safe>>
  BY DEF BulkAbandon, local, files, ghost
<1>b. /\ acked \in Nat /\ memory.revision \in Nat /\ batches \in Nat
      /\ memory.revision = acked + batches /\ tail = "clean"
      /\ Len(history) = memory.revision + 1
      /\ memory.time = history[memory.revision + 1].time
      /\ durable.revision <= acked
      /\ \A i \in 1 .. Len(journal) : journal[i].revision <= acked
  BY <1>a, BulkFacts
<1>1. TypeOK' /\ HistoryOK' /\ FramesOK' /\ SyncedOK' /\ NoJournalOK'
  BY <1>0, <1>a DEF TypeOK, PCs, HistoryOK, FramesOK, SyncedOK, NoJournalOK
<1>2. WorkingOK'
  <2>1. CASE batches = 0
    BY <1>a, <1>b, <2>1 DEF WorkingOK
  <2>2. CASE batches > 0
    BY <1>a, <2>2 DEF WorkingOK
  <2> QED
    BY <1>b, <2>1, <2>2
<1>3. DownOK' /\ HolderOK' /\ ReplayNeverRefuses'
  BY <1>a DEF DownOK, HolderOK, ReplayNeverRefuses, Serving, Down
<1>4. ServesAcknowledged' /\ CrashKeepsAcknowledged'
  BY <1>0, <1>a DEF ServesAcknowledged, CrashKeepsAcknowledged, Recoverable, RecoveredFrom,
                    Serving, Down, PCs
<1> QED
  BY <1>1, <1>2, <1>3, <1>4 DEF IInv

(* The ghost history grows by the contents of a planned commit or batch. *)
LEMMA ExtendHistory ==
    ASSUME TypeOK, HistoryOK, FramesOK, NEW t \in Times, NEW m \in Mutations,
           t > history[Len(history)].time, Len(history) <= MaxRevision,
           history' = Append(history, [time |-> t,
                                       docs |-> apply_mutations(history[Len(history)].docs, m)]),
           UNCHANGED <<durable, journal, acked, safe>>
    PROVE  /\ history' \in Seq(Contents)
           /\ Len(history') = Len(history) + 1
           /\ \A i \in 1 .. Len(history) : history'[i] = history[i]
           /\ history'[Len(history) + 1].time = t
           /\ history'[Len(history) + 1].docs = apply_mutations(history[Len(history)].docs, m)
           /\ HistoryOK' /\ FramesOK'
<1> DEFINE c == [time |-> t, docs |-> apply_mutations(history[Len(history)].docs, m)]
<1>0. /\ Len(history) \in Nat /\ acked \in Nat /\ durable.revision \in Nat /\ safe \in Nat
      /\ \A i \in 1 .. Len(history) : history[i].time \in Nat /\ history[i].docs \in Documents
  BY HistoryFacts, NumberFacts
<1>1. Len(history) \in 1 .. Len(history)
  BY <1>0 DEF HistoryOK
<1>2. c \in Contents
  BY <1>0, <1>1, ApplyType DEF Contents
<1>3. history \in Seq(Contents)
  BY DEF TypeOK
<1>4. /\ history' \in Seq(Contents)
      /\ Len(history') = Len(history) + 1
      /\ \A i \in 1 .. Len(history) : history'[i] = history[i]
      /\ history'[Len(history) + 1] = c
  BY <1>2, <1>3, AppendProperties
<1>5. t \in Nat
  BY BoundsAssumption DEF Times
<1>6. HistoryOK'
  <2>1. ASSUME NEW i \in 1 .. Len(history'), NEW j \in 1 .. Len(history'), i < j
        PROVE  history'[i].time < history'[j].time
    <3>1. i \in 1 .. Len(history) /\ history'[i] = history[i]
      BY <1>0, <1>4, <2>1
    <3>2. CASE j \in 1 .. Len(history)
      BY <1>4, <2>1, <3>1, <3>2 DEF HistoryOK
    <3>3. CASE j = Len(history) + 1
      <4>1. history[i].time <= history[Len(history)].time
        <5>1. CASE i = Len(history)
          BY <1>0, <1>1, <5>1
        <5>2. CASE i < Len(history)
          BY <1>0, <1>1, <3>1, <5>2 DEF HistoryOK
        <5> QED
          BY <1>0, <3>1, <5>1, <5>2
      <4>2. history'[j].time = t
        BY <1>4, <3>3
      <4> QED
        BY <1>0, <1>1, <1>5, <3>1, <4>1, <4>2
    <3> QED
      BY <1>0, <1>4, <3>2, <3>3
  <2>2. durable.revision + 1 \in 1 .. Len(history)
    BY <1>0 DEF HistoryOK
  <2>3. acked < Len(history') /\ durable.revision < Len(history') /\ Len(history') <= MaxRevision + 1
    BY <1>0, <1>4, BoundsAssumption DEF HistoryOK
  <2> QED
    BY <1>4, <2>1, <2>2, <2>3 DEF HistoryOK
<1>7. FramesOK'
  <2> SUFFICES ASSUME NEW i \in 1 .. Len(journal), journal[i].revision > durable.revision
               PROVE  LET r == journal[i].revision IN
                      /\ r < Len(history')
                      /\ journal[i].time = history'[r + 1].time
                      /\ history'[r + 1].docs = apply_mutations(history'[r].docs, journal[i].mutations)
                      /\ \A j \in 1 .. Len(journal) : i < j => journal[j].revision > r
                      /\ r = durable.revision + 1 \/ (i > 1 /\ journal[i - 1].revision = r - 1)
    BY DEF FramesOK
  <2>a. journal[i].revision \in Nat
    BY JournalFacts
  <2>b. journal[i].revision < Len(history)
    BY DEF FramesOK
  <2>1. /\ journal[i].revision \in Nat /\ journal[i].revision < Len(history)
        /\ journal[i].revision > 0
    BY <1>0, <2>a, <2>b
  <2>2. /\ history'[journal[i].revision] = history[journal[i].revision]
        /\ history'[journal[i].revision + 1] = history[journal[i].revision + 1]
    BY <1>0, <1>4, <2>1
  <2>3. journal[i].revision < Len(history')
    BY <1>0, <1>4, <2>1
  <2>4. LET r == journal[i].revision IN
        /\ journal[i].time = history[r + 1].time
        /\ history[r + 1].docs = apply_mutations(history[r].docs, journal[i].mutations)
        /\ \A j \in 1 .. Len(journal) : i < j => journal[j].revision > r
        /\ r = durable.revision + 1 \/ (i > 1 /\ journal[i - 1].revision = r - 1)
    BY DEF FramesOK
  <2> QED
    BY <2>2, <2>3, <2>4
<1> QED
  BY <1>4, <1>6, <1>7

(* The next commit time is later than the last, whatever the clock says. *)
LEMMA TimeFacts ==
    ASSUME TypeOK, NEW c \in Times, next_commit_time(c) <= MaxTime
    PROVE  next_commit_time(c) \in Times /\ next_commit_time(c) > memory.time
<1>1. memory.time \in Nat /\ MaxTime \in Nat /\ c \in Nat
  BY NumberFacts DEF Times
<1> QED
  BY <1>1 DEF next_commit_time, Times

(* Plan preserves the invariant. *)
LEMMA PlanStep == ASSUME IInv, NEW m \in Mutations, NEW c \in Times, Plan(m, c) PROVE IInv'
<1> DEFINE t == next_commit_time(c)
<1>0. TypeOK /\ HistoryOK /\ FramesOK /\ SyncedOK /\ NoJournalOK
      /\ ServesAcknowledged /\ CrashKeepsAcknowledged
  BY DEF IInv
<1>a. /\ pc = "idle" /\ ~requires_restart /\ memory.revision < MaxRevision /\ t <= MaxTime
      /\ plan' = [revision |-> memory.revision + 1, time |-> t, mutations |-> m]
      /\ pc' = (IF Journaled THEN "append" ELSE "persist")
      /\ history' = Append(history, [time |-> t,
                                     docs |-> apply_mutations(history[Len(history)].docs, m)])
      /\ UNCHANGED <<durability, memory, requires_restart, unflushed, batches, transaction,
                     database, durable, journal, tail, synced, acked, safe>>
  BY DEF Plan, state, files
<1>b. t \in Times /\ t > memory.time
  BY <1>0, <1>a, TimeFacts
<1> HIDE DEF t
<1>c. pc \in Serving /\ pc \notin {"append", "persist"} /\ pc # "bulk"
  BY <1>a DEF Serving, Down, PCs
<1>d. /\ acked \in Nat /\ memory.revision \in Nat /\ memory.revision = acked
      /\ Len(history) = memory.revision + 1
      /\ memory.time = history[memory.revision + 1].time
      /\ tail = "clean" /\ durable.revision <= acked
      /\ \A i \in 1 .. Len(journal) : journal[i].revision <= acked
  <2>1. /\ acked \in Nat /\ memory.revision \in Nat /\ batches \in Nat
        /\ memory.revision = acked + IF pc = "bulk" THEN batches ELSE 0
        /\ Len(history) = memory.revision + 1
        /\ memory.time = history[memory.revision + 1].time
        /\ tail = "clean" /\ durable.revision <= acked
        /\ \A i \in 1 .. Len(journal) : journal[i].revision <= acked
    BY <1>a, <1>c, WorkingFacts
  <2> QED
    BY <1>c, <2>1
<1>e. t > history[Len(history)].time /\ Len(history) <= MaxRevision
  BY <1>a, <1>b, <1>d, BoundsAssumption
<1>f. /\ history' \in Seq(Contents)
      /\ Len(history') = Len(history) + 1
      /\ \A i \in 1 .. Len(history) : history'[i] = history[i]
      /\ history'[Len(history) + 1].time = t
      /\ history'[Len(history) + 1].docs = apply_mutations(history[Len(history)].docs, m)
      /\ HistoryOK' /\ FramesOK'
  BY <1>0, <1>a, <1>b, <1>e, ExtendHistory
<1>1. TypeOK'
  <2>1. plan' \in WalRecord
    BY <1>a, <1>b, <1>d, BoundsAssumption DEF WalRecord, Revisions
  <2> QED
    BY <1>0, <1>a, <1>f, <2>1 DEF TypeOK, PCs
<1>2. SyncedOK' /\ NoJournalOK' /\ DownOK' /\ ReplayNeverRefuses'
  BY <1>0, <1>a DEF SyncedOK, NoJournalOK, DownOK, ReplayNeverRefuses, Down
<1>g. /\ plan'.revision = acked + 1 /\ plan'.time = t /\ plan'.mutations = m
      /\ memory.revision + 1 \in 1 .. Len(history)
      /\ acked + 1 = Len(history)
  BY <1>a, <1>d
<1>3. WorkingOK'
  BY <1>a, <1>d, <1>f, <1>g DEF WorkingOK
<1>4. HolderOK'
  BY <1>a, <1>d, <1>f, <1>g DEF HolderOK
<1>5. ServesAcknowledged' /\ CrashKeepsAcknowledged'
  BY <1>0, <1>a, <1>c, <1>f, <1>g DEF ServesAcknowledged, CrashKeepsAcknowledged, Recoverable,
                                      RecoveredFrom
<1> QED
  BY <1>1, <1>2, <1>3, <1>4, <1>5, <1>f DEF IInv

(* BulkBatch preserves the invariant. *)
LEMMA BulkBatchStep ==
    ASSUME IInv, NEW m \in Mutations, NEW c \in Times, BulkBatch(m, c) PROVE IInv'
<1> DEFINE t == next_commit_time(c)
<1>0. TypeOK /\ HistoryOK /\ FramesOK /\ SyncedOK /\ NoJournalOK
      /\ ServesAcknowledged /\ CrashKeepsAcknowledged
  BY DEF IInv
<1>a. /\ pc = "bulk" /\ memory.revision < MaxRevision /\ t <= MaxTime /\ pc' = pc
      /\ transaction' = apply_mutations(transaction, m)
      /\ memory' = [revision |-> memory.revision + 1, time |-> t]
      /\ batches' = batches + 1
      /\ history' = Append(history, [time |-> t,
                                     docs |-> apply_mutations(history[Len(history)].docs, m)])
      /\ UNCHANGED <<durability, requires_restart, unflushed, plan,
                     database, durable, journal, tail, synced, acked, safe>>
  BY DEF BulkBatch, mutex, files
<1>b. t \in Times /\ t > memory.time
  BY <1>0, <1>a, TimeFacts
<1> HIDE DEF t
<1>c. pc \in Serving
  BY <1>a DEF Serving, Down, PCs
<1>d. /\ ~requires_restart /\ tail = "clean"
      /\ acked \in Nat /\ memory.revision \in Nat /\ batches \in Nat
      /\ memory.revision = acked + batches
      /\ Len(history) = memory.revision + 1
      /\ memory.time = history[memory.revision + 1].time
      /\ transaction = history[Len(history)].docs /\ transaction \in Documents
      /\ durable.revision <= acked
      /\ \A i \in 1 .. Len(journal) : journal[i].revision <= acked
  BY <1>a, BulkFacts
<1>e. t > history[Len(history)].time /\ Len(history) <= MaxRevision
  BY <1>a, <1>b, <1>d, BoundsAssumption
<1>f. /\ history' \in Seq(Contents)
      /\ Len(history') = Len(history) + 1
      /\ \A i \in 1 .. Len(history) : history'[i] = history[i]
      /\ history'[Len(history) + 1].time = t
      /\ history'[Len(history) + 1].docs = apply_mutations(history[Len(history)].docs, m)
      /\ HistoryOK' /\ FramesOK'
  BY <1>0, <1>a, <1>b, <1>e, ExtendHistory
<1>g. /\ memory'.revision = memory.revision + 1 /\ memory'.time = t
      /\ memory'.revision = acked + batches'
      /\ acked + 1 \in 1 .. Len(history)
  BY <1>a, <1>d
<1>1. TypeOK'
  <2>1. memory' \in [revision : Revisions, time : Times] /\ batches' \in Revisions
    BY <1>a, <1>b, <1>d, BoundsAssumption DEF Revisions
  <2>2. transaction' \in Documents
    BY <1>a, <1>d, ApplyType
  <2> QED
    BY <1>0, <1>a, <1>f, <2>1, <2>2 DEF TypeOK, PCs
<1>2. SyncedOK' /\ NoJournalOK' /\ DownOK' /\ ReplayNeverRefuses'
  BY <1>0, <1>a DEF SyncedOK, NoJournalOK, DownOK, ReplayNeverRefuses, Down
<1>3. WorkingOK'
  BY <1>a, <1>d, <1>f, <1>g DEF WorkingOK
<1>4. HolderOK'
  BY <1>a, <1>d, <1>f, <1>g DEF HolderOK
<1>5. ServesAcknowledged' /\ CrashKeepsAcknowledged'
  BY <1>0, <1>a, <1>c, <1>f, <1>g DEF ServesAcknowledged, CrashKeepsAcknowledged, Recoverable,
                                      RecoveredFrom
<1> QED
  BY <1>1, <1>2, <1>3, <1>4, <1>5, <1>f DEF IInv

(* ReplayRecord preserves the invariant. *)
LEMMA ReplayRecordStep == IInv /\ ReplayRecord => IInv'
<1> SUFFICES ASSUME IInv, ReplayRecord PROVE IInv'
  OBVIOUS
<1>0. TypeOK /\ HistoryOK /\ FramesOK /\ SyncedOK /\ NoJournalOK /\ DownOK
  BY DEF IInv
<1>1. PICK i \in Unreplayed :
        /\ \A j \in Unreplayed : i <= j
        /\ IF /\ journal[i].revision = durable.revision + 1
              /\ journal[i].time > durable.time
             THEN /\ RedbCommit("Immediate", persist_record(durable, journal[i]))
                  /\ UNCHANGED pc
             ELSE /\ pc' = "refused"
                  /\ UNCHANGED <<database, durable>>
  BY DEF ReplayRecord
<1>a. /\ pc = "replay"
      /\ UNCHANGED <<durability, memory, requires_restart, unflushed, plan, batches, transaction,
                     journal, tail, synced, history, acked, safe>>
  BY DEF ReplayRecord, state, local, ghost
<1>b. /\ database = durable /\ acked = Recoverable /\ Len(history) = acked + 1 /\ tail = "clean"
  BY <1>0, <1>a DEF DownOK, Down
<1>n. /\ Len(journal) \in Nat /\ acked \in Nat /\ durable.revision \in Nat /\ safe \in Nat
      /\ \A j \in 1 .. Len(journal) : /\ journal[j].revision \in Nat
                                      /\ journal[j] \in WalRecord
      /\ Len(history) \in Nat /\ \A j \in 1 .. Len(history) : history[j].time \in Nat
  BY <1>0, NumberFacts, JournalFacts, HistoryFacts
<1>c. /\ i \in 1 .. Len(journal) /\ journal[i].revision > durable.revision
      /\ journal[i].revision < Len(history)
      /\ journal[i].time = history[journal[i].revision + 1].time
      /\ history[journal[i].revision + 1].docs =
             apply_mutations(history[journal[i].revision].docs, journal[i].mutations)
      /\ \/ journal[i].revision = durable.revision + 1
         \/ i > 1 /\ journal[i - 1].revision = journal[i].revision - 1
  BY <1>0, <1>1 DEF Unreplayed, FramesOK
<1>d. journal[i].revision = durable.revision + 1
  <2> SUFFICES ASSUME i > 1, journal[i - 1].revision = journal[i].revision - 1,
                      journal[i].revision # durable.revision + 1
               PROVE  FALSE
    BY <1>c
  <2>1. i - 1 \in 1 .. Len(journal) /\ ~(i <= i - 1)
    BY <1>c, <1>n
  <2>0. journal[i].revision \in Nat /\ durable.revision \in Nat
    <3>1. i \in 1 .. Len(journal)
      BY <1>c
    <3> QED
      BY <1>n, <3>1
  <2>2. journal[i - 1].revision > durable.revision
    BY <1>c, <2>0
  <2>3. i - 1 \in Unreplayed
    BY <2>1, <2>2 DEF Unreplayed
  <2> QED
    BY <1>1, <2>1, <2>3
<1>e. journal[i].time > durable.time
  <2>1. /\ durable.revision + 1 \in 1 .. Len(history)
        /\ journal[i].revision + 1 \in 1 .. Len(history)
        /\ durable.revision + 1 < journal[i].revision + 1
    BY <1>c, <1>d, <1>n
  <2>2. durable.time = history[durable.revision + 1].time
    BY <1>0 DEF HistoryOK
  <2>3. history[durable.revision + 1].time < history[journal[i].revision + 1].time
    BY <1>0, <2>1 DEF HistoryOK
  <2> QED
    BY <1>c, <1>n, <2>1, <2>2, <2>3
<1>f. /\ durable' = persist_record(durable, journal[i]) /\ database' = durable' /\ pc' = pc
  BY <1>1, <1>d, <1>e DEF RedbCommit
<1>g. /\ durable' \in Persisted
      /\ durable'.revision = durable.revision + 1
      /\ durable'.time = history[durable'.revision + 1].time
      /\ durable'.docs = history[durable'.revision + 1].docs
  <2>1. durable \in Persisted /\ journal[i] \in WalRecord
    BY <1>0, <1>c, <1>n DEF TypeOK
  <2>2. durable' \in Persisted
    BY <1>f, <2>1, PersistType
  <2>3. durable.docs = history[durable.revision + 1].docs
    BY <1>0 DEF HistoryOK
  <2>4. /\ durable'.revision = journal[i].revision /\ durable'.time = journal[i].time
        /\ durable'.docs = apply_mutations(durable.docs, journal[i].mutations)
    BY <1>f DEF persist_record
  <2> QED
    BY <1>c, <1>d, <2>2, <2>3, <2>4
<1>2. TypeOK'
  BY <1>0, <1>a, <1>f, <1>g DEF TypeOK
<1>3. HistoryOK'
  BY <1>0, <1>a, <1>c, <1>d, <1>g, <1>n DEF HistoryOK
<1>4. FramesOK'
  <2> SUFFICES ASSUME NEW k \in 1 .. Len(journal), journal[k].revision > durable'.revision
               PROVE  LET r == journal[k].revision IN
                      /\ r < Len(history)
                      /\ journal[k].time = history[r + 1].time
                      /\ history[r + 1].docs = apply_mutations(history[r].docs, journal[k].mutations)
                      /\ \A j \in 1 .. Len(journal) : k < j => journal[j].revision > r
                      /\ r = durable'.revision + 1 \/ (k > 1 /\ journal[k - 1].revision = r - 1)
    BY <1>a DEF FramesOK
  <2>1. journal[k].revision > durable.revision /\ journal[k].revision # durable.revision + 1
    BY <1>g, <1>n
  <2> QED
    BY <1>0, <2>1 DEF FramesOK
<1>5. SyncedOK'
  <2>1. synced \in Seq(WalRecord)
    BY <1>0 DEF TypeOK
  <2>2. \A k \in 1 .. Len(synced) : synced[k].revision \in Nat
    BY <2>1, FrameFacts
  <2> QED
    BY <1>0, <1>a, <1>g, <1>n, <2>2 DEF SyncedOK
<1>6. Recoverable' = Recoverable
  <2>1. Len(journal) \in 1 .. Len(journal)
    BY <1>c, <1>n
  <2>2. journal[Len(journal)].revision >= journal[i].revision
    <3>1. CASE i = Len(journal)
      BY <1>c, <1>n, <3>1
    <3>2. CASE i < Len(journal)
      <4>1. journal[Len(journal)].revision > journal[i].revision
        BY <1>0, <1>c, <2>1, <3>2 DEF FramesOK
      <4>2. journal[Len(journal)].revision \in Nat /\ journal[i].revision \in Nat
        BY <1>c, <1>n, <2>1
      <4> QED
        BY <4>1, <4>2
    <3> QED
      BY <1>c, <1>n, <3>1, <3>2
  <2> QED
    BY <1>a, <1>c, <1>d, <1>g, <1>n, <2>1, <2>2 DEF Recoverable, RecoveredFrom
<1>7. NoJournalOK' /\ DownOK'
  BY <1>0, <1>a, <1>b, <1>f, <1>6 DEF NoJournalOK, DownOK, Down
<1>8. WorkingOK' /\ HolderOK' /\ ServesAcknowledged' /\ ReplayNeverRefuses'
  BY <1>a, <1>f DEF WorkingOK, HolderOK, ServesAcknowledged, ReplayNeverRefuses, Serving, Down
<1>9. CrashKeepsAcknowledged'
  BY <1>a, <1>b, <1>n, <1>6 DEF CrashKeepsAcknowledged
<1> QED
  BY <1>2, <1>3, <1>4, <1>5, <1>7, <1>8, <1>9 DEF IInv

(* FramesOK for any frames, to speak of what an outage leaves. *)
Fits(frames) ==
    \A i \in 1 .. Len(frames) : frames[i].revision > durable.revision =>
        LET r == frames[i].revision IN
        /\ r < Len(history)
        /\ frames[i].time = history[r + 1].time
        /\ history[r + 1].docs = apply_mutations(history[r].docs, frames[i].mutations)
        /\ \A j \in 1 .. Len(frames) : i < j => frames[j].revision > r
        /\ r = durable.revision + 1 \/ (i > 1 /\ frames[i - 1].revision = r - 1)

(* Any prefix of the journal fits the history as the journal does. *)
LEMMA FitsPart ==
    ASSUME TypeOK, FramesOK, NEW frames \in Seq(WalRecord), Len(frames) <= Len(journal),
           \A i \in 1 .. Len(frames) : frames[i] = journal[i]
    PROVE  Fits(frames)
<1>1. Len(frames) \in Nat /\ Len(journal) \in Nat
  BY FrameFacts, JournalFacts
<1> SUFFICES ASSUME NEW i \in 1 .. Len(frames), frames[i].revision > durable.revision
             PROVE  LET r == frames[i].revision IN
                    /\ r < Len(history)
                    /\ frames[i].time = history[r + 1].time
                    /\ history[r + 1].docs = apply_mutations(history[r].docs, frames[i].mutations)
                    /\ \A j \in 1 .. Len(frames) : i < j => frames[j].revision > r
                    /\ r = durable.revision + 1 \/ (i > 1 /\ frames[i - 1].revision = r - 1)
  BY DEF Fits
<1>2. i \in 1 .. Len(journal) /\ frames[i] = journal[i] /\ (i > 1 => frames[i - 1] = journal[i - 1])
  BY <1>1
<1>3. \A j \in 1 .. Len(frames) : i < j => frames[j].revision > journal[i].revision
  BY <1>1, <1>2 DEF FramesOK
<1> QED
  BY <1>2, <1>3 DEF FramesOK

(* So do the frames on the drive. *)
LEMMA FitsSynced == ASSUME TypeOK, FramesOK, SyncedOK PROVE Fits(synced)
<1>1. synced \in Seq(WalRecord)
  BY DEF TypeOK
<1>2. CASE \A i \in 1 .. Len(synced) : synced[i].revision <= durable.revision
  <2>1. durable.revision \in Nat /\ \A i \in 1 .. Len(synced) : synced[i].revision \in Nat
    BY <1>1, FrameFacts, NumberFacts
  <2> QED
    BY <1>2, <2>1 DEF Fits
<1>3. CASE Len(synced) <= Len(journal) /\ \A i \in 1 .. Len(synced) : synced[i] = journal[i]
  BY <1>1, <1>3, FitsPart
<1> QED
  BY <1>2, <1>3 DEF SyncedOK

(* Reopening recovers at least redb's durable revision. *)
LEMMA RecoveredFacts ==
    ASSUME TypeOK, NEW frames \in Seq(WalRecord)
    PROVE  /\ RecoveredFrom(durable, frames) \in Nat
           /\ RecoveredFrom(durable, frames) <= MaxRevision
           /\ durable.revision <= RecoveredFrom(durable, frames)
<1>1. durable.revision \in Nat /\ durable.revision <= MaxRevision
  BY NumberFacts
<1>2. Len(frames) \in Nat
  BY FrameFacts
<1>3. CASE Len(frames) > 0 /\ frames[Len(frames)].revision > durable.revision
  <2>1. Len(frames) \in 1 .. Len(frames)
    BY <1>2, <1>3
  <2>2. frames[Len(frames)].revision \in Nat /\ frames[Len(frames)].revision <= MaxRevision
    BY <2>1, FrameFacts
  <2> QED
    BY <1>1, <1>3, <2>2 DEF RecoveredFrom
<1>4. CASE ~(Len(frames) > 0 /\ frames[Len(frames)].revision > durable.revision)
  BY <1>1, <1>4 DEF RecoveredFrom
<1> QED
  BY <1>3, <1>4

(* An outage cuts the ghost history down to what the files recover. *)
LEMMA CutHistory ==
    ASSUME TypeOK, HistoryOK, NEW frames \in Seq(WalRecord), Fits(frames),
           journal' = frames, acked' = RecoveredFrom(durable, frames),
           history' = SubSeq(history, 1, acked' + 1), UNCHANGED <<durable, safe>>
    PROVE  /\ acked' \in Revisions /\ history' \in Seq(Contents)
           /\ Len(history') = acked' + 1 /\ acked' < Len(history)
           /\ \A i \in 1 .. acked' + 1 : history'[i] = history[i]
           /\ HistoryOK' /\ FramesOK'
<1>0. /\ acked' \in Nat /\ acked' <= MaxRevision /\ durable.revision <= acked'
      /\ durable.revision \in Nat /\ safe \in Nat /\ MaxRevision \in Nat
      /\ Len(history) \in Nat /\ Len(frames) \in Nat
      /\ \A i \in 1 .. Len(history) : history[i] \in Contents
  BY RecoveredFacts, NumberFacts, HistoryFacts, FrameFacts
<1>1. acked' < Len(history)
  <2>1. CASE Len(frames) > 0 /\ frames[Len(frames)].revision > durable.revision
    <3>1. Len(frames) \in 1 .. Len(frames)
      BY <1>0, <2>1
    <3>2. frames[Len(frames)].revision < Len(history)
      BY <2>1, <3>1 DEF Fits
    <3> QED
      BY <2>1, <3>2 DEF RecoveredFrom
  <2>2. CASE ~(Len(frames) > 0 /\ frames[Len(frames)].revision > durable.revision)
    BY <2>2 DEF RecoveredFrom, HistoryOK
  <2> QED
    BY <2>1, <2>2
<1>2. \A i \in 1 .. acked' + 1 : i \in 1 .. Len(history) /\ history[i] \in Contents
  BY <1>0, <1>1
<1>3. /\ history' \in Seq(Contents) /\ Len(history') = acked' + 1
      /\ \A i \in 1 .. acked' + 1 : history'[i] = history[i]
  <2>1. acked' + 1 \in Nat
    BY <1>0
  <2> QED
    BY <1>2, <2>1, PrefixFacts
<1>4. HistoryOK'
  <2>1. \A i, j \in 1 .. Len(history') : i < j => history'[i].time < history'[j].time
    BY <1>2, <1>3 DEF HistoryOK
  <2>2. durable.revision + 1 \in 1 .. acked' + 1
    BY <1>0
  <2>3. safe <= durable.revision /\ safe <= acked'
    BY <1>0 DEF HistoryOK
  <2>4. acked' < Len(history') /\ durable.revision < Len(history') /\ Len(history') <= MaxRevision + 1
    BY <1>0, <1>3
  <2> QED
    BY <1>3, <2>1, <2>2, <2>3, <2>4 DEF HistoryOK
<1>5. FramesOK'
  <2> SUFFICES ASSUME NEW i \in 1 .. Len(frames), frames[i].revision > durable.revision
               PROVE  LET r == frames[i].revision IN
                      /\ r < Len(history')
                      /\ frames[i].time = history'[r + 1].time
                      /\ history'[r + 1].docs = apply_mutations(history'[r].docs, frames[i].mutations)
                      /\ \A j \in 1 .. Len(frames) : i < j => frames[j].revision > r
                      /\ r = durable.revision + 1 \/ (i > 1 /\ frames[i - 1].revision = r - 1)
    BY DEF FramesOK
  <2>1. Len(frames) \in 1 .. Len(frames)
    BY <1>0
  <2>2. frames[i].revision \in Nat /\ frames[Len(frames)].revision \in Nat
    BY <2>1, FrameFacts
  <2>3. frames[i].revision <= frames[Len(frames)].revision
    <3>1. CASE i = Len(frames)
      BY <2>2, <3>1
    <3>2. CASE i < Len(frames)
      <4>1. frames[Len(frames)].revision > frames[i].revision
        BY <2>1, <3>2 DEF Fits
      <4> QED
        BY <2>2, <4>1
    <3> QED
      BY <1>0, <3>1, <3>2
  <2>4. frames[i].revision <= acked'
    BY <1>0, <2>1, <2>2, <2>3 DEF RecoveredFrom
  <2>5. /\ frames[i].revision \in 1 .. acked' + 1 /\ frames[i].revision + 1 \in 1 .. acked' + 1
        /\ frames[i].revision < Len(history')
    BY <1>0, <1>3, <2>2, <2>4
  <2> QED
    BY <1>3, <2>5 DEF Fits
<1> QED
  BY <1>0, <1>1, <1>3, <1>4, <1>5 DEF Revisions

(* Every outage re-establishes the invariant, whatever frames it leaves. *)
LEMMA OutageStep ==
    ASSUME IInv, NEW reason \in {"crashed", "cut"}, Outage(reason),
           NEW frames \in Seq(WalRecord), Fits(frames), journal' = frames,
           synced' \in Seq(WalRecord), SyncedOK', tail' \in {"clean", "short", "bad"},
           ~Journaled => journal' = <<>> /\ synced' = <<>> /\ tail' = "clean"
    PROVE  IInv'
<1>0. TypeOK /\ HistoryOK
  BY DEF IInv
<1>a. /\ pc' = reason /\ database' = durable
      /\ memory' = [revision |-> 0, time |-> 0]
      /\ requires_restart' = FALSE /\ unflushed' = FALSE
      /\ plan' = NoRecord /\ batches' = 0 /\ transaction' = Blank.docs
      /\ acked' = RecoveredFrom(durable, frames)
      /\ history' = SubSeq(history, 1, acked' + 1)
      /\ UNCHANGED <<durability, durable, safe>>
  BY DEF Outage
<1>b. /\ acked' \in Revisions /\ history' \in Seq(Contents)
      /\ Len(history') = acked' + 1
      /\ HistoryOK' /\ FramesOK'
  BY <1>0, <1>a, CutHistory
<1>1. TypeOK'
  <2>1. 0 \in Revisions /\ 0 \in Times
    BY BoundsAssumption DEF Revisions, Times
  <2>2. memory' \in [revision : Revisions, time : Times] /\ batches' \in Revisions
    BY <1>a, <2>1
  <2>3. plan' \in WalRecord /\ transaction' \in Documents
    BY <1>a, BlankType DEF Contents
  <2> QED
    BY <1>0, <1>a, <1>b, <2>2, <2>3 DEF TypeOK, PCs
<1>2. NoJournalOK' /\ ReplayNeverRefuses'
  BY <1>a DEF NoJournalOK, ReplayNeverRefuses
<1>3. Recoverable' = acked'
  BY <1>a DEF Recoverable, RecoveredFrom
<1>4. DownOK'
  BY <1>a, <1>b, <1>3 DEF DownOK
<1>5. WorkingOK' /\ HolderOK' /\ ServesAcknowledged'
  BY <1>a DEF WorkingOK, HolderOK, ServesAcknowledged, Serving, Down
<1>6. CrashKeepsAcknowledged'
  <2>1. acked' \in Nat
    BY <1>b, BoundsAssumption DEF Revisions
  <2> QED
    BY <1>3, <2>1 DEF CrashKeepsAcknowledged
<1> QED
  BY <1>1, <1>2, <1>4, <1>5, <1>6, <1>b DEF IInv

(* Whatever a truncation under way removes, redb already holds durably. *)
LEMMA TruncatingFacts ==
    ASSUME IInv, Truncating
    PROVE  /\ \A i \in 1 .. Len(journal) : journal[i].revision <= durable.revision
           /\ \A i \in 1 .. Len(synced) : synced[i].revision <= durable.revision
<1>0. TypeOK /\ SyncedOK /\ HolderOK
  BY DEF IInv
<1>1. ASSUME NEW i \in 1 .. Len(journal) PROVE journal[i].revision <= durable.revision
  <2>1. CASE pc \in {"checkpoint", "flush_checkpoint"}
    <3>1. pc \in Serving /\ ~requires_restart /\ durable.revision = acked
          /\ pc \notin {"append", "persist"}
      BY <1>0, <2>1 DEF HolderOK, Serving, Down, PCs
    <3>2. journal[i].revision <= acked
      BY <3>1, WorkingFacts
    <3> QED
      BY <3>1, <3>2
  <2>2. CASE Unreplayed = {}
    <3>1. ~(journal[i].revision > durable.revision)
      BY <2>2 DEF Unreplayed
    <3>2. journal[i].revision \in Nat /\ durable.revision \in Nat
      BY <1>0, JournalFacts, NumberFacts
    <3> QED
      BY <3>1, <3>2
  <2> QED
    BY <2>1, <2>2 DEF Truncating
<1>2. ASSUME NEW i \in 1 .. Len(synced) PROVE synced[i].revision <= durable.revision
  <2>1. CASE Len(synced) <= Len(journal) /\ synced[i] = journal[i]
    <3>1. synced \in Seq(WalRecord)
      BY <1>0 DEF TypeOK
    <3>2. Len(synced) \in Nat /\ Len(journal) \in Nat
      BY <1>0, <3>1, FrameFacts, JournalFacts
    <3> QED
      BY <1>1, <2>1, <3>2
  <2> QED
    BY <1>0, <2>1 DEF SyncedOK
<1> QED
  BY <1>1, <1>2

(* So does an empty journal. *)
LEMMA FitsNothing == Fits(<<>>)
  BY NoFrames DEF Fits

(* ProcessCrash preserves the invariant. *)
LEMMA ProcessCrashStep == IInv /\ ProcessCrash => IInv'
<1> SUFFICES ASSUME IInv, ProcessCrash PROVE IInv'
  OBVIOUS
<1>0. TypeOK /\ FramesOK /\ SyncedOK /\ NoJournalOK
  BY DEF IInv
<1>1. Outage("crashed") /\ synced' = synced /\ durable' = durable
      /\ synced \in Seq(WalRecord) /\ journal \in Seq(WalRecord) /\ tail \in {"clean", "short", "bad"}
  BY <1>0 DEF ProcessCrash, Outage, TypeOK
<1>2. CASE /\ journal' = journal
           /\ tail' = tail \/ (tail' = "short" /\ pc = "append")
  <2>1. Fits(journal)
    BY <1>0 DEF FramesOK, Fits
  <2>2. SyncedOK'
    BY <1>0, <1>1, <1>2 DEF SyncedOK
  <2>3. tail' \in {"clean", "short", "bad"}
    BY <1>1, <1>2
  <2>4. ~Journaled => journal' = <<>> /\ synced' = <<>> /\ tail' = "clean"
    BY <1>0, <1>1, <1>2 DEF NoJournalOK
  <2> QED
    BY <1>1, <1>2, <2>1, <2>2, <2>3, <2>4, OutageStep
<1>3. CASE Truncating /\ journal' = <<>> /\ tail' = tail
  <2>1. SyncedOK'
    BY <1>1, <1>3, TruncatingFacts DEF SyncedOK
  <2>2. ~Journaled => journal' = <<>> /\ synced' = <<>> /\ tail' = "clean"
    BY <1>0, <1>1, <1>3 DEF NoJournalOK
  <2>3. <<>> \in Seq(WalRecord) /\ Fits(<<>>)
    BY NoFrames, FitsNothing
  <2> QED
    BY <1>1, <1>3, <2>1, <2>2, <2>3, OutageStep
<1> QED
  BY <1>2, <1>3 DEF ProcessCrash

(* The frames a power cut may leave. *)
LEMMA SurvivingFacts ==
    ASSUME IInv, NEW frames \in SurvivingFrames
    PROVE  /\ frames \in Seq(WalRecord) /\ Fits(frames)
           /\ ~Journaled => frames = <<>>
<1>0. TypeOK /\ FramesOK /\ SyncedOK /\ NoJournalOK
  BY DEF IInv
<1>1. /\ synced \in Seq(WalRecord) /\ journal \in Seq(WalRecord)
      /\ Len(synced) \in Nat /\ Len(journal) \in Nat
  BY <1>0, FrameFacts DEF TypeOK
<1>2. frames = synced \/ \E n \in 0 .. Len(journal) : frames = SubSeq(journal, 1, n)
  BY <1>1 DEF SurvivingFrames
<1>3. CASE frames = synced
  BY <1>0, <1>1, <1>3, FitsSynced DEF NoJournalOK
<1>4. ASSUME NEW n \in 0 .. Len(journal), frames = SubSeq(journal, 1, n)
      PROVE  /\ frames \in Seq(WalRecord) /\ Fits(frames)
             /\ ~Journaled => frames = <<>>
  <2>1. n \in Nat /\ n <= Len(journal) /\ \A i \in 1 .. n : journal[i] \in WalRecord
    BY <1>0, <1>1, JournalFacts
  <2>2. frames \in Seq(WalRecord) /\ Len(frames) = n /\ \A i \in 1 .. n : frames[i] = journal[i]
    BY <1>4, <2>1, PrefixFacts
  <2>3. Fits(frames)
    BY <1>0, <2>1, <2>2, FitsPart
  <2>4. ~Journaled => Len(frames) = 0
    BY <1>0, <1>1, <2>1, <2>2, NoFrames DEF NoJournalOK
  <2>5. ~Journaled => frames = <<>>
    BY <2>2, <2>4, EmptySeq
  <2> QED
    BY <2>2, <2>3, <2>5
<1> QED
  BY <1>2, <1>3, <1>4

(* PowerCut preserves the invariant. *)
LEMMA PowerCutStep == IInv /\ PowerCut => IInv'
<1> SUFFICES ASSUME IInv, PowerCut PROVE IInv'
  OBVIOUS
<1>0. TypeOK /\ NoJournalOK
  BY DEF IInv
<1>1. Outage("cut") /\ journal' \in SurvivingFrames /\ synced' = journal'
      /\ tail' \in {"clean", "short", "bad"}
  BY DEF PowerCut
<1>2. journal' \in Seq(WalRecord) /\ Fits(journal') /\ (~Journaled => journal' = <<>>)
  BY <1>1, SurvivingFacts
<1>3. SyncedOK'
  <2>1. Len(journal') \in Nat
    BY <1>2, FrameFacts
  <2> QED
    BY <1>1, <2>1 DEF SyncedOK
<1>4. ~Journaled => journal' = <<>> /\ synced' = <<>> /\ tail' = "clean"
  BY <1>0, <1>1, <1>2 DEF NoJournalOK, PowerCut
<1> QED
  BY <1>1, <1>2, <1>3, <1>4, OutageStep

(* Every step of the store, of the flusher, of a bulk load, of an open and *)
(* of an outage preserves the invariant.                                   *)
THEOREM NextIInv == IInv /\ [Next]_vars => IInv'
<1> SUFFICES ASSUME IInv, [Next]_vars PROVE IInv'
  OBVIOUS
<1>1. CASE UNCHANGED vars
  BY <1>1 DEF vars, mutex, state, local, files, ghost, IInv, TypeOK, HistoryOK, FramesOK, SyncedOK,
     NoJournalOK, DownOK, WorkingOK, HolderOK, ServesAcknowledged, CrashKeepsAcknowledged,
     ReplayNeverRefuses, Recoverable, RecoveredFrom
<1>2. CASE Open
  BY <1>2, OpenJournalStep, OpenRefusesTailStep, ReplayRecordStep, FinishOpenStep,
     OpenWithoutJournalStep DEF Open
<1>3. CASE Commit
  BY <1>3, PlanStep, AppendJournalStep, AppendFailsStep, PersistCommitStep, PersistFailsStep,
     CheckpointCommitStep DEF Commit
<1>4. CASE BeginFlush \/ FlushStep
  BY <1>4, BeginFlushStep, SyncJournalStep, PersistStateDurablyStep, CheckpointFlushStep,
     FlushFailsStep DEF FlushStep
<1>5. CASE Bulk
  BY <1>5, BeginBulkStep, BulkBatchStep, BulkFinishStep, BulkFinishFailsStep, BulkAbandonStep
  DEF Bulk
<1>6. CASE ProcessCrash \/ PowerCut
  BY <1>6, ProcessCrashStep, PowerCutStep
<1> QED
  BY <1>1, <1>2, <1>3, <1>4, <1>5, <1>6 DEF Next

(* The inductive invariant holds in every reachable state. *)
THEOREM Inductive == Spec => []IInv
  BY InitIInv, NextIInv, PTL DEF Spec

(* Every variable keeps its type. *)
THEOREM TypeCorrect == Spec => []TypeOK
<1>1. IInv => TypeOK
  BY DEF IInv
<1> QED
  BY <1>1, Inductive, PTL

(* A reader is served exactly the last acknowledged revision, whatever     *)
(* failures, crashes and power cuts came before.                           *)
THEOREM Serves == Spec => []ServesAcknowledged
<1>1. IInv => ServesAcknowledged
  BY DEF IInv
<1> QED
  BY <1>1, Inductive, PTL

(* With the journal on, no acknowledged commit is lost by a process crash. *)
THEOREM CrashSafety == Spec => []CrashKeepsAcknowledged
<1>1. IInv => CrashKeepsAcknowledged
  BY DEF IInv
<1> QED
  BY <1>1, Inductive, PTL

(* Replaying the journal never fails on a gap or on a commit time.         *)
THEOREM ReplaySucceeds == Spec => []ReplayNeverRefuses
<1>1. IInv => ReplayNeverRefuses
  BY DEF IInv
<1> QED
  BY <1>1, Inductive, PTL

(* No power cut, whichever unsynced frames it spares, loses a commit that  *)
(* a flush, a per-commit acknowledgement or a bulk load promised durable.  *)
THEOREM CutSafety == Spec => []CutKeepsSafe
<1>1. IInv => CutKeepsSafe
  <2> SUFFICES ASSUME IInv, NEW frames \in SurvivingFrames
               PROVE  safe <= RecoveredFrom(durable, frames)
    BY DEF CutKeepsSafe
  <2>1. TypeOK /\ safe <= durable.revision
    BY DEF IInv, HistoryOK
  <2>2. frames \in Seq(WalRecord)
    BY SurvivingFacts
  <2>3. safe \in Nat /\ durable.revision \in Nat
    BY <2>1, NumberFacts
  <2>4. /\ RecoveredFrom(durable, frames) \in Nat
        /\ durable.revision <= RecoveredFrom(durable, frames)
    BY <2>1, <2>2, RecoveredFacts
  <2> QED
    BY <2>1, <2>3, <2>4
<1> QED
  BY <1>1, Inductive, PTL

-----------------------------------------------------------------------------
(* The disk store implements DurableStore.  What the refinement mapping      *)
(* shows of a state: the acknowledged part of the ghost history, and whether *)
(* the store is up.                                                          *)
AckedLog == SubSeq(history, 1, acked + 1)
Up == IF pc = "cut" THEN "cut" ELSE IF pc \in {"crashed", "refused"} THEN "crashed" ELSE "open"

(* The acknowledged revisions are in the history, what is promised durable   *)
(* among them.                                                               *)
AckedOK == acked \in Nat /\ safe \in Nat /\ safe <= acked
LogOK == /\ AckedLog \in Seq(Contents) /\ Len(AckedLog) = acked + 1
         /\ \A i \in 1 .. acked + 1 : AckedLog[i] = history[i] /\ i \in 1 .. Len(history)

(* Both follow from the invariant. *)
LEMMA AckedFacts == IInv => AckedOK /\ LogOK
<1> SUFFICES ASSUME IInv PROVE AckedOK /\ LogOK
  OBVIOUS
<1>0. TypeOK /\ HistoryOK
  BY DEF IInv
<1>1. acked \in Nat /\ safe \in Nat /\ safe <= acked /\ acked < Len(history) /\ Len(history) \in Nat
  BY <1>0, NumberFacts, HistoryFacts DEF HistoryOK
<1>2. acked + 1 \in Nat /\ \A i \in 1 .. acked + 1 : i \in 1 .. Len(history)
  BY <1>1
<1>3. \A i \in 1 .. acked + 1 : history[i] \in Contents
  BY <1>0, <1>2, HistoryFacts
<1> QED
  BY <1>1, <1>2, <1>3, PrefixFacts DEF AckedLog, AckedOK, LogOK

(* The same of the next state. *)
LEMMA AckedFactsNext == IInv' => AckedOK' /\ LogOK'
  BY AckedFacts, PTL

(* Two logs that agree where both are defined extend one another. *)
LEMMA PrefixesAgree ==
    ASSUME NEW S, NEW s \in Seq(S), NEW t \in Seq(S), NEW m \in Nat, NEW n \in Nat,
           Len(s) = m + 1, Len(t) = n + 1, \A i \in 1 .. m + 1 : i <= n + 1 => t[i] = s[i]
    PROVE  /\ m <= n => Durable!Extends(t, s)
           /\ n <= m => Durable!Extends(s, t)
           /\ n = m => t = s
<1>1. ASSUME m <= n PROVE Durable!Extends(t, s)
  BY <1>1 DEF Durable!Extends
<1>2. ASSUME n <= m PROVE Durable!Extends(s, t)
  BY <1>2 DEF Durable!Extends
<1>3. ASSUME n = m PROVE t = s
  BY <1>3, SeqEqual
<1> QED
  BY <1>1, <1>2, <1>3

(* Arithmetic on the revisions of two states. *)
LEMMA Between ==
    ASSUME NEW m \in Nat, NEW n \in Nat
    PROVE  /\ \A i \in 1 .. m + 1 : i <= n + 1 => i \in 1 .. n + 1
           /\ m <= n \/ n <= m
           /\ m < n => m <= n /\ n + 1 > m + 1
           /\ m <= n => n + 1 >= m + 1
           /\ n + 1 \in Nat
  OBVIOUS

(* Where the two histories agree, one log extends the other. *)
LEMMA LogsAgree ==
    ASSUME IInv, IInv',
           \A i \in 1 .. acked + 1 : i <= acked' + 1 => history'[i] = history[i]
    PROVE  /\ acked <= acked' => Durable!Extends(AckedLog', AckedLog)
           /\ acked' <= acked => Durable!Extends(AckedLog, AckedLog')
           /\ acked' = acked => AckedLog' = AckedLog
<1>1. AckedOK /\ LogOK /\ AckedOK' /\ LogOK'
  BY AckedFacts, AckedFactsNext
<1>2. acked \in Nat /\ acked' \in Nat
  BY <1>1 DEF AckedOK
<1>3. /\ AckedLog \in Seq(Contents) /\ Len(AckedLog) = acked + 1
      /\ AckedLog' \in Seq(Contents) /\ Len(AckedLog') = acked' + 1
  BY <1>1 DEF LogOK
<1>4. ASSUME NEW i \in 1 .. acked + 1, i <= acked' + 1 PROVE AckedLog'[i] = AckedLog[i]
  <2>1. i \in 1 .. acked' + 1
    BY <1>2, <1>4, Between
  <2> QED
    BY <1>1, <1>4, <2>1 DEF LogOK
<1> QED
  BY <1>2, <1>3, <1>4, PrefixesAgree

(* In particular when nothing is acknowledged and no entry of the history    *)
(* changes.                                                                  *)
LEMMA SameLog ==
    ASSUME IInv, IInv', UNCHANGED acked, \A i \in 1 .. Len(history) : history'[i] = history[i]
    PROVE  AckedLog' = AckedLog /\ Durable!Extends(AckedLog', AckedLog)
<1>1. LogOK /\ acked \in Nat
  BY AckedFacts DEF AckedOK
<1>2. \A i \in 1 .. acked + 1 : i <= acked' + 1 => history'[i] = history[i]
  BY <1>1 DEF LogOK
<1>3. acked <= acked'
  BY <1>1
<1> QED
  BY <1>2, <1>3, LogsAgree

(* A step that acknowledges nothing, flushes nothing and leaves the store    *)
(* where it was is a stutter.                                                *)
LEMMA StutterStep ==
    ASSUME IInv, IInv', UNCHANGED <<acked, safe>>, Up' = Up,
           \A i \in 1 .. Len(history) : history'[i] = history[i]
    PROVE  UNCHANGED Durable!vars
<1>1. AckedLog' = AckedLog
  BY SameLog
<1> QED
  BY <1>1 DEF Durable!vars, AckedLog, Up

(* A step that only opens the store, with a later `safe` at most. *)
LEMMA OpenStep ==
    ASSUME IInv, IInv', UNCHANGED <<acked, history>>, Up' = "open", safe <= safe'
    PROVE  Durable!Open
<1>1. AckedLog' = AckedLog
  BY SameLog
<1>2. Len(AckedLog) = acked + 1
  BY AckedFacts DEF LogOK
<1>3. safe \in Nat /\ safe' \in Nat /\ acked \in Nat /\ safe' <= acked
  BY AckedFacts, AckedFactsNext DEF AckedOK
<1>4. \A n \in Nat : safe <= n /\ n <= acked => n + 1 \in safe + 1 .. acked + 1
  <2>1. safe \in Nat /\ acked \in Nat
    BY <1>3
  <2> QED
    BY <2>1
<1>5. safe' + 1 \in safe + 1 .. Len(AckedLog)
  BY <1>2, <1>3, <1>4
<1> QED
  BY <1>1, <1>5 DEF Durable!Open, AckedLog, Up

(* An open that fails leaves the store as a crash does. *)
LEMMA RefusedStep ==
    ASSUME IInv, IInv', UNCHANGED <<acked, safe, history>>, Up' = "crashed"
    PROVE  Durable!ProcessCrash
<1>1. AckedLog' = AckedLog /\ Durable!Extends(AckedLog', AckedLog)
  BY SameLog
<1>2. AckedLog' \in Seq(Contents) /\ Len(AckedLog') = acked + 1
  BY <1>1, AckedFacts DEF LogOK
<1>3. safe \in Nat /\ acked \in Nat /\ safe <= acked
  BY AckedFacts DEF AckedOK
<1>4. Len(AckedLog') >= safe + 1
  BY <1>2, <1>3
<1> QED
  BY <1>1, <1>2, <1>4 DEF Durable!ProcessCrash, AckedLog, Up

(* Commits acknowledged at the end of the history. *)
LEMMA AcknowledgeStep ==
    ASSUME IInv, IInv', UNCHANGED history, Up = "open", Up' = "open", acked < acked',
           safe' \in {safe, acked'}
    PROVE  Durable!Acknowledge
<1>1. LogOK /\ LogOK' /\ acked \in Nat /\ acked' \in Nat
  BY AckedFacts, AckedFactsNext DEF AckedOK
<1>2. /\ AckedLog' \in Seq(Contents)
      /\ Len(AckedLog') = acked' + 1 /\ Len(AckedLog) = acked + 1
  BY <1>1 DEF LogOK
<1>3. Durable!Extends(AckedLog', AckedLog)
  BY <1>1, Between, LogsAgree
<1>4. Len(AckedLog') > Len(AckedLog)
  BY <1>1, <1>2, Between
<1>5. safe' + 1 \in {safe + 1, Len(AckedLog')}
  BY <1>2, Zenon
<1> QED
  BY <1>2, <1>3, <1>4, <1>5 DEF Durable!Acknowledge, AckedLog, Up

(* A flush that reaches everything acknowledged. *)
LEMMA FlushedStep ==
    ASSUME IInv, IInv', UNCHANGED <<history, acked>>, Up = "open", Up' = "open", safe' = acked
    PROVE  Durable!Flush
<1>1. AckedLog' = AckedLog
  BY SameLog
<1>2. Len(AckedLog) = acked + 1
  BY AckedFacts DEF LogOK
<1> QED
  BY <1>1, <1>2 DEF Durable!Flush, AckedLog, Up

(* An outage: the new log is a part of the history, long enough for `safe`. *)
LEMMA OutageFacts ==
    ASSUME IInv, IInv', NEW reason \in {"crashed", "cut"}, Outage(reason)
    PROVE  /\ AckedLog' \in Seq(Contents) /\ Len(AckedLog') >= safe + 1
           /\ acked <= acked' => Durable!Extends(AckedLog', AckedLog)
           /\ Durable!Extends(AckedLog', AckedLog) \/ Durable!Extends(AckedLog, AckedLog')
<1>1. safe' = safe /\ history' = SubSeq(history, 1, acked' + 1)
  BY DEF Outage
<1>2. /\ acked \in Nat /\ acked' \in Nat /\ safe \in Nat /\ safe <= acked'
      /\ AckedLog' \in Seq(Contents) /\ Len(AckedLog') = acked' + 1
  BY <1>1, AckedFacts, AckedFactsNext DEF AckedOK, LogOK
<1>3. \A i \in 1 .. acked + 1 : i <= acked' + 1 => history'[i] = history[i]
  <2>1. \A n \in Nat : \A i \in 1 .. n + 1 : SubSeq(history, 1, n + 1)[i] = history[i]
    OBVIOUS
  <2> QED
    BY <1>1, <1>2, <2>1, Between
<1>4. /\ acked <= acked' => Durable!Extends(AckedLog', AckedLog)
      /\ acked' <= acked => Durable!Extends(AckedLog, AckedLog')
  BY <1>3, LogsAgree
<1>5. acked <= acked' \/ acked' <= acked
  BY <1>2, Between
<1>6. acked' + 1 >= safe + 1
  BY <1>2, Between
<1> QED
  BY <1>2, <1>4, <1>5, <1>6

(* A crash of a journaled store keeps everything acknowledged: a truncation  *)
(* under way removes only what redb already holds.                           *)
LEMMA CrashKeeps == ASSUME IInv, IInv', ProcessCrash, Journaled PROVE acked <= acked'
<1>0. TypeOK /\ HolderOK /\ DownOK /\ CrashKeepsAcknowledged
  BY DEF IInv
<1>1. acked' = RecoveredFrom(durable, journal') /\ acked <= Recoverable
  BY <1>0 DEF ProcessCrash, Outage, CrashKeepsAcknowledged
<1>2. CASE journal' = journal
  BY <1>1, <1>2 DEF Recoverable
<1>3. CASE Truncating /\ journal' = <<>>
  <2>1. acked' = durable.revision
    BY <1>1, <1>3, NoFrames DEF RecoveredFrom
  <2>2. acked \in Nat /\ durable.revision \in Nat /\ Len(journal) \in Nat
    BY <1>0, NumberFacts, JournalFacts
  <2>3. CASE pc \in {"checkpoint", "flush_checkpoint"}
    BY <1>0, <2>1, <2>2, <2>3 DEF HolderOK
  <2>4. CASE pc = "replay"
    <3>1. acked = Recoverable
      BY <1>0, <2>4 DEF DownOK, Down
    <3>2. Recoverable = durable.revision
      BY <1>0, <1>3, <2>2, TruncatingFacts, JournalFacts DEF Recoverable, RecoveredFrom
    <3> QED
      BY <2>1, <2>2, <3>1, <3>2
  <2> QED
    BY <1>3, <2>3, <2>4 DEF Truncating
<1> QED
  BY <1>2, <1>3 DEF ProcessCrash

(* An open is an Open of the abstract store, or a failure to open. *)
LEMMA OpenRefines == ASSUME IInv, IInv', Open PROVE [Durable!Next]_Durable!vars
<1> USE DEF ghost
<1>0. TypeOK /\ HistoryOK
  BY DEF IInv
<1>1. CASE OpenJournal
  <2>1. UNCHANGED <<acked, history, safe>> /\ Up' = "open"
    BY <1>1 DEF OpenJournal, Up
  <2>2. safe <= safe'
    BY <2>1, AckedFacts DEF AckedOK
  <2> QED
    BY <2>1, <2>2, OpenStep DEF Durable!Next
<1>2. CASE OpenRefusesTail
  <2>1. UNCHANGED <<acked, history, safe>> /\ Up' = "crashed"
    BY <1>2 DEF OpenRefusesTail, Up
  <2> QED
    BY <2>1, RefusedStep DEF Durable!Next
<1>3. CASE ReplayRecord
  <2>1. UNCHANGED <<acked, history, safe>> /\ pc = "replay" /\ pc' \in {"replay", "refused"}
    BY <1>3 DEF ReplayRecord
  <2>2. CASE pc' = "replay"
    BY <2>1, <2>2, StutterStep DEF Up
  <2>3. CASE pc' = "refused"
    <3>1. Up' = "crashed"
      BY <2>3 DEF Up
    <3> QED
      BY <2>1, <3>1, RefusedStep DEF Durable!Next
  <2> QED
    BY <2>1, <2>2, <2>3
<1>4. CASE FinishOpen \/ OpenWithoutJournal
  <2>1. UNCHANGED <<acked, history>> /\ pc' = "idle" /\ safe' = durable.revision
    BY <1>4 DEF FinishOpen, OpenWithoutJournal, Load
  <2>2. safe <= safe' /\ Up' = "open"
    BY <1>0, <2>1 DEF HistoryOK, Up
  <2> QED
    BY <2>1, <2>2, OpenStep DEF Durable!Next
<1> QED
  BY <1>1, <1>2, <1>3, <1>4 DEF Open

(* A commit is acknowledged when redb has it; its other steps are silent. *)
LEMMA CommitRefines == ASSUME IInv, IInv', Commit PROVE [Durable!Next]_Durable!vars
<1> USE DEF ghost
<1>0. TypeOK /\ HistoryOK /\ WorkingOK /\ HolderOK
  BY DEF IInv
<1>1. ASSUME NEW m \in Mutations, NEW c \in Times, Plan(m, c) PROVE UNCHANGED Durable!vars
  <2>1. UNCHANGED <<acked, safe>> /\ pc = "idle" /\ pc' \in {"append", "persist"}
    BY <1>1 DEF Plan
  <2>2. \A i \in 1 .. Len(history) : history'[i] = history[i]
    <3> DEFINE new == [time |-> next_commit_time(c),
                       docs |-> apply_mutations(history[Len(history)].docs, m)]
    <3>1. history' = Append(history, new) /\ history \in Seq(Contents)
      BY <1>0, <1>1 DEF Plan, TypeOK
    <3> HIDE DEF new
    <3> QED
      BY <3>1
  <2> QED
    BY <2>1, <2>2, StutterStep DEF Up
<1>2. CASE AppendJournal \/ AppendFails \/ PersistFails \/ CheckpointCommit
  <2>1. /\ UNCHANGED <<acked, safe, history>>
        /\ pc \in {"append", "persist", "checkpoint"} /\ pc' \in {"persist", "idle"}
    BY <1>2 DEF AppendJournal, AppendFails, PersistFails, CheckpointCommit
  <2> QED
    BY <2>1, StutterStep DEF Up
<1>3. CASE PersistCommit
  <2>1. /\ pc = "persist" /\ pc' \in {"checkpoint", "idle"} /\ UNCHANGED history
        /\ acked' = plan.revision /\ safe' \in {safe, plan.revision}
    BY <1>3 DEF PersistCommit
  <2>2. ~requires_restart /\ pc \in Serving
    BY <1>0, <2>1 DEF HolderOK, Serving, Down, PCs
  <2>3. plan.revision = memory.revision + 1 /\ memory.revision = acked + 0
    BY <1>0, <2>1, <2>2 DEF HolderOK, WorkingOK
  <2>4. acked < acked' /\ Up = "open" /\ Up' = "open"
    BY <1>0, <2>1, <2>3, NumberFacts DEF Up
  <2> QED
    BY <2>1, <2>4, AcknowledgeStep DEF Durable!Next
<1> QED
  BY <1>1, <1>2, <1>3 DEF Commit

(* A flush is the abstract one when its last step is done. *)
LEMMA FlushRefines == ASSUME IInv, IInv', BeginFlush \/ FlushStep PROVE [Durable!Next]_Durable!vars
<1> USE DEF ghost
<1>0. TypeOK /\ HistoryOK /\ WorkingOK /\ HolderOK
  BY DEF IInv
<1>1. CASE BeginFlush \/ SyncJournal \/ FlushFails
  <2>1. /\ UNCHANGED <<acked, safe, history>>
        /\ pc \in {"idle", "flush_sync", "flush_persist", "flush_checkpoint"}
        /\ pc' \in {"flush_sync", "flush_persist", "idle"}
    BY <1>1 DEF BeginFlush, SyncJournal, FlushFails
  <2> QED
    BY <2>1, StutterStep DEF Up
<1>2. CASE persist_state_durably \/ CheckpointFlush
  <2>1. /\ UNCHANGED <<acked, history>> /\ pc \in {"flush_persist", "flush_checkpoint"}
        /\ pc' \in {"flush_checkpoint", "idle"} /\ safe' \in {safe, memory.revision}
    BY <1>2 DEF persist_state_durably, CheckpointFlush
  <2>2. ~requires_restart /\ pc \in Serving
    BY <1>0, <2>1 DEF HolderOK, Serving, Down, PCs
  <2>3. memory.revision = acked + 0
    BY <1>0, <2>1, <2>2 DEF WorkingOK
  <2>4. memory.revision = acked /\ Up = "open" /\ Up' = "open"
    BY <1>0, <2>1, <2>3, NumberFacts DEF Up
  <2>5. CASE safe' = safe
    BY <2>1, <2>4, <2>5, StutterStep
  <2>6. CASE safe' = acked
    BY <2>1, <2>4, <2>6, FlushedStep DEF Durable!Next
  <2> QED
    BY <2>1, <2>4, <2>5, <2>6
<1> QED
  BY <1>1, <1>2 DEF FlushStep

(* A bulk load acknowledges all its batches together. *)
LEMMA BulkRefines == ASSUME IInv, IInv', Bulk PROVE [Durable!Next]_Durable!vars
<1> USE DEF ghost
<1>0. TypeOK /\ HistoryOK /\ WorkingOK /\ HolderOK
  BY DEF IInv
<1>1. CASE begin_bulk_commit \/ BulkFinishFails \/ BulkAbandon
  <2>1. /\ UNCHANGED <<acked, safe, history>>
        /\ pc \in {"idle", "bulk"} /\ pc' \in {"bulk", "idle"}
    BY <1>1 DEF begin_bulk_commit, BulkFinishFails, BulkAbandon
  <2> QED
    BY <2>1, StutterStep DEF Up
<1>2. ASSUME NEW m \in Mutations, NEW c \in Times, BulkBatch(m, c) PROVE UNCHANGED Durable!vars
  <2>1. UNCHANGED <<acked, safe, pc>>
    BY <1>2 DEF BulkBatch, mutex
  <2>2. \A i \in 1 .. Len(history) : history'[i] = history[i]
    <3> DEFINE new == [time |-> next_commit_time(c),
                       docs |-> apply_mutations(history[Len(history)].docs, m)]
    <3>1. history' = Append(history, new) /\ history \in Seq(Contents)
      BY <1>0, <1>2 DEF BulkBatch, TypeOK
    <3> HIDE DEF new
    <3> QED
      BY <3>1
  <2> QED
    BY <2>1, <2>2, StutterStep DEF Up
<1>3. CASE BulkFinish
  <2>1. pc = "bulk" /\ pc' = "idle" /\ UNCHANGED history
    BY <1>3 DEF BulkFinish
  <2>2. Up = "open" /\ Up' = "open"
    BY <2>1 DEF Up
  <2>3. CASE batches = 0
    <3>1. UNCHANGED <<acked, safe>>
      BY <1>3, <2>3 DEF BulkFinish
    <3> QED
      BY <2>1, <2>2, <3>1, StutterStep
  <2>4. CASE batches # 0
    <3>1. acked' = memory.revision /\ safe' = memory.revision
      BY <1>3, <2>4 DEF BulkFinish
    <3>2. ~requires_restart /\ pc \in Serving
      BY <1>0, <2>1 DEF HolderOK, Serving, Down, PCs
    <3>3. memory.revision = acked + batches
      BY <1>0, <2>1, <3>2 DEF WorkingOK
    <3>4. acked < acked' /\ safe' \in {safe, acked'}
      BY <1>0, <2>4, <3>1, <3>3, NumberFacts
    <3> QED
      BY <2>1, <2>2, <3>4, AcknowledgeStep DEF Durable!Next
  <2> QED
    BY <2>3, <2>4
<1> QED
  BY <1>1, <1>2, <1>3 DEF Bulk

(* Both outages are the abstract ones. *)
LEMMA OutageRefines == ASSUME IInv, IInv', ProcessCrash \/ PowerCut PROVE Durable!Next
<1>1. CASE ProcessCrash
  <2>1. Outage("crashed")
    BY <1>1 DEF ProcessCrash
  <2>2. Up' = "crashed" /\ safe' = safe
    BY <2>1 DEF Outage, Up
  <2>3. Journaled => Durable!Extends(AckedLog', AckedLog)
    BY <1>1, <2>1, CrashKeeps, OutageFacts
  <2>4. Durable!ProcessCrash
    BY <2>1, <2>2, <2>3, OutageFacts DEF Durable!ProcessCrash, AckedLog, Up
  <2> QED
    BY <2>4 DEF Durable!Next
<1>2. CASE PowerCut
  <2>1. Outage("cut")
    BY <1>2 DEF PowerCut
  <2>2. Up' = "cut" /\ safe' = safe
    BY <2>1 DEF Outage, Up
  <2>3. Durable!PowerCut
    BY <2>1, <2>2, OutageFacts DEF Durable!PowerCut, AckedLog, Up
  <2> QED
    BY <2>3 DEF Durable!Next
<1> QED
  BY <1>1, <1>2

(* Everything the disk backend does - commits, flushes, bulk loads, opens,   *)
(* failures of any of their I/O calls, crashes and power cuts between any    *)
(* two of them - is a behaviour of DurableStore, whatever the constants are. *)
THEOREM Refines == Spec => ImplementsDurableStore
<1>1. Init => Durable!Init
  <2> SUFFICES ASSUME Init PROVE Durable!Init
    OBVIOUS
  <2>1. history = <<Blank>> /\ acked = 0 /\ safe = 0 /\ pc = "crashed"
    BY DEF Init
  <2>2. SubSeq(<<Blank>>, 1, 1) = <<Blank>>
    BY <<Blank>> \in Seq({Blank}), Len(<<Blank>>) = 1, SubSeqFull
  <2> QED
    BY <2>1, <2>2 DEF Durable!Init
<1>2. IInv /\ IInv' /\ [Next]_vars => [Durable!Next]_Durable!vars
  <2> SUFFICES ASSUME IInv, IInv', [Next]_vars PROVE [Durable!Next]_Durable!vars
    OBVIOUS
  <2>1. CASE UNCHANGED vars
    BY <2>1 DEF vars, mutex, ghost, Durable!vars
  <2> QED
    BY <2>1, OpenRefines, CommitRefines, FlushRefines, BulkRefines, OutageRefines DEF Next
<1>3. Spec => []IInv
  BY Inductive
<1> QED
  BY <1>1, <1>2, <1>3, PTL DEF Spec, ImplementsDurableStore, Durable!Spec
=============================================================================
