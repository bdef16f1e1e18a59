------------------------------ MODULE Storage ------------------------------
(***************************************************************************)
(* Object storage (crates/storage-front): object files, their metadata in  *)
(* memory, in redb and in the write-behind journal, resumable uploads,     *)
(* rules, events, and the crashes the journal is there for.                *)
(*                                                                         *)
(* A request holds three locks at different times: `mutation` (one async   *)
(* lock for publishing, deleting, patching, importing and resetting),      *)
(* `inner` (the metadata in memory, held while a change is persisted) and  *)
(* the journal's.  One action is what a request does between two points    *)
(* where another one can run.  A key stands for a bucket and a name; an    *)
(* object's bytes stand for their size, md5 and crc32c as well.  Names,    *)
(* links, dates and most metadata fields are left out.                     *)
(***************************************************************************)
EXTENDS Integers, Sequences, SequencesExt

CONSTANTS
    Keys,
    Bytes,          \* the bytes a request may carry, one at a time
    Auths,          \* the credentials it may carry
    Threads,        \* bound: requests under way at a time
    MaxRequests,    \* bound: requests
    MaxCrashes,     \* bound: kills and failed flushes, together
    Modes,          \* the durabilities a process may be started with
    None

VARIABLES
    mem,        \* StorageData: objects, uploads, next_id
    redb,       \* the metadata database as the process sees it
    durable,    \* the part of it that survives the process
    journal,    \* metadata.journal
    wb,         \* WriteBehindState: seq, durable_seq, pending_files
    mode,       \* StorageDurability
    open,       \* the change journaled and not yet in redb (`inner` is held), or None
    flushing,   \* a flush that has committed and not yet truncated the journal
    replacing,  \* a replace that has truncated and not yet committed
    files,      \* the files in objects/ and uploads/
    synced,     \* the files whose bytes are on the drive
    mutation,   \* the thread that holds the mutation lock, or None
    rules,      \* the keys whose bucket has a ruleset; None in open mode
    flow,       \* what each request does next
    background, \* whether the background is on and the event queue open
    told,       \* events enqueued: kind, key, generation, metageneration
    requests, crashes, staged,
    ghost       \* overtaken, torn, unsynced, untold: see below

store == <<mem, redb, durable, journal, wb, mode, open, flushing, replacing>>
events == <<background, told>>
vars == <<mem, redb, durable, journal, wb, mode, open, flushing, replacing, files, synced,
          mutation, rules, flow, background, told, requests, crashes, staged, ghost>>

Nothing == [x \in {} |-> 0]
Without(f, S) == Restrict(f, DOMAIN f \ S)
Bodies == {<<b>> : b \in Bytes}
Idle == [pc |-> "idle"]
At(f, x) == IF x \in DOMAIN f THEN f[x] ELSE None
Put(f, x, v) == IF v = None THEN Without(f, {x}) ELSE (x :> v) @@ f

ObjectFile(k) == <<"objects", k>>
UploadFile(id) == <<"uploads", id>>
staging_path(n) == <<"staging", n>>

(* Ghosts: what the code does not keep, each set where it happens.          *)
(*   overtaken  changes a flush met between their journal line and redb;    *)
(*   torn       keys whose file and metadata were changed by halves;        *)
(*   unsynced   files that no flush will sync;                              *)
(*   untold     keys whose object no event of this process announces.       *)
NoGhost == [overtaken |-> {}, torn |-> {}, unsynced |-> {}, untold |-> {}]

-----------------------------------------------------------------------------
(* MetadataStore: metadata.rs.                                              *)

Records(objects, uploads, next_id, applied) ==
    [objects |-> objects, uploads |-> uploads, next_id |-> next_id, applied |-> applied]

(* One record, and next_id, in a metadata table. *)
Written(d, e) ==
    [d EXCEPT ![e.table] = Put(@, e.key, e.value), !.next_id = e.next_id]

(* Entries newer than the durable sequence, in order; a gap fails closed. *)
replay_journal(d, entries) ==
    FoldLeft(LAMBDA x, e :
                 IF x = None \/ e.seq <= d.applied THEN x
                 ELSE IF e.seq # x.applied + 1 THEN None
                 ELSE [Written(x, e) EXCEPT !.applied = e.seq,
                                            !.next_id = Max({x.next_id, e.next_id})],
             d, entries)

Entry(m, table, key, seq) ==
    [seq |-> seq, table |-> table, key |-> key, value |-> At(m[table], key), next_id |-> m.next_id]


note_unsynced_file(w, path) ==
    IF mode = "WriteBehind" THEN [w EXCEPT !.pending = @ \cup {path}] ELSE w

(* The lock on the metadata in memory is free, and the journal's. *)
InnerFree == open = None /\ replacing = None
JournalFree == ~flushing

(* update, up to the journal line.  `next` is what the request does after   *)
(* the redb commit.                                                         *)
update(t, m, table, key, next) ==
    /\ InnerFree /\ JournalFree
    /\ mem' = m
    /\ open' = Entry(m, table, key, wb.seq + 1)
    /\ IF mode = "WriteBehind"
       THEN journal' = Append(journal, open') /\ wb' = [wb EXCEPT !.seq = @ + 1]
       ELSE UNCHANGED <<journal, wb>>
    /\ flow' = [flow EXCEPT ![t] = [pc |-> "redb", next |-> next]]
    /\ ghost' = [ghost EXCEPT !.overtaken = @ \ {key}]

(* update, the redb transaction: without a sync under write-behind. *)
Redb(t) ==
    /\ flow[t].pc = "redb"
    /\ redb' = Written(redb, open)
    /\ durable' = IF mode = "PerCommit" THEN redb' ELSE durable
    /\ open' = None
    /\ flow' = [flow EXCEPT ![t] = flow[t].next]
    /\ UNCHANGED <<mem, journal, wb, mode, flushing, replacing, files, synced, mutation, rules,
                   events, requests, crashes, staged, ghost>>

Fault == crashes < MaxCrashes /\ crashes' = crashes + 1

(* flush: object files, then the journal, then redb with the sequence.  It  *)
(* does not take `inner`, so a change may be between its journal line and   *)
(* its redb transaction.                                                    *)
flush ==
    /\ mode = "WriteBehind" /\ ~flushing
    /\ wb.seq # wb.durable_seq \/ wb.pending # {}
    /\ synced' = synced \cup (wb.pending \cap DOMAIN files)
    /\ redb' = [redb EXCEPT !.applied = wb.seq]
    /\ durable' = redb'
    /\ wb' = [wb EXCEPT !.pending = {}]
    /\ flushing' = TRUE
    /\ ghost' = [ghost EXCEPT !.overtaken = @ \cup IF open = None THEN {} ELSE {open.key}]
    /\ UNCHANGED <<mem, journal, mode, open, replacing, files, mutation, rules, flow, events,
                   requests, crashes, staged>>

(* A file or the journal cannot be synced, or the transaction fails: the    *)
(* list of files is gone by then, and some of them were not reached.        *)
FlushFails ==
    /\ mode = "WriteBehind" /\ ~flushing
    /\ wb.seq # wb.durable_seq \/ wb.pending # {}
    /\ Fault
    /\ \E reached \in SUBSET (wb.pending \cap DOMAIN files) :
        /\ synced' = synced \cup reached
        /\ ghost' = [ghost EXCEPT !.unsynced = @ \cup (wb.pending \ reached)]
    /\ wb' = [wb EXCEPT !.pending = {}]
    /\ UNCHANGED <<mem, redb, durable, journal, mode, open, flushing, replacing, files, mutation, rules,
                   flow, events, requests, staged>>

(* The journal is cut and synced; when that fails the next flush repeats it. *)
FlushTruncates ==
    /\ flushing
    /\ flushing' = FALSE
    /\ \/ journal' = <<>> /\ wb' = [wb EXCEPT !.durable_seq = wb.seq] /\ UNCHANGED crashes
       \/ /\ Fault
          /\ journal' \in {journal, <<>>} /\ UNCHANGED wb
    /\ UNCHANGED <<mem, redb, durable, mode, open, replacing, files, synced, mutation, rules,
                   flow, events, requests, staged, ghost>>

(* replace, first part: the journal goes and so do the files to sync. *)
StartReplace(t, m, next) ==
    /\ InnerFree /\ JournalFree
    /\ mem' = m
    /\ journal' = <<>>
    /\ wb' = IF mode = "WriteBehind"
             THEN [wb EXCEPT !.pending = {}, !.durable_seq = wb.seq] ELSE wb
    /\ replacing' = t
    /\ flow' = [flow EXCEPT ![t] = [pc |-> "replace", next |-> next]]

(* replace, second part: every record, in one durable transaction. *)
Replace(t) ==
    /\ flow[t].pc = "replace"
    /\ redb' = Records(mem.objects, mem.uploads, mem.next_id,
                       IF mode = "WriteBehind" THEN wb.seq ELSE 0)
    /\ durable' = redb'
    /\ replacing' = None
    /\ flow' = [flow EXCEPT ![t] = flow[t].next]
    /\ ghost' = [ghost EXCEPT !.overtaken = {}]
    /\ UNCHANGED <<mem, journal, wb, mode, open, flushing, files, synced, mutation, rules, events,
                   requests, crashes, staged>>

-----------------------------------------------------------------------------
(* Publishing an object: lib.rs.                                            *)

Admit(t) == flow[t] = Idle /\ requests < MaxRequests /\ requests' = requests + 1

(* A bucket without a ruleset refuses every v0 request, an owner's too. *)
ensure_ruleset(k) == k \in IF rules = None THEN Keys ELSE rules

(* The verdicts rules may give: open mode and owner credentials skip them,  *)
(* a ruleset decides as it likes (RulesEngine), no ruleset denies.          *)
verify(k) == IF k \in rules THEN BOOLEAN ELSE {FALSE}
authorize(k, auth) == IF rules = None \/ auth = "owner" THEN {TRUE} ELSE verify(k)

(* Bytes settle on the drive at once, or wait for the next flush. *)
settle_written_file(path) ==
    IF mode = "PerCommit"
    THEN synced' = synced \cup {path} /\ UNCHANGED wb
    ELSE synced' = synced \ {path} /\ JournalFree /\ wb' = note_unsynced_file(wb, path)

(* The bytes of an upload go to a file of its own, then to commit_staging. *)
stream_to_staging(t, k, bytes, v0, auth) ==
    /\ Admit(t)
    /\ LET path == staging_path(staged + 1) IN
       /\ files' = (path :> bytes) @@ files
       /\ settle_written_file(path)
       /\ flow' = [flow EXCEPT ![t] =
             [pc |-> "commit", key |-> k, v0 |-> v0, auth |-> auth, path |-> path,
              bytes |-> bytes, id |-> None, copied |-> FALSE, late |-> FALSE]]
    /\ staged' = staged + 1
    /\ UNCHANGED <<mem, redb, durable, journal, mode, open, flushing, replacing, mutation, rules,
                   events, crashes, ghost>>

v0_upload(t, k, bytes, auth) == ensure_ruleset(k) /\ stream_to_staging(t, k, bytes, TRUE, auth)
gcs_upload_start(t, k, bytes, auth) == stream_to_staging(t, k, bytes, FALSE, auth)

(* The object commit_staging makes: a new generation, and a download token  *)
(* for v0.  next_id moves twice.                                            *)
NewObject(m, f) ==
    [generation |-> m.next_id + 2, metageneration |-> 1, bytes |-> f.bytes,
     tokens |-> IF f.v0 THEN {m.next_id + 2} ELSE {}]

(* commit_staging up to the rename: denied, or published under the          *)
(* object's path; a staging file that is gone is an error.                  *)
Denied(t) ==
    /\ flow[t].pc = "commit" /\ mutation = None /\ InnerFree
    /\ flow[t].v0 /\ FALSE \in authorize(flow[t].key, flow[t].auth)
    /\ mem' = [mem EXCEPT !.next_id = @ + 2]
    /\ files' = Without(files, {flow[t].path})
    /\ flow' = [flow EXCEPT ![t] = IF flow[t].id = None THEN Idle
                                   ELSE [flow[t] EXCEPT !.pc = "deny"]]
    /\ UNCHANGED <<redb, durable, journal, wb, mode, open, flushing, replacing, synced, mutation,
                   rules, events, requests, crashes, staged, ghost>>


(* Another request of the session has written since the file was described. *)
Grown(f) == f.path[1] = "uploads" /\ files[f.path] # f.bytes

(* Its bytes are not synced and no flush comes. *)
Never(f) == mode = "PerCommit" /\ (f.copied \/ f.path \in ghost.unsynced)

Publish(t) ==
    /\ flow[t].pc = "commit" /\ mutation = None /\ InnerFree
    /\ flow[t].v0 => TRUE \in authorize(flow[t].key, flow[t].auth)
    /\ flow[t].path \in DOMAIN files /\ JournalFree
    /\ mutation' = t
    /\ LET f == flow[t]
           to == ObjectFile(f.key) IN
       /\ files' = Without((to :> files[f.path]) @@ files, {f.path})
       /\ wb' = note_unsynced_file(wb, to)
       /\ synced' = IF f.path \in synced THEN (synced \ {f.path}) \cup {to} ELSE synced \ {to}
       /\ flow' = [flow EXCEPT ![t] = [f EXCEPT !.pc = "insert"] @@ [object |-> NewObject(mem, f)]]
       /\ ghost' = [ghost EXCEPT !.torn = IF Grown(f) \/ f.late THEN @ \cup {f.key} ELSE @ \ {f.key},
                                 !.unsynced = IF Never(f) THEN @ \cup {to} ELSE @ \ {to}]
    /\ mem' = [mem EXCEPT !.next_id = @ + 2]
    /\ UNCHANGED <<redb, durable, journal, mode, open, flushing, replacing, rules, events, requests,
                   crashes, staged>>

(* The rename finds no staging file: the session was cancelled or reset.    *)
NothingStaged(t) ==
    /\ flow[t].pc = "commit" /\ mutation = None /\ InnerFree
    /\ flow[t].path \notin DOMAIN files
    /\ flow[t].v0 => TRUE \in authorize(flow[t].key, flow[t].auth)
    /\ mem' = [mem EXCEPT !.next_id = @ + 2]
    /\ flow' = [flow EXCEPT ![t] = Idle]
    /\ UNCHANGED <<redb, durable, journal, wb, mode, open, flushing, replacing, files, synced,
                   mutation, rules, events, requests, crashes, staged, ghost>>

(* commit_staging after the rename: the metadata, then the event. *)
Insert(t) ==
    /\ flow[t].pc = "insert"
    /\ update(t, [mem EXCEPT !.objects = (flow[t].key :> flow[t].object) @@ @],
              "objects", flow[t].key,
              [pc |-> "tell", kind |-> "finalize", key |-> flow[t].key,
               object |-> flow[t].object, id |-> flow[t].id])
    /\ UNCHANGED <<redb, durable, mode, flushing, replacing, files, synced, mutation, rules, events,
                   requests, crashes, staged>>

(* dispatch: nothing with the background off, and what a closed queue says  *)
(* is ignored; the mutation lock is let go.  A v0 session that was          *)
(* finalized is forgotten after that.                                       *)
dispatch(t) ==
    /\ flow[t].pc = "tell"
    /\ told' = IF ~background THEN told
               ELSE told \cup {<<flow[t].kind, flow[t].key, flow[t].object.generation,
                                 flow[t].object.metageneration>>}
    /\ mutation' = IF mutation = t THEN None ELSE mutation
    /\ flow' = [flow EXCEPT ![t] = IF flow[t].id = None THEN Idle
                                   ELSE [pc |-> "forget", id |-> flow[t].id]]
    /\ ghost' = [ghost EXCEPT !.untold = IF background THEN @ \ {flow[t].key}
                                         ELSE @ \cup {flow[t].key}]
    /\ UNCHANGED <<store, files, synced, rules, background, requests, crashes, staged>>

(* The hub turns the background off or on; or the queue closes.             *)
set_background_enabled ==
    /\ background' = ~background
    /\ requests < MaxRequests /\ requests' = requests + 1
    /\ UNCHANGED <<store, files, synced, mutation, rules, flow, told, crashes, staged, ghost>>

-----------------------------------------------------------------------------
(* Resumable uploads.                                                       *)

NewSession(k, auth) ==
    [key |-> k, received |-> 0, auth |-> auth, denied |-> FALSE, cancelled |-> FALSE]

(* A session is stored, and then its file is made. *)
gcs_resumable_start(t, k, v0, auth) ==
    /\ Admit(t)
    /\ v0 => ensure_ruleset(k)
    /\ LET id == <<k, mem.next_id + 1>> IN
       update(t, [mem EXCEPT !.next_id = @ + 1,
                             !.uploads = (id :> NewSession(k, auth)) @@ @],
              "uploads", id, [pc |-> "create", id |-> id])
    /\ UNCHANGED <<redb, durable, mode, flushing, replacing, files, synced, mutation, rules, events,
                   crashes, staged>>

CreateStaging(t) ==
    /\ flow[t].pc = "create"
    /\ files' = (UploadFile(flow[t].id) :> <<>>) @@ files
    /\ synced' = synced \ {UploadFile(flow[t].id)}
    /\ flow' = [flow EXCEPT ![t] = Idle]
    /\ UNCHANGED <<store, mutation, rules, events, requests, crashes, staged, ghost>>

(* A command on a session takes a copy of it, and works on the copy from    *)
(* then on.                                                                 *)
Session(t, id, step) ==
    /\ Admit(t) /\ InnerFree
    /\ flow' = [flow EXCEPT ![t] = step @@ [id |-> id, session |-> mem.uploads[id]]]
    /\ UNCHANGED <<store, files, synced, mutation, rules, events, crashes, staged, ghost>>

(* A cancelled or denied session refuses; a query only answers. *)
firebase_resumable(t, id, command, bytes) ==
    /\ ensure_ruleset(mem.uploads[id].key)
    /\ ~mem.uploads[id].cancelled /\ ~mem.uploads[id].denied
    /\ \/ command = "cancel" /\ Session(t, id, [pc |-> "cancel"])
       \/ command = "upload"
          /\ \E last \in BOOLEAN :
                Session(t, id, [pc |-> "append", bytes |-> bytes, last |-> last, v0 |-> TRUE])
       \/ command = "finalize" /\ Session(t, id, [pc |-> "summarize", v0 |-> TRUE])

(* A GCS chunk names no command and asks nothing of the session, cancelled  *)
(* or denied, but that its range starts where the session ends; `last` when *)
(* the total is met.                                                        *)
gcs_resumable_chunk(t, id, bytes) ==
    \E last \in BOOLEAN :
        Session(t, id, [pc |-> "append", bytes |-> bytes, last |-> last, v0 |-> FALSE])

SaveSession(t, s, next) ==
    /\ update(t, [mem EXCEPT !.uploads = Put(@, flow[t].id, s)], "uploads", flow[t].id, next)
    /\ UNCHANGED <<redb, durable, mode, flushing, replacing, files, synced, mutation, rules, events,
                   requests, crashes, staged>>

Cancel(t) ==
    /\ flow[t].pc = "cancel"
    /\ SaveSession(t, [flow[t].session EXCEPT !.cancelled = TRUE],
                   [pc |-> "discard", id |-> flow[t].id])

Discard(t) ==
    /\ flow[t].pc = "discard"
    /\ files' = Without(files, {UploadFile(flow[t].id)})
    /\ flow' = [flow EXCEPT ![t] = Idle]
    /\ UNCHANGED <<store, synced, mutation, rules, events, requests, crashes, staged, ghost>>

(* append_body: an error when the file is gone.  A GCS chunk that is the    *)
(* last one does not store the session again.                               *)
append_body(t) ==
    /\ flow[t].pc = "append"
    /\ LET f    == flow[t]
           path == UploadFile(f.id)
           more == [f EXCEPT !.session.received = @ + Len(f.bytes)] IN
       IF path \in DOMAIN files
       THEN /\ files' = [files EXCEPT ![path] = @ \o f.bytes]
            /\ settle_written_file(path)
            /\ flow' = [flow EXCEPT ![t] =
                  [more EXCEPT !.pc = IF f.last /\ ~f.v0 THEN "summarize" ELSE "save"]]
       ELSE /\ flow' = [flow EXCEPT ![t] = Idle]
            /\ UNCHANGED <<files, synced, wb>>
    /\ UNCHANGED <<mem, redb, durable, journal, mode, open, flushing, replacing, mutation, rules,
                   events, requests, crashes, staged, ghost>>

Save(t) ==
    /\ flow[t].pc = "save"
    /\ SaveSession(t, flow[t].session,
                   IF flow[t].last THEN [flow[t] EXCEPT !.pc = "summarize"] ELSE Idle)

(* summarize_file: what the object will be said to hold.  v0 commits and    *)
(* then forgets the session, GCS the other way round.                       *)
summarize_file(t) ==
    /\ flow[t].pc = "summarize"
    /\ LET f    == flow[t]
           path == UploadFile(f.id)
           spec == [key |-> f.session.key, v0 |-> f.v0, auth |-> f.session.auth, path |-> path,
                    copied |-> FALSE, late |-> FALSE] IN
       flow' = [flow EXCEPT ![t] =
           IF path \notin DOMAIN files THEN Idle
           ELSE IF f.v0
           THEN spec @@ [pc |-> "commit", bytes |-> files[path], id |-> f.id, session |-> f.session]
           ELSE [pc |-> "remove", id |-> f.id,
                 next |-> spec @@ [pc |-> "commit", bytes |-> files[path], id |-> None]]]
    /\ UNCHANGED <<store, files, synced, mutation, rules, events, requests, crashes, staged, ghost>>

ForgetFirst(t) == flow[t].pc = "remove" /\ SaveSession(t, None, flow[t].next)
Forget(t) == flow[t].pc = "forget" /\ SaveSession(t, None, Idle)
Deny(t) == flow[t].pc = "deny" /\ SaveSession(t, [flow[t].session EXCEPT !.denied = TRUE], Idle)

-----------------------------------------------------------------------------
(* Metadata, deletion, copies, reset, import, rules.                        *)

(* A change of one object under the mutation lock. *)
Mutate(t, k, m, next) ==
    /\ Admit(t) /\ mutation = None
    /\ mutation' = t
    /\ update(t, m, "objects", k, next)
    /\ UNCHANGED <<redb, durable, mode, flushing, replacing, files, synced, rules, events, crashes,
                   staged>>

Touched(o) == [o EXCEPT !.metageneration = @ + 1]
Tell(kind, k, o) == [pc |-> "tell", kind |-> kind, key |-> k, object |-> o, id |-> None]

update_metadata(t, k, v0, auth) ==
    /\ k \in DOMAIN mem.objects
    /\ v0 => ensure_ruleset(k) /\ TRUE \in authorize(k, auth)
    /\ LET o == Touched(mem.objects[k]) IN
       Mutate(t, k, [mem EXCEPT !.objects[k] = o], Tell("metadata", k, o))

(* Tokens are an owner's business whatever the rules say. *)
v0_token_action(t, k, create) ==
    /\ k \in DOMAIN mem.objects
    /\ ensure_ruleset(k)
    /\ LET n == mem.next_id + 1
           o == Touched([mem.objects[k] EXCEPT !.tokens = IF create THEN @ \cup {n} ELSE {}]) IN
       Mutate(t, k, [mem EXCEPT !.objects[k] = o, !.next_id = IF create THEN n ELSE @],
              Tell("metadata", k, o))

delete_object(t, k, v0, auth) ==
    /\ k \in DOMAIN mem.objects
    /\ v0 => ensure_ruleset(k) /\ TRUE \in authorize(k, auth)
    /\ Mutate(t, k, [mem EXCEPT !.objects = Without(@, {k})],
              [Tell("delete", k, mem.objects[k]) EXCEPT !.pc = "unlink"])

(* Without its file a deletion is an error, and no event is sent. *)
Unlink(t) ==
    /\ flow[t].pc = "unlink"
    /\ files' = Without(files, {ObjectFile(flow[t].key)})
    /\ IF ObjectFile(flow[t].key) \in DOMAIN files
       THEN flow' = [flow EXCEPT ![t].pc = "tell"] /\ UNCHANGED mutation
       ELSE flow' = [flow EXCEPT ![t] = Idle] /\ mutation' = None
    /\ UNCHANGED <<store, synced, rules, events, requests, crashes, staged, ghost>>

(* A copy takes the source's metadata first and its bytes later, without    *)
(* the mutation lock, and does not sync them.                               *)
gcs_alias_copy(t, from, k) ==
    /\ Admit(t) /\ InnerFree
    /\ from \in DOMAIN mem.objects
    /\ flow' = [flow EXCEPT ![t] = [pc |-> "copy", from |-> from, key |-> k,
                                    source |-> mem.objects[from]]]
    /\ UNCHANGED <<store, files, synced, mutation, rules, events, crashes, staged, ghost>>

(* The keys whose file a request has replaced and whose metadata it has not. *)
Halfway == {flow[t].key : t \in {u \in Threads : flow[u].pc \in {"insert", "import"}}}

(* The source was replaced since its metadata was read, or is being.        *)
Moved(f) == At(mem.objects, f.from) # f.source \/ f.from \in Halfway \cup ghost.torn

CopyBytes(t) ==
    /\ flow[t].pc = "copy"
    /\ LET f    == flow[t]
           path == staging_path(staged + 1)
           from == ObjectFile(f.from) IN
       IF from \in DOMAIN files
       THEN /\ files' = (path :> files[from]) @@ files
            /\ flow' = [flow EXCEPT ![t] =
                  [pc |-> "commit", key |-> f.key, v0 |-> FALSE, auth |-> "user", path |-> path,
                   bytes |-> f.source.bytes, id |-> None, copied |-> TRUE, late |-> Moved(f)]]
       ELSE flow' = [flow EXCEPT ![t] = Idle] /\ UNCHANGED files
    /\ staged' = staged + 1
    /\ UNCHANGED <<store, synced, mutation, rules, events, requests, crashes, ghost>>

(* Everything is forgotten, next_id too; the files go after that. *)
internal_reset(t) ==
    /\ Admit(t) /\ mutation = None
    /\ mutation' = t
    /\ StartReplace(t, Records(Nothing, Nothing, 0, 0),
                    [pc |-> "sweep",
                     files |-> {ObjectFile(k) : k \in DOMAIN mem.objects} \cup
                               {UploadFile(id) : id \in DOMAIN mem.uploads}])
    /\ ghost' = [ghost EXCEPT !.unsynced = @ \cup wb.pending]
    /\ UNCHANGED <<redb, durable, mode, open, flushing, files, synced, rules, events, crashes,
                   staged>>

Sweep(t) ==
    /\ flow[t].pc = "sweep"
    /\ files' = Without(files, flow[t].files)
    /\ mutation' = None
    /\ flow' = [flow EXCEPT ![t] = Idle]
    /\ UNCHANGED <<store, synced, rules, events, requests, crashes, staged, ghost>>

(* An import copies bytes over those of existing objects, one file at a     *)
(* time; if another file fails it ends there, with the metadata as it was.  *)
import_object(t, k, bytes) ==
    /\ Admit(t) /\ mutation = None
    /\ mutation' = t
    /\ files' = (ObjectFile(k) :> bytes) @@ files
    /\ synced' = synced \ {ObjectFile(k)}
    /\ flow' = [flow EXCEPT ![t] = [pc |-> "import", key |-> k,
          object |-> [generation |-> 0, metageneration |-> 1, bytes |-> bytes, tokens |-> {}]]]
    /\ ghost' = [ghost EXCEPT !.unsynced = @ \cup {ObjectFile(k)}]
    /\ UNCHANGED <<store, rules, events, crashes, staged>>

ImportFails(t) ==
    /\ flow[t].pc = "import"
    /\ mutation' = None
    /\ flow' = [flow EXCEPT ![t] = Idle]
    /\ ghost' = [ghost EXCEPT !.torn = @ \cup {flow[t].key}]
    /\ UNCHANGED <<store, files, synced, rules, events, requests, crashes, staged>>

import_directory(t) ==
    /\ flow[t].pc = "import"
    /\ StartReplace(t, [mem EXCEPT !.objects = (flow[t].key :> flow[t].object) @@ @],
                    [pc |-> "sweep", files |-> {}])
    /\ ghost' = [ghost EXCEPT !.torn = @ \ {flow[t].key}, !.untold = @ \cup {flow[t].key},
                              !.unsynced = @ \cup wb.pending]
    /\ UNCHANGED <<redb, durable, mode, open, flushing, files, synced, mutation, rules, events, requests,
                   crashes, staged>>

(* Rules that do not compile leave no ruleset at all. *)
NativeRulesReplace == {{}, Keys}

internal_set_rules ==
    /\ rules # None
    /\ \E loaded \in NativeRulesReplace \ {rules} : rules' = loaded
    /\ requests < MaxRequests /\ requests' = requests + 1
    /\ UNCHANGED <<store, files, synced, mutation, flow, events, crashes, staged, ghost>>

-----------------------------------------------------------------------------
(* The process is killed, and opened again, in any durability.              *)

(* The keys a kill leaves by halves: those of Halfway; one whose insertion  *)
(* has not reached redb, without a journal; one whose change a flush        *)
(* overtook; and under a replace, whose journal is gone, any.               *)
Inserting(t) == flow[t].pc = "redb" /\ flow[t].next.pc = "tell" /\ flow[t].next.kind = "finalize"
KillTears ==
    Halfway \cup ghost.overtaken \cup (IF replacing = None THEN {} ELSE Keys)
    \cup {flow[t].next.key : t \in {u \in Threads : mode = "PerCommit" /\ Inserting(u)}}

MetaOpen(root, how) ==
    LET d == replay_journal(durable, journal) IN
    /\ mem' = [d EXCEPT !.applied = 0]
    /\ redb' = d /\ durable' = d
    /\ journal' = <<>>
    /\ wb' = [seq |-> d.applied, durable_seq |-> d.applied, pending |-> {}]
    /\ mode' = how

Kill ==
    /\ Fault
    /\ \E how \in Modes : MetaOpen(durable, how)
    /\ open' = None /\ flushing' = FALSE /\ replacing' = None
    /\ mutation' = None
    /\ flow' = [t \in Threads |-> Idle]
    /\ background' = TRUE
    /\ ghost' = [overtaken |-> {}, untold |-> Keys, torn |-> ghost.torn \cup KillTears,
                 unsynced |-> ghost.unsynced \cup wb.pending]
    /\ UNCHANGED <<files, synced, rules, told, requests, staged>>

-----------------------------------------------------------------------------
(* A first start, or one on what an earlier process left: objects, and      *)
(* uploads begun.                                                           *)
Loaded == [generation |-> 2, metageneration |-> 1, bytes |-> <<CHOOSE b \in Bytes : TRUE>>, tokens |-> {}]

Init ==
    /\ \E held, begun \in SUBSET Keys :
          mem = Records([k \in held |-> Loaded],
                        [id \in begun \X {1} |-> NewSession(id[1], CHOOSE a \in Auths : TRUE)],
                        IF held \cup begun = {} THEN 0 ELSE 2, 0)
    /\ redb = mem /\ durable = mem
    /\ journal = <<>>
    /\ wb = [seq |-> 0, durable_seq |-> 0, pending |-> {}]
    /\ mode \in Modes
    /\ open = None /\ flushing = FALSE /\ replacing = None
    /\ files = [path \in {ObjectFile(k) : k \in DOMAIN mem.objects} |-> Loaded.bytes] @@
               [path \in {UploadFile(id) : id \in DOMAIN mem.uploads} |-> <<>>]
    /\ synced = DOMAIN files
    /\ mutation = None
    /\ rules \in {None, Keys}
    /\ flow = [t \in Threads |-> Idle]
    /\ background = TRUE /\ told = {} /\ requests = 0 /\ crashes = 0 /\ staged = 0
    /\ ghost = [NoGhost EXCEPT !.untold = DOMAIN mem.objects]

Request(t) ==
    \/ \E k \in Keys, v0 \in BOOLEAN, auth \in Auths :
          \/ gcs_resumable_start(t, k, v0, auth)
          \/ update_metadata(t, k, v0, auth)
          \/ delete_object(t, k, v0, auth)
    \/ \E k \in Keys, bytes \in Bodies, auth \in Auths :
          v0_upload(t, k, bytes, auth) \/ gcs_upload_start(t, k, bytes, auth)
    \/ \E k \in Keys, create \in BOOLEAN : v0_token_action(t, k, create)
    \/ \E from, k \in Keys : gcs_alias_copy(t, from, k)
    \/ \E k \in Keys, bytes \in Bodies : import_object(t, k, bytes)
    \/ \E id \in DOMAIN mem.uploads, bytes \in Bodies :
          \/ gcs_resumable_chunk(t, id, bytes)
          \/ \E command \in {"cancel", "upload", "finalize"} :
                firebase_resumable(t, id, command, bytes)
    \/ internal_reset(t)

Step(t) ==
    \/ Redb(t) \/ Replace(t) \/ Denied(t) \/ Publish(t) \/ NothingStaged(t) \/ Insert(t)
    \/ dispatch(t) \/ CreateStaging(t) \/ Cancel(t) \/ Discard(t) \/ append_body(t) \/ Save(t)
    \/ summarize_file(t) \/ ForgetFirst(t) \/ Forget(t) \/ Deny(t) \/ Unlink(t) \/ CopyBytes(t)
    \/ Sweep(t) \/ ImportFails(t) \/ import_directory(t)

Next == \/ \E t \in Threads : Request(t) \/ Step(t)
        \/ flush \/ FlushFails \/ FlushTruncates \/ set_background_enabled \/ internal_set_rules \/ Kill

Spec == Init /\ [][Next]_vars

-----------------------------------------------------------------------------
(* Changes that are between their journal line and redb. *)
Unsettled(table, x) == open # None /\ open.table = table /\ open.key = x

(* What a restart would load is what memory serves: a change answered for   *)
(* survives a kill, under both durabilities and whatever the flusher does,  *)
(* failed flushes included (metadata.rs).  Two exceptions, where the code   *)
(* does lose answered changes: one that a flush overtook between its        *)
(* journal line and its redb transaction (AnsweredSurvives), and the time   *)
(* between the two parts of a replace, when the journal is cut and the      *)
(* transaction is not made (metadata.rs:444-451).                           *)
KillKeepsAnswered ==
    LET d == replay_journal(durable, journal) IN
    /\ d # None
    /\ replacing = None =>
        \A table \in {"objects", "uploads"} :
            \A x \in (DOMAIN mem[table] \cup DOMAIN d[table]) \ ghost.overtaken :
                \/ At(mem[table], x) = At(d[table], x)
                \/ mode = "PerCommit" /\ Unsettled(table, x)

(* The same without exception: a change "is appended to `metadata.journal`  *)
(* ... so it survives the process" (metadata.rs:6-7), once update has       *)
(* returned.                                                                *)
AnsweredSurvives ==
    LET d == replay_journal(durable, journal) IN
    (replacing = None /\ open = None) =>
        \A table \in {"objects", "uploads"} : mem[table] = d[table]

(* checkpoint_native_state: an object has its file, and the file the bytes  *)
(* its metadata says.                                                       *)
Whole(k) == /\ ObjectFile(k) \in DOMAIN files
            /\ files[ObjectFile(k)] = mem.objects[k].bytes

(* Whoever publishes, deletes, imports or resets at the same time, the      *)
(* bytes of an object are those its metadata describes, and they still are  *)
(* after a kill that met no request on the object half-way (commit_staging, *)
(* delete_object).  Not so, until its next publication, is an object        *)
(*   - met by a kill or an import's failure between its file and its        *)
(*     metadata (lib.rs:1847 and 1852, 2253; KillTears);                    *)
(*   - copied from a source that was replaced between the reading of its    *)
(*     metadata and of its bytes (lib.rs:1338-1356; Moved);                 *)
(*   - made from a session that another request was writing (Grown).        *)
BytesDescribed ==
    \A k \in DOMAIN mem.objects \ (ghost.torn \cup Halfway) : Whole(k)

(* The object is durable in redb, and the bytes of its file, if any, are on  *)
(* the drive.                                                               *)
OnDrive(k) ==
    /\ At(durable.objects, k) = mem.objects[k]
    /\ At(files, ObjectFile(k)) = <<>> \/ ObjectFile(k) \in synced \cup ghost.unsynced

(* When flush has nothing left to do, and under PerCommit once a request    *)
(* has ended, a power cut loses no object (metadata.rs:10-12, 34-35).  The  *)
(* bytes, though not the metadata, of some objects are never synced:        *)
(*   - those an import copies, and those waiting for a flush when an import *)
(*     or reset drops the list (lib.rs:2293; metadata.rs:446);              *)
(*   - a copy's under PerCommit (lib.rs:1348);                              *)
(*   - those a failed flush had taken from its list (metadata.rs:292-301);  *)
(*   - those waiting for a flush when the process is killed.                *)
FlushedIsSafe ==
    (~flushing /\ InnerFree /\ wb.pending = {} /\ (mode = "WriteBehind" => wb.seq = wb.durable_seq)) =>
        \A k \in DOMAIN mem.objects \ (ghost.overtaken \cup Halfway) : OnDrive(k)

(* A version of an object that clients can see has been announced to        *)
(* functions, once the request that made it has ended; when it ended with   *)
(* the background off or the queue closed, or the version comes from disk   *)
(* or an import, nobody is told (dispatch).                                 *)
VersionsAnnounced ==
    \A k \in DOMAIN mem.objects \ ghost.untold :
        \/ \E t \in Threads : flow[t].pc \in {"redb", "tell"}
        \/ \E kind \in {"finalize", "metadata"} :
              <<kind, k, mem.objects[k].generation, mem.objects[k].metageneration>> \in told
=============================================================================
