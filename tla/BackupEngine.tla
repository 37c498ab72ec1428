---------------------------- MODULE BackupEngine ----------------------------
(***************************************************************************)
(* Calls of BackupEngine::run_backup (sidecar/src/backup/mod.rs) with the  *)
(* transaction manager, the block index and the object store they share.   *)
(*                                                                         *)
(* Every IPC connection is served by a task of its own, so calls run side  *)
(* by side on ONE engine.  A call b goes through its phases (pc[b]); for   *)
(* each file it scans it spawns a task <<b, f>> (tpc[<<b, f>>]) that takes *)
(* the mutex of the block index, the write lock of the object store and    *)
(* the mutex of the transient list, in this order, and streams the file's  *)
(* chunks.  A step of this specification is what the code does between two *)
(* points where another task, or a crash of the process, can be noticed.   *)
(*                                                                         *)
(* A crash is a crash of the PROCESS: what has been handed to the          *)
(* operating system survives, and that may be a part of a file only.       *)
(***************************************************************************)
EXTENDS BlockIndex, Sequences, FiniteSets

CONSTANTS
    Backups,      \* the run_backup calls of a behaviour, each made once
    Files,        \* paths below the world directories
    Chunks,       \* chunk hashes
    Contents,     \* the chunk lists a file can have when it is read
    Main,         \* names the body of a call, as against its file tasks
    None,         \* no lock holder, no transaction
    Concurrency,  \* config.storage.concurrency: permits of a call's semaphore
    MaxCalls,     \* how many calls clients have outstanding at once
    ErasureCoding, \* config.storage.erasure_coding.enabled
    Limit,        \* how often each kind of event may happen (see Kinds)
    MaxEvents     \* how many events may happen in all

\* Cancel requests, process crashes, failed reads/scans/manifest writes, and
\* failed object writes.
Kinds == {"cancel", "crash", "io", "object"}

ASSUME ContentsAssumption == Contents \subseteq Seq(Chunks)
ASSUME NamesAssumption == Main \notin Files /\ None \notin Backups
                          /\ None \notin Backups \X (Files \cup {Main})
                          /\ None \notin [tx : Backups, aborted : BOOLEAN]
ASSUME LimitAssumption == Limit \in [Kinds -> Nat]
ASSUME ErasureCodingAssumption == ErasureCoding \in BOOLEAN

Tasks == Backups \X Files
Threads == Backups \X (Files \cup {Main})

VARIABLES
    pc,           \* phase of each call
    scanned,      \* files the call's scan found and has not spawned a task for
    rbNext,       \* position of the call's rollback in the transient list
    tpc,          \* phase of each file task
    todo,         \* chunks the task has still to read
    hashes,       \* file_chunk_hashes of the task
    indexLock,    \* holder of block_index (tokio Mutex)
    storeLock,    \* holder of object_store (tokio RwLock, write side)
    transLock,    \* holder of transient_objects (tokio Mutex)
    transients,   \* transient_objects
    active,       \* active_transaction: None or [tx, aborted]
    sys,          \* SystemState: None when idle, else current_tx
    cache,        \* snapshots: ids in the order of their timestamps
    refs, fileChunks, snapFiles,  \* the block index
    store,        \* chunks the object store can read back
    partial,      \* chunks of whose object only a part is on disk
    torn,         \* those of them that the object store takes for objects
    manifests,    \* ids of the *.json files, in the order of their timestamps
    used,         \* how often each kind of event has happened
    shared,       \* history: calls that another one ran beside
    cancelled,    \* history: calls that were in flight at a cancel
    early         \* history: those that still had a look at the mark ahead

callVars == <<pc, scanned, rbNext>>
taskVars == <<tpc, todo, hashes>>
lockVars == <<indexLock, storeLock, transLock>>
indexVars == <<refs, fileChunks, snapFiles>>
objectVars == <<store, partial, torn>>
diskVars == <<refs, fileChunks, snapFiles, store, partial, torn, manifests>>
history == <<shared, cancelled, early>>
vars == <<callVars, taskVars, lockVars, transients, active, sys, cache,
          diskVars, used, history>>

Phases == {"ready", "begin", "activate", "scan", "emptyCommit", "emptyClear",
           "emptyIdle", "loop", "acquire", "collect", "check", "rollback",
           "rbIndex", "rbLoop", "rbClear", "rbIdle", "manifest", "sign", "files",
           "flush", "clear", "push", "idle", "stats",
           "ok", "empty", "aborted", "error", "lost"}
Returned == {"ok", "empty", "aborted", "error", "lost"}
TaskPhases == {"none", "open", "store", "trans", "chunk", "index", "ok", "skipped"}

\* The phases of a call between the registration of its transaction and its last
\* look at it.
Unchecked == {"scan", "loop", "acquire", "collect", "check"}

InFlight(b) == pc[b] \notin {"ready"} \cup Returned
Others(b) == {a \in Backups \ {b} : InFlight(a)}
Aborted == active # None /\ active.aborted
Running(b) == {f \in Files : tpc[<<b, f>>] \notin {"none", "ok", "skipped"}}

Goto(b, phase) == pc' = [pc EXCEPT ![b] = phase]
TaskGoto(t, phase) == tpc' = [tpc EXCEPT ![t] = phase]
Events == used["cancel"] + used["crash"] + used["io"] + used["object"]
Spend(kind) == /\ used[kind] < Limit[kind] /\ Events < MaxEvents
               /\ used' = [used EXCEPT ![kind] = @ + 1]

Init ==
    /\ pc = [b \in Backups |-> "ready"]
    /\ scanned = [b \in Backups |-> {}]
    /\ rbNext = [b \in Backups |-> 1]
    /\ tpc = [t \in Tasks |-> "none"]
    /\ todo = [t \in Tasks |-> <<>>]
    /\ hashes = [t \in Tasks |-> <<>>]
    /\ indexLock = None /\ storeLock = None /\ transLock = None
    /\ transients = <<>>
    /\ active = None
    /\ sys = None
    /\ cache = <<>>
    /\ refs = [c \in Chunks |-> 0]
    /\ fileChunks = [f \in Files |-> <<>>]
    /\ snapFiles = [b \in Backups |-> {}]
    /\ store = {} /\ partial = {} /\ torn = {}
    /\ manifests = <<>>
    /\ used = [k \in Kinds |-> 0]
    /\ shared = {} /\ cancelled = {} /\ early = {}

-----------------------------------------------------------------------------
(* BEGIN and SCAN *)

\* The call is dispatched: set_state("backing_up", tx).
Start(b) ==
    /\ pc[b] = "ready"
    /\ Cardinality(Others(b)) < MaxCalls
    /\ sys' = b
    /\ Goto(b, "begin")
    /\ shared' = shared \cup (IF Others(b) = {} THEN {} ELSE Others(b) \cup {b})
    /\ UNCHANGED <<scanned, rbNext, taskVars, lockVars, transients, active, cache,
                   diskVars, used, cancelled, early>>

\* TransactionManager::begin empties the transient list, whoever filled it.
Begin(b) ==
    /\ pc[b] = "begin"
    /\ transLock = None
    /\ transients' = <<>>
    /\ Goto(b, "activate")
    /\ UNCHANGED <<scanned, rbNext, taskVars, lockVars, active, sys, cache,
                   diskVars, used, history>>

\* Mutant: the new transaction inherits the mark of the one it replaces.
Activate_KeepsMark(b) ==
    /\ pc[b] = "activate"
    /\ active' = [tx |-> b, aborted |-> Aborted]
    /\ Goto(b, "scan")
    /\ UNCHANGED <<scanned, rbNext, taskVars, lockVars, transients, sys, cache,
                   diskVars, used, history>>

\* The call's transaction replaces the active one.
Activate(b) ==
    /\ pc[b] = "activate"
    /\ active' = [tx |-> b, aborted |-> FALSE]
    /\ Goto(b, "scan")
    /\ UNCHANGED <<scanned, rbNext, taskVars, lockVars, transients, sys, cache,
                   diskVars, used, history>>

\* scan_world_directory finds some of the files, or none.
Scan(b) ==
    /\ pc[b] = "scan"
    /\ \E fs \in SUBSET Files :
         /\ scanned' = [scanned EXCEPT ![b] = fs]
         /\ Goto(b, IF fs = {} THEN "emptyCommit" ELSE "loop")
    /\ UNCHANGED <<rbNext, taskVars, lockVars, transients, active, sys, cache,
                   diskVars, used, history>>

\* The scan fails: `?` returns at once, and sys keeps its value.
ScanFails(b) ==
    /\ pc[b] = "scan"
    /\ Spend("io")
    /\ Goto(b, "error")
    /\ UNCHANGED <<scanned, rbNext, taskVars, lockVars, transients, active, sys,
                   cache, diskVars, history>>

-----------------------------------------------------------------------------
(* CHUNK + DEDUP: the call's loop over the files, and the file tasks *)

\* Before each file the loop looks at the shared active transaction.
Loop(b) ==
    /\ pc[b] = "loop"
    /\ Goto(b, IF Aborted \/ scanned[b] = {} THEN "collect" ELSE "acquire")
    /\ UNCHANGED <<scanned, rbNext, taskVars, lockVars, transients, active, sys,
                   cache, diskVars, used, history>>

\* With a permit of the semaphore, the task of the next file is spawned.
SpawnTask(b) ==
    /\ pc[b] = "acquire"
    /\ Cardinality(Running(b)) < Concurrency
    /\ \E f \in scanned[b] :
         /\ scanned' = [scanned EXCEPT ![b] = @ \ {f}]
         /\ TaskGoto(<<b, f>>, "open")
    /\ Goto(b, "loop")
    /\ UNCHANGED <<rbNext, todo, hashes, lockVars, transients, active, sys, cache,
                   diskVars, used, history>>

\* The file cannot be opened any more; the task has taken no lock yet.
OpenFails(t) ==
    /\ tpc[t] = "open"
    /\ Spend("io")
    /\ TaskGoto(t, "skipped")
    /\ UNCHANGED <<callVars, todo, hashes, lockVars, transients, active, sys, cache,
                   diskVars, history>>

LockIndex(t) ==
    /\ tpc[t] = "open"
    /\ indexLock = None
    /\ indexLock' = t
    /\ TaskGoto(t, "store")
    /\ UNCHANGED <<callVars, todo, hashes, storeLock, transLock, transients, active,
                   sys, cache, diskVars, used, history>>

LockStore(t) ==
    /\ tpc[t] = "store"
    /\ storeLock = None
    /\ storeLock' = t
    /\ TaskGoto(t, "trans")
    /\ UNCHANGED <<callVars, todo, hashes, indexLock, transLock, transients, active,
                   sys, cache, diskVars, used, history>>

\* With the third lock the streaming starts; what it will read is decided by
\* whatever the running game server has in the file.
LockTransients(t) ==
    /\ tpc[t] = "trans"
    /\ transLock = None
    /\ transLock' = t
    /\ \E content \in Contents : todo' = [todo EXCEPT ![t] = content]
    /\ TaskGoto(t, "chunk")
    /\ UNCHANGED <<callVars, hashes, indexLock, storeLock, transients, active, sys,
                   cache, diskVars, used, history>>

Unlock3 == indexLock' = None /\ storeLock' = None /\ transLock' = None

\* The streaming closure up to the index update: the hash is recorded in any
\* case; a known chunk gains a reference, a new one is written to the store.
NextHash(t) ==
    /\ todo' = [todo EXCEPT ![t] = Tail(@)]
    /\ hashes' = [hashes EXCEPT ![t] = Append(@, Head(todo[t]))]

\* Mutant: a chunk that is already there needs no further reference.
DedupChunk_NoRef(t) ==
    /\ tpc[t] = "chunk" /\ todo[t] # <<>>
    /\ ChunkExists(refs, Head(todo[t]))
    /\ NextHash(t)
    /\ UNCHANGED <<callVars, tpc, lockVars, transients, active, sys, cache,
                   diskVars, used, history>>

DedupChunk(t) ==
    /\ tpc[t] = "chunk" /\ todo[t] # <<>>
    /\ ChunkExists(refs, Head(todo[t]))
    /\ NextHash(t)
    /\ refs' = IncrementRef(refs, Head(todo[t]))
    /\ UNCHANGED <<callVars, tpc, lockVars, transients, active, sys, cache,
                   fileChunks, snapFiles, objectVars, manifests, used, history>>

\* write_object, at the end of the write.  An object the store knows is left as
\* it is, a torn one too.
WriteChunk(t) ==
    /\ tpc[t] = "chunk" /\ todo[t] # <<>>
    /\ ~ChunkExists(refs, Head(todo[t]))
    /\ NextHash(t)
    /\ LET written == {Head(todo[t])} \ torn IN
         /\ store' = store \cup written
         /\ partial' = partial \ written
    /\ TaskGoto(t, "index")
    /\ UNCHANGED torn
    /\ UNCHANGED <<callVars, lockVars, transients, active, sys, cache, indexVars,
                   manifests, used, history>>

\* Mutant: after the warning the chunk is indexed as if it had been written.
WriteChunkFails_Indexes(t) ==
    /\ tpc[t] = "chunk" /\ todo[t] # <<>>
    /\ ~ChunkExists(refs, Head(todo[t]))
    /\ Spend("object")
    /\ NextHash(t)
    /\ TaskGoto(t, "index")
    /\ UNCHANGED <<callVars, lockVars, transients, active, sys, cache,
                   diskVars, history>>

\* write_object fails, which it never does for an object it knows: before the
\* object has a file, with a part of it written, or in sealing a packfile, when
\* the object is whole.  A warning is logged and the streaming goes on.
WriteChunkFails(t) ==
    /\ tpc[t] = "chunk" /\ todo[t] # <<>>
    /\ ~ChunkExists(refs, Head(todo[t]))
    /\ Head(todo[t]) \notin store \cup torn
    /\ Spend("object")
    /\ NextHash(t)
    /\ \/ /\ partial' \in {partial, partial \cup {Head(todo[t])}}
          /\ UNCHANGED store
       \/ /\ store' = store \cup {Head(todo[t])}
          /\ partial' = partial \ {Head(todo[t])}
    /\ UNCHANGED <<callVars, tpc, lockVars, transients, active, sys, cache,
                   indexVars, torn, manifests, history>>

\* The chunk just written becomes a transient object and enters the index.
IndexChunk(t) ==
    /\ tpc[t] = "index"
    /\ LET c == hashes[t][Len(hashes[t])] IN
         /\ transients' = Append(transients, c)
         /\ refs' = InsertChunk(refs, c)
    /\ TaskGoto(t, "chunk")
    /\ UNCHANGED <<callVars, todo, hashes, lockVars, active, sys, cache,
                   fileChunks, snapFiles, objectVars, manifests, used, history>>

\* Reading the file fails half way: the task returns Err, its guards are dropped.
ReadFails(t) ==
    /\ tpc[t] = "chunk" /\ todo[t] # <<>>
    /\ Spend("io")
    /\ TaskGoto(t, "skipped")
    /\ Unlock3
    /\ UNCHANGED <<callVars, todo, hashes, transients, active, sys, cache,
                   diskVars, history>>

\* Mutant: the three guards outlive the file they were taken for.
FinishFile_KeepsLocks(t) ==
    /\ tpc[t] = "chunk" /\ todo[t] = <<>>
    /\ fileChunks' = InsertFileChunks(fileChunks, t[2], hashes[t])
    /\ TaskGoto(t, "ok")
    /\ UNCHANGED <<callVars, todo, hashes, lockVars, transients, active, sys, cache, refs,
                   snapFiles, objectVars, manifests, used, history>>

\* The whole file is read: its chunk list replaces the previous one.
FinishFile(t) ==
    /\ tpc[t] = "chunk" /\ todo[t] = <<>>
    /\ fileChunks' = InsertFileChunks(fileChunks, t[2], hashes[t])
    /\ TaskGoto(t, "ok")
    /\ Unlock3
    /\ UNCHANGED <<callVars, todo, hashes, transients, active, sys, cache, refs,
                   snapFiles, objectVars, manifests, used, history>>

\* Mutant: the handles of the tasks are dropped, not awaited.
Collect_NoWait(b) ==
    /\ pc[b] = "collect"
    /\ Goto(b, "check")
    /\ UNCHANGED <<scanned, rbNext, taskVars, lockVars, transients, active, sys,
                   cache, diskVars, used, history>>

\* The call awaits the handles of all the tasks it spawned.
Collect(b) ==
    /\ pc[b] = "collect"
    /\ Running(b) = {}
    /\ Goto(b, "check")
    /\ UNCHANGED <<scanned, rbNext, taskVars, lockVars, transients, active, sys,
                   cache, diskVars, used, history>>

\* Mutant: the check in the loop is taken to be enough.
CheckAborted_Skipped(b) ==
    /\ pc[b] = "check"
    /\ Goto(b, "manifest")
    /\ UNCHANGED <<scanned, rbNext, taskVars, lockVars, transients, active, sys,
                   cache, diskVars, used, history>>

\* was_aborted: the last look at the shared active transaction.
CheckAborted(b) ==
    /\ pc[b] = "check"
    /\ Goto(b, IF Aborted THEN "rollback" ELSE "manifest")
    /\ UNCHANGED <<scanned, rbNext, taskVars, lockVars, transients, active, sys,
                   cache, diskVars, used, history>>

-----------------------------------------------------------------------------
(* ROLLBACK: TransactionManager::rollback *)

\* Here the transient list is locked BEFORE the index.
RollbackLockTransients(b) ==
    /\ pc[b] = "rollback"
    /\ transLock = None
    /\ transLock' = <<b, Main>>
    /\ Goto(b, "rbIndex")
    /\ UNCHANGED <<scanned, rbNext, taskVars, indexLock, storeLock, transients,
                   active, sys, cache, diskVars, used, history>>

RollbackLockIndex(b) ==
    /\ pc[b] = "rbIndex"
    /\ indexLock = None
    /\ indexLock' = <<b, Main>>
    /\ Goto(b, "rbLoop")
    /\ UNCHANGED <<scanned, rbNext, taskVars, storeLock, transLock, transients, active, sys,
                   cache, diskVars, used, history>>

\* Mutant: the object is removed from the store along with the reference.
RollbackObject_Removes(b) ==
    /\ pc[b] = "rbLoop"
    /\ rbNext[b] <= Len(transients)
    /\ refs' = DecrementRef(refs, transients[rbNext[b]])
    /\ store' = store \ {transients[rbNext[b]]}
    /\ rbNext' = [rbNext EXCEPT ![b] = @ + 1]
    /\ UNCHANGED <<pc, scanned, taskVars, lockVars, transients, active, sys, cache,
                   fileChunks, snapFiles, partial, torn, manifests, used, history>>

\* One reference is given back per listed object; the object itself stays.
RollbackObject(b) ==
    /\ pc[b] = "rbLoop"
    /\ rbNext[b] <= Len(transients)
    /\ refs' = DecrementRef(refs, transients[rbNext[b]])
    /\ rbNext' = [rbNext EXCEPT ![b] = @ + 1]
    /\ UNCHANGED <<pc, scanned, taskVars, lockVars, transients, active, sys, cache,
                   fileChunks, snapFiles, objectVars, manifests, used, history>>

RollbackUnlock(b) ==
    /\ pc[b] = "rbLoop"
    /\ rbNext[b] > Len(transients)
    /\ indexLock' = None /\ transLock' = None
    /\ Goto(b, "rbClear")
    /\ UNCHANGED <<scanned, rbNext, taskVars, storeLock, transients, active, sys,
                   cache, diskVars, used, history>>

\* try_lock: the list is cleared unless somebody holds it.
TryClear == transients' = IF transLock = None THEN <<>> ELSE transients

RollbackClear(b) ==
    /\ pc[b] = "rbClear"
    /\ TryClear
    /\ Goto(b, "rbIdle")
    /\ UNCHANGED <<scanned, rbNext, taskVars, lockVars, active, sys, cache,
                   diskVars, used, history>>

RollbackIdle(b) ==
    /\ pc[b] = "rbIdle"
    /\ sys' = None
    /\ Goto(b, "aborted")
    /\ UNCHANGED <<scanned, rbNext, taskVars, lockVars, transients, active, cache,
                   diskVars, used, history>>

-----------------------------------------------------------------------------
(* COMMIT *)

\* Mutant: every snapshot is written to the same manifest file.
WriteManifest_Overwrites(b) ==
    /\ pc[b] = "manifest"
    /\ manifests' = <<b>>
    /\ Goto(b, "sign")
    /\ UNCHANGED <<scanned, rbNext, taskVars, lockVars, transients, active, sys,
                   cache, indexVars, objectVars, used, history>>

\* The manifest takes its timestamp and is written.
WriteManifest(b) ==
    /\ pc[b] = "manifest"
    /\ manifests' = Append(manifests, b)
    /\ Goto(b, "sign")
    /\ UNCHANGED <<scanned, rbNext, taskVars, lockVars, transients, active, sys,
                   cache, indexVars, objectVars, used, history>>

\* The directory or the manifest cannot be written: `?` returns at once.  A part
\* of a manifest is no JSON, and no load takes it for one.
WriteManifestFails(b) ==
    /\ pc[b] = "manifest"
    /\ Spend("io")
    /\ Goto(b, "error")
    /\ UNCHANGED <<scanned, rbNext, taskVars, lockVars, transients, active, sys,
                   cache, diskVars, history>>

\* The signature is written beside the manifest, if the engine has a key.
SignManifest(b) ==
    /\ pc[b] = "sign"
    /\ Goto(b, "files")
    /\ UNCHANGED <<scanned, rbNext, taskVars, lockVars, transients, active, sys,
                   cache, diskVars, used, history>>

\* It cannot be written: `?` returns, and the manifest stays.
SignManifestFails(b) ==
    /\ pc[b] = "sign"
    /\ Spend("io")
    /\ Goto(b, "error")
    /\ UNCHANGED <<scanned, rbNext, taskVars, lockVars, transients, active, sys,
                   cache, diskVars, history>>

\* Mutant: the files that were skipped are listed as well.
RecordFiles_Skipped(b) ==
    /\ pc[b] = "files"
    /\ indexLock = None
    /\ snapFiles' = InsertSnapshotFiles(snapFiles, b,
                                        {f \in Files : tpc[<<b, f>>] # "none"})
    /\ Goto(b, "flush")
    /\ UNCHANGED <<scanned, rbNext, taskVars, lockVars, transients, active, sys,
                   cache, refs, fileChunks, objectVars, manifests, used, history>>

\* Mutant: the tasks' keys are recorded in place of the paths below the root.
RecordFiles_Keys(b) ==
    /\ pc[b] = "files"
    /\ indexLock = None
    /\ snapFiles' = InsertSnapshotFiles(snapFiles, b,
                                        {t \in Tasks : t[1] = b /\ tpc[t] = "ok"})
    /\ Goto(b, "flush")
    /\ UNCHANGED <<scanned, rbNext, taskVars, lockVars, transients, active, sys,
                   cache, refs, fileChunks, objectVars, manifests, used, history>>

\* insert_snapshot_files lists the files whose tasks returned Ok.
RecordFiles(b) ==
    /\ pc[b] = "files"
    /\ indexLock = None
    /\ snapFiles' = InsertSnapshotFiles(snapFiles, b,
                                        {f \in Files : tpc[<<b, f>>] = "ok"})
    /\ Goto(b, "flush")
    /\ UNCHANGED <<scanned, rbNext, taskVars, lockVars, transients, active, sys,
                   cache, refs, fileChunks, objectVars, manifests, used, history>>

\* TransactionManager::commit: flush the WAL under the index lock, then clear.
CommitFlush(b) ==
    /\ pc[b] \in {"flush", "emptyCommit"}
    /\ indexLock = None
    /\ Goto(b, IF pc[b] = "flush" THEN "clear" ELSE "emptyClear")
    /\ UNCHANGED <<scanned, rbNext, taskVars, lockVars, transients, active, sys,
                   cache, diskVars, used, history>>

CommitClear(b) ==
    /\ pc[b] \in {"clear", "emptyClear"}
    /\ TryClear
    /\ Goto(b, IF pc[b] = "clear" THEN "push" ELSE "emptyIdle")
    /\ UNCHANGED <<scanned, rbNext, taskVars, lockVars, active, sys, cache,
                   diskVars, used, history>>

\* The snapshot cache learns of the snapshot.
PushCache(b) ==
    /\ pc[b] = "push"
    /\ cache' = Append(cache, b)
    /\ Goto(b, "idle")
    /\ UNCHANGED <<scanned, rbNext, taskVars, lockVars, transients, active, sys,
                   diskVars, used, history>>

\* Mutant: the early return for "no changes" leaves the status as it is.
SetIdle_NotWhenEmpty(b) ==
    /\ pc[b] \in {"idle", "emptyIdle"}
    /\ sys' = IF pc[b] = "idle" THEN None ELSE sys
    /\ Goto(b, IF pc[b] = "idle" THEN "stats" ELSE "empty")
    /\ UNCHANGED <<scanned, rbNext, taskVars, lockVars, transients, active, cache,
                   diskVars, used, history>>

SetIdle(b) ==
    /\ pc[b] \in {"idle", "emptyIdle"}
    /\ sys' = None
    /\ Goto(b, IF pc[b] = "idle" THEN "stats" ELSE "empty")
    /\ UNCHANGED <<scanned, rbNext, taskVars, lockVars, transients, active, cache,
                   diskVars, used, history>>

\* update_storage_stats needs the read side of the object store's lock.
UpdateStats(b) ==
    /\ pc[b] = "stats"
    /\ storeLock = None
    /\ Goto(b, "ok")
    /\ UNCHANGED <<scanned, rbNext, taskVars, lockVars, transients, active, sys,
                   cache, diskVars, used, history>>

-----------------------------------------------------------------------------
(* Cancellation, crash and restart *)

\* cancel() marks whatever transaction is the active one, finished or not.
Cancel ==
    /\ active # None
    /\ Spend("cancel")
    /\ active' = [active EXCEPT !.aborted = TRUE]
    /\ cancelled' = cancelled \cup {b \in Backups : InFlight(b)}
    /\ early' = early \cup {b \in Backups : pc[b] \in Unchecked}
    /\ UNCHANGED <<callVars, taskVars, lockVars, transients, sys, cache, diskVars,
                   shared>>

\* The chunk whose object a task may be writing.
Writing == {Head(todo[t]) : t \in {u \in Tasks : tpc[u] = "chunk" /\ todo[u] # <<>>}}
           \ ({c \in Chunks : ChunkExists(refs, c)} \cup store \cup torn)

\* What a starting object store takes for objects among the parts of them: any
\* loose file, but a sharded object only with its parity header, written last.
TakenForObjects(parts) == IF ErasureCoding THEN {} ELSE parts

\* The process dies, perhaps in the middle of an object, and a new one loads the
\* objects and the manifests before it serves the first request.
CrashRestart ==
    /\ Spend("crash")
    /\ pc' = [b \in Backups |-> IF InFlight(b) THEN "lost" ELSE pc[b]]
    /\ scanned' = [b \in Backups |-> {}]
    /\ tpc' = [t \in Tasks |->
                 IF tpc[t] \in {"none", "ok"} THEN tpc[t] ELSE "skipped"]
    /\ todo' = [t \in Tasks |-> <<>>]
    /\ Unlock3
    /\ transients' = <<>>
    /\ active' = None
    /\ sys' = None
    /\ cache' = manifests
    /\ \E cut \in SUBSET Writing : partial' = partial \cup cut
    /\ torn' = TakenForObjects(partial')
    /\ UNCHANGED <<rbNext, hashes, indexVars, store, manifests, history>>

-----------------------------------------------------------------------------

\* Steps that wait for a lock another task can hold, and the others.
CallLocks(b) == \/ Begin(b) \/ RollbackLockTransients(b) \/ RollbackLockIndex(b)
                \/ RecordFiles(b) \/ CommitFlush(b) \/ UpdateStats(b)
CallMoves(b) == \/ Activate(b) \/ Scan(b) \/ Loop(b) \/ SpawnTask(b) \/ Collect(b)
                \/ CheckAborted(b) \/ RollbackObject(b) \/ RollbackUnlock(b)
                \/ RollbackClear(b) \/ RollbackIdle(b) \/ WriteManifest(b)
                \/ SignManifest(b) \/ CommitClear(b) \/ PushCache(b) \/ SetIdle(b)
TaskLocks(t) == LockIndex(t) \/ LockStore(t) \/ LockTransients(t)
TaskMoves(t) == DedupChunk(t) \/ WriteChunk(t) \/ IndexChunk(t) \/ FinishFile(t)

\* Nothing is left to do: every call has returned.
Terminating ==
    /\ \A b \in Backups : pc[b] \in Returned
    /\ UNCHANGED vars

Next ==
    \/ \E b \in Backups : Start(b) \/ CallLocks(b) \/ CallMoves(b)
                          \/ ScanFails(b) \/ WriteManifestFails(b) \/ SignManifestFails(b)
    \/ \E t \in Tasks : TaskLocks(t) \/ TaskMoves(t) \/ OpenFails(t)
                        \/ WriteChunkFails(t) \/ ReadFails(t)
    \/ Cancel
    \/ CrashRestart
    \/ Terminating

Spec == Init /\ [][Next]_vars

\* The runtime does not rest while a call or a file task can move (weak fairness
\* of all their steps together).  No behaviour has infinitely many of them, so
\* nothing need be assumed about the order in which the locks serve their waiters.
Fairness == WF_vars(\/ \E b \in Backups : CallLocks(b) \/ CallMoves(b)
                    \/ \E t \in Tasks : TaskLocks(t) \/ TaskMoves(t))

FairSpec == Spec /\ Fairness

-----------------------------------------------------------------------------
(* Properties *)

\* Every variable has values of its kind.
TypeOK ==
    /\ pc \in [Backups -> Phases]
    /\ scanned \in [Backups -> SUBSET Files]
    /\ rbNext \in [Backups -> Nat \ {0}]
    /\ tpc \in [Tasks -> TaskPhases]
    /\ todo \in [Tasks -> Seq(Chunks)]
    /\ hashes \in [Tasks -> Seq(Chunks)]
    /\ {indexLock, storeLock, transLock} \subseteq Threads \cup {None}
    /\ transients \in Seq(Chunks)
    /\ active \in {None} \cup [tx : Backups, aborted : BOOLEAN]
    /\ sys \in Backups \cup {None}
    /\ cache \in Seq(Backups) /\ manifests \in Seq(Backups)
    /\ refs \in [Chunks -> Nat]
    /\ fileChunks \in [Files -> Seq(Chunks)]
    /\ snapFiles \in [Backups -> SUBSET Files]
    /\ store \subseteq Chunks
    /\ torn \subseteq partial /\ partial \subseteq Chunks \ store
    /\ used \in [Kinds -> Nat]
    /\ {shared, cancelled, early} \subseteq SUBSET Backups

\* With erasure coding, which is the default, the chunk can be read back; without,
\* a restart may have taken a part of its object for the whole (find_lost_object
\* shows how).
StoredOrTorn(c) == c \in store \/ (~ErasureCoding /\ c \in torn)

\* A chunk the index knows can be read back from the store: a later backup that
\* finds the chunk in the index does not write it again (mod.rs, the `exists`
\* branch of the streaming closure), so an entry without its object would lose
\* data in every backup from then on.  Without erasure coding a torn object is the
\* exception: the write that a crash or an error cut is not done again.
IndexedChunksStored ==
    \A c \in Chunks : ChunkExists(refs, c) => StoredOrTorn(c)

\* As long as no object write has failed, what the index records for a file can
\* be read back, whatever was cancelled, rolled back or cut short by a crash in
\* between (restore reads file_chunks), with the same exception.
FileChunksReadable ==
    used["object"] = 0 =>
        \A f \in Files : \A i \in DOMAIN fileChunks[f] : StoredOrTorn(fileChunks[f][i])

\* The references held by the snapshots listed in the index: one per chunk
\* occurrence of each of their files.
References(c) ==
    LET listed == {t \in Tasks : t[2] \in snapFiles[t[1]]}
    IN  UNION {{<<t, i>> : i \in {j \in DOMAIN hashes[t] : hashes[t][j] = c}}
                 : t \in listed}

\* The transient list is one for all calls, and a rollback gives back what is in
\* it, so only a call that ran alone can be sure to give back its own.
RolledBackAlone == \A b \in shared : rbNext[b] = 1

\* As long as no object write has failed, no chunk has fewer references than the
\* recorded snapshots hold: prune gives one back per occurrence, and a chunk at 0
\* counts as garbage.  Neither calls side by side, nor a crash, nor the rollback
\* of a call that ran alone may take a reference that a snapshot holds.
NeverUndercounted ==
    (used["object"] = 0 /\ RolledBackAlone) =>
        \A c \in Chunks : refs[c] >= Cardinality(References(c))

\* A cancel that reaches a call before its last look at the transaction stops
\* it: no manifest of this call is ever written (mod.rs: "Store in
\* active_transaction so cancel() can abort it").  The call has to run alone:
\* the transaction of another one would replace its own.
EarlyCancelNeverCommits ==
    \A i \in DOMAIN manifests : manifests[i] \notin early \ shared

\* Only a call that was in flight at a cancel is aborted, whatever else runs: a
\* cancel that came too late for one call must not be taken for a cancel of the
\* next.
OnlyCancelledAbort == \A b \in Backups : pc[b] = "aborted" => b \in cancelled

Occurs(b, ids) == \E i \in DOMAIN ids : ids[i] = b
NoRepeats(ids) == \A i, j \in DOMAIN ids : ids[i] = ids[j] => i = j

\* No snapshot is listed twice, and one whose call has returned Ok is listed, has
\* its manifest and the list of all the files read, now and after any restart.
AcknowledgedSurvives ==
    /\ NoRepeats(cache)
    /\ \A b \in Backups : pc[b] = "ok" =>
        /\ Occurs(b, cache)
        /\ Occurs(b, manifests)
        /\ snapFiles[b] = {f \in Files : tpc[<<b, f>>] = "ok"}

\* When no call is in flight, and none ended in an I/O error, the status is idle,
\* however the calls interleaved (the mod polls it).
IdleWhenQuiet ==
    (\A b \in Backups : ~InFlight(b) /\ pc[b] # "error") => sys = None

\* No rollback holds the transient list and waits for the index while a file
\* task holds the index and waits for the transient list.
LockCycle(b, t) ==
    /\ pc[b] = "rbIndex" /\ transLock = <<b, Main>>
    /\ tpc[t] = "trans" /\ indexLock = t

NoLockCycle == \A b \in Backups, t \in Tasks : ~LockCycle(b, t)

\* Only two calls side by side can close that cycle, and only when one of them is
\* cancelled: a rollback has awaited the tasks of its own call.
CycleTakesTwoCalls ==
    \A b \in Backups, t \in Tasks :
        LockCycle(b, t) => t[1] # b /\ {b, t[1]} \subseteq shared /\ b \in cancelled

\* A file task streams under its three locks, and a rollback runs under its two:
\* nobody else can be in there with them.
LocksHeld ==
    /\ \A b \in Backups :
        /\ pc[b] \in {"rbIndex", "rbLoop"} => transLock = <<b, Main>>
        /\ pc[b] = "rbLoop" => indexLock = <<b, Main>>
    /\ \A t \in Tasks :
        /\ tpc[t] \in {"store", "trans", "chunk", "index"} => indexLock = t
        /\ tpc[t] \in {"trans", "chunk", "index"} => storeLock = t
        /\ tpc[t] \in {"chunk", "index"} => transLock = t

\* Every call of run_backup returns, unless that cycle stops it and all the others.
EveryCallReturns == \A b \in Backups : InFlight(b) ~> (~InFlight(b) \/ ~NoLockCycle)

-----------------------------------------------------------------------------
(* Refinement: the manifests are the log of SnapshotLog *)

Outcome(b) ==
    CASE pc[b] = "ok" -> "ok"
      [] pc[b] \in {"empty", "aborted"} -> "rejected"
      [] pc[b] = "error" -> "failed"
      [] pc[b] = "lost" -> "lost"
      [] OTHER -> "pending"

Log == INSTANCE SnapshotLog WITH Calls <- Backups, log <- manifests,
                                 outcome <- [b \in Backups |-> Outcome(b)]

\* run_backup keeps the promise of SnapshotLog: a snapshot id is written once, is
\* on disk before its call is answered with it, and never for a call that was
\* aborted or found nothing; what an error means is left open.
ImplementsSnapshotLog == Log!LogSpec

=============================================================================
