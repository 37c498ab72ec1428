------------------------ MODULE BackupEngine_proofs -------------------------
(***************************************************************************)
(* Theorems about BackupEngine, for every set of calls, files, chunks and  *)
(* contents, any number of concurrent calls and any number of crashes,     *)
(* cancels and faults, unless a theorem says otherwise.                    *)
(***************************************************************************)
EXTENDS BackupEngine, FiniteSetTheorems, TLAPS

-----------------------------------------------------------------------------
(* Type correctness *)

\* The initial state is well typed.
LEMMA InitType == Init => TypeOK
  BY LimitAssumption DEF Init, TypeOK, Phases, TaskPhases, Tasks, Threads

\* Counting an event keeps the counters natural numbers.
LEMMA SpendType ==
  ASSUME used \in [Kinds -> Nat], NEW k \in Kinds, Spend(k)
  PROVE  used' \in [Kinds -> Nat]
  BY DEF Spend

\* What the head and the rest of a non-empty list of chunks are.
LEMMA HeadTail ==
  ASSUME NEW s \in Seq(Chunks), s # <<>>
  PROVE  Head(s) \in Chunks /\ Tail(s) \in Seq(Chunks)
  OBVIOUS

\* A step of a call keeps every variable within its type.
LEMMA CallType ==
  ASSUME TypeOK, NEW b \in Backups,
         Start(b) \/ CallLocks(b) \/ CallMoves(b) \/ ScanFails(b)
                  \/ WriteManifestFails(b) \/ SignManifestFails(b)
  PROVE  TypeOK'
  <1> USE LimitAssumption DEF TypeOK, Phases, Goto, callVars, taskVars, lockVars,
                              indexVars, objectVars, diskVars, history
  <1>1. CASE Start(b)
    <2>1. shared' \subseteq Backups
      BY <1>1 DEF Start, Others
    <2> QED
      BY <1>1, <2>1 DEF Start
  <1>2. CASE ScanFails(b)
    <2>1. /\ UNCHANGED <<scanned, rbNext, taskVars, lockVars, transients, active,
                         sys, cache, diskVars, history>>
          /\ pc' = [pc EXCEPT ![b] = "error"]
      BY <1>2 DEF ScanFails
    <2>2. used' \in [Kinds -> Nat]
      BY <1>2, SpendType DEF ScanFails, Kinds
    <2> QED
      BY <2>1, <2>2
  <1>3. CASE WriteManifestFails(b)
    <2>1. /\ UNCHANGED <<scanned, rbNext, taskVars, lockVars, transients, active,
                         sys, cache, diskVars, history>>
          /\ pc' = [pc EXCEPT ![b] = "error"]
      BY <1>3 DEF WriteManifestFails
    <2>2. used' \in [Kinds -> Nat]
      BY <1>3, SpendType DEF WriteManifestFails, Kinds
    <2> QED
      BY <2>1, <2>2
  <1>4. CASE Begin(b)
    BY <1>4 DEF Begin
  <1>5. CASE RollbackLockTransients(b)
    BY <1>5 DEF RollbackLockTransients, Threads
  <1>6. CASE RollbackLockIndex(b)
    BY <1>6 DEF RollbackLockIndex, Threads
  <1>7. CASE RecordFiles(b)
    BY <1>7 DEF RecordFiles, InsertSnapshotFiles, Tasks
  <1>8. CASE CommitFlush(b)
    BY <1>8 DEF CommitFlush
  <1>9. CASE UpdateStats(b)
    BY <1>9 DEF UpdateStats
  <1>10. CASE Activate(b)
    BY <1>10 DEF Activate
  <1>11. CASE Scan(b)
    BY <1>11 DEF Scan
  <1>12. CASE Loop(b)
    BY <1>12 DEF Loop
  <1>13. CASE SpawnTask(b)
    BY <1>13 DEF SpawnTask, TaskGoto, TaskPhases, Tasks
  <1>14. CASE Collect(b)
    BY <1>14 DEF Collect
  <1>15. CASE CheckAborted(b)
    BY <1>15 DEF CheckAborted
  <1>16. CASE RollbackObject(b)
    <2>1. transients[rbNext[b]] \in Chunks
      BY <1>16 DEF RollbackObject
    <2>2. refs' \in [Chunks -> Nat]
      BY <1>16, <2>1 DEF RollbackObject, DecrementRef
    <2>3. rbNext' \in [Backups -> Nat \ {0}]
      BY <1>16 DEF RollbackObject
    <2> QED
      BY <1>16, <2>2, <2>3 DEF RollbackObject
  <1>17. CASE RollbackUnlock(b)
    BY <1>17 DEF RollbackUnlock
  <1>18. CASE RollbackClear(b)
    BY <1>18 DEF RollbackClear, TryClear
  <1>19. CASE RollbackIdle(b)
    BY <1>19 DEF RollbackIdle
  <1>20. CASE WriteManifest(b)
    BY <1>20 DEF WriteManifest
  <1>21. CASE CommitClear(b)
    BY <1>21 DEF CommitClear, TryClear
  <1>22. CASE PushCache(b)
    BY <1>22 DEF PushCache
  <1>23. CASE SetIdle(b)
    BY <1>23 DEF SetIdle
  <1>24. CASE SignManifest(b)
    BY <1>24 DEF SignManifest
  <1>25. CASE SignManifestFails(b)
    <2>1. /\ UNCHANGED <<scanned, rbNext, taskVars, lockVars, transients, active,
                         sys, cache, diskVars, history>>
          /\ pc' = [pc EXCEPT ![b] = "error"]
      BY <1>25 DEF SignManifestFails
    <2>2. used' \in [Kinds -> Nat]
      BY <1>25, SpendType DEF SignManifestFails, Kinds
    <2> QED
      BY <2>1, <2>2
  <1> QED
    BY <1>1, <1>2, <1>3, <1>4, <1>5, <1>6, <1>7, <1>8, <1>9, <1>10, <1>11, <1>12,
        <1>13, <1>14, <1>15, <1>16, <1>17, <1>18, <1>19, <1>20, <1>21, <1>22,
        <1>23, <1>24, <1>25 DEF CallLocks, CallMoves

\* So is the last one.
LEMMA LastIn ==
  ASSUME NEW s \in Seq(Chunks), s # <<>>
  PROVE  s[Len(s)] \in Chunks
  OBVIOUS

\* Recording the next hash keeps what is read and what is left lists of chunks.
LEMMA NextType ==
  ASSUME todo \in [Tasks -> Seq(Chunks)], hashes \in [Tasks -> Seq(Chunks)],
         NEW t \in Tasks, todo[t] # <<>>, NextHash(t)
  PROVE  todo' \in [Tasks -> Seq(Chunks)] /\ hashes' \in [Tasks -> Seq(Chunks)]
  <1>1. Head(todo[t]) \in Chunks /\ Tail(todo[t]) \in Seq(Chunks)
    BY HeadTail
  <1>2. Append(hashes[t], Head(todo[t])) \in Seq(Chunks)
    BY <1>1
  <1>3. /\ todo' = [todo EXCEPT ![t] = Tail(todo[t])]
        /\ hashes' = [hashes EXCEPT ![t] = Append(hashes[t], Head(todo[t]))]
    BY DEF NextHash
  <1> QED
    BY <1>1, <1>2, <1>3

\* A step of a file task keeps every variable within its type.
LEMMA TaskType ==
  ASSUME TypeOK, NEW t \in Tasks, hashes[t] # <<>> \/ tpc[t] # "index",
         TaskLocks(t) \/ TaskMoves(t) \/ OpenFails(t) \/ WriteChunkFails(t) \/ ReadFails(t)
  PROVE  TypeOK'
  <1> USE ContentsAssumption
      DEF TypeOK, TaskPhases, TaskGoto, callVars, taskVars, lockVars,
          indexVars, objectVars, diskVars, history
  <1>0. t \in Threads
    BY DEF Tasks, Threads
  <1>1. CASE LockIndex(t)
    BY <1>1, <1>0 DEF LockIndex
  <1>2. CASE LockStore(t)
    BY <1>2, <1>0 DEF LockStore
  <1>3. CASE LockTransients(t)
    BY <1>3, <1>0 DEF LockTransients
  <1>4. CASE DedupChunk(t)
    <2>1. /\ UNCHANGED <<callVars, tpc, lockVars, transients, active, sys, cache,
                         fileChunks, snapFiles, objectVars, manifests, used, history>>
          /\ todo[t] # <<>> /\ NextHash(t)
          /\ refs' = IncrementRef(refs, Head(todo[t]))
      BY <1>4 DEF DedupChunk
    <2>2. Head(todo[t]) \in Chunks /\ Tail(todo[t]) \in Seq(Chunks)
      BY <2>1
    <2>3. todo' \in [Tasks -> Seq(Chunks)] /\ hashes' \in [Tasks -> Seq(Chunks)]
      BY <2>1, NextType
    <2>4. refs' \in [Chunks -> Nat]
      BY <2>1, <2>2 DEF IncrementRef
    <2> QED
      BY <2>1, <2>3, <2>4
  <1>5. CASE WriteChunk(t)
    <2>1. /\ UNCHANGED <<callVars, lockVars, transients, active, sys, cache, indexVars,
                         manifests, used, history>>
          /\ tpc' = [tpc EXCEPT ![t] = "index"]
          /\ todo[t] # <<>>
          /\ store' = store \cup ({Head(todo[t])} \ torn)
          /\ partial' = partial \ ({Head(todo[t])} \ torn)
          /\ torn' = torn
      BY <1>5 DEF WriteChunk
    <2>2. NextHash(t)
      BY <1>5 DEF WriteChunk
    <2>3. todo[t] \in Seq(Chunks)
      OBVIOUS
    <2>4. Head(todo[t]) \in Chunks
      BY <2>1, <2>3, HeadTail
    <2>5. todo' \in [Tasks -> Seq(Chunks)] /\ hashes' \in [Tasks -> Seq(Chunks)]
      BY <2>1, <2>2, <2>3, NextType
    <2>6. store' \subseteq Chunks /\ torn' \subseteq partial' /\ partial' \subseteq Chunks \ store'
      BY <2>1, <2>4
    <2> QED
      BY <2>1, <2>5, <2>6
  <1>6. CASE IndexChunk(t)
    <2>1. /\ UNCHANGED <<callVars, todo, hashes, lockVars, active, sys, cache,
                         fileChunks, snapFiles, objectVars, manifests, used, history>>
          /\ tpc' = [tpc EXCEPT ![t] = "chunk"]
          /\ transients' = Append(transients, hashes[t][Len(hashes[t])])
          /\ refs' = InsertChunk(refs, hashes[t][Len(hashes[t])])
      BY <1>6 DEF IndexChunk
    <2>2. hashes[t] \in Seq(Chunks) /\ hashes[t] # <<>>
      BY <1>6 DEF IndexChunk
    <2>3. hashes[t][Len(hashes[t])] \in Chunks
      BY <2>2, LastIn
    <2>4. transients' \in Seq(Chunks)
      BY <2>1, <2>3
    <2>5. refs' \in [Chunks -> Nat]
      BY <2>1, <2>3 DEF InsertChunk
    <2> QED
      BY <2>1, <2>4, <2>5
  <1>7. CASE FinishFile(t)
    BY <1>7 DEF FinishFile, InsertFileChunks, Unlock3
  <1>8. CASE OpenFails(t)
    <2>1. /\ UNCHANGED <<callVars, todo, hashes, lockVars, transients, active, sys,
                         cache, diskVars, history>>
          /\ tpc' = [tpc EXCEPT ![t] = "skipped"]
      BY <1>8 DEF OpenFails
    <2>2. used' \in [Kinds -> Nat]
      BY <1>8, SpendType DEF OpenFails, Kinds
    <2> QED
      BY <2>1, <2>2
  <1>9. CASE WriteChunkFails(t)
    <2>1. /\ UNCHANGED <<callVars, tpc, lockVars, transients, active, sys, cache,
                         indexVars, torn, manifests, history>>
          /\ todo[t] # <<>> /\ NextHash(t)
      BY <1>9 DEF WriteChunkFails
    <2>2. todo' \in [Tasks -> Seq(Chunks)] /\ hashes' \in [Tasks -> Seq(Chunks)]
      BY <2>1, NextType
    <2>3. used' \in [Kinds -> Nat]
      BY <1>9, SpendType DEF WriteChunkFails, Kinds
    <2>4. todo[t] \in Seq(Chunks) /\ todo[t] # <<>>
      BY <2>1
    <2>5. PICK c \in Chunks : c = Head(todo[t])
      BY <2>4, HeadTail
    <2>6. /\ c \notin store \cup torn
          /\ \/ partial' \in {partial, partial \cup {c}} /\ store' = store
             \/ store' = store \cup {c} /\ partial' = partial \ {c}
      BY <1>9, <2>5 DEF WriteChunkFails
    <2>7. store' \subseteq Chunks /\ torn' \subseteq partial' /\ partial' \subseteq Chunks \ store'
      BY <2>1, <2>6
    <2> QED
      BY <2>1, <2>2, <2>3, <2>7
  <1>10. CASE ReadFails(t)
    <2>1. used' \in [Kinds -> Nat]
      BY <1>10, SpendType DEF ReadFails, Kinds
    <2> QED
      BY <1>10, <2>1 DEF ReadFails, Unlock3
  <1> QED
    BY <1>1, <1>2, <1>3, <1>4, <1>5, <1>6, <1>7, <1>8, <1>9, <1>10 DEF TaskLocks,
        TaskMoves

\* What a crash may cut are chunks the store does not have.
LEMMA WritingType ==
  ASSUME todo \in [Tasks -> Seq(Chunks)]
  PROVE  Writing \subseteq Chunks \ store
  <1>1. ASSUME NEW t \in Tasks, todo[t] # <<>>
        PROVE  Head(todo[t]) \in Chunks
    BY <1>1, HeadTail
  <1> QED
    BY <1>1 DEF Writing

\* So do a cancel and a restart.
LEMMA EventType ==
  ASSUME TypeOK, Cancel \/ CrashRestart
  PROVE  TypeOK'
  <1> USE DEF TypeOK, callVars, taskVars, lockVars, indexVars, objectVars, diskVars,
              history
  <1>1. CASE Cancel
    <2>1. active' \in [tx : Backups, aborted : BOOLEAN]
      BY <1>1 DEF Cancel
    <2>2. {shared, cancelled, early}' \subseteq SUBSET Backups
      BY <1>1 DEF Cancel
    <2>3. used' \in [Kinds -> Nat]
      BY <1>1, SpendType DEF Cancel, Kinds
    <2>4. UNCHANGED <<callVars, taskVars, lockVars, transients, sys, cache, diskVars>>
      BY <1>1 DEF Cancel
    <2> QED
      BY <2>1, <2>2, <2>3, <2>4
  <1>2. CASE CrashRestart
    <2>1. used' \in [Kinds -> Nat]
      BY <1>2, SpendType DEF CrashRestart, Kinds
    <2>2. pc' \in [Backups -> Phases]
      BY <1>2 DEF CrashRestart, Phases
    <2>3. tpc' \in [Tasks -> TaskPhases]
      BY <1>2 DEF CrashRestart, TaskPhases
    <2>4. /\ scanned' = [b \in Backups |-> {}]
          /\ todo' = [t \in Tasks |-> <<>>]
          /\ indexLock' = None /\ storeLock' = None /\ transLock' = None
          /\ transients' = <<>> /\ active' = None /\ sys' = None
          /\ cache' = manifests
          /\ UNCHANGED <<rbNext, hashes, indexVars, store, manifests, history>>
      BY <1>2 DEF CrashRestart, Unlock3
    <2>5. Writing \subseteq Chunks \ store
      BY WritingType
    <2>6. torn' \subseteq partial' /\ partial' \subseteq Chunks \ store'
      BY <1>2, <2>4, <2>5 DEF CrashRestart, TakenForObjects
    <2> QED
      BY <2>1, <2>2, <2>3, <2>4, <2>6
  <1> QED
    BY <1>1, <1>2

-----------------------------------------------------------------------------
(* Indexed chunks are stored *)

\* A task about to index a chunk has just written it.
Written ==
    \A t \in Tasks : tpc[t] = "index" =>
        hashes[t] # <<>> /\ StoredOrTorn(hashes[t][Len(hashes[t])])

\* With erasure coding no torn object is taken for a whole one.
NoneTorn == ErasureCoding => torn = {}

IndexInv == TypeOK /\ NoneTorn /\ IndexedChunksStored /\ Written

\* What the store takes for objects.
Kept == {c \in Chunks : StoredOrTorn(c)}

\* No step takes an object away.
LEMMA ObjectsKept ==
  ASSUME TypeOK, [Next]_vars
  PROVE  Kept \subseteq Kept'
  <1>1. ASSUME NEW b \in Backups,
               Start(b) \/ CallLocks(b) \/ CallMoves(b) \/ ScanFails(b)
                  \/ WriteManifestFails(b) \/ SignManifestFails(b)
        PROVE  UNCHANGED <<store, torn>>
    BY <1>1 DEF CallLocks, CallMoves, Start, ScanFails, WriteManifestFails,
        SignManifestFails, Begin, RollbackLockTransients, RollbackLockIndex,
        RecordFiles, CommitFlush, UpdateStats, Activate, Scan, Loop, SpawnTask,
        Collect, CheckAborted, RollbackObject, RollbackUnlock, RollbackClear,
        RollbackIdle, WriteManifest, SignManifest, CommitClear, PushCache, SetIdle,
        diskVars, objectVars
  <1>2. ASSUME NEW t \in Tasks,
               TaskLocks(t) \/ TaskMoves(t) \/ OpenFails(t) \/ WriteChunkFails(t)
                  \/ ReadFails(t)
        PROVE  store \subseteq store' /\ torn' = torn
    BY <1>2 DEF TaskLocks, TaskMoves, LockIndex, LockStore, LockTransients, DedupChunk,
        WriteChunk, IndexChunk, FinishFile, OpenFails, WriteChunkFails, ReadFails,
        diskVars, objectVars
  <1>3. Cancel \/ UNCHANGED vars => UNCHANGED <<store, torn>>
    BY DEF Cancel, vars, diskVars
  <1>4. CrashRestart => store' = store /\ (~ErasureCoding => torn \subseteq torn')
    BY DEF CrashRestart, TakenForObjects, TypeOK
  <1> QED
    BY <1>1, <1>2, <1>3, <1>4, ErasureCodingAssumption
       DEF Next, Terminating, Kept, StoredOrTorn

\* The last element of a list is the one appended last.
LEMMA AppendLast ==
  ASSUME NEW s \in Seq(Chunks), NEW c \in Chunks
  PROVE  /\ Append(s, c) # <<>>
         /\ Append(s, c)[Len(Append(s, c))] = c
  OBVIOUS

\* No step of a call takes an object away, or an entry into the index without one.
LEMMA CallIndexed ==
  ASSUME IndexInv, NEW b \in Backups,
         Start(b) \/ CallLocks(b) \/ CallMoves(b) \/ ScanFails(b)
                  \/ WriteManifestFails(b) \/ SignManifestFails(b)
  PROVE  (NoneTorn /\ IndexedChunksStored /\ Written)'
  <1> USE DEF IndexInv, TypeOK, NoneTorn, IndexedChunksStored, Written, ChunkExists,
              StoredOrTorn, callVars, taskVars, lockVars, indexVars, objectVars, diskVars
  <1>1. CASE Start(b)
    BY <1>1 DEF Start
  <1>2. CASE ScanFails(b)
    BY <1>2 DEF ScanFails
  <1>3. CASE WriteManifestFails(b)
    BY <1>3 DEF WriteManifestFails
  <1>4. CASE Begin(b)
    BY <1>4 DEF Begin
  <1>5. CASE RollbackLockTransients(b)
    BY <1>5 DEF RollbackLockTransients
  <1>6. CASE RollbackLockIndex(b)
    BY <1>6 DEF RollbackLockIndex
  <1>7. CASE RecordFiles(b)
    BY <1>7 DEF RecordFiles
  <1>8. CASE CommitFlush(b)
    BY <1>8 DEF CommitFlush
  <1>9. CASE UpdateStats(b)
    BY <1>9 DEF UpdateStats
  <1>10. CASE Activate(b)
    BY <1>10 DEF Activate
  <1>11. CASE Scan(b)
    BY <1>11 DEF Scan
  <1>12. CASE Loop(b)
    BY <1>12 DEF Loop
  <1>13. CASE SpawnTask(b)
    BY <1>13 DEF SpawnTask, TaskGoto, Tasks
  <1>14. CASE Collect(b)
    BY <1>14 DEF Collect
  <1>15. CASE CheckAborted(b)
    BY <1>15 DEF CheckAborted
  <1>16. CASE RollbackObject(b)
    BY <1>16 DEF RollbackObject, DecrementRef
  <1>17. CASE RollbackUnlock(b)
    BY <1>17 DEF RollbackUnlock
  <1>18. CASE RollbackClear(b)
    BY <1>18 DEF RollbackClear
  <1>19. CASE RollbackIdle(b)
    BY <1>19 DEF RollbackIdle
  <1>20. CASE WriteManifest(b)
    BY <1>20 DEF WriteManifest
  <1>21. CASE CommitClear(b)
    BY <1>21 DEF CommitClear
  <1>22. CASE PushCache(b)
    BY <1>22 DEF PushCache
  <1>23. CASE SetIdle(b)
    BY <1>23 DEF SetIdle
  <1>24. CASE SignManifest(b)
    BY <1>24 DEF SignManifest
  <1>25. CASE SignManifestFails(b)
    BY <1>25 DEF SignManifestFails
  <1> QED
    BY <1>1, <1>2, <1>3, <1>4, <1>5, <1>6, <1>7, <1>8, <1>9, <1>10, <1>11, <1>12,
        <1>13, <1>14, <1>15, <1>16, <1>17, <1>18, <1>19, <1>20, <1>21, <1>22,
        <1>23, <1>24, <1>25 DEF CallLocks, CallMoves

\* A file task writes a chunk before it indexes it, and indexes no chunk whose
\* write failed.
LEMMA TaskIndexed ==
  ASSUME IndexInv, NEW t \in Tasks,
         TaskLocks(t) \/ TaskMoves(t) \/ OpenFails(t) \/ WriteChunkFails(t) \/ ReadFails(t)
  PROVE  (NoneTorn /\ IndexedChunksStored /\ Written)'
  <1> USE DEF IndexInv, TypeOK, NoneTorn, IndexedChunksStored, Written, ChunkExists,
              StoredOrTorn, TaskGoto, callVars, taskVars, lockVars, indexVars,
              objectVars, diskVars
  <1>1. CASE LockIndex(t)
    BY <1>1 DEF LockIndex
  <1>2. CASE LockStore(t)
    BY <1>2 DEF LockStore
  <1>3. CASE LockTransients(t)
    BY <1>3 DEF LockTransients
  <1>4. CASE DedupChunk(t)
    BY <1>4 DEF DedupChunk, IncrementRef, NextHash
  <1>5. CASE WriteChunk(t)
    <2>1. PICK c \in Chunks : c = Head(todo[t])
      BY <1>5, HeadTail DEF WriteChunk
    <2>2. /\ hashes'[t] = Append(hashes[t], c)
          /\ store' = store \cup ({c} \ torn) /\ torn' = torn
      BY <1>5, <2>1 DEF WriteChunk, NextHash
    <2>3. hashes'[t] # <<>> /\ hashes'[t][Len(hashes'[t])] = c
      <3>1. hashes[t] \in Seq(Chunks)
        OBVIOUS
      <3>2. /\ Append(hashes[t], c) # <<>>
            /\ Append(hashes[t], c)[Len(Append(hashes[t], c))] = c
        BY <3>1, AppendLast
      <3> QED
        BY <2>2, <3>2
    <2>4. \A u \in Tasks \ {t} : hashes'[u] = hashes[u] /\ tpc'[u] = tpc[u]
      BY <1>5 DEF WriteChunk, NextHash
    <2>5. Written'
      <3>1. StoredOrTorn(hashes[t][Len(hashes[t])])'
        BY <2>2, <2>3, ErasureCodingAssumption
      <3>2. ASSUME NEW u \in Tasks \ {t}, tpc'[u] = "index"
            PROVE  (hashes[u] # <<>> /\ StoredOrTorn(hashes[u][Len(hashes[u])]))'
        BY <2>2, <2>4, <3>2
      <3> QED
        BY <2>3, <3>1, <3>2
    <2>6. IndexedChunksStored'
      BY <1>5 DEF WriteChunk
    <2> QED
      BY <2>2, <2>5, <2>6

  <1>6. CASE IndexChunk(t)
    BY <1>6 DEF IndexChunk, InsertChunk
  <1>7. CASE FinishFile(t)
    BY <1>7 DEF FinishFile
  <1>8. CASE OpenFails(t)
    BY <1>8 DEF OpenFails
  <1>9. CASE WriteChunkFails(t)
    BY <1>9 DEF WriteChunkFails, NextHash
  <1>10. CASE ReadFails(t)
    BY <1>10 DEF ReadFails
  <1> QED
    BY <1>1, <1>2, <1>3, <1>4, <1>5, <1>6, <1>7, <1>8, <1>9, <1>10 DEF TaskLocks,
        TaskMoves

\* IndexInv is inductive.
LEMMA IndexInvStep == IndexInv /\ [Next]_vars => IndexInv'
  <1> SUFFICES ASSUME IndexInv, [Next]_vars
               PROVE  IndexInv'
    OBVIOUS
  <1>1. ASSUME NEW b \in Backups,
               Start(b) \/ CallLocks(b) \/ CallMoves(b) \/ ScanFails(b)
                  \/ WriteManifestFails(b) \/ SignManifestFails(b)
        PROVE  IndexInv'
    BY <1>1, CallType, CallIndexed DEF IndexInv
  <1>2. ASSUME NEW t \in Tasks,
               TaskLocks(t) \/ TaskMoves(t) \/ OpenFails(t) \/ WriteChunkFails(t) \/ ReadFails(t)
        PROVE  IndexInv'
    BY <1>2, TaskType, TaskIndexed DEF IndexInv, Written
  <1>3. CASE Cancel
    <2>1. (NoneTorn /\ IndexedChunksStored /\ Written)'
      BY <1>3 DEF Cancel, IndexInv, NoneTorn, IndexedChunksStored, Written,
                  ChunkExists, StoredOrTorn, taskVars, diskVars
    <2> QED
      BY <1>3, <2>1, EventType DEF IndexInv
  <1>4. CASE CrashRestart
    <2>1. NoneTorn'
      BY <1>4 DEF CrashRestart, TakenForObjects, NoneTorn
    <2>2. refs' = refs /\ refs \in [Chunks -> Nat]
      BY <1>4 DEF CrashRestart, indexVars, IndexInv, TypeOK
    <2>3. IndexedChunksStored'
      BY <2>2, ObjectsKept DEF IndexInv, IndexedChunksStored, ChunkExists, Kept
    <2>4. Written'
      BY <1>4 DEF CrashRestart, Written
    <2> QED
      BY <1>4, <2>1, <2>3, <2>4, EventType DEF IndexInv
  <1>5. CASE UNCHANGED vars
    BY <1>5 DEF IndexInv, TypeOK, NoneTorn, IndexedChunksStored, Written, ChunkExists,
                StoredOrTorn, vars, callVars, taskVars, lockVars, diskVars, history
  <1> QED
    BY <1>1, <1>2, <1>3, <1>4, <1>5 DEF Next, Terminating

\* The type invariant, and the index never names a chunk the store does not
\* have or take for an object: whatever is interleaved, cancelled, rolled back,
\* failed or cut short.
THEOREM IndexInvariant == Spec => []IndexInv
  <1>1. Init => IndexInv
    BY InitType DEF Init, IndexInv, NoneTorn, IndexedChunksStored, Written, ChunkExists
  <1> QED
    BY <1>1, IndexInvStep, PTL DEF Spec

\* Every variable keeps values of its kind, the lists of a task included.
THEOREM TypeCorrect == Spec => []TypeOK
  BY IndexInvariant, PTL DEF IndexInv

\* A chunk the block index knows is in the object store, so a later backup that
\* finds the chunk there may skip its write (the `exists` branch of run_backup).
\* With erasure coding it can be read back; without, a crash or an error in the
\* middle of its object may have left a part that the store takes for the whole.
THEOREM IndexedStored == Spec => []IndexedChunksStored
  BY IndexInvariant, PTL DEF IndexInv

-----------------------------------------------------------------------------
(* What the index records for a file can be read back *)

\* Every chunk a task has listed for its file is in the store, and so is every
\* chunk the index lists.
HashesStored ==
    \A t \in Tasks : \A i \in DOMAIN hashes[t] : StoredOrTorn(hashes[t][i])
FilesStored ==
    \A f \in Files : \A i \in DOMAIN fileChunks[f] : StoredOrTorn(fileChunks[f][i])

ReadInv == used["object"] = 0 => FilesStored /\ HashesStored

\* What is appended to a list is its one new element.
LEMMA AppendRange ==
  ASSUME NEW s \in Seq(Chunks), NEW c \in Chunks
  PROVE  \A i \in DOMAIN Append(s, c) :
            Append(s, c)[i] = c \/ (i \in DOMAIN s /\ Append(s, c)[i] = s[i])
  OBVIOUS

\* Listing the next chunk of a file, when the store has it.
LEMMA NextHashStored ==
  ASSUME TypeOK, HashesStored, NEW t \in Tasks, todo[t] # <<>>, NextHash(t),
         Kept \subseteq Kept', Head(todo[t]) \in Kept'
  PROVE  HashesStored'
  <1>1. hashes[t] \in Seq(Chunks) /\ todo[t] \in Seq(Chunks)
    BY DEF TypeOK
  <1>2. PICK c \in Chunks : c = Head(todo[t])
    BY <1>1, HeadTail
  <1>3. hashes'[t] = Append(hashes[t], c)
    BY <1>2 DEF TypeOK, NextHash
  <1>4. ASSUME NEW u \in Tasks, NEW i \in DOMAIN hashes[u]
        PROVE  hashes[u][i] \in Kept'
    <2>1. hashes[u] \in Seq(Chunks)
      BY DEF TypeOK
    <2>2. hashes[u][i] \in Kept
      BY <1>4, <2>1 DEF HashesStored, Kept
    <2> QED
      BY <2>2
  <1>5. ASSUME NEW i \in DOMAIN hashes'[t]
        PROVE  hashes'[t][i] \in Kept'
    <2>1. hashes'[t][i] = c \/ (i \in DOMAIN hashes[t] /\ hashes'[t][i] = hashes[t][i])
      BY <1>1, <1>3, <1>5, AppendRange
    <2> QED
      BY <1>2, <1>4, <2>1
  <1>6. \A u \in Tasks \ {t} : hashes'[u] = hashes[u]
    BY DEF TypeOK, NextHash
  <1>7. \A u \in Tasks : \A i \in DOMAIN hashes'[u] : hashes'[u][i] \in Kept'
    BY <1>4, <1>5, <1>6
  <1> QED
    BY <1>7 DEF HashesStored, Kept

\* Together with IndexInv, ReadInv is inductive.
LEMMA ReadInvStep ==
  ASSUME IndexInv, ReadInv, [Next]_vars
  PROVE  ReadInv'
  <1> SUFFICES ASSUME used'["object"] = 0
               PROVE  FilesStored' /\ HashesStored'
    BY DEF ReadInv
  <1>n. used["object"] = 0
    <2>1. used \in [Kinds -> Nat] /\ used["object"] \in Nat
      BY DEF IndexInv, TypeOK, Kinds
    <2>2. UNCHANGED used \/ Spend("cancel") \/ Spend("crash") \/ Spend("io") \/ Spend("object")
      <3>1. ASSUME NEW b \in Backups, Start(b) \/ CallLocks(b) PROVE UNCHANGED used
        BY <3>1 DEF CallLocks, Start, Begin, RollbackLockTransients, RollbackLockIndex,
           RecordFiles, CommitFlush, UpdateStats
      <3>2. ASSUME NEW b \in Backups, CallMoves(b) PROVE UNCHANGED used
        BY <3>2 DEF CallMoves, Activate, Scan, Loop, SpawnTask, Collect, CheckAborted,
           RollbackObject, RollbackUnlock, RollbackClear, RollbackIdle, WriteManifest, SignManifest,
           CommitClear, PushCache, SetIdle
      <3>3. ASSUME NEW t \in Tasks, TaskLocks(t) \/ TaskMoves(t) PROVE UNCHANGED used
        BY <3>3 DEF TaskLocks, TaskMoves, LockIndex, LockStore, LockTransients, DedupChunk,
           WriteChunk, IndexChunk, FinishFile
      <3>4. UNCHANGED vars \/ Terminating => UNCHANGED used
        BY DEF vars, Terminating
      <3> QED
        BY <3>1, <3>2, <3>3, <3>4 DEF Next, Cancel, CrashRestart, ScanFails,
           WriteManifestFails, SignManifestFails, OpenFails, WriteChunkFails, ReadFails
    <2>3. ASSUME NEW k \in Kinds, Spend(k)
          PROVE  used'["object"] = used["object"] \/ used'["object"] = used["object"] + 1
      BY <2>1, <2>3 DEF Spend, Kinds
    <2>4. used'["object"] = used["object"] \/ used'["object"] = used["object"] + 1
      BY <2>2, <2>3 DEF Kinds
    <2> QED
      BY <2>1, <2>4
  <1> USE DEF callVars, taskVars, lockVars, indexVars, diskVars
  <1>i. TypeOK /\ NoneTorn /\ IndexedChunksStored /\ FilesStored /\ HashesStored
    BY <1>n DEF ReadInv, IndexInv
  <1>k. Kept \subseteq Kept'
    BY <1>i, ObjectsKept
  <1>l. /\ hashes \in [Tasks -> Seq(Chunks)] /\ fileChunks \in [Files -> Seq(Chunks)]
        /\ todo \in [Tasks -> Seq(Chunks)] /\ refs \in [Chunks -> Nat]
    BY <1>i DEF TypeOK
  <1>f. ASSUME UNCHANGED fileChunks
        PROVE  FilesStored'
    <2>1. ASSUME NEW f \in Files, NEW i \in DOMAIN fileChunks[f]
          PROVE  fileChunks[f][i] \in Kept
      BY <1>i, <1>l, <2>1 DEF FilesStored, Kept
    <2> QED
      BY <1>f, <1>k, <2>1 DEF FilesStored, Kept
  <1>h. ASSUME UNCHANGED hashes
        PROVE  HashesStored'
    <2>1. ASSUME NEW t \in Tasks, NEW i \in DOMAIN hashes[t]
          PROVE  hashes[t][i] \in Kept
      BY <1>i, <1>l, <2>1 DEF HashesStored, Kept
    <2> QED
      BY <1>h, <1>k, <2>1 DEF HashesStored, Kept
  <1>1. ASSUME NEW t \in Tasks, DedupChunk(t)
        PROVE  FilesStored' /\ HashesStored'
    <2>1. todo[t] # <<>> /\ NextHash(t) /\ ChunkExists(refs, Head(todo[t]))
      BY <1>1 DEF DedupChunk
    <2>2. UNCHANGED <<fileChunks, store, torn>>
      BY <1>1 DEF DedupChunk, objectVars
    <2>3. Head(todo[t]) \in Kept
      <3>1. Head(todo[t]) \in Chunks
        BY <1>l, <2>1, HeadTail
      <3> QED
        BY <1>i, <2>1, <3>1 DEF IndexedChunksStored, Kept
    <2>4. HashesStored'
      BY <1>i, <1>k, <2>1, <2>3, NextHashStored
    <2> QED
      BY <2>2, <2>4, <1>f
  <1>2. ASSUME NEW t \in Tasks, WriteChunk(t)
        PROVE  FilesStored' /\ HashesStored'
    <2>1. todo[t] # <<>> /\ NextHash(t) /\ UNCHANGED <<fileChunks, torn>>
      BY <1>2 DEF WriteChunk
    <2>2. store' = store \cup ({Head(todo[t])} \ torn)
      BY <1>2 DEF WriteChunk
    <2>3. Head(todo[t]) \in Chunks
      BY <1>l, <2>1, HeadTail
    <2>4. Head(todo[t]) \in Kept'
      BY <1>i, <2>1, <2>2, <2>3, ErasureCodingAssumption DEF Kept, StoredOrTorn, NoneTorn
    <2>5. HashesStored'
      BY <1>i, <1>k, <2>1, <2>4, NextHashStored
    <2> QED
      BY <2>1, <2>5, <1>f
  <1>3. ASSUME NEW t \in Tasks, WriteChunkFails(t)
        PROVE  FALSE
    BY <1>n, <1>i, <1>3 DEF WriteChunkFails, Spend, Kinds, TypeOK
  <1>4. ASSUME NEW t \in Tasks, FinishFile(t)
        PROVE  FilesStored' /\ HashesStored'
    <2>1. \A f \in Files : fileChunks'[f] = IF f = t[2] THEN hashes[t] ELSE fileChunks[f]
      BY <1>l, <1>4 DEF FinishFile, InsertFileChunks, Tasks
    <2>2. UNCHANGED <<hashes, store, torn>>
      BY <1>4 DEF FinishFile, objectVars
    <2> QED
      BY <1>i, <2>1, <2>2 DEF FilesStored, HashesStored, StoredOrTorn
  <1>5. ASSUME UNCHANGED <<hashes, fileChunks>>
        PROVE  FilesStored' /\ HashesStored'
    BY <1>5, <1>f, <1>h
  <1>6. ASSUME NEW b \in Backups,
               Start(b) \/ CallLocks(b) \/ CallMoves(b) \/ ScanFails(b)
                  \/ WriteManifestFails(b) \/ SignManifestFails(b)
        PROVE  UNCHANGED <<hashes, fileChunks>>
    BY <1>6 DEF CallLocks, CallMoves, Start, ScanFails, WriteManifestFails, SignManifestFails, Begin,
        RollbackLockTransients, RollbackLockIndex, RecordFiles, CommitFlush,
        UpdateStats, Activate, Scan, Loop, SpawnTask, Collect, CheckAborted,
        RollbackObject, RollbackUnlock, RollbackClear, RollbackIdle, WriteManifest, SignManifest,
        CommitClear, PushCache, SetIdle
  <1>7. ASSUME NEW t \in Tasks,
      TaskLocks(t) \/ IndexChunk(t) \/ OpenFails(t) \/ ReadFails(t)
        PROVE  UNCHANGED <<hashes, fileChunks>>
    BY <1>7 DEF TaskLocks, LockIndex, LockStore, LockTransients, IndexChunk, OpenFails,
                ReadFails
  <1>8. Cancel \/ CrashRestart \/ UNCHANGED vars => UNCHANGED <<hashes, fileChunks>>
    BY DEF Cancel, CrashRestart, vars
  <1> QED
    BY <1>1, <1>2, <1>3, <1>4, <1>5, <1>6, <1>7, <1>8 DEF Next, TaskMoves, Terminating

\* As long as no write of an object has failed, the store has every chunk of every
\* chunk list of the index: neither concurrent calls, nor a cancel with its
\* rollback, nor a crash can leave a hole.  With erasure coding the chunks can be
\* read back; without, the object of one may be what a crash left of it.
THEOREM FilesReadable == Spec => []FileChunksReadable
  <1>1. Init => ReadInv
    BY DEF Init, ReadInv, FilesStored, HashesStored
  <1>2. IndexInv /\ ReadInv /\ [Next]_vars => ReadInv'
    BY ReadInvStep
  <1>3. ReadInv => FileChunksReadable
    BY DEF ReadInv, FilesStored, FileChunksReadable
  <1> QED
    BY <1>1, <1>2, <1>3, IndexInvariant, PTL DEF Spec

-----------------------------------------------------------------------------
(* Mutual exclusion *)

\* Calls, file tasks and None are different lock holders.
LEMMA NamesDistinct ==
  /\ \A b \in Backups, t \in Tasks : <<b, Main>> # t
  /\ \A t \in Tasks : t # None
  /\ \A b \in Backups : <<b, Main>> # None
  /\ \A a, b \in Backups : <<a, Main>> = <<b, Main>> => a = b
  BY NamesAssumption DEF Tasks

\* A call takes the locks of its rollback when they are free, and gives back only
\* those.
LEMMA CallLocked ==
  ASSUME TypeOK, LocksHeld, NEW b \in Backups,
         Start(b) \/ CallLocks(b) \/ CallMoves(b) \/ ScanFails(b)
                  \/ WriteManifestFails(b) \/ SignManifestFails(b)
  PROVE  LocksHeld'
  <1> USE NamesDistinct DEF TypeOK, LocksHeld, Goto, callVars, taskVars, lockVars
  <1>1. CASE Start(b)
    BY <1>1 DEF Start
  <1>2. CASE ScanFails(b)
    BY <1>2 DEF ScanFails
  <1>3. CASE WriteManifestFails(b)
    BY <1>3 DEF WriteManifestFails
  <1>4. CASE Begin(b)
    BY <1>4 DEF Begin
  <1>5. CASE RollbackLockTransients(b)
    BY <1>5 DEF RollbackLockTransients
  <1>6. CASE RollbackLockIndex(b)
    BY <1>6 DEF RollbackLockIndex
  <1>7. CASE RecordFiles(b)
    BY <1>7 DEF RecordFiles
  <1>8. CASE CommitFlush(b)
    BY <1>8 DEF CommitFlush
  <1>9. CASE UpdateStats(b)
    BY <1>9 DEF UpdateStats
  <1>10. CASE Activate(b)
    BY <1>10 DEF Activate
  <1>11. CASE Scan(b)
    BY <1>11 DEF Scan
  <1>12. CASE Loop(b)
    BY <1>12 DEF Loop
  <1>13. CASE SpawnTask(b)
    BY <1>13 DEF SpawnTask, TaskGoto, Tasks
  <1>14. CASE Collect(b)
    BY <1>14 DEF Collect
  <1>15. CASE CheckAborted(b)
    BY <1>15 DEF CheckAborted
  <1>16. CASE RollbackObject(b)
    BY <1>16 DEF RollbackObject
  <1>17. CASE RollbackUnlock(b)
    BY <1>17 DEF RollbackUnlock
  <1>18. CASE RollbackClear(b)
    BY <1>18 DEF RollbackClear
  <1>19. CASE RollbackIdle(b)
    BY <1>19 DEF RollbackIdle
  <1>20. CASE WriteManifest(b)
    BY <1>20 DEF WriteManifest
  <1>21. CASE CommitClear(b)
    BY <1>21 DEF CommitClear
  <1>22. CASE PushCache(b)
    BY <1>22 DEF PushCache
  <1>23. CASE SetIdle(b)
    BY <1>23 DEF SetIdle
  <1>24. CASE SignManifest(b)
    BY <1>24 DEF SignManifest
  <1>25. CASE SignManifestFails(b)
    BY <1>25 DEF SignManifestFails
  <1> QED
    BY <1>1, <1>2, <1>3, <1>4, <1>5, <1>6, <1>7, <1>8, <1>9, <1>10, <1>11, <1>12,
        <1>13, <1>14, <1>15, <1>16, <1>17, <1>18, <1>19, <1>20, <1>21, <1>22,
        <1>23, <1>24, <1>25 DEF CallLocks, CallMoves

\* A file task takes its three locks when they are free, and gives back only those.
LEMMA TaskLocked ==
  ASSUME TypeOK, LocksHeld, NEW t \in Tasks,
         TaskLocks(t) \/ TaskMoves(t) \/ OpenFails(t) \/ WriteChunkFails(t) \/ ReadFails(t)
  PROVE  LocksHeld'
  <1> USE NamesDistinct DEF TypeOK, LocksHeld, TaskGoto, Unlock3,
                            callVars, taskVars, lockVars
  <1>1. CASE LockIndex(t)
    BY <1>1 DEF LockIndex
  <1>2. CASE LockStore(t)
    BY <1>2 DEF LockStore
  <1>3. CASE LockTransients(t)
    BY <1>3 DEF LockTransients
  <1>4. CASE DedupChunk(t)
    BY <1>4 DEF DedupChunk
  <1>5. CASE WriteChunk(t)
    BY <1>5 DEF WriteChunk
  <1>6. CASE IndexChunk(t)
    BY <1>6 DEF IndexChunk
  <1>7. CASE FinishFile(t)
    BY <1>7 DEF FinishFile
  <1>8. CASE OpenFails(t)
    BY <1>8 DEF OpenFails
  <1>9. CASE WriteChunkFails(t)
    BY <1>9 DEF WriteChunkFails
  <1>10. CASE ReadFails(t)
    BY <1>10 DEF ReadFails
  <1> QED
    BY <1>1, <1>2, <1>3, <1>4, <1>5, <1>6, <1>7, <1>8, <1>9, <1>10 DEF TaskLocks,
        TaskMoves

\* The three locks exclude each other's users in every behaviour.
THEOREM MutualExclusion == Spec => []LocksHeld
  <1>1. Init => LocksHeld
    BY DEF Init, LocksHeld
  <1>2. TypeOK /\ LocksHeld /\ [Next]_vars => LocksHeld'
    <2> SUFFICES ASSUME TypeOK, LocksHeld, [Next]_vars
                 PROVE  LocksHeld'
      OBVIOUS
    <2>1. CASE Cancel
      BY <2>1 DEF Cancel, LocksHeld, callVars, taskVars, lockVars
    <2>2. CASE CrashRestart
      BY <2>2 DEF CrashRestart, TypeOK, LocksHeld, InFlight, Returned
    <2>3. CASE UNCHANGED vars
      BY <2>3 DEF LocksHeld, vars, callVars, taskVars, lockVars
    <2> QED
      BY <2>1, <2>2, <2>3, CallLocked, TaskLocked DEF Next, Terminating
  <1> QED
    BY <1>1, <1>2, TypeCorrect, PTL DEF Spec

-----------------------------------------------------------------------------
(* Acknowledged snapshots survive *)

Listed == {"idle", "stats", "ok"}
Recorded == {"flush", "clear", "push"} \cup Listed
Manifested == {"sign", "files"} \cup Recorded
Settled == {"check", "manifest"} \cup Manifested

FilesRecorded(b) == snapFiles[b] = {f \in Files : tpc[<<b, f>>] = "ok"}

\* What is known of a call in each phase: no task runs once the handles are
\* collected, the manifest is there from "sign" on, the file list from "flush"
\* on, the cache entry from "idle" on, and none of them is there twice.
AckInv ==
    /\ NoRepeats(cache) /\ NoRepeats(manifests)
    /\ \A b \in Backups :
        /\ Occurs(b, manifests) => pc[b] \in Manifested \cup {"lost", "error"}
        /\ Occurs(b, cache) => pc[b] \in Listed \cup {"lost", "error"}
        /\ pc[b] \in Manifested => Occurs(b, manifests)
        /\ pc[b] \in Listed => Occurs(b, cache)
        /\ pc[b] \in Recorded => FilesRecorded(b)
        /\ pc[b] \in Settled => Running(b) = {}

\* Appending an id that is not there yet.
LEMMA AppendOccurs ==
  ASSUME NEW ids \in Seq(Backups), NEW b \in Backups
  PROVE  /\ \A a \in Backups : Occurs(a, Append(ids, b)) <=> Occurs(a, ids) \/ a = b
         /\ NoRepeats(ids) /\ ~Occurs(b, ids) => NoRepeats(Append(ids, b))
  <1>1. /\ Len(Append(ids, b)) = Len(ids) + 1
        /\ Append(ids, b)[Len(ids) + 1] = b
        /\ \A i \in 1..Len(ids) : Append(ids, b)[i] = ids[i]
        /\ DOMAIN ids = 1..Len(ids) /\ Len(ids) \in Nat
        /\ DOMAIN Append(ids, b) = 1..(Len(ids) + 1)
    OBVIOUS
  <1>2. ASSUME NEW a \in Backups
        PROVE  Occurs(a, Append(ids, b)) <=> Occurs(a, ids) \/ a = b
    BY <1>1 DEF Occurs
  <1>3. ASSUME NoRepeats(ids), ~Occurs(b, ids)
        PROVE  NoRepeats(Append(ids, b))
    BY <1>1, <1>3 DEF Occurs, NoRepeats
  <1> QED
    BY <1>2, <1>3

\* A step of a call moves it to the next phase with what AckInv asks of that.
LEMMA CallAck ==
  ASSUME TypeOK, AckInv, NEW b \in Backups,
         Start(b) \/ CallLocks(b) \/ CallMoves(b) \/ ScanFails(b)
                  \/ WriteManifestFails(b) \/ SignManifestFails(b)
  PROVE  AckInv'
  <1> USE DEF TypeOK, AckInv, Goto, Listed, Recorded, Manifested, Settled, Running,
              FilesRecorded, callVars, taskVars, diskVars, indexVars
  <1>1. CASE Start(b)
    BY <1>1 DEF Start
  <1>2. CASE ScanFails(b)
    BY <1>2 DEF ScanFails
  <1>3. CASE WriteManifestFails(b)
    BY <1>3 DEF WriteManifestFails
  <1>4. CASE Begin(b)
    BY <1>4 DEF Begin
  <1>5. CASE RollbackLockTransients(b)
    BY <1>5 DEF RollbackLockTransients
  <1>6. CASE RollbackLockIndex(b)
    BY <1>6 DEF RollbackLockIndex
  <1>7. CASE RecordFiles(b)
    BY <1>7 DEF RecordFiles, InsertSnapshotFiles
  <1>8. CASE CommitFlush(b)
    BY <1>8 DEF CommitFlush
  <1>9. CASE UpdateStats(b)
    BY <1>9 DEF UpdateStats
  <1>10. CASE Activate(b)
    BY <1>10 DEF Activate
  <1>11. CASE Scan(b)
    BY <1>11 DEF Scan
  <1>12. CASE Loop(b)
    BY <1>12 DEF Loop
  <1>13. CASE SpawnTask(b)
    BY <1>13 DEF SpawnTask, TaskGoto, Tasks
  <1>14. CASE Collect(b)
    BY <1>14 DEF Collect
  <1>15. CASE CheckAborted(b)
    BY <1>15 DEF CheckAborted
  <1>16. CASE RollbackObject(b)
    BY <1>16 DEF RollbackObject
  <1>17. CASE RollbackUnlock(b)
    BY <1>17 DEF RollbackUnlock
  <1>18. CASE RollbackClear(b)
    BY <1>18 DEF RollbackClear
  <1>19. CASE RollbackIdle(b)
    BY <1>19 DEF RollbackIdle
  <1>20. CASE WriteManifest(b)
    <2>1. manifests' = Append(manifests, b) /\ cache' = cache
      BY <1>20 DEF WriteManifest
    <2>2. ~Occurs(b, manifests)
      BY <1>20 DEF WriteManifest
    <2>3. /\ NoRepeats(manifests')
          /\ \A a \in Backups : Occurs(a, manifests') <=> Occurs(a, manifests) \/ a = b
      BY <2>1, <2>2, AppendOccurs
    <2> QED
      BY <1>20, <2>1, <2>3 DEF WriteManifest

  <1>21. CASE CommitClear(b)
    BY <1>21 DEF CommitClear
  <1>22. CASE PushCache(b)
    <2>1. cache' = Append(cache, b) /\ manifests' = manifests
      BY <1>22 DEF PushCache
    <2>2. ~Occurs(b, cache)
      BY <1>22 DEF PushCache
    <2>3. /\ NoRepeats(cache')
          /\ \A a \in Backups : Occurs(a, cache') <=> Occurs(a, cache) \/ a = b
      BY <2>1, <2>2, AppendOccurs
    <2> QED
      BY <1>22, <2>1, <2>3 DEF PushCache

  <1>23. CASE SetIdle(b)
    BY <1>23 DEF SetIdle
  <1>24. CASE SignManifest(b)
    BY <1>24 DEF SignManifest
  <1>25. CASE SignManifestFails(b)
    BY <1>25 DEF SignManifestFails
  <1> QED
    BY <1>1, <1>2, <1>3, <1>4, <1>5, <1>6, <1>7, <1>8, <1>9, <1>10, <1>11, <1>12,
        <1>13, <1>14, <1>15, <1>16, <1>17, <1>18, <1>19, <1>20, <1>21, <1>22,
        <1>23, <1>24, <1>25 DEF CallLocks, CallMoves

\* A file task runs only for a call that is not settled yet, and leaves manifests,
\* file lists and cache alone.
LEMMA TaskAck ==
  ASSUME TypeOK, AckInv, NEW t \in Tasks,
         TaskLocks(t) \/ TaskMoves(t) \/ OpenFails(t) \/ WriteChunkFails(t) \/ ReadFails(t)
  PROVE  AckInv'
  <1> DEFINE b == t[1]
  <1>1. b \in Backups /\ t[2] \in Files /\ t = <<b, t[2]>>
    BY DEF Tasks
  <1>2. tpc[t] \notin {"none", "ok", "skipped"}
    BY DEF TaskLocks, TaskMoves, LockIndex, LockStore, LockTransients, DedupChunk,
        WriteChunk, IndexChunk, FinishFile, OpenFails, WriteChunkFails, ReadFails
  <1>3. pc[b] \notin Settled
    <2>1. t[2] \in Running(b)
      BY <1>1, <1>2 DEF Running
    <2> QED
      BY <1>1, <2>1 DEF AckInv
  <1>4. UNCHANGED <<pc, cache, manifests, snapFiles>>
    BY DEF TaskLocks, TaskMoves, callVars, indexVars, diskVars, LockIndex, LockStore,
        LockTransients, DedupChunk, WriteChunk, IndexChunk, FinishFile, OpenFails,
        WriteChunkFails, ReadFails
  <1>5. \A u \in Tasks \ {t} : tpc'[u] = tpc[u]
    BY DEF TaskLocks, TaskMoves, TaskGoto, TypeOK, LockIndex, LockStore,
        LockTransients, DedupChunk, WriteChunk, IndexChunk, FinishFile, OpenFails,
        WriteChunkFails, ReadFails
  <1>6. \A a \in Backups : pc[a] \in Settled => \A f \in Files : tpc'[<<a,
      f>>] = tpc[<<a, f>>]
    BY <1>1, <1>3, <1>5 DEF Tasks
  <1>7. \A a \in Backups : pc[a] \in Settled => Running(a)' = Running(a)
                                             /\ (FilesRecorded(a) => FilesRecorded(a)')
    BY <1>4, <1>6 DEF Running, FilesRecorded
  <1> QED
    BY <1>4, <1>7 DEF AckInv, Settled, Manifested, Recorded, Listed, Occurs, NoRepeats

\* What AckInv says of the calls holds throughout.
LEMMA AckInvariant == Spec => []AckInv
  <1>1. Init => AckInv
    BY DEF Init, AckInv, Occurs, NoRepeats, Listed, Recorded, Manifested, Settled
  <1>2. TypeOK /\ AckInv /\ [Next]_vars => AckInv'
    <2> SUFFICES ASSUME TypeOK, AckInv, [Next]_vars
                 PROVE  AckInv'
      OBVIOUS
    <2>1. CASE Cancel
      BY <2>1 DEF Cancel, AckInv, Occurs, NoRepeats, FilesRecorded, Running,
                  callVars, taskVars, diskVars
    <2>2. CASE CrashRestart
      <3>1. cache' = manifests /\ UNCHANGED <<manifests, snapFiles>>
        BY <2>2 DEF CrashRestart, indexVars
      <3>2. \A b \in Backups : pc'[b] = IF InFlight(b) THEN "lost" ELSE pc[b]
        BY <2>2 DEF CrashRestart
      <3>3. \A b \in Backups : Running(b)' = {}
        BY <2>2 DEF CrashRestart, Running, Tasks
      <3>4. \A b \in Backups : FilesRecorded(b) => FilesRecorded(b)'
        BY <2>2, <3>1 DEF CrashRestart, FilesRecorded, Tasks
      <3> QED
        BY <3>1, <3>2, <3>3, <3>4
           DEF AckInv, InFlight, Returned, Occurs, NoRepeats, Settled, Manifested,
               Recorded, Listed
    <2>3. CASE UNCHANGED vars
      BY <2>3 DEF AckInv, Occurs, NoRepeats, FilesRecorded, Running, vars,
                  callVars, taskVars, diskVars
    <2> QED
      BY <2>1, <2>2, <2>3, CallAck, TaskAck DEF Next, Terminating
  <1> QED
    BY <1>1, <1>2, TypeCorrect, PTL DEF Spec

\* A snapshot reported as done is never lost, listed twice or listed without its
\* files, by whatever else happens in this specification.
THEOREM AcknowledgedDurable == Spec => []AcknowledgedSurvives
  <1>1. AckInv => AcknowledgedSurvives
    BY DEF AckInv, AcknowledgedSurvives, Listed, Manifested, Recorded, FilesRecorded
  <1> QED
    BY <1>1, AckInvariant, PTL

-----------------------------------------------------------------------------
(* Refinement *)

\* What each call has been answered, as the log sees it.
Outcomes == [b \in Backups |-> Outcome(b)]

\* A step of a call records its snapshot, answers it, or changes nothing that a
\* client can see.
LEMMA CallRefines ==
  ASSUME TypeOK, AckInv, NEW b \in Backups,
         Start(b) \/ CallLocks(b) \/ CallMoves(b) \/ ScanFails(b)
                  \/ WriteManifestFails(b) \/ SignManifestFails(b)
  PROVE  Log!LogNext \/ UNCHANGED <<manifests, Outcomes>>
  <1> USE DEF Goto, callVars, indexVars, diskVars
  <1>1. Occurs(b, manifests) <=> Log!InLog(b)
    BY DEF Occurs, Log!InLog
  <1>2. CASE WriteManifest(b)
    <2>1. ~Log!InLog(b)
      BY <1>1, <1>2 DEF WriteManifest, AckInv, Manifested, Recorded, Listed
    <2>2. Outcomes' = Outcomes /\ Outcomes[b] = "pending"
      BY <1>2 DEF WriteManifest, Outcomes, Outcome, TypeOK
    <2>3. manifests' = Append(manifests, b)
      BY <1>2 DEF WriteManifest
    <2> QED
      BY <2>1, <2>2, <2>3 DEF Log!LogNext, Log!Record, Outcomes
  <1>3. CASE UpdateStats(b)
    <2>1. Log!InLog(b)
      BY <1>1, <1>3 DEF UpdateStats, AckInv, Manifested, Recorded, Listed
    <2>2. Outcomes[b] = "pending" /\ Outcomes' = [Outcomes EXCEPT ![b] = "ok"]
      BY <1>3 DEF UpdateStats, Outcomes, Outcome, TypeOK
    <2>3. manifests' = manifests
      BY <1>3 DEF UpdateStats
    <2> QED
      BY <2>1, <2>2, <2>3 DEF Log!LogNext, Log!Acknowledge, Outcomes
  <1>4. ASSUME (SetIdle(b) /\ pc[b] = "emptyIdle") \/ RollbackIdle(b)
        PROVE  Log!LogNext
    <2>1. ~Log!InLog(b)
      BY <1>1, <1>4 DEF SetIdle, RollbackIdle, AckInv, Manifested, Recorded, Listed
    <2>2. Outcomes[b] = "pending" /\ Outcomes' = [Outcomes EXCEPT ![b] = "rejected"]
      BY <1>4 DEF SetIdle, RollbackIdle, Outcomes, Outcome, TypeOK
    <2>3. manifests' = manifests
      BY <1>4 DEF SetIdle, RollbackIdle
    <2> QED
      BY <2>1, <2>2, <2>3 DEF Log!LogNext, Log!Reject, Outcomes
  <1>6. ASSUME ScanFails(b) \/ WriteManifestFails(b) \/ SignManifestFails(b)
        PROVE  Log!LogNext
    <2>1. Outcomes[b] = "pending" /\ Outcomes' = [Outcomes EXCEPT ![b] = "failed"]
      BY <1>6 DEF ScanFails, WriteManifestFails, SignManifestFails, Outcomes, Outcome, TypeOK
    <2>2. manifests' = manifests
      BY <1>6 DEF ScanFails, WriteManifestFails, SignManifestFails
    <2> QED
      BY <2>1, <2>2 DEF Log!LogNext, Log!Fail, Outcomes
  <1>5. ASSUME \/ SetIdle(b) /\ pc[b] # "emptyIdle"
               \/ Start(b) \/ Begin(b) \/ RollbackLockTransients(b)
               \/ RollbackLockIndex(b) \/ RecordFiles(b) \/ CommitFlush(b)
               \/ Activate(b) \/ Scan(b) \/ Loop(b) \/ SpawnTask(b) \/ Collect(b)
               \/ CheckAborted(b) \/ RollbackObject(b) \/ RollbackUnlock(b)
               \/ RollbackClear(b) \/ SignManifest(b) \/ CommitClear(b) \/ PushCache(b)
        PROVE  UNCHANGED <<manifests, Outcomes>>
    BY <1>5 DEF SetIdle, Outcomes, Outcome, TypeOK, Phases,
                Start, Begin, RollbackLockTransients, RollbackLockIndex, RecordFiles,
                    CommitFlush, Activate, Scan, Loop, SpawnTask, Collect,
                    CheckAborted, RollbackObject, RollbackUnlock, RollbackClear,
                    SignManifest, CommitClear, PushCache
  <1> QED
    BY <1>2, <1>3, <1>4, <1>5, <1>6 DEF CallLocks, CallMoves

\* The calls of run_backup, over the log of their manifests, implement
\* SnapshotLog: every step records one snapshot, answers one call, loses
\* unanswered calls in a crash, or changes nothing a client can see.
THEOREM Refinement == Spec => ImplementsSnapshotLog
  <1>1. Init => Log!LogInit
    BY DEF Init, Log!LogInit, Outcome
  <1>2. TypeOK /\ AckInv /\ [Next]_vars => [Log!LogNext]_(Log!logVars)
    <2> SUFFICES ASSUME TypeOK, AckInv, [Next]_vars
                 PROVE  Log!LogNext \/ UNCHANGED <<manifests, Outcomes>>
      BY DEF Log!logVars, Outcomes
    <2>1. CASE CrashRestart
      <3>1. manifests' = manifests
        BY <2>1 DEF CrashRestart, diskVars
      <3> DEFINE S == {b \in Backups : InFlight(b)}
      <3>2. \A b \in Backups : pc'[b] = IF InFlight(b) THEN "lost" ELSE pc[b]
        BY <2>1 DEF CrashRestart
      <3>3. \A b \in Backups : Outcomes'[b] = IF b \in S THEN "lost" ELSE Outcomes[b]
        BY <3>2 DEF Outcomes, Outcome, InFlight, Returned
      <3>4. \A b \in S : Outcomes[b] = "pending"
        BY <3>2 DEF Outcomes, Outcome, InFlight, Returned
      <3>5. Outcomes' = [b \in Backups |-> IF b \in S THEN "lost" ELSE Outcomes[b]]
        BY <3>3 DEF Outcomes
      <3>6. S \in SUBSET {b \in Backups : Outcomes[b] = "pending"}
        BY <3>4
      <3> HIDE DEF S
      <3> QED
        BY <3>1, <3>5, <3>6 DEF Log!LogNext, Log!Lose, Outcomes
    <2>2. CASE Cancel \/ UNCHANGED vars
      BY <2>2 DEF Cancel, vars, callVars, diskVars, Outcomes, Outcome
    <2>3. ASSUME NEW t \in Tasks,
                 TaskLocks(t) \/ TaskMoves(t) \/ OpenFails(t) \/ WriteChunkFails(t) \/ ReadFails(t)
          PROVE  UNCHANGED <<manifests, Outcomes>>
      BY <2>3 DEF TaskLocks, TaskMoves, callVars, indexVars, diskVars, Outcomes,
          Outcome, LockIndex, LockStore, LockTransients, DedupChunk, WriteChunk,
          IndexChunk, FinishFile, OpenFails, WriteChunkFails, ReadFails
    <2> QED
      BY <2>1, <2>2, <2>3, CallRefines DEF Next, Terminating
  <1> QED
    BY <1>1, <1>2, AckInvariant, TypeCorrect, PTL DEF Spec, ImplementsSnapshotLog,
        Log!LogSpec

-----------------------------------------------------------------------------
(* The status is idle when nothing runs *)

\* The status names a call that is in flight and has not set it to idle, or that ended in
\* an I/O error.
BusyInv == sys # None => \/ InFlight(sys) /\ pc[sys] # "stats"
                         \/ pc[sys] = "error"

\* Only a call sets the status, and the one that started last is in flight until it, or
\* another one, sets it to idle again (set_state in run_backup and rollback): when none is
\* in flight and none ended in an I/O error, the status the mod polls is idle.
THEOREM IdleStatus == Spec => []IdleWhenQuiet
  <1>1. Init => BusyInv
    BY DEF Init, BusyInv
  <1>2. TypeOK /\ BusyInv /\ [Next]_vars => BusyInv'
    <2> SUFFICES ASSUME TypeOK, BusyInv, [Next]_vars
                 PROVE  BusyInv'
      OBVIOUS
    <2> USE DEF TypeOK, BusyInv, InFlight, Returned, Goto, callVars
    <2>1. CASE Cancel
      BY <2>1 DEF Cancel
    <2>2. CASE CrashRestart
      BY <2>2 DEF CrashRestart
    <2>3. CASE UNCHANGED vars
      BY <2>3 DEF vars
    <2>4. ASSUME NEW b \in Backups,
                 Start(b) \/ CallLocks(b) \/ ScanFails(b)
                  \/ WriteManifestFails(b) \/ SignManifestFails(b)
          PROVE  BusyInv'
      BY <2>4 DEF CallLocks, Start, ScanFails, WriteManifestFails, SignManifestFails, Begin,
          RollbackLockTransients, RollbackLockIndex, RecordFiles, CommitFlush,
          UpdateStats
    <2>5. ASSUME NEW b \in Backups, CallMoves(b)
          PROVE  BusyInv'
      BY <2>5 DEF CallMoves, Activate, Scan, Loop, SpawnTask, Collect, CheckAborted,
          RollbackObject, RollbackUnlock, RollbackClear, RollbackIdle, WriteManifest, SignManifest,
          CommitClear, PushCache, SetIdle
    <2>6. ASSUME NEW t \in Tasks,
                 TaskLocks(t) \/ TaskMoves(t) \/ OpenFails(t) \/ WriteChunkFails(t) \/ ReadFails(t)
          PROVE  BusyInv'
      BY <2>6 DEF TaskLocks, TaskMoves, LockIndex, LockStore, LockTransients,
          DedupChunk, WriteChunk, IndexChunk, FinishFile, OpenFails, WriteChunkFails,
          ReadFails
    <2> QED
      BY <2>1, <2>2, <2>3, <2>4, <2>5, <2>6 DEF Next, Terminating
  <1>3. TypeOK /\ BusyInv => IdleWhenQuiet
    BY DEF TypeOK, BusyInv, IdleWhenQuiet
  <1> QED
    BY <1>1, <1>2, <1>3, TypeCorrect, PTL DEF Spec

-----------------------------------------------------------------------------
(* Calls side by side, and cancels *)

\* Of two calls in flight, each runs beside another.
SharedInv ==
    \A a, b \in Backups : InFlight(a) /\ InFlight(b) /\ a # b => {a, b} \subseteq shared

\* Only a call that starts beside others changes what ran beside what.
LEMMA SharedGrows ==
  ASSUME [Next]_vars
  PROVE  shared \subseteq shared' /\ ((\A b \in Backups : ~Start(b)) => UNCHANGED shared)
  <1> USE DEF history
  <1>1. ASSUME NEW b \in Backups, CallLocks(b) \/ ScanFails(b)
                  \/ WriteManifestFails(b) \/ SignManifestFails(b)
        PROVE  UNCHANGED shared
    BY <1>1 DEF CallLocks, ScanFails, WriteManifestFails, SignManifestFails, Begin,
        RollbackLockTransients, RollbackLockIndex, RecordFiles, CommitFlush, UpdateStats
  <1>2. ASSUME NEW b \in Backups, CallMoves(b) PROVE UNCHANGED shared
    BY <1>2 DEF CallMoves, Activate, Scan, Loop, SpawnTask, Collect, CheckAborted,
        RollbackObject, RollbackUnlock, RollbackClear, RollbackIdle, WriteManifest, SignManifest,
        CommitClear, PushCache, SetIdle
  <1>3. ASSUME NEW t \in Tasks,
               TaskLocks(t) \/ TaskMoves(t) \/ OpenFails(t) \/ WriteChunkFails(t) \/ ReadFails(t)
        PROVE  UNCHANGED shared
    BY <1>3 DEF TaskLocks, TaskMoves, LockIndex, LockStore, LockTransients,
        DedupChunk, WriteChunk, IndexChunk, FinishFile, OpenFails, WriteChunkFails,
        ReadFails
  <1>4. Cancel \/ CrashRestart \/ UNCHANGED vars => UNCHANGED shared
    BY DEF Cancel, CrashRestart, vars
  <1>5. ASSUME NEW b \in Backups, Start(b) PROVE shared \subseteq shared'
    BY <1>5 DEF Start
  <1> QED
    BY <1>1, <1>2, <1>3, <1>4, <1>5 DEF Next, Terminating

\* A call runs beside those that are in flight when it starts.
LEMMA SharedInvariant == Spec => []SharedInv
  <1>1. Init => SharedInv
    BY DEF Init, SharedInv, InFlight
  <1>2. TypeOK /\ SharedInv /\ [Next]_vars => SharedInv'
    <2> SUFFICES ASSUME TypeOK, SharedInv, [Next]_vars
                 PROVE  SharedInv'
      OBVIOUS
    <2>1. ASSUME NEW b \in Backups, Start(b) PROVE SharedInv'
      <3>1. pc' = [pc EXCEPT ![b] = "begin"] /\ pc \in [Backups -> Phases]
        BY <2>1 DEF Start, Goto, TypeOK
      <3>2. \A a \in Backups \ {b} : InFlight(a)' <=> InFlight(a)
        BY <3>1 DEF InFlight
      <3>3. ASSUME NEW a \in Backups \ {b}, InFlight(a) PROVE {a, b} \subseteq shared'
        BY <2>1, <3>3 DEF Start, Others
      <3>4. shared \subseteq shared'
        BY SharedGrows
      <3> QED
        BY <3>2, <3>3, <3>4 DEF SharedInv
    <2>2. ASSUME \A b \in Backups : InFlight(b)' => InFlight(b) PROVE SharedInv'
      BY <2>2, SharedGrows DEF SharedInv
    <2> USE DEF TypeOK, InFlight, Returned, Goto, callVars
    <2>3. CASE Cancel
      BY <2>2, <2>3 DEF Cancel
    <2>4. CASE CrashRestart
      BY <2>2, <2>4 DEF CrashRestart
    <2>5. CASE UNCHANGED vars
      BY <2>2, <2>5 DEF vars
    <2>6. ASSUME NEW b \in Backups, CallLocks(b) \/ ScanFails(b)
                  \/ WriteManifestFails(b) \/ SignManifestFails(b)
          PROVE  SharedInv'
      <3>1. \A a \in Backups : InFlight(a)' => InFlight(a)
        BY <2>6 DEF CallLocks, ScanFails, WriteManifestFails, SignManifestFails, Begin,
            RollbackLockTransients, RollbackLockIndex, RecordFiles, CommitFlush,
            UpdateStats
      <3> QED
        BY <2>2, <3>1
    <2>7. ASSUME NEW b \in Backups, CallMoves(b)
          PROVE  SharedInv'
      <3>1. \A a \in Backups : InFlight(a)' => InFlight(a)
        BY <2>7 DEF CallMoves, Activate, Scan, Loop, SpawnTask, Collect, CheckAborted,
            RollbackObject, RollbackUnlock, RollbackClear, RollbackIdle, WriteManifest, SignManifest,
            CommitClear, PushCache, SetIdle
      <3> QED
        BY <2>2, <3>1
    <2>8. ASSUME NEW t \in Tasks,
                 TaskLocks(t) \/ TaskMoves(t) \/ OpenFails(t) \/ WriteChunkFails(t) \/ ReadFails(t)
          PROVE  SharedInv'
      <3>1. UNCHANGED pc
        BY <2>8 DEF TaskLocks, TaskMoves, LockIndex, LockStore, LockTransients,
            DedupChunk, WriteChunk, IndexChunk, FinishFile, OpenFails, WriteChunkFails,
            ReadFails
      <3> QED
        BY <2>2, <3>1
    <2> QED
      BY <2>1, <2>3, <2>4, <2>5, <2>6, <2>7, <2>8 DEF Next, Terminating
  <1> QED
    BY <1>1, <1>2, TypeCorrect, PTL DEF Spec

Preparing == {"ready", "begin", "activate"}
RollingBack == {"rollback", "rbIndex", "rbLoop", "rbClear", "rbIdle"}

\* A call that finds a mark at its transaction was in flight when the mark was made.
Reached(b) ==
    /\ InFlight(b) /\ pc[b] \notin Preparing /\ Aborted => b \in cancelled
    /\ pc[b] \in RollingBack \cup {"aborted"} => b \in cancelled

\* A call that runs alone keeps the mark of an early cancel until it looks at it.
Stopped(b) ==
    b \in early \ shared =>
        /\ pc[b] \notin Preparing \cup {"manifest"} /\ ~Occurs(b, manifests)
        /\ pc[b] \in Unchecked => Aborted

CancelInv == \A b \in Backups : Reached(b) /\ Stopped(b)

\* No transaction is active, or one is.
LEMMA NoneNotTransaction == \A b \in Backups, a \in BOOLEAN : [tx |-> b, aborted |-> a] # None
  BY NamesAssumption

\* Only a begin takes a mark away, and no early cancel reaches a call that began alone.
LEMMA CancelInvStep ==
  ASSUME TypeOK, SharedInv, AckInv, CancelInv, [Next]_vars
  PROVE  CancelInv'
  <1> USE DEF TypeOK, InFlight, Returned, Goto, callVars, Preparing, RollingBack, Unchecked
  <1>1. CASE Cancel
    <2>1. /\ UNCHANGED <<pc, manifests, shared>>
          /\ active # None /\ active' = [active EXCEPT !.aborted = TRUE]
          /\ cancelled' = cancelled \cup {b \in Backups : InFlight(b)}
          /\ early' = early \cup {b \in Backups : pc[b] \in Unchecked}
      BY <1>1 DEF Cancel, diskVars
    <2>2. Aborted'
      <3>1. PICK b \in Backups, a \in BOOLEAN : active = [tx |-> b, aborted |-> a]
        BY <2>1
      <3>2. active' = [tx |-> b, aborted |-> TRUE]
        BY <2>1, <3>1
      <3> QED
        BY <3>2, NoneNotTransaction DEF Aborted
    <2>3. ASSUME NEW b \in Backups, pc[b] \in Unchecked PROVE ~Occurs(b, manifests)
      BY <2>3 DEF AckInv, Manifested, Recorded, Listed
    <2>4. ASSUME NEW b \in Backups PROVE Reached(b)'
      BY <2>1 DEF CancelInv, Reached
    <2>5. ASSUME NEW b \in Backups PROVE Stopped(b)'
      BY <2>1, <2>2, <2>3 DEF CancelInv, Stopped, Occurs
    <2> QED
      BY <2>4, <2>5 DEF CancelInv
  <1>2. CASE CrashRestart
    BY <1>2 DEF CrashRestart, CancelInv, Reached, Stopped, Aborted, Occurs, history
  <1>3. CASE UNCHANGED vars
    BY <1>3 DEF vars, CancelInv, Reached, Stopped, Aborted, diskVars, Occurs, history
  <1>4. ASSUME NEW b \in Backups,
               Start(b) \/ CallLocks(b) \/ ScanFails(b)
                  \/ WriteManifestFails(b) \/ SignManifestFails(b)
        PROVE  CancelInv'
    <2>1. UNCHANGED <<active, cancelled, early, manifests>> /\ shared \subseteq shared'
      BY <1>4, SharedGrows
         DEF diskVars, history, CallLocks, Start, ScanFails, WriteManifestFails, SignManifestFails, Begin,
          RollbackLockTransients, RollbackLockIndex, RecordFiles, CommitFlush, UpdateStats
    <2>2. \A a \in Backups : a # b => pc'[a] = pc[a]
      BY <1>4 DEF CallLocks, Start, ScanFails, WriteManifestFails, SignManifestFails, Begin,
          RollbackLockTransients, RollbackLockIndex, RecordFiles, CommitFlush, UpdateStats
    <2>3. /\ pc'[b] \in Preparing <=> pc[b] \in Preparing
          /\ InFlight(b)' /\ pc[b] \notin Preparing => InFlight(b)
          /\ pc'[b] \notin Unchecked \cup {"manifest"}
          /\ pc'[b] \in RollingBack \cup {"aborted"} => pc[b] \in RollingBack
      BY <1>4 DEF CallLocks, Start, ScanFails, WriteManifestFails, SignManifestFails, Begin,
          RollbackLockTransients, RollbackLockIndex, RecordFiles, CommitFlush, UpdateStats
    <2>4. \A a \in Backups : a # b => Reached(a)' /\ Stopped(a)'
      BY <2>1, <2>2 DEF CancelInv, Reached, Stopped, Aborted, Occurs
    <2>5. Reached(b)' /\ Stopped(b)'
      BY <2>1, <2>3 DEF CancelInv, Reached, Stopped, Aborted, Occurs
    <2> QED
      BY <2>4, <2>5 DEF CancelInv
  <1>5. ASSUME NEW b \in Backups, CallMoves(b), ~WriteManifest(b), ~Activate(b)
        PROVE  CancelInv'
    <2>1. UNCHANGED <<active, shared, cancelled, early, manifests>>
      BY <1>5 DEF diskVars, history, CallMoves, Scan, Loop, SpawnTask, Collect, CheckAborted,
          RollbackObject, RollbackUnlock, RollbackClear, RollbackIdle, SignManifest, CommitClear,
          PushCache, SetIdle
    <2>2. \A a \in Backups : a # b => pc'[a] = pc[a]
      BY <1>5 DEF CallMoves, Scan, Loop, SpawnTask, Collect, CheckAborted,
          RollbackObject, RollbackUnlock, RollbackClear, RollbackIdle, SignManifest, CommitClear,
          PushCache, SetIdle
    <2>3. /\ InFlight(b) /\ pc[b] \notin Preparing /\ pc'[b] \notin Preparing
          /\ pc'[b] \in Unchecked => pc[b] \in Unchecked
          /\ pc'[b] \in RollingBack \cup {"aborted"} =>
                pc[b] \in RollingBack \/ (pc[b] = "check" /\ Aborted)
          /\ pc'[b] = "manifest" => pc[b] = "check" /\ ~Aborted
      BY <1>5 DEF CallMoves, Scan, Loop, SpawnTask, Collect, CheckAborted,
          RollbackObject, RollbackUnlock, RollbackClear, RollbackIdle, SignManifest, CommitClear,
          PushCache, SetIdle
    <2>4. \A a \in Backups : a # b => Reached(a)' /\ Stopped(a)'
      BY <2>1, <2>2 DEF CancelInv, Reached, Stopped, Aborted, Occurs
    <2>5. Reached(b)' /\ Stopped(b)'
      BY <2>1, <2>3 DEF CancelInv, Reached, Stopped, Aborted, Occurs
    <2> QED
      BY <2>4, <2>5 DEF CancelInv
  <1>6. ASSUME NEW b \in Backups, Activate(b)
        PROVE  CancelInv'
    <2>1. /\ UNCHANGED <<shared, cancelled, early, manifests>>
          /\ pc[b] = "activate" /\ pc'[b] = "scan" /\ \A a \in Backups : a # b => pc'[a] = pc[a]
          /\ active' = [tx |-> b, aborted |-> FALSE]
      BY <1>6 DEF Activate, diskVars, history
    <2>2. ~Aborted'
      BY <2>1, NoneNotTransaction DEF Aborted
    <2>3. ASSUME NEW a \in Backups, a \notin shared, a # b PROVE ~InFlight(a)
      BY <2>1, <2>3 DEF SharedInv
    <2>4. ASSUME NEW a \in Backups, a # b PROVE Reached(a)' /\ Stopped(a)'
      BY <2>1, <2>2, <2>3, <2>4 DEF CancelInv, Reached, Stopped, Occurs
    <2>5. Reached(b)' /\ Stopped(b)'
      BY <2>1, <2>2 DEF CancelInv, Reached, Stopped, Occurs
    <2> QED
      BY <2>4, <2>5 DEF CancelInv
  <1>7. ASSUME NEW b \in Backups, WriteManifest(b)
        PROVE  CancelInv'
    <2>1. \A a \in Backups : Occurs(a, manifests)' <=> Occurs(a, manifests) \/ a = b
      BY <1>7, AppendOccurs DEF WriteManifest
    <2>2. /\ UNCHANGED <<active, shared, cancelled, early>>
          /\ pc[b] = "manifest" /\ pc'[b] = "sign" /\ \A a \in Backups : a # b => pc'[a] = pc[a]
      BY <1>7 DEF WriteManifest, history
    <2>3. ASSUME NEW a \in Backups, a # b PROVE Reached(a)' /\ Stopped(a)'
      BY <2>1, <2>2, <2>3 DEF CancelInv, Reached, Stopped, Aborted
    <2>4. Reached(b)' /\ Stopped(b)'
      BY <2>1, <2>2 DEF CancelInv, Reached, Stopped, Aborted
    <2> QED
      BY <2>3, <2>4 DEF CancelInv
  <1>8. ASSUME NEW t \in Tasks,
               TaskLocks(t) \/ TaskMoves(t) \/ OpenFails(t) \/ WriteChunkFails(t) \/ ReadFails(t)
        PROVE  CancelInv'
    <2>1. UNCHANGED <<pc, active, shared, cancelled, early, manifests>>
      BY <1>8 DEF diskVars, history, TaskLocks, TaskMoves, LockIndex, LockStore, LockTransients,
          DedupChunk, WriteChunk, IndexChunk, FinishFile, OpenFails, WriteChunkFails,
          ReadFails
    <2> QED
      BY <2>1 DEF CancelInv, Reached, Stopped, Aborted, Occurs
  <1> QED
    BY <1>1, <1>2, <1>3, <1>4, <1>5, <1>6, <1>7, <1>8 DEF Next, Terminating

\* What has been said of the marks holds throughout.
LEMMA CancelInvariant == Spec => []CancelInv
  <1>1. Init => CancelInv
    BY DEF Init, CancelInv, Reached, Stopped, InFlight, Preparing, RollingBack
  <1> QED
    BY <1>1, CancelInvStep, SharedInvariant, TypeCorrect, AckInvariant, PTL DEF Spec

\* Only a call that was in flight at a cancel is aborted, however many run side by side:
\* a cancel that came too late for the others does not abort a later call, which replaces
\* the marked transaction by one of its own (begin).
THEOREM AbortsAreMeant == Spec => []OnlyCancelledAbort
  <1>1. CancelInv => OnlyCancelledAbort
    BY DEF CancelInv, Reached, OnlyCancelledAbort
  <1> QED
    BY <1>1, CancelInvariant, PTL

\* A cancel that reaches a call between the registration of its transaction and its last
\* look at it stops the call before it writes a manifest, unless another call ran beside
\* it, whose begin may have replaced the marked transaction.
THEOREM EarlyCancelStops == Spec => []EarlyCancelNeverCommits
  <1>1. TypeOK /\ CancelInv => EarlyCancelNeverCommits
    BY DEF TypeOK, CancelInv, Stopped, EarlyCancelNeverCommits, Occurs
  <1> QED
    BY <1>1, CancelInvariant, TypeCorrect, PTL

-----------------------------------------------------------------------------
(* References and what counts them *)

\* The phases in which the chunks that a call has read are not in a snapshot's list yet, and
\* have to be paid for when they are.
Gathering == {"loop", "acquire", "collect", "check", "rollback", "rbIndex", "manifest", "sign",
              "files"}

\* A task has read chunk c at place i of its file; the chunk just written is not counted yet.
HasRead(t, i, c) == i \in DOMAIN hashes[t] /\ hashes[t][i] = c
Counted(t, i) == tpc[t] = "index" => i # Len(hashes[t])

Listing(t, i, c) == HasRead(t, i, c) /\ t[2] \in snapFiles[t[1]]
Holding(t, i, c) == \/ Listing(t, i, c)
                    \/ HasRead(t, i, c) /\ Counted(t, i) /\ pc[t[1]] \in Gathering

Listings(c) == {x \in Tasks \X Nat : Listing(x[1], x[2], c)}
Held(c) == {x \in Tasks \X Nat : Holding(x[1], x[2], c)}

\* Each occurrence in a snapshot, or in a call that may still write one, has its reference.
Covered ==
    (used["object"] = 0 /\ RolledBackAlone) =>
        \A c \in Chunks : IsFiniteSet(Held(c)) /\ Cardinality(Held(c)) <= refs[c]

\* Tasks run, files are listed and chunks are read only in some of the phases of their call.
CountShape ==
    /\ \A t \in Tasks : tpc[t] \in {"open", "store", "trans", "chunk", "index"} =>
          pc[t[1]] \in {"loop", "acquire", "collect"}
    /\ \A b \in Backups : pc[b] \notin Recorded \cup {"lost"} => snapFiles[b] = {}
    /\ \A t \in Tasks : pc[t[1]] \in Preparing \cup {"scan"} =>
          hashes[t] = <<>> /\ tpc[t] = "none"
    /\ \A t \in Tasks : t[2] \in scanned[t[1]] => tpc[t] = "none"

\* The listed references are the property's.
LEMMA ListingsAreReferences ==
  ASSUME TypeOK, NEW c \in Chunks
  PROVE  References(c) = Listings(c) /\ Listings(c) \subseteq Held(c)
  <1>1. ASSUME NEW x \in References(c) PROVE x \in Listings(c)
    <2>1. PICK t \in Tasks : /\ t[2] \in snapFiles[t[1]]
                             /\ x \in {<<t, i>> : i \in {j \in DOMAIN hashes[t] : hashes[t][j] = c}}
      BY <1>1, Zenon DEF References
    <2>2. PICK i \in DOMAIN hashes[t] : hashes[t][i] = c /\ x = <<t, i>>
      BY <2>1, Zenon
    <2>3. i \in Nat
      BY <2>2 DEF TypeOK
    <2> QED
      BY <2>1, <2>2, <2>3 DEF Listings, Listing, HasRead
  <1>2. ASSUME NEW x \in Listings(c) PROVE x \in References(c)
    <2>1. PICK t \in Tasks, i \in Nat : x = <<t, i>> /\ Listing(t, i, c)
      BY <1>2 DEF Listings
    <2>2. x \in {<<t, j>> : j \in {j \in DOMAIN hashes[t] : hashes[t][j] = c}}
      BY <2>1, Zenon DEF Listing, HasRead
    <2>3. t \in {u \in Tasks : u[2] \in snapFiles[u[1]]}
      BY <2>1, Zenon DEF Listing
    <2> QED
      BY <2>2, <2>3, Zenon DEF References
  <1>3. Listings(c) \subseteq Held(c)
    BY DEF Listings, Held, Holding
  <1> QED
    BY <1>1, <1>2, <1>3, Zenon

\* The phases fit.
LEMMA CountShapeStep ==
  ASSUME TypeOK, AckInv, CountShape, [Next]_vars
  PROVE  CountShape'
  <1> USE DEF TypeOK, InFlight, Returned, Goto, TaskGoto, callVars, taskVars, indexVars, diskVars,
              Preparing, Recorded, Listed
  <1>1. CASE Cancel
    BY <1>1 DEF Cancel, CountShape
  <1>2. CASE CrashRestart
    BY <1>2 DEF CrashRestart, CountShape, Tasks
  <1>3. CASE UNCHANGED vars
    BY <1>3 DEF vars, CountShape
  <1>4. ASSUME NEW b \in Backups,
               Start(b) \/ CallLocks(b) \/ ScanFails(b)
                  \/ WriteManifestFails(b) \/ SignManifestFails(b), ~RecordFiles(b)
        PROVE  CountShape'
    <2>1. UNCHANGED <<tpc, hashes, snapFiles, scanned>> /\ \A a \in Backups : a # b => pc'[a] = pc[a]
      BY <1>4 DEF CallLocks, Start, ScanFails, WriteManifestFails, SignManifestFails, Begin,
          RollbackLockTransients, RollbackLockIndex, CommitFlush, UpdateStats
    <2>2. /\ pc[b] \notin {"loop", "acquire", "collect"}
          /\ pc[b] \in Recorded => pc'[b] \in Recorded
          /\ pc[b] # "lost"
          /\ pc'[b] \in Preparing \cup {"scan"} => pc[b] \in Preparing
      BY <1>4 DEF CallLocks, Start, ScanFails, WriteManifestFails, SignManifestFails, Begin,
          RollbackLockTransients, RollbackLockIndex, CommitFlush, UpdateStats
    <2>3. \A t \in Tasks : t[1] \in Backups
      BY DEF Tasks
    <2> QED
      BY <2>1, <2>2, <2>3 DEF CountShape
  <1>5. ASSUME NEW b \in Backups, RecordFiles(b)
        PROVE  CountShape'
    BY <1>5 DEF CountShape, Tasks, RecordFiles, InsertSnapshotFiles
  <1>6. ASSUME NEW b \in Backups, CallMoves(b), ~SpawnTask(b), ~Collect(b)
        PROVE  CountShape'
    <2>1. /\ UNCHANGED <<tpc, hashes, snapFiles>>
          /\ \A a \in Backups : a # b => pc'[a] = pc[a] /\ scanned'[a] = scanned[a]
          /\ scanned'[b] = scanned[b] \/ pc[b] = "scan"
      BY <1>6 DEF CallMoves, Activate, Scan, Loop, CheckAborted,
          RollbackObject, RollbackUnlock, RollbackClear, RollbackIdle, WriteManifest, SignManifest,
          CommitClear, PushCache, SetIdle
    <2>2. /\ pc[b] \notin {"acquire", "collect"}
          /\ pc[b] = "loop" => pc'[b] \in {"acquire", "collect"}
          /\ pc[b] \in Recorded => pc'[b] \in Recorded
          /\ pc[b] # "lost"
          /\ pc'[b] \in Preparing \cup {"scan"} => pc[b] \in Preparing
      BY <1>6 DEF CallMoves, Activate, Scan, Loop, CheckAborted,
          RollbackObject, RollbackUnlock, RollbackClear, RollbackIdle, WriteManifest, SignManifest,
          CommitClear, PushCache, SetIdle
    <2>3. \A t \in Tasks : t[1] \in Backups
      BY DEF Tasks
    <2>4. ASSUME NEW t \in Tasks, tpc'[t] \in {"open", "store", "trans", "chunk", "index"}
          PROVE  pc'[t[1]] \in {"loop", "acquire", "collect"}
      BY <2>1, <2>2, <2>3, <2>4 DEF CountShape
    <2>5. ASSUME NEW a \in Backups, pc'[a] \notin Recorded \cup {"lost"} PROVE snapFiles'[a] = {}
      BY <2>1, <2>2, <2>5 DEF CountShape
    <2>6. ASSUME NEW t \in Tasks, pc'[t[1]] \in Preparing \cup {"scan"}
          PROVE  hashes'[t] = <<>> /\ tpc'[t] = "none"
      BY <2>1, <2>2, <2>3, <2>6 DEF CountShape
    <2>7. ASSUME NEW t \in Tasks, t[2] \in scanned'[t[1]] PROVE tpc'[t] = "none"
      BY <2>1, <2>2, <2>3, <2>7 DEF CountShape
    <2> QED
      BY <2>4, <2>5, <2>6, <2>7 DEF CountShape
  <1>7. ASSUME NEW b \in Backups, SpawnTask(b)
        PROVE  CountShape'
    <2>1. PICK f \in scanned[b] : /\ scanned' = [scanned EXCEPT ![b] = @ \ {f}]
                                 /\ tpc' = [tpc EXCEPT ![<<b, f>>] = "open"]
      BY <1>7 DEF SpawnTask
    <2>2. /\ UNCHANGED <<hashes, snapFiles>> /\ \A a \in Backups : a # b => pc'[a] = pc[a]
          /\ pc[b] = "acquire" /\ pc'[b] = "loop"
      BY <1>7 DEF SpawnTask
    <2>3. \A t \in Tasks : t[1] \in Backups /\ (tpc'[t] = tpc[t] \/ t = <<b, f>>)
      BY <2>1 DEF Tasks
    <2>4. \A t \in Tasks : t[2] \in scanned'[t[1]] => t[2] \in scanned[t[1]] /\ t # <<b, f>>
      BY <2>1, <2>3
    <2>5. /\ \A t \in Tasks : t[1] # b => pc'[t[1]] = pc[t[1]] /\ tpc'[t] = tpc[t]
          /\ \A t \in Tasks : t[2] \in scanned'[t[1]] => tpc'[t] = tpc[t]
      BY <2>2, <2>3, <2>4
    <2> HIDE DEF Preparing, Recorded, TypeOK
    <2>6. {pc[b], pc'[b]} \cap (Preparing \cup Recorded \cup {"scan", "lost"}) = {}
      BY <2>2 DEF Preparing, Recorded
    <2> QED
      BY <2>2, <2>3, <2>4, <2>5, <2>6 DEF CountShape
  <1>8. ASSUME NEW b \in Backups, Collect(b)
        PROVE  CountShape'
    <2>1. /\ UNCHANGED <<tpc, hashes, snapFiles, scanned>>
          /\ \A a \in Backups : a # b => pc'[a] = pc[a]
          /\ pc[b] = "collect" /\ pc'[b] = "check" /\ Running(b) = {}
      BY <1>8 DEF Collect
    <2>2. \A t \in Tasks : t[1] \in Backups /\ t[2] \in Files /\ t = <<t[1], t[2]>>
      BY DEF Tasks
    <2>3. \A t \in Tasks : t[1] = b => tpc[t] \in {"none", "ok", "skipped"}
      BY <2>1, <2>2 DEF Running
    <2> QED
      BY <2>1, <2>2, <2>3 DEF CountShape
  <1>9. ASSUME NEW t \in Tasks,
               TaskLocks(t) \/ TaskMoves(t) \/ OpenFails(t) \/ WriteChunkFails(t) \/ ReadFails(t)
        PROVE  CountShape'
    <2>1. /\ UNCHANGED <<pc, snapFiles, scanned>>
          /\ tpc[t] \in {"open", "store", "trans", "chunk", "index"}
      BY <1>9 DEF TaskLocks, TaskMoves, LockIndex, LockStore, LockTransients,
          DedupChunk, WriteChunk, IndexChunk, FinishFile, OpenFails, WriteChunkFails,
          ReadFails
    <2>2. /\ \A u \in Tasks : u # t => tpc'[u] = tpc[u]
          /\ \A u \in Tasks : u # t => hashes'[u] = hashes[u]
      BY <1>9 DEF TaskLocks, TaskMoves, LockIndex, LockStore, LockTransients, NextHash,
          DedupChunk, WriteChunk, IndexChunk, FinishFile, OpenFails, WriteChunkFails,
          ReadFails
    <2>3. /\ pc[t[1]] \in {"loop", "acquire", "collect"} /\ t[2] \notin scanned[t[1]]
          /\ pc[t[1]] \notin Preparing \cup {"scan"}
      BY <2>1 DEF CountShape
    <2> HIDE DEF TypeOK, Preparing, Recorded
    <2>4. ASSUME NEW u \in Tasks, u # t
          PROVE  tpc'[u] = tpc[u] /\ hashes'[u] = hashes[u]
      BY <2>2, <2>4
    <2> QED
      BY <2>1, <2>3, <2>4 DEF CountShape
  <1> QED
    BY <1>1, <1>2, <1>3, <1>4, <1>5, <1>6, <1>7, <1>8, <1>9 DEF Next, Terminating

\* The phases fit throughout.
LEMMA CountShapeInvariant == Spec => []CountShape
  <1>1. Init => CountShape
    BY DEF Init, CountShape
  <1> QED
    BY <1>1, CountShapeStep, TypeCorrect, AckInvariant, PTL DEF Spec

\* The one lock cycle of the code takes two calls side by side, and the cancel of
\* the one that rolls back: it has awaited its own tasks, so the task that holds
\* the index is another call's.
THEOREM CycleOfTwoCalls == Spec => []CycleTakesTwoCalls
  <1>1. SharedInv /\ CancelInv /\ CountShape => CycleTakesTwoCalls
    <2> SUFFICES ASSUME SharedInv, CancelInv, CountShape,
                        NEW b \in Backups, NEW t \in Tasks, LockCycle(b, t)
                 PROVE  t[1] # b /\ {b, t[1]} \subseteq shared /\ b \in cancelled
      BY DEF CycleTakesTwoCalls
    <2>1. pc[b] = "rbIndex" /\ t[1] \in Backups /\ pc[t[1]] \in {"loop", "acquire", "collect"}
      BY DEF LockCycle, CountShape, Tasks
    <2>2. b \in cancelled
      BY <2>1 DEF CancelInv, Reached, RollingBack
    <2> QED
      BY <2>1, <2>2 DEF SharedInv, InFlight, Returned
  <1> QED
    BY <1>1, SharedInvariant, CancelInvariant, CountShapeInvariant, PTL

-----------------------------------------------------------------------------
(* Counting *)

\* A set that loses members, or gains at most one, for a number that keeps up with it.
LEMMA SmallerSet ==
  ASSUME NEW S, NEW T, NEW n \in Nat, NEW m \in Nat,
         IsFiniteSet(S), Cardinality(S) <= n, T \subseteq S, n <= m
  PROVE  IsFiniteSet(T) /\ Cardinality(T) <= m
  <1>1. IsFiniteSet(T) /\ Cardinality(T) <= Cardinality(S)
    BY FS_Subset
  <1>2. Cardinality(S) \in Nat /\ Cardinality(T) \in Nat
    BY <1>1, FS_CardinalityType
  <1> QED
    BY <1>1, <1>2

\* A finite set that may gain one element counts at most one more.
LEMMA OneMore ==
  ASSUME NEW S, NEW T, NEW x, NEW n \in Nat,
         IsFiniteSet(S), Cardinality(S) <= n, T \subseteq S \cup {x}
  PROVE  IsFiniteSet(T) /\ Cardinality(T) <= n + 1
  <1>1. IsFiniteSet(S \cup {x}) /\ Cardinality(S \cup {x}) <= n + 1
    <2>1. IsFiniteSet(S \cup {x})
      BY FS_AddElement
    <2>2. Cardinality(S \cup {x}) = Cardinality(S) \/ Cardinality(S \cup {x}) = Cardinality(S) + 1
      BY FS_AddElement
    <2>3. Cardinality(S) \in Nat
      BY FS_CardinalityType
    <2> QED
      BY <2>1, <2>2, <2>3
  <1> QED
    BY <1>1, SmallerSet

\* A finite set that loses an element counts at least one less.
LEMMA OneLess ==
  ASSUME NEW S, NEW T, NEW x \in S, NEW n \in Nat,
         IsFiniteSet(S), Cardinality(S) <= n, T \subseteq S \ {x}
  PROVE  n - 1 \in Nat /\ IsFiniteSet(T) /\ Cardinality(T) <= n - 1
  <1>1. IsFiniteSet(S \ {x}) /\ Cardinality(S \ {x}) = Cardinality(S) - 1
    BY FS_RemoveElement
  <1>2. Cardinality(S) \in Nat /\ Cardinality(S \ {x}) \in Nat
    BY <1>1, FS_CardinalityType
  <1>3. n - 1 \in Nat /\ Cardinality(S \ {x}) <= n - 1
    BY <1>1, <1>2
  <1> QED
    BY <1>1, <1>3, SmallerSet

\* What a task has read when it has read the next chunk.
LEMMA ReadNext ==
  ASSUME TypeOK, NEW t \in Tasks, todo[t] # <<>>, NextHash(t)
  PROVE  /\ Head(todo[t]) \in Chunks
         /\ Len(hashes[t]) \in Nat /\ Len(hashes'[t]) = Len(hashes[t]) + 1
         /\ DOMAIN hashes[t] = 1..Len(hashes[t])
         /\ DOMAIN hashes'[t] = 1..(Len(hashes[t]) + 1)
         /\ hashes'[t][Len(hashes[t]) + 1] = Head(todo[t])
         /\ \A i \in DOMAIN hashes[t] : hashes'[t][i] = hashes[t][i]
         /\ \A u \in Tasks : u # t => hashes'[u] = hashes[u]
  <1>1. hashes[t] \in Seq(Chunks) /\ todo[t] \in Seq(Chunks)
    BY DEF TypeOK
  <1>2. Head(todo[t]) \in Chunks
    BY <1>1, HeadTail
  <1>3. hashes'[t] = Append(hashes[t], Head(todo[t]))
    BY DEF TypeOK, NextHash
  <1>4. \A u \in Tasks : u # t => hashes'[u] = hashes[u]
    BY DEF TypeOK, NextHash
  <1> DEFINE h == Head(todo[t])
  <1>5. h \in Chunks
    BY <1>2
  <1> HIDE DEF h
  <1>6. hashes'[t] = Append(hashes[t], h)
    BY <1>3 DEF h
  <1>7. /\ Len(hashes[t]) \in Nat /\ Len(hashes'[t]) = Len(hashes[t]) + 1
        /\ DOMAIN hashes[t] = 1..Len(hashes[t])
        /\ DOMAIN hashes'[t] = 1..(Len(hashes[t]) + 1)
        /\ hashes'[t][Len(hashes[t]) + 1] = h
        /\ \A i \in DOMAIN hashes[t] : hashes'[t][i] = hashes[t][i]
    BY <1>1, <1>5, <1>6
  <1> QED
    BY <1>2, <1>4, <1>7 DEF h

\* No step takes a call out of those that ran beside another, or a rollback back.
LEMMA AloneBefore ==
  ASSUME TypeOK, TypeOK', [Next]_vars, RolledBackAlone'
  PROVE  RolledBackAlone
  <1>1. shared \subseteq shared'
    BY SharedGrows
  <1>2. ASSUME NEW b \in Backups PROVE rbNext'[b] = rbNext[b] \/ rbNext'[b] = rbNext[b] + 1
    <2> USE DEF TypeOK, callVars
    <2>1. ASSUME NEW a \in Backups, RollbackObject(a)
          PROVE  rbNext'[b] = rbNext[b] \/ rbNext'[b] = rbNext[b] + 1
      BY <2>1 DEF RollbackObject
    <2>2. ASSUME NEW a \in Backups, ~RollbackObject(a),
                 Start(a) \/ CallLocks(a) \/ CallMoves(a) \/ ScanFails(a)
                  \/ WriteManifestFails(a) \/ SignManifestFails(a)
          PROVE  UNCHANGED rbNext
      BY <2>2 DEF CallLocks, CallMoves, Start, ScanFails, WriteManifestFails, SignManifestFails,
          Begin, RollbackLockTransients, RollbackLockIndex, RecordFiles, CommitFlush,
          UpdateStats, Activate, Scan, Loop, SpawnTask, Collect, CheckAborted,
          RollbackUnlock, RollbackClear, RollbackIdle, WriteManifest, SignManifest,
          CommitClear, PushCache, SetIdle
    <2>3. ASSUME NEW t \in Tasks,
                 TaskLocks(t) \/ TaskMoves(t) \/ OpenFails(t) \/ WriteChunkFails(t) \/ ReadFails(t)
          PROVE  UNCHANGED rbNext
      BY <2>3 DEF TaskLocks, TaskMoves, LockIndex, LockStore, LockTransients,
          DedupChunk, WriteChunk, IndexChunk, FinishFile, OpenFails, WriteChunkFails,
          ReadFails
    <2>4. Cancel \/ CrashRestart \/ UNCHANGED vars => UNCHANGED rbNext
      BY DEF Cancel, CrashRestart, vars
    <2> QED
      BY <2>1, <2>2, <2>3, <2>4 DEF Next, Terminating
  <1>3. ASSUME NEW b \in shared PROVE rbNext[b] = 1
    <2>1. b \in Backups /\ rbNext'[b] = 1
      BY <1>1 DEF RolledBackAlone, TypeOK
    <2>2. rbNext[b] \in Nat \ {0}
      BY <2>1 DEF TypeOK
    <2> QED
      BY <1>2, <2>1, <2>2
  <1> QED
    BY <1>3 DEF RolledBackAlone

\* Only a failed write is counted as one, and no step takes the count back.
LEMMA ObjectCount ==
  ASSUME TypeOK, [Next]_vars, used'["object"] = 0
  PROVE  used["object"] = 0 /\ \A t \in Tasks : ~WriteChunkFails(t)
  <1> USE DEF TypeOK, Spend, Kinds
  <1>0. used["object"] \in Nat
    OBVIOUS
  <1>1. ASSUME NEW t \in Tasks, WriteChunkFails(t) PROVE FALSE
    BY <1>0, <1>1 DEF WriteChunkFails
  <1>2. CASE Cancel \/ CrashRestart \/ UNCHANGED vars
    BY <1>0, <1>1, <1>2 DEF Cancel, CrashRestart, vars
  <1>3. ASSUME NEW b \in Backups, Start(b) \/ CallLocks(b) \/ ScanFails(b)
                  \/ WriteManifestFails(b) \/ SignManifestFails(b)
        PROVE  used["object"] = 0
    BY <1>0, <1>3 DEF CallLocks, Start, ScanFails, WriteManifestFails, SignManifestFails, Begin,
          RollbackLockTransients, RollbackLockIndex, RecordFiles, CommitFlush,
          UpdateStats
  <1>4. ASSUME NEW b \in Backups, CallMoves(b)
        PROVE  used["object"] = 0
    BY <1>4 DEF CallMoves, Activate, Scan, Loop, SpawnTask, Collect, CheckAborted,
          RollbackObject, RollbackUnlock, RollbackClear, RollbackIdle, WriteManifest, SignManifest,
          CommitClear, PushCache, SetIdle
  <1>5. ASSUME NEW t \in Tasks, TaskLocks(t) \/ TaskMoves(t) \/ OpenFails(t) \/ ReadFails(t)
        PROVE  used["object"] = 0
    BY <1>0, <1>5 DEF TaskLocks, TaskMoves, LockIndex, LockStore, LockTransients,
          DedupChunk, WriteChunk, IndexChunk, FinishFile, OpenFails, ReadFails
  <1> QED
    BY <1>1, <1>2, <1>3, <1>4, <1>5 DEF Next, Terminating

\* The held occurrences after a step that takes no reference away.
LEMMA HeldKept ==
  ASSUME TypeOK, TypeOK', NEW c \in Chunks,
         IsFiniteSet(Held(c)), Cardinality(Held(c)) <= refs[c], refs[c] <= refs'[c],
         \A t \in Tasks, i \in Nat : Holding(t, i, c)' => Holding(t, i, c)
  PROVE  IsFiniteSet(Held(c)') /\ Cardinality(Held(c)') <= refs'[c]
  <1>1. Held(c)' \subseteq Held(c)
    BY DEF Held
  <1>2. refs[c] \in Nat /\ refs'[c] \in Nat
    BY DEF TypeOK
  <1> QED
    BY <1>1, <1>2, SmallerSet

\* So does every step that is not one of a rollback.
LEMMA CoveredStep ==
  ASSUME IndexInv, TypeOK', AckInv, CountShape, Covered, [Next]_vars,
         \A b \in Backups : ~RollbackObject(b)
  PROVE  Covered'
  <1> SUFFICES ASSUME used'["object"] = 0, RolledBackAlone', NEW c \in Chunks
               PROVE  IsFiniteSet(Held(c)') /\ Cardinality(Held(c)') <= refs'[c]
    BY DEF Covered
  <1>0. /\ TypeOK /\ Written
        /\ IsFiniteSet(Held(c)) /\ Cardinality(Held(c)) <= refs[c] /\ refs[c] \in Nat
        /\ \A t \in Tasks : t[1] \in Backups /\ t[2] \in Files /\ t = <<t[1], t[2]>>
    <2>1. TypeOK /\ Written
      BY DEF IndexInv
    <2>2. IsFiniteSet(Held(c)) /\ Cardinality(Held(c)) <= refs[c]
      BY <2>1, ObjectCount, AloneBefore DEF Covered
    <2>3. refs[c] \in Nat
      BY <2>1 DEF TypeOK
    <2>4. \A t \in Tasks : t[1] \in Backups /\ t[2] \in Files /\ t = <<t[1], t[2]>>
      BY DEF Tasks
    <2> QED
      BY <2>1, <2>2, <2>3, <2>4
  <1> USE DEF TypeOK, InFlight, Returned, Goto, TaskGoto, callVars, taskVars, indexVars, diskVars
  <1>a. ASSUME refs[c] <= refs'[c],
               \A t \in Tasks, i \in Nat : Holding(t, i, c)' => Holding(t, i, c)
        PROVE  IsFiniteSet(Held(c)') /\ Cardinality(Held(c)') <= refs'[c]
    BY <1>0, <1>a, HeldKept
  <1>b. ASSUME UNCHANGED <<refs, hashes, snapFiles>>,
               \A t \in Tasks : /\ tpc[t] = "index" => tpc'[t] = "index" \/ pc'[t[1]] \notin Gathering
                                /\ pc'[t[1]] \in Gathering => pc[t[1]] \in Gathering \/ hashes[t] = <<>>
        PROVE  IsFiniteSet(Held(c)') /\ Cardinality(Held(c)') <= refs'[c]
    <2>1. ASSUME NEW t \in Tasks, NEW i \in Nat, Holding(t, i, c)' PROVE Holding(t, i, c)
      BY <1>b, <2>1 DEF Holding, Listing, HasRead, Counted
    <2> QED
      BY <1>0, <1>a, <1>b, <2>1
  <1>1. CASE Cancel \/ UNCHANGED vars
    BY <1>1, <1>b DEF Cancel, vars
  <1>2. CASE CrashRestart
    <2>1. \A b \in Backups : pc'[b] \notin Gathering
      BY <1>2 DEF CrashRestart, Gathering
    <2> QED
      BY <1>0, <1>2, <1>b, <2>1 DEF CrashRestart
  <1>3. ASSUME NEW b \in Backups,
               Start(b) \/ CallLocks(b) \/ ScanFails(b)
                  \/ WriteManifestFails(b) \/ SignManifestFails(b), ~RecordFiles(b)
        PROVE  IsFiniteSet(Held(c)') /\ Cardinality(Held(c)') <= refs'[c]
    <2>1. UNCHANGED <<refs, hashes, snapFiles, tpc>> /\ \A a \in Backups : a # b => pc'[a] = pc[a]
      BY <1>3 DEF CallLocks, Start, ScanFails, WriteManifestFails, SignManifestFails, Begin,
          RollbackLockTransients, RollbackLockIndex, CommitFlush, UpdateStats
    <2>2. pc'[b] \in Gathering => pc[b] \in Gathering
      BY <1>3 DEF Gathering, CallLocks, Start, ScanFails, WriteManifestFails, SignManifestFails, Begin,
          RollbackLockTransients, RollbackLockIndex, CommitFlush, UpdateStats
    <2> QED
      BY <1>0, <1>b, <2>1, <2>2
  <1>4. ASSUME NEW b \in Backups, RecordFiles(b)
        PROVE  IsFiniteSet(Held(c)') /\ Cardinality(Held(c)') <= refs'[c]
    <2>1. /\ UNCHANGED <<refs, hashes, tpc>> /\ \A a \in Backups : a # b => pc'[a] = pc[a]
          /\ pc[b] = "files" /\ pc'[b] = "flush"
          /\ \A a \in Backups : a # b => snapFiles'[a] = snapFiles[a]
          /\ snapFiles'[b] = {f \in Files : tpc[<<b, f>>] = "ok"}
      BY <1>4 DEF RecordFiles, InsertSnapshotFiles
    <2>2. ASSUME NEW t \in Tasks, NEW i \in Nat, Holding(t, i, c)' PROVE Holding(t, i, c)
      <3>1. CASE t[1] # b
        BY <1>0, <2>1, <2>2, <3>1 DEF Holding, Listing, HasRead, Counted
      <3>2. CASE t[1] = b
        <4>1. t[2] \in snapFiles'[b] /\ HasRead(t, i, c)
          BY <2>1, <2>2, <3>2 DEF Holding, Listing, HasRead, Gathering
        <4>2. tpc[t] = "ok"
          BY <1>0, <2>1, <3>2, <4>1
        <4> QED
          BY <2>1, <3>2, <4>1, <4>2 DEF Holding, Counted, Gathering
      <3> QED
        BY <3>1, <3>2
    <2> QED
      BY <1>0, <1>a, <2>1, <2>2
  <1>5. ASSUME NEW b \in Backups, CallMoves(b), ~SpawnTask(b)
        PROVE  IsFiniteSet(Held(c)') /\ Cardinality(Held(c)') <= refs'[c]
    <2>1. UNCHANGED <<refs, hashes, snapFiles, tpc>> /\ \A a \in Backups : a # b => pc'[a] = pc[a]
      BY <1>5 DEF CallMoves, Activate, Scan, Loop, Collect, CheckAborted,
          RollbackUnlock, RollbackClear, RollbackIdle, WriteManifest, SignManifest,
          CommitClear, PushCache, SetIdle
    <2>2. pc'[b] \in Gathering => pc[b] \in Gathering \/ pc[b] = "scan"
      BY <1>5 DEF Gathering, CallMoves, Activate, Scan, Loop, Collect, CheckAborted,
          RollbackUnlock, RollbackClear, RollbackIdle, WriteManifest, SignManifest,
          CommitClear, PushCache, SetIdle
    <2> QED
      BY <1>0, <1>b, <2>1, <2>2 DEF CountShape
  <1>6. ASSUME NEW b \in Backups, SpawnTask(b)
        PROVE  IsFiniteSet(Held(c)') /\ Cardinality(Held(c)') <= refs'[c]
    <2>1. PICK f \in scanned[b] : tpc' = [tpc EXCEPT ![<<b, f>>] = "open"]
      BY <1>6 DEF SpawnTask
    <2>2. /\ UNCHANGED <<refs, hashes, snapFiles>> /\ \A a \in Backups : a # b => pc'[a] = pc[a]
          /\ pc[b] = "acquire" /\ pc'[b] = "loop"
      BY <1>6 DEF SpawnTask
    <2>3. \A t \in Tasks : tpc'[t] = tpc[t] \/ (t = <<b, f>> /\ tpc[t] = "none")
      <3>1. tpc[<<b, f>>] = "none"
        BY <2>1 DEF CountShape, Tasks
      <3> QED
        BY <2>1, <3>1 DEF Tasks
    <2> QED
      BY <1>0, <1>b, <2>2, <2>3 DEF Gathering
  <1>7. ASSUME NEW t \in Tasks, TaskLocks(t) \/ FinishFile(t) \/ OpenFails(t) \/ ReadFails(t)
        PROVE  IsFiniteSet(Held(c)') /\ Cardinality(Held(c)') <= refs'[c]
    <2>1. UNCHANGED <<pc, refs, hashes, snapFiles>> /\ \A u \in Tasks : u # t => tpc'[u] = tpc[u]
      BY <1>7 DEF TaskLocks, LockIndex, LockStore, LockTransients, FinishFile, OpenFails, ReadFails
    <2>2. tpc[t] # "index"
      BY <1>7 DEF TaskLocks, LockIndex, LockStore, LockTransients, FinishFile, OpenFails, ReadFails
    <2> QED
      BY <1>b, <2>1, <2>2
  <1>8. ASSUME NEW t \in Tasks, DedupChunk(t) \/ WriteChunk(t)
        PROVE  IsFiniteSet(Held(c)') /\ Cardinality(Held(c)') <= refs'[c]
    <2> DEFINE h == Head(todo[t])
               n == Len(hashes[t]) + 1
    <2>1. /\ UNCHANGED <<pc, snapFiles>> /\ \A u \in Tasks : u # t => tpc'[u] = tpc[u]
          /\ tpc[t] = "chunk" /\ todo[t] # <<>> /\ NextHash(t)
      BY <1>8 DEF DedupChunk, WriteChunk
    <2>2. /\ h \in Chunks
          /\ Len(hashes[t]) \in Nat /\ Len(hashes'[t]) = n
          /\ DOMAIN hashes[t] = 1..Len(hashes[t]) /\ DOMAIN hashes'[t] = 1..n
          /\ hashes'[t][n] = h
          /\ \A i \in DOMAIN hashes[t] : hashes'[t][i] = hashes[t][i]
          /\ \A u \in Tasks : u # t => hashes'[u] = hashes[u]
      BY <1>0, <2>1, ReadNext
    <2> HIDE DEF h
    <2>3. snapFiles[t[1]] = {}
      BY <1>0, <2>1 DEF CountShape, Recorded, Listed
    <2>4. ASSUME NEW u \in Tasks, NEW i \in Nat, Holding(u, i, c)', ~Holding(u, i, c)
          PROVE  u = t /\ i = n /\ h = c /\ tpc'[t] # "index"
      <3>1. u = t
        BY <2>1, <2>2, <2>4 DEF Holding, Listing, HasRead, Counted
      <3>2. HasRead(t, i, c)' /\ Counted(t, i)' /\ pc[t[1]] \in Gathering
        BY <2>1, <2>3, <2>4, <3>1 DEF Holding, Listing
      <3>3. ~HasRead(t, i, c)
        BY <2>1, <2>4, <3>1, <3>2 DEF Holding, Counted
      <3>4. i = n /\ h = c
        <4> HIDE DEF TypeOK
        <4>1. i \in 1..n /\ hashes'[t][i] = c
          BY <2>2, <3>2 DEF HasRead
        <4>2. i \notin 1..Len(hashes[t])
          BY <2>2, <3>3, <4>1 DEF HasRead
        <4>3. i = n
          BY <2>2, <4>1, <4>2
        <4> QED
          BY <2>2, <4>1, <4>3
      <3> QED
        BY <2>2, <3>1, <3>2, <3>4 DEF Counted
    <2>5. CASE WriteChunk(t)
      <3>1. refs' = refs /\ tpc'[t] = "index"
        BY <2>5 DEF WriteChunk
      <3> HIDE DEF TypeOK
      <3>2. ASSUME NEW u \in Tasks, NEW i \in Nat, Holding(u, i, c)' PROVE Holding(u, i, c)
        BY <2>4, <3>1, <3>2
      <3>3. refs[c] <= refs'[c]
        BY <1>0, <3>1
      <3> QED
        BY <1>a, <3>2, <3>3
    <2>6. CASE DedupChunk(t)
      <3>1. refs' = [refs EXCEPT ![h] = @ + 1]
        BY <2>6 DEF DedupChunk, IncrementRef, h
      <3>2. CASE h = c
        <4>1. refs'[c] = refs[c] + 1
          BY <3>1, <3>2, <1>0
        <4>2. Held(c)' \subseteq Held(c) \cup {<<t, n>>}
          BY <2>4 DEF Held
        <4>3. IsFiniteSet(Held(c)') /\ Cardinality(Held(c)') <= refs[c] + 1
          <5>1. IsFiniteSet(Held(c)) /\ Cardinality(Held(c)) <= refs[c] /\ refs[c] \in Nat
            BY <1>0, Zenon
          <5> HIDE DEF n, TypeOK
          <5> QED
            BY <4>2, <5>1, OneMore, Zenon
        <4> QED
          BY <4>1, <4>3
      <3>3. CASE h # c
        <4>1. refs'[c] = refs[c]
          BY <1>0, <2>2, <3>1, <3>3
        <4>2. \A u \in Tasks, i \in Nat : Holding(u, i, c)' => Holding(u, i, c)
          BY <2>4, <3>3, Zenon
        <4> QED
          BY <1>0, <1>a, <4>1, <4>2
      <3> QED
        BY <3>2, <3>3
    <2> QED
      BY <1>8, <2>5, <2>6
  <1>9. ASSUME NEW t \in Tasks, IndexChunk(t)
        PROVE  IsFiniteSet(Held(c)') /\ Cardinality(Held(c)') <= refs'[c]
    <2> DEFINE n == Len(hashes[t])
               h == hashes[t][n]
    <2>1. /\ UNCHANGED <<pc, snapFiles, hashes>>
          /\ tpc[t] = "index" /\ tpc' = [tpc EXCEPT ![t] = "chunk"]
          /\ refs' = [refs EXCEPT ![h] = @ + 1]
      BY <1>9 DEF IndexChunk, InsertChunk
    <2>2. h \in Chunks /\ n \in Nat
      BY <1>0, <2>1 DEF Written
    <2> HIDE DEF h
    <2>3. ASSUME NEW u \in Tasks, NEW i \in Nat, Holding(u, i, c)', ~Holding(u, i, c)
          PROVE  u = t /\ i = n /\ h = c
      BY <2>1, <2>3 DEF Holding, Listing, HasRead, Counted, h
    <2>4. CASE h = c
      <3>1. refs'[c] = refs[c] + 1
        BY <1>0, <2>1, <2>4
      <3>2. Held(c)' \subseteq Held(c) \cup {<<t, n>>}
        BY <2>3 DEF Held
      <3>3. IsFiniteSet(Held(c)') /\ Cardinality(Held(c)') <= refs[c] + 1
        <4>1. IsFiniteSet(Held(c)) /\ Cardinality(Held(c)) <= refs[c] /\ refs[c] \in Nat
          BY <1>0, Zenon
        <4> HIDE DEF n, TypeOK
        <4> QED
          BY <3>2, <4>1, OneMore, Zenon
      <3> QED
        BY <3>1, <3>3
    <2>5. CASE h # c
      <3>1. refs'[c] = refs[c]
        BY <1>0, <2>1, <2>2, <2>5
      <3>2. \A u \in Tasks, i \in Nat : Holding(u, i, c)' => Holding(u, i, c)
        BY <2>3, <2>5, Zenon
      <3> QED
        BY <1>0, <1>a, <3>1, <3>2
    <2> QED
      BY <2>4, <2>5
  <1>10. \A t \in Tasks : ~WriteChunkFails(t)
    BY <1>0, ObjectCount
  <1>11. ASSUME NEW b \in Backups,
                Start(b) \/ CallLocks(b) \/ CallMoves(b) \/ ScanFails(b)
                  \/ WriteManifestFails(b) \/ SignManifestFails(b)
         PROVE  IsFiniteSet(Held(c)') /\ Cardinality(Held(c)') <= refs'[c]
    BY <1>3, <1>4, <1>5, <1>6, <1>11, Zenon
  <1>12. ASSUME NEW t \in Tasks, TaskLocks(t) \/ TaskMoves(t) \/ OpenFails(t) \/ ReadFails(t)
         PROVE  IsFiniteSet(Held(c)') /\ Cardinality(Held(c)') <= refs'[c]
    BY <1>7, <1>8, <1>9, <1>12, Zenon DEF TaskMoves
  <1> QED
    BY <1>1, <1>2, <1>10, <1>11, <1>12, Zenon DEF Next, Terminating

\* What a rollback may give back: a reference for each object still listed as transient.
Spending == {"activate", "scan", "loop", "acquire", "collect", "check", "rollback", "rbIndex",
             "rbLoop"}
Left(b, c) ==
    {i \in DOMAIN transients : transients[i] = c /\ (pc[b] = "rbLoop" => i >= rbNext[b])}

\* The call can give them all back without touching those of the snapshots.
Affords(b, c) ==
    \E m \in Nat : /\ IsFiniteSet(Left(b, c)) /\ Cardinality(Left(b, c)) <= m
                   /\ Cardinality(Listings(c)) + m <= refs[c]

\* A call that runs alone can.
Affordable ==
    used["object"] = 0 /\ RolledBackAlone =>
        \A b \in Backups \ shared : pc[b] \in Spending => \A c \in Chunks : Affords(b, c)

\* What has been affordable stays so in a step that lists no more and takes no more.
LEMMA AffordsKept ==
  ASSUME TypeOK, TypeOK', NEW b \in Backups, NEW c \in Chunks, Affords(b, c),
         Left(b, c)' \subseteq Left(b, c), Listings(c)' = Listings(c), refs[c] <= refs'[c],
         IsFiniteSet(Listings(c))
  PROVE  Affords(b, c)'
  <1>1. PICK m \in Nat : /\ IsFiniteSet(Left(b, c)) /\ Cardinality(Left(b, c)) <= m
                         /\ Cardinality(Listings(c)) + m <= refs[c]
    BY DEF Affords
  <1>2. IsFiniteSet(Left(b, c)') /\ Cardinality(Left(b, c)') <= m
    BY <1>1, SmallerSet
  <1>3. Cardinality(Listings(c)) \in Nat /\ refs[c] \in Nat /\ refs'[c] \in Nat
    BY FS_CardinalityType DEF TypeOK
  <1>4. Cardinality(Listings(c)') + m <= refs'[c]
    BY <1>1, <1>3
  <1> QED
    BY <1>2, <1>4 DEF Affords

\* A task reads for a call that lists nothing yet.
LEMMA ListingsKept ==
  ASSUME TypeOK, TypeOK', CountShape, NEW c \in Chunks, [Next]_vars,
         \A b \in Backups : ~RecordFiles(b)
  PROVE  Listings(c)' = Listings(c)
  <1> USE DEF TypeOK, Goto, TaskGoto, callVars, taskVars, indexVars, diskVars
  <1>a. ASSUME UNCHANGED snapFiles, \A t \in Tasks : hashes'[t] = hashes[t] \/ snapFiles[t[1]] = {}
        PROVE  Listings(c)' = Listings(c)
    <2>1. \A t \in Tasks, i \in Nat : Listing(t, i, c)' <=> Listing(t, i, c)
      BY <1>a DEF Listing, HasRead
    <2> QED
      BY <2>1 DEF Listings
  <1>1. CASE Cancel \/ CrashRestart \/ UNCHANGED vars
    BY <1>1, <1>a DEF Cancel, CrashRestart, vars
  <1>2. ASSUME NEW b \in Backups, Start(b) \/ CallLocks(b) \/ ScanFails(b)
                  \/ WriteManifestFails(b) \/ SignManifestFails(b)
        PROVE  Listings(c)' = Listings(c)
    <2>1. UNCHANGED <<hashes, snapFiles>>
      BY <1>2 DEF CallLocks, Start, ScanFails, WriteManifestFails, SignManifestFails, Begin,
          RollbackLockTransients, RollbackLockIndex, CommitFlush, UpdateStats
    <2> QED
      BY <1>a, <2>1
  <1>3. ASSUME NEW b \in Backups, CallMoves(b)
        PROVE  Listings(c)' = Listings(c)
    <2>1. UNCHANGED <<hashes, snapFiles>>
      BY <1>3 DEF CallMoves, Activate, Scan, Loop, SpawnTask, Collect, CheckAborted,
          RollbackObject, RollbackUnlock, RollbackClear, RollbackIdle, WriteManifest, SignManifest,
          CommitClear, PushCache, SetIdle
    <2> QED
      BY <1>a, <2>1
  <1>4. ASSUME NEW t \in Tasks,
               TaskLocks(t) \/ TaskMoves(t) \/ OpenFails(t) \/ WriteChunkFails(t) \/ ReadFails(t)
        PROVE  Listings(c)' = Listings(c)
    <2>1. /\ UNCHANGED snapFiles
          /\ \A u \in Tasks : u # t => hashes'[u] = hashes[u]
          /\ tpc[t] \in {"open", "store", "trans", "chunk", "index"}
      BY <1>4 DEF TaskLocks, TaskMoves, LockIndex, LockStore, LockTransients, NextHash,
          DedupChunk, WriteChunk, IndexChunk, FinishFile, OpenFails, WriteChunkFails,
          ReadFails
    <2>2. snapFiles[t[1]] = {}
      <3>1. t[1] \in Backups
        BY DEF Tasks
      <3> QED
        BY <2>1, <3>1 DEF CountShape, Recorded, Listed
    <2> QED
      BY <1>a, <2>1, <2>2
  <1> QED
    BY <1>1, <1>2, <1>3, <1>4, Zenon DEF Next, Terminating

\* The rollback of a call that runs alone gives back no more than it has counted.
LEMMA AffordableStep ==
  ASSUME IndexInv, TypeOK', SharedInv, AckInv, CountShape, Covered, Affordable, [Next]_vars
  PROVE  Affordable'
  <1> SUFFICES ASSUME used'["object"] = 0, RolledBackAlone',
                      NEW b \in Backups \ shared', pc'[b] \in Spending, NEW c \in Chunks
               PROVE  Affords(b, c)'
    BY DEF Affordable
  <1>0. /\ TypeOK
        /\ refs[c] \in Nat /\ refs'[c] \in Nat
        /\ IsFiniteSet(Listings(c)) /\ Cardinality(Listings(c)) <= refs[c]
        /\ Cardinality(Listings(c)) \in Nat
        /\ Len(transients) \in Nat /\ DOMAIN transients = 1..Len(transients)
    <2>1. TypeOK
      BY DEF IndexInv
    <2>2. refs[c] \in Nat /\ refs'[c] \in Nat
      BY <2>1 DEF TypeOK
    <2>3. IsFiniteSet(Held(c)) /\ Cardinality(Held(c)) <= refs[c]
      BY <2>1, ObjectCount, AloneBefore DEF Covered
    <2>4. IsFiniteSet(Listings(c)) /\ Cardinality(Listings(c)) <= refs[c]
      BY <2>1, <2>2, <2>3, ListingsAreReferences, SmallerSet
    <2>5. Cardinality(Listings(c)) \in Nat
      BY <2>4, FS_CardinalityType
    <2>6. Len(transients) \in Nat /\ DOMAIN transients = 1..Len(transients)
      BY <2>1 DEF TypeOK
    <2> QED
      BY <2>1, <2>2, <2>4, <2>5, <2>6
  <1>s. b \in Backups \ shared
    BY SharedGrows
  <1>k. pc[b] \in Spending => Affords(b, c)
    BY <1>0, <1>s, ObjectCount, AloneBefore DEF Affordable
  <1>o. ASSUME NEW a \in Backups, InFlight(a), pc[b] \in Spending PROVE a = b
    BY <1>s, <1>o DEF SharedInv, Spending, InFlight, Returned
  <1> USE DEF TypeOK, InFlight, Returned, Goto, TaskGoto, callVars, taskVars, indexVars, diskVars
  <1>a. ASSUME pc[b] \in Spending, Left(b, c)' \subseteq Left(b, c), refs[c] <= refs'[c],
               \A a \in Backups : ~RecordFiles(a)
        PROVE  Affords(b, c)'
    BY <1>0, <1>a, <1>k, AffordsKept, ListingsKept
  <1>b. ASSUME pc[b] \in Spending, pc'[b] = "rbLoop" <=> pc[b] = "rbLoop",
               UNCHANGED rbNext, refs[c] <= refs'[c], 
               transients' = transients \/ transients' = <<>>,
               \A a \in Backups : ~RecordFiles(a)
        PROVE  Affords(b, c)'
    <2>1. Left(b, c)' \subseteq Left(b, c)
      BY <1>b DEF Left
    <2> QED
      BY <1>a, <1>b, <2>1
  <1>1. CASE \E a \in Backups : RecordFiles(a)
    <2>1. PICK a \in Backups : RecordFiles(a)
      BY <1>1
    <2>2. pc[a] = "files" /\ pc'[a] = "flush" /\ \A d \in Backups : d # a => pc'[d] = pc[d]
      BY <1>0, <2>1 DEF RecordFiles
    <2>3. b # a /\ pc[b] \in Spending
      BY <2>2 DEF Spending
    <2> QED
      BY <2>2, <2>3, <1>o
  <1> SUFFICES ASSUME \A a \in Backups : ~RecordFiles(a)
               PROVE  Affords(b, c)'
    BY <1>1
  <1>2. CASE Cancel \/ UNCHANGED vars
    BY <1>0, <1>2, <1>b DEF Cancel, vars
  <1>3. CASE CrashRestart
    BY <1>0, <1>3 DEF CrashRestart, Spending
  <1>4. ASSUME NEW a \in Backups,
               Start(a) \/ ScanFails(a)
                  \/ WriteManifestFails(a) \/ SignManifestFails(a) \/ CommitFlush(a)
               \/ UpdateStats(a) \/ RollbackLockTransients(a)
        PROVE  Affords(b, c)'
    <2>1. UNCHANGED <<refs, rbNext, transients>>
      BY <1>4 DEF Start, ScanFails, WriteManifestFails, SignManifestFails, CommitFlush, UpdateStats, RollbackLockTransients
    <2>a. \E v \in {"begin", "error", "clear", "emptyClear", "ok", "rbIndex"} :
             pc' = [pc EXCEPT ![a] = v] /\ (v = "rbIndex" => pc[a] = "rollback")
      BY <1>4 DEF Start, ScanFails, WriteManifestFails, SignManifestFails, CommitFlush, UpdateStats,
                  RollbackLockTransients
    <2>b. PICK v \in {"begin", "error", "clear", "emptyClear", "ok", "rbIndex"} :
             pc' = [pc EXCEPT ![a] = v] /\ (v = "rbIndex" => pc[a] = "rollback")
      BY <2>a
    <2>c. /\ a = b => pc'[b] = v
          /\ a # b => pc'[b] = pc[b]
      BY <1>0, <2>b
    <2>2. pc[b] \in Spending /\ (pc'[b] = "rbLoop" <=> pc[b] = "rbLoop")
      BY <2>b, <2>c DEF Spending
    <2>3. rbNext' = rbNext /\ transients' = transients /\ refs'[c] = refs[c]
      BY <2>1
    <2>4. refs[c] <= refs'[c]
      BY <1>0, <2>3
    <2> QED
      BY <1>b, <2>2, <2>3, <2>4, Zenon
  <1>5. ASSUME NEW a \in Backups, Begin(a) PROVE Affords(b, c)'
    <2>1. /\ UNCHANGED <<refs, rbNext>> /\ transients' = <<>>
          /\ pc' = [pc EXCEPT ![a] = "activate"]
      BY <1>5 DEF Begin
    <2>2. Left(b, c)' = {}
      BY <2>1 DEF Left
    <2>3. IsFiniteSet(Left(b, c)') /\ Cardinality(Left(b, c)') <= 0
      BY <2>2, FS_EmptySet
    <2>4. Listings(c)' = Listings(c)
      BY <1>0, ListingsKept
    <2>5. Cardinality(Listings(c)') + 0 <= refs'[c]
      BY <1>0, <2>1, <2>4
    <2> QED
      BY <2>3, <2>5 DEF Affords
  <1>6. ASSUME NEW a \in Backups, RollbackLockIndex(a) PROVE Affords(b, c)'
    <2>1. /\ UNCHANGED <<refs, rbNext, transients>> /\ pc[a] = "rbIndex"
          /\ pc' = [pc EXCEPT ![a] = "rbLoop"]
      BY <1>6 DEF RollbackLockIndex
    <2>2. pc[b] \in Spending
      BY <1>0, <2>1 DEF Spending
    <2>3. Left(b, c)' \subseteq Left(b, c)
      BY <1>0, <2>1 DEF Left
    <2> QED
      BY <1>0, <1>a, <2>1, <2>2, <2>3
  <1>7. ASSUME NEW a \in Backups, RollbackObject(a) PROVE Affords(b, c)'
    <2> DEFINE n == rbNext[a]
               h == transients[n]
    <2>1. /\ UNCHANGED <<pc, transients>> /\ pc[a] = "rbLoop" /\ n \in DOMAIN transients
          /\ refs' = DecrementRef(refs, h)
          /\ rbNext' = [rbNext EXCEPT ![a] = @ + 1]
      BY <1>0, <1>7 DEF RollbackObject
    <2>2. h \in Chunks
      BY <1>0, <2>1
    <2>3. a = b
      BY <2>1, <1>o
    <2>4. n \in Nat /\ rbNext'[b] = n + 1
      BY <1>0, <2>1, <2>3
    <2> HIDE DEF h
    <2>5. CASE h # c
      <3>1. refs'[c] = refs[c]
        BY <1>0, <2>1, <2>2, <2>5 DEF DecrementRef
      <3>2. Left(b, c)' \subseteq Left(b, c)
        BY <1>0, <2>1, <2>3, <2>4 DEF Left
      <3> QED
        BY <1>0, <1>a, <2>1, <3>1, <3>2
    <2>6. CASE h = c
      <3>1. PICK m \in Nat : /\ IsFiniteSet(Left(b, c)) /\ Cardinality(Left(b, c)) <= m
                             /\ Cardinality(Listings(c)) + m <= refs[c]
        BY <1>k, <2>1 DEF Affords
      <3>2. n \in Left(b, c)
        <4>1. n \in 1..Len(transients) /\ transients[n] = c
          BY <1>0, <2>1, <2>6 DEF h
        <4>2. n >= rbNext[b]
          BY <2>3, <2>4
        <4> QED
          BY <4>1, <4>2 DEF Left
      <3>3. Left(b, c)' \subseteq Left(b, c) \ {n}
        <4>1. ASSUME NEW i \in Left(b, c)' PROVE i \in Left(b, c) \ {n}
          <5>1. i \in 1..Len(transients) /\ transients[i] = c /\ i >= n + 1
            BY <1>0, <2>1, <2>3, <2>4, <4>1 DEF Left
          <5>2. i >= rbNext[b] /\ i # n
            <6>1. i \in Int
              BY <5>1
            <6>2. n = rbNext[b]
              BY <2>3
            <6> HIDE DEF n
            <6> QED
              BY <2>4, <5>1, <6>1, <6>2
          <5>3. i \in DOMAIN transients
            BY <1>0, <5>1
          <5>4. i \in Left(b, c)
            BY <5>1, <5>2, <5>3, Zenon DEF Left
          <5> QED
            BY <5>2, <5>4, Zenon
        <4> QED
          BY <4>1, Zenon
      <3>4. m - 1 \in Nat /\ IsFiniteSet(Left(b, c)') /\ Cardinality(Left(b, c)') <= m - 1
        BY <3>1, <3>2, <3>3, OneLess, Zenon
      <3>8. refs'[c] = refs[c] - 1
        <4>1. refs[c] > 0
          BY <1>0, <3>1, <3>4
        <4> QED
          BY <1>0, <2>1, <2>2, <2>6, <4>1 DEF DecrementRef
      <3>9. Cardinality(Listings(c)') + (m - 1) <= refs'[c]
        <4> DEFINE k == Cardinality(Listings(c))
                   r == refs[c]
        <4>1. Listings(c)' = Listings(c)
          BY <1>0, ListingsKept
        <4>2. k \in Nat /\ r \in Nat /\ k + m <= r
          BY <1>0, <3>1
        <4>3. refs'[c] = r - 1
          BY <3>8
        <4>4. Cardinality(Listings(c)') = k
          BY <4>1
        <4> HIDE DEF k, r, TypeOK
        <4> QED
          BY <4>2, <4>3, <4>4
      <3> QED
        BY <3>4, <3>9 DEF Affords
    <2> QED
      BY <2>5, <2>6
  <1>8. ASSUME NEW a \in Backups, CallMoves(a), ~RollbackObject(a)
        PROVE  Affords(b, c)'
    <2>1. /\ UNCHANGED <<refs, rbNext>> /\ (transients' = transients \/ transients' = <<>>)
      BY <1>8 DEF CallMoves, Activate, Scan, Loop, SpawnTask, Collect, CheckAborted,
          RollbackUnlock, RollbackClear, RollbackIdle, WriteManifest, SignManifest, TryClear,
          CommitClear, PushCache, SetIdle
    <2>2. \A d \in Backups : d # a => pc'[d] = pc[d]
      <3>1. pc \in [Backups -> Phases]
        BY <1>0
      <3> HIDE DEF TypeOK
      <3> QED
        BY <3>1, <1>8 DEF CallMoves, Activate, Scan, Loop, SpawnTask, Collect, CheckAborted,
            RollbackUnlock, RollbackClear, RollbackIdle, WriteManifest, SignManifest,
            CommitClear, PushCache, SetIdle
    <2>3. pc'[a] # "rbLoop" /\ (pc'[a] \in Spending => pc[a] \in Spending \ {"rbLoop"})
      <3>1. pc \in [Backups -> Phases]
        BY <1>0
      <3> HIDE DEF TypeOK
      <3> QED
        BY <3>1, <1>8 DEF Spending, CallMoves, Activate, Scan, Loop, SpawnTask, Collect,
            CheckAborted, RollbackUnlock, RollbackClear, RollbackIdle, WriteManifest, SignManifest,
            CommitClear, PushCache, SetIdle
    <2>4. pc[b] \in Spending /\ (pc'[b] = "rbLoop" <=> pc[b] = "rbLoop")
      BY <2>2, <2>3
    <2>5. refs[c] <= refs'[c]
      BY <1>0, <2>1
    <2> QED
      BY <1>b, <2>1, <2>4, <2>5
  <1>9. ASSUME NEW t \in Tasks, ~IndexChunk(t),
               TaskLocks(t) \/ TaskMoves(t) \/ OpenFails(t) \/ WriteChunkFails(t) \/ ReadFails(t)
        PROVE  Affords(b, c)'
    <2>1. UNCHANGED <<pc, rbNext, transients>>
      BY <1>9 DEF TaskLocks, TaskMoves, LockIndex, LockStore, LockTransients,
          DedupChunk, WriteChunk, FinishFile, OpenFails, WriteChunkFails, ReadFails
    <2>2. refs[c] <= refs'[c]
      <3>1. CASE DedupChunk(t)
        <4>1. refs' = [refs EXCEPT ![Head(todo[t])] = @ + 1] /\ refs \in [Chunks -> Nat]
          BY <1>0, <3>1 DEF DedupChunk, IncrementRef
        <4>2. refs'[c] = refs[c] \/ refs'[c] = refs[c] + 1
          BY <4>1, Zenon
        <4> QED
          BY <1>0, <4>2
      <3>2. CASE ~DedupChunk(t)
        <4>1. UNCHANGED refs
          BY <1>9, <3>2 DEF TaskLocks, TaskMoves, LockIndex, LockStore, LockTransients,
              WriteChunk, FinishFile, OpenFails, WriteChunkFails, ReadFails
        <4> QED
          BY <1>0, <4>1
      <3> QED
        BY <3>1, <3>2
    <2> QED
      BY <1>0, <1>b, <2>1, <2>2
  <1>10. ASSUME NEW t \in Tasks, IndexChunk(t) PROVE Affords(b, c)'
    <2> DEFINE h == hashes[t][Len(hashes[t])]
               n == Len(transients) + 1
    <2>1. /\ UNCHANGED <<pc, rbNext>> /\ tpc[t] = "index"
          /\ transients' = Append(transients, h)
          /\ refs' = [refs EXCEPT ![h] = @ + 1]
      BY <1>10 DEF IndexChunk, InsertChunk
    <2>2. h \in Chunks
      BY <1>0, <2>1 DEF IndexInv, Written
    <2>3. pc[b] \in Spending /\ pc[b] # "rbLoop"
      <3>1. t[1] \in Backups /\ pc[t[1]] \in {"loop", "acquire", "collect"}
        BY <2>1 DEF CountShape, Tasks
      <3>2. b = t[1]
        BY <2>1, <3>1, <1>o
      <3> QED
        BY <2>1, <3>1, <3>2
    <2> HIDE DEF h
    <2>4. /\ DOMAIN transients' = 1..n /\ transients'[n] = h
          /\ \A i \in DOMAIN transients : transients'[i] = transients[i]
      BY <1>0, <2>1, <2>2
    <2>5. CASE h # c
      <3>1. refs'[c] = refs[c]
        BY <1>0, <2>1, <2>2, <2>5
      <3>2. Left(b, c)' \subseteq Left(b, c)
        <4>1. ASSUME NEW i \in Left(b, c)' PROVE i \in Left(b, c)
          <5>1. i \in 1..n /\ transients'[i] = c
            BY <2>4, <4>1 DEF Left
          <5>2. i \in DOMAIN transients
            BY <1>0, <2>4, <2>5, <5>1
          <5> QED
            BY <2>3, <2>4, <5>1, <5>2 DEF Left
        <4> QED
          BY <4>1, Zenon
      <3> QED
        BY <1>0, <1>a, <2>3, <3>1, <3>2
    <2>6. CASE h = c
      <3>1. PICK m \in Nat : /\ IsFiniteSet(Left(b, c)) /\ Cardinality(Left(b, c)) <= m
                             /\ Cardinality(Listings(c)) + m <= refs[c]
        BY <1>k, <2>3 DEF Affords
      <3>2. Left(b, c)' \subseteq Left(b, c) \cup {n}
        <4>1. ASSUME NEW i \in Left(b, c)', i # n PROVE i \in Left(b, c)
          <5>1. i \in 1..n /\ transients'[i] = c
            BY <2>4, <4>1 DEF Left
          <5>2. i \in DOMAIN transients
            <6>1. i # n
              BY <4>1
            <6> HIDE DEF TypeOK
            <6> QED
              BY <1>0, <5>1, <6>1
          <5> QED
            BY <2>3, <2>4, <5>1, <5>2 DEF Left
        <4> QED
          BY <4>1, Zenon
      <3>3. IsFiniteSet(Left(b, c)') /\ Cardinality(Left(b, c)') <= m + 1
        BY <3>1, <3>2, OneMore
      <3>4. refs'[c] = refs[c] + 1
        BY <1>0, <2>1, <2>6
      <3>5. Listings(c)' = Listings(c)
        BY <1>0, ListingsKept
      <3>6. m + 1 \in Nat /\ Cardinality(Listings(c)') + (m + 1) <= refs'[c]
        <4> DEFINE k == Cardinality(Listings(c))
                   r == refs[c]
        <4>1. k \in Nat /\ r \in Nat /\ k + m <= r
          BY <1>0, <3>1
        <4>2. refs'[c] = r + 1
          BY <3>4
        <4>3. Cardinality(Listings(c)') = k
          BY <3>5
        <4> HIDE DEF k, r, TypeOK
        <4> QED
          BY <4>1, <4>2, <4>3
      <3> QED
        BY <3>3, <3>6 DEF Affords
    <2> QED
      BY <2>5, <2>6
  <1> QED
    BY <1>2, <1>3, <1>4, <1>5, <1>6, <1>7, <1>8, <1>9, <1>10, Zenon
       DEF Next, Terminating, CallLocks

\* The rollback of a call that runs alone gives back what the call itself has counted.
LEMMA RollbackCovered ==
  ASSUME IndexInv, TypeOK', [Next]_vars, SharedInv, CountShape, Covered, Affordable',
         NEW a \in Backups, RollbackObject(a)
  PROVE  Covered'
  <1> SUFFICES ASSUME used'["object"] = 0, RolledBackAlone', NEW c \in Chunks
               PROVE  IsFiniteSet(Held(c)') /\ Cardinality(Held(c)') <= refs'[c]
    BY DEF Covered
  <1>1. /\ TypeOK /\ UNCHANGED <<pc, hashes, tpc, snapFiles, used>> /\ pc[a] = "rbLoop"
    BY DEF IndexInv, RollbackObject, taskVars
  <1>s. a \notin shared /\ UNCHANGED shared
    <2>1. UNCHANGED shared
      BY DEF RollbackObject, history
    <2>2. rbNext[a] \in Nat \ {0} /\ rbNext'[a] = rbNext[a] + 1
      BY <1>1 DEF RollbackObject, TypeOK
    <2> QED
      BY <2>1, <2>2 DEF RolledBackAlone
  <1>2. Held(c)' \subseteq Listings(c)'
    <2>1. ASSUME NEW t \in Tasks, NEW i \in Nat, Holding(t, i, c)' PROVE Listing(t, i, c)'
      <3>1. t[1] \in Backups
        BY DEF Tasks
      <3>2. pc[t[1]] \notin Gathering
        BY <1>1, <1>s, <3>1 DEF SharedInv, Gathering, InFlight, Returned
      <3> QED
        BY <1>1, <2>1, <3>2 DEF Holding
    <2> QED
      BY <2>1 DEF Held, Listings
  <1>3. IsFiniteSet(Held(c)) /\ Listings(c)' \subseteq Held(c)
    <2>1. \A t \in Tasks, i \in Nat : Listing(t, i, c)' <=> Listing(t, i, c)
      BY <1>1 DEF Listing, HasRead
    <2>2. Listings(c)' = Listings(c)
      BY <2>1 DEF Listings
    <2> QED
      BY <1>1, <2>2, ListingsAreReferences, AloneBefore DEF Covered
  <1>4. PICK m \in Nat : Cardinality(Listings(c)') + m <= refs'[c]
    BY <1>1, <1>s DEF Affordable, Affords, Spending
  <1>5. IsFiniteSet(Listings(c)')
    BY <1>3, FS_Subset
  <1>6. Cardinality(Listings(c)') \in Nat /\ refs'[c] \in Nat
    BY <1>5, FS_CardinalityType DEF TypeOK
  <1>7. Cardinality(Listings(c)') <= refs'[c]
    BY <1>4, <1>6
  <1> QED
    BY <1>2, <1>5, <1>6, <1>7, SmallerSet

CountInit == CountShape /\ Covered /\ Affordable

\* At the start nothing is counted, and nothing refers to anything.
LEMMA CountStart == Init => CountInit
  <1> SUFFICES ASSUME Init PROVE CountInit
    OBVIOUS
  <1>1. CountShape
    BY DEF Init, CountShape
  <1>2. Covered
    <2>1. ASSUME NEW c \in Chunks PROVE IsFiniteSet(Held(c)) /\ Cardinality(Held(c)) <= refs[c]
      <3>1. Held(c) = {}
        BY DEF Init, Held, Holding, Listing, HasRead
      <3>2. refs[c] = 0
        BY DEF Init
      <3> QED
        BY <3>1, <3>2, FS_EmptySet
    <2> QED
      BY <2>1 DEF Covered
  <1>3. Affordable
    BY DEF Init, Affordable, Spending
  <1> QED
    BY <1>1, <1>2, <1>3 DEF CountInit

\* The references of the property are among those that are held.
LEMMA CoveredCounts == TypeOK /\ Covered => NeverUndercounted
  <1> SUFFICES ASSUME TypeOK, Covered, used["object"] = 0, RolledBackAlone, NEW c \in Chunks
               PROVE  refs[c] >= Cardinality(References(c))
    BY DEF NeverUndercounted
  <1>1. IsFiniteSet(Held(c)) /\ Cardinality(Held(c)) <= refs[c] /\ refs[c] \in Nat
    BY DEF Covered, TypeOK
  <1>2. References(c) \subseteq Held(c)
    BY ListingsAreReferences
  <1>3. IsFiniteSet(References(c)) /\ Cardinality(References(c)) <= refs[c]
    BY <1>1, <1>2, SmallerSet
  <1>4. Cardinality(References(c)) \in Nat
    BY <1>3, FS_CardinalityType
  <1> QED
    BY <1>1, <1>3, <1>4

\* Whatever is cancelled and rolled back, killed or failed, and however many calls run
\* side by side, no chunk has fewer references than the recorded snapshots hold, as long
\* as no object write has failed and no call that ran beside another has given references
\* back: the rollback of a call that ran alone takes none away that another one counted.
THEOREM ReferencesCounted == Spec => []NeverUndercounted
  <1>1. IndexInv /\ IndexInv' /\ SharedInv /\ AckInv /\ CountShape /\ Covered /\ Affordable
          /\ [Next]_vars => CountInit'
    <2> SUFFICES ASSUME IndexInv, IndexInv', SharedInv, AckInv, CountShape, Covered, Affordable,
                        [Next]_vars
                 PROVE  CountInit'
      OBVIOUS
    <2>1. TypeOK /\ TypeOK'
      BY DEF IndexInv
    <2>2. CountShape'
      BY <2>1, CountShapeStep
    <2>3. Affordable'
      BY <2>1, AffordableStep
    <2>4. Covered'
      <3>1. CASE \E a \in Backups : RollbackObject(a)
        BY <2>1, <2>3, <3>1, RollbackCovered
      <3>2. CASE \A a \in Backups : ~RollbackObject(a)
        BY <2>1, <3>2, CoveredStep
      <3> QED
        BY <3>1, <3>2
    <2> QED
      BY <2>2, <2>3, <2>4 DEF CountInit
  <1>2. CountInit => CountShape /\ Covered /\ Affordable
    BY DEF CountInit
  <1>3. IndexInv => TypeOK
    BY DEF IndexInv
  <1> QED
    BY <1>1, <1>2, <1>3, CountStart, CoveredCounts, IndexInvariant, AckInvariant,
       SharedInvariant, PTL DEF Spec

=============================================================================
