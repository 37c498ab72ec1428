-------------------------- MODULE Retention_proofs --------------------------
(***************************************************************************)
(* Theorems about Retention, for any number of chunks, snapshots, calls    *)
(* and crashes, and any number of backups, prunes and imports in flight.   *)
(***************************************************************************)
EXTENDS Retention, FiniteSetTheorems, WellFoundedInduction, TLAPS

\* As much of the types as the proofs use.
Shapes ==
    /\ bpc \in [Backups -> {"idle", "manifest", "files", "push"}]
    /\ taken \in [Backups -> Nat]
    /\ ppc \in [Pruners -> {"idle", "check", "release", "manifest", "pin", "reload"}]
    /\ pinnedSince \in [Pruners -> SUBSET Nat]
    /\ pins \subseteq Nat
    /\ clock \in Nat /\ crashes \in Nat

\* Each prune has its list.
Lists == DOMAIN todo = Pruners

WholeInv == Shapes /\ Lists /\ WholeSnapshots

\* What was pinned all the time since the prune began is pinned now, and is not what it
\* deletes.
StillPinned(p) ==
    /\ pinnedSince[p] \subseteq pins
    /\ ppc[p] \in {"release", "manifest", "pin"} => Candidate(p) \notin pinnedSince[p]

PinInv == Shapes /\ Lists /\ \A p \in Pruners : StillPinned(p)

-----------------------------------------------------------------------------

\* What a prune or an import does next, once it is under way.
PruneGoesOn(p) ==
    \/ SkipPinned(p) \/ KeepNewest(p) \/ GetFiles(p) \/ Release(p)
    \/ RemoveManifest(p) \/ ManifestGone(p) \/ RemovePin(p) \/ ReadDir(p) \/ ReplaceCache(p)

BackupGoesOn(b) == StoreChunks(b) \/ WriteManifest(b) \/ RecordFiles(b) \/ PushCache(b)

\* The variables keep their shapes.
LEMMA ShapesInit == Init => Shapes
  BY DEF Init, Shapes

\* A step changes none of them.
LEMMA ShapesNext == Shapes /\ [Next]_vars => Shapes'
  <1> SUFFICES ASSUME Shapes, [Next]_vars
               PROVE  Shapes'
    OBVIOUS
  <1> USE DEF Shapes
  <1>1. ASSUME NEW b \in Backups, BackupGoesOn(b)
        PROVE  Shapes'
    <2>1. CASE StoreChunks(b)
      BY <2>1 DEF StoreChunks, pruneVars
    <2>2. CASE WriteManifest(b)
      BY <2>2 DEF WriteManifest, pruneVars
    <2>3. CASE RecordFiles(b)
      BY <2>3 DEF RecordFiles, pruneVars
    <2>4. CASE PushCache(b)
      BY <2>4 DEF PushCache, pruneVars
    <2> QED
      BY <1>1, <2>1, <2>2, <2>3, <2>4 DEF BackupGoesOn
  <1>2. ASSUME NEW s \in Snapshots, Pin(s)
        PROVE  Shapes'
    BY <1>2 DEF Pin, backupVars, pruneVars, Snapshots
  <1>3. ASSUME NEW p \in Pruners, NEW k \in Keep, StartPrune(p, k)
        PROVE  Shapes'
    BY <1>3 DEF StartPrune, backupVars
  <1>4. ASSUME NEW p \in Pruners, PruneGoesOn(p)
        PROVE  Shapes'
    <2> USE DEF backupVars, Advance
    <2>1. CASE SkipPinned(p)
      BY <2>1 DEF SkipPinned
    <2>2. CASE KeepNewest(p)
      BY <2>2 DEF KeepNewest
    <2>3. CASE GetFiles(p)
      BY <2>3 DEF GetFiles
    <2>4. CASE Release(p)
      BY <2>4 DEF Release
    <2>5. CASE RemoveManifest(p)
      <3>1. /\ ppc' = [ppc EXCEPT ![p] = "pin"] /\ pinnedSince' = pinnedSince
            /\ pins' = pins /\ clock' = clock /\ bpc' = bpc /\ taken' = taken
            /\ crashes' = crashes
        BY <2>5, Zenon DEF RemoveManifest
      <3> QED
        BY <3>1
    <2>9. CASE ManifestGone(p)
      BY <2>9 DEF ManifestGone
    <2>6. CASE RemovePin(p)
      BY <2>6 DEF RemovePin
    <2>7. CASE ReadDir(p)
      BY <2>7 DEF ReadDir, EndLoop
    <2>8. CASE ReplaceCache(p)
      <3>1. /\ ppc' = [ppc EXCEPT ![p] = "idle"] /\ pinnedSince' = pinnedSince
            /\ pins' = pins /\ clock' = clock /\ bpc' = bpc /\ taken' = taken
            /\ crashes' = crashes
        BY <2>8, Zenon DEF ReplaceCache, Return
      <3> QED
        BY <3>1
    <2> QED
      BY <1>4, <2>1, <2>2, <2>3, <2>4, <2>5, <2>6, <2>7, <2>8, <2>9 DEF PruneGoesOn
  <1>5. ASSUME NEW p \in Pruners, Import(p)
        PROVE  Shapes'
    <2>1. /\ ppc' = [ppc EXCEPT ![p] = "check"] /\ pinnedSince' = pinnedSince
          /\ clock' = clock /\ bpc' = bpc /\ taken' = taken /\ crashes' = crashes
      BY <1>5, Zenon DEF Import, backupVars
    <2>2. \E t \in 1..clock : pins' \in {pins, pins \cup {t}}
      BY <1>5 DEF Import
    <2> QED
      BY <2>1, <2>2
  <1>6. CASE Crash
    <2>1. /\ bpc' = [b \in Backups |-> "idle"] /\ taken' = [b \in Backups |-> 0]
          /\ ppc' = [p \in Pruners |-> "idle"]
          /\ pinnedSince' = [p \in Pruners |-> {}]
          /\ crashes' = crashes + 1 /\ pins' = pins /\ clock' = clock
      BY <1>6, Zenon DEF Crash
    <2> QED
      BY <2>1
  <1>7. CASE UNCHANGED vars
    BY <1>7 DEF vars, backupVars, pruneVars
  <1> QED
    BY <1>1, <1>2, <1>3, <1>4, <1>5, <1>6, <1>7 DEF Next, PruneGoesOn, BackupGoesOn

\* So do the lists of the prunes.
LEMMA ListsNext == Lists /\ [Next]_vars => Lists'
  <1> SUFFICES ASSUME Lists, [Next]_vars
               PROVE  Lists'
    OBVIOUS
  <1> USE DEF Lists
  <1>1. ASSUME NEW b \in Backups, BackupGoesOn(b)
        PROVE  Lists'
    BY <1>1 DEF BackupGoesOn, StoreChunks, WriteManifest, RecordFiles, PushCache, pruneVars
  <1>2. ASSUME NEW s \in Snapshots, Pin(s)
        PROVE  Lists'
    BY <1>2 DEF Pin, pruneVars
  <1>3. ASSUME NEW p \in Pruners, NEW k \in Keep, StartPrune(p, k)
        PROVE  Lists'
    BY <1>3, Zenon DEF StartPrune
  <1>4. ASSUME NEW p \in Pruners,
               SkipPinned(p) \/ KeepNewest(p) \/ ManifestGone(p) \/ RemovePin(p)
        PROVE  Lists'
    BY <1>4, Zenon DEF SkipPinned, KeepNewest, ManifestGone, RemovePin, Advance
  <1>5. ASSUME NEW p \in Pruners, ReadDir(p)
        PROVE  Lists'
    BY <1>5, Zenon DEF ReadDir, EndLoop
  <1>6. ASSUME NEW p \in Pruners,
               GetFiles(p) \/ Release(p) \/ RemoveManifest(p) \/ ReplaceCache(p) \/ Import(p)
        PROVE  Lists'
    BY <1>6, Zenon DEF GetFiles, Release, RemoveManifest, ReplaceCache, Return, Import
  <1>7. CASE Crash
    BY <1>7, Zenon DEF Crash
  <1>8. CASE UNCHANGED vars
    BY <1>8 DEF vars, pruneVars
  <1> QED
    BY <1>1, <1>2, <1>3, <1>4, <1>5, <1>6, <1>7, <1>8 DEF Next, BackupGoesOn

-----------------------------------------------------------------------------

\* No step of a backup leaves a snapshot without its file list, but one being taken.
LEMMA WholeBackup ==
  ASSUME WholeInv, NEW b \in Backups, BackupGoesOn(b)
  PROVE  WholeSnapshots'
  <1> USE DEF WholeInv, Shapes, Lists, WholeSnapshots, Candidate, pruneVars, indexVars
  <1>1. CASE StoreChunks(b)
    BY <1>1 DEF StoreChunks
  <1>2. CASE WriteManifest(b)
    BY <1>2 DEF WriteManifest
  <1>3. CASE RecordFiles(b)
    BY <1>3 DEF RecordFiles
  <1>4. CASE PushCache(b)
    BY <1>4 DEF PushCache
  <1> QED
    BY <1>1, <1>2, <1>3, <1>4 DEF BackupGoesOn

\* Nor does a step of a prune, but for the one being deleted.
LEMMA WholePrune ==
  ASSUME WholeInv, NEW p \in Pruners, PruneGoesOn(p)
  PROVE  WholeSnapshots'
  <1> USE DEF WholeInv, Shapes, Lists, WholeSnapshots, Candidate, Advance, backupVars, indexVars
  <1>1. CASE SkipPinned(p)
    BY <1>1 DEF SkipPinned
  <1>2. CASE KeepNewest(p)
    BY <1>2 DEF KeepNewest
  <1>3. CASE GetFiles(p)
    BY <1>3 DEF GetFiles
  <1>4. CASE Release(p)
    BY <1>4 DEF Release
  <1>5. CASE RemoveManifest(p)
    BY <1>5 DEF RemoveManifest
  <1>6. CASE RemovePin(p)
    BY <1>6 DEF RemovePin
  <1>7. CASE ReadDir(p)
    BY <1>7 DEF ReadDir, EndLoop
  <1>8. CASE ReplaceCache(p)
    BY <1>8 DEF ReplaceCache, Return
  <1>9. CASE ManifestGone(p)
    BY <1>9 DEF ManifestGone
  <1> QED
    BY <1>1, <1>2, <1>3, <1>4, <1>5, <1>6, <1>7, <1>8, <1>9 DEF PruneGoesOn

\* Whatever prunes, backups, pins and imports run side by side, and without a crash,
\* every snapshot on disk has its manifest and its file list together.
THEOREM SnapshotsWhole == Spec => []WholeSnapshots
  <1>1. Init => WholeInv
    BY ShapesInit, Zenon DEF WholeInv, Lists, Init, WholeSnapshots
  <1>2. WholeInv /\ [Next]_vars => WholeInv'
    <2> SUFFICES ASSUME WholeInv, [Next]_vars
                 PROVE  WholeSnapshots'
      BY ShapesNext, ListsNext DEF WholeInv
    <2> USE DEF WholeInv, Shapes, Lists, WholeSnapshots, Candidate
    <2>1. ASSUME NEW s \in Snapshots, Pin(s)
          PROVE  WholeSnapshots'
      BY <2>1 DEF Pin, indexVars, backupVars, pruneVars
    <2>2. ASSUME NEW p \in Pruners, NEW k \in Keep, StartPrune(p, k)
          PROVE  WholeSnapshots'
      BY <2>2 DEF StartPrune, indexVars, backupVars
    <2>3. ASSUME NEW p \in Pruners, Import(p)
          PROVE  WholeSnapshots'
      BY <2>3 DEF Import, indexVars, backupVars
    <2>4. CASE Crash
      <3>1. crashes' = crashes + 1
        BY <2>4, Zenon DEF Crash
      <3> QED
        BY <3>1
    <2>5. CASE UNCHANGED vars
      BY <2>5 DEF vars, indexVars, backupVars, pruneVars
    <2> QED
      BY <2>1, <2>2, <2>3, <2>4, <2>5, WholeBackup, WholePrune
         DEF Next, BackupGoesOn, PruneGoesOn
  <1>3. WholeInv => WholeSnapshots
    BY DEF WholeInv
  <1> QED
    BY <1>1, <1>2, <1>3, PTL DEF Spec

-----------------------------------------------------------------------------

\* A step of one prune leaves what another goes by, but for pins that it removes.
LEMMA OtherPrune ==
  ASSUME Shapes, Lists, NEW p \in Pruners, NEW q \in Pruners, p # q, PruneGoesOn(q)
  PROVE  /\ ppc'[p] = ppc[p] /\ todo'[p] = todo[p]
         /\ \/ pins' = pins /\ pinnedSince'[p] \in {pinnedSince[p], {}} /\ pinnedSince'[p] \subseteq pinnedSince[p]
            \/ \E s \in {Candidate(q)} : pins' = pins \ {s} /\ pinnedSince'[p] = pinnedSince[p] \ {s}
  <1> USE DEF Shapes, Lists, Advance
  <1>1. CASE SkipPinned(q)
    BY <1>1 DEF SkipPinned
  <1>2. CASE KeepNewest(q)
    BY <1>2 DEF KeepNewest
  <1>3. CASE GetFiles(q)
    BY <1>3 DEF GetFiles
  <1>4. CASE Release(q)
    BY <1>4 DEF Release
  <1>5. CASE RemoveManifest(q)
    <2>1. /\ ppc' = [ppc EXCEPT ![q] = "pin"] /\ UNCHANGED <<todo, pins, pinnedSince>>
      BY <1>5, Zenon DEF RemoveManifest
    <2> QED
      BY <2>1
  <1>6. CASE ManifestGone(q)
    BY <1>6 DEF ManifestGone
  <1>7. CASE RemovePin(q)
    BY <1>7 DEF RemovePin
  <1>8. CASE ReadDir(q)
    BY <1>8 DEF ReadDir, EndLoop
  <1>9. CASE ReplaceCache(q)
    <2>1. /\ ppc' = [ppc EXCEPT ![q] = "idle"] /\ UNCHANGED <<todo, pins, pinnedSince>>
      BY <1>9, Zenon DEF ReplaceCache, Return
    <2> QED
      BY <2>1
  <1> QED
    BY <1>1, <1>2, <1>3, <1>4, <1>5, <1>6, <1>7, <1>8, <1>9 DEF PruneGoesOn

\* No prune deletes what has been pinned since it began.
LEMMA PinPrune ==
  ASSUME PinInv, NEW p \in Pruners, NEW q \in Pruners, PruneGoesOn(q)
  PROVE  StillPinned(p)'
  <1>1. CASE p # q
    BY <1>1, OtherPrune DEF PinInv, StillPinned, Candidate
  <1>2. CASE p = q
    <2> USE <1>2 DEF PinInv, Shapes, Lists, StillPinned, Candidate, Advance
    <2>1. CASE SkipPinned(p)
      BY <2>1 DEF SkipPinned
    <2>2. CASE KeepNewest(p)
      BY <2>2 DEF KeepNewest
    <2>3. CASE GetFiles(p)
      BY <2>3 DEF GetFiles
    <2>4. CASE Release(p)
      BY <2>4 DEF Release
    <2>5. CASE RemoveManifest(p)
      <3>1. /\ ppc[p] = "manifest" /\ UNCHANGED <<todo, pins, pinnedSince>>
        BY <2>5, Zenon DEF RemoveManifest
      <3> QED
        BY <3>1
    <2>6. CASE ManifestGone(p)
      BY <2>6 DEF ManifestGone
    <2>7. CASE RemovePin(p)
      BY <2>7 DEF RemovePin
    <2>8. CASE ReadDir(p)
      BY <2>8 DEF ReadDir, EndLoop
    <2>9. CASE ReplaceCache(p)
      <3>1. /\ ppc' = [ppc EXCEPT ![p] = "idle"] /\ UNCHANGED <<pins, pinnedSince>>
        BY <2>9, Zenon DEF ReplaceCache, Return
      <3> QED
        BY <3>1
    <2> QED
      BY <2>1, <2>2, <2>3, <2>4, <2>5, <2>6, <2>7, <2>8, <2>9 DEF PruneGoesOn
  <1> QED
    BY <1>1, <1>2

\* The invariant holds from one step to the next ...
LEMMA PinNext == PinInv /\ [Next]_vars => PinInv'
  <1> SUFFICES ASSUME PinInv, [Next]_vars, NEW p \in Pruners
               PROVE  StillPinned(p)'
    BY ShapesNext, ListsNext DEF PinInv
  <1> USE DEF PinInv, Shapes, Lists, StillPinned, Candidate
  <1>1. ASSUME NEW b \in Backups, BackupGoesOn(b)
        PROVE  StillPinned(p)'
    BY <1>1 DEF BackupGoesOn, StoreChunks, WriteManifest, RecordFiles, PushCache, pruneVars
  <1>2. ASSUME NEW s \in Snapshots, Pin(s)
        PROVE  StillPinned(p)'
    BY <1>2 DEF Pin, pruneVars
  <1>3. ASSUME NEW q \in Pruners, NEW k \in Keep, StartPrune(q, k)
        PROVE  StillPinned(p)'
    <2>1. /\ ppc' = [ppc EXCEPT ![q] = "check"] /\ pinnedSince' = [pinnedSince EXCEPT ![q] = pins]
          /\ todo' = [todo EXCEPT ![q] = NewestFirst(cache)] /\ pins' = pins
      BY <1>3, Zenon DEF StartPrune
    <2> QED
      BY <2>1
  <1>4. ASSUME NEW q \in Pruners, Import(q)
        PROVE  StillPinned(p)'
    <2>1. /\ ppc' = [ppc EXCEPT ![q] = "check"] /\ UNCHANGED <<todo, pinnedSince>>
      BY <1>4, Zenon DEF Import
    <2>2. pins \subseteq pins'
      BY <1>4 DEF Import
    <2> QED
      BY <2>1, <2>2
  <1>5. CASE Crash
    BY <1>5 DEF Crash
  <1>6. CASE UNCHANGED vars
    BY <1>6 DEF vars, pruneVars
  <1>7. ASSUME NEW q \in Pruners, PruneGoesOn(q)
        PROVE  StillPinned(p)'
    BY <1>7, PinPrune
  <1> QED
    BY <1>1, <1>2, <1>3, <1>4, <1>5, <1>6, <1>7
       DEF Next, BackupGoesOn, PruneGoesOn

\* ... and so a manifest goes only by a prune that has not found it pinned ever since it
\* began, however other prunes, pins, imports and crashes interleave with it.
THEOREM PinnedNeverPruned == Spec => PinnedKept
  <1> DEFINE Unpinned == \A s \in manifests \ manifests' :
                 \E p \in Pruners :
                    ppc[p] = "manifest" /\ s = Candidate(p) /\ s \notin pinnedSince[p]
  <1>1. Init => PinInv
    BY ShapesInit DEF PinInv, Lists, Init, StillPinned
  <1>2. PinInv /\ [Next]_vars => PinInv'
    BY PinNext
  <1>3. PinInv /\ [Next]_vars => [Unpinned]_vars
    <2> SUFFICES ASSUME PinInv, Next, NEW s \in manifests \ manifests'
                 PROVE  \E p \in Pruners :
                    ppc[p] = "manifest" /\ s = Candidate(p) /\ s \notin pinnedSince[p]
      OBVIOUS
    <2>1. ASSUME NEW b \in Backups, BackupGoesOn(b)
          PROVE  FALSE
      BY <2>1 DEF BackupGoesOn, StoreChunks, WriteManifest, RecordFiles, PushCache
    <2>2. ASSUME NEW t \in Snapshots, Pin(t)
          PROVE  FALSE
      BY <2>2 DEF Pin
    <2>3. ASSUME NEW p \in Pruners, NEW k \in Keep, StartPrune(p, k)
          PROVE  FALSE
      BY <2>3 DEF StartPrune
    <2>4. ASSUME NEW p \in Pruners, PruneGoesOn(p) \/ Import(p), ~ RemoveManifest(p)
          PROVE  FALSE
      BY <2>4 DEF PruneGoesOn, Import, SkipPinned, KeepNewest, GetFiles, Release, ManifestGone, RemovePin,
         ReadDir, ReplaceCache
    <2>5. ~ Crash
      BY DEF Crash
    <2>6. PICK p \in Pruners : RemoveManifest(p)
      BY <2>1, <2>2, <2>3, <2>4, <2>5 DEF Next, BackupGoesOn, PruneGoesOn
    <2> QED
      BY <2>6 DEF RemoveManifest, PinInv, StillPinned
  <1> QED
    BY <1>1, <1>2, <1>3, PTL DEF Spec, PinnedKept

-----------------------------------------------------------------------------
(* Sorting *)

\* A set of numbers has a least one ...
LEMMA LeastNumber ==
  ASSUME NEW T, T \subseteq Nat, T # {}
  PROVE  \E i \in T : \A j \in T : i <= j
  <1> DEFINE R == {ss \in Nat \X Nat : ss[1] < ss[2]}
  <1>1. IsWellFoundedOn(R, Nat)
    BY NatLessThanWellFounded, Zenon DEF OpToRel
  <1>2. \A i, j \in Nat : <<j, i>> \in R <=> j < i
    OBVIOUS
  <1> HIDE DEF R
  <1>3. PICK i \in T : \A j \in T : <<j, i>> \notin R
    BY <1>1, WFMin, Zenon
  <1>4. ASSUME NEW j \in T PROVE i <= j
    <2>1. i \in Nat /\ j \in Nat
      OBVIOUS
    <2>2. ~ (j < i)
      BY <1>2, <1>3, <2>1, Zenon
    <2> QED
      BY <2>1, <2>2
  <1> QED
    BY <1>4

\* ... and, up to a bound, a greatest one.
LEMMA GreatestNumber ==
  ASSUME NEW n \in Nat, NEW T, T \subseteq 1..n, T # {}
  PROVE  \E i \in T : \A j \in T : j <= i
  <1> DEFINE Gaps == {n - i : i \in T}
  <1>1. \A i \in T : i \in Nat /\ n - i \in Nat
    OBVIOUS
  <1>2. Gaps \subseteq Nat /\ Gaps # {}
    BY <1>1
  <1>3. PICK g \in Gaps : \A h \in Gaps : g <= h
    <2> HIDE DEF Gaps
    <2> QED
      BY <1>2, LeastNumber, Zenon
  <1>4. PICK i \in T : g = n - i
    OBVIOUS
  <1>5. ASSUME NEW j \in T PROVE j <= i
    <2>1. n - j \in Gaps
      OBVIOUS
    <2>2. n - i <= n - j
      BY <1>3, <1>4, <2>1
    <2> QED
      BY <1>1, <2>2
  <1> QED
    BY <1>5

\* Where a list has a snapshot as new as s, or a newer one.
From(list, s) == {j \in DOMAIN list : list[j] >= s}
After(list, s) == {j \in DOMAIN list : list[j] > s}

\* The i-th newest snapshot of a list.
Nth(list, i, s) ==
    /\ s \in ToSet(list)
    /\ Cardinality(After(list, s)) < i /\ i <= Cardinality(From(list, s))

\* Those are finite sets, and the newer the snapshot, the smaller.
LEMMA Ranks ==
  ASSUME NEW n \in Nat, NEW list \in Seq(1..n), NEW s, NEW t
  PROVE  /\ IsFiniteSet(From(list, s)) /\ Cardinality(From(list, s)) \in Nat
         /\ IsFiniteSet(After(list, s)) /\ Cardinality(After(list, s)) \in Nat
         /\ From(list, s) \subseteq From(list, t) =>
               Cardinality(From(list, s)) <= Cardinality(From(list, t))
         /\ From(list, s) \subseteq After(list, t) =>
               Cardinality(From(list, s)) <= Cardinality(After(list, t))
  <1>1. Len(list) \in Nat /\ DOMAIN list = 1..Len(list)
    OBVIOUS
  <1>2. IsFiniteSet(DOMAIN list)
    BY <1>1, FS_Interval
  <1>3. \A u : From(list, u) \subseteq DOMAIN list /\ After(list, u) \subseteq DOMAIN list
    BY DEF From, After
  <1>4. \A u : IsFiniteSet(From(list, u)) /\ IsFiniteSet(After(list, u))
    BY <1>2, <1>3, FS_Subset, Zenon
  <1> QED
    BY <1>4, FS_Subset, FS_CardinalityType, Zenon

\* Each place of the sorted list has its snapshot: the newest of those with enough others
\* as new.
LEMMA NthExists ==
  ASSUME NEW n \in Nat, NEW list \in Seq(1..n), NEW i \in DOMAIN list
  PROVE  \E s : Nth(list, i, s)
  <1> DEFINE V == ToSet(list)
             Enough == {s \in V : i <= Cardinality(From(list, s))}
  <1>1. V \subseteq 1..n /\ V # {} /\ i \in Nat
    BY DEF ToSet
  <1>2. Enough # {}
    <2>1. PICK s \in V : \A t \in V : s <= t
      <3> HIDE DEF V
      <3>1. V \subseteq Nat
        BY <1>1
      <3> QED
        BY <1>1, <3>1, LeastNumber, Zenon
    <2>2. From(list, s) = 1..Len(list)
      BY <2>1 DEF From, ToSet
    <2>3. Cardinality(From(list, s)) = Len(list)
      <3>1. Len(list) \in Nat
        OBVIOUS
      <3>2. Cardinality(1..Len(list)) = Len(list)
        <4>1. Cardinality(1..Len(list)) = IF 1 > Len(list) THEN 0 ELSE Len(list) - 1 + 1
          BY <3>1, FS_Interval
        <4> QED
          BY <3>1, <4>1
      <3> QED
        BY <2>2, <3>2, Zenon
    <2>4. i <= Len(list)
      OBVIOUS
    <2> QED
      BY <2>1, <2>3, <2>4
  <1>3. PICK s \in Enough : \A t \in Enough : t <= s
    <2> HIDE DEF V
    <2>1. Enough \subseteq 1..n
      BY <1>1
    <2> HIDE DEF Enough
    <2> QED
      BY <1>2, <2>1, GreatestNumber, Zenon
  <1>4. Cardinality(After(list, s)) < i
    <2> SUFFICES ASSUME ~ (Cardinality(After(list, s)) < i)  PROVE  FALSE
      OBVIOUS
    <2>1. Cardinality(After(list, s)) \in Nat
      BY Ranks, Zenon
    <2>2. i <= Cardinality(After(list, s)) /\ i >= 1
      BY <1>1, <2>1
    <2> DEFINE Newer == {t \in V : t > s}
    <2>3. Newer # {}
      <3> SUFFICES ASSUME Newer = {}  PROVE  FALSE
        OBVIOUS
      <3>1. After(list, s) = {}
        BY DEF After, ToSet
      <3>2. Cardinality(After(list, s)) = 0
        BY <3>1, FS_EmptySet, Zenon
      <3> QED
        BY <1>1, <2>2, <3>2
    <2>4. PICK t \in Newer : \A u \in Newer : t <= u
      <3>1. Newer \subseteq Nat
        BY <1>1
      <3> HIDE DEF Newer
      <3> QED
        BY <2>3, <3>1, LeastNumber, Zenon
    <2>5. From(list, t) = After(list, s)
      <3>1. \A j \in DOMAIN list : list[j] \in V /\ list[j] \in Nat
        BY <1>1 DEF ToSet
      <3>2. s \in Nat /\ t \in Nat /\ t > s
        BY <1>1
      <3>3. ASSUME NEW j \in DOMAIN list PROVE list[j] >= t <=> list[j] > s
        <4> HIDE DEF V
        <4>1. list[j] > s => list[j] \in Newer
          BY <3>1
        <4>2. list[j] > s => t <= list[j]
          BY <2>4, <4>1
        <4> QED
          BY <3>1, <3>2, <4>2
      <3> QED
        BY <3>3 DEF From, After
    <2>6. t \in Enough
      BY <2>2, <2>5
    <2>7. t <= s /\ t > s /\ t \in Nat /\ s \in Nat
      BY <1>1, <1>3, <2>6
    <2> QED
      BY <2>7
  <1> QED
    BY <1>4 DEF Nth

\* A sorted list has the snapshots of the list, newest first, each as often: in particular
\* one that the list has once, it has once.
LEMMA Sorted ==
  ASSUME NEW n \in Nat, NEW list \in Seq(1..n)
  PROVE  /\ NewestFirst(list) \in Seq(1..n) /\ DOMAIN NewestFirst(list) = DOMAIN list
         /\ \A i \in DOMAIN list : NewestFirst(list)[i] \in ToSet(list)
         /\ \A i, j \in DOMAIN list : i < j => NewestFirst(list)[i] >= NewestFirst(list)[j]
         /\ \A s : (\A i, j \in DOMAIN list : list[i] = s /\ list[j] = s => i = j) =>
               \A i, j \in DOMAIN list :
                  NewestFirst(list)[i] = s /\ NewestFirst(list)[j] = s => i = j
  <1> DEFINE q == NewestFirst(list)
  <1>1. q = [i \in DOMAIN list |-> CHOOSE s \in ToSet(list) :
                 Cardinality(After(list, s)) < i /\ i <= Cardinality(From(list, s))]
    BY DEF NewestFirst, From, After
  <1>2. DOMAIN list = 1..Len(list) /\ Len(list) \in Nat /\ ToSet(list) \subseteq 1..n
    BY DEF ToSet
  <1>3. ASSUME NEW i \in DOMAIN list  PROVE  Nth(list, i, q[i])
    <2>1. q[i] = CHOOSE s \in ToSet(list) :
                    Cardinality(After(list, s)) < i /\ i <= Cardinality(From(list, s))
      BY <1>1
    <2> HIDE DEF q
    <2>2. \E s \in ToSet(list) : Cardinality(After(list, s)) < i /\ i <= Cardinality(From(list, s))
      BY NthExists DEF Nth
    <2> QED
      BY <2>1, <2>2, Zenon DEF Nth
  <1>4. DOMAIN q = DOMAIN list
    BY <1>1
  <1> HIDE DEF q
  <1>5. \A i \in DOMAIN list : q[i] \in ToSet(list) /\ q[i] \in 1..n
    BY <1>2, <1>3 DEF Nth
  <1>6. q \in Seq(1..n)
    <2>1. q \in [1..Len(list) -> 1..n]
      <3> DEFINE pick(i) == CHOOSE s \in ToSet(list) :
                    Cardinality(After(list, s)) < i /\ i <= Cardinality(From(list, s))
      <3>1. q = [i \in DOMAIN list |-> pick(i)]
        BY <1>1, Zenon
      <3>2. \A i \in DOMAIN list : q[i] = pick(i)
        BY <3>1
      <3> HIDE DEF pick
      <3>3. \A i \in DOMAIN list : pick(i) \in 1..n
        BY <1>5, <3>2
      <3> QED
        BY <1>2, <3>1, <3>3
    <2> QED
      BY <1>2, <2>1
  <1>7. ASSUME NEW i \in DOMAIN list, NEW j \in DOMAIN list, i < j  PROVE  q[i] >= q[j]
    <2> SUFFICES ASSUME ~ (q[i] >= q[j])  PROVE  FALSE
      OBVIOUS
    <2>1. q[i] \in Nat /\ q[j] \in Nat /\ q[j] > q[i]
      BY <1>5
    <2>2. From(list, q[j]) \subseteq After(list, q[i])
      <3>1. \A k \in DOMAIN list : list[k] \in Nat
        BY <1>2
      <3> QED
        BY <2>1, <3>1 DEF From, After
    <2>3. Cardinality(From(list, q[j])) <= Cardinality(After(list, q[i]))
      BY <2>2, Ranks, Zenon
    <2>4. Cardinality(After(list, q[i])) < i /\ j <= Cardinality(From(list, q[j]))
      BY <1>3 DEF Nth
    <2>5. Cardinality(After(list, q[i])) \in Nat /\ Cardinality(From(list, q[j])) \in Nat
      BY Ranks, Zenon
    <2> QED
      BY <1>2, <1>7, <2>3, <2>4, <2>5
  <1>8. ASSUME NEW s, \A i, j \in DOMAIN list : list[i] = s /\ list[j] = s => i = j,
               NEW i \in DOMAIN list, NEW j \in DOMAIN list, q[i] = s, q[j] = s
        PROVE  i >= j
    <2>1. s \in ToSet(list) /\ Cardinality(After(list, s)) < i /\ j <= Cardinality(From(list, s))
      BY <1>3, <1>8 DEF Nth
    <2>2. PICK k \in DOMAIN list : list[k] = s
      BY <2>1 DEF ToSet
    <2>3. From(list, s) \subseteq After(list, s) \cup {k}
      <3>1. \A m \in DOMAIN list : list[m] \in Nat
        BY <1>2
      <3>2. s \in Nat
        BY <1>2, <2>1
      <3>3. ASSUME NEW m \in DOMAIN list, list[m] >= s  PROVE  list[m] > s \/ m = k
        <4>1. list[m] = s \/ list[m] > s
          BY <3>1, <3>2, <3>3
        <4> QED
          BY <1>8, <2>2, <4>1
      <3> QED
        BY <3>3 DEF From, After
    <2>4. /\ IsFiniteSet(After(list, s)) /\ Cardinality(After(list, s)) \in Nat
          /\ Cardinality(From(list, s)) \in Nat
      BY Ranks, Zenon
    <2>5. IsFiniteSet(After(list, s) \cup {k})
          /\ Cardinality(After(list, s) \cup {k}) \in Nat
          /\ Cardinality(After(list, s) \cup {k}) <= Cardinality(After(list, s)) + 1
      <3>1. IsFiniteSet(After(list, s) \cup {k})
        BY <2>4, FS_AddElement
      <3>2. \/ Cardinality(After(list, s) \cup {k}) = Cardinality(After(list, s))
            \/ Cardinality(After(list, s) \cup {k}) = Cardinality(After(list, s)) + 1
        BY <2>4, FS_AddElement
      <3> QED
        BY <2>4, <3>1, <3>2
    <2>6. Cardinality(From(list, s)) <= Cardinality(After(list, s) \cup {k})
      BY <2>3, <2>5, FS_Subset, Zenon
    <2> QED
      BY <1>2, <2>1, <2>4, <2>5, <2>6
  <1>9. ASSUME NEW s, \A i, j \in DOMAIN list : list[i] = s /\ list[j] = s => i = j,
               NEW i \in DOMAIN list, NEW j \in DOMAIN list, q[i] = s, q[j] = s
        PROVE  i = j
    <2>1. i >= j
      BY <1>8, <1>9, Zenon
    <2>2. j >= i
      BY <1>8, <1>9, Zenon
    <2> QED
      BY <1>2, <2>1, <2>2
  <1> QED
    BY <1>4, <1>5, <1>6, <1>7, <1>9, Zenon DEF q

\* The lists of all of S's elements, in ascending order.
Ascending(S) == {q \in [1..Cardinality(S) -> S] : \A i, j \in DOMAIN q : i < j => q[i] < q[j]}

\* Numbers up to a bound can be listed in order: otherwise there would be a least bound
\* for which they cannot, and without it, or before it, they can.
LEMMA Listable ==
  ASSUME NEW n \in Nat
  PROVE  \A S \in SUBSET (1..n) : Ascending(S) # {}
  <1> DEFINE Listed(m) == \A S \in SUBSET (1..m) : Ascending(S) # {}
             Unlisted == {m \in Nat : ~ Listed(m)}
  <1>1. SUFFICES ASSUME Unlisted # {}  PROVE  FALSE
    OBVIOUS
  <1>2. PICK m \in Unlisted : \A k \in Unlisted : m <= k
    <2> HIDE DEF Unlisted
    <2>1. Unlisted \subseteq Nat
      BY DEF Unlisted
    <2> QED
      BY <1>1, <2>1, LeastNumber, Zenon
  <1>3. m \in Nat /\ ~ Listed(m)
    OBVIOUS
  <1>4. PICK S \in SUBSET (1..m) : Ascending(S) = {}
    BY <1>3
  <1>5. m # 0
    <2>1. ASSUME m = 0 PROVE FALSE
      <3>1. S = {}
        BY <2>1
      <3>2. Cardinality(S) = 0
        BY <3>1, FS_EmptySet
      <3>3. 1..Cardinality(S) = {}
        BY <3>2
      <3>4. [i \in {} |-> i] \in Ascending(S)
        BY <3>3 DEF Ascending
      <3> QED
        BY <1>4, <3>4
    <2> QED
      BY <2>1
  <1>6. m - 1 \in Nat /\ Listed(m - 1)
    <2>1. m - 1 \in Nat /\ ~ (m <= m - 1)
      BY <1>3, <1>5
    <2> HIDE DEF Listed
    <2> QED
      BY <1>2, <2>1
  <1> DEFINE T == S \ {m}
  <1>7. T \in SUBSET (1..m - 1) /\ m \in 1..m /\ \A i \in T : i < m
    BY <1>3, <1>5
  <1>8. PICK q : q \in Ascending(T)
    BY <1>6, <1>7
  <1>9. m \in S
    <2>1. ASSUME m \notin S  PROVE  FALSE
      <3>1. T = S
        BY <2>1
      <3> QED
        BY <1>4, <1>8, <3>1
    <2> QED
      BY <2>1
  <1>10. IsFiniteSet(S) /\ Cardinality(S) \in Nat /\ Cardinality(T) = Cardinality(S) - 1
         /\ Cardinality(T) \in Nat
    <2>1. IsFiniteSet(1..m)
      BY <1>3, FS_Interval
    <2>2. IsFiniteSet(S)
      BY <2>1, FS_Subset
    <2>3. IsFiniteSet(T) /\ Cardinality(T) = Cardinality(S) - 1
      BY <1>9, <2>2, FS_RemoveElement
    <2> QED
      BY <2>2, <2>3, FS_CardinalityType
  <1> DEFINE c == Cardinality(S)
             r == [i \in 1..c |-> IF i = c THEN m ELSE q[i]]
  <1>11. q \in [1..c - 1 -> T] /\ \A i, j \in 1..c - 1 : i < j => q[i] < q[j]
    <2>1. q \in [1..c - 1 -> T] /\ \A i, j \in DOMAIN q : i < j => q[i] < q[j]
      BY <1>8, <1>10 DEF Ascending
    <2> QED
      BY <2>1
  <1>12. c \in Nat
    BY <1>10
  <1> HIDE DEF c
  <1>13. \A i \in 1..c : i = c \/ i \in 1..c - 1
    BY <1>12
  <1> HIDE DEF T
  <1>14. \A i \in 1..c : r[i] = IF i = c THEN m ELSE q[i]
    OBVIOUS
  <1>15. r \in [1..c -> S]
    <2>1. \A i \in 1..c : r[i] \in S
      BY <1>9, <1>11, <1>13, <1>14 DEF T
    <2> QED
      BY <2>1
  <1>16. DOMAIN r = 1..c
    OBVIOUS
  <1> HIDE DEF r
  <1>17. ASSUME NEW i \in 1..c, NEW j \in 1..c, i < j  PROVE  r[i] < r[j]
    <2>1. i \in 1..c - 1
      BY <1>12, <1>17
    <2>2. r[i] = q[i] /\ q[i] \in T
      BY <1>11, <1>12, <1>14, <2>1
    <2>3. CASE j = c
      BY <1>7, <1>14, <2>2, <2>3
    <2>4. CASE j # c
      <3>1. j \in 1..c - 1 /\ r[j] = q[j]
        BY <1>13, <1>14, <2>4
      <3> QED
        BY <1>11, <1>17, <2>1, <2>2, <3>1
    <2> QED
      BY <2>3, <2>4
  <1>18. r \in Ascending(S)
    BY <1>15, <1>16, <1>17 DEF Ascending, c
  <1> QED
    BY <1>4, <1>18


\* A directory is read into a list that has each of its snapshots, once.
LEMMA Reloaded ==
  ASSUME NEW n \in Nat, NEW S \in SUBSET (1..n)
  PROVE  /\ OldestFirst(S) \in Seq(1..n) /\ ToSet(OldestFirst(S)) = S
         /\ \A i, j \in DOMAIN OldestFirst(S) : OldestFirst(S)[i] = OldestFirst(S)[j] => i = j
  <1> DEFINE q == OldestFirst(S)
  <1>1. IsFiniteSet(S) /\ Cardinality(S) \in Nat
    <2>1. IsFiniteSet(1..n)
      BY FS_Interval
    <2> QED
      BY <2>1, FS_Subset, FS_CardinalityType
  <1>2. q \in Ascending(S)
    <2>1. Ascending(S) # {}
      BY Listable
    <2> QED
      BY <2>1 DEF OldestFirst, Ascending
  <1> HIDE DEF q
  <1>3. q \in [1..Cardinality(S) -> S] /\ \A i, j \in 1..Cardinality(S) : i < j => q[i] < q[j]
    BY <1>2 DEF Ascending
  <1>4. ASSUME NEW i \in 1..Cardinality(S), NEW j \in 1..Cardinality(S), q[i] = q[j]
        PROVE  i = j
    <2>1. q[i] \in Nat /\ q[j] \in Nat
      <3>1. q[i] \in S /\ q[j] \in S
        BY <1>3, Zenon
      <3>2. \A k \in S : k \in Nat
        OBVIOUS
      <3> QED
        BY <3>1, <3>2, Zenon
    <2>2. ~ (i < j) /\ ~ (j < i)
      BY <1>3, <1>4, <2>1
    <2> QED
      BY <1>1, <2>2
  <1>5. ToSet(q) = S
    <2> DEFINE D == 1..Cardinality(S)
    <2>1. IsFiniteSet(D) /\ Cardinality(D) = Cardinality(S)
      <3>1. IsFiniteSet(D) /\ Cardinality(D) = IF 1 > Cardinality(S) THEN 0 ELSE Cardinality(S) - 1 + 1
        BY <1>1, FS_Interval
      <3> QED
        BY <1>1, <3>1
    <2>2. q \in Injection(D, S)
      BY <1>3, <1>4 DEF Injection, IsInjective
    <2>3. q \in Surjection(D, S)
      <3> HIDE DEF D
      <3> QED
        BY <1>1, <2>1, <2>2, FS_Injection
    <2> QED
      BY <1>3, <2>3 DEF Surjection, ToSet
  <1>6. q \in Seq(1..n)
    <2>1. q \in [1..Cardinality(S) -> 1..n]
      BY <1>3
    <2> QED
      BY <1>1, <2>1
  <1> QED
    BY <1>3, <1>4, <1>5, <1>6 DEF q

-----------------------------------------------------------------------------
(* The list, the directory and the prune's copy of the list *)

Pending(b) == bpc[b] \in {"files", "push"}
Quiet == \A p \in Pruners : ppc[p] = "idle"

RetType ==
    /\ manifests \subseteq 1..clock
    /\ cache \in Seq(1..clock)
    /\ todo \in [Pruners -> Seq(1..clock)]
    /\ kept \in [Pruners -> Nat] /\ keep \in [Pruners -> Nat]
    /\ listed \in [Pruners -> SUBSET (1..clock)]
    /\ doubled \in [Pruners -> BOOLEAN]
    /\ lost \in [Pruners -> SUBSET (1..clock)]
    /\ DOMAIN touched = Pruners

\* A backup has a snapshot from its manifest to its push.
CommitInv ==
    \A b \in Backups :
        /\ taken[b] # 0 => Pending(b)
        /\ Pending(b) => taken[b] \in 1..clock

\* What a reload has read is what is on disk, but for what has been touched meanwhile.
MatchInv ==
    /\ ListMatches
    /\ \A p \in Pruners : ppc[p] = "reload" =>
          /\ listed[p] \subseteq manifests \cup touched[p]
          /\ manifests \subseteq listed[p] \cup touched[p]

\* A prune goes from the newest snapshot to the oldest.  If its copy of the list names none
\* twice, those it names are on disk, or were lost; and so are as many as it has counted,
\* newer than what is left.
Known(p) == manifests \cup lost[p]

Spared(p) ==
    {s \in Known(p) \ pinnedSince[p] : \A i \in DOMAIN todo[p] : s > todo[p][i]}

LoopInv(p) ==
    /\ ppc[p] \in {"idle", "reload"} => todo[p] = << >> /\ kept[p] = 0
    /\ ppc[p] \in {"release", "manifest", "pin"} => todo[p] # << >> /\ kept[p] >= keep[p]
    /\ ~ doubled[p] =>
         /\ \A i \in DOMAIN todo[p] : (ppc[p] = "pin" => i # 1) => todo[p][i] \in Known(p)
         /\ \A i, j \in DOMAIN todo[p] : i < j => todo[p][i] > todo[p][j]
         /\ ppc[p] \in {"check", "release", "manifest", "pin"} =>
               IsFiniteSet(Spared(p)) /\ kept[p] <= Cardinality(Spared(p))

RetInv == PinInv /\ RetType /\ CommitInv /\ MatchInv /\ \A p \in Pruners : LoopInv(p)

\* A list of numbers stays one when there are more of them.
LEMMA MoreNumbers ==
  ASSUME NEW m \in Nat, NEW n \in Nat, m <= n, NEW s \in Seq(1..m)
  PROVE  s \in Seq(1..n)
  <1>1. 1..m \subseteq 1..n
    OBVIOUS
  <1> DEFINE M == 1..m  N == 1..n
  <1>2. s \in Seq(M) /\ M \subseteq N
    BY <1>1
  <1> HIDE DEF M, N
  <1>3. s \in Seq(N)
    BY <1>2
  <1> QED
    BY <1>3 DEF N

\* The places of a list.
LEMMA Places ==
  ASSUME NEW n \in Nat, NEW s \in Seq(1..n)
  PROVE  \A i \in DOMAIN s : s[i] \in 1..n /\ i \in Nat /\ i >= 1 /\ 1 \in DOMAIN s
  OBVIOUS

\* The rest of a list.
LEMMA Rest ==
  ASSUME NEW n \in Nat, NEW s \in Seq(1..n), s # << >>
  PROVE  /\ Head(s) \in 1..n /\ Head(s) = s[1] /\ 1 \in DOMAIN s /\ Tail(s) \in Seq(1..n)
         /\ \A i \in DOMAIN Tail(s) : i \in Nat /\ i >= 1 /\ i + 1 \in DOMAIN s /\ Tail(s)[i] = s[i + 1]
  OBVIOUS

\* The types hold from one step to the next.
LEMMA RetTypeNext ==
  ASSUME Shapes, RetType, CommitInv, \A p \in Pruners : LoopInv(p), [Next]_vars
  PROVE  RetType'
  <1> DEFINE V == 1..clock
  <1>0. /\ clock \in Nat /\ manifests \subseteq V /\ cache \in Seq(V)
        /\ todo \in [Pruners -> Seq(V)] /\ listed \in [Pruners -> SUBSET V]
        /\ kept \in [Pruners -> Nat] /\ keep \in [Pruners -> Nat]
        /\ doubled \in [Pruners -> BOOLEAN] /\ lost \in [Pruners -> SUBSET V]
        /\ DOMAIN touched = Pruners
    BY DEF Shapes, RetType
  <1>s. ASSUME clock' = clock, manifests' \subseteq V, cache' \in Seq(V),
               todo' \in [Pruners -> Seq(V)], listed' \in [Pruners -> SUBSET V],
               kept' \in [Pruners -> Nat], keep' \in [Pruners -> Nat],
               doubled' \in [Pruners -> BOOLEAN], lost' \in [Pruners -> SUBSET V],
               DOMAIN touched' = Pruners
        PROVE  RetType'
    BY <1>s DEF RetType
  <1>t. \A p \in Pruners : todo[p] # << >> => Head(todo[p]) \in V /\ Tail(todo[p]) \in Seq(V)
    BY <1>0, Rest
  <1>1. ASSUME NEW b \in Backups, StoreChunks(b) \/ RecordFiles(b) PROVE RetType'
    BY <1>0, <1>1, <1>s DEF StoreChunks, RecordFiles, pruneVars, listVars
  <1>2. ASSUME NEW b \in Backups, WriteManifest(b) PROVE RetType'
    <2> DEFINE W == 1..clock + 1
    <2>1. /\ clock' = clock + 1 /\ manifests' = manifests \cup {clock'}
          /\ UNCHANGED <<cache, todo, listed, kept, keep, doubled, lost>>
      BY <1>2 DEF WriteManifest, pruneVars
    <2>7. DOMAIN touched' = Pruners
      BY <1>2, Zenon DEF WriteManifest, Touch
    <2>2. V \subseteq W /\ clock' \in W
      BY <1>0, <2>1
    <2>3. \A s \in Seq(V) : s \in Seq(W)
      BY <1>0, MoreNumbers
    <2> HIDE DEF V, W
    <2>4. manifests' \subseteq W /\ listed' \in [Pruners -> SUBSET W] /\ lost' \in [Pruners -> SUBSET W]
      BY <1>0, <2>1, <2>2
    <2>5. cache' \in Seq(W)
      BY <1>0, <2>1, <2>3
    <2>6. todo' \in [Pruners -> Seq(W)]
      <3>1. \A p \in Pruners : todo[p] \in Seq(W)
        BY <1>0, <2>3
      <3> HIDE <2>3
      <3> QED
        BY <1>0, <2>1, <3>1
    <2> QED
      BY <1>0, <2>1, <2>4, <2>5, <2>6, <2>7 DEF RetType, W
  <1>3. ASSUME NEW b \in Backups, PushCache(b) PROVE RetType'
    <2>1. /\ cache' = Append(cache, taken[b]) /\ bpc[b] = "push"
          /\ UNCHANGED <<clock, manifests, todo, listed, kept, keep, doubled, lost, touched>>
      BY <1>3 DEF PushCache, pruneVars
    <2>2. taken[b] \in V
      BY <1>0, <2>1 DEF CommitInv, Pending
    <2> HIDE DEF V
    <2>3. cache' \in Seq(V)
      BY <1>0, <2>1, <2>2
    <2> QED
      BY <1>0, <1>s, <2>1, <2>3
  <1>4. ASSUME NEW s \in Snapshots, Pin(s) PROVE RetType'
    BY <1>0, <1>4, <1>s DEF Pin, pruneVars, listVars
  <1>5. ASSUME NEW p \in Pruners, NEW k \in Keep, StartPrune(p, k) PROVE RetType'
    <2>1. NewestFirst(cache) \in Seq(V) /\ k \in Nat
      BY <1>0, Sorted, KeepAssumption
    <2>6. ToSet(cache) \ manifests \in SUBSET V
      BY <1>0 DEF ToSet
    <2>2. /\ UNCHANGED <<clock, manifests, cache, listed, touched>>
          /\ lost' = [lost EXCEPT ![p] = ToSet(cache) \ manifests]
          /\ todo' = [todo EXCEPT ![p] = NewestFirst(cache)]
          /\ kept' = [kept EXCEPT ![p] = 0] /\ keep' = [keep EXCEPT ![p] = k]
          /\ doubled' = [doubled EXCEPT ![p] = ~ IsInjective(cache)]
      BY <1>5, Zenon DEF StartPrune, listVars
    <2>3. (~ IsInjective(cache)) \in BOOLEAN
      BY Zenon
    <2> HIDE DEF V
    <2>4. doubled' \in [Pruners -> BOOLEAN]
      BY <1>0, <2>2, <2>3, Zenon
    <2>5. todo' \in [Pruners -> Seq(V)] /\ kept' \in [Pruners -> Nat] /\ keep' \in [Pruners -> Nat]
      BY <1>0, <2>1, <2>2
    <2>7. lost' \in [Pruners -> SUBSET V]
      BY <1>0, <2>2, <2>6, Zenon
    <2> QED
      BY <1>0, <1>s, <2>2, <2>4, <2>5, <2>7
  <1>6. ASSUME NEW p \in Pruners, SkipPinned(p) \/ KeepNewest(p) \/ ManifestGone(p) \/ RemovePin(p)
        PROVE RetType'
    <2>1. /\ UNCHANGED <<clock, manifests, cache, listed, keep, doubled, lost, touched>>
          /\ todo' = [todo EXCEPT ![p] = Tail(todo[p])] /\ todo[p] # << >>
          /\ kept' \in {kept, [kept EXCEPT ![p] = @ + 1]}
      BY <1>6 DEF SkipPinned, KeepNewest, ManifestGone, RemovePin, Advance, LoopInv, listVars
    <2>2. Tail(todo[p]) \in Seq(V)
      BY <1>t, <2>1
    <2> HIDE DEF V
    <2>3. todo' \in [Pruners -> Seq(V)]
      BY <1>0, <2>1, <2>2
    <2>4. kept' \in [Pruners -> Nat]
      <3>1. CASE kept' = kept
        BY <1>0, <3>1
      <3>2. CASE kept' = [kept EXCEPT ![p] = @ + 1]
        BY <1>0, <3>2
      <3> QED
        BY <2>1, <3>1, <3>2
    <2> QED
      BY <1>0, <1>s, <2>1, <2>3, <2>4
  <1>7. ASSUME NEW p \in Pruners, GetFiles(p) \/ Release(p) PROVE RetType'
    <2>1. /\ UNCHANGED <<clock, cache, todo, kept, keep, doubled, lost, touched, manifests>>
          /\ \/ listed' = [listed EXCEPT ![p] = {Candidate(p)} \cap fileLists] /\ todo[p] # << >>
             \/ listed' = [listed EXCEPT ![p] = {}]
      BY <1>7 DEF GetFiles, Release, listVars
    <2>2. todo[p] # << >> => {Candidate(p)} \cap fileLists \in SUBSET V
      BY <1>t DEF Candidate
    <2> HIDE DEF V
    <2>3. listed' \in [Pruners -> SUBSET V]
      BY <1>0, <2>1, <2>2
    <2> QED
      BY <1>0, <1>s, <2>1, <2>3
  <1>13. ASSUME NEW p \in Pruners, RemoveManifest(p) PROVE RetType'
    <2>1. /\ UNCHANGED <<clock, cache, todo, kept, keep, doubled, listed>>
          /\ manifests' = manifests \ {Candidate(p)} /\ DOMAIN touched' = Pruners
      BY <1>13, Zenon DEF RemoveManifest, Touch
    <2>2. lost' = [q \in Pruners |->
                    IF q = p THEN lost[q] \ {Candidate(p)}
                    ELSE IF ppc[q] \in {"idle", "reload"} THEN lost[q]
                    ELSE lost[q] \cup ({Candidate(p)} \cap manifests)]
      BY <1>13, Zenon DEF RemoveManifest
    <2> HIDE DEF V
    <2>3. ASSUME NEW q \in Pruners  PROVE lost'[q] \in SUBSET V
      BY <1>0, <2>2, <2>3
    <2>4. lost' \in [Pruners -> SUBSET V]
      BY <2>2, <2>3
    <2> QED
      BY <1>0, <1>s, <2>1, <2>4
  <1>8. ASSUME NEW p \in Pruners, ReadDir(p) PROVE RetType'
    <2>1. /\ UNCHANGED <<clock, manifests, cache, touched>> /\ lost' = [lost EXCEPT ![p] = {}]
          /\ todo' = [todo EXCEPT ![p] = << >>] /\ kept' = [kept EXCEPT ![p] = 0]
          /\ keep' = [keep EXCEPT ![p] = 0] /\ doubled' = [doubled EXCEPT ![p] = FALSE]
          /\ listed' = [listed EXCEPT ![p] = manifests]
      BY <1>8 DEF ReadDir, EndLoop, listVars
    <2> HIDE DEF V
    <2>2. << >> \in Seq(V)
      OBVIOUS
    <2>3. todo' \in [Pruners -> Seq(V)] /\ listed' \in [Pruners -> SUBSET V]
          /\ kept' \in [Pruners -> Nat] /\ keep' \in [Pruners -> Nat]
          /\ lost' \in [Pruners -> SUBSET V]
      BY <1>0, <2>1, <2>2
    <2>4. doubled' \in [Pruners -> BOOLEAN]
      BY <1>0, <2>1
    <2> QED
      BY <1>0, <1>s, <2>1, <2>3, <2>4
  <1>9. ASSUME NEW p \in Pruners, ReplaceCache(p) PROVE RetType'
    <2>1. /\ UNCHANGED <<clock, manifests, todo, kept, keep, doubled, lost>>
          /\ cache' = OldestFirst(listed[p]) /\ listed' = [listed EXCEPT ![p] = {}]
          /\ touched' = [touched EXCEPT ![p] = {}]
      BY <1>9, Zenon DEF ReplaceCache, Return
    <2>2. OldestFirst(listed[p]) \in Seq(V)
      BY <1>0, Reloaded
    <2> HIDE DEF V
    <2>3. listed' \in [Pruners -> SUBSET V]
      BY <1>0, <2>1
    <2> QED
      BY <1>0, <1>s, <2>1, <2>2, <2>3, Zenon
  <1>10. ASSUME NEW p \in Pruners, Import(p) PROVE RetType'
    <2>1. /\ UNCHANGED <<clock, cache, todo, kept, keep, doubled, listed, lost>>
          /\ DOMAIN touched' = Pruners
      BY <1>10, Zenon DEF Import, Touch
    <2>2. manifests' \subseteq V
      BY <1>0, <1>10 DEF Import
    <2> HIDE DEF V
    <2> QED
      BY <1>0, <1>s, <2>1, <2>2
  <1>11. CASE Crash
    <2>1. /\ lost' = [p \in Pruners |-> {}] /\ touched' = [p \in Pruners |-> {}]
          /\ UNCHANGED <<clock, manifests>> /\ cache' = OldestFirst(manifests)
          /\ todo' = [p \in Pruners |-> << >>] /\ kept' = [p \in Pruners |-> 0]
          /\ keep' = [p \in Pruners |-> 0] /\ doubled' = [p \in Pruners |-> FALSE]
          /\ listed' = [p \in Pruners |-> {}]
      BY <1>11, Zenon DEF Crash
    <2>2. OldestFirst(manifests) \in Seq(V)
      BY <1>0, Reloaded
    <2> HIDE DEF V
    <2>3. << >> \in Seq(V)
      OBVIOUS
    <2>4. todo' \in [Pruners -> Seq(V)] /\ listed' \in [Pruners -> SUBSET V]
          /\ kept' \in [Pruners -> Nat] /\ keep' \in [Pruners -> Nat]
          /\ lost' \in [Pruners -> SUBSET V] /\ DOMAIN touched' = Pruners
      BY <2>1, <2>3
    <2>5. doubled' \in [Pruners -> BOOLEAN]
      BY <2>1
    <2> QED
      BY <1>0, <1>s, <2>1, <2>2, <2>4, <2>5, Zenon
  <1>12. CASE UNCHANGED vars
    BY <1>0, <1>12, <1>s DEF vars, pruneVars, listVars
  <1> QED
    BY <1>1, <1>2, <1>3, <1>4, <1>5, <1>6, <1>7, <1>8, <1>9, <1>10, <1>11, <1>12, <1>13, Zenon DEF Next

-----------------------------------------------------------------------------
(* Any number of backups, prunes and imports at a time *)

\* A backup keeps the snapshot it has taken until it pushes it.
LEMMA CommitNext ==
  ASSUME Shapes, CommitInv, [Next]_vars
  PROVE  CommitInv'
  <1> SUFFICES ASSUME NEW b \in Backups
               PROVE  /\ taken'[b] # 0 => Pending(b)'
                      /\ Pending(b)' => taken'[b] \in 1..clock'
    BY DEF CommitInv
  <1>0. /\ clock \in Nat /\ bpc \in [Backups -> {"idle", "manifest", "files", "push"}]
        /\ taken \in [Backups -> Nat]
        /\ taken[b] # 0 => Pending(b)
        /\ Pending(b) => taken[b] \in 1..clock
    BY DEF CommitInv, Shapes
  <1>s. ASSUME UNCHANGED <<bpc, taken, clock>>
        PROVE  (taken'[b] # 0 => Pending(b)') /\ (Pending(b)' => taken'[b] \in 1..clock')
    BY <1>0, <1>s DEF Pending
  <1>1. ASSUME NEW a \in Backups, BackupGoesOn(a)
        PROVE  (taken'[b] # 0 => Pending(b)') /\ (Pending(b)' => taken'[b] \in 1..clock')
    <2> USE <1>0 DEF Pending
    <2>1. CASE StoreChunks(a)
      BY <2>1 DEF StoreChunks
    <2>2. CASE WriteManifest(a)
      BY <2>2 DEF WriteManifest
    <2>3. CASE RecordFiles(a)
      BY <2>3 DEF RecordFiles
    <2>4. CASE PushCache(a)
      BY <2>4 DEF PushCache
    <2> QED
      BY <1>1, <2>1, <2>2, <2>3, <2>4 DEF BackupGoesOn
  <1>2. ASSUME NEW s \in Snapshots, Pin(s)
        PROVE  UNCHANGED <<bpc, taken, clock>>
    BY <1>2 DEF Pin, backupVars
  <1>3. ASSUME NEW p \in Pruners, NEW k \in Keep, StartPrune(p, k)
        PROVE  UNCHANGED <<bpc, taken, clock>>
    BY <1>3, Zenon DEF StartPrune, backupVars
  <1>4. ASSUME NEW p \in Pruners, PruneGoesOn(p) \/ Import(p)
        PROVE  UNCHANGED <<bpc, taken, clock>>
    BY <1>4, Zenon DEF PruneGoesOn, SkipPinned, KeepNewest, GetFiles, Release, RemoveManifest,
       ManifestGone, RemovePin, ReadDir, ReplaceCache, Import, backupVars
  <1>5. ASSUME Crash  PROVE  taken'[b] = 0 /\ ~ Pending(b)'
    <2>1. bpc' = [a \in Backups |-> "idle"] /\ taken' = [a \in Backups |-> 0]
      BY <1>5, Zenon DEF Crash
    <2> QED
      BY <2>1 DEF Pending
  <1>6. ASSUME UNCHANGED vars
        PROVE  UNCHANGED <<bpc, taken, clock>>
    BY <1>6 DEF vars, backupVars
  <1> QED
    BY <1>s, <1>1, <1>2, <1>3, <1>4, <1>5, <1>6, Zenon DEF Next, BackupGoesOn, PruneGoesOn

\* What is in a list once something is pushed.
LEMMA Pushed ==
  ASSUME NEW n \in Nat, NEW list \in Seq(1..n), NEW t
  PROVE  \A s : s \in ToSet(Append(list, t)) <=> s \in ToSet(list) \/ s = t
  <1> DEFINE longer == Append(list, t)
  <1>1. Len(list) \in Nat /\ DOMAIN list = 1..Len(list)
    OBVIOUS
  <1>2. DOMAIN longer = 1..Len(list) + 1 /\ longer[Len(list) + 1] = t
        /\ \A i \in 1..Len(list) : longer[i] = list[i]
    OBVIOUS
  <1> HIDE DEF longer
  <1>3. ToSet(longer) = {longer[i] : i \in 1..Len(list) + 1} /\ ToSet(list) = {list[i] : i \in 1..Len(list)}
    BY <1>1, <1>2 DEF ToSet
  <1>4. \A i \in 1..Len(list) + 1 : i \in 1..Len(list) \/ i = Len(list) + 1
    BY <1>1
  <1>5. \A i \in 1..Len(list) : i \in 1..Len(list) + 1
    BY <1>1
  <1>6. Len(list) + 1 \in 1..Len(list) + 1
    BY <1>1
  <1>7. ASSUME NEW s
        PROVE  s \in ToSet(longer) <=> s \in ToSet(list) \/ s = t
    BY <1>2, <1>3, <1>4, <1>5, <1>6
  <1> QED
    BY <1>7, Zenon DEF longer

\* The list and the directory, snapshot by snapshot.
LEMMA MatchEach ==
  MatchInv <=>
    /\ \A s \in manifests : \/ s \in ToSet(cache) \/ s \in stale
                            \/ \E b \in Backups : taken[b] = s
                            \/ ~ Quiet /\ s \in imported
    /\ Quiet => \A s \in ToSet(cache) : s \in manifests \/ s \in stale
    /\ \A p \in Pruners : ppc[p] = "reload" =>
          /\ \A s \in listed[p] : s \in manifests \/ s \in touched[p]
          /\ \A s \in manifests : s \in listed[p] \/ s \in touched[p]
  <1>1. \A s : s \in {taken[b] : b \in Backups} <=> \E b \in Backups : taken[b] = s
    OBVIOUS
  <1>2. ListMatches <=>
          /\ \A s \in manifests : \/ s \in ToSet(cache) \/ s \in stale
                                  \/ \E b \in Backups : taken[b] = s
                                  \/ ~ Quiet /\ s \in imported
          /\ Quiet => \A s \in ToSet(cache) : s \in manifests \/ s \in stale
    BY <1>1 DEF ListMatches, Quiet
  <1>3. ASSUME NEW p \in Pruners
        PROVE  /\ listed[p] \subseteq manifests \cup touched[p] <=>
                    \A s \in listed[p] : s \in manifests \/ s \in touched[p]
               /\ manifests \subseteq listed[p] \cup touched[p] <=>
                    \A s \in manifests : s \in listed[p] \/ s \in touched[p]
    OBVIOUS
  <1> HIDE <1>1
  <1> QED
    BY <1>2, <1>3, Zenon DEF MatchInv

\* A reload under way takes note of what is touched.
LEMMA Noted ==
  ASSUME NEW S, Touch(S), NEW p \in Pruners
  PROVE  /\ touched[p] \subseteq touched'[p]
         /\ ppc[p] = "reload" => \A s \in S : s \in touched'[p]
  <1>1. touched'[p] = IF ppc[p] = "reload" THEN touched[p] \cup S ELSE touched[p]
    BY DEF Touch
  <1> QED
    BY <1>1

\* The list of snapshots keeps matching the directory.
LEMMA MatchNext ==
  ASSUME RetInv, [Next]_vars
  PROVE  MatchInv'
  <1> DEFINE A == \A s \in manifests : \/ s \in ToSet(cache) \/ s \in stale
                                       \/ \E b \in Backups : taken[b] = s
                                       \/ ~ Quiet /\ s \in imported
             B == Quiet => \A s \in ToSet(cache) : s \in manifests \/ s \in stale
             C(p) == ppc[p] = "reload" =>
                       /\ \A s \in listed[p] : s \in manifests \/ s \in touched[p]
                       /\ \A s \in manifests : s \in listed[p] \/ s \in touched[p]
             Each == A /\ B /\ \A p \in Pruners : C(p)
  <1> SUFFICES Each'
    <2>1. MatchInv' <=> Each'
      BY MatchEach, PTL
    <2> QED
      BY <2>1
  <1>0. /\ A /\ B /\ \A p \in Pruners : C(p)
    BY MatchEach DEF RetInv
  <1>t. /\ Shapes /\ RetType /\ CommitInv
        /\ clock \in Nat /\ cache \in Seq(1..clock) /\ manifests \subseteq 1..clock
        /\ ppc \in [Pruners -> {"idle", "check", "release", "manifest", "pin", "reload"}]
        /\ listed \in [Pruners -> SUBSET (1..clock)] /\ DOMAIN touched = Pruners
        /\ taken \in [Backups -> Nat]
    BY DEF RetInv, PinInv, RetType, Shapes
  <1>s. ASSUME UNCHANGED <<manifests, cache, stale, imported, listed, taken, ppc, touched>>
        PROVE  Each'
    BY <1>0, <1>s DEF Quiet
  \* One that is under way goes on, and does not reload yet.
  <1>r. ASSUME NEW p \in Pruners, NEW pc \in {"check", "release", "manifest", "pin"},
               ppc' = [ppc EXCEPT ![p] = pc]
        PROVE  ~ Quiet' /\ \A q \in Pruners : ppc'[q] = "reload" => q # p /\ ppc[q] = "reload"
    BY <1>t, <1>r DEF Quiet
  <1>1. ASSUME NEW b \in Backups, StoreChunks(b) \/ RecordFiles(b)  PROVE  Each'
    BY <1>1, <1>s DEF StoreChunks, RecordFiles, pruneVars, listVars
  <1>2. ASSUME NEW b \in Backups, WriteManifest(b)  PROVE  Each'
    <2>1. /\ manifests' = manifests \cup {clock'} /\ taken' = [taken EXCEPT ![b] = clock']
          /\ bpc[b] = "manifest" /\ UNCHANGED <<cache, stale, imported, listed, ppc>>
          /\ Touch({clock'})
      BY <1>2 DEF WriteManifest, pruneVars
    <2>2. taken[b] = 0
      BY <1>t, <2>1 DEF CommitInv, Pending
    <2>3. taken'[b] = clock' /\ \A s \in manifests : s # 0
      BY <1>t, <2>1
    <2>4. \A s \in manifests : (\E a \in Backups : taken[a] = s) => \E a \in Backups : taken'[a] = s
      BY <1>t, <2>1, <2>2, <2>3
    <2>5. Quiet' <=> Quiet
      BY <2>1 DEF Quiet
    <2>6. A'
      BY <1>0, <2>1, <2>3, <2>4, <2>5
    <2>7. B'
      BY <1>0, <2>1, <2>5
    <2>8. ASSUME NEW p \in Pruners  PROVE  C(p)'
      BY <1>0, <2>1, Noted
    <2> QED
      BY <2>6, <2>7, <2>8
  <1>3. ASSUME NEW b \in Backups, PushCache(b)  PROVE  Each'
    <2>1. /\ cache' = Append(cache, taken[b]) /\ taken' = [taken EXCEPT ![b] = 0]
          /\ stale' = IF taken[b] \in manifests THEN stale \ {taken[b]} ELSE stale \cup {taken[b]}
          /\ UNCHANGED <<manifests, imported, listed, ppc, touched>>
      BY <1>3 DEF PushCache, pruneVars
    <2>3. \A s : s \in ToSet(cache') <=> s \in ToSet(cache) \/ s = taken[b]
      BY <1>t, <2>1, Pushed
    <2>4. \A s : (\E a \in Backups : taken[a] = s) => s = taken[b] \/ \E a \in Backups : taken'[a] = s
      BY <1>t, <2>1
    <2>5. /\ \A s : s # taken[b] => (s \in stale' <=> s \in stale)
          /\ taken[b] \in manifests \/ taken[b] \in stale'
      BY <2>1
    <2>7. Quiet' <=> Quiet
      BY <2>1 DEF Quiet
    <2> HIDE <2>1
    <2>m. UNCHANGED <<manifests, imported, listed, ppc, touched>>
      BY <2>1
    <2>8. ASSUME NEW s \in manifests'
          PROVE  \/ s \in ToSet(cache') \/ s \in stale'
                 \/ \E a \in Backups : taken'[a] = s
                 \/ ~ Quiet' /\ s \in imported'
      <3>1. \/ s \in ToSet(cache) \/ s \in stale
            \/ \E a \in Backups : taken[a] = s
            \/ ~ Quiet /\ s \in imported
        BY <1>0, <2>8, <2>m, Zenon
      <3> QED
        BY <2>3, <2>4, <2>5, <2>7, <2>m, <3>1, Zenon
    <2>9. ASSUME Quiet', NEW s \in ToSet(cache')  PROVE  s \in manifests' \/ s \in stale'
      BY <1>0, <2>3, <2>5, <2>7, <2>9, <2>m
    <2>10. ASSUME NEW p \in Pruners  PROVE  C(p)'
      BY <1>0, <2>m
    <2> QED
      BY <2>8, <2>9, <2>10, Zenon
  <1>4. ASSUME NEW t \in Snapshots, Pin(t)  PROVE  Each'
    BY <1>4, <1>s DEF Pin, backupVars, pruneVars, listVars
  <1>5. ASSUME NEW p \in Pruners, NEW k \in Keep, StartPrune(p, k)  PROVE  Each'
    <2>1. /\ ppc' = [ppc EXCEPT ![p] = "check"]
          /\ UNCHANGED <<manifests, cache, stale, touched, imported, listed, taken>>
      BY <1>5, Zenon DEF StartPrune, backupVars, listVars
    <2>2. ~ Quiet' /\ \A q \in Pruners : ppc'[q] = "reload" => q # p /\ ppc[q] = "reload"
      BY <1>r, <2>1
    <2>3. A' /\ B'
      <3>1. p \in Pruners => A' /\ B'
        BY <1>0, <2>1, <2>2, Zenon
      <3> QED
        BY <3>1
    <2>4. ASSUME NEW q \in Pruners  PROVE  C(q)'
      BY <1>0, <2>1, <2>2, Zenon
    <2> QED
      BY <2>3, <2>4, Zenon
  <1>6. ASSUME NEW p \in Pruners, SkipPinned(p) \/ KeepNewest(p)  PROVE  Each'
    BY <1>6, <1>s DEF SkipPinned, KeepNewest, backupVars, listVars
  <1>7. ASSUME NEW p \in Pruners,
               GetFiles(p) \/ Release(p) \/ ManifestGone(p) \/ RemovePin(p)
        PROVE  Each'
    <2>1. /\ ppc[p] # "idle"
          /\ \E pc \in {"check", "release", "manifest", "pin"} : ppc' = [ppc EXCEPT ![p] = pc]
          /\ UNCHANGED <<manifests, cache, stale, touched, imported, taken>>
          /\ \E S : listed' = [listed EXCEPT ![p] = S] \/ listed' = listed
      BY <1>7 DEF GetFiles, Release, ManifestGone, RemovePin, backupVars, listVars
    <2>2. ~ Quiet
      BY <2>1 DEF Quiet
    <2>3. ~ Quiet' /\ \A q \in Pruners : ppc'[q] = "reload" => q # p /\ ppc[q] = "reload"
      BY <1>r, <2>1
    <2>4. \A q \in Pruners : q # p => listed'[q] = listed[q]
      BY <1>t, <2>1
    <2>m. UNCHANGED <<manifests, cache, stale, touched, imported, taken>>
      BY <2>1
    <2>5. A' /\ B'
      BY <1>0, <2>m, <2>2, <2>3, Zenon
    <2>6. ASSUME NEW q \in Pruners  PROVE  C(q)'
      BY <1>0, <2>m, <2>3, <2>4, <2>6
    <2> QED
      BY <2>5, <2>6, Zenon
  <1>8. ASSUME NEW p \in Pruners, RemoveManifest(p)  PROVE  Each'
    <2>1. /\ ppc[p] = "manifest" /\ ppc' = [ppc EXCEPT ![p] = "pin"]
          /\ UNCHANGED <<cache, stale, taken, listed>>
          /\ manifests' = manifests \ {Candidate(p)} /\ imported' = imported \ {Candidate(p)}
          /\ Touch({Candidate(p)} \cap manifests)
      BY <1>8, Zenon DEF RemoveManifest, backupVars
    <2>2. ~ Quiet
      BY <2>1 DEF Quiet
    <2>3. ~ Quiet' /\ \A q \in Pruners : ppc'[q] = "reload" => q # p /\ ppc[q] = "reload"
      BY <1>r, <2>1
    <2>5. A' /\ B'
      BY <1>0, <2>1, <2>2, <2>3
    <2>6. ASSUME NEW q \in Pruners, ppc'[q] = "reload"
          PROVE  /\ \A s \in listed'[q] : s \in manifests' \/ s \in touched'[q]
                 /\ \A s \in manifests' : s \in listed'[q] \/ s \in touched'[q]
      <3>1. /\ touched[q] \subseteq touched'[q]
            /\ \A s \in {Candidate(p)} \cap manifests : s \in touched'[q]
        BY <2>1, <2>3, <2>6, Noted
      <3> QED
        BY <1>0, <2>1, <2>3, <2>6, <3>1
    <2> QED
      BY <2>5, <2>6, Zenon
  <1>9. ASSUME NEW p \in Pruners, ReadDir(p)  PROVE  Each'
    <2>1. /\ ppc[p] = "check" /\ ppc' = [ppc EXCEPT ![p] = "reload"]
          /\ listed' = [listed EXCEPT ![p] = manifests]
          /\ UNCHANGED <<manifests, cache, stale, touched, imported, taken>>
      BY <1>9, Zenon DEF ReadDir, backupVars, listVars
    <2>2. ~ Quiet /\ ~ Quiet'
      BY <1>t, <2>1 DEF Quiet
    <2>3. A' /\ B'
      BY <1>0, <2>1, <2>2, Zenon
    <2>4. ASSUME NEW q \in Pruners  PROVE  C(q)'
      <3>1. CASE q = p
        BY <1>t, <2>1, <3>1
      <3>2. CASE q # p
        <4>1. ppc'[q] = ppc[q] /\ listed'[q] = listed[q]
          BY <1>t, <2>1, <3>2
        <4> QED
          BY <1>0, <2>1, <4>1
      <3> QED
        BY <3>1, <3>2
    <2> QED
      BY <2>3, <2>4, Zenon
  <1>10. ASSUME NEW p \in Pruners, ReplaceCache(p)  PROVE  Each'
    <2>1. /\ ppc[p] = "reload" /\ ppc' = [ppc EXCEPT ![p] = "idle"]
          /\ cache' = OldestFirst(listed[p]) /\ stale' = touched[p]
          /\ listed' = [listed EXCEPT ![p] = {}] /\ touched' = [touched EXCEPT ![p] = {}]
          /\ UNCHANGED <<manifests, imported, taken>>
      BY <1>10, Zenon DEF ReplaceCache, Return, backupVars
    <2>2. ToSet(cache') = listed[p]
      BY <1>t, <2>1, Reloaded
    <2>5. /\ \A s \in listed[p] : s \in manifests \/ s \in touched[p]
          /\ \A s \in manifests : s \in listed[p] \/ s \in touched[p]
      BY <1>0, <2>1, Zenon
    <2>6. A' /\ B'
      BY <2>1, <2>2, <2>5, Zenon
    <2>7. ASSUME NEW q \in Pruners, ppc'[q] = "reload"
          PROVE  /\ \A s \in listed'[q] : s \in manifests' \/ s \in touched'[q]
                 /\ \A s \in manifests' : s \in listed'[q] \/ s \in touched'[q]
      <3>1. q # p /\ ppc[q] = "reload" /\ listed'[q] = listed[q] /\ touched'[q] = touched[q]
        BY <1>t, <2>1, <2>7
      <3> QED
        BY <1>0, <2>1, <3>1
    <2> QED
      BY <2>6, <2>7, Zenon
  <1>11. ASSUME NEW p \in Pruners, Import(p)  PROVE  Each'
    <2>1. PICK s \in (1..clock) \ manifests :
             manifests' = manifests \cup {s} /\ imported' = imported \cup {s} /\ Touch({s})
      BY <1>11, Zenon DEF Import
    <2>2. /\ ppc' = [ppc EXCEPT ![p] = "check"]
          /\ UNCHANGED <<cache, stale, listed, taken>>
      BY <1>11, Zenon DEF Import, backupVars
    <2>3. ~ Quiet' /\ \A q \in Pruners : ppc'[q] = "reload" => q # p /\ ppc[q] = "reload"
      BY <1>r, <2>2
    <2>4. A' /\ B'
      BY <1>0, <2>1, <2>2, <2>3
    <2>5. ASSUME NEW q \in Pruners, ppc'[q] = "reload"
          PROVE  /\ \A t \in listed'[q] : t \in manifests' \/ t \in touched'[q]
                 /\ \A t \in manifests' : t \in listed'[q] \/ t \in touched'[q]
      <3>1. touched[q] \subseteq touched'[q] /\ s \in touched'[q]
        BY <2>1, <2>3, <2>5, Noted
      <3> QED
        BY <1>0, <2>1, <2>2, <2>3, <2>5, <3>1
    <2> QED
      BY <2>4, <2>5, Zenon
  <1>12. CASE Crash
    <2>1. /\ cache' = OldestFirst(manifests) /\ manifests' = manifests
          /\ ppc' = [p \in Pruners |-> "idle"]
      BY <1>12, Zenon DEF Crash
    <2>2. ToSet(cache') = manifests'
      BY <1>t, <2>1, Reloaded
    <2>3. \A q \in Pruners : ppc'[q] # "reload"
      BY <2>1
    <2> QED
      BY <2>2, <2>3, Zenon
  <1>13. CASE UNCHANGED vars
    BY <1>13, <1>s DEF vars, backupVars, pruneVars, listVars
  <1> QED
    BY <1>1, <1>2, <1>3, <1>4, <1>5, <1>6, <1>7, <1>8, <1>9, <1>10, <1>11, <1>12, <1>13, Zenon
       DEF Next

\* Sets of snapshots that are on disk are finite, and the more, the larger.
LEMMA OnDisk ==
  ASSUME NEW n \in Nat, NEW S \in SUBSET (1..n), NEW T \in SUBSET S
  PROVE  /\ IsFiniteSet(S) /\ Cardinality(S) \in Nat
         /\ IsFiniteSet(T) /\ Cardinality(T) \in Nat /\ Cardinality(T) <= Cardinality(S)
  <1>1. IsFiniteSet(1..n)
    BY FS_Interval
  <1>2. IsFiniteSet(S)
    BY <1>1, FS_Subset
  <1> QED
    BY <1>2, FS_Subset, FS_CardinalityType, Zenon

\* What others do leaves a prune what it has counted.
LEMMA LoopKept ==
  ASSUME NEW p \in Pruners, LoopInv(p), clock' \in Nat, Known(p)' \subseteq 1..clock',
         ppc'[p] = ppc[p], todo'[p] = todo[p], kept'[p] = kept[p], keep'[p] = keep[p],
         doubled'[p] = doubled[p], kept[p] \in Nat,
         pinnedSince'[p] \subseteq pinnedSince[p],
         ppc[p] \notin {"idle", "reload"} => Known(p) \subseteq Known(p)'
  PROVE  LoopInv(p)'
  <1>1. CASE ppc[p] \in {"idle", "reload"}
    <2>1. todo[p] = << >> /\ kept[p] = 0
      BY <1>1 DEF LoopInv
    <2>2. todo'[p] = << >> /\ kept'[p] = 0 /\ ppc'[p] \in {"idle", "reload"} /\ DOMAIN todo'[p] = {}
      BY <1>1, <2>1
    <2> QED
      BY <2>2 DEF LoopInv
  <1>2. CASE ppc[p] \notin {"idle", "reload"}
    <2> DEFINE S == Spared(p)  T == Spared(p)'
    <2>1. T \in SUBSET (1..clock') /\ S \in SUBSET T
      BY <1>2 DEF Spared
    <2> HIDE DEF S, T
    <2>2. /\ IsFiniteSet(T) /\ Cardinality(S) \in Nat /\ Cardinality(T) \in Nat
          /\ Cardinality(S) <= Cardinality(T)
      BY <2>1, OnDisk, Zenon
    <2> USE DEF S, T
    <2>3. ~ doubled[p] /\ ppc[p] \in {"check", "release", "manifest", "pin"} =>
             kept[p] <= Cardinality(Spared(p))
      BY DEF LoopInv
    <2>4. ~ doubled[p] /\ ppc[p] \in {"check", "release", "manifest", "pin"} =>
             IsFiniteSet(Spared(p)') /\ kept[p] <= Cardinality(Spared(p)')
      BY <2>2, <2>3
    <2>5. ~ doubled[p] =>
            /\ \A i \in DOMAIN todo[p] : (ppc[p] = "pin" => i # 1) => todo[p][i] \in Known(p)'
            /\ \A i, j \in DOMAIN todo[p] : i < j => todo[p][i] > todo[p][j]
      BY <1>2 DEF LoopInv
    <2>6. ppc[p] \in {"release", "manifest", "pin"} => todo[p] # << >> /\ kept[p] >= keep[p]
      BY DEF LoopInv
    <2> HIDE DEF S, T
    <2> QED
      BY <1>2, <2>4, <2>5, <2>6 DEF LoopInv
  <1> QED
    BY <1>1, <1>2

\* A prune that goes on to its next snapshot has counted the one before, if it keeps it.
LEMMA LoopAdvance ==
  ASSUME RetInv, NEW p \in Pruners, ppc[p] \in {"check", "manifest", "pin"}, todo[p] # << >>,
         todo'[p] = Tail(todo[p]), ppc'[p] = "check",
         UNCHANGED <<manifests, lost, keep, doubled, clock>>,
         pinnedSince'[p] \subseteq pinnedSince[p],
         \/ kept'[p] = kept[p]
         \/ kept'[p] = kept[p] + 1 /\ ppc[p] = "check" /\ Candidate(p) \notin pins
  PROVE  LoopInv(p)'
  <1> DEFINE q == todo[p]  r == Tail(q)  K == Known(p)
  <1>0. /\ LoopInv(p) /\ clock \in Nat /\ q \in Seq(1..clock) /\ kept[p] \in Nat
        /\ K \in SUBSET (1..clock) /\ pinnedSince[p] \subseteq pins
    BY DEF RetInv, PinInv, Shapes, RetType, StillPinned, Known
  <1>1. /\ Candidate(p) = q[1] /\ q[1] \in 1..clock /\ 1 \in DOMAIN q
        /\ \A i \in DOMAIN r : i \in Nat /\ i >= 1 /\ i + 1 \in DOMAIN q /\ r[i] = q[i + 1]
    BY <1>0, Rest DEF Candidate
  <1>2. /\ todo'[p] = r /\ ppc'[p] = "check" /\ UNCHANGED <<keep, doubled>> /\ Known(p)' = K
    BY DEF Known
  <1>3. \A i \in DOMAIN q : q[i] \in Nat
    BY <1>0
  <1> HIDE DEF r, K
  <1>6. ASSUME ~ doubled[p]
        PROVE  /\ \A i \in DOMAIN r : r[i] \in K /\ q[1] > r[i]
               /\ \A i, j \in DOMAIN r : i < j => r[i] > r[j]
    <2>1. /\ \A i \in DOMAIN q : i # 1 => q[i] \in K
          /\ \A i, j \in DOMAIN q : i < j => q[i] > q[j]
      BY <1>0, <1>6 DEF LoopInv, K
    <2>2. ASSUME NEW i \in DOMAIN r
          PROVE  r[i] \in K /\ q[1] > r[i]
      <3>1. i + 1 \in DOMAIN q /\ i + 1 # 1 /\ 1 < i + 1 /\ r[i] = q[i + 1]
        BY <1>1
      <3> QED
        BY <1>1, <2>1, <3>1
    <2>3. ASSUME NEW i \in DOMAIN r, NEW j \in DOMAIN r, i < j
          PROVE  r[i] > r[j]
      <3>1. i + 1 \in DOMAIN q /\ j + 1 \in DOMAIN q /\ i + 1 < j + 1
            /\ r[i] = q[i + 1] /\ r[j] = q[j + 1]
        BY <1>1, <2>3
      <3> QED
        BY <2>1, <3>1
    <2> QED
      BY <2>2, <2>3
  <1>7. ASSUME ~ doubled[p]
        PROVE  IsFiniteSet(Spared(p)') /\ kept'[p] <= Cardinality(Spared(p)')
    <2> DEFINE S == {s \in K \ pinnedSince[p] : \A i \in DOMAIN q : s > q[i]}
               T == {s \in K \ pinnedSince'[p] : \A i \in DOMAIN r : s > r[i]}
    <2>1. Spared(p)' = T /\ Spared(p) = S
      BY <1>2 DEF Spared, K
    <2>2. S \subseteq T /\ T \subseteq K
      BY <1>1
    <2>3. /\ IsFiniteSet(S) /\ IsFiniteSet(T) /\ Cardinality(S) \in Nat /\ Cardinality(T) \in Nat
          /\ Cardinality(S) <= Cardinality(T)
      <3>1. T \in SUBSET (1..clock) /\ S \in SUBSET T
        BY <1>0, <2>2
      <3> HIDE DEF S, T
      <3> QED
        BY <1>0, <3>1, OnDisk, Zenon
    <2>4. kept[p] <= Cardinality(S)
      BY <1>0, <1>7, <2>1 DEF LoopInv
    <2>5. CASE kept'[p] = kept[p]
      BY <1>0, <2>1, <2>3, <2>4, <2>5
    <2>6. CASE kept'[p] = kept[p] + 1 /\ ppc[p] = "check" /\ Candidate(p) \notin pins
      <3>1. q[1] \in K
        BY <1>0, <1>1, <1>7, <2>6 DEF LoopInv, K
      <3>2. q[1] \in T
        BY <1>0, <1>1, <1>6, <1>7, <2>6, <3>1
      <3>3. q[1] \notin S
        BY <1>1
      <3>4. S \cup {q[1]} \in SUBSET T
        BY <2>2, <3>2
      <3> HIDE DEF S, T
      <3>5. Cardinality(S \cup {q[1]}) = Cardinality(S) + 1
        BY <2>3, <3>3, FS_AddElement
      <3>6. Cardinality(S \cup {q[1]}) <= Cardinality(T)
        BY <2>3, <3>4, FS_Subset
      <3> QED
        BY <1>0, <2>1, <2>3, <2>4, <2>6, <3>5, <3>6
    <2> QED
      BY <2>5, <2>6
  <1> QED
    BY <1>2, <1>6, <1>7 DEF LoopInv, K

\* A prune begins with all of the list.
LEMMA LoopStart ==
  ASSUME RetInv, NEW p \in Pruners, NEW k \in Keep, StartPrune(p, k)
  PROVE  LoopInv(p)'
  <1> DEFINE q == NewestFirst(cache)
  <1>0. /\ clock \in Nat /\ cache \in Seq(1..clock) /\ manifests \in SUBSET (1..clock)
        /\ ppc'[p] = "check" /\ todo'[p] = q /\ kept'[p] = 0
        /\ doubled'[p] = ~ IsInjective(cache) /\ lost'[p] = ToSet(cache) \ manifests
        /\ manifests' = manifests
    <2>1. RetType /\ Shapes
      BY DEF RetInv, PinInv
    <2>2. /\ ppc' = [ppc EXCEPT ![p] = "check"] /\ todo' = [todo EXCEPT ![p] = q]
          /\ kept' = [kept EXCEPT ![p] = 0]
          /\ doubled' = [doubled EXCEPT ![p] = ~ IsInjective(cache)]
          /\ lost' = [lost EXCEPT ![p] = ToSet(cache) \ manifests]
          /\ manifests' = manifests
      BY Zenon DEF StartPrune
    <2>3. doubled'[p] = ~ IsInjective(cache)
      BY <2>1, <2>2, Zenon DEF RetType
    <2> HIDE DEF q
    <2>4. ppc'[p] = "check" /\ todo'[p] = q /\ kept'[p] = 0
      BY <2>1, <2>2 DEF RetType, Shapes
    <2>5. lost'[p] = ToSet(cache) \ manifests
      BY <2>1, <2>2, Zenon DEF RetType
    <2> QED
      BY <2>1, <2>2, <2>3, <2>4, <2>5 DEF RetType, Shapes
  <1>1. /\ q \in Seq(1..clock) /\ DOMAIN q = DOMAIN cache
        /\ \A i \in DOMAIN cache : q[i] \in ToSet(cache)
        /\ \A i, j \in DOMAIN cache : i < j => q[i] >= q[j]
        /\ \A s : (\A i, j \in DOMAIN cache : cache[i] = s /\ cache[j] = s => i = j) =>
              \A i, j \in DOMAIN cache : q[i] = s /\ q[j] = s => i = j
    BY <1>0, Sorted
  <1> HIDE DEF q
  <1>2. \A i \in DOMAIN q : q[i] \in 1..clock /\ i \in Nat /\ i >= 1 /\ 1 \in DOMAIN q
    BY <1>0, <1>1, Places, Zenon
  <1>3. Known(p)' = manifests \cup (ToSet(cache) \ manifests)
    BY <1>0 DEF Known
  <1>4. ASSUME ~ doubled'[p]
        PROVE  /\ \A i \in DOMAIN q : q[i] \in Known(p)'
               /\ \A i, j \in DOMAIN q : i < j => q[i] > q[j]
    <2>1. IsInjective(cache)
      BY <1>0, <1>4
    <2>3. ASSUME NEW i \in DOMAIN q, NEW j \in DOMAIN q, i < j
          PROVE  q[i] > q[j]
      <3>1. \A m, n \in DOMAIN cache : cache[m] = q[i] /\ cache[n] = q[i] => m = n
        BY <2>1, Zenon DEF IsInjective
      <3>2. q[i] # q[j]
        BY <1>1, <1>2, <2>3, <3>1
      <3> QED
        BY <1>1, <1>2, <2>3, <3>2
    <2> QED
      BY <1>1, <1>3, <2>3
  <1>5. IsFiniteSet(Spared(p)') /\ 0 <= Cardinality(Spared(p)')
    <2> DEFINE T == Spared(p)'
    <2>1. T \in SUBSET (1..clock)
      <3>1. ToSet(cache) \subseteq 1..clock
        BY <1>0 DEF ToSet
      <3> QED
        BY <1>0, <1>3, <3>1 DEF Spared
    <2> HIDE DEF T
    <2>2. IsFiniteSet(T) /\ Cardinality(T) \in Nat
      BY <1>0, <2>1, OnDisk
    <2> QED
      BY <2>2 DEF T
  <1> HIDE DEF q
  <1> QED
    BY <1>0, <1>4, <1>5 DEF LoopInv

\* The loop keeps what it counts.
LEMMA LoopNext ==
  ASSUME RetInv, RetType', Shapes', [Next]_vars, NEW p \in Pruners
  PROVE  LoopInv(p)'
  <1>0. /\ Shapes /\ Lists /\ RetType /\ LoopInv(p)
        /\ clock \in Nat /\ manifests \in SUBSET (1..clock) /\ todo[p] \in Seq(1..clock)
        /\ kept[p] \in Nat /\ keep[p] \in Nat
    BY DEF RetInv, PinInv, RetType, Shapes
  <1>t. /\ ppc \in [Pruners -> {"idle", "check", "release", "manifest", "pin", "reload"}]
        /\ todo \in [Pruners -> Seq(1..clock)]
        /\ kept \in [Pruners -> Nat] /\ keep \in [Pruners -> Nat]
        /\ doubled \in [Pruners -> BOOLEAN] /\ lost \in [Pruners -> SUBSET (1..clock)]
        /\ pinnedSince \in [Pruners -> SUBSET Nat]
    BY DEF RetInv, PinInv, RetType, Shapes
  <1>k. clock' \in Nat /\ Known(p)' \subseteq 1..clock'
    BY DEF RetType, Shapes, Known
  <1>1. \A i \in DOMAIN todo[p] : todo[p][i] \in 1..clock
    BY <1>0
  \* Nothing of this prune changes, and nothing is lost.
  <1>s. ASSUME UNCHANGED <<ppc, todo, kept, keep, pinnedSince, doubled, lost>>,
               manifests \subseteq manifests'
        PROVE  LoopInv(p)'
    <2>1. Known(p) \subseteq Known(p)'
      BY <1>s DEF Known
    <2> QED
      BY <1>0, <1>k, <1>s, <2>1, LoopKept
  \* A step of another prune, or import, changes nothing of this one.
  <1>o. ASSUME ppc'[p] = ppc[p], todo'[p] = todo[p], kept'[p] = kept[p], keep'[p] = keep[p],
               pinnedSince'[p] \subseteq pinnedSince[p], doubled'[p] = doubled[p],
               lost'[p] = lost[p], manifests \subseteq manifests'
        PROVE  LoopInv(p)'
    <2>1. Known(p) \subseteq Known(p)'
      BY <1>o DEF Known
    <2> QED
      BY <1>0, <1>k, <1>o, <2>1, LoopKept
  <1>e. ASSUME todo'[p] = << >>, kept'[p] = 0, ppc'[p] \in {"idle", "reload", "check"}
        PROVE  LoopInv(p)'
    <2>1. Spared(p)' \in SUBSET (1..clock')
      BY <1>k DEF Spared
    <2>2. IsFiniteSet(Spared(p)') /\ Cardinality(Spared(p)') \in Nat
      BY <1>k, <2>1, OnDisk
    <2>3. DOMAIN todo'[p] = {}
      BY <1>e
    <2> QED
      BY <1>e, <2>2, <2>3 DEF LoopInv
  <1>2. ASSUME NEW b \in Backups, BackupGoesOn(b)
        PROVE  LoopInv(p)'
    BY <1>2, <1>s DEF BackupGoesOn, StoreChunks, WriteManifest, RecordFiles, PushCache, pruneVars
  <1>4. ASSUME NEW t \in Snapshots, Pin(t)  PROVE  LoopInv(p)'
    BY <1>4, <1>s DEF Pin, pruneVars
  <1>5. ASSUME NEW q \in Pruners, NEW k \in Keep, StartPrune(q, k)  PROVE  LoopInv(p)'
    <2>1. CASE q = p
      BY <1>5, <2>1, LoopStart, Zenon
    <2>2. CASE q # p
      <3>1. /\ ppc' = [ppc EXCEPT ![q] = "check"] /\ todo' = [todo EXCEPT ![q] = NewestFirst(cache)]
            /\ kept' = [kept EXCEPT ![q] = 0] /\ keep' = [keep EXCEPT ![q] = k]
            /\ pinnedSince' = [pinnedSince EXCEPT ![q] = pins]
            /\ doubled' = [doubled EXCEPT ![q] = ~ IsInjective(cache)]
            /\ lost' = [lost EXCEPT ![q] = ToSet(cache) \ manifests]
            /\ manifests' = manifests
        BY <1>5, Zenon DEF StartPrune
      <3>2. doubled'[p] = doubled[p] /\ lost'[p] = lost[p] /\ todo'[p] = todo[p]
        BY <1>t, <2>2, <3>1, Zenon
      <3>3. /\ ppc'[p] = ppc[p] /\ kept'[p] = kept[p] /\ keep'[p] = keep[p]
            /\ pinnedSince'[p] = pinnedSince[p]
        BY <1>t, <2>2, <3>1
      <3> QED
        BY <1>o, <3>1, <3>2, <3>3
    <2> QED
      BY <2>1, <2>2
  <1>6. ASSUME NEW q \in Pruners, SkipPinned(q) \/ KeepNewest(q) \/ ManifestGone(q) \/ RemovePin(q)
        PROVE  LoopInv(p)'
    <2>1. CASE q = p
      <3>2. /\ ppc[p] \in {"check", "manifest", "pin"} /\ todo[p] # << >> /\ ppc'[p] = "check"
            /\ UNCHANGED <<manifests, lost, keep, doubled, clock>>
            /\ pinnedSince'[p] \subseteq pinnedSince[p]
        BY <1>0, <1>6, <2>1
           DEF SkipPinned, KeepNewest, ManifestGone, RemovePin, LoopInv, Shapes
      <3>3. todo'[p] = Tail(todo[p])
        BY <1>0, <1>6, <2>1, Zenon DEF SkipPinned, KeepNewest, ManifestGone, RemovePin, Advance, RetType
      <3>4. \/ kept'[p] = kept[p]
            \/ kept'[p] = kept[p] + 1 /\ ppc[p] = "check" /\ Candidate(p) \notin pins
        BY <1>0, <1>6, <2>1 DEF SkipPinned, KeepNewest, ManifestGone, RemovePin, RetType
      <3> QED
        BY <3>2, <3>3, <3>4, LoopAdvance
    <2>2. CASE q # p
      <3>1. /\ ppc'[p] = ppc[p] /\ todo'[p] = todo[p] /\ kept'[p] = kept[p]
            /\ pinnedSince'[p] \subseteq pinnedSince[p]
            /\ UNCHANGED <<keep, doubled, lost, manifests>>
        BY <1>t, <1>6, <2>2 DEF SkipPinned, KeepNewest, ManifestGone, RemovePin, Advance
      <3> QED
        BY <1>o, <3>1
    <2> QED
      BY <2>1, <2>2
  <1>7. ASSUME NEW q \in Pruners, GetFiles(q) \/ Release(q)  PROVE  LoopInv(p)'
    <2>1. CASE q = p
      <3>2. /\ todo[p] # << >> /\ kept[p] >= keep[p]
            /\ ppc[p] \in {"check", "release"} /\ ppc'[p] \in {"release", "manifest"}
            /\ UNCHANGED <<manifests, lost, todo, kept, keep, pinnedSince, doubled>>
        BY <1>0, <1>7, <2>1 DEF GetFiles, Release, LoopInv, Shapes
      <3>3. Spared(p)' = Spared(p) /\ Known(p)' = Known(p)
        BY <3>2 DEF Spared, Known
      <3> QED
        BY <1>0, <3>2, <3>3 DEF LoopInv
    <2>2. CASE q # p
      <3>1. /\ ppc'[p] = ppc[p]
            /\ UNCHANGED <<todo, kept, keep, doubled, lost, manifests, pinnedSince>>
        BY <1>t, <1>7, <2>2 DEF GetFiles, Release
      <3> QED
        BY <1>o, <3>1
    <2> QED
      BY <2>1, <2>2
  <1>8. ASSUME NEW q \in Pruners, RemoveManifest(q)  PROVE  LoopInv(p)'
    <2>1. /\ ppc[q] = "manifest" /\ ppc' = [ppc EXCEPT ![q] = "pin"]
          /\ manifests' = manifests \ {Candidate(q)}
          /\ UNCHANGED <<todo, kept, keep, pinnedSince, doubled>>
          /\ lost' = [r \in Pruners |->
                        IF r = q THEN lost[r] \ {Candidate(q)}
                        ELSE IF ppc[r] \in {"idle", "reload"} THEN lost[r]
                        ELSE lost[r] \cup ({Candidate(q)} \cap manifests)]
      BY <1>8, Zenon DEF RemoveManifest
    <2>2. CASE q = p
      <3>2. ppc[p] = "manifest" /\ ppc'[p] = "pin" /\ Known(p)' = Known(p) \ {Candidate(p)}
        <4>1. lost'[p] = lost[p] \ {Candidate(p)}
          BY <2>1, <2>2
        <4> QED
          BY <1>t, <2>1, <2>2, <4>1 DEF Known
      <3>3. todo[p] # << >> /\ Candidate(p) = todo[p][1] /\ 1 \in DOMAIN todo[p]
        <4>1. todo[p] # << >>
          BY <1>0, <3>2 DEF LoopInv
        <4> QED
          BY <1>0, <4>1, Rest DEF Candidate
      <3>4. Spared(p)' = Spared(p)
        <4>1. \A s \in Spared(p) : s # Candidate(p)
          BY <1>1, <3>3 DEF Spared
        <4> QED
          BY <2>1, <3>2, <4>1 DEF Spared
      <3>5. ASSUME ~ doubled[p], NEW i \in DOMAIN todo[p], i # 1  PROVE  todo[p][i] \in Known(p)'
        <4>1. i \in Nat /\ i > 1
          BY <1>0, <3>5
        <4>2. todo[p][i] \in Known(p) /\ todo[p][1] > todo[p][i]
          BY <1>0, <3>2, <3>3, <3>5, <4>1 DEF LoopInv
        <4>3. todo[p][1] \in Nat /\ todo[p][i] \in Nat
          BY <1>1, <3>3
        <4> QED
          BY <3>2, <3>3, <4>2, <4>3
      <3> QED
        BY <1>0, <2>1, <3>2, <3>3, <3>4, <3>5 DEF LoopInv
    <2>3. CASE q # p
      <3>1. ppc'[p] = ppc[p]
        BY <1>t, <2>1, <2>3
      <3>2. ppc[p] \notin {"idle", "reload"} => Known(p) \subseteq Known(p)'
        <4>1. ppc[p] \notin {"idle", "reload"} =>
                 lost'[p] = lost[p] \cup ({Candidate(q)} \cap manifests)
          BY <2>1, <2>3
        <4> QED
          BY <2>1, <4>1 DEF Known
      <3> QED
        BY <1>0, <1>k, <2>1, <3>1, <3>2, LoopKept
    <2> QED
      BY <2>2, <2>3
  <1>9. ASSUME NEW q \in Pruners, ReadDir(q)  PROVE  LoopInv(p)'
    <2>0. /\ todo' = [todo EXCEPT ![q] = << >>] /\ kept' = [kept EXCEPT ![q] = 0]
          /\ keep' = [keep EXCEPT ![q] = 0] /\ doubled' = [doubled EXCEPT ![q] = FALSE]
          /\ lost' = [lost EXCEPT ![q] = {}] /\ pinnedSince' = [pinnedSince EXCEPT ![q] = {}]
          /\ ppc' = [ppc EXCEPT ![q] = "reload"] /\ manifests' = manifests
      BY <1>9, Zenon DEF ReadDir, EndLoop
    <2>1. CASE q = p
      BY <1>t, <1>e, <2>0, <2>1
    <2>2. CASE q # p
      BY <1>t, <1>o, <2>0, <2>2
    <2> QED
      BY <2>1, <2>2
  <1>10. ASSUME NEW q \in Pruners, ReplaceCache(q) \/ Import(q)  PROVE  LoopInv(p)'
    <2>2. /\ ppc[q] \in {"idle", "reload"}
          /\ \E pc \in {"idle", "check"} : ppc' = [ppc EXCEPT ![q] = pc]
          /\ UNCHANGED <<todo, kept, keep, doubled, lost, pinnedSince>>
      BY <1>10, Zenon DEF ReplaceCache, Return, Import
    <2>3. manifests \subseteq manifests'
      BY <1>10 DEF ReplaceCache, Import
    <2>1. CASE q = p
      <3>1. todo[p] = << >> /\ kept[p] = 0
        BY <1>0, <2>1, <2>2 DEF LoopInv
      <3>2. ppc'[p] \in {"idle", "check"}
        BY <1>t, <2>1, <2>2
      <3> QED
        BY <1>e, <2>2, <3>1, <3>2
    <2>4. CASE q # p
      <3>1. ppc'[p] = ppc[p]
        BY <1>t, <2>2, <2>4
      <3> QED
        BY <1>o, <2>2, <2>3, <3>1
    <2> QED
      BY <2>1, <2>4
  <1>11. CASE Crash
    <2>1. /\ ppc' = [q \in Pruners |-> "idle"] /\ todo' = [q \in Pruners |-> << >>]
          /\ kept' = [q \in Pruners |-> 0]
      BY <1>11, Zenon DEF Crash
    <2>2. todo'[p] = << >> /\ kept'[p] = 0 /\ ppc'[p] = "idle"
      BY <2>1
    <2> QED
      BY <1>e, <2>2
  <1>12. CASE UNCHANGED vars
    BY <1>12, <1>s DEF vars, pruneVars
  <1> QED
    BY <1>2, <1>4, <1>5, <1>6, <1>7, <1>8, <1>9, <1>10, <1>11, <1>12, Zenon DEF Next, BackupGoesOn

\* The invariant holds at the start ...
LEMMA RetInit == Init => RetInv
  <1> SUFFICES ASSUME Init  PROVE  RetInv
    OBVIOUS
  <1> USE DEF Init
  <1>1. PinInv
    BY ShapesInit DEF PinInv, Lists, StillPinned
  <1>2. RetType
    <2>1. << >> \in Seq(1..clock) /\ manifests \subseteq 1..clock
      OBVIOUS
    <2> QED
      BY <2>1 DEF RetType
  <1>3. CommitInv
    BY DEF CommitInv, Pending
  <1>4. MatchInv
    <2>1. ToSet(cache) = {}
      BY DEF ToSet
    <2> QED
      BY <2>1 DEF MatchInv, ListMatches
  <1>5. ASSUME NEW p \in Pruners  PROVE  LoopInv(p)
    <2>1. todo[p] = << >> /\ kept[p] = 0 /\ ppc[p] = "idle"
      OBVIOUS
    <2> QED
      BY <2>1 DEF LoopInv
  <1> QED
    BY <1>1, <1>2, <1>3, <1>4, <1>5 DEF RetInv

\* ... and from one step to the next.
LEMMA RetNext == RetInv /\ [Next]_vars => RetInv'
  <1> SUFFICES ASSUME RetInv, [Next]_vars  PROVE  RetInv'
    OBVIOUS
  <1>1. PinInv'
    BY PinNext DEF RetInv
  <1>2. RetType'
    BY RetTypeNext DEF RetInv, PinInv
  <1>3. CommitInv'
    BY CommitNext DEF RetInv, PinInv
  <1>4. MatchInv'
    BY MatchNext
  <1>5. \A p \in Pruners : LoopInv(p)'
    BY <1>1, <1>2, LoopNext DEF PinInv
  <1> QED
    BY <1>1, <1>2, <1>3, <1>4, <1>5 DEF RetInv

\* The list in memory has the snapshots of the directory, but for those on their way and
\* those that were written or deleted behind the back of the last reload.
THEOREM ListsMatch == Spec => []ListMatches
  <1>1. Init => RetInv
    BY RetInit
  <1>2. RetInv /\ [Next]_vars => RetInv'
    BY RetNext
  <1>3. RetInv => ListMatches
    BY DEF RetInv, MatchInv
  <1> QED
    BY <1>1, <1>2, <1>3, PTL DEF Spec

\* A prune whose copy of the list names no snapshot twice deletes none unless as many newer
\* ones as it was asked to keep, not pinned all the time since it began, are on disk, or were
\* deleted by others.
THEOREM NewestSpared == Spec => []KeepsNewest
  <1>1. Init => RetInv
    BY RetInit
  <1>2. RetInv /\ [Next]_vars => RetInv'
    BY RetNext
  <1>3. RetInv => KeepsNewest
    <2> SUFFICES ASSUME RetInv, NEW p \in Pruners, ppc[p] \in {"release", "manifest", "pin"},
                        ~ doubled[p]
                 PROVE  Cardinality({s \in (manifests \cup lost[p]) \ pinnedSince[p] : s > Candidate(p)})
                          >= keep[p]
      BY DEF KeepsNewest
    <2> DEFINE Newer == {s \in (manifests \cup lost[p]) \ pinnedSince[p] : s > Candidate(p)}
               Seen == Spared(p)
    <2>1. /\ LoopInv(p) /\ clock \in Nat /\ todo[p] \in Seq(1..clock)
          /\ manifests \subseteq 1..clock /\ lost[p] \subseteq 1..clock
          /\ kept[p] \in Nat /\ keep[p] \in Nat
      BY DEF RetInv, PinInv, RetType, Shapes
    <2>2. todo[p] # << >> /\ kept[p] >= keep[p] /\ kept[p] <= Cardinality(Seen)
      BY <2>1 DEF LoopInv
    <2>3. Candidate(p) = todo[p][1] /\ 1 \in DOMAIN todo[p]
      BY <2>1, <2>2, Rest DEF Candidate
    <2>4. Newer \in SUBSET (1..clock) /\ Seen \in SUBSET Newer
      BY <2>1, <2>3 DEF Spared, Known
    <2> HIDE DEF Newer, Seen
    <2>5. /\ Cardinality(Seen) \in Nat /\ Cardinality(Newer) \in Nat
          /\ Cardinality(Seen) <= Cardinality(Newer)
      BY <2>1, <2>4, OnDisk, Zenon
    <2>6. Cardinality(Newer) >= keep[p]
      BY <2>1, <2>2, <2>5
    <2> QED
      BY <2>6 DEF Newer
  <1> QED
    BY <1>1, <1>2, <1>3, PTL DEF Spec

-----------------------------------------------------------------------------
(* Sums of reference counts *)

\* g[s] is the sum of f over s, for every subset s of S.
Pick(s) == CHOOSE x \in s : TRUE
Sums(g, f, S) == g = [s \in SUBSET S |-> IF s = {} THEN 0 ELSE f[Pick(s)] + g[s \ {Pick(s)}]]

\* The sum over a set that is not empty, from the sum over a smaller one.
LEMMA Smaller ==
  ASSUME NEW s, IsFiniteSet(s), s # {}
  PROVE  /\ Pick(s) \in s /\ IsFiniteSet(s \ {Pick(s)})
         /\ Cardinality(s) \in Nat /\ Cardinality(s \ {Pick(s)}) = Cardinality(s) - 1
  <1>1. Pick(s) \in s
    BY Zenon DEF Pick
  <1>2. IsFiniteSet(s \ {Pick(s)}) /\ Cardinality(s \ {Pick(s)}) = Cardinality(s) - 1
    BY <1>1, FS_RemoveElement
  <1> QED
    BY <1>1, <1>2, FS_CardinalityType

\* The sums exist: were there a size up to which they do not, there would be a least.
LEMMA SumsExist ==
  ASSUME NEW S, IsFiniteSet(S), NEW f \in [S -> Nat]
  PROVE  \E g \in [SUBSET S -> Nat] : Sums(g, f, S)
  <1> DEFINE Small(n) == {s \in SUBSET S : Cardinality(s) <= n}
             Upto(g, n) == \A s \in Small(n) :
                g[s] = IF s = {} THEN 0 ELSE f[Pick(s)] + g[s \ {Pick(s)}]
             Hard == {n \in Nat : ~ \E g \in [Small(n) -> Nat] : Upto(g, n)}
  <1>1. \A s \in SUBSET S : IsFiniteSet(s) /\ Cardinality(s) \in Nat
    BY FS_Subset, FS_CardinalityType, Zenon
  <1>2. ASSUME NEW n \in Nat, NEW s \in Small(n), s # {}
        PROVE  Pick(s) \in S /\ f[Pick(s)] \in Nat /\ n # 0 /\ s \ {Pick(s)} \in Small(n - 1)
    <2>1. s \in SUBSET S /\ Cardinality(s) <= n
      OBVIOUS
    <2>2. /\ Pick(s) \in s /\ Cardinality(s) \in Nat
          /\ Cardinality(s \ {Pick(s)}) = Cardinality(s) - 1
      BY <1>1, <1>2, <2>1, Smaller, Zenon
    <2>3. s \ {Pick(s)} \in SUBSET S /\ Cardinality(s \ {Pick(s)}) \in Nat
      BY <1>1, <2>1
    <2> QED
      BY <2>1, <2>2, <2>3
  <1>3. Hard = {}
    <2> SUFFICES ASSUME Hard # {}  PROVE  FALSE
      OBVIOUS
    <2>1. PICK n \in Hard : \A m \in Hard : n <= m
      <3> HIDE DEF Hard
      <3>1. Hard \subseteq Nat
        BY DEF Hard
      <3> QED
        BY <3>1, LeastNumber, Zenon
    <2>2. n \in Nat
      OBVIOUS
    <2>3. CASE n = 0
      <3>1. \A s \in Small(n) : s = {}
        BY <1>2, <2>2, <2>3
      <3> DEFINE g == [s \in Small(n) |-> 0]
      <3>2. g \in [Small(n) -> Nat] /\ Upto(g, n)
        BY <3>1
      <3> QED
        BY <3>2
    <2>4. CASE n # 0
      <3>1. n - 1 \in Nat /\ ~ (n <= n - 1)
        BY <2>2, <2>4
      <3>2. n - 1 \notin Hard
        <4> HIDE DEF Hard
        <4> QED
          BY <2>1, <3>1
      <3>3. PICK g \in [Small(n - 1) -> Nat] : Upto(g, n - 1)
        BY <3>1, <3>2
      <3> DEFINE Sum(s) == IF s = {} THEN 0 ELSE f[Pick(s)] + g[s \ {Pick(s)}]
                 h == [s \in Small(n) |-> Sum(s)]
      <3>4. ASSUME NEW s \in Small(n)
            PROVE  Sum(s) \in Nat
        <4>1. CASE s = {}
          BY <4>1
        <4>2. CASE s # {}
          <5>1. f[Pick(s)] \in Nat /\ g[s \ {Pick(s)}] \in Nat
            <6>1. f[Pick(s)] \in Nat /\ s \ {Pick(s)} \in Small(n - 1)
              BY <1>2, <2>2, <4>2, Zenon
            <6> HIDE DEF Small
            <6> QED
              BY <6>1
          <5> QED
            BY <4>2, <5>1
        <4> QED
          BY <4>1, <4>2
      <3>5. \A s \in Small(n - 1) : g[s] = Sum(s)
        BY <3>3
      <3>6. Small(n - 1) \subseteq Small(n)
        BY <1>1, <2>2
      <3> HIDE DEF Sum, Small
      <3>7. h \in [Small(n) -> Nat]
        BY <3>4
      <3>8. \A s \in Small(n - 1) : g[s] = h[s]
        BY <3>5, <3>6
      <3>9. \A s \in Small(n) : h[s] = Sum(s)
        OBVIOUS
      <3> HIDE DEF h
      <3>10. ASSUME NEW s \in Small(n)
             PROVE  h[s] = IF s = {} THEN 0 ELSE f[Pick(s)] + h[s \ {Pick(s)}]
        <4>1. CASE s = {}
          BY <3>9, <4>1 DEF Sum
        <4>2. CASE s # {}
          <5>1. s \ {Pick(s)} \in Small(n - 1)
            BY <1>2, <2>2, <4>2, Zenon
          <5>2. g[s \ {Pick(s)}] = h[s \ {Pick(s)}]
            BY <3>8, <5>1, Zenon
          <5> QED
            BY <3>9, <4>2, <5>2, Zenon DEF Sum
        <4> QED
          BY <4>1, <4>2
      <3>11. Upto(h, n)
        BY <3>10
      <3> HIDE DEF Upto
      <3>12. n \notin Hard
        BY <3>7, <3>11
      <3> QED
        BY <3>12
    <2> QED
      BY <2>3, <2>4
  <1>4. Cardinality(S) \in Nat /\ Small(Cardinality(S)) = SUBSET S
    BY <1>1, FS_Subset, FS_CardinalityType
  <1>5. PICK g \in [Small(Cardinality(S)) -> Nat] : Upto(g, Cardinality(S))
    <2> HIDE DEF Upto, Small
    <2> QED
      BY <1>3, <1>4
  <1>6. g \in [SUBSET S -> Nat]
        /\ \A s \in SUBSET S : g[s] = IF s = {} THEN 0 ELSE f[Pick(s)] + g[s \ {Pick(s)}]
    BY <1>4, <1>5, Zenon
  <1>7. Sums(g, f, S)
    BY <1>6, Zenon DEF Sums
  <1> QED
    BY <1>6, <1>7

\* h is f, but one more at c.
OneMore(h, f, S, c) ==
    /\ c \in S /\ f \in [S -> Nat] /\ h \in [S -> Nat]
    /\ h[c] = f[c] + 1 /\ \A x \in S : x # c => h[x] = f[x]

\* g has the sums over S's subsets, all of them numbers.
Summed(g, f, S) == g \in [SUBSET S -> Nat] /\ Sums(g, f, S)

\* A sum is one more when one of the numbers is.
LEMMA SumsByOne ==
  ASSUME NEW S, IsFiniteSet(S), NEW f, NEW h, NEW c, OneMore(h, f, S, c),
         NEW g, NEW k, Summed(g, f, S), Summed(k, h, S)
  PROVE  k[S] = g[S] + 1
  <1> USE DEF OneMore, Summed
  <1> DEFINE Off(s) == ~ (k[s] = g[s] + IF c \in s THEN 1 ELSE 0)
             Sizes == {Cardinality(s) : s \in {t \in SUBSET S : Off(t)}}
  <1>1. \A s \in SUBSET S : IsFiniteSet(s) /\ Cardinality(s) \in Nat
    BY FS_Subset, FS_CardinalityType, Zenon
  <1>2. \A s \in SUBSET S : g[s] \in Nat /\ k[s] \in Nat
    OBVIOUS
  <1>3. ASSUME Sizes # {}  PROVE  FALSE
    <2>1. PICK n \in Sizes : \A m \in Sizes : n <= m
      <3>1. Sizes \subseteq Nat
        BY <1>1
      <3> HIDE DEF Sizes
      <3> QED
        BY <1>3, <3>1, LeastNumber, Zenon
    <2>2. PICK s \in SUBSET S : Off(s) /\ n = Cardinality(s)
      OBVIOUS
    <2>3. s # {}
      <3>1. ASSUME s = {}  PROVE  FALSE
        <4>1. {} \in SUBSET S
          OBVIOUS
        <4>2. g[{}] = 0 /\ k[{}] = 0
          BY <4>1, Zenon DEF Sums
        <4> QED
          BY <2>2, <3>1, <4>2
      <3> QED
        BY <3>1
    <2> DEFINE x == Pick(s)  t == s \ {x}
    <2>4. x \in s /\ t \in SUBSET S /\ Cardinality(t) = Cardinality(s) - 1 /\ Cardinality(s) \in Nat
      BY <1>1, <2>3, Smaller, Zenon
    <2>5. g[s] = f[x] + g[t] /\ k[s] = h[x] + k[t]
      BY <2>3, Zenon DEF Sums
    <2>6. ~ Off(t)
      <3> SUFFICES ASSUME Off(t)  PROVE  FALSE
        OBVIOUS
      <3>1. Cardinality(t) \in Sizes
        BY <2>4
      <3>2. n <= Cardinality(t)
        BY <2>1, <3>1
      <3> HIDE DEF t
      <3> QED
        BY <2>2, <2>4, <3>2
    <2>7. c \in s <=> c \in t \/ c = x
      BY <2>4
    <2>8. c = x => c \notin t
      OBVIOUS
    <2>9. x \in S /\ f[x] \in Nat /\ h[x] \in Nat /\ g[t] \in Nat /\ k[t] \in Nat
      BY <1>2, <2>4
    <2>10. k[t] = g[t] + IF c \in t THEN 1 ELSE 0
      BY <2>6
    <2>11. ~ (k[s] = g[s] + IF c \in s THEN 1 ELSE 0)
      BY <2>2
    <2> HIDE DEF x, t, Off
    <2>12. CASE c = x
      BY <2>4, <2>5, <2>7, <2>8, <2>9, <2>10, <2>11, <2>12
    <2>13. CASE c # x
      <3>1. h[x] = f[x]
        BY <2>9, <2>13
      <3> QED
        BY <2>5, <2>7, <2>9, <2>10, <2>11, <2>13, <3>1
    <2> QED
      BY <2>12, <2>13
  <1>4. ~ Off(S)
    BY <1>3
  <1> QED
    BY <1>4

\* All references.
Total(f) == MapThenSumSet(LAMBDA c : f[c], Chunks)

\* The references there are: a number, that goes up and down with each of them.
LEMMA TotalSum ==
  ASSUME IsFiniteSet(Chunks), NEW f \in [Chunks -> Nat]
  PROVE  \E g \in [SUBSET Chunks -> Nat] : Sums(g, f, Chunks) /\ Total(f) = g[Chunks]
  <1> DEFINE g == CHOOSE gg : Sums(gg, f, Chunks)
  <1>1. Total(f) = g[Chunks]
    BY Zenon DEF Total, MapThenSumSet, MapThenFoldSet, Sums, Pick
  <1>2. PICK h \in [SUBSET Chunks -> Nat] : Sums(h, f, Chunks)
    BY SumsExist
  <1>3. Sums(g, f, Chunks)
    BY <1>2, Zenon
  <1>4. g = h
    <2> DEFINE Same(s) == g[s] = h[s]
               Sizes == {Cardinality(s) : s \in {t \in SUBSET Chunks : ~ Same(t)}}
    <2> HIDE DEF g
    <2>1. \A s \in SUBSET Chunks : IsFiniteSet(s) /\ Cardinality(s) \in Nat
      BY FS_Subset, FS_CardinalityType, Zenon
    <2>2. ASSUME Sizes # {}  PROVE  FALSE
      <3>1. PICK n \in Sizes : \A m \in Sizes : n <= m
        <4>1. Sizes \subseteq Nat
          BY <2>1
        <4> HIDE DEF Sizes
        <4> QED
          BY <2>2, <4>1, LeastNumber, Zenon
      <3>2. PICK s \in SUBSET Chunks : ~ Same(s) /\ n = Cardinality(s)
        OBVIOUS
      <3>3. s # {}
        <4>1. ASSUME s = {}  PROVE  FALSE
          <5>1. {} \in SUBSET Chunks
            OBVIOUS
          <5>2. g[{}] = 0 /\ h[{}] = 0
            BY <1>2, <1>3, <5>1, Zenon DEF Sums
          <5> QED
            BY <3>2, <4>1, <5>2
        <4> QED
          BY <4>1
      <3> DEFINE t == s \ {Pick(s)}
      <3>4. t \in SUBSET Chunks /\ Cardinality(t) = Cardinality(s) - 1 /\ Cardinality(s) \in Nat
        BY <2>1, <3>3, Smaller, Zenon
      <3>5. g[s] = f[Pick(s)] + g[t] /\ h[s] = f[Pick(s)] + h[t]
        BY <1>2, <1>3, <3>3, Zenon DEF Sums
      <3>6. ~ Same(t)
        BY <3>2, <3>5
      <3>7. Cardinality(t) \in Sizes
        BY <3>4, <3>6
      <3>8. n <= Cardinality(t)
        BY <3>1, <3>7
      <3> HIDE DEF t
      <3> QED
        BY <3>2, <3>4, <3>8
    <2>3. \A s \in SUBSET Chunks : g[s] = h[s]
      BY <2>2
    <2>4. DOMAIN g = SUBSET Chunks
      BY <1>3, Zenon DEF Sums
    <2>5. g = [s \in SUBSET Chunks |-> g[s]]
      BY <1>3, <2>4, Zenon DEF Sums
    <2>6. h = [s \in SUBSET Chunks |-> h[s]]
      BY Zenon
    <2> QED
      BY <2>3, <2>5, <2>6, Zenon
  <1> HIDE DEF g
  <1> QED
    BY <1>1, <1>2, <1>4

\* One more reference ...
LEMMA TotalIncrement ==
  ASSUME IsFiniteSet(Chunks), NEW r \in [Chunks -> Nat], NEW c \in Chunks
  PROVE  /\ IncrementRef(r, c) \in [Chunks -> Nat]
         /\ Total(r) \in Nat /\ Total(IncrementRef(r, c)) = Total(r) + 1
  <1> DEFINE h == IncrementRef(r, c)
  <1>1. h \in [Chunks -> Nat] /\ h[c] = r[c] + 1 /\ \A x \in Chunks : x # c => h[x] = r[x]
    BY DEF IncrementRef
  <1> HIDE DEF h
  <1>2. PICK g \in [SUBSET Chunks -> Nat] : Sums(g, r, Chunks) /\ Total(r) = g[Chunks]
    BY TotalSum, Zenon
  <1>3. PICK k \in [SUBSET Chunks -> Nat] : Sums(k, h, Chunks) /\ Total(h) = k[Chunks]
    BY <1>1, TotalSum, Zenon
  <1>4. k[Chunks] = g[Chunks] + 1
    <2>1. OneMore(h, r, Chunks, c)
      BY <1>1, Zenon DEF OneMore
    <2>2. Summed(g, r, Chunks) /\ Summed(k, h, Chunks)
      BY <1>2, <1>3, Zenon DEF Summed
    <2> QED
      BY <2>1, <2>2, SumsByOne, SMTT(30)
  <1>5. g[Chunks] \in Nat
    OBVIOUS
  <1> QED
    BY <1>1, <1>2, <1>3, <1>4, <1>5 DEF h

\* ... and one less, if there was one.
LEMMA TotalDecrement ==
  ASSUME IsFiniteSet(Chunks), NEW r \in [Chunks -> Nat], NEW c \in Chunks
  PROVE  /\ DecrementRef(r, c) \in [Chunks -> Nat]
         /\ Total(DecrementRef(r, c)) \in Nat /\ Total(r) <= Total(DecrementRef(r, c)) + 1
  <1> DEFINE h == DecrementRef(r, c)
  <1>1. h \in [Chunks -> Nat]
    BY DEF DecrementRef
  <1>2. CASE r[c] = 0
    <2>1. h = r
      BY <1>2 DEF DecrementRef
    <2>2. Total(r) \in Nat
      BY TotalIncrement
    <2> HIDE DEF h
    <2> QED
      BY <1>1, <2>1, <2>2 DEF h
  <1>3. CASE r[c] # 0
    <2>1. r = IncrementRef(h, c)
      <3>1. h[c] = r[c] - 1 /\ \A x \in Chunks : x # c => h[x] = r[x]
        BY <1>3 DEF DecrementRef
      <3> HIDE DEF h
      <3>2. \A x \in Chunks : IncrementRef(h, c)[x] = r[x]
        BY <1>1, <3>1 DEF IncrementRef
      <3>3. IncrementRef(h, c) \in [Chunks -> Nat]
        BY <1>1 DEF IncrementRef
      <3> QED
        BY <3>2, <3>3
    <2> HIDE DEF h
    <2>2. Total(h) \in Nat /\ Total(IncrementRef(h, c)) = Total(h) + 1
      BY <1>1, TotalIncrement
    <2>3. Total(r) = Total(h) + 1
      BY <2>1, <2>2
    <2> QED
      BY <1>1, <2>2, <2>3 DEF h
  <1> QED
    BY <1>2, <1>3

\* World's last backup recorded one chunk or nothing, and that is what a deletion gives back.
LEMMA TotalRelease ==
  ASSUME IsFiniteSet(Chunks), NEW r \in [Chunks -> Nat],
         NEW l \in {<< >>} \cup {<<c>> : c \in Chunks}
  PROVE  /\ ReleaseAll(r, l) \in [Chunks -> Nat]
         /\ Total(ReleaseAll(r, l)) \in Nat /\ Total(r) <= Total(ReleaseAll(r, l)) + 1
  <1> DEFINE Does(g) == g = [s \in SUBSET DOMAIN l |->
                 IF s = {} THEN r ELSE DecrementRef(g[s \ {Max(s)}], l[Max(s)])]
             g == CHOOSE gg : Does(gg)
  <1>1. ReleaseAll(r, l) = g[DOMAIN l]
    BY Zenon DEF ReleaseAll, FoldLeft, MapThenFoldSet
  <1>2. CASE l = << >>
    <2>1. DOMAIN l = {} /\ SUBSET DOMAIN l = {{}}
      BY <1>2
    <2> DEFINE h == [s \in {{}} |-> r]
    <2>2. Does(h)
      BY <2>1
    <2>3. Does(g)
      BY <2>2, Zenon
    <2> HIDE DEF g
    <2>4. g[DOMAIN l] = r
      BY <2>1, <2>3
    <2>5. Total(r) \in Nat
      <3>1. PICK k \in [SUBSET Chunks -> Nat] : Total(r) = k[Chunks]
        BY TotalSum
      <3> QED
        BY <3>1
    <2>6. ReleaseAll(r, l) = r
      BY <1>1, <2>4
    <2> QED
      BY <2>5, <2>6
  <1>3. CASE \E c \in Chunks : l = <<c>>
    <2>1. PICK c \in Chunks : l = <<c>>
      BY <1>3
    <2>2. DOMAIN l = {1} /\ l[1] = c /\ SUBSET DOMAIN l = {{}, {1}}
      BY <2>1
    <2>3. Max({1}) = 1
      BY DEF Max
    <2> DEFINE h == [s \in {{}, {1}} |-> IF s = {} THEN r ELSE DecrementRef(r, c)]
    <2>4. h[{}] = r /\ h[{1}] = DecrementRef(r, c)
      OBVIOUS
    <2>5. Does(h)
      <3>1. ASSUME NEW s \in {{}, {1}}
            PROVE  h[s] = IF s = {} THEN r ELSE DecrementRef(h[s \ {Max(s)}], l[Max(s)])
        <4>1. CASE s = {}
          BY <4>1
        <4>2. CASE s = {1}
          <5>1. Max(s) = 1 /\ s \ {Max(s)} = {} /\ s # {}
            BY <2>3, <4>2
          <5> HIDE DEF h
          <5> QED
            BY <2>2, <2>4, <4>2, <5>1
        <4> QED
          BY <4>1, <4>2
      <3>2. h = [s \in {{}, {1}} |-> h[s]]
        BY Zenon
      <3> HIDE DEF h
      <3> QED
        BY <2>2, <3>1, <3>2, Zenon
    <2>6. Does(g)
      BY <2>5, Zenon
    <2> HIDE DEF g
    <2>7. g[{}] = r
      BY <2>2, <2>6
    <2>8. g[{1}] = DecrementRef(g[{1} \ {Max({1})}], l[Max({1})])
      BY <2>2, <2>6, Zenon
    <2>9. {1} \ {1} = {}
      OBVIOUS
    <2>10. ReleaseAll(r, l) = DecrementRef(r, c)
      BY <1>1, <2>2, <2>3, <2>7, <2>8, <2>9, Zenon
    <2> QED
      BY <2>10, TotalDecrement
  <1> QED
    BY <1>2, <1>3

-----------------------------------------------------------------------------
(* References and file lists *)

\* A deletion gives something back only for the snapshot it deletes.
Held(p) == ppc[p] = "release" => listed[p] \subseteq {Candidate(p)}

Counted ==
    /\ refs \in [Chunks -> Nat]
    /\ latest \in {<< >>} \cup {<<c>> : c \in Chunks}
    /\ IsFiniteSet(fileLists) /\ IsFiniteSet(InFlight)
    /\ Cardinality(fileLists) \in Nat /\ Cardinality(InFlight) \in Nat
    /\ again \in Nat
    /\ again + Total(refs) >= Cardinality(fileLists) + Cardinality(InFlight)

RelInv == Shapes /\ Lists /\ DOMAIN listed = Pruners /\ Counted /\ \A p \in Pruners : Held(p)

\* Each prune has something listed, maybe nothing.
LEMMA ListedNext == DOMAIN listed = Pruners /\ [Next]_vars => DOMAIN listed' = Pruners
  <1> SUFFICES ASSUME DOMAIN listed = Pruners, [Next]_vars
               PROVE  DOMAIN listed' = Pruners
    OBVIOUS
  <1>1. ASSUME NEW b \in Backups, BackupGoesOn(b)
        PROVE  listed' = listed
    BY <1>1 DEF BackupGoesOn, StoreChunks, WriteManifest, RecordFiles, PushCache, pruneVars
  <1>2. ASSUME NEW s \in Snapshots, Pin(s)
        PROVE  listed' = listed
    BY <1>2 DEF Pin, pruneVars
  <1>3. ASSUME NEW p \in Pruners, NEW k \in Keep, StartPrune(p, k)
        PROVE  listed' = listed
    BY <1>3, Zenon DEF StartPrune
  <1>4. ASSUME NEW p \in Pruners,
               \/ SkipPinned(p) \/ KeepNewest(p) \/ RemoveManifest(p) \/ ManifestGone(p)
               \/ RemovePin(p) \/ Import(p)
        PROVE  listed' = listed
    BY <1>4, Zenon DEF SkipPinned, KeepNewest, RemoveManifest, ManifestGone, RemovePin, Import
  <1>5. ASSUME NEW p \in Pruners, GetFiles(p) \/ Release(p) \/ ReadDir(p) \/ ReplaceCache(p)
        PROVE  DOMAIN listed' = DOMAIN listed
    BY <1>5, Zenon DEF GetFiles, Release, ReadDir, ReplaceCache, Return
  <1>6. CASE Crash
    BY <1>6, Zenon DEF Crash
  <1>7. CASE UNCHANGED vars
    BY <1>7 DEF vars, pruneVars
  <1> QED
    BY <1>1, <1>2, <1>3, <1>4, <1>5, <1>6, <1>7, Zenon DEF Next, BackupGoesOn

\* It stays that snapshot until it has been released.
LEMMA HeldNext ==
  ASSUME RelInv, [Next]_vars, NEW p \in Pruners
  PROVE  Held(p)'
  <1>0. /\ Held(p) /\ DOMAIN listed = Pruners /\ DOMAIN todo = Pruners
        /\ ppc \in [Pruners -> {"idle", "check", "release", "manifest", "pin", "reload"}]
    BY DEF RelInv, Shapes, Lists
  <1>s. ASSUME ppc'[p] = ppc[p], todo'[p] = todo[p], listed'[p] = listed[p]
        PROVE  Held(p)'
    BY <1>0, <1>s DEF Held, Candidate
  <1>1. ASSUME NEW b \in Backups, BackupGoesOn(b)  PROVE  Held(p)'
    BY <1>1, <1>s DEF BackupGoesOn, StoreChunks, WriteManifest, RecordFiles, PushCache, pruneVars
  <1>2. ASSUME NEW s \in Snapshots, Pin(s)  PROVE  Held(p)'
    BY <1>2, <1>s DEF Pin, pruneVars
  <1>3. ASSUME NEW q \in Pruners,
               \/ \E k \in Keep : StartPrune(q, k)
               \/ SkipPinned(q) \/ KeepNewest(q) \/ ManifestGone(q) \/ RemovePin(q) \/ ReadDir(q)
               \/ ReplaceCache(q) \/ Release(q) \/ RemoveManifest(q) \/ Import(q)
        PROVE  Held(p)'
    <2>1. /\ \/ ppc[q] = "check" /\ ppc' = ppc
             \/ \E at \in {"check", "reload", "idle", "manifest", "pin"} : ppc' = [ppc EXCEPT ![q] = at]
          /\ \/ todo' = todo
             \/ \E t : todo' = [todo EXCEPT ![q] = t]
          /\ \/ listed' = listed
             \/ \E S : listed' = [listed EXCEPT ![q] = S]
      <3>1. CASE \E k \in Keep : StartPrune(q, k)
        BY <3>1, Zenon DEF StartPrune
      <3>2. CASE SkipPinned(q) \/ KeepNewest(q)
        BY <3>2, Zenon DEF SkipPinned, KeepNewest, Advance
      <3>3. CASE ManifestGone(q) \/ RemovePin(q)
        BY <3>3, Zenon DEF ManifestGone, RemovePin, Advance
      <3>4. CASE ReadDir(q) \/ ReplaceCache(q)
        BY <3>4, Zenon DEF ReadDir, EndLoop, ReplaceCache, Return
      <3>5. CASE Release(q) \/ RemoveManifest(q) \/ Import(q)
        BY <3>5, Zenon DEF Release, RemoveManifest, Import
      <3> QED
        BY <1>3, <3>1, <3>2, <3>3, <3>4, <3>5, Zenon
    <2>2. CASE q = p
      BY <1>0, <2>1, <2>2 DEF Held
    <2>3. CASE q # p
      <3>1. ppc'[p] = ppc[p] /\ todo'[p] = todo[p] /\ listed'[p] = listed[p]
        BY <1>0, <2>1, <2>3
      <3> QED
        BY <1>s, <3>1
    <2> QED
      BY <2>2, <2>3
  <1>5. ASSUME NEW q \in Pruners, GetFiles(q)  PROVE  Held(p)'
    BY <1>0, <1>5 DEF GetFiles, Held, Candidate
  <1>6. CASE Crash
    <2>1. ppc' = [q \in Pruners |-> "idle"]
      BY <1>6, Zenon DEF Crash
    <2> QED
      BY <2>1 DEF Held
  <1>7. CASE UNCHANGED vars
    BY <1>7, <1>s DEF vars, pruneVars
  <1> QED
    BY <1>1, <1>2, <1>3, <1>5, <1>6, <1>7, Zenon DEF Next, BackupGoesOn

\* A reference is gained with a backup under way, and lost with a file list at the most.
LEMMA CountedNext ==
  ASSUME IsFiniteSet(Chunks), RelInv, [Next]_vars
  PROVE  Counted'
  <1>0. /\ Shapes /\ Counted /\ refs \in [Chunks -> Nat]
        /\ IsFiniteSet(fileLists) /\ IsFiniteSet(InFlight)
        /\ Cardinality(fileLists) \in Nat /\ Cardinality(InFlight) \in Nat
        /\ Total(refs) \in Nat /\ again \in Nat
        /\ again + Total(refs) >= Cardinality(fileLists) + Cardinality(InFlight)
    <2>1. PICK g \in [SUBSET Chunks -> Nat] : Total(refs) = g[Chunks]
      BY TotalSum DEF RelInv, Counted
    <2> QED
      BY <2>1 DEF RelInv, Counted
  <1>s. ASSUME UNCHANGED <<refs, latest, fileLists, again>>, InFlight' \subseteq InFlight
        PROVE  Counted'
    <2> DEFINE F == InFlight'
    <2>1. IsFiniteSet(F) /\ Cardinality(F) \in Nat /\ Cardinality(F) <= Cardinality(InFlight)
      <3>1. F \subseteq InFlight
        BY <1>s
      <3> HIDE DEF F
      <3> QED
        BY <1>0, <3>1, FS_Subset, FS_CardinalityType
    <2>2. Total(refs)' = Total(refs)
      BY <1>s, Zenon DEF Total, MapThenSumSet, MapThenFoldSet
    <2> HIDE DEF F
    <2>3. again' + Total(refs)' >= Cardinality(fileLists) + Cardinality(F)
      BY <1>0, <1>s, <2>1, <2>2
    <2> QED
      BY <1>0, <1>s, <2>1, <2>3 DEF Counted, F
  <1>1. ASSUME NEW b \in Backups, StoreChunks(b)  PROVE  Counted'
    <2>1. PICK c \in Chunks : refs' = IncrementRef(refs, c) /\ latest' = <<c>>
      BY <1>1 DEF StoreChunks
    <2>2. bpc[b] = "idle" /\ bpc' = [bpc EXCEPT ![b] = "manifest"] /\ fileLists' = fileLists
          /\ again' = again
      BY <1>1 DEF StoreChunks
    <2> DEFINE F == InFlight'
    <2>3. F = InFlight \cup {b} /\ b \notin InFlight
      BY <1>0, <2>2 DEF InFlight, Shapes
    <2> HIDE DEF F
    <2>4. IsFiniteSet(F) /\ Cardinality(F) = Cardinality(InFlight) + 1
      BY <1>0, <2>3, FS_AddElement
    <2> DEFINE r == IncrementRef(refs, c)
    <2>5. r \in [Chunks -> Nat] /\ Total(r) = Total(refs) + 1
      BY <1>0, TotalIncrement
    <2>6. Total(refs)' = Total(r)
      BY <2>1, Zenon DEF Total, MapThenSumSet, MapThenFoldSet
    <2> HIDE DEF r
    <2>7. again' + Total(refs)' >= Cardinality(fileLists) + Cardinality(F) /\ Cardinality(F) \in Nat
      <3>1. Cardinality(F) \in Nat
        BY <1>0, <2>4
      <3> QED
        BY <1>0, <2>2, <2>4, <2>5, <2>6, <3>1
    <2>8. refs' \in [Chunks -> Nat] /\ latest' \in {<< >>} \cup {<<d>> : d \in Chunks}
      BY <2>1, <2>5 DEF r
    <2> QED
      BY <1>0, <2>2, <2>4, <2>7, <2>8 DEF Counted, F
  <1>2. ASSUME NEW b \in Backups, RecordFiles(b)  PROVE  Counted'
    <2>1. /\ bpc[b] = "files" /\ bpc' = [bpc EXCEPT ![b] = "push"]
          /\ fileLists' = fileLists \cup {taken[b]} /\ UNCHANGED <<refs, latest, again>>
      BY <1>2 DEF RecordFiles
    <2> DEFINE F == InFlight'  L == fileLists \cup {taken[b]}
    <2>2. F = InFlight \ {b} /\ b \in InFlight
      BY <1>0, <2>1 DEF InFlight, Shapes
    <2> HIDE DEF F
    <2>3. IsFiniteSet(F) /\ Cardinality(F) = Cardinality(InFlight) - 1 /\ Cardinality(F) \in Nat
      <3>1. IsFiniteSet(F) /\ Cardinality(F) = Cardinality(InFlight) - 1
        BY <1>0, <2>2, FS_RemoveElement
      <3> QED
        BY <3>1, FS_CardinalityType
    <2>4. IsFiniteSet(L) /\ Cardinality(L) \in Nat /\ Cardinality(L) <= Cardinality(fileLists) + 1
      <3>1. IsFiniteSet(L) /\ (Cardinality(L) = Cardinality(fileLists)
                               \/ Cardinality(L) = Cardinality(fileLists) + 1)
        BY <1>0, FS_AddElement
      <3> HIDE DEF L
      <3> QED
        BY <1>0, <3>1
    <2>5. Total(refs)' = Total(refs)
      BY <2>1, Zenon DEF Total, MapThenSumSet, MapThenFoldSet
    <2> HIDE DEF L
    <2>6. again' + Total(refs)' >= Cardinality(L) + Cardinality(F)
      BY <1>0, <2>1, <2>3, <2>4, <2>5
    <2> QED
      BY <1>0, <2>1, <2>3, <2>4, <2>6 DEF Counted, F, L
  <1>3. ASSUME NEW b \in Backups, WriteManifest(b) \/ PushCache(b)  PROVE  Counted'
    <2>1. UNCHANGED <<refs, latest, fileLists, again>>
      BY <1>3 DEF WriteManifest, PushCache, indexVars
    <2>2. InFlight' \subseteq InFlight
      BY <1>0, <1>3 DEF WriteManifest, PushCache, InFlight, Shapes
    <2> QED
      BY <1>s, <2>1, <2>2
  <1>4. ASSUME UNCHANGED <<refs, latest, fileLists, bpc, again>>  PROVE  Counted'
    BY <1>4, <1>s DEF InFlight
  <1>5. ASSUME NEW s \in Snapshots, Pin(s)  PROVE  UNCHANGED <<refs, latest, fileLists, bpc, again>>
    BY <1>5 DEF Pin, indexVars, backupVars
  <1>6. ASSUME NEW p \in Pruners, NEW k \in Keep, StartPrune(p, k)
        PROVE  UNCHANGED <<refs, latest, fileLists, bpc, again>>
    BY <1>6, Zenon DEF StartPrune, indexVars, backupVars
  <1>7. ASSUME NEW p \in Pruners, SkipPinned(p) \/ KeepNewest(p) \/ GetFiles(p) \/ RemoveManifest(p)
                                  \/ ManifestGone(p) \/ RemovePin(p) \/ ReadDir(p) \/ ReplaceCache(p) \/ Import(p)
        PROVE  UNCHANGED <<refs, latest, fileLists, bpc, again>>
    BY <1>7, Zenon DEF SkipPinned, KeepNewest, GetFiles, RemoveManifest, ManifestGone, RemovePin, ReadDir, ReplaceCache,
       Import, indexVars, backupVars
  <1>8. ASSUME NEW p \in Pruners, Release(p)  PROVE  Counted'
    <2>1. /\ refs' = IF listed[p] = {} THEN refs ELSE ReleaseAll(refs, latest)
          /\ again' = IF listed[p] \subseteq fileLists THEN again ELSE again + 1
          /\ fileLists' = fileLists \ {Candidate(p)} /\ ppc[p] = "release"
          /\ UNCHANGED <<latest, bpc>>
      BY <1>8 DEF Release, backupVars
    <2> DEFINE L == fileLists \ {Candidate(p)}
    <2>2. InFlight' = InFlight
      BY <2>1 DEF InFlight
    <2>3. IsFiniteSet(L) /\ Cardinality(L) \in Nat /\ Cardinality(L) <= Cardinality(fileLists)
      BY <1>0, FS_Subset, FS_CardinalityType
    <2>4. CASE listed[p] = {}
      <3>0. refs' = refs /\ again' = again
        BY <2>1, <2>4
      <3>1. Total(refs)' = Total(refs)
        BY <3>0, Zenon DEF Total, MapThenSumSet, MapThenFoldSet
      <3> HIDE DEF L
      <3>2. again' + Total(refs)' >= Cardinality(L) + Cardinality(InFlight)
        BY <1>0, <2>3, <3>0, <3>1
      <3> QED
        BY <1>0, <2>1, <2>2, <2>3, <3>0, <3>2 DEF Counted, L
    <2>5. CASE listed[p] # {}
      <3>1. listed[p] = {Candidate(p)}
        BY <2>1, <2>5 DEF RelInv, Held
      <3> DEFINE r == ReleaseAll(refs, latest)
      <3>3. r \in [Chunks -> Nat] /\ Total(r) \in Nat /\ Total(refs) <= Total(r) + 1
        BY <1>0, TotalRelease DEF Counted
      <3>4. refs' = r
        BY <2>1, <2>5
      <3> HIDE DEF r
      <3>6. Total(refs)' = Total(r)
        BY <3>4, Zenon DEF Total, MapThenSumSet, MapThenFoldSet
      <3>5. again' \in Nat /\ again' + Total(r) >= Cardinality(L) + Cardinality(InFlight)
        <4>1. CASE Candidate(p) \in fileLists
          <5>1. Cardinality(L) = Cardinality(fileLists) - 1 /\ again' = again
            BY <1>0, <2>1, <3>1, <4>1, FS_RemoveElement
          <5> HIDE DEF L
          <5> QED
            BY <1>0, <2>3, <3>3, <5>1
        <4>2. CASE Candidate(p) \notin fileLists
          <5>1. again' = again + 1
            BY <2>1, <3>1, <4>2
          <5> HIDE DEF L
          <5> QED
            BY <1>0, <2>3, <3>3, <5>1
        <4> QED
          BY <4>1, <4>2
      <3> HIDE DEF L
      <3>7. again' + Total(refs)' >= Cardinality(L) + Cardinality(InFlight)
        BY <3>5, <3>6
      <3> QED
        BY <1>0, <2>1, <2>2, <2>3, <3>3, <3>4, <3>5, <3>7 DEF Counted, L
    <2> QED
      BY <2>4, <2>5
  <1>9. CASE Crash
    <2>1. UNCHANGED <<refs, latest, fileLists, again>> /\ bpc' = [b \in Backups |-> "idle"]
      BY <1>9, Zenon DEF Crash, indexVars
    <2>2. InFlight' = {}
      BY <2>1 DEF InFlight
    <2> QED
      BY <1>s, <2>1, <2>2
  <1>10. CASE UNCHANGED vars
    BY <1>10, <1>4 DEF vars, indexVars, backupVars
  <1> QED
    BY <1>1, <1>2, <1>3, <1>4, <1>5, <1>6, <1>7, <1>8, <1>9, <1>10, Zenon DEF Next

\* No reference is given back twice, but by a prune that releases a snapshot after another one
\* has: with those counted there are as many as snapshots with a file list and backups about
\* to record one, however many prunes, imports and backups are in flight.
THEOREM OnceReleased ==
  ASSUME IsFiniteSet(Chunks)
  PROVE  Spec => []ReleasedOnce
  <1>1. Init => RelInv
    <2> SUFFICES ASSUME Init  PROVE  RelInv
      OBVIOUS
    <2>1. Shapes /\ Lists
      BY ShapesInit DEF Lists, Init
    <2>2. /\ refs = [c \in Chunks |-> 0] /\ latest = << >> /\ fileLists = {}
          /\ bpc = [b \in Backups |-> "idle"] /\ ppc = [p \in Pruners |-> "idle"]
          /\ listed = [p \in Pruners |-> {}] /\ again = 0
      BY Zenon DEF Init
    <2>3. refs \in [Chunks -> Nat] /\ InFlight = {}
      BY <2>2 DEF InFlight
    <2>4. IsFiniteSet({}) /\ Cardinality({}) = 0
      BY FS_EmptySet
    <2>5. Total(refs) \in Nat
      <3>1. PICK g \in [SUBSET Chunks -> Nat] : Total(refs) = g[Chunks]
        BY <2>3, TotalSum
      <3> QED
        BY <3>1
    <2>6. again + Total(refs) >= Cardinality(fileLists) + Cardinality(InFlight)
      BY <2>2, <2>3, <2>4, <2>5
    <2>7. Counted
      BY <2>2, <2>3, <2>4, <2>6 DEF Counted
    <2> QED
      BY <2>1, <2>2, <2>7 DEF RelInv, Held
  <1>2. RelInv /\ [Next]_vars => RelInv'
    <2> SUFFICES ASSUME RelInv, [Next]_vars  PROVE  RelInv'
      OBVIOUS
    <2>1. Shapes' /\ Lists' /\ DOMAIN listed' = Pruners
      BY ShapesNext, ListsNext, ListedNext DEF RelInv
    <2>2. Counted'
      BY CountedNext
    <2>3. \A p \in Pruners : Held(p)'
      BY HeldNext
    <2> QED
      BY <2>1, <2>2, <2>3 DEF RelInv
  <1>3. RelInv => ReleasedOnce
    BY Zenon DEF RelInv, Counted, ReleasedOnce, Total
  <1> QED
    BY <1>1, <1>2, <1>3, PTL DEF Spec

=============================================================================
