----------------------------- MODULE Retention ------------------------------
(***************************************************************************)
(* Snapshot retention: prune_snapshots, delete_snapshot, pin_snapshot,     *)
(* import_snapshot and load_snapshots of sidecar/src/backup/mod.rs,        *)
(* against backups that commit meanwhile. A backup is reduced to the four  *)
(* things it does to the state retention works on; BackupEngine has the    *)
(* rest of it.                                                             *)
(*                                                                         *)
(* Snapshots are numbered in the order of their timestamps, so a larger    *)
(* number is a newer snapshot.  Each snapshot holds one file, World.       *)
(* Pruners are the prune and import requests in flight together.           *)
(***************************************************************************)
EXTENDS Naturals, Sequences, SequencesExt, FiniteSetsExt, BlockIndex

CONSTANTS
    Backups,       \* calls of run_backup that may be in flight together
    Pruners,       \* calls of prune_snapshots and import_snapshot, likewise
    Chunks,        \* the contents World can have, one chunk each
    Keep,          \* the numbers of snapshots a prune may be asked to keep
    MaxSnapshots,  \* bound on the snapshots of a behaviour
    MaxCalls,      \* bound on the prunes and imports of a behaviour
    MaxCrashes     \* bound on the crashes of the process

ASSUME KeepAssumption == Keep \subseteq Nat

Snapshots == 1..MaxSnapshots

VARIABLES
    manifests,      \* snapshots with a <id>.json
    pins,           \* snapshots with a <id>.pin
    fileLists,      \* index: snapshots whose file list is recorded
    refs, latest,   \* index: reference counts; chunks of World's last backup
    cache,          \* self.snapshots, the list of snapshots in memory
    clock,          \* the newest snapshot so far
    bpc, taken,     \* where a backup is; the snapshot it takes
    ppc, todo,      \* where a prune is; what is left of its copy of the list
    kept, keep,     \* its counter and its argument
    listed,         \* whether the snapshot it deletes had a file list; or, when
                    \* it reloads, the directory it has read
    pinnedSince,    \* history: the pins there were when the prune began and ever since
    doubled,        \* history: its copy named a snapshot twice
    lost,           \* history: what its copy named and was gone, or others deleted since
    touched,        \* history: snapshots written or deleted since a reload read the directory
    stale,          \* history: those on which the list was out of date when it was replaced,
                    \* or a backup added them
    imported,       \* history: snapshots that an import brought back
    calls,          \* the prunes and imports so far
    again,          \* history: how often a prune released a snapshot that another had
    crashes

indexVars == <<fileLists, refs, latest>>
backupVars == <<bpc, taken>>
pruneVars == <<ppc, todo, kept, keep, listed, pinnedSince, doubled, lost>>
listVars == <<touched, stale>>
vars == <<manifests, pins, indexVars, cache, clock, backupVars, pruneVars, listVars, imported,
          calls, again, crashes>>

Init ==
    /\ manifests = {} /\ pins = {}
    /\ fileLists = {}
    /\ refs = [c \in Chunks |-> 0]
    /\ latest = <<>>
    /\ cache = <<>>
    /\ clock = 0
    /\ bpc = [b \in Backups |-> "idle"]
    /\ taken = [b \in Backups |-> 0]
    /\ ppc = [p \in Pruners |-> "idle"]
    /\ todo = [p \in Pruners |-> <<>>]
    /\ kept = [p \in Pruners |-> 0]
    /\ keep = [p \in Pruners |-> 0]
    /\ listed = [p \in Pruners |-> {}]
    /\ pinnedSince = [p \in Pruners |-> {}]
    /\ doubled = [p \in Pruners |-> FALSE]
    /\ lost = [p \in Pruners |-> {}]
    /\ touched = [p \in Pruners |-> {}]
    /\ stale = {} /\ imported = {}
    /\ calls = 0 /\ again = 0
    /\ crashes = 0

\* The reloads that have read the directory do not see what changes in it now.
Touch(S) == touched' = [p \in Pruners |-> IF ppc[p] = "reload" THEN touched[p] \cup S ELSE touched[p]]

-----------------------------------------------------------------------------
(* A backup, as far as retention sees it *)

\* The file tasks: World's chunk is counted and its chunk list replaced.
StoreChunks(b) ==
    /\ bpc[b] = "idle"
    /\ clock + Cardinality({d \in Backups : bpc[d] = "manifest"}) < MaxSnapshots
    /\ \E c \in Chunks :
         /\ refs' = IncrementRef(refs, c)
         /\ latest' = <<c>>
    /\ bpc' = [bpc EXCEPT ![b] = "manifest"]
    /\ UNCHANGED <<manifests, pins, fileLists, cache, clock, taken, pruneVars, listVars, imported, calls, again, crashes>>

\* The manifest gets its timestamp when it is written.
WriteManifest(b) ==
    /\ bpc[b] = "manifest"
    /\ clock' = clock + 1
    /\ taken' = [taken EXCEPT ![b] = clock']
    /\ manifests' = manifests \cup {clock'}
    /\ Touch({clock'})
    /\ bpc' = [bpc EXCEPT ![b] = "files"]
    /\ UNCHANGED <<pins, indexVars, cache, pruneVars, stale, imported, calls, again, crashes>>

RecordFiles(b) ==
    /\ bpc[b] = "files"
    /\ fileLists' = fileLists \cup {taken[b]}
    /\ bpc' = [bpc EXCEPT ![b] = "push"]
    /\ UNCHANGED <<manifests, pins, refs, latest, cache, clock, taken, pruneVars, listVars, imported, calls, again, crashes>>

PushCache(b) ==
    /\ bpc[b] = "push"
    /\ cache' = Append(cache, taken[b])
    /\ stale' = IF taken[b] \in manifests THEN stale \ {taken[b]} ELSE stale \cup {taken[b]}
    /\ bpc' = [bpc EXCEPT ![b] = "idle"]
    /\ taken' = [taken EXCEPT ![b] = 0]
    /\ UNCHANGED <<manifests, pins, indexVars, clock, pruneVars, touched, imported, calls, again, crashes>>

-----------------------------------------------------------------------------
(* pin_snapshot, which asks neither whether the snapshot exists nor who is   *)
(* pruning                                                                   *)

Pin(s) ==
    /\ s <= clock
    /\ pins' = pins \cup {s}
    /\ UNCHANGED <<manifests, indexVars, cache, clock, backupVars, pruneVars, listVars, imported, calls, again, crashes>>

-----------------------------------------------------------------------------
(* prune_snapshots *)

\* A copy of the list, sorted: fewer than i of its snapshots are newer than the i-th one,
\* and at least i are as new.
NewestFirst(list) ==
    LET From(s) == {j \in DOMAIN list : list[j] >= s}
        After(s) == {j \in DOMAIN list : list[j] > s}
    IN  [i \in DOMAIN list |->
            CHOOSE s \in ToSet(list) : Cardinality(After(s)) < i /\ i <= Cardinality(From(s))]

StartPrune(p, k) ==
    /\ ppc[p] = "idle"
    /\ clock > 0
    /\ calls < MaxCalls
    /\ calls' = calls + 1
    /\ todo' = [todo EXCEPT ![p] = NewestFirst(cache)]
    /\ kept' = [kept EXCEPT ![p] = 0]
    /\ keep' = [keep EXCEPT ![p] = k]
    /\ pinnedSince' = [pinnedSince EXCEPT ![p] = pins]
    /\ doubled' = [doubled EXCEPT ![p] = ~ IsInjective(cache)]
    /\ lost' = [lost EXCEPT ![p] = ToSet(cache) \ manifests]
    /\ ppc' = [ppc EXCEPT ![p] = "check"]
    /\ UNCHANGED <<manifests, pins, indexVars, cache, clock, backupVars, listed, listVars, imported, again, crashes>>

Candidate(p) == Head(todo[p])
Advance(p) == todo' = [todo EXCEPT ![p] = Tail(@)]

SkipPinned(p) ==
    /\ ppc[p] = "check" /\ todo[p] # <<>>
    /\ Candidate(p) \in pins
    /\ Advance(p)
    /\ UNCHANGED <<manifests, pins, indexVars, cache, clock, backupVars, ppc, kept, keep,
                   listed, pinnedSince, doubled, lost, listVars, imported, calls, again, crashes>>

KeepNewest(p) ==
    /\ ppc[p] = "check" /\ todo[p] # <<>>
    /\ Candidate(p) \notin pins
    /\ kept[p] < keep[p]
    /\ kept' = [kept EXCEPT ![p] = @ + 1]
    /\ Advance(p)
    /\ UNCHANGED <<manifests, pins, indexVars, cache, clock, backupVars, ppc, keep,
                   listed, pinnedSince, doubled, lost, listVars, imported, calls, again, crashes>>

\* Bug: the pin file is not looked for.
GetFiles_IgnoresPin(p) ==
    /\ ppc[p] = "check" /\ todo[p] # <<>>
    /\ kept[p] >= keep[p]
    /\ listed' = [listed EXCEPT ![p] = {Candidate(p)} \cap fileLists]
    /\ ppc' = [ppc EXCEPT ![p] = "release"]
    /\ UNCHANGED <<manifests, pins, indexVars, cache, clock, backupVars, todo, kept, keep,
                   pinnedSince, doubled, lost, listVars, imported, calls, again, crashes>>

\* Bug: one snapshot less is kept.
GetFiles_OneLess(p) ==
    /\ ppc[p] = "check" /\ todo[p] # <<>>
    /\ Candidate(p) \notin pins
    /\ kept[p] + 1 >= keep[p]
    /\ listed' = [listed EXCEPT ![p] = {Candidate(p)} \cap fileLists]
    /\ ppc' = [ppc EXCEPT ![p] = "release"]
    /\ UNCHANGED <<manifests, pins, indexVars, cache, clock, backupVars, todo, kept, keep,
                   pinnedSince, doubled, lost, listVars, imported, calls, again, crashes>>

\* Neither pinned nor to be kept: delete_snapshot gets its file list and gives
\* the lock of the index back ...
GetFiles(p) ==
    /\ ppc[p] = "check" /\ todo[p] # <<>>
    /\ Candidate(p) \notin pins
    /\ kept[p] >= keep[p]
    /\ listed' = [listed EXCEPT ![p] = {Candidate(p)} \cap fileLists]
    /\ ppc' = [ppc EXCEPT ![p] = "release"]
    /\ UNCHANGED <<manifests, pins, indexVars, cache, clock, backupVars, todo, kept, keep,
                   pinnedSince, doubled, lost, listVars, imported, calls, again, crashes>>

ReleaseAll(r, chunks) == FoldLeft(DecrementRef, r, chunks)

\* Bug: the file list stays in the index.
Release_KeepsList(p) ==
    /\ ppc[p] = "release"
    /\ refs' = IF listed[p] = {} THEN refs ELSE ReleaseAll(refs, latest)
    /\ listed' = [listed EXCEPT ![p] = {}]
    /\ ppc' = [ppc EXCEPT ![p] = "manifest"]
    /\ UNCHANGED <<manifests, pins, fileLists, latest, cache, clock, backupVars, todo, kept,
                   keep, pinnedSince, doubled, lost, listVars, imported, calls, again, crashes>>

\* ... then takes it again, releases the chunks that World has now (not those of
\* the snapshot) and forgets the file list.
Release(p) ==
    /\ ppc[p] = "release"
    /\ refs' = IF listed[p] = {} THEN refs ELSE ReleaseAll(refs, latest)
    /\ fileLists' = fileLists \ {Candidate(p)}
    /\ again' = IF listed[p] \subseteq fileLists THEN again ELSE again + 1
    /\ listed' = [listed EXCEPT ![p] = {}]
    /\ ppc' = [ppc EXCEPT ![p] = "manifest"]
    /\ UNCHANGED <<manifests, pins, latest, cache, clock, backupVars, todo, kept, keep,
                   pinnedSince, doubled, lost, listVars, imported, calls, crashes>>

\* Bug: only the index forgets the snapshot.
RemoveManifest_Forgets(p) ==
    /\ ppc[p] = "manifest"
    /\ ppc' = [ppc EXCEPT ![p] = "pin"]
    /\ UNCHANGED <<manifests, pins, indexVars, cache, clock, backupVars, todo, kept, keep,
                   listed, pinnedSince, doubled, lost, listVars, imported, calls, again, crashes>>

RemoveManifest(p) ==
    /\ ppc[p] = "manifest"
    /\ manifests' = manifests \ {Candidate(p)}
    /\ imported' = imported \ {Candidate(p)}
    /\ LET gone == {Candidate(p)} \cap manifests
       IN  /\ Touch(gone)
           /\ lost' = [q \in Pruners |->
                         IF q = p THEN lost[q] \ {Candidate(p)}
                         ELSE IF ppc[q] \in {"idle", "reload"} THEN lost[q] ELSE lost[q] \cup gone]
    /\ ppc' = [ppc EXCEPT ![p] = "pin"]
    /\ UNCHANGED <<pins, indexVars, cache, clock, backupVars, todo, kept, keep, listed,
                   pinnedSince, doubled, stale, calls, again, crashes>>

\* Another prune has removed the manifest just after this one looked whether it exists:
\* an error, logged, that leaves the pin and goes on with the next snapshot.
ManifestGone(p) ==
    /\ ppc[p] = "manifest"
    /\ Candidate(p) \notin manifests
    /\ \E q \in Pruners \ {p} : ppc[q] # "idle"
    /\ Advance(p)
    /\ ppc' = [ppc EXCEPT ![p] = "check"]
    /\ UNCHANGED <<manifests, pins, indexVars, cache, clock, backupVars, kept, keep, listed,
                   pinnedSince, doubled, lost, listVars, imported, calls, again, crashes>>

\* Whatever pin there is by now goes with the snapshot.
RemovePin(p) ==
    /\ ppc[p] = "pin"
    /\ pins' = pins \ {Candidate(p)}
    /\ pinnedSince' = [q \in Pruners |-> pinnedSince[q] \ {Candidate(p)}]
    /\ Advance(p)
    /\ ppc' = [ppc EXCEPT ![p] = "check"]
    /\ UNCHANGED <<manifests, indexVars, cache, clock, backupVars, kept, keep, listed,
                   doubled, lost, listVars, imported, calls, again, crashes>>

\* The loop is over and its variables are gone: the prune's list, counter and argument.
EndLoop(p) ==
    /\ todo' = [todo EXCEPT ![p] = <<>>]
    /\ kept' = [kept EXCEPT ![p] = 0]
    /\ keep' = [keep EXCEPT ![p] = 0]
    /\ pinnedSince' = [pinnedSince EXCEPT ![p] = {}]
    /\ doubled' = [doubled EXCEPT ![p] = FALSE]
    /\ lost' = [lost EXCEPT ![p] = {}]

\* load_snapshots reads the directory without any lock ...
ReadDir(p) ==
    /\ ppc[p] = "check" /\ todo[p] = <<>>
    /\ EndLoop(p)
    /\ listed' = [listed EXCEPT ![p] = manifests]
    /\ ppc' = [ppc EXCEPT ![p] = "reload"]
    /\ UNCHANGED <<manifests, pins, indexVars, cache, clock, backupVars, listVars, imported, calls, again, crashes>>

Return(p) ==
    /\ ppc' = [ppc EXCEPT ![p] = "idle"]
    /\ listed' = [listed EXCEPT ![p] = {}]
    /\ stale' = touched[p]
    /\ touched' = [touched EXCEPT ![p] = {}]
    /\ UNCHANGED <<todo, kept, keep, pinnedSince, doubled, lost>>

\* The snapshots of a directory, sorted by timestamp.
OldestFirst(S) ==
    CHOOSE list \in [1..Cardinality(S) -> S] :
        \A i, j \in DOMAIN list : i < j => list[i] < list[j]

\* Bug: the deleted snapshots stay in the list.
ReplaceCache_Adds(p) ==
    /\ ppc[p] = "reload"
    /\ cache' = OldestFirst(listed[p] \cup ToSet(cache))
    /\ Return(p)
    /\ UNCHANGED <<manifests, pins, indexVars, clock, backupVars, imported, calls, again, crashes>>

\* ... and replaces the list by what it read, sorted by timestamp.
ReplaceCache(p) ==
    /\ ppc[p] = "reload"
    /\ cache' = OldestFirst(listed[p])
    /\ Return(p)
    /\ UNCHANGED <<manifests, pins, indexVars, clock, backupVars, imported, calls, again, crashes>>

-----------------------------------------------------------------------------
(* import_snapshot *)

\* An archive of this server's store brings back a snapshot deleted since, with its
\* pin if it had one then.  The index is not in the store, so no file list comes
\* with it.  The call goes on with load_snapshots, as a prune ends.
Import(p) ==
    /\ ppc[p] = "idle"
    /\ calls < MaxCalls
    /\ calls' = calls + 1
    /\ \E s \in (1..clock) \ manifests :
         /\ manifests' = manifests \cup {s}
         /\ imported' = imported \cup {s}
         /\ Touch({s})
         /\ pins' \in {pins, pins \cup {s}}
    /\ ppc' = [ppc EXCEPT ![p] = "check"]
    /\ UNCHANGED <<indexVars, cache, clock, backupVars, todo, kept, keep, listed,
                   pinnedSince, doubled, lost, stale, again, crashes>>

-----------------------------------------------------------------------------

\* The process dies and starts again: the files and the index stay, the list of
\* snapshots is loaded from the directory.
Crash ==
    /\ crashes < MaxCrashes
    /\ crashes' = crashes + 1
    /\ cache' = OldestFirst(manifests)
    /\ bpc' = [b \in Backups |-> "idle"]
    /\ taken' = [b \in Backups |-> 0]
    /\ ppc' = [p \in Pruners |-> "idle"]
    /\ todo' = [p \in Pruners |-> <<>>]
    /\ kept' = [p \in Pruners |-> 0]
    /\ keep' = [p \in Pruners |-> 0]
    /\ listed' = [p \in Pruners |-> {}]
    /\ pinnedSince' = [p \in Pruners |-> {}]
    /\ doubled' = [p \in Pruners |-> FALSE]
    /\ lost' = [p \in Pruners |-> {}]
    /\ touched' = [p \in Pruners |-> {}]
    /\ stale' = {}
    /\ UNCHANGED <<manifests, pins, indexVars, clock, imported, calls, again>>

Next ==
    \/ \E b \in Backups :
          StoreChunks(b) \/ WriteManifest(b) \/ RecordFiles(b) \/ PushCache(b)
    \/ \E s \in Snapshots : Pin(s)
    \/ \E p \in Pruners :
          \/ \E k \in Keep : StartPrune(p, k)
          \/ SkipPinned(p) \/ KeepNewest(p) \/ GetFiles(p) \/ Release(p)
          \/ RemoveManifest(p) \/ ManifestGone(p) \/ RemovePin(p) \/ ReadDir(p) \/ ReplaceCache(p)
          \/ Import(p)
    \/ Crash

Spec == Init /\ [][Next]_vars

-----------------------------------------------------------------------------
(* Properties *)

TypeOK ==
    /\ manifests \subseteq 1..clock /\ pins \subseteq 1..clock
    /\ fileLists \subseteq 1..clock
    /\ refs \in [Chunks -> Nat]
    /\ latest \in Seq(Chunks)
    /\ clock \in 0..MaxSnapshots
    /\ cache \in Seq(1..clock)
    /\ bpc \in [Backups -> {"idle", "manifest", "files", "push"}]
    /\ taken \in [Backups -> 0..clock]
    /\ ppc \in [Pruners -> {"idle", "check", "release", "manifest", "pin", "reload"}]
    /\ \A p \in Pruners : /\ todo[p] \in Seq(1..clock)
                          /\ kept[p] <= keep[p]
                          /\ listed[p] \subseteq 1..clock
    /\ crashes \in 0..MaxCrashes

\* No prune ever deletes a snapshot that has been pinned since before the prune began,
\* however other prunes, imports, pins, backups and crashes interleave with it.  (A pin
\* set between its look and the removal, or taken away by another prune, is no such pin.)
PinnedKept ==
    [][\A s \in manifests \ manifests' :
          \E p \in Pruners : ppc[p] = "manifest" /\ s = Candidate(p) /\ s \notin pinnedSince[p]]_vars

\* A prune that deletes a snapshot leaves at least `keep` newer ones besides the pinned,
\* counting those that other prunes took from it meanwhile; unless its list named a
\* snapshot twice.
KeepsNewest ==
    \A p \in Pruners : ppc[p] \in {"release", "manifest", "pin"} /\ ~ doubled[p] =>
        Cardinality({s \in (manifests \cup lost[p]) \ pinnedSince[p] : s > Candidate(p)}) >= keep[p]

InFlight == {b \in Backups : bpc[b] \in {"manifest", "files"}}

\* A prune that ran ahead of a snapshot's file list gives nothing back for it, and
\* none is given back twice but by a prune whose file list another one has released
\* since: with those counted (`again`) there are at least as many references as
\* snapshots with a file list and backups about to record one.
ReleasedOnce ==
    again + MapThenSumSet(LAMBDA c : refs[c], Chunks)
      >= Cardinality(fileLists) + Cardinality(InFlight)

\* Every listed snapshot has its manifest, and its file list unless it is just
\* being taken or deleted: prune, backup and reload never leave one half there.
\* (A crash in the middle of a deletion does, and an import, which
\* brings no file lists.)
WholeSnapshots ==
    crashes = 0 =>
        \A s \in manifests \ (fileLists \cup imported) :
            \/ \E b \in Backups : bpc[b] = "files" /\ taken[b] = s
            \/ \E p \in Pruners : ppc[p] = "manifest" /\ Candidate(p) = s

\* The list in memory and the manifests on disk are the same snapshots, but for what is
\* on its way (one that a backup is committing, one that a prune has deleted or an import
\* brought back and not yet reloaded), and for what was written or deleted behind the back
\* of the reload that made the list, or deleted before its backup pushed it: that stays
\* wrong until the next reload or start.
ListMatches ==
    /\ manifests \ ToSet(cache) \subseteq
         {taken[b] : b \in Backups} \cup stale
           \cup (IF \A p \in Pruners : ppc[p] = "idle" THEN {} ELSE imported)
    /\ (\A p \in Pruners : ppc[p] = "idle") => ToSet(cache) \subseteq manifests \cup stale

=============================================================================
