------------------------- MODULE Incremental_proofs -------------------------
(***************************************************************************)
(* Theorems about Incremental, for any number of files, any number of      *)
(* backups in flight together, and any number of changes and crashes.      *)
(***************************************************************************)
EXTENDS Incremental, TLAPS

\* The types, with the clock and the counter that bound times and versions.
TypeInv ==
    /\ now \in 1..MaxNow
    /\ spent \in [Kinds -> Nat] /\ spent["change"] <= Limit["change"]
    /\ content \in [Files -> Nat]
    /\ \A f \in Files : content[f] \in 1..(1 + spent["change"])
    /\ mtime \in [Files -> Nat] /\ \A f \in Files : mtime[f] \in 1..now
    /\ latest \in [Files -> Version \cup {NoVersion}]
    /\ disk \in Seq(Snapshots) /\ list \in Seq(Snapshots)
    /\ pc \in [Backups -> {"idle", "scan", "read", "push"}]
    /\ since \in [Backups -> Nat]
    /\ task \in [Backups -> [Files -> {"none", "found", "open", "read", "failed"}]]
    /\ seen \in [Backups -> [Files -> Version \cup {NoVersion}]]
    /\ slot \in [Backups -> Nat]
    /\ quiet \subseteq Files /\ unread \subseteq Files /\ replaced \subseteq Files

\* Times that something is compared with are those of snapshots written before.
TimeOnDisk(t) == \E i \in DOMAIN disk : disk[i].time = t

PastTimes ==
    /\ \A i \in DOMAIN disk : disk[i].time <= now
    /\ \A i \in DOMAIN list : TimeOnDisk(list[i].time)
    /\ \A b \in Backups : since[b] = Never \/ TimeOnDisk(since[b])

\* What a backup holds in each of its phases.
JobShape(b) ==
    /\ pc[b] = "idle" => since[b] = Never /\ slot[b] = 0
    /\ pc[b] \in {"idle", "scan"} =>
          \A f \in Files : task[b][f] = "none" /\ seen[b][f] = NoVersion
    /\ pc[b] = "push" => slot[b] # 0
    /\ slot[b] <= Len(disk)
    /\ \A f \in Files : /\ task[b][f] = "found" => seen[b][f] = NoVersion
                        /\ task[b][f] = "read" => seen[b][f] # NoVersion

\* A file that is quiet has one content for all the backups in flight: those that have not
\* found it compare with a time before its change, or the index has it already.
QuietFor(b, f) ==
    /\ task[b][f] = "open" => seen[b][f] = NoVersion
    /\ task[b][f] = "read" => latest[f] = content[f]
    /\ pc[b] = "read" /\ task[b][f] = "none" => f \notin Found(since[b])

\* Until the index has it, it is younger than every snapshot.
Due(f) == latest[f] = content[f] \/ \A i \in DOMAIN disk : mtime[f] > disk[i].time

CaptureInv ==
    \A f \in quiet : (\A b \in Backups : QuietFor(b, f)) /\ (f \in unread \/ Due(f))

\* A file that is not replaced is read at its present version, so the index never goes back.
Ascends(f) ==
    /\ latest[f] <= content[f]
    /\ \A b \in Backups : /\ task[b][f] = "open" => seen[b][f] = NoVersion
                          /\ task[b][f] = "read" => latest[f] >= seen[b][f]
    /\ \A i \in DOMAIN disk : f \in DOMAIN disk[i].files =>
          latest[f] # NoVersion /\ latest[f] >= disk[i].files[f]

OlderInv == \A f \in Files \ replaced : Ascends(f)

IncInv == TypeInv /\ PastTimes /\ (\A b \in Backups : JobShape(b)) /\ CaptureInv /\ OlderInv

-----------------------------------------------------------------------------
(* The types *)

\* The snapshot a backup writes when it has read or given up all its files.
LEMMA SnapshotType ==
  ASSUME TypeInv, NEW b \in Backups, JobShape(b)
  PROVE  /\ Snapshot(b) \in Snapshots
         /\ Snapshot(b).time = now
         /\ DOMAIN Snapshot(b).files = FilesIn(b, "read")
         /\ \A f \in FilesIn(b, "read") : Snapshot(b).files[f] = seen[b][f]
  <1> DEFINE F == FilesIn(b, "read")
             g == [f \in F |-> seen[b][f]]
  <1>1. F \subseteq Files
    BY DEF FilesIn
  <1>2. \A f \in F : seen[b][f] \in Version
    BY DEF TypeInv, JobShape, FilesIn, NoVersion
  <1>3. g \in [F -> Version]
    BY <1>2, Zenon
  <1>4. g \in UNION {[G -> Version] : G \in SUBSET Files}
    BY <1>1, <1>3, Zenon
  <1>5. now \in 1..MaxNow
    BY DEF TypeInv
  <1>6. Snapshot(b) = [time |-> now, files |-> g]
    BY DEF Snapshot
  <1> HIDE DEF g
  <1>7. Snapshot(b) \in Snapshots
    <2> DEFINE Lists == UNION {[G -> Version] : G \in SUBSET Files}
    <2>1. Snapshots = [time : 1..MaxNow, files : Lists]
      BY Zenon DEF Snapshots
    <2>2. g \in Lists
      BY <1>4, Zenon
    <2> HIDE DEF Lists
    <2> QED
      BY <1>5, <1>6, <2>1, <2>2
  <1>8. Snapshot(b).time = now /\ Snapshot(b).files = g
    BY <1>6
  <1> QED
    BY <1>7, <1>8, Zenon DEF g

\* The initial state.
LEMMA InitInv == Init => IncInv
  <1> SUFFICES ASSUME Init PROVE IncInv
    OBVIOUS
  <1> USE LimitAssumption, ClockAssumption
  <1>1. TypeInv
    <2>1. disk \in Seq(Snapshots) /\ list \in Seq(Snapshots)
      BY DEF Init
    <2> QED
      BY <2>1 DEF Init, TypeInv, Idle, Unseen, Never, NoVersion, Version, Kinds
  <1>2. PastTimes
    BY DEF Init, PastTimes, Never
  <1>3. \A b \in Backups : JobShape(b)
    BY DEF Init, JobShape, Idle, Unseen, Never, NoVersion
  <1>4. CaptureInv
    <2>1. \A f \in quiet : Due(f) /\ \A b \in Backups : QuietFor(b, f)
      BY DEF Init, Due, QuietFor, Idle, Unseen
    <2> QED
      BY <2>1 DEF CaptureInv
  <1>5. OlderInv
    BY DEF Init, OlderInv, Ascends, Idle, Unseen, NoVersion
  <1> QED
    BY <1>1, <1>2, <1>3, <1>4, <1>5 DEF IncInv

\* An event is counted, and nothing else.
LEMMA Spends ==
  ASSUME TypeInv, NEW kind \in Kinds, Spend(kind)
  PROVE  /\ spent' \in [Kinds -> Nat]
         /\ spent'[kind] = spent[kind] + 1 /\ spent[kind] < Limit[kind]
         /\ \A k \in Kinds : k # kind => spent'[k] = spent[k]
  <1>1. spent \in [Kinds -> Nat]
    BY DEF TypeInv
  <1>2. spent[kind] < Limit[kind] /\ spent' = [spent EXCEPT ![kind] = spent[kind] + 1]
    BY DEF Spend
  <1> QED
    BY <1>1, <1>2

\* The events other than changes.
LEMMA Others ==
  ASSUME TypeInv, NEW kind \in {"backup", "skip", "abort", "crash"}, Spend(kind)
  PROVE  spent' \in [Kinds -> Nat] /\ spent'["change"] = spent["change"]
  <1>1. kind \in Kinds /\ "change" \in Kinds /\ "change" # kind
    BY DEF Kinds
  <1> QED
    BY <1>1, Spends, Zenon

\* A version in the world is one.
LEMMA Present ==
  ASSUME TypeInv, NEW f \in Files
  PROVE  /\ spent["change"] \in Nat /\ content[f] \in 1..(1 + spent["change"])
         /\ content[f] \in Version /\ content[f] # NoVersion
  <1>1. spent \in [Kinds -> Nat] /\ spent["change"] <= Limit["change"]
    BY DEF TypeInv
  <1>2. spent["change"] \in Nat /\ Limit["change"] \in Nat
    BY <1>1, LimitAssumption DEF Kinds
  <1>3. content[f] \in 1..(1 + spent["change"])
    BY DEF TypeInv
  <1> QED
    BY <1>1, <1>2, <1>3 DEF Version, NoVersion

\* One step keeps the types.
LEMMA TypeStep ==
  ASSUME TypeInv, \A b \in Backups : JobShape(b), [Next]_vars
  PROVE  TypeInv'
  <1> USE LimitAssumption, ClockAssumption
  <1>1. CASE UNCHANGED vars
    BY <1>1 DEF TypeInv, vars, world, store, jobs, history
  <1>2. CASE Tick
    BY <1>2 DEF TypeInv, Tick, store, jobs, history
  <1>3. ASSUME NEW f \in Files, NewVersion(f),
               \/ UNCHANGED <<seen, replaced>>
               \/ Replace(f)
        PROVE  TypeInv'
    <2>1. /\ "change" \in Kinds /\ Spend("change")
          /\ Limit["change"] \in Nat /\ spent["change"] \in Nat
      BY <1>3, Present DEF NewVersion, Kinds
    <2>2. spent' \in [Kinds -> Nat] /\ spent'["change"] = spent["change"] + 1
          /\ spent'["change"] <= Limit["change"]
      <3>1. /\ spent' \in [Kinds -> Nat] /\ spent'["change"] = spent["change"] + 1
            /\ spent["change"] < Limit["change"]
        BY <2>1, Spends, Zenon
      <3> QED
        BY <2>1, <3>1
    <2>3. content' \in [Files -> Nat] /\ \A g \in Files : content'[g] \in 1..(1 + spent'["change"])
      <3>1. content' = [content EXCEPT ![f] = @ + 1]
        BY <1>3 DEF NewVersion
      <3>2. content \in [Files -> Nat]
        BY DEF TypeInv
      <3>3. content' \in [Files -> Nat]
        BY <3>1, <3>2
      <3>4. \A g \in Files : content[g] \in 1..(1 + spent["change"])
        BY Present
      <3> QED
        BY <2>1, <2>2, <3>1, <3>2, <3>3, <3>4
    <2>4. now' = now /\ mtime' \in [Files -> Nat] /\ \A g \in Files : mtime'[g] \in 1..now'
      BY <1>3 DEF TypeInv, NewVersion
    <2>5. seen' \in [Backups -> [Files -> Version \cup {NoVersion}]]
      <3>1. content[f] \in Version
        BY Present
      <3>2. CASE UNCHANGED seen
        BY <3>2 DEF TypeInv
      <3>3. CASE Replace(f)
        BY <3>1, <3>3 DEF TypeInv, Replace
      <3> QED
        BY <1>3, <3>2, <3>3
    <2>6. quiet' \subseteq Files /\ unread' \subseteq Files /\ replaced' \subseteq Files
      BY <1>3 DEF TypeInv, NewVersion, Replace
    <2>7. UNCHANGED <<latest, disk, list, pc, since, task, slot>>
      BY <1>3 DEF NewVersion, store
    <2> QED
      BY <2>2, <2>3, <2>4, <2>5, <2>6, <2>7 DEF TypeInv
  <1>4. ASSUME NEW b \in Backups, Leave(b), UNCHANGED <<world, latest, history>>,
               disk' = disk, list' \in Seq(Snapshots), UNCHANGED spent \/ Spend("abort")
        PROVE  TypeInv'
    <2>1. spent' \in [Kinds -> Nat] /\ spent'["change"] = spent["change"]
      <3>1. CASE UNCHANGED spent
        BY <3>1 DEF TypeInv
      <3>2. CASE Spend("abort")
        BY <3>2, Others
      <3> QED
        BY <1>4, <3>1, <3>2
    <2> QED
      BY <1>4, <2>1 DEF TypeInv, Leave, Goto, world, history, Idle, Unseen, Never, NoVersion
  <1>5. ASSUME NEW b \in Backups, NEW incremental \in BOOLEAN, Start(b, incremental)
        PROVE  TypeInv'
    <2>1. spent' \in [Kinds -> Nat] /\ spent'["change"] = spent["change"]
      <3>1. Spend("backup")
        BY <1>5 DEF Start
      <3> QED
        BY <3>1, Others
    <2>2. Since(incremental) \in Nat
      <3>1. CASE list = <<>>
        BY <3>1 DEF Since, Never
      <3>2. CASE list # <<>>
        <4>1. list[Len(list)] \in Snapshots
          <5> HIDE DEF Snapshots
          <5> QED
            BY <3>2 DEF TypeInv
        <4>2. list[Len(list)].time \in 1..MaxNow
          BY <4>1, Zenon DEF Snapshots
        <4> QED
          BY <4>2 DEF Since, Never
      <3> QED
        BY <3>1, <3>2
    <2> QED
      BY <1>5, <2>1, <2>2 DEF TypeInv, Start, Goto, world, store, history
  <1>6. ASSUME NEW b \in Backups, Scan(b) PROVE TypeInv'
    BY <1>6 DEF TypeInv, Scan, Goto, world, store, history
  <1>7. ASSUME NEW b \in Backups, NEW f \in Files, OpenFile(b, f) PROVE TypeInv'
    BY <1>7 DEF TypeInv, OpenFile, SetTask, world, store, history
  <1>8. ASSUME NEW b \in Backups, NEW f \in Files, ReadFile(b, f) PROVE TypeInv'
    <2>1. ReadVersion(b, f) \in Version
      <3>1. content[f] \in Version /\ seen[b][f] \in Version \cup {NoVersion}
        BY Present DEF TypeInv
      <3> QED
        BY <3>1, Zenon DEF ReadVersion
    <2> QED
      BY <1>8, <2>1 DEF TypeInv, ReadFile, SetTask, world, history
  <1>9. ASSUME NEW b \in Backups, NEW f \in Files, SkipFile(b, f) PROVE TypeInv'
    <2>1. spent' \in [Kinds -> Nat] /\ spent'["change"] = spent["change"]
      <3>1. Spend("skip")
        BY <1>9 DEF SkipFile
      <3> QED
        BY <3>1, Others
    <2> QED
      BY <1>9, <2>1 DEF TypeInv, SkipFile, SetTask, world, store, history
  <1>10. ASSUME NEW b \in Backups, Commit(b) PROVE TypeInv'
    <2>1. Snapshot(b) \in Snapshots
      BY SnapshotType
    <2>2. disk' \in Seq(Snapshots) /\ slot' \in [Backups -> Nat]
      <3> HIDE DEF Snapshots, Snapshot
      <3>1. disk' = Append(disk, Snapshot(b)) /\ slot' = [slot EXCEPT ![b] = Len(disk')]
        BY <1>10 DEF Commit
      <3> QED
        BY <2>1, <3>1 DEF TypeInv
    <2>3. unread' \subseteq Files
      BY <1>10 DEF TypeInv, Commit, FilesIn
    <2>4. pc' \in [Backups -> {"idle", "scan", "read", "push"}]
      BY <1>10 DEF TypeInv, Commit, Goto
    <2>5. UNCHANGED <<world, latest, list, since, task, seen, quiet, replaced, spent>>
      BY <1>10 DEF Commit
    <2> QED
      BY <2>2, <2>3, <2>4, <2>5 DEF TypeInv, world
  <1>11. ASSUME NEW b \in Backups, Push(b) PROVE TypeInv'
    <2>1. list' \in Seq(Snapshots)
      <3> HIDE DEF Snapshots
      <3>1. slot[b] \in DOMAIN disk
        BY <1>11 DEF Push, JobShape, TypeInv
      <3> QED
        BY <1>11, <3>1 DEF Push, TypeInv
    <2> QED
      BY <1>4, <1>11, <2>1 DEF Push
  <1>12. ASSUME CrashRestart PROVE TypeInv'
    <2>1. spent' \in [Kinds -> Nat] /\ spent'["change"] = spent["change"]
      <3>1. Spend("crash")
        BY <1>12 DEF CrashRestart
      <3> QED
        BY <3>1, Others
    <2> QED
      BY <1>12, <2>1 DEF TypeInv, CrashRestart, world, history, Idle, Unseen, Never, NoVersion
  <1>13. ASSUME NEW b \in Backups, ScanEmpty(b) \/ Abort(b) PROVE TypeInv'
    <2>1. list \in Seq(Snapshots)
      BY DEF TypeInv
    <2> QED
      BY <1>4, <1>13, <2>1 DEF ScanEmpty, Abort, store
  <1>14. ASSUME NEW f \in Files, Write(f) \/ Replace(f) PROVE TypeInv'
    BY <1>3, <1>14 DEF Write, Replace
  <1> QED
    BY <1>1, <1>2, <1>5, <1>6, <1>7, <1>8, <1>9, <1>10, <1>11, <1>12, <1>13, <1>14 DEF Next
-----------------------------------------------------------------------------
(* The times and the phases *)

\* The snapshots written stay, and what a step adds has the present time and the versions
\* that a backup has read.
Adds(b) ==
    /\ Commit(b)
    /\ Len(disk') = Len(disk) + 1
    /\ \A i \in DOMAIN disk : i \in DOMAIN disk' /\ disk'[i] = disk[i]
    /\ \A i \in DOMAIN disk' : i \in DOMAIN disk \/ disk'[i] = Snapshot(b)

LEMMA DiskGrows ==
  ASSUME TypeInv, NEW b \in Backups, Commit(b)
  PROVE  Adds(b)
  <1> HIDE DEF Snapshots, Snapshot
  <1>1. disk' = Append(disk, Snapshot(b)) /\ disk \in Seq(Snapshots)
    BY DEF Commit, TypeInv
  <1>2. Len(disk') = Len(disk) + 1
    BY <1>1
  <1>3. \A i \in DOMAIN disk : i \in DOMAIN disk' /\ disk'[i] = disk[i]
    BY <1>1
  <1>4. \A i \in DOMAIN disk' : i \in DOMAIN disk \/ disk'[i] = Snapshot(b)
    BY <1>1
  <1> QED
    BY <1>2, <1>3, <1>4, Zenon DEF Adds

\* Only a commit changes what is on disk.
LEMMA DiskStays ==
  ASSUME [Next]_vars, \A b \in Backups : ~ Commit(b)
  PROVE  disk' = disk
  <1>1. \A f \in Files : Write(f) \/ Replace(f) => disk' = disk
    BY DEF Write, Replace, NewVersion, store
  <1>2. \A b \in Backups : \A incremental \in BOOLEAN : Start(b, incremental) => disk' = disk
    BY DEF Start, store
  <1>3. \A b \in Backups : Scan(b) \/ ScanEmpty(b) \/ Abort(b) \/ Push(b) => disk' = disk
    BY DEF Scan, ScanEmpty, Abort, Push, store
  <1>4. \A b \in Backups, f \in Files : OpenFile(b, f) \/ ReadFile(b, f) \/ SkipFile(b, f) => disk' = disk
    BY DEF OpenFile, ReadFile, SkipFile, store
  <1>5. Tick \/ CrashRestart => disk' = disk
    BY DEF Tick, CrashRestart, store
  <1>6. UNCHANGED vars => disk' = disk
    BY DEF vars, store
  <1> QED
    BY <1>1, <1>2, <1>3, <1>4, <1>5, <1>6, Zenon DEF Next

\* So the times on disk stay.
LEMMA TimesStay ==
  ASSUME TypeInv, [Next]_vars
  PROVE  /\ \A t \in Nat : TimeOnDisk(t) => TimeOnDisk(t)'
         /\ \A i \in DOMAIN disk : i \in DOMAIN disk' /\ disk'[i] = disk[i]
         /\ Len(disk) <= Len(disk')
  <1>0. Len(disk) \in Nat
    <2> HIDE DEF Snapshots
    <2> QED
      BY DEF TypeInv
  <1>1. CASE \E b \in Backups : Commit(b)
    <2>1. PICK b \in Backups : Adds(b)
      BY <1>1, DiskGrows, Zenon
    <2> QED
      BY <1>0, <2>1 DEF Adds, TimeOnDisk
  <1>2. CASE ~ \E b \in Backups : Commit(b)
    <2>1. disk' = disk
      BY <1>2, DiskStays, Zenon
    <2> QED
      BY <1>0, <2>1 DEF TimeOnDisk
  <1> QED
    BY <1>1, <1>2

\* The times that are compared are those of snapshots, and no snapshot is of the future.
LEMMA TimesStep ==
  ASSUME TypeInv, TypeInv', PastTimes, \A b \in Backups : JobShape(b), [Next]_vars
  PROVE  PastTimes'
  <1>1. now \in Nat /\ now' \in Nat /\ now <= now'
    <2>1. now' = now \/ Tick
      <3>1. \A f \in Files : Write(f) \/ Replace(f) => now' = now
        BY DEF Write, Replace, NewVersion
      <3>2. \A b \in Backups : \A incremental \in BOOLEAN : Start(b, incremental) => now' = now
        BY DEF Start, world
      <3>3. \A b \in Backups : Scan(b) \/ ScanEmpty(b) \/ Abort(b) \/ Push(b) \/ Commit(b) => now' = now
        BY DEF Scan, ScanEmpty, Abort, Push, Commit, world
      <3>4. \A b \in Backups, f \in Files : OpenFile(b, f) \/ ReadFile(b, f) \/ SkipFile(b, f) => now' = now
        BY DEF OpenFile, ReadFile, SkipFile, world
      <3>5. CrashRestart => now' = now
        BY DEF CrashRestart, world
      <3>6. UNCHANGED vars => now' = now
        BY DEF vars, world
      <3> QED
        BY <3>1, <3>2, <3>3, <3>4, <3>5, <3>6, Zenon DEF Next
    <2> QED
      BY <2>1, ClockAssumption DEF TypeInv, Tick
  <1>2. \A i \in DOMAIN disk : disk[i].time \in Nat
    <2>1. \A s \in Snapshots : s.time \in 1..MaxNow
      BY Zenon DEF Snapshots
    <2> HIDE DEF Snapshots
    <2> QED
      BY <2>1, ClockAssumption DEF TypeInv
  <1>3. \A i \in DOMAIN disk' : disk'[i].time <= now'
    <2>1. CASE \E b \in Backups : Commit(b)
      <3>1. PICK b \in Backups : Commit(b)
        BY <2>1
      <3>2. Adds(b) /\ Snapshot(b).time = now
        BY <3>1, DiskGrows, SnapshotType, Zenon
      <3>3. \A i \in DOMAIN disk : disk[i].time <= now'
        BY <1>1, <1>2 DEF PastTimes
      <3> QED
        BY <1>1, <3>2, <3>3 DEF Adds
    <2>2. CASE ~ \E b \in Backups : Commit(b)
      <3>1. disk' = disk
        BY <2>2, DiskStays, Zenon
      <3> QED
        BY <1>1, <1>2, <3>1 DEF PastTimes
    <2> QED
      BY <2>1, <2>2
  <1>4. \A t : TimeOnDisk(t) => TimeOnDisk(t)'
    BY TimesStay DEF TimeOnDisk
  <1>5. \A i \in DOMAIN list' : TimeOnDisk(list'[i].time)
    <2>1. CASE list' = list
      BY <2>1 DEF PastTimes
    <2>2. ASSUME NEW b \in Backups, Push(b)
          PROVE  \A i \in DOMAIN list' : TimeOnDisk(list'[i].time)
      <3> HIDE DEF Snapshots
      <3>1. slot[b] \in DOMAIN disk /\ list' = Append(list, disk[slot[b]])
        BY <2>2 DEF Push, JobShape, TypeInv
      <3>2. \A i \in DOMAIN list' : \/ i \in DOMAIN list /\ list'[i] = list[i]
                                    \/ list'[i] = disk[slot[b]]
        BY <3>1 DEF TypeInv
      <3>3. TimeOnDisk(disk[slot[b]].time)
        BY <3>1, Zenon DEF TimeOnDisk
      <3> QED
        BY <3>2, <3>3, Zenon DEF PastTimes
    <2>3. ASSUME CrashRestart PROVE \A i \in DOMAIN list' : TimeOnDisk(list'[i].time)
      BY <2>3, Zenon DEF CrashRestart, TimeOnDisk
    <2>4. \/ list' = list \/ CrashRestart \/ \E b \in Backups : Push(b)
      <3>1. \A f \in Files : Write(f) \/ Replace(f) => list' = list
        BY DEF Write, Replace, NewVersion, store
      <3>2. \A b \in Backups : \A incremental \in BOOLEAN : Start(b, incremental) => list' = list
        BY DEF Start, store
      <3>3. \A b \in Backups : Scan(b) \/ ScanEmpty(b) \/ Abort(b) \/ Commit(b) => list' = list
        BY DEF Scan, ScanEmpty, Abort, Commit, store
      <3>4. \A b \in Backups, f \in Files : OpenFile(b, f) \/ ReadFile(b, f) \/ SkipFile(b, f) => list' = list
        BY DEF OpenFile, ReadFile, SkipFile, store
      <3>5. Tick => list' = list
        BY DEF Tick, store
      <3>6. UNCHANGED vars => list' = list
        BY DEF vars, store
      <3> QED
        BY <3>1, <3>2, <3>3, <3>4, <3>5, <3>6, Zenon DEF Next
    <2> QED
      BY <2>1, <2>2, <2>3, <2>4, Zenon
  <1>6. \A b \in Backups : since'[b] = Never \/ TimeOnDisk(since'[b])
    <2>1. ASSUME NEW b \in Backups, NEW incremental \in BOOLEAN, Start(b, incremental), NEW c \in Backups
          PROVE  since'[c] = Never \/ TimeOnDisk(since'[c])
      <3>1. Since(incremental) = Never \/ TimeOnDisk(Since(incremental))
        <4>1. list # <<>> => Len(list) \in DOMAIN list
          <5> HIDE DEF Snapshots
          <5> QED
            BY DEF TypeInv
        <4> QED
          BY <4>1, Zenon DEF PastTimes, Since
      <3>2. since'[c] = since[c] \/ since'[c] = Since(incremental)
        BY <2>1 DEF Start, TypeInv
      <3> QED
        BY <3>1, <3>2, Zenon DEF PastTimes
    <2>2. ASSUME NEW b \in Backups, Leave(b), NEW c \in Backups
          PROVE  since'[c] = Never \/ TimeOnDisk(since'[c])
      <3>1. since'[c] = since[c] \/ since'[c] = Never
        BY <2>2 DEF Leave, TypeInv
      <3> QED
        BY <3>1, Zenon DEF PastTimes
    <2>3. CrashRestart => \A c \in Backups : since'[c] = Never
      BY DEF CrashRestart
    <2>4. CASE since' = since
      BY <2>4, Zenon DEF PastTimes
    <2>5. \/ since' = since \/ CrashRestart \/ \E b \in Backups : Leave(b)
          \/ \E b \in Backups : \E incremental \in BOOLEAN : Start(b, incremental)
      <3>1. \A f \in Files : Write(f) \/ Replace(f) => since' = since
        BY DEF Write, Replace, NewVersion, store
      <3>3. \A b \in Backups : Scan(b) \/ Commit(b) => since' = since
        BY DEF Scan, Commit
      <3>4. \A b \in Backups, f \in Files : OpenFile(b, f) \/ ReadFile(b, f) \/ SkipFile(b, f) => since' = since
        BY DEF OpenFile, ReadFile, SkipFile
      <3>5. Tick => since' = since
        BY DEF Tick, jobs
      <3>6. UNCHANGED vars => since' = since
        BY DEF vars, jobs
      <3>7. \A b \in Backups : ScanEmpty(b) \/ Abort(b) \/ Push(b) => Leave(b)
        BY DEF ScanEmpty, Abort, Push
      <3> QED
        BY <3>1, <3>3, <3>4, <3>5, <3>6, <3>7, Zenon DEF Next
    <2> QED
      BY <2>1, <2>2, <2>3, <2>4, <2>5, Zenon
  <1>7. (\A i \in DOMAIN list : TimeOnDisk(list[i].time))'
    BY <1>4, <1>5, Zenon
  <1>8. (\A b \in Backups : since[b] = Never \/ TimeOnDisk(since[b]))'
    BY <1>4, <1>6, Zenon DEF Never
  <1> QED
    BY <1>3, <1>7, <1>8, Zenon DEF PastTimes

\* What each backup holds keeps to its phase.
LEMMA JobStep ==
  ASSUME TypeInv, TypeInv', \A b \in Backups : JobShape(b), [Next]_vars
  PROVE  \A b \in Backups : JobShape(b)'
  <1> SUFFICES ASSUME NEW c \in Backups PROVE JobShape(c)'
    OBVIOUS
  <1>0. JobShape(c) /\ Len(disk) \in Nat /\ Len(disk') \in Nat /\ Len(disk) <= Len(disk')
    <2> HIDE DEF Snapshots
    <2> QED
      BY TimesStay DEF TypeInv
  <1>1. CASE UNCHANGED jobs
    BY <1>0, <1>1 DEF JobShape, TypeInv, jobs
  <1>2. ASSUME NEW f \in Files, Write(f) PROVE JobShape(c)'
    BY <1>0, <1>2 DEF JobShape, TypeInv, Write, NewVersion
  <1>3. ASSUME NEW f \in Files, Replace(f) PROVE JobShape(c)'
    <2>1. \A g \in Files : \/ seen'[c][g] = seen[c][g]
                           \/ task[c][g] = "open"
      BY <1>3 DEF TypeInv, Replace
    <2>2. UNCHANGED <<pc, since, task, slot>>
      BY <1>3 DEF Replace, NewVersion
    <2>3. \A g \in Files : task[c][g] # "open" => seen'[c][g] = seen[c][g]
      BY <2>1, Zenon
    <2>4. \A g \in Files : /\ task'[c][g] = "found" => seen'[c][g] = NoVersion
                           /\ task'[c][g] = "read" => seen'[c][g] # NoVersion
      BY <1>0, <2>2, <2>3 DEF JobShape
    <2>5. pc'[c] \in {"idle", "scan"} =>
            \A g \in Files : task'[c][g] = "none" /\ seen'[c][g] = NoVersion
      BY <1>0, <2>2, <2>3 DEF JobShape
    <2>6. UNCHANGED disk
      BY <1>3 DEF Replace, NewVersion, store
    <2> QED
      BY <1>0, <2>2, <2>4, <2>5, <2>6, Zenon DEF JobShape
  <1>4. ASSUME NEW b \in Backups, NEW incremental \in BOOLEAN, Start(b, incremental)
        PROVE  JobShape(c)'
    BY <1>0, <1>4 DEF JobShape, TypeInv, Start, Goto
  <1>5. ASSUME NEW b \in Backups, Scan(b) PROVE JobShape(c)'
    BY <1>0, <1>5 DEF JobShape, TypeInv, Scan, Goto
  <1>6. ASSUME NEW b \in Backups, Leave(b) PROVE JobShape(c)'
    <2>1. /\ pc' = [pc EXCEPT ![b] = "idle"] /\ since' = [since EXCEPT ![b] = Never]
          /\ task' = [task EXCEPT ![b] = Idle] /\ seen' = [seen EXCEPT ![b] = Unseen]
          /\ slot' = [slot EXCEPT ![b] = 0]
      BY <1>6 DEF Leave, Goto
    <2>2. c \in DOMAIN pc /\ c \in DOMAIN since /\ c \in DOMAIN task /\ c \in DOMAIN seen
          /\ c \in DOMAIN slot
      BY DEF TypeInv
    <2>3. CASE c = b
      <3>1. /\ pc'[c] = "idle" /\ since'[c] = Never /\ slot'[c] = 0
            /\ \A f \in Files : task'[c][f] = "none" /\ seen'[c][f] = NoVersion
        BY <2>1, <2>2, <2>3 DEF Idle, Unseen
      <3> QED
        BY <1>0, <3>1 DEF JobShape
    <2>4. CASE c # b
      <3>1. /\ pc'[c] = pc[c] /\ since'[c] = since[c] /\ slot'[c] = slot[c]
            /\ task'[c] = task[c] /\ seen'[c] = seen[c]
        BY <2>1, <2>2, <2>4
      <3>2. slot[c] \in Nat
        BY DEF TypeInv
      <3> QED
        BY <1>0, <3>1, <3>2 DEF JobShape
    <2> QED
      BY <2>3, <2>4
  <1>7. ASSUME NEW b \in Backups, NEW f \in Files, OpenFile(b, f) PROVE JobShape(c)'
    <2>1. /\ task[b][f] = "found" /\ task' = [task EXCEPT ![b][f] = "open"]
          /\ UNCHANGED <<disk, pc, since, seen, slot>>
      BY <1>7 DEF OpenFile, SetTask, store
    <2>2. task \in [Backups -> [Files -> {"none", "found", "open", "read", "failed"}]]
      BY DEF TypeInv
    <2>3. \A g \in Files : task'[c][g] = task[c][g] \/ (c = b /\ g = f /\ task'[c][g] = "open")
      BY <2>1, <2>2
    <2>4. pc[c] \in {"idle", "scan"} => c # b
      BY <1>0, <2>1 DEF JobShape
    <2> QED
      BY <1>0, <2>1, <2>3, <2>4 DEF JobShape
  <1>8. ASSUME NEW b \in Backups, NEW f \in Files, ReadFile(b, f) PROVE JobShape(c)'
    <2>1. ReadVersion(b, f) # NoVersion
      <3>1. content[f] # NoVersion
        BY Present
      <3> QED
        BY <3>1, Zenon DEF ReadVersion
    <2> HIDE DEF ReadVersion
    <2> QED
      BY <1>0, <1>8, <2>1 DEF JobShape, TypeInv, ReadFile, SetTask
  <1>9. ASSUME NEW b \in Backups, NEW f \in Files, SkipFile(b, f) PROVE JobShape(c)'
    <2>1. /\ task[b][f] \in {"found", "open"} /\ task' = [task EXCEPT ![b][f] = "failed"]
          /\ UNCHANGED <<pc, since, seen, slot, disk>>
      BY <1>9 DEF SkipFile, SetTask, store
    <2>2. \A g \in Files : \/ task'[c][g] = task[c][g]
                           \/ task'[c][g] = "failed" /\ task[c][g] \in {"found", "open"}
      BY <2>1 DEF TypeInv
    <2> QED
      BY <1>0, <2>1, <2>2 DEF JobShape
  <1>10. ASSUME NEW b \in Backups, Commit(b) PROVE JobShape(c)'
    <2>1. Len(disk') = Len(disk) + 1
      BY <1>10, DiskGrows DEF Adds
    <2>2. /\ slot' = [slot EXCEPT ![b] = Len(disk')]
          /\ pc' = [pc EXCEPT ![b] = "push"] /\ UNCHANGED <<since, task, seen>>
      BY <1>10 DEF Commit, Goto
    <2> QED
      BY <1>0, <2>1, <2>2 DEF JobShape, TypeInv
  <1>11. ASSUME CrashRestart PROVE JobShape(c)'
    BY <1>0, <1>11 DEF JobShape, TypeInv, CrashRestart, Idle, Unseen, Never, NoVersion
  <1>12. UNCHANGED vars \/ Tick => UNCHANGED jobs
    BY DEF vars, Tick, jobs
  <1>13. \A b \in Backups : ScanEmpty(b) \/ Abort(b) \/ Push(b) => Leave(b)
    BY DEF ScanEmpty, Abort, Push
  <1> QED
    BY <1>1, <1>2, <1>3, <1>4, <1>5, <1>6, <1>7, <1>8, <1>9, <1>10, <1>11, <1>12, <1>13, Zenon DEF Next
-----------------------------------------------------------------------------
(* Changes are captured *)

\* Facts that every step of the two proofs below begins with.
LEMMA Leaves ==
  ASSUME TypeInv, NEW b \in Backups, Leave(b), NEW c \in Backups, NEW f \in Files
  PROVE  \/ c = b /\ pc'[c] = "idle" /\ task'[c][f] = "none" /\ seen'[c][f] = NoVersion
         \/ c # b /\ pc'[c] = pc[c] /\ since'[c] = since[c] /\ task'[c] = task[c] /\ seen'[c] = seen[c]
  BY DEF TypeInv, Leave, Goto, Idle, Unseen

\* What a change does to the files it is not a change of, and to what has been read.
LEMMA NewVersions ==
  ASSUME TypeInv, NEW g \in Files, Write(g) \/ Replace(g)
  PROVE  /\ NewVersion(g)
         /\ UNCHANGED <<now, latest, disk, list, pc, since, task, slot>>
         /\ \A f \in Files : f # g => /\ content'[f] = content[f] /\ mtime'[f] = mtime[f]
                                      /\ f \in quiet' <=> f \in quiet
                                      /\ f \in unread' <=> f \in unread
                                      /\ f \in replaced' <=> f \in replaced
                                      /\ \A b \in Backups : seen'[b][f] = seen[b][f]
         /\ content'[g] = content[g] + 1 /\ mtime'[g] = now
         /\ g \in quiet' => /\ \A b \in Backups : pc[b] = "idle"
                            /\ \A i \in DOMAIN disk : disk[i].time < now
         /\ g \notin replaced' =>
              /\ g \notin replaced
              /\ \A b \in Backups : seen'[b][g] = seen[b][g]
         /\ \A b \in Backups : task[b][g] # "open" => seen'[b][g] = seen[b][g]
  <1>1. NewVersion(g)
    BY DEF Write, Replace
  <1>2. UNCHANGED <<now, latest, disk, list, pc, since, task, slot>>
    BY <1>1 DEF NewVersion, store
  <1>3. /\ content' = [content EXCEPT ![g] = @ + 1] /\ mtime' = [mtime EXCEPT ![g] = now]
        /\ unread' = unread \ {g}
    BY <1>1 DEF NewVersion
  <1>4. \/ quiet' = quiet \ {g}
        \/ /\ quiet' = quiet \cup {g}
           /\ \A b \in Backups : pc[b] = "idle"
           /\ \A i \in DOMAIN disk : disk[i].time < now
    BY <1>1, Zenon DEF NewVersion
  <1>5. CASE Write(g)
    BY <1>1, <1>2, <1>3, <1>4, <1>5 DEF TypeInv, Write
  <1>6. CASE Replace(g)
    <2>1. \A b \in Backups, f \in Files : f # g => seen'[b][f] = seen[b][f]
      BY <1>6 DEF TypeInv, Replace
    <2>2. \A b \in Backups : task[b][g] # "open" => seen'[b][g] = seen[b][g]
      BY <1>6 DEF TypeInv, Replace
    <2>3. \/ replaced' = replaced /\ \A b \in Backups : task[b][g] # "open"
          \/ replaced' = replaced \cup {g}
      BY <1>6, Zenon DEF Replace
    <2> QED
      BY <1>1, <1>2, <1>3, <1>4, <2>1, <2>2, <2>3 DEF TypeInv
  <1> QED
    BY <1>5, <1>6

\* A quiet file that a committed backup did not fail to read is due, or the index has it.
LEMMA CaptureStep ==
  ASSUME TypeInv, TypeInv', PastTimes, \A b \in Backups : JobShape(b), CaptureInv, [Next]_vars
  PROVE  CaptureInv'
  <1> SUFFICES ASSUME NEW f \in quiet'
               PROVE  (\A b \in Backups : QuietFor(b, f)') /\ (f \in unread' \/ Due(f)')
    BY Zenon DEF CaptureInv
  <1>0. f \in Files
    BY DEF TypeInv
  <1> DEFINE Kept == (\A b \in Backups : QuietFor(b, f)) /\ (f \in unread \/ Due(f))
             Wanted == (\A b \in Backups : QuietFor(b, f)') /\ (f \in unread' \/ Due(f)')
  <1>a. f \in quiet => Kept
    BY Zenon DEF CaptureInv
  <1>b. CASE f \in quiet /\ UNCHANGED <<content, mtime, latest, disk, jobs, unread>>
    BY <1>a, <1>b DEF QuietFor, Due, Found, jobs
  <1>1. CASE UNCHANGED vars \/ Tick
    BY <1>1, <1>b DEF vars, world, store, jobs, history, Tick
  <1>2. ASSUME NEW g \in Files, Write(g) \/ Replace(g) PROVE Wanted
    <2>1. CASE f # g
      <3>1. /\ content'[f] = content[f] /\ mtime'[f] = mtime[f] /\ latest' = latest
            /\ f \in quiet /\ (f \in unread' <=> f \in unread)
            /\ UNCHANGED <<pc, task, since, disk>>
            /\ \A b \in Backups : seen'[b][f] = seen[b][f]
        BY <1>0, <1>2, <2>1, NewVersions, Zenon
      <3>2. Kept
        BY <1>a, <3>1
      <3>3. \A b \in Backups : QuietFor(b, f)'
        BY <1>0, <3>1, <3>2 DEF QuietFor, Found
      <3>4. f \in unread' \/ Due(f)'
        BY <3>1, <3>2 DEF Due
      <3> QED
        BY <3>3, <3>4
    <2>2. CASE f = g
      <3>1. /\ \A b \in Backups : pc'[b] = "idle" /\ task'[b][f] = "none"
            /\ \A i \in DOMAIN disk' : disk'[i].time < now
            /\ mtime'[f] = now /\ now \in Nat
        <4>1. /\ UNCHANGED <<now, disk, pc, task>> /\ mtime'[f] = now
              /\ \A b \in Backups : pc[b] = "idle"
              /\ \A i \in DOMAIN disk : disk[i].time < now
          BY <1>2, <2>2, NewVersions, Zenon
        <4>2. \A b \in Backups : task[b][f] = "none"
          BY <1>0, <4>1 DEF JobShape
        <4>3. now \in Nat
          BY ClockAssumption DEF TypeInv
        <4> QED
          BY <4>1, <4>2, <4>3
      <3>2. \A i \in DOMAIN disk' : mtime'[f] > disk'[i].time
        BY <3>1
      <3>3. Due(f)'
        BY <3>2, Zenon DEF Due
      <3>4. \A b \in Backups : QuietFor(b, f)'
        BY <3>1 DEF QuietFor
      <3> QED
        BY <3>3, <3>4
    <2> QED
      BY <2>1, <2>2
  <1>3. ASSUME NEW b \in Backups, NEW incremental \in BOOLEAN, Start(b, incremental) PROVE Wanted
    <2>1. /\ f \in quiet /\ UNCHANGED <<content, mtime, latest, disk, unread, task, seen>>
          /\ pc' = [pc EXCEPT ![b] = "scan"]
          /\ since' = [since EXCEPT ![b] = Since(incremental)]
      BY <1>3 DEF Start, Goto, world, store, history
    <2>2. \A c \in Backups : pc'[c] = "read" => pc[c] = "read" /\ since'[c] = since[c]
      BY <2>1 DEF TypeInv
    <2> QED
      BY <1>a, <2>1, <2>2 DEF QuietFor, Found, Due
  <1>4. ASSUME NEW b \in Backups, Scan(b) PROVE Wanted
    <2>1. /\ f \in quiet /\ UNCHANGED <<content, mtime, latest, disk, unread, since, seen>>
          /\ pc' = [pc EXCEPT ![b] = "read"]
          /\ task' = [task EXCEPT ![b] =
                        [g \in Files |-> IF g \in Found(since[b]) THEN "found" ELSE "none"]]
      BY <1>4 DEF Scan, Goto, world, store, history
    <2>2. Found(since[b])' = Found(since[b])
      BY <2>1 DEF Found
    <2>3. \A c \in Backups : c # b => pc'[c] = pc[c] /\ task'[c] = task[c]
      BY <2>1 DEF TypeInv
    <2>4. task'[b][f] = IF f \in Found(since[b]) THEN "found" ELSE "none"
      BY <1>0, <2>1 DEF TypeInv
    <2>5. QuietFor(b, f)'
      BY <2>2, <2>4 DEF QuietFor
    <2>6. \A c \in Backups : c # b => QuietFor(c, f)'
      BY <1>a, <2>1, <2>3 DEF QuietFor, Found
    <2> QED
      BY <1>a, <2>1, <2>5, <2>6 DEF Due
  <1>5. ASSUME NEW b \in Backups, Leave(b), UNCHANGED <<world, latest, disk, history>> PROVE Wanted
    <2>1. f \in quiet /\ UNCHANGED <<content, mtime, latest, disk, unread>>
      BY <1>5 DEF world, history
    <2>2. ASSUME NEW c \in Backups PROVE QuietFor(c, f)'
      <3>1. CASE c = b
        <4>1. pc'[c] = "idle" /\ task'[c][f] = "none"
          BY <1>0, <1>5, <3>1, Leaves, Zenon
        <4> QED
          BY <4>1 DEF QuietFor
      <3>2. CASE c # b
        <4>1. pc'[c] = pc[c] /\ since'[c] = since[c] /\ task'[c] = task[c] /\ seen'[c] = seen[c]
          <5>1. Leave(b)
            BY <1>5
          <5> QED
            BY <1>0, <3>2, <5>1, Leaves
        <4>2. QuietFor(c, f)
          BY <1>a, <2>1, Zenon
        <4>3. f \in Found(since[c])' <=> f \in Found(since[c])
          <5>1. mtime' = mtime /\ since'[c] = since[c]
            BY <2>1, <4>1, Zenon
          <5> QED
            BY <5>1 DEF Found
        <4> QED
          BY <2>1, <4>1, <4>2, <4>3 DEF QuietFor
      <3> QED
        BY <3>1, <3>2
    <2> QED
      BY <1>a, <2>1, <2>2 DEF Due
  <1>6. ASSUME NEW b \in Backups, NEW g \in Files, OpenFile(b, g) PROVE Wanted
    <2>1. /\ f \in quiet /\ UNCHANGED <<content, mtime, latest, disk, unread, since, seen, pc>>
          /\ task[b][g] = "found" /\ task' = [task EXCEPT ![b][g] = "open"]
      BY <1>6 DEF OpenFile, SetTask, world, store, history
    <2>2. \A c \in Backups : \/ task'[c][f] = task[c][f]
                             \/ task'[c][f] = "open" /\ task[c][f] = "found"
      <3>1. /\ \A c \in Backups : c # b => task'[c] = task[c]
            /\ f # g => task'[b][f] = task[b][f]
        BY <1>0, <2>1 DEF TypeInv
      <3>2. f = g => task'[b][f] = "open"
        BY <1>0, <2>1 DEF TypeInv
      <3> QED
        BY <2>1, <3>1, <3>2
    <2>3. ASSUME NEW c \in Backups PROVE QuietFor(c, f)'
      <3>1. QuietFor(c, f) /\ JobShape(c)
        BY <1>a, <2>1
      <3>2. task'[c][f] = "open" => seen[c][f] = NoVersion
        BY <1>0, <2>2, <3>1 DEF QuietFor, JobShape
      <3>3. /\ task'[c][f] = "read" => task[c][f] = "read"
            /\ task'[c][f] = "none" => task[c][f] = "none"
        BY <2>2
      <3>4. Found(since[c])' = Found(since[c])
        BY <2>1 DEF Found
      <3> QED
        BY <2>1, <3>1, <3>2, <3>3, <3>4 DEF QuietFor
    <2> QED
      BY <1>a, <2>1, <2>3 DEF Due
  <1>7. ASSUME NEW b \in Backups, NEW g \in Files, ReadFile(b, g) PROVE Wanted
    <2>1. /\ f \in quiet /\ UNCHANGED <<content, mtime, disk, unread, since, pc>>
          /\ task[b][g] = "open" /\ task' = [task EXCEPT ![b][g] = "read"]
          /\ latest' = [latest EXCEPT ![g] = ReadVersion(b, g)]
          /\ seen' = [seen EXCEPT ![b][g] = ReadVersion(b, g)]
      BY <1>7 DEF ReadFile, SetTask, world, history
    <2>2. Kept
      BY <1>a, <2>1
    <2>3. CASE f # g
      <3>1. latest'[f] = latest[f] /\ \A c \in Backups : task'[c][f] = task[c][f] /\ seen'[c][f] = seen[c][f]
        <4>1. /\ latest \in [Files -> Version \cup {NoVersion}]
              /\ task \in [Backups -> [Files -> {"none", "found", "open", "read", "failed"}]]
              /\ seen \in [Backups -> [Files -> Version \cup {NoVersion}]]
          BY DEF TypeInv
        <4> QED
          BY <1>0, <2>1, <2>3, <4>1
      <3>2. ASSUME NEW c \in Backups PROVE QuietFor(c, f)'
        <4>1. QuietFor(c, f) /\ Found(since[c])' = Found(since[c])
          BY <2>1, <2>2 DEF Found
        <4> QED
          BY <2>1, <3>1, <4>1 DEF QuietFor
      <3> QED
        BY <2>1, <2>2, <3>1, <3>2 DEF Due
    <2>4. CASE f = g
      <3>1. ReadVersion(b, g) = content[f]
        BY <2>1, <2>2, <2>4 DEF ReadVersion, QuietFor
      <3>2. latest'[f] = content'[f]
        BY <1>0, <2>1, <2>4, <3>1 DEF TypeInv
      <3>3. \A c \in Backups : c # b => task'[c][f] = task[c][f] /\ seen'[c][f] = seen[c][f]
        BY <1>0, <2>1 DEF TypeInv
      <3>4. task'[b][f] = "read"
        BY <1>0, <2>1, <2>4 DEF TypeInv
      <3>5. \A c \in Backups : QuietFor(c, f)'
        BY <2>1, <2>2, <3>2, <3>3, <3>4 DEF QuietFor, Found
      <3> QED
        BY <3>2, <3>5 DEF Due
    <2> QED
      BY <2>3, <2>4
  <1>8. ASSUME NEW b \in Backups, NEW g \in Files, SkipFile(b, g) PROVE Wanted
    <2>1. /\ f \in quiet /\ UNCHANGED <<content, mtime, latest, disk, unread, since, seen, pc>>
          /\ task' = [task EXCEPT ![b][g] = "failed"]
      BY <1>8 DEF SkipFile, SetTask, world, store, history
    <2>2. \A c \in Backups : task'[c][f] = task[c][f] \/ task'[c][f] = "failed"
      BY <1>0, <2>1 DEF TypeInv
    <2> QED
      BY <1>a, <2>1, <2>2 DEF QuietFor, Found, Due
  <1>9. ASSUME NEW b \in Backups, Commit(b) PROVE Wanted
    <2>1. /\ f \in quiet /\ UNCHANGED <<content, mtime, latest, since, task, seen>>
          /\ pc[b] = "read" /\ pc' = [pc EXCEPT ![b] = "push"]
          /\ task[b][f] \notin {"open", "found"}
          /\ task[b][f] = "failed" => f \in unread'
          /\ f \in unread => f \in unread'
      BY <1>0, <1>9 DEF Commit, Goto, world, Joined, FilesIn
    <2>2. Kept
      BY <1>a, <2>1
    <2>3. \A c \in Backups : pc'[c] = "read" => pc[c] = "read"
      BY <2>1 DEF TypeInv
    <2>4. \A c \in Backups : QuietFor(c, f)'
      BY <2>1, <2>2, <2>3 DEF QuietFor, Found
    <2>5. ASSUME f \notin unread' PROVE latest[f] = content[f]
      <3>1. task[b][f] \in {"none", "read"}
        BY <1>0, <2>1, <2>5 DEF TypeInv
      <3>2. CASE task[b][f] = "read"
        BY <2>2, <3>2 DEF QuietFor
      <3>3. CASE task[b][f] = "none"
        <4>1. f \notin Found(since[b])
          BY <2>1, <2>2, <3>3 DEF QuietFor
        <4>2. PICK i \in DOMAIN disk : disk[i].time = since[b]
          BY <1>0, <4>1, Zenon DEF Found, PastTimes, TimeOnDisk
        <4>3. ~ (mtime[f] > disk[i].time)
          BY <1>0, <4>1, <4>2, Zenon DEF Found
        <4> QED
          BY <2>1, <2>2, <2>5, <4>3, Zenon DEF Due
      <3> QED
        BY <3>1, <3>2, <3>3
    <2>6. f \in unread' \/ Due(f)'
      BY <2>1, <2>5, Zenon DEF Due
    <2> QED
      BY <2>4, <2>6, Zenon
  <1>10. ASSUME CrashRestart PROVE Wanted
    <2>1. /\ f \in quiet /\ UNCHANGED <<content, mtime, latest, disk, unread>>
          /\ \A c \in Backups : pc'[c] = "idle" /\ task'[c][f] = "none"
      BY <1>0, <1>10 DEF CrashRestart, world, history, Idle
    <2> QED
      BY <1>a, <2>1 DEF QuietFor, Due
  <1>11. \A b \in Backups : ScanEmpty(b) \/ Abort(b) \/ Push(b) =>
            Leave(b) /\ UNCHANGED <<world, latest, disk, history>>
    BY DEF ScanEmpty, Abort, Push, store
  <1> QED
    BY <1>1, <1>2, <1>3, <1>4, <1>5, <1>6, <1>7, <1>8, <1>9, <1>10, <1>11, Zenon DEF Next
-----------------------------------------------------------------------------
(* The index never goes back *)

\* What is on disk of a file that is never replaced, the index has at that version or later.
LEMMA OlderStep ==
  ASSUME TypeInv, TypeInv', \A b \in Backups : JobShape(b), OlderInv, [Next]_vars
  PROVE  OlderInv'
  <1> SUFFICES ASSUME NEW f \in Files, f \notin replaced' PROVE Ascends(f)'
    BY Zenon DEF OlderInv
  <1>a. f \notin replaced => Ascends(f)
    BY Zenon DEF OlderInv
  <1>b. CASE f \notin replaced /\ UNCHANGED <<content, latest, disk, task, seen>>
    BY <1>a, <1>b DEF Ascends
  <1>c. /\ latest[f] \in Nat /\ latest'[f] \in Nat /\ content[f] \in Nat /\ content[f] # NoVersion
        /\ \A b \in Backups : seen[b][f] \in Nat
    <2>1. Version \subseteq Nat \ {NoVersion} /\ NoVersion \in Nat
      BY LimitAssumption DEF Version, NoVersion, Kinds
    <2>2. content[f] \in 1..(1 + spent["change"]) /\ content[f] \in Nat
      BY DEF TypeInv
    <2>3. content[f] # 0
      BY <2>2 DEF TypeInv, Kinds
    <2>4. /\ latest[f] \in Nat /\ latest'[f] \in Nat
          /\ \A b \in Backups : seen[b][f] \in Nat
      <3> HIDE DEF Version, NoVersion
      <3>1. /\ latest[f] \in Version \cup {NoVersion} /\ latest'[f] \in Version \cup {NoVersion}
            /\ \A b \in Backups : seen[b][f] \in Version \cup {NoVersion}
        BY DEF TypeInv
      <3> QED
        BY <2>1, <3>1
    <2> QED
      BY <2>2, <2>3, <2>4 DEF NoVersion
  <1>1. CASE UNCHANGED vars \/ Tick
    BY <1>1, <1>b DEF vars, world, store, jobs, history, Tick
  <1>2. ASSUME NEW g \in Files, Write(g) \/ Replace(g) PROVE Ascends(f)'
    <2>1. UNCHANGED <<latest, disk, task>>
      BY <1>2, NewVersions
    <2>2. /\ f \notin replaced
          /\ content'[f] = content[f] \/ content'[f] = content[f] + 1
          /\ \A b \in Backups : seen'[b][f] = seen[b][f]
      <3>1. CASE f = g
        BY <1>2, <3>1, NewVersions, Zenon
      <3>2. CASE f # g
        BY <1>2, <3>2, NewVersions, Zenon
      <3> QED
        BY <3>1, <3>2
    <2>3. latest'[f] <= content'[f]
      BY <1>a, <1>c, <2>1, <2>2 DEF Ascends
    <2> QED
      BY <1>a, <2>1, <2>2, <2>3 DEF Ascends
  <1>3. ASSUME NEW b \in Backups, NEW incremental \in BOOLEAN, Start(b, incremental)
        PROVE  Ascends(f)'
    BY <1>3, <1>b DEF Start, world, store, history
  <1>4. ASSUME NEW b \in Backups, Scan(b) PROVE Ascends(f)'
    <2>1. /\ f \notin replaced /\ UNCHANGED <<content, latest, disk, seen>>
          /\ task' = [task EXCEPT ![b] =
                        [g \in Files |-> IF g \in Found(since[b]) THEN "found" ELSE "none"]]
      BY <1>4 DEF Scan, world, store, history
    <2>2. \A c \in Backups : task'[c][f] \in {task[c][f], "found", "none"}
      BY <2>1 DEF TypeInv
    <2> QED
      BY <1>a, <2>1, <2>2 DEF Ascends
  <1>5. ASSUME NEW b \in Backups, Leave(b), UNCHANGED <<world, latest, disk, history>>
        PROVE  Ascends(f)'
    <2>1. f \notin replaced /\ UNCHANGED <<content, latest, disk>>
      BY <1>5 DEF world, history
    <2>2. \A c \in Backups : \/ task'[c][f] = "none"
                             \/ task'[c] = task[c] /\ seen'[c] = seen[c]
      BY <1>5, Leaves, Zenon
    <2> QED
      BY <1>a, <2>1, <2>2 DEF Ascends
  <1>6. ASSUME NEW b \in Backups, NEW g \in Files, OpenFile(b, g) PROVE Ascends(f)'
    <2>1. /\ f \notin replaced /\ UNCHANGED <<content, latest, disk, seen>>
          /\ task[b][g] = "found" /\ task' = [task EXCEPT ![b][g] = "open"]
      BY <1>6 DEF OpenFile, SetTask, world, store, history
    <2>2. /\ \A c \in Backups : c # b => task'[c] = task[c]
          /\ f # g => task'[b][f] = task[b][f]
          /\ f = g => task'[b][f] = "open" /\ seen[b][f] = NoVersion
      BY <2>1 DEF TypeInv, JobShape
    <2> QED
      BY <1>a, <2>1, <2>2 DEF Ascends
  <1>7. ASSUME NEW b \in Backups, NEW g \in Files, ReadFile(b, g) PROVE Ascends(f)'
    <2>1. /\ f \notin replaced /\ UNCHANGED <<content, disk>>
          /\ task[b][g] = "open" /\ task' = [task EXCEPT ![b][g] = "read"]
          /\ latest' = [latest EXCEPT ![g] = ReadVersion(b, g)]
          /\ seen' = [seen EXCEPT ![b][g] = ReadVersion(b, g)]
      BY <1>7 DEF ReadFile, SetTask, world, history
    <2>2. /\ \A c \in Backups : c # b => task'[c] = task[c] /\ seen'[c] = seen[c]
          /\ f # g => /\ task'[b][f] = task[b][f] /\ seen'[b][f] = seen[b][f]
                      /\ latest'[f] = latest[f]
          /\ f = g => /\ task'[b][f] = "read" /\ seen'[b][f] = ReadVersion(b, g)
                      /\ latest'[f] = ReadVersion(b, g)
      BY <2>1 DEF TypeInv
    <2>3. CASE f # g
      BY <1>a, <2>1, <2>2, <2>3 DEF Ascends
    <2>4. CASE f = g
      <3>1. ReadVersion(b, g) = content[f]
        BY <1>a, <2>1, <2>4 DEF ReadVersion, Ascends
      <3>2. latest'[f] = content[f] /\ latest[f] <= latest'[f] /\ latest'[f] # NoVersion
        BY <1>a, <1>c, <2>1, <2>2, <2>4, <3>1 DEF Ascends
      <3>3. \A c \in Backups : /\ task'[c][f] = "open" => seen'[c][f] = NoVersion
                               /\ task'[c][f] = "read" => latest'[f] >= seen'[c][f]
        BY <1>a, <1>c, <2>1, <2>2, <2>4, <3>1, <3>2 DEF Ascends
      <3>4. ASSUME NEW i \in DOMAIN disk, f \in DOMAIN disk[i].files
            PROVE  latest'[f] >= disk[i].files[f]
        <4>1. latest[f] >= disk[i].files[f] /\ disk[i].files[f] \in Nat
          <5>1. disk[i] \in Snapshots
            <6>1. disk \in Seq(Snapshots)
              BY Zenon DEF TypeInv
            <6> HIDE DEF Snapshots
            <6> QED
              BY <6>1
          <5>2. disk[i].files \in UNION {[F -> Version] : F \in SUBSET Files}
            BY <5>1, Zenon DEF Snapshots
          <5>3. PICK F \in SUBSET Files : disk[i].files \in [F -> Version]
            BY <5>2, Zenon
          <5>4. disk[i].files[f] \in Version
            BY <3>4, <5>3
          <5>5. Version \subseteq Nat
            BY LimitAssumption DEF Version, Kinds
          <5> QED
            BY <1>a, <2>1, <3>4, <5>4, <5>5, Zenon DEF Ascends
        <4> QED
          BY <1>c, <3>2, <4>1
      <3> QED
        BY <2>1, <3>2, <3>3, <3>4, <1>c DEF Ascends
    <2> QED
      BY <2>3, <2>4
  <1>8. ASSUME NEW b \in Backups, NEW g \in Files, SkipFile(b, g) PROVE Ascends(f)'
    <2>1. /\ f \notin replaced /\ UNCHANGED <<content, latest, disk, seen>>
          /\ task' = [task EXCEPT ![b][g] = "failed"]
      BY <1>8 DEF SkipFile, SetTask, world, store, history
    <2>2. \A c \in Backups : task'[c][f] = task[c][f] \/ task'[c][f] = "failed"
      BY <2>1 DEF TypeInv
    <2> QED
      BY <1>a, <2>1, <2>2 DEF Ascends
  <1>9. ASSUME NEW b \in Backups, Commit(b) PROVE Ascends(f)'
    <2>1. f \notin replaced /\ UNCHANGED <<content, latest, task, seen>>
      BY <1>9 DEF Commit, world
    <2>2. Ascends(f) /\ JobShape(b)
      BY <1>a, <2>1
    <2>3. /\ \A i \in DOMAIN disk' : \/ i \in DOMAIN disk /\ disk'[i] = disk[i]
                                     \/ disk'[i] = Snapshot(b)
      BY <1>9, DiskGrows, Zenon DEF Adds
    <2>4. f \in DOMAIN Snapshot(b).files =>
             /\ task[b][f] = "read" /\ Snapshot(b).files[f] = seen[b][f]
             /\ latest[f] >= seen[b][f] /\ seen[b][f] # NoVersion
      <3> SUFFICES ASSUME f \in DOMAIN Snapshot(b).files
                   PROVE  /\ task[b][f] = "read" /\ Snapshot(b).files[f] = seen[b][f]
                          /\ latest[f] >= seen[b][f] /\ seen[b][f] # NoVersion
        OBVIOUS
      <3>1. f \in FilesIn(b, "read") /\ Snapshot(b).files[f] = seen[b][f]
        BY <2>2, SnapshotType, Zenon
      <3>2. task[b][f] = "read"
        BY <3>1 DEF FilesIn
      <3> QED
        BY <2>2, <3>1, <3>2, Zenon DEF Ascends, JobShape
    <2>5. f \in DOMAIN Snapshot(b).files => latest[f] # NoVersion /\ latest[f] >= Snapshot(b).files[f]
      BY <1>c, <2>4 DEF NoVersion
    <2>6. \A i \in DOMAIN disk' : f \in DOMAIN disk'[i].files =>
             latest[f] # NoVersion /\ latest[f] >= disk'[i].files[f]
      BY <2>2, <2>3, <2>5, Zenon DEF Ascends
    <2> QED
      BY <2>1, <2>2, <2>6 DEF Ascends
  <1>10. ASSUME CrashRestart PROVE Ascends(f)'
    <2>1. /\ f \notin replaced /\ UNCHANGED <<content, latest, disk>>
          /\ \A c \in Backups : task'[c][f] = "none"
      BY <1>10 DEF CrashRestart, world, history, Idle
    <2> QED
      BY <1>a, <2>1 DEF Ascends
  <1>11. \A b \in Backups : ScanEmpty(b) \/ Abort(b) \/ Push(b) =>
            Leave(b) /\ UNCHANGED <<world, latest, disk, history>>
    BY DEF ScanEmpty, Abort, Push, store
  <1> QED
    BY <1>1, <1>2, <1>3, <1>4, <1>5, <1>6, <1>7, <1>8, <1>9, <1>10, <1>11, Zenon DEF Next

-----------------------------------------------------------------------------
(* The theorems *)

\* The inductive invariant of the specification.
LEMMA Invariant == Spec => []IncInv
  <1>1. IncInv /\ [Next]_vars => IncInv'
    <2> SUFFICES ASSUME IncInv, [Next]_vars PROVE IncInv'
      OBVIOUS
    <2>1. TypeInv /\ PastTimes /\ (\A b \in Backups : JobShape(b)) /\ CaptureInv /\ OlderInv
      BY Zenon DEF IncInv
    <2>2. TypeInv'
      BY <2>1, TypeStep, Zenon
    <2>3. PastTimes'
      BY <2>1, <2>2, TimesStep, Zenon
    <2>4. \A b \in Backups : JobShape(b)'
      BY <2>1, <2>2, JobStep, Zenon
    <2>5. CaptureInv'
      BY <2>1, <2>2, CaptureStep, Zenon
    <2>6. OlderInv'
      BY <2>1, <2>2, OlderStep, Zenon
    <2> QED
      BY <2>2, <2>3, <2>4, <2>5, <2>6, Zenon DEF IncInv
  <1> QED
    BY InitInv, <1>1, PTL DEF Spec

\* The variables have their types: a snapshot lists only files that have been read, at a
\* version that was in the world, and a backup that is about to list one has written it.
THEOREM TypesHold == Spec => []TypeOK
  <1>1. IncInv => TypeOK
    <2> SUFFICES ASSUME IncInv PROVE TypeOK
      OBVIOUS
    <2>1. TypeInv /\ PastTimes /\ \A b \in Backups : JobShape(b)
      BY Zenon DEF IncInv
    <2>2. content \in [Files -> Version]
      <3>1. /\ spent["change"] \in Nat /\ spent["change"] <= Limit["change"]
            /\ content \in [Files -> Nat]
            /\ \A f \in Files : content[f] \in 1..(1 + spent["change"])
        BY <2>1 DEF TypeInv, Kinds
      <3>2. Limit["change"] \in Nat
        BY LimitAssumption DEF Kinds
      <3> QED
        BY <3>1, <3>2 DEF Version
    <2>3. mtime \in [Files -> 1..now]
      BY <2>1 DEF TypeInv
    <2>4. /\ \A i \in DOMAIN disk : disk[i] \in Snapshots
          /\ \A i \in DOMAIN list : list[i] \in Snapshots
          /\ Len(disk) \in Nat
      <3> HIDE DEF Snapshots
      <3> QED
        BY <2>1 DEF TypeInv
    <2>5. since \in [Backups -> 0..now]
      <3>1. ASSUME NEW b \in Backups PROVE since[b] \in 0..now
        <4>1. since[b] \in Nat /\ now \in Nat
          BY <2>1, ClockAssumption DEF TypeInv
        <4>2. since[b] = 0 \/ \E i \in DOMAIN disk : disk[i].time = since[b] /\ disk[i].time <= now
          BY <2>1, Zenon DEF PastTimes, TimeOnDisk, Never
        <4> QED
          BY <4>1, <4>2
      <3> QED
        BY <2>1, <3>1 DEF TypeInv
    <2>6. \A b \in Backups : slot[b] \in 0..Len(disk) /\ (pc[b] = "push" => slot[b] # 0)
      BY <2>1, <2>4 DEF TypeInv, JobShape
    <2>7. /\ now \in 1..MaxNow
          /\ latest \in [Files -> Version \cup {NoVersion}]
          /\ pc \in [Backups -> {"idle", "scan", "read", "push"}]
          /\ task \in [Backups -> [Files -> {"none", "found", "open", "read", "failed"}]]
          /\ seen \in [Backups -> [Files -> Version \cup {NoVersion}]]
          /\ quiet \subseteq Files /\ unread \subseteq Files /\ replaced \subseteq Files
          /\ spent \in [Kinds -> Nat]
      BY <2>1, Zenon DEF TypeInv
    <2> QED
      BY <2>2, <2>3, <2>4, <2>5, <2>6, <2>7, Zenon DEF TypeOK
  <1> QED
    BY Invariant, <1>1, PTL

\* A change that was made with no backup in flight, in a second after the last snapshot's,
\* is not lost: until the index has it, the next incremental scan finds the file
\* (scan_world_directory's comparison of times with those run_backup gives the snapshots).
THEOREM ChangesCaptured == Spec => []Captured
  <1>1. IncInv => Captured
    <2> SUFFICES ASSUME IncInv, NEW f \in quiet \ unread
                 PROVE  latest[f] = content[f] \/ f \in Found(Since(TRUE))
      BY Zenon DEF Captured
    <2>1. TypeInv /\ PastTimes /\ CaptureInv /\ f \in Files
      BY DEF IncInv, TypeInv
    <2>2. Due(f)
      BY <2>1, Zenon DEF CaptureInv
    <2>3. Since(TRUE) = Never \/ TimeOnDisk(Since(TRUE))
      <3>1. list # <<>> => Len(list) \in DOMAIN list
        <4> HIDE DEF Snapshots
        <4> QED
          BY <2>1 DEF TypeInv
      <3> QED
        BY <2>1, <3>1, Zenon DEF PastTimes, Since
    <2> QED
      BY <2>1, <2>2, <2>3, Zenon DEF Due, Found, TimeOnDisk
  <1> QED
    BY Invariant, <1>1, PTL

\* What a clone or a restore of a snapshot writes is complete and never older than the
\* snapshot, for the files that were not replaced while a backup had them open, whatever
\* was aborted, skipped, killed or run side by side in between.
THEOREM RestoresNeverOlder == Spec => []NeverOlder
  <1>1. IncInv => NeverOlder
    <2> SUFFICES ASSUME IncInv, NEW i \in DOMAIN disk, NEW f \in DOMAIN disk[i].files \ replaced
                 PROVE  /\ f \in DOMAIN Restored(disk[i])
                        /\ Cloned(disk[i])[f] >= disk[i].files[f]
      BY Zenon DEF NeverOlder
    <2>1. f \in Files
      <3>1. disk[i] \in Snapshots
        <4> HIDE DEF Snapshots
        <4> QED
          BY DEF IncInv, TypeInv
      <3>2. disk[i].files \in UNION {[F -> Version] : F \in SUBSET Files}
        BY <3>1, Zenon DEF Snapshots
      <3>3. PICK F \in SUBSET Files : disk[i].files \in [F -> Version]
        BY <3>2, Zenon
      <3> QED
        BY <3>3
    <2>2. latest[f] # NoVersion /\ latest[f] >= disk[i].files[f]
      BY <2>1, Zenon DEF IncInv, OlderInv, Ascends
    <2>3. f \in DOMAIN Restored(disk[i])
      BY <2>1, <2>2, Zenon DEF Restored
    <2>4. Cloned(disk[i])[f] = latest[f]
      BY Zenon DEF Cloned
    <2> QED
      BY <2>2, <2>3, <2>4
  <1> QED
    BY Invariant, <1>1, PTL

=============================================================================
