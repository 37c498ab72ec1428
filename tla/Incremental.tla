---------------------------- MODULE Incremental -----------------------------
(***************************************************************************)
(* Which changes an incremental backup sees, and what a restore, a clone   *)
(* or a rollback brings back: FileScanner::scan_world_directory of         *)
(* sidecar/src/backup/scanner.rs, and run_backup, restore, clone_world and *)
(* rollback of sidecar/src/backup/mod.rs around it.                        *)
(*                                                                         *)
(* The game server changes files at any time, in place or by renaming a    *)
(* new file onto the old one.  A scan compares modification times, in      *)
(* whole seconds, with the timestamp of the last snapshot of the list.     *)
(* The content of a file is the number of its version; it is read in one   *)
(* step.  Everything that is not the choice of files and versions (chunks, *)
(* references, locks, phases of the commit) is in BackupEngine.            *)
(***************************************************************************)
EXTENDS Naturals, Sequences, FiniteSetsExt

CONSTANTS
    Backups,  \* calls of run_backup that may be in flight together
    Files,    \* files of the world that no rule excludes
    MaxNow,   \* bound on the clock
    Limit     \* bound on the number of each kind of event

Kinds == {"change", "backup", "skip", "abort", "crash"}

ASSUME LimitAssumption == Limit \in [Kinds -> Nat]
ASSUME ClockAssumption == MaxNow \in Nat \ {0}

Never == 0                   \* no snapshot to compare with: all files are due
Version == 1..(1 + Limit["change"])
NoVersion == 0

VARIABLES
    now,      \* the clock, in seconds
    content,  \* version of each file in the world
    mtime,    \* when it was written
    latest,   \* version that the index has the chunk list of
    disk,     \* manifests and file lists of the snapshots, in the order of their timestamps
    list,     \* the list in memory
    pc,       \* where each backup is
    since,    \* the timestamp each backup compares with
    task,     \* what each backup has done with each file
    seen,     \* the version it has read, or still has open under no name
    slot,     \* the snapshot it has written
    quiet,    \* history: files last changed with no backup in flight, in a second after
              \* the last snapshot's
    unread,   \* history: files not read by a backup that committed, and not changed since
    replaced, \* history: files that were replaced while a backup had them open
    spent     \* events so far

world == <<now, content, mtime>>
store == <<latest, disk, list>>
jobs == <<pc, since, task, seen, slot>>
history == <<quiet, unread, replaced>>
vars == <<world, store, jobs, history, spent>>

Idle == [f \in Files |-> "none"]
Unseen == [f \in Files |-> NoVersion]

Init ==
    /\ now = 1
    /\ content = [f \in Files |-> 1]
    /\ mtime = [f \in Files |-> 1]
    /\ latest = Unseen
    /\ disk = <<>> /\ list = <<>>
    /\ pc = [b \in Backups |-> "idle"]
    /\ since = [b \in Backups |-> Never]
    /\ task = [b \in Backups |-> Idle]
    /\ seen = [b \in Backups |-> Unseen]
    /\ slot = [b \in Backups |-> 0]
    /\ quiet = Files
    /\ unread = {} /\ replaced = {}
    /\ spent = [k \in Kinds |-> 0]

Spend(kind) ==
    /\ spent[kind] < Limit[kind]
    /\ spent' = [spent EXCEPT ![kind] = @ + 1]

Goto(b, l) == pc' = [pc EXCEPT ![b] = l]
SetTask(b, f, t) == task' = [task EXCEPT ![b][f] = t]

-----------------------------------------------------------------------------
(* The world *)

Tick ==
    /\ now < MaxNow
    /\ now' = now + 1
    /\ UNCHANGED <<content, mtime, store, jobs, history, spent>>

NewVersion(f) ==
    /\ Spend("change")
    /\ content' = [content EXCEPT ![f] = @ + 1]
    /\ mtime' = [mtime EXCEPT ![f] = now]
    /\ quiet' = IF (\A b \in Backups : pc[b] = "idle") /\ (\A i \in DOMAIN disk : disk[i].time < now)
                THEN quiet \cup {f} ELSE quiet \ {f}
    /\ unread' = unread \ {f}
    /\ UNCHANGED <<now, store, pc, since, task, slot>>

\* The file is written in place: who has it open reads the new version.
Write(f) == NewVersion(f) /\ UNCHANGED <<seen, replaced>>

\* A new file takes its name: who has it open goes on to read the old one.
Replace(f) ==
    LET Open(b) == task[b][f] = "open"
    IN  /\ NewVersion(f)
        /\ seen' = [b \in Backups |-> IF Open(b) /\ seen[b][f] = NoVersion
                                      THEN [seen[b] EXCEPT ![f] = content[f]] ELSE seen[b]]
        /\ replaced' = IF \E b \in Backups : Open(b) THEN replaced \cup {f} ELSE replaced

-----------------------------------------------------------------------------
(* run_backup *)

Since(incremental) ==
    IF incremental /\ list # <<>> THEN list[Len(list)].time ELSE Never

\* scan_world_directory: files with `modified <= since_unix` are skipped.
Found(s) == {f \in Files : s = Never \/ mtime[f] > s}

Start(b, incremental) ==
    /\ pc[b] = "idle"
    /\ Spend("backup")
    /\ since' = [since EXCEPT ![b] = Since(incremental)]
    /\ Goto(b, "scan")
    /\ UNCHANGED <<world, store, task, seen, slot, history>>

Scan(b) ==
    /\ pc[b] = "scan"
    /\ Found(since[b]) # {}
    /\ task' = [task EXCEPT ![b] = [f \in Files |-> IF f \in Found(since[b]) THEN "found" ELSE "none"]]
    /\ Goto(b, "read")
    /\ UNCHANGED <<world, store, since, seen, slot, history, spent>>

\* The end of a call, whatever its answer.
Leave(b) ==
    /\ Goto(b, "idle")
    /\ since' = [since EXCEPT ![b] = Never]
    /\ task' = [task EXCEPT ![b] = Idle]
    /\ seen' = [seen EXCEPT ![b] = Unseen]
    /\ slot' = [slot EXCEPT ![b] = 0]

\* No changes detected: Ok, and no snapshot.
ScanEmpty(b) ==
    /\ pc[b] = "scan"
    /\ Found(since[b]) = {}
    /\ Leave(b)
    /\ UNCHANGED <<world, store, history, spent>>

\* A file task opens its file before it waits for the locks ...
OpenFile(b, f) ==
    /\ task[b][f] = "found"
    /\ SetTask(b, f, "open")
    /\ UNCHANGED <<world, store, pc, since, seen, slot, history, spent>>

ReadVersion(b, f) == IF seen[b][f] = NoVersion THEN content[f] ELSE seen[b][f]

\* Bug: the version that was read is not noted.
ReadFile_Unnoted(b, f) ==
    /\ task[b][f] = "open"
    /\ latest' = [latest EXCEPT ![f] = ReadVersion(b, f)]
    /\ SetTask(b, f, "read")
    /\ UNCHANGED <<world, disk, list, pc, since, seen, slot, history, spent>>

\* ... and under them reads it to the end and replaces its chunk list.
ReadFile(b, f) ==
    /\ task[b][f] = "open"
    /\ seen' = [seen EXCEPT ![b][f] = ReadVersion(b, f)]
    /\ latest' = [latest EXCEPT ![f] = ReadVersion(b, f)]
    /\ SetTask(b, f, "read")
    /\ UNCHANGED <<world, disk, list, pc, since, slot, history, spent>>

\* Bug: the chunk list is emptied before the file is read.
SkipFile_Empties(b, f) ==
    /\ task[b][f] \in {"found", "open"}
    /\ Spend("skip")
    /\ SetTask(b, f, "failed")
    /\ latest' = [latest EXCEPT ![f] = NoVersion]
    /\ UNCHANGED <<world, disk, list, pc, since, seen, slot, history>>

\* It cannot be opened or read: a warning, and the backup goes on without it.
SkipFile(b, f) ==
    /\ task[b][f] \in {"found", "open"}
    /\ Spend("skip")
    /\ SetTask(b, f, "failed")
    /\ UNCHANGED <<world, store, pc, since, seen, slot, history>>

FilesIn(b, t) == {f \in Files : task[b][f] = t}
Joined(b) == pc[b] = "read" /\ FilesIn(b, "open") = {}

Snapshot(b) == [time |-> now, files |-> [f \in FilesIn(b, "read") |-> seen[b][f]]]

\* Bug: the loop ends at the flag, and what was read until then is committed.
Abort_Commits(b) ==
    /\ Joined(b)
    /\ Spend("abort")
    /\ disk' = Append(disk, Snapshot(b))
    /\ list' = Append(list, Snapshot(b))
    /\ Leave(b)
    /\ UNCHANGED <<world, latest, history>>

\* Cancelled, or the manifest cannot be written: the files not spawned yet are left out,
\* the chunk lists of the others stay.
Abort(b) ==
    /\ Joined(b)
    /\ Spend("abort")
    /\ Leave(b)
    /\ UNCHANGED <<world, store, history>>

\* The timestamp is taken now, when everything has been read, and the snapshot lists
\* what has been read.
Commit(b) ==
    /\ Joined(b) /\ FilesIn(b, "found") = {}
    /\ disk' = Append(disk, Snapshot(b))
    /\ slot' = [slot EXCEPT ![b] = Len(disk')]
    /\ unread' = unread \cup FilesIn(b, "failed")
    /\ Goto(b, "push")
    /\ UNCHANGED <<world, latest, list, since, task, seen, quiet, replaced, spent>>

Push(b) ==
    /\ pc[b] = "push"
    /\ list' = Append(list, disk[slot[b]])
    /\ Leave(b)
    /\ UNCHANGED <<world, latest, disk, history, spent>>

\* The process dies and starts again: load_snapshots reads the manifests and sorts them.
CrashRestart ==
    /\ Spend("crash")
    /\ list' = disk
    /\ pc' = [b \in Backups |-> "idle"]
    /\ since' = [b \in Backups |-> Never]
    /\ task' = [b \in Backups |-> Idle]
    /\ seen' = [b \in Backups |-> Unseen]
    /\ slot' = [b \in Backups |-> 0]
    /\ UNCHANGED <<world, latest, disk, history>>

-----------------------------------------------------------------------------
(* restore, clone_world and rollback: functions of the state, which they do not change *)

\* A full restore writes every file the index knows, whatever snapshot it is asked for.
Restored(snapshot) == [f \in {g \in Files : latest[g] # NoVersion} |-> latest[f]]

\* A clone writes the files the snapshot lists.
Cloned(snapshot) == [f \in DOMAIN snapshot.files |-> latest[f]]

\* rollback(d): the last entry of the list that is older than d seconds.
RollbackTargets(d) == {i \in DOMAIN list : list[i].time + d < now}
RollbackTarget(d) == list[Max(RollbackTargets(d))]

-----------------------------------------------------------------------------

Next ==
    \/ Tick
    \/ \E f \in Files : Write(f) \/ Replace(f)
    \/ \E b \in Backups :
        \/ \E incremental \in BOOLEAN : Start(b, incremental)
        \/ Scan(b) \/ ScanEmpty(b) \/ Abort(b) \/ Commit(b) \/ Push(b)
        \/ \E f \in Files : OpenFile(b, f) \/ ReadFile(b, f) \/ SkipFile(b, f)
    \/ CrashRestart

Spec == Init /\ [][Next]_vars

-----------------------------------------------------------------------------
(* Properties *)

Snapshots == [time : 1..MaxNow, files : UNION {[F -> Version] : F \in SUBSET Files}]

TypeOK ==
    /\ now \in 1..MaxNow
    /\ content \in [Files -> Version]
    /\ mtime \in [Files -> 1..now]
    /\ latest \in [Files -> Version \cup {NoVersion}]
    /\ \A i \in DOMAIN disk : disk[i] \in Snapshots
    /\ \A i \in DOMAIN list : list[i] \in Snapshots
    /\ pc \in [Backups -> {"idle", "scan", "read", "push"}]
    /\ since \in [Backups -> 0..now]
    /\ task \in [Backups -> [Files -> {"none", "found", "open", "read", "failed"}]]
    /\ seen \in [Backups -> [Files -> Version \cup {NoVersion}]]
    /\ \A b \in Backups : slot[b] \in 0..Len(disk) /\ (pc[b] = "push" => slot[b] # 0)
    /\ quiet \subseteq Files /\ unread \subseteq Files /\ replaced \subseteq Files
    /\ spent \in [Kinds -> Nat]

\* A change that was made while no backup was in flight, in a later second than that of
\* the last snapshot, is never lost: until its version is in the index, the next
\* incremental scan finds the file, whatever backups were aborted, killed, or overtaken
\* by others in between; unless a backup that committed could not read it.
Captured ==
    \A f \in quiet \ unread : latest[f] = content[f] \/ f \in Found(Since(TRUE))

\* What a clone or a restore of a snapshot writes is complete and never older than the
\* snapshot, as long as later backups fail, abort, are killed, or run beside each other;
\* unless the file was replaced while a backup had it open.
NeverOlder ==
    \A i \in DOMAIN disk : \A f \in DOMAIN disk[i].files \ replaced :
        /\ f \in DOMAIN Restored(disk[i])
        /\ Cloned(disk[i])[f] >= disk[i].files[f]

\* client-cli/src/main.rs:112, "Rollback to a point in time": what a rollback writes is what
\* the snapshot it has picked had read.
RollbackRestores ==
    \A d \in 0..MaxNow : RollbackTargets(d) # {} =>
        LET s == RollbackTarget(d)
        IN  \A f \in DOMAIN s.files : Restored(s)[f] = s.files[f]

=============================================================================
