# TLA+ models of the Obsidian backup engine

Specifications of `obsidian-sidecar` (`src/sidecar`), the content-addressed backup
daemon for Minecraft servers: TLA+ modules translated from its source, TLC
configurations that check them on small instances, and theorems that TLAPS proves for
every value of the constants. `PROJECT.json` maps every definition to
the lines it models and lists runs, theorems, hazards and findings.

1. [The system](#1-the-system) - 2. [Modules](#2-modules-and-how-they-correspond-to-the-code) -
3. [Runs](#3-runs-and-bounds) - 4. [Fairness](#4-fairness) - 5. [Proofs](#5-proofs) -
6. [Where code and documentation disagree](#6-where-the-code-and-its-documentation-disagree) -
7. [Not modelled](#7-what-is-not-modelled) - 8. [Plan](#8-plan)

## 1. The system

One process, the sidecar, serves IPC requests of the game server and of the `obsidian`
command line client. **Every connection is a task of its own** (`ipc/server.rs:39-64`)
on a multi-threaded tokio runtime, and all of them call the same `Arc<BackupEngine>`:
two backups, a backup and a prune, or three restores really run side by side. Nothing
serialises whole operations; what they share is protected by several locks, each taken
for a part of an operation. Everything the process keeps is on disk under `.obsidian/`,
written in several steps and without temporary names, so that a crash between any two
of them leaves something for the next start to make sense of.

| Component | State | Operations | Correct when |
|---|---|---|---|
| **Backup engine** `backup/mod.rs` | `SystemState` (status), `snapshots` (list in memory), `active_transaction`, the three locks | `run_backup`, `cancel`, startup's `load_snapshots` | what it answered with "ok" is listed and complete after any interleaving and crash; nothing cancelled in time or refused ever appears; calls return |
| **Transactions** `backup/transaction.rs` | `transient_objects`: ONE list for all backups | `begin`, `record`, `commit`, `rollback` | a rollback gives back what this backup counted and no more |
| **Block index** `storage/index.rs` | RocksDB: chunk references, the latest chunk list of each file, the file list of each snapshot | insert, increment, decrement, list | an entry is never without its object; counts are never too low |
| **Object store** `storage/object_store.rs` | loose objects, packfiles with `.idx` files, `object_index` in memory, `next_pack_id` | `write_object`, `read_object`, sealing, `load_index` | what was written is read back as it was, through sealing and reload |
| **Erasure coding** `erasure.rs`, `object_store.rs` | 8 data shards and a parity file per object | `write_sharded_object`, `verify_object` with repair | two damaged shards are tolerated, at any time |
| **Retention** `backup/mod.rs` | manifests, pin files, snapshot list, references | `pin`, `prune`, `delete_snapshot`, `load_snapshots` | never prunes what is pinned or among the newest; releases once |
| **Restore** `backup/mod.rs` | `world`, `world_old_tmp`, a sandbox per restore | `restore` | there is always a whole world on disk |
| **Remote sync** `remote_sync.rs` | two engines, a TCP connection per transfer | `push`, `pull`, `serve` | "done" means the receiver has it; both ends come to an end |
| **Incremental scan** `backup/scanner.rs` | modification times, last snapshot's timestamp | `scan_world_directory` | every change is in some snapshot |
| **Chunker** `backup/chunker.rs` | buffer of the streaming reader | `chunk_file`, `chunk_reader` | no byte is lost however reads return; both ways cut at the same places, where the content says |
| **Config** `config.rs` | exclusion rules, limits | `is_excluded` (globs), loading | matching ends and means what the patterns say |
| **IPC** `ipc/` | a task per connection, authenticated or not | `run`, `handle_connection`, `dispatch` | nothing is served before authentication; answers are true and in order; no connection is left hanging |
| **CLI** `client-cli` | none | one request and its answer, with a time-out | its departure disturbs nothing |
| **Signing** `signing.rs` | key files, a `.sig` beside a manifest | `sign`, `verify` | see section 7 |
| **Clone, rollback, export, import** `backup/mod.rs` | copies of directories | | what is copied is what was asked for |
| **Startup**, **queries** | arguments; none | | see section 7 |

How they interact:

- `run_backup` holds the index, the object store and the transient list (in this order)
  for the whole streaming of one file, and takes the index alone for the file list and
  the commit. `rollback` takes the transient list and then the index: **the opposite order**.
- `cancel` does nothing but set a flag in the active transaction. `run_backup` reads the flag
  before each file and once after the last one.
- `prune` works on a copy of the snapshot list; `delete_snapshot` takes the index in two
  sections; `load_snapshots` reads the directory with no lock and then replaces the list.
- `restore` holds index and store while it builds its sandbox and lets them go before
  it renames directories; the task that removes the old world runs after it has answered.
- A connection reads a line, serves it to the end, answers and only then reads the next line:
  a `cancel` helps only over a second connection, and a client that gives up does not stop
  what it has asked for.
- The scanner asks the exclusion patterns for every file it walks over; a file task feeds the
  streaming chunker, which calls back with every chunk.
- Remote sync stores each frame as it arrives, through the same engine.

What is hard about it: concurrent calls that share a transaction and a list; locks in two
orders; checks that are stale when they are acted on (flag, pin file, copy of the list,
the name `world_old_tmp`); failures that are only logged; loops and window
arithmetic at the edges of a buffer; crashes between any two files;
in-place rewriting of good data; a peer that breaks off in the middle. `PROJECT.json`
lists 40 such places at their lines, with the properties that watch them or the reason
why none does.

## 2. Modules, and how they correspond to the code

| Module | Models | Composed with |
|---|---|---|
| `BlockIndex` | `storage/index.rs` as operators on the values of its column families | used by `BackupEngine`, `Retention` and `RemoteSync` |
| `BackupEngine` | `run_backup`, `TransactionManager`, `cancel`, restart, for any number of concurrent calls | `BlockIndex`; implements `SnapshotLog` |
| `SnapshotLog` | abstract: what `run_backup` promises to its callers | instantiated by `BackupEngine` |
| `ObjectStore` | `write_object`, sealing, `load_index`, `read_object` | |
| `ShardRepair` | `write_sharded_object`, `verify_object`, `load_index` for one erasure-coded object | |
| `Retention` | `prune_snapshots`, `delete_snapshot`, `pin_snapshot`, `import_snapshot`, `load_snapshots` against a backup | `BlockIndex` |
| `RestoreSwap` | the end of `restore`: renames and clean-up | |
| `Service` | `ipc/server.rs`, `ipc/transport.rs` and the clients of a connection | EXTENDS `RestoreSwap`, and implements it |
| `Incremental` | the choice of files by `scanner.rs`, and which versions `restore`, `clone_world` and `rollback` write | |
| `RemoteSync` | `remote_sync.rs` and the engine's receiving side | `BlockIndex` |
| `GlobMatch` | `is_excluded` and the glob matcher of `config.rs` as functions with three outcomes, and what a pattern means | |
| `Chunking` | `chunk_file`, `find_boundary_at` as functions, and what chunks of a file are to be | |
| `FileIntake` | the way of one file: excluded or not, then `chunk_reader` | EXTENDS `GlobMatch` and `Chunking` |
| `BackupEngine_proofs`, `ObjectStore_proofs`, `ShardRepair_proofs`, `Service_proofs`, `FileIntake_proofs`, `RemoteSync_proofs`, `Retention_proofs`, `Incremental_proofs` | theorems about `BackupEngine`, `ObjectStore`, `ShardRepair`, `RestoreSwap` with `Service`, `FileIntake`, `RemoteSync`, `Retention` and `Incremental` | |
| `MC*` | constants for the runs: contents, event budgets, inputs, symmetry | one per module that is run |

Conventions. A step is what the code does between two points where another task or a
crash can be noticed: an `.await` on a lock, a lock section, a file operation. Phases
(`pc`, `tpc`, `ppc`, ...) are program counters named after what comes next. `Spend(kind)`
draws from a budget of events (crash, failing I/O, cancel, ...) that a run bounds in
`Limit`. A definition with a suffix such as `DedupChunk_NoRef` is a *mutant*: the
definition with a plausible bug, used to show that a property can fail; no specification
uses it. An invariant is about every reachable state, so a crash may be taken to happen
in any of them. "Crash" means the process: what was handed to the operating system
survives. A power failure, and with it the question which files were synced, is not
modelled.

### BackupEngine

`pc[b]` follows a call of `run_backup` through `begin` and `activate`
(`mod.rs:295-301`), `scan`, the loop with a permit per file (`loop`, `acquire`), `collect`
(all task handles are awaited), `check` (the last look at the flag), then either the
rollback (`rollback`, `rbIndex`, `rbLoop`, `rbClear`, `rbIdle`) or the commit (`manifest`,
`sign`, `files`, `flush`, `clear`, `push`, `idle`, `stats`). An empty scan takes the short way
(`emptyCommit` ...). `tpc[<<b, f>>]` follows a file task: open the file, take three locks,
and per chunk either `DedupChunk` (known: one more reference) or `WriteChunk` and
`IndexChunk`. Which files a scan finds and which contents a task reads are open, as the
game server writes all the time. Failing scans, opens, reads, object writes, manifest and
signature writes follow the `?`, `warn!` and `continue` of the code: a failing object write leaves
the hash in the file's list and the chunk out of the index, and a failing signature the manifest
of a call that is answered with an error.

Objects are not written in one step as far as a crash or an error can tell: `store` has the
objects that can be read back, `partial` those of which only a part is on disk, and `torn` those
of the latter that a restarted store takes for objects (`TakenForObjects`: any loose file; with
`ErasureCoding` none, since a sharded object counts by its parity header, which is written last).
`write_object` skips a torn object as it does a whole one. A part of a manifest is no JSON, and
`load_snapshots` passes over it.

`CrashRestart` ends every call, drops what is in memory and reloads the list from the
manifests. The histories `shared`, `cancelled` and `early` say which calls ran beside another
one, and which a cancel met in flight, and before their last look at the flag. Left out: sizes,
progress queues, the bytes themselves (an object is its hash), what is in a signature, chunk
metadata.

Locks: `tokio::sync::Mutex`/`RwLock` with their holder as value. `commit` and the end of
`rollback` clear the transient list with `try_lock`, so `TryClear` leaves it alone when
somebody holds it.

**Abstract specification.** `SnapshotLog` knows a log and what each call was answered:
`Record` appends, `Acknowledge` answers only what is recorded, `Reject` only what is not
and then never will be, `Fail` (an error) and `Lose` (a crash) leave callers in doubt.
`ImplementsSnapshotLog` maps the
log to the manifests on disk and the answers to the phases `ok`, `empty`, `aborted`,
`error`, `lost`.

### ObjectStore

`loose`, `pack`, `idx`, `idxFiles` are the disk; `index` and `nextPack` are memory; `pc` is the
position in `write_object` (the store's write lock admits one). A loose file is created and
then written, so it can be `partial`. Sealing writes the whole pack, creates the `.idx`, then
writes its lines; `writeln!` on an unbuffered `File` issues several writes, so a line can be
cut: the model has the one cut with an effect of its own, before the size, which
`load_index` then parses as 0. `Crash` includes the reload: loose files, overridden by the
`.idx` lines in any order of the directory, and `next_pack_id` from the `.idx` files. `Read`
is what `read_object` returns: an object's data, something short, or an error.

### ShardRepair

Each shard is good or bad against the hash in the header. `fs::write` truncates and then
writes: two steps per file, eight data shards, then the parity file with header and parity
shards. A write and a repair are the same loop over the files; a repair starts only when
at most two shards are bad, and writes all of them. `Loadable` is the condition under
which a restart takes the directory for an object.

### Retention

A backup is reduced to the four things that retention sees: references and chunk list,
manifest, file list, push to the list. A prune goes over its own copy of the list, newest
first; per snapshot: skip if pinned, keep while fewer than `keep` are kept, or delete
in four steps (file list, release, manifest, pin); then it reads the directory and
replaces the list. Any number of prunes and imports run side by side: a deletion that finds its
manifest taken away between its look and its removal is an error that is logged (`ManifestGone`).
Histories: `pinnedSince`, the pins that have been there since a prune began; `lost`, what is gone of
its copy; `touched`, what was written or deleted since a reload read the directory, and `stale`, on
which the list is out of date therefore; `again`, how often a prune has released a file list that
another had released since it read it. `Import` copies an
archive of this server's store over the store, which brings back manifests and pins of snapshots
deleted since, and then reloads like a prune. The index is kept outside the store
(`main.rs:87`), so an archive has no file lists. Objects and packs that the archive brings over
those in use are left out. Snapshots are numbered by their timestamps. The two sorts are stated by
their results: `OldestFirst` of the set a reload has read, `NewestFirst` of a list that may name a
snapshot twice. The file `World` stands for the files that every backup contains.

### RestoreSwap

`world`, `old` (`world_old_tmp`) and a sandbox per restore hold trees named after their
origin. `rename` onto a non-empty directory fails, as POSIX says; the clean-up opens,
empties and removes in three steps and may meet another tree under the name by then.
Each rename and each clean-up can also fail for a reason of its own (`Fault`), any number of times:
a restore that fails at its second rename answers with an error although the world was
moved away by then, does not move it back and spawns no clean-up; a clean-up that fails is logged and
leaves what it has not removed. It has no run of its own: `Service` checks it with its callers.

### Service

A connection has the name of the restore it may run, and `stage[c]` is its task: `auth` until
its first line, `serving`, `closed`. `Scripts` are the lines a client may send. A line is
served by `Serve` (all that leaves the world alone), `BeginRestore` or `RefuseRestore`;
`RunRestore` and `EndRestore` are the steps of `RestoreSwap`, the latter with the answer.
`Leave` is a client that has its answer, was killed or ran out of patience
(`client-cli/src/main.rs:217`): the task goes on, its answers are lost, and it finds
the end of the stream when it reads again (`HangUp`). `CrashService` is the death of the process,
also that by an error of `accept`, which ends `run` and with it `main`. `placed` counts
the times a connection's restore took effect, for `AnswersTrue`. A blank line is skipped without
an answer, so `Asked(c)` are the places of the lines that have one, and `Rank(c, i)` says which.

### Incremental

`content[f]` is the number of a file's version, `mtime[f]` the second it was written in, `latest[f]`
the version whose chunk list the index has, and a snapshot its timestamp and the versions of
the files it lists. A backup takes `since` from the list in memory (`Start`), finds the files
(`Scan`), opens and reads each of them on its own, and takes its timestamp when it has read
all of them (`Commit`). The game server writes files in place (`Write`) or renames a new file
onto the old one (`Replace`), which a task that has the old one open does not see. `Restored`,
`Cloned` and `RollbackTarget` are functions of the state: the first ignores its argument, as
`restore` ignores its snapshot id once the manifest is found. The histories `quiet`, `unread`
and `replaced` say which changes and files the properties speak of. Left out: files that
appear or disappear, reads that meet a write half way, snapshots of other servers in the
list (section 7), the phases of the commit (in `BackupEngine`).

### RemoteSync

A session is a connection between two engines; either end may be the dialer (push or
pull). Frames in flight are queues, at most `Window` towards the receiver. `Break` loses a
suffix of what is in flight; `ReceiverCrash` breaks every session and reloads the list. What the
receiver is writing when it crashes, or when its disk fails (`WriteFails`), may be left in part: an
object (`partial`, and `torn` when a reopened store takes it for the object, which
`write_object` then skips and the transfer acknowledges), or a manifest, which `fs::write` truncates
first, so that one sent once more can be destroyed (`cut`). The receiver is one without erasure
coding, where a part of an object can be taken for the whole.
`SenderBackup` changes the sender's chunk lists at any time, as the sender reads each
list when that file's turn comes. A file is one chunk.

### GlobMatch, Chunking, FileIntake

`FileIntake` takes one file of `Inputs` with its patterns: `Exclude` is the scanner's question,
`Fill(n)` a read that returns `n` bytes, `ReadFails`, `Cut` one chunk off the buffer. It
uses the two algorithms as functions:

- `SingleMatch` runs the loop of `config.rs:459-490`: `Turn` is one turn of it on its four
  variables, and a loop that has made more turns than it has positions never ends: the outcome is
  `"hang"`. `MatchSegments` is the recursion over segments with `**`. The reference `MeantPath`
  says with cuts, and without an algorithm, what a pattern covers. A pattern and a path are
  sequences of segments, a segment one of characters; `**` beside other characters becomes
  a character that no name has, as `___DOUBLESTAR___` does in the code.
- `FindBoundary` takes the hash of each window by rolling (`WindowHashes`), in
  arithmetic modulo `Modulus`. The reference `AreChunksOf` takes the hash of each window directly.

## 3. Runs and bounds

| Run | What it shows | Instance |
|---|---|---|
| `backup_serial` | types, index/store agreement, counts, cancellation, acknowledged snapshots, and refinement of `SnapshotLog` | two calls one after the other, two files, two chunks, two contents, no erasure coding (loose objects, which can be torn), and one each of: cancel, crash, failing I/O, failing object write |
| `backup_parallel` | only what was cancelled is aborted, status stays right, every call returns unless the lock cycle stops it, which takes a cancel and two calls | two calls at a time, two files of one chunk, one permit, and one event of any kind: cancel, crash, failing I/O, failing object write |
| `object_store` | what was written stays readable; never foreign data | three objects, packs of two, two packs, two crashes, one failing write |
| `shard_repair` | indexed objects have their data; two rotten shards are tolerated | the code's own 8+2, three rotten shards, one failing write, two crashes |
| `retention` | the list is what is on disk, pins and newest snapshots are kept, references released once, snapshots whole | two backups at a time (each again and again), two prunes or imports side by side, keep 0, 1 or 2, three snapshots, one content, one crash |
| `service` | a whole world is always on disk, what is set aside is removed, answers are true, connections settle | three connections, each of which restores and asks for more, does not restore, or is the command line client's; clients leave at any point; renames and clean-ups fail at any time; one crash |
| `file_intake` | exclusion means what it says and ends, no byte is lost, both ways to chunk agree | patterns and paths of up to three segments, pairs of patterns; every file of up to nine bytes (two values) under every way its reads can be short |
| `incremental` | quiet changes are never lost; a snapshot never comes back older than it was | two backups at a time, three in all, two files, two changes, three seconds, one each of: unreadable file, abort, crash |
| `remote_sync` | "done" is stored, lists are readable, sessions end | two sessions of any direction and snapshot, two files, and any two of: a backup, a break, a crash, a failing write |
| `find_*` | the disagreements of section 6 | the smallest instance that has them |

Why these are enough to meet the hazards: every shared variable of the engine is contended by two
calls, and a call by its own two tasks; two files make "some read, some skipped" possible, two
chunks and the contents `<<c1, c2>>` and `<<c2>>` make a chunk shared, new or known at different
places of a file. A second backup after a cancelled, failed or crashed one sees all that the first
can leave. `MaxEvents` bounds the events of a behaviour all together, where `Limit` bounds each kind:
`backup_serial` has all four, `backup_parallel` one, since each of them alone reaches every early
return of a call beside another; `remote_sync` two, so that a transfer meets what another left
behind and fails itself. `object_store` needs a pack that was cut and another that was sealed afterwards with
the remains; `shard_repair` needs one rotten shard more than the code tolerates; `retention` needs
a snapshot to keep, one to prune and one that arrives meanwhile, and a second prune or an import
beside or after the first; `service` needs a third restore to meet what two leave behind; `file_intake`
needs, with a minimal size of 3, a window of 2 and a maximal size of 9, files that end before, in
and after the first window, at and one past a boundary, and at the maximal size, and reads (of at
most 6 bytes) that stop at each of these; `incremental` needs a second before, of and after a
snapshot, a backup that reads something and leaves no snapshot, and another beside it;
`remote_sync` needs a transfer to be repeated after one that was broken. Symmetry is used only in
runs without liveness properties, over calls, files, objects or chunks, none of which a definition
orders.

With two calls at a time and a cancel, the lock cycle of section 6 is reachable, and a state in which
nothing moves: `backup_parallel` is not checked for deadlock, `CycleTakesTwoCalls` says what it takes
to close the cycle, and `EveryCallReturns` that nothing else stops a call.

What each property is for is written above its definition. Those whose statement excludes
something say so, and the exclusion is a fact about the code:

- `FileChunksReadable`, `NeverUndercounted`: while no object write has failed. After one, the
  file's list names a chunk that is not stored (`mod.rs:419-425` only warns).
- `IndexedChunksStored`, `FileChunksReadable`: without erasure coding (the default has it), but for
  torn objects. A crash or an error inside the write of a loose file leaves a part of it, which the
  next start takes for the object (`object_store.rs:188-193`) and the next write skips (`:249`); see
  `find_lost_object`.
- `NeverUndercounted`: unless a call that another ran beside has given references back
  (`RolledBackAlone`). The transient list is one for all calls, so its rollback gives back what the
  other has counted.
- `EveryCallReturns`: unless the lock cycle of `find_deadlock` closes.
- `IdleWhenQuiet`: unless a call ended in an I/O error, which leaves the status at `backing_up`.
- `WrittenReadable`: an `.idx` line cut before its size hides the object, although its loose file
  is still there.
- `IndexedHasData`: unless a failed write left its header behind. A write that fails between header
  and parity shards leaves the header; the next write truncates data shards while it stands, and a
  crash there gets the object indexed.
- `ToleratesRot`: unless a repair was interrupted. A repair of two bad shards truncates and writes
  the good ones too, so a crash or a failing write in it may damage a third (`SECURITY.md:31`: two
  damaged shards are tolerated).
- `PinnedKept`: pins that have been there since before the prune began. A pin set between the check
  and the removal is deleted together with its snapshot, and one that another prune removes does
  not count.
- `KeepsNewest`: unless the copy of the list names a snapshot twice. `load_snapshots` at the end
  of a prune reads a manifest whose backup then pushes it again; the next prune then keeps one
  snapshot less than `keep`. What other prunes delete meanwhile counts as kept, as in the code.
- `EarlyCancelNeverCommits`: cancels before the last look at the flag (`mod.rs:492`), of a call that
  none ran beside. One after it is answered "Transaction cancelled and rolled back"
  (`server.rs:587`), and the snapshot is committed; and the transaction of a second call replaces
  that of the first, which then looks at the second's flag.
- `Captured`: a change in the second of the last timestamp (`modified <= since_unix`,
  `scanner.rs:162`), between a file's read and the timestamp of the manifest (`mod.rs:511`), or of
  a file that the backup skipped with a warning is not found by any later incremental backup,
  until the file changes again.
- `NeverOlder`: unless a file was replaced while open. Of two backups that have opened the old and
  the new file, the one with the old file may write its chunk list last.
- `ReleasedOnce`: but for prunes that release a file list which another has released since they read
  it; there is one more release than references for each of them, and `again` counts them.
- `WholeSnapshots`: without a crash, and but for imported snapshots. A crash inside a deletion
  leaves a snapshot in the list that has no file list, and an import always does.
- `ListMatches`: but for what a backup, a prune or an import has on its way, and for the snapshots
  that were written or deleted since the last reload had read the directory (`load_snapshots` holds
  no lock in between), or deleted before their backup pushed them: these are missing from the list,
  or in it without a manifest, until the next reload.
- `OldRemoved`: without a crash, and without a second rename or a clean-up that meets an error of its
  own. After one, `world_old_tmp` stays, and every later restore fails to rename onto it.
- `WorldInPlace`: without a crash, which may come between the two renames, and without a second
  rename that fails although the name is free: the code does not move the old world back.
  `WorldOnDisk` and `LiveKept` hold through all of these.
- `DoneIsStored`: but for a manifest that was cut while it was written once more (`mod.rs:1525`), and
  for objects of which an interrupted write left a part that a reopened store takes for the whole.
- `StreamAgrees`: as long as no chunk was cut from a buffer that held neither the maximal size nor
  the end of the file. The reader stops filling at the minimal size (`chunker.rs:156`).
- `EveryFileEnds`, and the outcome in `ExcludedAsMeant`: unless a pattern has a wildcard among the
  characters of a name (section 6).
- `QuietReadable`: while no transfer failed. A broken one leaves chunk lists without objects, also
  for files the receiver could read before.

## 4. Fairness

- `BackupEngine`: weak fairness of all steps of calls and file tasks together: the runtime does not
  rest while one of them can move. No behaviour has infinitely many such steps, so nothing need be
  assumed about the order in which tokio's locks serve their waiters. No event (start, cancel,
  failure, crash) is fair.
- `Service`: weak fairness of each connection's task (`Handle`, with the steps of its restore)
  and of each clean-up task, which may fail: tokio runs every task that is ready, and none waits for
  another.
  Nothing is assumed of clients: they may stay silent or go away at any time.
- `FileIntake`: weak fairness of each step but the failing read: it is sequential code, and a read
  of a file returns.
- `RemoteSync`: weak fairness of both ends; a connection that is not broken delivers, and the death
  of a peer is noticed. The code has no read time-outs, so a peer that is alive and silent for ever,
  or a half-open TCP connection whose end nobody reports, would keep a session open; the model's
  peers are tasks of the same program, and a crash breaks their connections.

The other modules have safety properties only and state no fairness.

## 5. Proofs

All theorems hold for every value of the constants under the modules' named assumptions.

`BackupEngine_proofs`: for every set of calls, files, chunks and contents, every number of
permits and concurrent calls, and every budget of cancels, crashes and faults.

| Theorem | States | Argument |
|---|---|---|
| `TypeCorrect` | `[]TypeOK` | not inductive alone: `IndexChunk` takes the last of `hashes[t]`, which must be non-empty in that phase; see `IndexInv` |
| `IndexedStored` | `[]IndexedChunksStored` | `IndexInv`: types, "with erasure coding nothing is torn", "a task about to index has just put the last hash of its list into the store, or skipped a torn object", plus the property |
| `FilesReadable` | `[]FileChunksReadable` | an invariant that adds the same for the hashes a task has collected so far: they are in the store, or torn, while no object write has failed |
| `MutualExclusion` | `[]LocksHeld` | inductive with types; the names of tasks and calls differ from `None` and from each other |
| `IdleStatus` | `[]IdleWhenQuiet` | `BusyInv`: a call that the status names is in flight and has not set it back yet, or ended in an I/O error |
| `AbortsAreMeant`, `EarlyCancelStops` | `[]OnlyCancelledAbort` and `[]EarlyCancelNeverCommits` | `CancelInv`: a call that finds a mark was in flight at a cancel (`Reached`); and a call that an early cancel met and that has run alone so far is on its way to its last look with its own transaction marked, or past it without a manifest (`Stopped`). `SharedInv`: of two calls in flight each counts as having run beside another |
| `ReferencesCounted` | `[]NeverUndercounted` | `Covered`: each chunk is counted at least as often as it occurs in recorded snapshots and in what file tasks have listed, a finite set of occurrences; `Affordable`: what the rollback of a call that runs alone still gives back comes on top of the recorded ones |
| `CycleOfTwoCalls` | `[]CycleTakesTwoCalls` | a rollback has awaited all tasks of its own call (`AckInv`), so a task that runs is another call's; and only a call with a marked transaction reaches its rollback (`Reached`) |
| `AcknowledgedDurable` | `[]AcknowledgedSurvives` | `AckInv` ties each phase of a call to what must be on disk and in the list by then, and keeps ids from being written twice |
| `Refinement` | `Spec => ImplementsSnapshotLog` | initial states map to initial states, each step to a step of the log or a stutter, under `TypeOK` and `AckInv`; a failing signature is a `Fail` after `Record` |

`ObjectStore_proofs`: for any number of objects and packs, any threshold, and any budget of
crashes and failing writes.

| Theorem | States | Argument |
|---|---|---|
| `StoreTypes` | `[]TypeOK` | conjunct of `StoreInv` |
| `ReadsOwn` | `[]NeverForeign` | a line gives the position of the object it names, in a pack older than the next id (`Placed`); the index has an object in a pack only by such a line (`Entered`); and while a pack is sealed nothing points into it (`SealGoesOn`), so overwriting it harms nobody |
| `WrittenStaysReadable` | `[]WrittenReadable` | `Whole`: a written object has a whole loose file or a line, and every line of it leads to all of its data. This needs that an object the index does not know has no line (`Entered`), and that loose files go only when the index has their object in a pack (`RemovesPacked`) |
| `HealthyStays` | `ReadableStays` | the same invariant: the index switches to a pack when all lines are complete, and the pack has what the loose files have |

`ShardRepair_proofs`: for any number of data and parity shards and any budget of rot, failing
writes and crashes.

| Theorem | States | Argument |
|---|---|---|
| `RotTolerated` | `[]ToleratesRot` | `ShardInv`: a job has put in place every data shard before the one it is at (`Written`), and a complete object that no repair left unfinished lacks no more shards than have rotted (`AtRest`) |
| `HeaderCommits` | `[]IndexedHasData` | the same invariant: the header is there only when all data was written, unless a repair is unfinished or a failed write left its header behind (`HeaderLast`); this needs the directory to stay (`HasDir`) and a repair to count as unfinished while it runs (`RepairTorn`) |

`Service_proofs`: for any set of connections and restores, any scripts and any number of crashes
and failing renames and clean-ups.

| Theorem | States | Argument |
|---|---|---|
| `SwapTypes` | `RestoreSwap`'s `[]TypeOK` | conjunct of `SwapInv` |
| `WorldSurvives`, `LiveSurvives`, `NoGap` | `[]WorldOnDisk`, `[]LiveKept`, `[]WorldInPlace` | `SwapInv` adds two facts to them: a restore that has still to make its second rename has its tree whole in its sandbox (`Built`), and a tree is set aside only while the world is away or another stands in its place (`OneLate`). So a clean-up that comes late removes something only when there is a whole world; a call that fails changes no directory (`Faults`) |
| `ServiceRestores` | `ServiceSpec => Spec` of `RestoreSwap` | each step of a connection is a step of its restore or leaves the directories alone: the theorems above hold of the service |
| `OnlyAdmitted` | a restore took effect only for a connection whose first line gave the token | `SessionInv`: a connection in `serving` has been admitted, and one that is not serving has no restore in flight |
| `AnswersAreTrue` | `[]AnswersTrue` | `AnswerInv`, next to `SwapInv` and `SessionInv`: what is in `inbox[c]` is the end of what was sent, a restore in flight belongs to the last line read, and a client that is there has an answer to each line before that is not blank (`InStep`); each answer has the line of its rank (`Matched`, carried on by the lemma `NextAnswer`); a refused client is not served (`Refused`); and the restores answered with ok are the trees put in place, but for one whose answer is due (`Told`), which needs that a tree in a sandbox is never the world already (`Built`) |

`FileIntake_proofs`: for files, windows, buffers and chunk sizes of any length, any way reads
return bytes, and patterns and paths of any length.

| Theorem | States | Argument |
|---|---|---|
| `NoByteLost` | `[]Lossless` | `IntakeInv`: types, the buffer and the rest follow the last chunk (`Follows`), chunks are what the file has at their offsets (`ChunksOK`), the buffer is bounded and the phases fit (`Tidy`). `ChunkSizeBounds` says that a boundary never lies beyond the buffer or the maximal size, nor before the minimal one unless the buffer does; it rests on `LeastNumber`, the least element of a set of numbers |
| `BothWaysAgree` | `[]StreamAgrees` | `OnCourse`, next to `IntakeInv`: while no chunk was cut short, the chunks so far followed by what `chunk_file` makes of the rest are what it makes of the file. `RollsOn` and `RollingIsDirect`: the rolling hash is the direct one, by congruence modulo `Modulus`. `ChunkEnds`, `OneEnd`: there is one place where a chunk can end, and bytes beyond `MaxSize` do not move it. `CutsExist`, `AllCover`: `chunk_file` ends, and its chunks are the file |
| `ExclusionsMeant` | `[]ExcludedAsMeant` | `AsAnswered`: the phase is what `IsExcluded` answered for the file. `EndsKnown`, `SingleMatchMeans`: without a star the loop of `match_single` takes a character of both each turn, and with one it never gets out. `MatchRight`: from each place of a pattern and each place of a path the table of `MatchSegments` answers what is meant from there on, by descent over the places of the pattern (`MeantNext` splits a meaning after one segment, `CellRight` reads one cell) |
| `EveryStepNearer` | `[]GoesOn`, `[](Effort \in Nat)` and `[][Effort' < Effort]_vars` | the safety half of `EveryFileEnds`. `EffortFalls`: a byte counts twice until it is read and once until it is cut, so every step lowers a number that is known when the file begins. `AlwaysGoesOn`: the guard of one of the steps holds unless the file has ended or a wildcard among the characters of a name holds the matcher in its loop |

What `Chunking` and `GlobMatch` compute recursively is written with recursive functions over
intervals of numbers. `Iteration`, `Climb` and `Descend` stand for induction: that such a function
exists, and what holds of all its values, follow from the least counterexample (`LeastNumber`).

`RemoteSync_proofs`: for any number of sessions in either direction and of files, any window, and
any budget of backups, broken connections, failing writes and crashes.

| Theorem | States | Argument |
|---|---|---|
| `DoneMeansStored` | `[]DoneIsStored` | `SyncInv`: types; `Carried(p)`, what a session has sent is stored (or torn) or in its queue as long as the connection holds, the end of a transfer is behind all its objects, and its acknowledgement only goes out when they are stored; and `Readable` |
| `TypesHold` | `[]TypeOK`, with what it says of the wire: never more frames in flight than the window | `Turns(p)`: at most one question or one answer to it is in flight, and neither before the first question or between files; `Known`: snapshots and lists are those of versions the sender has had, and no queue is longer than the window |
| `QuietMeansReadable` | `[]QuietReadable` | `Readable`: while no transfer has failed, a chunk the receiver has in a list is stored or was sent by a transfer that still goes on. The lemmas `Appended`, `Taken`, `Cutoff` and `Signalled` say what a send, a receipt and a break leave of a queue |
| `OneEndGoesOn` | `[]NobodyWaits` | `InStep(p)`: while the connection holds, the places of the two ends and the frames in flight are one of the twelve combinations of `Exchange`. In each of them the frame an end is waiting for is in flight or the other end can send, and a full window has a frame for the receiver (`OneCan`): a window of one frame is enough |
| `WorkRunsOut`, for finitely many files | `[](Work(p) \in Nat)` for each session and `[][NearerTheEnd]_vars` | `Work(p)`: the steps each end has ahead of it, four for each file that is left and one for each frame in flight. `SenderWorks`, `ReceiverWorks`: each step of an end lowers it; `NothingAdded`: nothing else raises it once the session has begun |

`OneEndGoesOn` and `WorkRunsOut` are the safety half of `EverySessionEnds`: `SenderCan` and
`ReceiverCan` are the guards of the steps of the two ends, read off them, since the provers do not
reason about `ENABLED`; fairness of the two ends, which TLC checks, does the rest.

`Retention_proofs`: for any number of snapshots, crashes, backups, prunes and imports side by side,
chunks and numbers to keep.

| Theorem | States | Argument |
|---|---|---|
| `SnapshotsWhole` | `[]WholeSnapshots` | inductive with the shapes of the variables (`Shapes`, `Lists`) |
| `PinnedNeverPruned` | `PinnedKept` | `StillPinned`: what has been pinned since before the start still is, and is never what is being deleted |
| `ListsMatch` | `[]ListMatches` | `RetInv`: `MatchInv`, the property with what is true in the middle of each reload: what a reload has read differs from the disk in what was touched since only; `CommitInv`: what a backup has yet to push is the newest that has been, and is in the list once at most; `LoopInv`: a prune goes from new to old, and what it counted as kept (`Spared`) is unpinned, newer, and on disk or lost to others |
| `NewestSpared` | `[]KeepsNewest` | the same, if the list names no snapshot twice |
| `OnceReleased` | `[]ReleasedOnce`, for finitely many chunks | `RelInv`: the property with the finiteness of what it counts (`Counted`), and `Held(p)`, a prune that is about to release has the file list of its candidate only; either the index still has it, or the release is counted in `again`. `MapThenSumSet` is a recursive function of the library: that it exists, and what it is of a set and one more element, are the lemmas before |

`Incremental_proofs`: for any number of files, backups side by side, versions and seconds, and any
budget of aborts, crashes and unreadable files.

| Theorem | States | Argument |
|---|---|---|
| `TypesHold` | `[]TypeOK` | from `IncInv`: types, `PastTimes` (what is compared with is the time of a snapshot on disk) and `JobShape` (what a backup holds in each phase) |
| `ChangesCaptured` | `[]Captured`: changes made with no backup in flight, in a later second than that of the last snapshot, of files no committed backup failed to read | `CaptureInv`: a quiet change that the index does not have is younger than every snapshot on disk (`Due`), and no backup in flight compares with a later time or has read an older version (`QuietFor`) |
| `RestoresNeverOlder` | `[]NeverOlder`: for files never replaced while open | `OlderInv`: for a file that was not replaced while open, the index has a version at least as new as that of every snapshot on disk and of every backup that has read it |

Each invariant was checked with TLC before it was proved. Assumptions: of `BackupEngine`, contents
are sequences of chunks, `Main` and `None` are different from the files, calls, tasks and transactions
they stand beside, `Limit` counts; of `ObjectStore`, objects are finitely many
and none is called like an error; of `ShardRepair`, there are shards and `Limit` counts; of
`RestoreSwap`, the trees have names of their own; of `Service`, each connection has scripts of
known lines; of `RemoteSync`, the window is positive and `Limit` counts; of `Retention`, the
numbers to keep are numbers; of `Incremental`, time has a last second and `Limit` counts; of
`Chunking` and `FileIntake`, sizes are positive and ordered, files are sequences of numbers, and
patterns and paths are sequences of segments, which are sequences of characters. The
lemmas treat one kind of step each; the theorems put them together.

The only hypotheses of theorems beyond these are that of `OnceReleased`, that there are finitely many
chunks, and that of `WorkRunsOut`, that there are finitely many files. What the code gets wrong is
excluded in the properties themselves, by histories that say exactly when, and not by bounds on what
runs side by side.

Every safety invariant and action property of the passing runs has a theorem. Only model-checked
is all liveness (`EveryCallReturns`, `OldRemoved`, `ConnectionsSettle`, `EveryFileEnds`,
`EverySessionEnds`: temporal reasoning with fairness is out of the prover's reach, as is
`ENABLED`). Of the last two the part that is not about fairness is proved: nothing waits for
ever and no way is without an end (`EveryStepNearer`, `OneEndGoesOn`, `WorkRunsOut`).

## 6. Where the code and its documentation disagree

These have a run that TLC ends with a counterexample.

- **`find_deadlock`**: two backups and a cancel end in a lock cycle between a rollback
  and a file task (`transaction.rs:136` against `mod.rs:399`). The test
  `test_concurrent_backups_do_not_deadlock` runs its two backups one after the other.
- **`find_lost_object`**: a crash during the write of a loose object leaves a partial file, which
  the next start indexes and the next write skips: a backup commits it
  (`index.rs:320`: "all committed data survives a process crash").
- **`find_rollback_newest`**: a rollback, like a restore, writes the newest chunk list of every file
  the index knows (`mod.rs:767`), whatever snapshot it picked
  (`client-cli/src/main.rs:112`: "Rollback to a point in time").

Section 3 names more of what the code does lose, as the exclusions of the properties. These were
met while modelling and are stated by the models, without a run of their own:

- *A wildcard among the characters of a name never stops matching* (`config.rs:478`): once a star
  was seen the loop has no exit, also when the name is used up. The inline test
  `assert!(glob_match("*.log", "server.log"))` (`config.rs:513`) is such a pattern; `HasWildcard`
  in `ExcludedAsMeant` and `EveryFileEnds`.
- *`**` beside other characters matches no name*, since it is replaced before the pattern is
  split.
- *The streaming chunker may cut elsewhere than `chunk_file`* (history `short` of `FileIntake`),
  although "streaming must produce byte-identical chunk boundaries to the whole-buffer path"
  (`chunker.rs:343`). The test there compares the two on data without a boundary by content:
  `chunk_file` cuts it into two chunks and `chunk_reader`, whose buffer never holds more than the
  8192 bytes of one read, into 46, so by this model the test fails on this code.
- *The command line client never authenticates* (`client-cli/src/main.rs:190`): each of its
  requests is refused and the connection closed, while `server.rs:8` speaks of "concurrent
  connections from mod + CLI client". `AnswersTrue` includes this.
- *The default of a restore, `"latest"`* (`server.rs:368`), is looked up as the id of a snapshot
  and refused; `RefuseRestore`.
- *A restore whose second rename fails* answers with an error and leaves what it has set aside
  there or removed by another; when the name was free, there is no world in place until the next
  restore. `MoveNewFails`, and the exclusion in `WorldInPlace`.
- *A backup whose signature cannot be written* (`mod.rs:538`) answers with an error and leaves the
  manifest, so the snapshot is listed, without files, at the next load, although `CHANGELOG.md:27`
  calls backups ACID transactions. `SignManifestFails`; `SnapshotLog` leaves open what an
  error means.
- *A transfer that is sent once more* can destroy the manifest of one that was reported as done, when
  the receiver dies inside `fs::write`; `cut`, and the exclusion in `DoneIsStored`.
- *Two prunes of one snapshot* release its chunks twice; `again`, and the exclusion in `ReleasedOnce`.
- *Two backups side by side* share one transaction and one transient list, so a cancel may miss its
  call and a rollback gives back references of the other call; `shared`, and the exclusions in
  `EarlyCancelNeverCommits` and `NeverUndercounted`.
- *An error of `accept`* ends the accept loop and with it the process; `CrashService`.
- *A cancel over the connection of a running request* is read only after the request's answer.
- *A configured concurrency of 0* (`mod.rs:348`) makes every backup wait for a permit for ever;
  the models assume a positive number.
- *A restore of one file or one chunk* of an unknown path is answered with success and an empty
  file, and a chunk is looked up as `region/...` where the index has `world/region/...`.
- *An export is the store without the index* (`mod.rs:1432`, `main.rs:87`), so a snapshot that an
  import brings back is listed and has no file list; `Import`, and the exclusion in
  `WholeSnapshots`.
- *Snapshots that were pulled or imported from another server* enter the list with their own
  timestamps and replace chunk lists; the `.sig` of another server's key makes their restore
  refuse.

## 7. What is not modelled

- *Power failures and `fsync`*: the code syncs the RocksDB WAL and nothing else; a model of this
  would say little beyond that.
- *Cryptography* (signatures, the cipher of the sync protocol): library computations, taken to
  work.
- *RocksDB and the file system beyond what is stated*: no operation of the index fails.
- *Signing*: the key is made or read once at startup, a signature is written with its manifest and
  checked by a restore. Sequential calls of a library; a refusal is `RefuseRestore`.
- *Startup, logging, YAML loading, CLI rendering, queries* (`status`, `top`, `diff`, `browse`,
  `forecast`): they change no state that others see.
- *The bytes of a line, and partial lines*: `read_line` collects them; a line arrives or does not.
- *Requests other than restores in `Service`*: they are calls of the engine that the other modules
  model, and stand as a line that is answered at once. `Service` composes connections with
  restores as these are the ones whose concurrency a client causes by giving up and asking again.
- *The directories of clone and export, and the objects and packs of an import*: file copying.
  What an import does to the list of snapshots is in `Retention`; that it replaces packs of which
  the running engine has offsets in memory is not modelled.
- *Where a full restore puts its files*: the index has paths such as `world/level.dat`, so the
  tree that takes the place of `world` has its files under `world/world`. `RestoreSwap` knows
  whole trees only, and `Incremental` restores into the sandbox.
- *Snapshots of other servers in `Incremental`*: one that was pulled or imported enters the list
  with its own timestamp and replaces chunk lists; the next incremental backup compares with it.
- *Restore of a file or a chunk*: writes into a sandbox and swaps nothing.

## 8. Plan

Done: the core (`BackupEngine` with its abstraction and proofs), storage (`ObjectStore`,
`ShardRepair`, with proofs), the operations that compete with backups (`Retention`, `RestoreSwap`,
`RemoteSync`, with proofs), what the snapshots are worth (`Incremental`, with proofs), the service with its
clients (`Service`, composed with `RestoreSwap`, with proofs), and the way of a file (`GlobMatch`,
`Chunking`, `FileIntake`, with proofs). Next, in this order:

1. `Incremental`: snapshots received from other servers, files that appear and disappear, and an
   abstract specification (a snapshot is the world at some moment of its backup, as long as
   nothing changes during it).
2. `ObjectStore`: the packs that an import puts over those in use.
