---------------------------- MODULE ShardRepair -----------------------------
(***************************************************************************)
(* One object stored with erasure coding: write_sharded_object,            *)
(* verify_object and the part of load_index that finds it again            *)
(* (sidecar/src/storage/object_store.rs, sidecar/src/erasure.rs).          *)
(*                                                                         *)
(* The object is a directory of data shards and one parity file: a header  *)
(* with the sizes and the hashes of all shards, then the parity shards.    *)
(* Both a write and a repair put every file in place with fs::write, which *)
(* truncates it before it writes, so a crash or a full disk in between     *)
(* leaves a file without its content.  A shard is "bad" whenever its hash  *)
(* differs from the one in the header.                                     *)
(*                                                                         *)
(* Writes hold the store's write lock, and verify the lock of the block    *)
(* index, so one job at a time touches the object.  Corruption strikes     *)
(* between jobs, and spares the header.                                    *)
(***************************************************************************)
EXTENDS Naturals, FiniteSets

CONSTANTS
    DataShards,    \* DATA_SHARDS, 8
    ParityShards,  \* PARITY_SHARDS, 2
    Limit          \* how often shards rot, writes to the disk fail, and the
                   \* process crashes

Kinds == {"rot", "io", "crash"}

ASSUME ShardsAssumption == DataShards \in Nat \ {0} /\ ParityShards \in Nat
ASSUME LimitAssumption == Limit \in [Kinds -> Nat]

Data == 1..DataShards
Parity == (DataShards + 1)..(DataShards + ParityShards)
Shards == Data \cup Parity
ParityFile == DataShards + 1  \* the file written after the data shards

VARIABLES
    good,     \* shards on disk that match their hash
    dir,      \* objects/<hash> is there
    header,   \* packfiles/parity/<hash> has its whole header
    indexed,  \* the object is in object_index
    job,      \* "none", "write" or "repair"
    file,     \* the file the job is at: a data shard, or ParityFile
    open,     \* that file is truncated and not yet written
    used,     \* how often each kind of event has happened
    complete, \* history: the last write or repair to end wrote everything
    torn,     \* history: a repair began that did not end
    early,    \* history: a write failed after the header, which stays without the rest
    rots      \* history: shards that rotted since `complete` was last set

jobVars == <<job, file, open>>
vars == <<good, dir, header, indexed, jobVars, used, complete, torn, early, rots>>

Init ==
    /\ good = {} /\ dir = FALSE /\ header = FALSE
    /\ indexed = FALSE
    /\ job = "none" /\ file = 1 /\ open = FALSE
    /\ used = [k \in Kinds |-> 0]
    /\ complete = FALSE /\ torn = FALSE /\ early = FALSE /\ rots = 0

Spend(kind) == used[kind] < Limit[kind] /\ used' = [used EXCEPT ![kind] = @ + 1]

Begin(j) == job' = j /\ file' = 1 /\ open' = FALSE
End == job' = "none" /\ file' = 1 /\ open' = FALSE

-----------------------------------------------------------------------------
(* Putting the files in place *)

\* write_object of an object that is not in the index.
StartWrite ==
    /\ job = "none"
    /\ ~ indexed
    /\ dir' = TRUE
    /\ Begin("write")
    /\ UNCHANGED <<good, header, indexed, used, complete, torn, early, rots>>

\* fs::write truncates a data shard ...
TruncateShard ==
    /\ job # "none" /\ ~ open
    /\ file \in Data
    /\ good' = good \ {file}
    /\ open' = TRUE
    /\ UNCHANGED <<dir, header, indexed, job, file, used, complete, torn, early, rots>>

\* ... and writes it.
FillShard ==
    /\ open
    /\ file \in Data
    /\ good' = good \cup {file}
    /\ file' = file + 1
    /\ open' = FALSE
    /\ UNCHANGED <<dir, header, indexed, job, used, complete, torn, early, rots>>

\* The parity file is truncated: its header is gone with the parity shards ...
TruncateParity ==
    /\ job # "none" /\ ~ open
    /\ file = ParityFile
    /\ good' = good \ Parity
    /\ header' = FALSE
    /\ early' = FALSE
    /\ open' = TRUE
    /\ UNCHANGED <<dir, indexed, job, file, used, complete, torn, rots>>

\* ... its header is written ...
FillHeader ==
    /\ open
    /\ file = ParityFile /\ ~ header
    /\ header' = TRUE
    /\ UNCHANGED <<good, dir, indexed, jobVars, used, complete, torn, early, rots>>

\* Bug: a repair writes the header back, and not the parity shards.
FillParity_HeaderOnly ==
    /\ open
    /\ file = ParityFile /\ header
    /\ good' = IF job = "write" THEN good \cup Parity ELSE good
    /\ indexed' = TRUE
    /\ complete' = TRUE /\ torn' = FALSE /\ early' = FALSE /\ rots' = 0
    /\ End
    /\ UNCHANGED <<dir, header, used>>

\* ... and the parity shards.  A write enters the object into the index; both
\* kinds of job return.
FillParity ==
    /\ open
    /\ file = ParityFile /\ header
    /\ good' = good \cup Parity
    /\ indexed' = TRUE
    /\ complete' = TRUE /\ torn' = FALSE /\ early' = FALSE /\ rots' = 0
    /\ End
    /\ UNCHANGED <<dir, header, used>>

\* A write to the disk fails: `?` leaves the file as it is.
JobFails ==
    /\ open
    /\ Spend("io")
    /\ early' = (early \/ header)
    /\ End
    /\ UNCHANGED <<good, dir, header, indexed, complete, torn, rots>>

-----------------------------------------------------------------------------
(* verify_object *)

Corrupted == Shards \ good
Recoverable == header /\ Cardinality(Corrupted) <= ParityShards

\* verify --repair finds corrupted shards, no more than there are parity shards,
\* and reconstructs them in memory: then it writes EVERY shard back, the good
\* ones too.
StartRepair ==
    /\ job = "none"
    /\ indexed
    /\ Recoverable /\ Corrupted # {}
    /\ torn' = TRUE
    /\ Begin("repair")
    /\ UNCHANGED <<good, dir, header, indexed, used, complete, early, rots>>

\* It finds none, or too many, or no header, and only reports that.
VerifyReports ==
    /\ job = "none"
    /\ indexed
    /\ Corrupted = {} \/ ~ Recoverable
    /\ UNCHANGED vars

-----------------------------------------------------------------------------
(* The disk and the process *)

Rot(s) ==
    /\ job = "none"
    /\ s \in good
    /\ Spend("rot")
    /\ good' = good \ {s}
    /\ rots' = rots + 1
    /\ UNCHANGED <<dir, header, indexed, jobVars, complete, torn, early>>

\* Bug: a directory is enough to make an object.
Loadable_AnyDir == dir

\* load_index takes a directory for an object when its parity file has a header.
Loadable == dir /\ header

Crash ==
    /\ Spend("crash")
    /\ indexed' = Loadable
    /\ End
    /\ UNCHANGED <<good, dir, header, complete, torn, early, rots>>

-----------------------------------------------------------------------------

Next ==
    \/ StartWrite \/ TruncateShard \/ FillShard \/ TruncateParity \/ FillHeader
    \/ FillParity \/ JobFails \/ StartRepair \/ VerifyReports \/ Crash
    \/ \E s \in Shards : Rot(s)

Spec == Init /\ [][Next]_vars

-----------------------------------------------------------------------------
(* Properties *)

TypeOK ==
    /\ good \subseteq Shards
    /\ dir \in BOOLEAN /\ header \in BOOLEAN /\ indexed \in BOOLEAN
    /\ job \in {"none", "write", "repair"}
    /\ file \in Data \cup {ParityFile}
    /\ open \in BOOLEAN
    /\ used \in [Kinds -> Nat]
    /\ complete \in BOOLEAN /\ torn \in BOOLEAN /\ early \in BOOLEAN
    /\ rots \in Nat

\* An object in the index has all its data, even after a crash in the middle of
\* its write or a write that failed: the parity header, which a restart takes for the
\* sign of an object, is written last.  Only rot and an unfinished repair can take data
\* away.  (And a write that failed between the header and the parity shards: the header
\* stays, and stands there already while the data is written the next time.)
IndexedHasData ==
    indexed /\ rots = 0 /\ ~ torn /\ ~ early => Data \subseteq good

\* Once its write or a repair has ended, the object stays in the index and can be
\* recovered from as many rotten shards as there are parity shards, through failed
\* writes, crashes and restarts; unless one of them met a repair.
ToleratesRot ==
    complete /\ ~ torn /\ rots <= ParityShards => indexed /\ Recoverable

=============================================================================
