---------------------------- MODULE ObjectStore -----------------------------
(***************************************************************************)
(* The content-addressed object store (sidecar/src/storage/object_store.rs)*)
(* without erasure coding: loose files, sealed packfiles, and the in-memory*)
(* index that is rebuilt from the disk when the process starts.            *)
(*                                                                         *)
(* One writer works at a time (the store sits behind a RwLock), so pc is   *)
(* the position inside write_object.  The steps are cut where a crash of   *)
(* the process leaves something different on disk: loose files and .idx    *)
(* files are written without a temporary name, and an .idx line reaches    *)
(* the file in pieces (writeln! on an unbuffered File).                    *)
(***************************************************************************)
EXTENDS Naturals, Sequences, FiniteSets

CONSTANTS
    Objects,    \* hashes, standing for the data they are the hash of
    MaxPacks,   \* bound on the packfiles of a behaviour
    Threshold,  \* loose objects that make a packfile (max_packfile_size_mb)
    Limit       \* how often the process crashes, and a write to the disk fails

Kinds == {"crash", "io"}

ASSUME ObjectsAssumption ==
    IsFiniteSet(Objects) /\ "short" \notin Objects /\ "error" \notin Objects
ASSUME PacksAssumption == MaxPacks \in Nat
ASSUME ThresholdAssumption == Threshold \in Nat \ {0}
ASSUME LimitAssumption == Limit \in [Kinds -> Nat]

Packs == 1..MaxPacks

VARIABLES
    loose,     \* objects/<hash>: "none", "partial" or "whole"
    pack,      \* h_<p>.pack: the data in it, a list of [obj, whole]
    idx,       \* h_<p>.idx: its lines, a list of [obj, off, cut]
    idxFiles,  \* the packs that have an .idx file
    index,     \* object_index: an object's location
    nextPack,  \* next_pack_id
    pc, cur,   \* where write_object is, and with which object
    batch,     \* objects being sealed, in the order of the index's iteration
    used,      \* how often each kind of event has happened
    wrote,     \* history: objects that write_object wrote and returned Ok for
    okd        \* history: objects write_object returned Ok for

diskVars == <<loose, pack, idx, idxFiles>>
memVars == <<index, nextPack>>
vars == <<diskVars, memVars, pc, cur, batch, used, wrote, okd>>

Missing == [kind |-> "missing"]
Individual == [kind |-> "loose"]
Packed(p, line) == [kind |-> "pack", pack |-> p, off |-> line.off, cut |-> line.cut]

Locations == {Missing, Individual}
             \cup [kind : {"pack"}, pack : Packs, off : Nat \ {0}, cut : BOOLEAN]

Init ==
    /\ loose = [o \in Objects |-> "none"]
    /\ pack = [p \in Packs |-> <<>>]
    /\ idx = [p \in Packs |-> <<>>]
    /\ idxFiles = {}
    /\ index = [o \in Objects |-> Missing]
    /\ nextPack = 1
    /\ pc = "idle"
    /\ cur \in Objects
    /\ batch = <<>>
    /\ used = [k \in Kinds |-> 0]
    /\ wrote = {} /\ okd = {}

Spend(kind) == used[kind] < Limit[kind] /\ used' = [used EXCEPT ![kind] = @ + 1]

\* read_object: what a reader gets, which is never checked against the hash.  A
\* line whose size was cut off is parsed as size 0.
Read(o) ==
    LET at == index[o] IN
    CASE at.kind = "missing" -> "error"
      [] at.kind = "loose" -> CASE loose[o] = "whole" -> o
                                [] loose[o] = "partial" -> "short"
                                [] OTHER -> "error"
      [] at.kind = "pack" ->
            IF at.cut THEN "short"
            ELSE IF at.off \notin DOMAIN pack[at.pack] THEN "error"
            ELSE IF pack[at.pack][at.off].whole THEN pack[at.pack][at.off].obj
            ELSE "short"

\* verify(): an object is healthy when what is read has the hash it is stored under.
Healthy(o) == Read(o) = o

-----------------------------------------------------------------------------
(* write_object *)

Return == pc' = "idle" /\ okd' = okd \cup {cur'}

\* An object the index knows is not written again.
SkipKnown(o) ==
    /\ pc = "idle"
    /\ index[o] # Missing
    /\ cur' = o
    /\ Return
    /\ UNCHANGED <<diskVars, memVars, batch, used, wrote>>

\* write_individual_object: the file is created (or truncated) first ...
CreateLoose(o) ==
    /\ pc = "idle"
    /\ index[o] = Missing
    /\ cur' = o
    /\ loose' = [loose EXCEPT ![o] = "partial"]
    /\ pc' = "data"
    /\ UNCHANGED <<pack, idx, idxFiles, memVars, batch, used, wrote, okd>>

\* ... then the data is written and the object enters the index.
WriteLoose ==
    /\ pc = "data"
    /\ loose' = [loose EXCEPT ![cur] = "whole"]
    /\ index' = [index EXCEPT ![cur] = Individual]
    /\ pc' = "maybeSeal"
    /\ UNCHANGED <<pack, idx, idxFiles, nextPack, cur, batch, used, wrote, okd>>

\* Writing fails: `?` returns the error and the partial file stays.
WriteLooseFails ==
    /\ pc = "data"
    /\ Spend("io")
    /\ pc' = "idle"
    /\ UNCHANGED <<diskVars, memVars, cur, batch, wrote, okd>>

LooseObjects == {o \in Objects : index[o] = Individual}

\* maybe_seal_packfiles: below the threshold there is nothing more to do.
NoSeal ==
    /\ pc = "maybeSeal"
    /\ Cardinality(LooseObjects) < Threshold
    /\ wrote' = wrote \cup {cur}
    /\ UNCHANGED cur
    /\ Return
    /\ UNCHANGED <<diskVars, memVars, batch, used>>

\* seal_packfile up to the flush of the pack's data and footer: the loose
\* objects are copied, in the order in which the hash map yields them.
SealPack ==
    /\ pc = "maybeSeal"
    /\ Cardinality(LooseObjects) >= Threshold
    /\ nextPack \in Packs
    /\ \E order \in [1..Cardinality(LooseObjects) -> LooseObjects] :
         /\ \A o \in LooseObjects : \E i \in DOMAIN order : order[i] = o
         /\ batch' = order
         /\ pack' = [pack EXCEPT ![nextPack] =
                       [i \in DOMAIN order |->
                          [obj |-> order[i], whole |-> loose[order[i]] = "whole"]]]
    /\ nextPack' = nextPack + 1
    /\ pc' = "createIdx"
    /\ UNCHANGED <<loose, idx, idxFiles, index, cur, used, wrote, okd>>

Sealing == nextPack - 1

CreateIdx ==
    /\ pc = "createIdx"
    /\ idxFiles' = idxFiles \cup {Sealing}
    /\ idx' = [idx EXCEPT ![Sealing] = <<>>]
    /\ pc' = "line"
    /\ UNCHANGED <<loose, pack, memVars, cur, batch, used, wrote, okd>>

\* Bug: the data offset of the first entry is taken for its position in the file.
WriteIdxLine_ZeroOffset ==
    /\ pc = "line"
    /\ Len(idx[Sealing]) < Len(batch)
    /\ LET i == Len(idx[Sealing])
       IN  idx' = [idx EXCEPT ![Sealing] =
                     Append(@, [obj |-> batch[i + 1], off |-> i, cut |-> TRUE])]
    /\ pc' = "size"
    /\ UNCHANGED <<loose, pack, idxFiles, memVars, cur, batch, used, wrote, okd>>

\* A line up to the blank before its size ...
WriteIdxLine ==
    /\ pc = "line"
    /\ Len(idx[Sealing]) < Len(batch)
    /\ LET i == Len(idx[Sealing]) + 1
       IN  idx' = [idx EXCEPT ![Sealing] =
                     Append(@, [obj |-> batch[i], off |-> i, cut |-> TRUE])]
    /\ pc' = "size"
    /\ UNCHANGED <<loose, pack, idxFiles, memVars, cur, batch, used, wrote, okd>>

\* ... and the size.
WriteIdxSize ==
    /\ pc = "size"
    /\ idx' = [idx EXCEPT ![Sealing][Len(idx[Sealing])].cut = FALSE]
    /\ pc' = "line"
    /\ UNCHANGED <<loose, pack, idxFiles, memVars, cur, batch, used, wrote, okd>>

\* Any write of the sealing fails: write_object returns the error, the index and
\* the loose files are as before.
SealFails ==
    /\ pc \in {"createIdx", "line", "size"}
    /\ Spend("io")
    /\ pc' = "idle"
    /\ UNCHANGED <<diskVars, memVars, cur, batch, wrote, okd>>

\* Bug: the loose files go although the index still points to them.
SwitchIndex_Forgets ==
    /\ pc = "line"
    /\ Len(idx[Sealing]) = Len(batch)
    /\ pc' = "remove"
    /\ UNCHANGED <<diskVars, memVars, cur, batch, used, wrote, okd>>

\* The .idx is complete: the index switches to the pack.
SwitchIndex ==
    /\ pc = "line"
    /\ Len(idx[Sealing]) = Len(batch)
    /\ index' = [o \in Objects |->
                   IF \E i \in DOMAIN batch : batch[i] = o
                   THEN Packed(Sealing, CHOOSE l \in {idx[Sealing][i] : i \in DOMAIN batch} :
                                            l.obj = o)
                   ELSE index[o]]
    /\ pc' = "remove"
    /\ UNCHANGED <<diskVars, nextPack, cur, batch, used, wrote, okd>>

\* Bug: the removal starts as soon as the pack's data is written.
RemoveLoose_BeforeIdx ==
    /\ pc \in {"createIdx", "remove"}
    /\ \E i \in DOMAIN batch :
         /\ loose[batch[i]] # "none"
         /\ \A j \in 1..(i - 1) : loose[batch[j]] = "none"
         /\ loose' = [loose EXCEPT ![batch[i]] = "none"]
    /\ UNCHANGED <<pack, idx, idxFiles, memVars, pc, cur, batch, used, wrote, okd>>

\* The loose files are removed one after the other.
RemoveLoose ==
    /\ pc = "remove"
    /\ \E i \in DOMAIN batch :
         /\ loose[batch[i]] # "none"
         /\ \A j \in 1..(i - 1) : loose[batch[j]] = "none"
         /\ loose' = [loose EXCEPT ![batch[i]] = "none"]
    /\ UNCHANGED <<pack, idx, idxFiles, memVars, pc, cur, batch, used, wrote, okd>>

FinishSeal ==
    /\ pc = "remove"
    /\ \A i \in DOMAIN batch : loose[batch[i]] = "none"
    /\ wrote' = wrote \cup {cur}
    /\ UNCHANGED cur
    /\ Return
    /\ UNCHANGED <<diskVars, memVars, batch, used>>

-----------------------------------------------------------------------------
(* Crash and load_index *)

\* The line that stays in the index for an object, when the .idx files are read
\* in the given order: a later file overrides an earlier one.
LastLine(order, o) ==
    LET listing == {i \in DOMAIN order :
                      order[i] \in idxFiles /\ \E l \in DOMAIN idx[order[i]] :
                                                 idx[order[i]][l].obj = o}
    IN  IF listing = {} THEN Missing
        ELSE LET p == order[CHOOSE i \in listing : \A j \in listing : j <= i]
                 l == CHOOSE l \in DOMAIN idx[p] : idx[p][l].obj = o
             IN  Packed(p, idx[p][l])

Orders == {order \in [Packs -> Packs] :
             \A p \in Packs : \E i \in Packs : order[i] = p}

\* load_index: loose files, then the lines of the .idx files, which override
\* them; directories are read in no particular order.
LoadIndex ==
    \E order \in Orders :
        index' = [o \in Objects |->
                    LET packed == LastLine(order, o) IN
                    IF packed # Missing THEN packed
                    ELSE IF loose[o] # "none" THEN Individual
                    ELSE Missing]

\* Bug: pack ids start again at 1.
Crash_ReusesIds ==
    /\ Spend("crash")
    /\ LoadIndex
    /\ nextPack' = 1
    /\ pc' = "idle"
    /\ batch' = <<>>
    /\ UNCHANGED <<diskVars, cur, wrote, okd>>

Crash ==
    /\ Spend("crash")
    /\ LoadIndex
    /\ nextPack' = 1 + (IF idxFiles = {} THEN 0
                        ELSE CHOOSE p \in idxFiles : \A q \in idxFiles : q <= p)
    /\ pc' = "idle"
    /\ batch' = <<>>
    /\ UNCHANGED <<diskVars, cur, wrote, okd>>

-----------------------------------------------------------------------------

Next ==
    \/ \E o \in Objects : SkipKnown(o) \/ CreateLoose(o)
    \/ WriteLoose \/ WriteLooseFails \/ NoSeal \/ SealPack \/ CreateIdx
    \/ WriteIdxLine \/ WriteIdxSize \/ SealFails \/ SwitchIndex \/ RemoveLoose
    \/ FinishSeal \/ Crash

Spec == Init /\ [][Next]_vars

-----------------------------------------------------------------------------
(* Properties *)

TypeOK ==
    /\ loose \in [Objects -> {"none", "partial", "whole"}]
    /\ pack \in [Packs -> Seq([obj : Objects, whole : BOOLEAN])]
    /\ idx \in [Packs -> Seq([obj : Objects, off : Nat \ {0}, cut : BOOLEAN])]
    /\ idxFiles \subseteq Packs
    /\ index \in [Objects -> Locations]
    /\ nextPack \in 1..(MaxPacks + 1)
    /\ pc \in {"idle", "data", "maybeSeal", "createIdx", "line", "size", "remove"}
    /\ cur \in Objects
    /\ batch \in Seq(Objects)
    /\ used \in [Kinds -> Nat]
    /\ wrote \subseteq Objects /\ okd \subseteq Objects

\* Reading an object may fail or come short after a crash, but never yields the
\* data of another object: an index entry never points into a pack that was
\* overwritten under it (pack ids are handed out anew at every start).
NeverForeign == \A o \in Objects : Read(o) \in {o, "short", "error"}

\* A line naming the object lost its size when its sealing was cut short.
HasCutLine(o) ==
    \E p \in idxFiles : \E i \in DOMAIN idx[p] : idx[p][i].obj = o /\ idx[p][i].cut

\* An object that was written and acknowledged is read back whole for ever,
\* through sealing, failed sealing, crash and reload; the one thing that can hide
\* it is an .idx line that was cut before its size.
WrittenReadable == \A o \in wrote : Healthy(o) \/ HasCutLine(o)

\* While the process lives, an object that can be read whole never becomes
\* unreadable, not even between two steps of a sealing.
ReadableStays ==
    [][\A o \in Objects : Healthy(o) /\ used'["crash"] = used["crash"] => Healthy(o)']_vars

\* index.rs says of a commit that "all committed data survives a process crash":
\* what write_object returned Ok for, a backup goes on to commit, and it can be
\* read back whenever no write is under way.
AcknowledgedReadable == pc = "idle" => \A o \in okd : Healthy(o)

=============================================================================
