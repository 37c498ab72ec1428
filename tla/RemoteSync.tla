----------------------------- MODULE RemoteSync -----------------------------
(***************************************************************************)
(* Snapshots sent from one sidecar to another: sidecar/src/remote_sync.rs  *)
(* and the engine's side of it in sidecar/src/backup/mod.rs.  A session is *)
(* one TCP connection; the dialer pushes a snapshot it has, or pulls one   *)
(* from the listener.  Either way a sender streams to a receiver: manifest,*)
(* then for each file its chunk list and then its objects.                 *)
(*                                                                         *)
(* The sender reads a chunk list when its file's turn comes, while backups *)
(* go on; the receiver stores each frame as it arrives.  A connection can  *)
(* break with frames in flight, the receiver can crash and restart, and a  *)
(* snapshot can be sent again.  Both peers have the same token, and frames *)
(* are authenticated, so none is altered.                                  *)
(*                                                                         *)
(* A file is one chunk: <<f, v>> is the content f had at the v-th backup.  *)
(* Its hash identifies it, so the pair stands for both.                    *)
(***************************************************************************)
EXTENDS Naturals, Sequences, FiniteSets, BlockIndex

CONSTANTS
    Sessions,  \* connections of a behaviour; sending again is another one
    Files,
    Window,    \* bound on the frames in flight to the receiver
    MaxEvents, \* how many events may happen in all
    Limit      \* how often the sender is backed up meanwhile, a connection
               \* breaks, the receiver crashes, and one of its writes fails

Kinds == {"backup", "break", "crash", "fault"}

ASSUME WindowAssumption == Window \in Nat \ {0}
ASSUME LimitAssumption == Limit \in [Kinds -> Nat]

Versions == 1..(Limit["backup"] + 1)  \* of the sender's world; also its snapshots
Chunks == Files \X Versions

VARIABLES
    version,    \* the sender's last snapshot
    sLatest,    \* the sender's file_chunks
    spc, rpc,   \* where the two ends of a session are
    snapshot,   \* the snapshot a session is about
    left,       \* files the sender has still to send
    chunk,      \* the chunk it sends next
    toR, toS,   \* frames in flight to the receiver and to the sender
    broken,     \* the connection is broken
    rLatest,    \* the receiver's file_chunks: a list of at most one chunk
    refs,       \* the receiver's chunk_refs
    objects,    \* the receiver's object store: what it holds whole
    partial,    \* object files cut short that the store does not know yet
    torn,       \* ... and those it took for objects when it was opened again
    manifests,  \* the receiver's <id>.json files
    cut,        \* ... and those that are cut short
    cache,      \* the receiver's snapshot list
    used,       \* how often each kind of event has happened
    sent        \* history: the chunk lists each session sent

senderVars == <<version, sLatest>>
wireVars == <<toR, toS, broken>>
storeVars == <<objects, partial, torn>>
listVars == <<manifests, cut, cache>>
receiverVars == <<rLatest, refs, storeVars, listVars>>
vars == <<senderVars, spc, rpc, snapshot, left, chunk, wireVars, receiverVars, used, sent>>

NoChunk == <<>>

Init ==
    /\ version = 1
    /\ sLatest = [f \in Files |-> <<f, 1>>]
    /\ spc = [p \in Sessions |-> "none"] /\ rpc = [p \in Sessions |-> "none"]
    /\ snapshot = [p \in Sessions |-> 1]
    /\ left = [p \in Sessions |-> {}]
    /\ chunk = [p \in Sessions |-> NoChunk]
    /\ toR = [p \in Sessions |-> <<>>] /\ toS = [p \in Sessions |-> <<>>]
    /\ broken = [p \in Sessions |-> FALSE]
    /\ rLatest = [f \in Files |-> <<>>]
    /\ refs = [c \in Chunks |-> 0]
    /\ objects = {} /\ partial = {} /\ torn = {}
    /\ manifests = {} /\ cut = {}
    /\ cache = <<>>
    /\ used = [k \in Kinds |-> 0]
    /\ sent = [p \in Sessions |-> {}]

Events == used["backup"] + used["break"] + used["crash"] + used["fault"]
Spend(kind) == /\ used[kind] < Limit[kind] /\ Events < MaxEvents
               /\ used' = [used EXCEPT ![kind] = @ + 1]

-----------------------------------------------------------------------------
(* The wire: what is sent on a broken connection is lost *)

CanSend(p) == ~ broken[p] /\ Len(toR[p]) < Window
Hears(queue, p, type) == queue[p] # <<>> /\ Head(queue[p]).type = type
SGoto(p, l) == spc' = [spc EXCEPT ![p] = l]
RGoto(p, l) == rpc' = [rpc EXCEPT ![p] = l]

SendToR(p, frame) == CanSend(p) /\ toR' = [toR EXCEPT ![p] = Append(@, frame)]
Reply(p, frame) == toS' = [toS EXCEPT ![p] = IF broken[p] THEN @ ELSE Append(@, frame)]

\* One end takes a frame and answers it.
SenderAnswers(p, type, frame) ==
    /\ Hears(toS, p, type)
    /\ toS' = [toS EXCEPT ![p] = Tail(@)]
    /\ SendToR(p, frame)
    /\ UNCHANGED broken

ReceiverAnswers(p, type, frame) ==
    /\ Hears(toR, p, type)
    /\ toR' = [toR EXCEPT ![p] = Tail(@)]
    /\ Reply(p, frame)
    /\ UNCHANGED broken

-----------------------------------------------------------------------------
(* Dialing and the handshake *)

PushSnapshot(p, s) ==
    /\ spc[p] = "none" /\ rpc[p] = "none"
    /\ s <= version
    /\ snapshot' = [snapshot EXCEPT ![p] = s]
    /\ SendToR(p, [type |-> "hello"])
    /\ SGoto(p, "dialed") /\ RGoto(p, "accepted")
    /\ UNCHANGED <<senderVars, left, chunk, toS, broken, receiverVars, used, sent>>

PullSnapshot(p, s) ==
    /\ spc[p] = "none" /\ rpc[p] = "none"
    /\ s <= version
    /\ snapshot' = [snapshot EXCEPT ![p] = s]
    /\ Reply(p, [type |-> "hello"])
    /\ SGoto(p, "accepted") /\ RGoto(p, "dialed")
    /\ UNCHANGED <<senderVars, left, chunk, toR, broken, receiverVars, used, sent>>

\* handle_incoming: the first frame must be a hello.
ReceiverAuthenticates(p) ==
    /\ rpc[p] = "accepted"
    /\ ReceiverAnswers(p, "hello", [type |-> "hello_ack"])
    /\ RGoto(p, "begin")
    /\ UNCHANGED <<senderVars, spc, snapshot, left, chunk, receiverVars, used, sent>>

SenderAuthenticates(p) ==
    /\ spc[p] = "accepted"
    /\ SenderAnswers(p, "hello", [type |-> "hello_ack"])
    /\ SGoto(p, "command")
    /\ UNCHANGED <<senderVars, rpc, snapshot, left, chunk, receiverVars, used, sent>>

RequestPull(p) ==
    /\ rpc[p] = "dialed"
    /\ ReceiverAnswers(p, "hello_ack", [type |-> "pull_request"])
    /\ RGoto(p, "begin")
    /\ UNCHANGED <<senderVars, spc, snapshot, left, chunk, receiverVars, used, sent>>

-----------------------------------------------------------------------------
(* The sender: send_snapshot, send_objects *)

\* The manifest and the file list are read when the transfer begins.
BeginPush(p) ==
    /\ \/ spc[p] = "dialed" /\ SenderAnswers(p, "hello_ack", [type |-> "push_begin"])
       \/ spc[p] = "command" /\ SenderAnswers(p, "pull_request", [type |-> "push_begin"])
    /\ left' = [left EXCEPT ![p] = Files]
    /\ SGoto(p, "ready")
    /\ UNCHANGED <<senderVars, rpc, snapshot, chunk, receiverVars, used, sent>>

ExpectReady(p) ==
    /\ spc[p] = "ready"
    /\ Hears(toS, p, "push_ready")
    /\ toS' = [toS EXCEPT ![p] = Tail(@)]
    /\ SGoto(p, "file")
    /\ UNCHANGED <<senderVars, rpc, snapshot, left, chunk, toR, broken, receiverVars, used,
                   sent>>

\* A file's chunk list is the one the index has now.
SendFileChunks(p) ==
    /\ spc[p] = "file" /\ left[p] # {}
    /\ LET f == CHOOSE f \in left[p] : TRUE
       IN  /\ SendToR(p, [type |-> "file_chunks", file |-> f, chunk |-> sLatest[f]])
           /\ left' = [left EXCEPT ![p] = @ \ {f}]
           /\ chunk' = [chunk EXCEPT ![p] = sLatest[f]]
           /\ sent' = [sent EXCEPT ![p] = @ \cup {sLatest[f]}]
    /\ SGoto(p, "object")
    /\ UNCHANGED <<senderVars, rpc, snapshot, toS, broken, receiverVars, used>>

\* Bug: the object is sent under the hash the file has by now.
SendObject_ReadsAgain(p) ==
    /\ spc[p] = "object"
    /\ SendToR(p, [type |-> "object", chunk |-> sLatest[chunk[p][1]]])
    /\ chunk' = [chunk EXCEPT ![p] = NoChunk]
    /\ SGoto(p, "file")
    /\ UNCHANGED <<senderVars, rpc, snapshot, left, toS, broken, receiverVars, used, sent>>

SendObject(p) ==
    /\ spc[p] = "object"
    /\ SendToR(p, [type |-> "object", chunk |-> chunk[p]])
    /\ chunk' = [chunk EXCEPT ![p] = NoChunk]
    /\ SGoto(p, "file")
    /\ UNCHANGED <<senderVars, rpc, snapshot, left, toS, broken, receiverVars, used, sent>>

SendEnd(p) ==
    /\ spc[p] = "file" /\ left[p] = {}
    /\ SendToR(p, [type |-> "push_end"])
    /\ SGoto(p, "ack")
    /\ UNCHANGED <<senderVars, rpc, snapshot, left, chunk, toS, broken, receiverVars, used,
                   sent>>

\* push_snapshot returns Ok.
ExpectAck(p) ==
    /\ spc[p] = "ack"
    /\ Hears(toS, p, "push_ack")
    /\ toS' = [toS EXCEPT ![p] = Tail(@)]
    /\ SGoto(p, "done")
    /\ UNCHANGED <<senderVars, rpc, snapshot, left, chunk, toR, broken, receiverVars, used,
                   sent>>

-----------------------------------------------------------------------------
(* The receiver: receive_snapshot *)

\* Bug: the receiver starts to receive without saying so.
AcceptPush_Silent(p) ==
    /\ rpc[p] = "begin"
    /\ Hears(toR, p, "push_begin")
    /\ toR' = [toR EXCEPT ![p] = Tail(@)]
    /\ RGoto(p, "receive")
    /\ UNCHANGED <<senderVars, spc, snapshot, left, chunk, toS, broken, receiverVars, used,
                   sent>>

AcceptPush(p) ==
    /\ rpc[p] = "begin"
    /\ ReceiverAnswers(p, "push_begin", [type |-> "push_ready"])
    /\ RGoto(p, "receive")
    /\ UNCHANGED <<senderVars, spc, snapshot, left, chunk, receiverVars, used, sent>>

TakeFrame(p, type) ==
    /\ rpc[p] = "receive"
    /\ Hears(toR, p, type)
    /\ toR' = [toR EXCEPT ![p] = Tail(@)]
    /\ UNCHANGED <<senderVars, spc, rpc, snapshot, left, chunk, toS, broken, listVars, used,
                   sent>>

\* Bug: what the file had before is kept.
StoreFileChunks_Appends(p) ==
    /\ TakeFrame(p, "file_chunks")
    /\ LET frame == Head(toR[p])
       IN  rLatest' = [rLatest EXCEPT ![frame.file] = Append(@, frame.chunk)]
    /\ UNCHANGED <<refs, storeVars>>

\* store_file_chunks replaces the receiver's chunk list before any of the objects
\* is there.
StoreFileChunks(p) ==
    /\ TakeFrame(p, "file_chunks")
    /\ LET frame == Head(toR[p])
       IN  rLatest' = InsertFileChunks(rLatest, frame.file, <<frame.chunk>>)
    /\ UNCHANGED <<refs, storeVars>>

\* write_object skips what the store takes for an object.
WriteObject(c) ==
    /\ objects' = objects \cup ({c} \ torn)
    /\ partial' = partial \ {c}
    /\ UNCHANGED torn

\* Bug: a new object is not entered into the index.
StoreObject_NoInsert(p) ==
    /\ TakeFrame(p, "object")
    /\ LET c == Head(toR[p]).chunk
       IN  /\ WriteObject(c)
           /\ refs' = IF ChunkExists(refs, c) THEN IncrementRef(refs, c) ELSE refs
    /\ UNCHANGED rLatest

\* store_object, in the locks of index and store.
StoreObject(p) ==
    /\ TakeFrame(p, "object")
    /\ LET c == Head(toR[p]).chunk
       IN  /\ WriteObject(c)
           /\ refs' = IF ChunkExists(refs, c) THEN IncrementRef(refs, c)
                      ELSE InsertChunk(refs, c)
    /\ UNCHANGED rLatest

\* register_remote_snapshot writes the manifest and appends to the list, even when
\* the snapshot is there already; then the acknowledgement.
Register(p) ==
    /\ rpc[p] = "receive"
    /\ ReceiverAnswers(p, "push_end", [type |-> "push_ack"])
    /\ manifests' = manifests \cup {snapshot[p]}
    /\ cut' = cut \ {snapshot[p]}
    /\ cache' = Append(cache, snapshot[p])
    /\ RGoto(p, "done")
    /\ UNCHANGED <<senderVars, spc, snapshot, left, chunk, rLatest, refs, storeVars, used, sent>>

-----------------------------------------------------------------------------
(* The world around them *)

\* A backup on the sender's side changes some files.
SenderBackup ==
    /\ Spend("backup")
    /\ version' = version + 1
    /\ \E changed \in SUBSET Files \ {{}} :
         sLatest' = [f \in Files |-> IF f \in changed THEN <<f, version'>> ELSE sLatest[f]]
    /\ UNCHANGED <<spc, rpc, snapshot, left, chunk, wireVars, receiverVars, sent>>

Ended == {"none", "done", "failed"}

Prefixes(queue) == {SubSeq(queue, 1, n) : n \in 0..Len(queue)}

\* A connection breaks; some of the frames in flight still arrive.
Break(p) ==
    /\ ~ {spc[p], rpc[p]} \subseteq Ended /\ ~ broken[p]
    /\ Spend("break")
    /\ broken' = [broken EXCEPT ![p] = TRUE]
    /\ \E queue \in Prefixes(toR[p]) : toR' = [toR EXCEPT ![p] = queue]
    /\ \E queue \in Prefixes(toS[p]) : toS' = [toS EXCEPT ![p] = queue]
    /\ UNCHANGED <<senderVars, spc, rpc, snapshot, left, chunk, receiverVars, sent>>

\* Reading or writing returns an error, at once or after the frames that arrived,
\* and `?` passes it on.
SenderFails(p) ==
    /\ spc[p] \notin Ended
    /\ broken[p]
    /\ SGoto(p, "failed")
    /\ left' = [left EXCEPT ![p] = {}]
    /\ chunk' = [chunk EXCEPT ![p] = NoChunk]
    /\ UNCHANGED <<senderVars, rpc, snapshot, wireVars, receiverVars, used, sent>>

ReceiverFails(p) ==
    /\ rpc[p] \notin Ended
    /\ broken[p]
    /\ RGoto(p, "failed")
    /\ UNCHANGED <<senderVars, spc, snapshot, left, chunk, wireVars, receiverVars, used, sent>>

InOrder(S) == CHOOSE q \in [1..Cardinality(S) -> S] :
                  \A i, j \in DOMAIN q : i < j => q[i] < q[j]

\* What the receiver is writing for a session: an object (one at a time, under the lock
\* of the store), or a manifest, which fs::write truncates first.
ObjectInHand(p) ==
    IF rpc[p] = "receive" /\ Hears(toR, p, "object") THEN {Head(toR[p]).chunk} ELSE {}
ManifestInHand(p) ==
    IF rpc[p] = "receive" /\ Hears(toR, p, "push_end") THEN {snapshot[p]} ELSE {}

LoseManifests(lost) == manifests' = manifests \ lost /\ cut' = cut \cup lost

\* The disk or the index returns an error, before the write, in it, or after the object
\* and before it is counted; `?` ends the session.
WriteFails(p) ==
    /\ rpc[p] = "receive" /\ toR[p] # <<>>
    /\ Spend("fault")
    /\ \E half \in {{}, ObjectInHand(p)} :
          \/ partial' = partial \cup (half \ (objects \cup torn)) /\ UNCHANGED objects
          \/ objects' = objects \cup (half \ torn) /\ partial' = partial \ half
    /\ \E lost \in SUBSET ManifestInHand(p) : LoseManifests(lost)
    /\ RGoto(p, "failed")
    /\ broken' = [broken EXCEPT ![p] = TRUE]
    /\ toR' = [toR EXCEPT ![p] = <<>>]
    /\ UNCHANGED <<senderVars, spc, snapshot, left, chunk, toS, rLatest, refs, torn, cache,
                   sent>>

\* The receiver dies and restarts: its sessions break, what it was writing may be cut
\* short, the rest of its disk stays.  The store takes every file it finds for an
\* object; the list of snapshots is made of the manifests that can be read.
ReceiverCrash ==
    /\ Spend("crash")
    /\ broken' = [p \in Sessions |-> broken[p] \/ spc[p] # "none"]
    /\ toR' = [p \in Sessions |-> <<>>]
    /\ rpc' = [p \in Sessions |-> IF rpc[p] \in Ended THEN rpc[p] ELSE "failed"]
    /\ \E half \in {{}} \cup {ObjectInHand(p) : p \in Sessions} :
          \/ torn' = torn \cup partial \cup (half \ objects) /\ UNCHANGED objects
          \/ objects' = objects \cup (half \ torn) /\ torn' = torn \cup (partial \ half)
    /\ partial' = {}
    /\ \E lost \in SUBSET UNION {ManifestInHand(p) : p \in Sessions} : LoseManifests(lost)
    /\ cache' = InOrder(manifests')
    /\ UNCHANGED <<senderVars, spc, snapshot, left, chunk, toS, rLatest, refs, sent>>

-----------------------------------------------------------------------------

SenderStep(p) ==
    \/ SenderAuthenticates(p) \/ BeginPush(p) \/ ExpectReady(p) \/ SendFileChunks(p)
    \/ SendObject(p) \/ SendEnd(p) \/ ExpectAck(p) \/ SenderFails(p)

ReceiverStep(p) ==
    \/ ReceiverAuthenticates(p) \/ RequestPull(p) \/ AcceptPush(p) \/ StoreFileChunks(p)
    \/ StoreObject(p) \/ Register(p) \/ ReceiverFails(p)

Idle == (\A p \in Sessions : spc[p] \in Ended \ {"none"} /\ rpc[p] \in Ended \ {"none"})
        /\ UNCHANGED vars

Next ==
    \/ \E p \in Sessions :
          \/ \E s \in Versions : PushSnapshot(p, s) \/ PullSnapshot(p, s)
          \/ SenderStep(p) \/ ReceiverStep(p) \/ Break(p) \/ WriteFails(p)
    \/ SenderBackup \/ ReceiverCrash \/ Idle

Spec == Init /\ [][Next]_vars

\* The tasks of both processes run, and a connection that is not broken delivers:
\* no call waits for a peer that is alive and silent.
FairSpec ==
    Spec /\ \A p \in Sessions : WF_vars(SenderStep(p)) /\ WF_vars(ReceiverStep(p))

-----------------------------------------------------------------------------
(* Properties *)

TypeOK ==
    /\ version \in Versions
    /\ sLatest \in [Files -> Chunks]
    /\ spc \in [Sessions -> {"none", "dialed", "accepted", "command", "ready", "file",
                             "object", "ack", "done", "failed"}]
    /\ rpc \in [Sessions -> {"none", "dialed", "accepted", "begin", "receive", "done",
                             "failed"}]
    /\ snapshot \in [Sessions -> Versions]
    /\ left \in [Sessions -> SUBSET Files]
    /\ \A p \in Sessions : chunk[p] \in {NoChunk} \cup Chunks
    /\ \A p \in Sessions : Len(toR[p]) <= Window /\ Len(toS[p]) <= 1
    /\ broken \in [Sessions -> BOOLEAN]
    /\ rLatest \in [Files -> {<<>>} \cup {<<c>> : c \in Chunks}]
    /\ refs \in [Chunks -> Nat]
    /\ objects \subseteq Chunks
    /\ partial \subseteq Chunks \ objects /\ torn \subseteq Chunks \ (objects \cup partial)
    /\ manifests \subseteq 1..version /\ cut \subseteq (1..version) \ manifests
    /\ cache \in Seq(1..version)
    /\ used \in [Kinds -> Nat]

\* A transfer the sender reports as done is at the receiver for good: the snapshot's
\* manifest, and the object of every chunk list that was sent; whatever breaks, fails or
\* crashes, and whatever is backed up or sent at the same time.  Left out is what a write
\* that was interrupted left in part: the manifest, when it was then sent once more, and
\* an object file that the store has since been opened with and takes for the object,
\* which the sender is told is stored although it cannot be read.
DoneIsStored ==
    \A p \in Sessions : spc[p] = "done" =>
        snapshot[p] \in manifests \cup cut /\ sent[p] \subseteq objects \cup torn

\* As long as every transfer completes, the receiver can read every file when none
\* is under way, and its chunks are counted.  (A transfer that breaks leaves chunk
\* lists without their objects.)
QuietReadable ==
    (\A p \in Sessions : rpc[p] \in {"none", "done"}) =>
        \A f \in Files : \A c \in {rLatest[f][i] : i \in DOMAIN rLatest[f]} :
            c \in objects /\ refs[c] > 0

\* Both ends of every session come to an end: neither waits for the other's frame
\* while the other waits, whatever breaks.
EverySessionEnds ==
    \A p \in Sessions : spc[p] # "none" ~> spc[p] \in Ended /\ rpc[p] \in Ended

=============================================================================
