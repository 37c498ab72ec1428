-------------------------- MODULE RemoteSync_proofs -------------------------
(***************************************************************************)
(* Theorems about RemoteSync: any number of sessions and files, any window,*)
(* and any number of backups, broken connections and crashes.              *)
(***************************************************************************)
EXTENDS RemoteSync, FiniteSetTheorems, WellFoundedInduction, TLAPS

-----------------------------------------------------------------------------
(* The inductive invariant *)

Signals == {"hello", "hello_ack", "pull_request", "push_begin", "push_ready", "push_end",
            "push_ack"}

Frames == [type : Signals] \cup [type : {"object"}, chunk : Chunks]
          \cup [type : {"file_chunks"}, file : Files, chunk : Chunks]

SyncType ==
    /\ used \in [Kinds -> Nat] /\ used["backup"] <= Limit["backup"]
    /\ version = used["backup"] + 1
    /\ sLatest \in [Files -> Chunks]
    /\ spc \in [Sessions -> {"none", "dialed", "accepted", "command", "ready", "file",
                             "object", "ack", "done", "failed"}]
    /\ rpc \in [Sessions -> {"none", "dialed", "accepted", "begin", "receive", "done",
                             "failed"}]
    /\ snapshot \in [Sessions -> Versions]
    /\ left \in [Sessions -> SUBSET Files]
    /\ chunk \in [Sessions -> Chunks \cup {NoChunk}]
    /\ toR \in [Sessions -> Seq(Frames)] /\ toS \in [Sessions -> Seq(Frames)]
    /\ broken \in [Sessions -> BOOLEAN]
    /\ rLatest \in [Files -> Seq(Chunks)]
    /\ refs \in [Chunks -> Nat]
    /\ sent \in [Sessions -> SUBSET Chunks]

Has(queue, type) == \E i \in DOMAIN queue : queue[i].type = type

ObjectsIn(queue) == {queue[i].chunk : i \in {j \in DOMAIN queue : queue[j].type = "object"}}

\* What the store takes for objects, and the manifests that are on disk.
Kept == objects \cup torn
Filed == manifests \cup cut

Stored(p) == snapshot[p] \in Filed /\ sent[p] \subseteq Kept

\* What a session has sent is stored or on its way, as long as the connection holds;
\* whether it holds or not, the end of a transfer comes after all the objects and its
\* acknowledgement when they are stored.
Carried(p) ==
    /\ spc[p] = "none" => sent[p] = {}
    /\ spc[p] = "object" => chunk[p] \in Chunks
    /\ \A i \in DOMAIN toR[p] : toR[p][i].type = "file_chunks" => toR[p][i].chunk \in sent[p]
    /\ ~ broken[p] /\ spc[p] \notin {"ack", "done", "failed"} =>
         sent[p] \subseteq Kept \cup ObjectsIn(toR[p])
                           \cup (IF spc[p] = "object" THEN {chunk[p]} ELSE {})
    /\ Has(toR[p], "push_end") =>
         /\ spc[p] \in {"ack", "done", "failed"}
         /\ sent[p] \subseteq Kept \cup ObjectsIn(toR[p])
         /\ \A i \in DOMAIN toR[p] : toR[p][i].type = "push_end" => i = Len(toR[p])
    /\ Has(toS[p], "push_ack") => spc[p] \in {"ack", "done", "failed"} /\ Stored(p)
    /\ spc[p] = "done" => Stored(p)

\* A chunk the receiver has in a list is stored whole, or a transfer that names it goes on,
\* and what is stored is counted; or a transfer has failed.
Readable ==
    (\A p \in Sessions : rpc[p] # "failed") =>
      /\ torn = {} /\ partial = {} /\ objects \subseteq {c \in Chunks : refs[c] > 0}
      /\ \A f \in Files : \A i \in DOMAIN rLatest[f] :
            \/ rLatest[f][i] \in objects
            \/ \E p \in Sessions : rpc[p] = "receive" /\ rLatest[f][i] \in sent[p]

SyncInv == SyncType /\ (\A p \in Sessions : Carried(p)) /\ Readable

-----------------------------------------------------------------------------
(* Queues *)

LEMMA Appended ==
  ASSUME NEW q \in Seq(Frames), NEW x \in Frames
  PROVE  /\ Append(q, x) \in Seq(Frames)
         /\ ObjectsIn(q) \subseteq ObjectsIn(Append(q, x))
         /\ x.type = "object" => x.chunk \in ObjectsIn(Append(q, x))
         /\ \A t : Has(Append(q, x), t) <=> Has(q, t) \/ x.type = t
         /\ \A i \in DOMAIN Append(q, x) :
               \/ i \in DOMAIN q /\ Append(q, x)[i] = q[i]
               \/ i = Len(Append(q, x)) /\ Append(q, x)[i] = x
  <1>1. /\ Append(q, x) \in Seq(Frames) /\ Len(Append(q, x)) = Len(q) + 1 /\ Len(q) \in Nat
        /\ DOMAIN q = 1..Len(q) /\ DOMAIN Append(q, x) = 1..Len(q) + 1
        /\ \A i \in DOMAIN q : Append(q, x)[i] = q[i]
        /\ Append(q, x)[Len(q) + 1] = x
    OBVIOUS
  <1>2. ASSUME NEW c \in ObjectsIn(q)  PROVE  c \in ObjectsIn(Append(q, x))
    <2>1. PICK i \in DOMAIN q : q[i].type = "object" /\ c = q[i].chunk
      BY DEF ObjectsIn
    <2> QED
      BY <2>1, <1>1 DEF ObjectsIn
  <1>3. x.type = "object" => x.chunk \in ObjectsIn(Append(q, x))
    BY <1>1 DEF ObjectsIn
  <1>4. \A i \in DOMAIN Append(q, x) :
               \/ i \in DOMAIN q /\ Append(q, x)[i] = q[i]
               \/ i = Len(Append(q, x)) /\ Append(q, x)[i] = x
    BY <1>1
  <1>5. ASSUME NEW t  PROVE  Has(Append(q, x), t) <=> Has(q, t) \/ x.type = t
    BY <1>1, <1>4 DEF Has
  <1> QED
    BY <1>1, <1>2, <1>3, <1>4, <1>5

LEMMA Taken ==
  ASSUME NEW q \in Seq(Frames), q # << >>
  PROVE  /\ Tail(q) \in Seq(Frames) /\ Head(q) \in Frames
         /\ 1 \in DOMAIN q /\ Head(q) = q[1]
         /\ \A c \in ObjectsIn(q) :
               c \in ObjectsIn(Tail(q)) \/ (Head(q).type = "object" /\ c = Head(q).chunk)
         /\ \A t : Has(Tail(q), t) => Has(q, t)
         /\ Len(Tail(q)) = Len(q) - 1 /\ Len(q) \in Nat
         /\ \A i \in DOMAIN Tail(q) : i + 1 \in DOMAIN q /\ Tail(q)[i] = q[i + 1]
  <1>1. /\ Tail(q) \in Seq(Frames) /\ Head(q) \in Frames /\ Head(q) = q[1] /\ Len(q) \in Nat
        /\ Len(q) >= 1 /\ Len(Tail(q)) = Len(q) - 1
        /\ DOMAIN q = 1..Len(q) /\ DOMAIN Tail(q) = 1..Len(q) - 1
        /\ \A i \in DOMAIN Tail(q) : Tail(q)[i] = q[i + 1]
    OBVIOUS
  <1>2. \A i \in DOMAIN Tail(q) : i + 1 \in DOMAIN q /\ Tail(q)[i] = q[i + 1]
    BY <1>1
  <1>3. ASSUME NEW c \in ObjectsIn(q)
        PROVE  c \in ObjectsIn(Tail(q)) \/ (Head(q).type = "object" /\ c = Head(q).chunk)
    <2>1. PICK i \in DOMAIN q : q[i].type = "object" /\ c = q[i].chunk
      BY DEF ObjectsIn
    <2>2. CASE i = 1
      BY <2>1, <2>2, <1>1
    <2>3. CASE i # 1
      <3>1. i - 1 \in DOMAIN Tail(q) /\ Tail(q)[i - 1] = q[i]
        BY <2>3, <1>1
      <3> QED
        BY <3>1, <2>1 DEF ObjectsIn
    <2> QED
      BY <2>2, <2>3
  <1>4. ASSUME NEW t, Has(Tail(q), t)  PROVE  Has(q, t)
    BY <1>2, <1>4 DEF Has
  <1> QED
    BY <1>1, <1>2, <1>3, <1>4

\* The end of a transfer is the last frame of a queue, or there is none.
LEMMA Cutoff ==
  ASSUME NEW q \in Seq(Frames), NEW r \in Prefixes(q)
  PROVE  /\ r \in Seq(Frames)
         /\ \A t : Has(r, t) => Has(q, t)
         /\ \A i \in DOMAIN r : i \in DOMAIN q /\ r[i] = q[i]
         /\ Len(q) \in DOMAIN r => Len(r) = Len(q) /\ ObjectsIn(q) \subseteq ObjectsIn(r)
  <1>1. PICK n \in 0..Len(q) : r = SubSeq(q, 1, n)
    BY DEF Prefixes
  <1>2. /\ r \in Seq(Frames) /\ Len(r) = n /\ DOMAIN r = 1..n /\ DOMAIN q = 1..Len(q)
        /\ Len(q) \in Nat
        /\ \A i \in 1..n : r[i] = q[i]
    BY <1>1
  <1>3. ASSUME Len(q) \in DOMAIN r
        PROVE  Len(r) = Len(q) /\ ObjectsIn(q) \subseteq ObjectsIn(r)
    <2>1. n = Len(q)
      <3>1. Len(q) \in 1..n
        BY <1>2, <1>3
      <3>2. n \in 0..Len(q) /\ Len(q) \in Nat
        BY <1>2
      <3> QED
        BY <3>1, <3>2
    <2>2. Len(r) = Len(q) /\ DOMAIN r = DOMAIN q /\ \A i \in DOMAIN q : r[i] = q[i]
      BY <2>1, <1>2
    <2> QED
      BY <2>2 DEF ObjectsIn
  <1>4. \A i \in DOMAIN r : i \in DOMAIN q /\ r[i] = q[i]
    BY <1>2
  <1>5. ASSUME NEW t, Has(r, t)  PROVE  Has(q, t)
    BY <1>4, <1>5 DEF Has
  <1> QED
    BY <1>2, <1>3, <1>4, <1>5

-----------------------------------------------------------------------------
(* The wire *)

\* What a send does to the queues of the session, and to no other.
LEMMA Sending ==
  ASSUME SyncType, NEW p \in Sessions, NEW x \in Frames, SendToR(p, x)
  PROVE  /\ ~ broken[p]
         /\ toR' \in [Sessions -> Seq(Frames)] /\ toR'[p] = Append(toR[p], x)
         /\ \A q \in Sessions \ {p} : toR'[q] = toR[q]
  <1>1. Append(toR[p], x) \in Seq(Frames)
    BY Appended DEF SyncType
  <1> QED
    BY <1>1 DEF SendToR, CanSend, SyncType

\* What taking a frame and answering it does at the sender ...
LEMMA SenderAnswering ==
  ASSUME SyncType, NEW p \in Sessions, NEW type, NEW x \in Frames, SenderAnswers(p, type, x)
  PROVE  /\ ~ broken[p] /\ broken' = broken
         /\ toR' \in [Sessions -> Seq(Frames)] /\ toR'[p] = Append(toR[p], x)
         /\ toS' \in [Sessions -> Seq(Frames)] /\ toS'[p] = Tail(toS[p]) /\ toS[p] # << >>
         /\ \A q \in Sessions \ {p} : toR'[q] = toR[q] /\ toS'[q] = toS[q]
  <1>1. toS[p] # << >> /\ toS' = [toS EXCEPT ![p] = Tail(@)] /\ broken' = broken
        /\ SendToR(p, x)
    BY DEF SenderAnswers, Hears
  <1>2. Tail(toS[p]) \in Seq(Frames)
    BY <1>1, Taken DEF SyncType
  <1>3. /\ ~ broken[p]
        /\ toR' \in [Sessions -> Seq(Frames)] /\ toR'[p] = Append(toR[p], x)
        /\ \A q \in Sessions \ {p} : toR'[q] = toR[q]
    BY <1>1, Sending
  <1> QED
    BY <1>1, <1>2, <1>3 DEF SyncType

\* ... and at the receiver.
LEMMA ReceiverAnswering ==
  ASSUME SyncType, NEW p \in Sessions, NEW type, NEW x \in Frames, ReceiverAnswers(p, type, x)
  PROVE  /\ broken' = broken /\ toR[p] # << >> /\ Head(toR[p]).type = type
         /\ toR' \in [Sessions -> Seq(Frames)] /\ toR'[p] = Tail(toR[p])
         /\ toS' \in [Sessions -> Seq(Frames)]
         /\ toS'[p] = toS[p] \/ toS'[p] = Append(toS[p], x)
         /\ \A q \in Sessions \ {p} : toR'[q] = toR[q] /\ toS'[q] = toS[q]
  <1>1. Append(toS[p], x) \in Seq(Frames)
    BY Appended DEF SyncType
  <1>2. toR[p] # << >> => Tail(toR[p]) \in Seq(Frames)
    BY Taken DEF SyncType
  <1> QED
    BY <1>1, <1>2 DEF ReceiverAnswers, Hears, Reply, SyncType

-----------------------------------------------------------------------------

LEMMA InitSync == Init => SyncInv
  <1> SUFFICES ASSUME Init  PROVE  SyncInv
    OBVIOUS
  <1>1. Limit["backup"] \in Nat /\ 1 \in Versions
    BY LimitAssumption DEF Kinds, Versions
  <1>2. SyncType
    <2>1. << >> \in Seq(Frames) /\ << >> \in Seq(Chunks)
      OBVIOUS
    <2>2. sLatest \in [Files -> Chunks]
      BY <1>1 DEF Init, Chunks
    <2> QED
      BY <1>1, <2>1, <2>2 DEF Init, SyncType, Kinds, NoChunk
  <1>3. ASSUME NEW p \in Sessions  PROVE  Carried(p)
    BY <1>3 DEF Init, Carried, Has
  <1>4. Readable
    BY DEF Init, Readable
  <1> QED
    BY <1>2, <1>3, <1>4 DEF SyncInv

\* The signals of the protocol are frames.
LEMMA SignalFrames == \A t \in Signals : [type |-> t] \in Frames
  BY DEF Frames

\* A session that nobody touches stays as it is, since nothing that is stored goes.
LEMMA OthersCarried ==
  ASSUME SyncInv, NEW q \in Sessions,
         spc'[q] = spc[q], chunk'[q] = chunk[q], snapshot'[q] = snapshot[q],
         toR'[q] = toR[q], toS'[q] = toS[q], broken'[q] = broken[q], sent'[q] = sent[q],
         Kept \subseteq Kept', Filed \subseteq Filed'
  PROVE  Carried(q)'
  BY DEF SyncInv, Carried, Stored

-----------------------------------------------------------------------------
(* What a session has carried, through a step of it *)

\* A signal at the end of a queue is no object and no chunk list.
LEMMA Signalled ==
  ASSUME NEW q \in Seq(Frames), NEW t \in Signals, NEW r,
         r = q \/ r = Append(q, [type |-> t])
  PROVE  /\ ObjectsIn(q) \subseteq ObjectsIn(r)
         /\ \A u : Has(r, u) => Has(q, u) \/ u = t
         /\ \A i \in DOMAIN r : r[i].type = "file_chunks" => i \in DOMAIN q /\ r[i] = q[i]
  <1> DEFINE x == [type |-> t]
  <1>1. x \in Frames /\ x.type = t /\ t # "file_chunks"
    BY SignalFrames DEF Signals
  <1>2. CASE r = q
    BY <1>2
  <1>3. CASE r = Append(q, x)
    <2>1. \A i \in DOMAIN r : (i \in DOMAIN q /\ r[i] = q[i]) \/ r[i] = x
      BY <1>1, <1>3, Appended
    <2>2. ObjectsIn(q) \subseteq ObjectsIn(r) /\ \A u : Has(r, u) <=> Has(q, u) \/ x.type = u
      BY <1>1, <1>3, Appended
    <2> QED
      BY <1>1, <2>1, <2>2
  <1> QED
    BY <1>2, <1>3

\* Before the files, only signals are exchanged.
LEMMA EarlyStep ==
  ASSUME SyncInv, NEW p \in Sessions,
         spc[p] \notin {"object", "ack", "done", "failed"},
         spc'[p] \notin {"none", "object", "ack", "done", "failed"},
         NEW t \in Signals \ {"push_end"}, NEW u \in Signals \ {"push_ack"},
         toR'[p] \in {toR[p], Append(toR[p], [type |-> t])},
         \/ toS'[p] \in {toS[p], Append(toS[p], [type |-> u])}
         \/ toS'[p] = Tail(toS[p]) /\ toS[p] # << >>,
         broken'[p] = broken[p], sent'[p] = sent[p], Kept' = Kept
  PROVE  Carried(p)'
  <1>1. Carried(p) /\ toR[p] \in Seq(Frames) /\ toS[p] \in Seq(Frames)
    BY DEF SyncInv, SyncType
  <1>2. /\ ObjectsIn(toR[p]) \subseteq ObjectsIn(toR'[p])
        /\ ~ Has(toR'[p], "push_end")
        /\ \A i \in DOMAIN toR'[p] : toR'[p][i].type = "file_chunks" =>
              i \in DOMAIN toR[p] /\ toR'[p][i] = toR[p][i]
    <2>1. t \in Signals /\ t # "push_end" /\ ~ Has(toR[p], "push_end")
      BY <1>1 DEF Carried
    <2>2. toR'[p] = toR[p] \/ toR'[p] = Append(toR[p], [type |-> t])
      OBVIOUS
    <2> QED
      BY <1>1, <2>1, <2>2, Signalled
  <1>3. ~ Has(toS'[p], "push_ack")
    <2>1. ~ Has(toS[p], "push_ack")
      BY <1>1 DEF Carried
    <2>2. CASE toS'[p] \in {toS[p], Append(toS[p], [type |-> u])}
      <3>1. u \in Signals /\ u # "push_ack"
        OBVIOUS
      <3>2. toS'[p] = toS[p] \/ toS'[p] = Append(toS[p], [type |-> u])
        BY <2>2
      <3> QED
        BY <1>1, <2>1, <3>1, <3>2, Signalled
    <2>3. CASE toS'[p] = Tail(toS[p]) /\ toS[p] # << >>
      BY <1>1, <2>1, <2>3, Taken
    <2> QED
      BY <2>2, <2>3
  <1> QED
    BY <1>1, <1>2, <1>3 DEF Carried

\* The receiver takes a frame: an object is stored, and nothing is acknowledged.
LEMMA FrameTaken ==
  ASSUME SyncInv, NEW p \in Sessions,
         toR[p] # << >>, toR'[p] = Tail(toR[p]),
         NEW u \in Signals \ {"push_ack"},
         toS'[p] \in {toS[p], Append(toS[p], [type |-> u])},
         spc'[p] = spc[p], chunk'[p] = chunk[p], snapshot'[p] = snapshot[p],
         broken'[p] = broken[p], sent'[p] = sent[p],
         Kept \subseteq Kept', Filed' = Filed,
         Head(toR[p]).type = "object" => Head(toR[p]).chunk \in Kept'
  PROVE  Carried(p)'
  <1>1. Carried(p) /\ toR[p] \in Seq(Frames) /\ toS[p] \in Seq(Frames)
    BY DEF SyncInv, SyncType
  <1>2. Has(toS'[p], "push_ack") => Has(toS[p], "push_ack")
    <2>1. u \in Signals /\ u # "push_ack"
      OBVIOUS
    <2>2. toS'[p] = toS[p] \/ toS'[p] = Append(toS[p], [type |-> u])
      OBVIOUS
    <2> QED
      BY <1>1, <2>1, <2>2, Signalled
  <1>3. /\ ObjectsIn(toR[p]) \subseteq Kept' \cup ObjectsIn(toR'[p])
        /\ Has(toR'[p], "push_end") => Has(toR[p], "push_end")
        /\ Len(toR'[p]) = Len(toR[p]) - 1 /\ Len(toR[p]) \in Nat
        /\ \A i \in DOMAIN toR'[p] : i + 1 \in DOMAIN toR[p] /\ toR'[p][i] = toR[p][i + 1]
    BY <1>1, Taken
  <1>4. \A i \in DOMAIN toR'[p] :
           toR'[p][i].type = "file_chunks" => toR'[p][i].chunk \in sent[p]
    BY <1>1, <1>3 DEF Carried
  <1>5. \A i \in DOMAIN toR'[p] : i \in Nat
    BY <1>1, Taken
  <1>6. Has(toR'[p], "push_end") =>
           \A i \in DOMAIN toR'[p] : toR'[p][i].type = "push_end" => i = Len(toR'[p])
    BY <1>1, <1>3, <1>5 DEF Carried
  <1> QED
    BY <1>1, <1>2, <1>3, <1>4, <1>6 DEF Carried, Stored

-----------------------------------------------------------------------------
(* Dialing and the handshake *)

LEMMA Dialing ==
  ASSUME SyncInv, NEW p \in Sessions, NEW s \in Versions, PushSnapshot(p, s) \/ PullSnapshot(p, s)
  PROVE  SyncInv'
  <1> DEFINE x == [type |-> "hello"]
  <1>1. SyncType /\ Carried(p) /\ x \in Frames /\ spc[p] = "none"
    BY SignalFrames DEF SyncInv, Signals, PushSnapshot, PullSnapshot
  <1>2. toR[p] \in Seq(Frames) /\ toS[p] \in Seq(Frames)
    BY <1>1 DEF SyncType
  <1>3. /\ spc' \in {[spc EXCEPT ![p] = "dialed"], [spc EXCEPT ![p] = "accepted"]}
        /\ rpc' \in {[rpc EXCEPT ![p] = "dialed"], [rpc EXCEPT ![p] = "accepted"]}
        /\ snapshot' = [snapshot EXCEPT ![p] = s]
        /\ UNCHANGED <<senderVars, left, chunk, broken, receiverVars, used, sent>>
    BY DEF PushSnapshot, PullSnapshot, SGoto, RGoto, SendToR, CanSend
  <1>4. /\ toR' \in [Sessions -> Seq(Frames)] /\ toS' \in [Sessions -> Seq(Frames)]
        /\ toR'[p] \in {toR[p], Append(toR[p], x)}
        /\ toS'[p] \in {toS[p], Append(toS[p], x)}
        /\ \A q \in Sessions \ {p} : toR'[q] = toR[q] /\ toS'[q] = toS[q]
    <2>1. CASE PushSnapshot(p, s)
      BY <2>1, <1>1, Sending DEF PushSnapshot, SyncType
    <2>2. CASE PullSnapshot(p, s)
      <3>1. Append(toS[p], x) \in Seq(Frames)
        BY <1>1, <1>2
      <3> QED
        BY <2>2, <3>1, <1>1 DEF PullSnapshot, Reply, SyncType
    <2> QED
      BY <2>1, <2>2
  <1>5. SyncType'
    BY <1>1, <1>3, <1>4 DEF SyncType, senderVars, receiverVars, storeVars, listVars, Kept, Filed
  <1>6. Carried(p)'
    <2>1. spc'[p] \in {"dialed", "accepted"} /\ sent'[p] = sent[p] /\ Kept' = Kept
          /\ broken'[p] = broken[p]
      BY <1>1, <1>3 DEF SyncType, receiverVars, storeVars, listVars, Kept, Filed
    <2> QED
      BY <1>1, <1>4, <2>1, EarlyStep DEF Signals
  <1>7. ASSUME NEW q \in Sessions \ {p}  PROVE  Carried(q)'
    BY <1>1, <1>3, <1>4, OthersCarried DEF SyncType, receiverVars, storeVars, listVars, Kept, Filed
  <1>8. Readable'
    BY <1>1, <1>3 DEF SyncInv, Readable, PushSnapshot, PullSnapshot, SyncType, receiverVars, storeVars, listVars, Kept, Filed
  <1> QED
    BY <1>5, <1>6, <1>7, <1>8 DEF SyncInv

\* The sender's side of it, up to push_ready.
LEMMA SenderHandshake ==
  ASSUME SyncInv, NEW p \in Sessions, SenderAuthenticates(p) \/ BeginPush(p) \/ ExpectReady(p)
  PROVE  SyncInv'
  <1>1. SyncType
    BY DEF SyncInv
  <1>2. /\ spc[p] \in {"accepted", "dialed", "command", "ready"}
        /\ spc' \in {[spc EXCEPT ![p] = "command"], [spc EXCEPT ![p] = "ready"],
                     [spc EXCEPT ![p] = "file"]}
        /\ left' \in {left, [left EXCEPT ![p] = Files]}
        /\ UNCHANGED <<senderVars, rpc, snapshot, chunk, broken, receiverVars, used, sent>>
    BY DEF SenderAuthenticates, BeginPush, ExpectReady, SGoto, SenderAnswers
  <1>3. PICK t \in Signals \ {"push_end"} :
           /\ toR' \in [Sessions -> Seq(Frames)] /\ toS' \in [Sessions -> Seq(Frames)]
           /\ toR'[p] \in {toR[p], Append(toR[p], [type |-> t])}
           /\ toS'[p] = Tail(toS[p]) /\ toS[p] # << >>
           /\ \A q \in Sessions \ {p} : toR'[q] = toR[q] /\ toS'[q] = toS[q]
    <2>1. CASE SenderAuthenticates(p)
      <3>1. "hello_ack" \in Signals \ {"push_end"} /\ [type |-> "hello_ack"] \in Frames
        BY SignalFrames DEF Signals
      <3> QED
        BY <1>1, <2>1, <3>1, SenderAnswering DEF SenderAuthenticates
    <2>2. CASE BeginPush(p)
      <3>1. "push_begin" \in Signals \ {"push_end"} /\ [type |-> "push_begin"] \in Frames
        BY SignalFrames DEF Signals
      <3> QED
        BY <1>1, <2>2, <3>1, SenderAnswering DEF BeginPush
    <2>3. CASE ExpectReady(p)
      <3>1. toS[p] # << >> /\ Tail(toS[p]) \in Seq(Frames)
        BY <1>1, <2>3, Taken DEF SyncType, ExpectReady, Hears
      <3>2. /\ toR' = toR /\ toS' = [toS EXCEPT ![p] = Tail(toS[p])]
            /\ "hello" \in Signals \ {"push_end"}
        BY <2>3 DEF ExpectReady, Signals
      <3>3. toR \in [Sessions -> Seq(Frames)] /\ toS \in [Sessions -> Seq(Frames)]
        BY <1>1 DEF SyncType
      <3>4. /\ toS' \in [Sessions -> Seq(Frames)] /\ toS'[p] = Tail(toS[p])
            /\ \A q \in Sessions \ {p} : toS'[q] = toS[q]
        BY <3>1, <3>2, <3>3
      <3> QED
        BY <3>1, <3>2, <3>3, <3>4, Zenon
    <2> QED
      BY <2>1, <2>2, <2>3
  <1>4. SyncType'
    <2>1. left' \in [Sessions -> SUBSET Files]
      <3>1. left \in [Sessions -> SUBSET Files] /\ Files \in SUBSET Files
        BY <1>1 DEF SyncType
      <3> QED
        BY <1>2, <3>1
    <2>2. spc' \in [Sessions -> {"none", "dialed", "accepted", "command", "ready", "file",
                                 "object", "ack", "done", "failed"}]
      <3>1. spc \in [Sessions -> {"none", "dialed", "accepted", "command", "ready", "file",
                                  "object", "ack", "done", "failed"}]
        BY <1>1 DEF SyncType
      <3> QED
        BY <1>2, <3>1
    <2> QED
      BY <1>1, <1>2, <1>3, <2>1, <2>2 DEF SyncType, senderVars, receiverVars, storeVars, listVars, Kept, Filed
  <1>5. Carried(p)'
    <2>1. spc'[p] \in {"command", "ready", "file"} /\ sent'[p] = sent[p] /\ Kept' = Kept
          /\ broken'[p] = broken[p]
      BY <1>1, <1>2 DEF SyncType, receiverVars, storeVars, listVars, Kept, Filed
    <2>2. "hello" \in Signals \ {"push_ack"}
      BY DEF Signals
    <2> QED
      BY <1>2, <1>3, <2>1, <2>2, EarlyStep
  <1>6. ASSUME NEW q \in Sessions \ {p}  PROVE  Carried(q)'
    BY <1>1, <1>2, <1>3, OthersCarried DEF SyncType, receiverVars, storeVars, listVars, Kept, Filed
  <1>7. Readable'
    BY <1>2 DEF SyncInv, Readable, receiverVars, storeVars, listVars, Kept, Filed
  <1> QED
    BY <1>4, <1>5, <1>6, <1>7 DEF SyncInv

\* The receiver's side, up to push_begin.
LEMMA ReceiverHandshake ==
  ASSUME SyncInv, NEW p \in Sessions,
         ReceiverAuthenticates(p) \/ RequestPull(p) \/ AcceptPush(p)
  PROVE  SyncInv'
  <1>1. SyncType
    BY DEF SyncInv
  <1>2. /\ rpc[p] \in {"accepted", "dialed", "begin"}
        /\ rpc' \in {[rpc EXCEPT ![p] = "begin"], [rpc EXCEPT ![p] = "receive"]}
        /\ UNCHANGED <<senderVars, spc, snapshot, left, chunk, broken, receiverVars, used, sent>>
    BY DEF ReceiverAuthenticates, RequestPull, AcceptPush, RGoto, ReceiverAnswers
  <1>3. PICK u \in Signals \ {"push_ack"} :
           /\ toR' \in [Sessions -> Seq(Frames)] /\ toS' \in [Sessions -> Seq(Frames)]
           /\ toR'[p] = Tail(toR[p]) /\ toR[p] # << >> /\ Head(toR[p]).type # "object"
           /\ toS'[p] \in {toS[p], Append(toS[p], [type |-> u])}
           /\ \A q \in Sessions \ {p} : toR'[q] = toR[q] /\ toS'[q] = toS[q]
    <2>1. CASE ReceiverAuthenticates(p)
      <3>1. [type |-> "hello_ack"] \in Frames /\ "hello_ack" \in Signals \ {"push_ack"}
        BY SignalFrames DEF Signals
      <3>2. /\ toR' \in [Sessions -> Seq(Frames)] /\ toS' \in [Sessions -> Seq(Frames)]
            /\ toR'[p] = Tail(toR[p]) /\ toR[p] # << >> /\ Head(toR[p]).type # "object"
            /\ toS'[p] = toS[p] \/ toS'[p] = Append(toS[p], [type |-> "hello_ack"])
            /\ \A q \in Sessions \ {p} : toR'[q] = toR[q] /\ toS'[q] = toS[q]
        BY <1>1, <2>1, <3>1, ReceiverAnswering DEF ReceiverAuthenticates
      <3> QED
        BY <3>1, <3>2
    <2>2. CASE RequestPull(p)
      <3>1. [type |-> "pull_request"] \in Frames /\ "pull_request" \in Signals \ {"push_ack"}
        BY SignalFrames DEF Signals
      <3>2. /\ toR' \in [Sessions -> Seq(Frames)] /\ toS' \in [Sessions -> Seq(Frames)]
            /\ toR'[p] = Tail(toR[p]) /\ toR[p] # << >> /\ Head(toR[p]).type # "object"
            /\ toS'[p] = toS[p] \/ toS'[p] = Append(toS[p], [type |-> "pull_request"])
            /\ \A q \in Sessions \ {p} : toR'[q] = toR[q] /\ toS'[q] = toS[q]
        BY <1>1, <2>2, <3>1, ReceiverAnswering DEF RequestPull
      <3> QED
        BY <3>1, <3>2
    <2>3. CASE AcceptPush(p)
      <3>1. [type |-> "push_ready"] \in Frames /\ "push_ready" \in Signals \ {"push_ack"}
        BY SignalFrames DEF Signals
      <3>2. /\ toR' \in [Sessions -> Seq(Frames)] /\ toS' \in [Sessions -> Seq(Frames)]
            /\ toR'[p] = Tail(toR[p]) /\ toR[p] # << >> /\ Head(toR[p]).type # "object"
            /\ toS'[p] = toS[p] \/ toS'[p] = Append(toS[p], [type |-> "push_ready"])
            /\ \A q \in Sessions \ {p} : toR'[q] = toR[q] /\ toS'[q] = toS[q]
        BY <1>1, <2>3, <3>1, ReceiverAnswering DEF AcceptPush
      <3> QED
        BY <3>1, <3>2
    <2> QED
      BY <2>1, <2>2, <2>3
  <1>4. SyncType'
    BY <1>1, <1>2, <1>3 DEF SyncType, senderVars, receiverVars, storeVars, listVars, Kept, Filed
  <1>5. Carried(p)'
    BY <1>2, <1>3, FrameTaken DEF receiverVars, storeVars, listVars, Kept, Filed
  <1>6. ASSUME NEW q \in Sessions \ {p}  PROVE  Carried(q)'
    BY <1>1, <1>2, <1>3, OthersCarried DEF SyncType, receiverVars, storeVars, listVars, Kept, Filed
  <1>7. Readable'
    BY <1>1, <1>2 DEF SyncInv, SyncType, Readable, receiverVars, storeVars, listVars, Kept, Filed
  <1> QED
    BY <1>4, <1>5, <1>6, <1>7 DEF SyncInv

-----------------------------------------------------------------------------
(* A transfer, at the sender *)

\* A chunk list goes out, and its object comes next.
LEMMA ListSent ==
  ASSUME SyncInv, NEW p \in Sessions, SendFileChunks(p)
  PROVE  SyncInv'
  <1> DEFINE f == CHOOSE f \in left[p] : TRUE
             x == [type |-> "file_chunks", file |-> f, chunk |-> sLatest[f]]
  <1>1. SyncType /\ Carried(p) /\ spc[p] = "file" /\ left[p] # {}
    BY DEF SyncInv, SendFileChunks
  <1>2. f \in Files /\ sLatest[f] \in Chunks
    BY <1>1 DEF SyncType
  <1>3. x \in Frames /\ x.type = "file_chunks" /\ x.chunk = sLatest[f]
    BY <1>2 DEF Frames
  <1>4. /\ SendToR(p, x)
        /\ left' = [left EXCEPT ![p] = @ \ {f}]
        /\ chunk' = [chunk EXCEPT ![p] = sLatest[f]]
        /\ sent' = [sent EXCEPT ![p] = @ \cup {sLatest[f]}]
        /\ spc' = [spc EXCEPT ![p] = "object"]
        /\ UNCHANGED <<senderVars, rpc, snapshot, toS, broken, receiverVars, used>>
    BY DEF SendFileChunks, SGoto
  <1> HIDE DEF f, x
  <1>5. /\ ~ broken[p]
        /\ toR' \in [Sessions -> Seq(Frames)] /\ toR'[p] = Append(toR[p], x)
        /\ \A q \in Sessions \ {p} : toR'[q] = toR[q]
    BY <1>1, <1>3, <1>4, Sending
  <1>6. SyncType'
    <2>1. /\ left' \in [Sessions -> SUBSET Files] /\ sent' \in [Sessions -> SUBSET Chunks]
          /\ chunk' \in [Sessions -> Chunks \cup {NoChunk}]
          /\ spc' \in [Sessions -> {"none", "dialed", "accepted", "command", "ready", "file",
                                    "object", "ack", "done", "failed"}]
      BY <1>1, <1>2, <1>4 DEF SyncType
    <2> QED
      BY <1>1, <1>4, <1>5, <2>1 DEF SyncType, senderVars, receiverVars, storeVars, listVars, Kept, Filed
  <1>7. Carried(p)'
    <2>1. spc'[p] = "object" /\ chunk'[p] = sLatest[f] /\ sent'[p] = sent[p] \cup {sLatest[f]}
          /\ Kept' = Kept /\ toS'[p] = toS[p]
      BY <1>1, <1>4 DEF SyncType, receiverVars, storeVars, listVars, Kept, Filed
    <2>2. toR[p] \in Seq(Frames)
      BY <1>1 DEF SyncType
    <2>3. /\ ObjectsIn(toR[p]) \subseteq ObjectsIn(toR'[p])
          /\ Has(toR'[p], "push_end") <=> Has(toR[p], "push_end") \/ x.type = "push_end"
          /\ \A i \in DOMAIN toR'[p] :
                (i \in DOMAIN toR[p] /\ toR'[p][i] = toR[p][i]) \/ toR'[p][i] = x
      BY <1>3, <1>5, <2>2, Appended
    <2>4. \A i \in DOMAIN toR'[p] :
             toR'[p][i].type = "file_chunks" => toR'[p][i].chunk \in sent'[p]
      BY <1>1, <1>3, <2>1, <2>3 DEF Carried
    <2>5. ~ Has(toR'[p], "push_end") /\ ~ Has(toS'[p], "push_ack")
      BY <1>1, <1>3, <2>1, <2>3 DEF Carried
    <2>6. sent[p] \subseteq Kept \cup ObjectsIn(toR[p])
      BY <1>1, <1>5 DEF Carried
    <2> QED
      BY <1>2, <2>1, <2>3, <2>4, <2>5, <2>6 DEF Carried
  <1>8. ASSUME NEW q \in Sessions \ {p}  PROVE  Carried(q)'
    BY <1>1, <1>4, <1>5, OthersCarried DEF SyncType, receiverVars, storeVars, listVars, Kept, Filed
  <1>9. Readable'
    <2>1. \A q \in Sessions : sent[q] \subseteq sent'[q]
      BY <1>1, <1>4 DEF SyncType
    <2>2. UNCHANGED <<rpc, rLatest, refs, objects, partial, torn>>
      BY <1>4 DEF receiverVars, storeVars, listVars, Kept, Filed
    <2> QED
      BY <2>1, <2>2 DEF SyncInv, Readable
  <1> QED
    BY <1>6, <1>7, <1>8, <1>9 DEF SyncInv

\* An object goes out, or the end of the transfer.
LEMMA ObjectOrEndSent ==
  ASSUME SyncInv, NEW p \in Sessions, SendObject(p) \/ SendEnd(p)
  PROVE  SyncInv'
  <1>1. SyncType /\ Carried(p)
    BY DEF SyncInv
  <1>2. PICK x \in Frames :
           /\ SendToR(p, x)
           /\ \/ spc[p] = "object" /\ x.type = "object" /\ x.chunk = chunk[p]
                 /\ spc' = [spc EXCEPT ![p] = "file"] /\ chunk' = [chunk EXCEPT ![p] = NoChunk]
              \/ spc[p] = "file" /\ x.type = "push_end"
                 /\ spc' = [spc EXCEPT ![p] = "ack"] /\ chunk' = chunk
    <2>1. CASE SendObject(p)
      <3> DEFINE x == [type |-> "object", chunk |-> chunk[p]]
      <3>1. x \in Frames /\ x.type = "object" /\ x.chunk = chunk[p] /\ spc[p] = "object"
        BY <1>1, <2>1 DEF Carried, SendObject, Frames
      <3> QED
        BY <2>1, <3>1 DEF SendObject, SGoto
    <2>2. CASE SendEnd(p)
      <3> DEFINE x == [type |-> "push_end"]
      <3>1. x \in Frames /\ x.type = "push_end"
        BY SignalFrames DEF Signals
      <3> QED
        BY <2>2, <3>1 DEF SendEnd, SGoto
    <2> QED
      BY <2>1, <2>2
  <1>3. UNCHANGED <<senderVars, rpc, snapshot, left, toS, broken, receiverVars, used, sent>>
    BY DEF SendObject, SendEnd
  <1>4. /\ ~ broken[p]
        /\ toR' \in [Sessions -> Seq(Frames)] /\ toR'[p] = Append(toR[p], x)
        /\ \A q \in Sessions \ {p} : toR'[q] = toR[q]
    BY <1>1, <1>2, Sending
  <1>5. SyncType'
    <2>1. /\ chunk' \in [Sessions -> Chunks \cup {NoChunk}]
          /\ spc' \in [Sessions -> {"none", "dialed", "accepted", "command", "ready", "file",
                                    "object", "ack", "done", "failed"}]
      BY <1>1, <1>2 DEF SyncType
    <2> QED
      BY <1>1, <1>3, <1>4, <2>1 DEF SyncType, senderVars, receiverVars, storeVars, listVars, Kept, Filed
  <1>6. Carried(p)'
    <2>1. spc'[p] = (IF x.type = "object" THEN "file" ELSE "ack") /\ sent'[p] = sent[p]
          /\ Kept' = Kept /\ toS'[p] = toS[p]
      BY <1>1, <1>2, <1>3 DEF SyncType, receiverVars, storeVars, listVars, Kept, Filed
    <2>2. toR[p] \in Seq(Frames) /\ Len(toR[p]) \in Nat
          /\ \A i \in DOMAIN toR[p] : i \in 1..Len(toR[p])
      BY <1>1 DEF SyncType
    <2>3. /\ ObjectsIn(toR[p]) \subseteq ObjectsIn(toR'[p])
          /\ x.type = "object" => x.chunk \in ObjectsIn(toR'[p])
          /\ Has(toR'[p], "push_end") <=> Has(toR[p], "push_end") \/ x.type = "push_end"
          /\ \A i \in DOMAIN toR'[p] :
                \/ i \in DOMAIN toR[p] /\ toR'[p][i] = toR[p][i]
                \/ i = Len(toR'[p]) /\ toR'[p][i] = x
      BY <1>2, <1>4, <2>2, Appended
    <2>4. ~ Has(toR[p], "push_end") /\ ~ Has(toS[p], "push_ack")
      BY <1>1, <1>2 DEF Carried
    <2>5. sent[p] \subseteq Kept \cup ObjectsIn(toR'[p])
      BY <1>1, <1>2, <1>4, <2>3 DEF Carried
    <2>6. \A i \in DOMAIN toR'[p] :
             toR'[p][i].type = "file_chunks" => toR'[p][i].chunk \in sent[p]
      BY <1>1, <1>2, <2>3 DEF Carried
    <2>7. \A i \in DOMAIN toR'[p] : toR'[p][i].type = "push_end" => i = Len(toR'[p])
      BY <2>3, <2>4 DEF Has
    <2> QED
      BY <1>2, <2>1, <2>3, <2>4, <2>5, <2>6, <2>7 DEF Carried
  <1>7. ASSUME NEW q \in Sessions \ {p}  PROVE  Carried(q)'
    BY <1>1, <1>2, <1>3, <1>4, OthersCarried DEF SyncType, receiverVars, storeVars, listVars, Kept, Filed
  <1>8. Readable'
    BY <1>3 DEF SyncInv, Readable, receiverVars, storeVars, listVars, Kept, Filed
  <1> QED
    BY <1>5, <1>6, <1>7, <1>8 DEF SyncInv

\* The acknowledgement comes back.
LEMMA AckTaken ==
  ASSUME SyncInv, NEW p \in Sessions, ExpectAck(p)
  PROVE  SyncInv'
  <1>1. SyncType /\ Carried(p)
    BY DEF SyncInv
  <1>2. /\ spc[p] = "ack" /\ spc' = [spc EXCEPT ![p] = "done"]
        /\ toS[p] # << >> /\ Head(toS[p]).type = "push_ack"
        /\ toS' = [toS EXCEPT ![p] = Tail(@)]
        /\ UNCHANGED <<senderVars, rpc, snapshot, left, chunk, toR, broken, receiverVars, used,
                       sent>>
    BY DEF ExpectAck, Hears, SGoto
  <1>3. Tail(toS[p]) \in Seq(Frames) /\ Has(toS[p], "push_ack")
        /\ \A t : Has(Tail(toS[p]), t) => Has(toS[p], t)
    <2>1. toS[p] \in Seq(Frames)
      BY <1>1 DEF SyncType
    <2>2. 1 \in DOMAIN toS[p] /\ toS[p][1].type = "push_ack"
      BY <1>2, <2>1, Taken
    <2> QED
      BY <1>2, <2>1, <2>2, Taken DEF Has
  <1>4. SyncType'
    BY <1>1, <1>2, <1>3 DEF SyncType, senderVars, receiverVars, storeVars, listVars, Kept, Filed
  <1>5. Carried(p)'
    <2>1. /\ spc'[p] = "done" /\ toS'[p] = Tail(toS[p])
          /\ Kept' = Kept /\ Filed' = Filed
      BY <1>1, <1>2 DEF SyncType, receiverVars, storeVars, listVars, Kept, Filed
    <2>2. Stored(p)
      BY <1>1, <1>3 DEF Carried
    <2> QED
      BY <1>1, <1>2, <2>1, <2>2 DEF Carried, Stored
  <1>6. ASSUME NEW q \in Sessions \ {p}  PROVE  Carried(q)'
    BY <1>1, <1>2, OthersCarried DEF SyncType, receiverVars, storeVars, listVars, Kept, Filed
  <1>7. Readable'
    BY <1>2 DEF SyncInv, Readable, receiverVars, storeVars, listVars, Kept, Filed
  <1> QED
    BY <1>4, <1>5, <1>6, <1>7 DEF SyncInv

-----------------------------------------------------------------------------
(* A transfer, at the receiver *)

\* What a frame of a transfer does to the queue, whatever it brings.
LEMMA TakingFrame ==
  ASSUME SyncInv, NEW p \in Sessions, NEW type, TakeFrame(p, type)
  PROVE  /\ SyncType /\ Carried(p) /\ rpc[p] = "receive"
         /\ toR[p] \in Seq(Frames) /\ toR[p] # << >> /\ Head(toR[p]).type = type
         /\ Head(toR[p]) \in Frames /\ 1 \in DOMAIN toR[p] /\ Head(toR[p]) = toR[p][1]
         /\ toR' \in [Sessions -> Seq(Frames)] /\ toR'[p] = Tail(toR[p])
         /\ \A q \in Sessions \ {p} : toR'[q] = toR[q]
         /\ UNCHANGED <<version, sLatest, spc, rpc, snapshot, left, chunk, toS, broken,
                        listVars, used, sent>>
  <1>1. SyncType /\ Carried(p)
    BY DEF SyncInv
  <1>2. toR[p] \in Seq(Frames) /\ toR[p] # << >> /\ Head(toR[p]).type = type
    BY <1>1 DEF TakeFrame, Hears, SyncType
  <1>3. Tail(toR[p]) \in Seq(Frames) /\ Head(toR[p]) \in Frames
        /\ 1 \in DOMAIN toR[p] /\ Head(toR[p]) = toR[p][1]
    BY <1>2, Taken
  <1> QED
    BY <1>1, <1>2, <1>3 DEF TakeFrame, SyncType, senderVars

LEMMA ListStored ==
  ASSUME SyncInv, NEW p \in Sessions, StoreFileChunks(p)
  PROVE  SyncInv'
  <1> DEFINE x == Head(toR[p])
  <1>1. /\ SyncType /\ Carried(p) /\ rpc[p] = "receive"
        /\ toR[p] \in Seq(Frames) /\ toR[p] # << >> /\ x.type = "file_chunks"
        /\ x \in Frames /\ 1 \in DOMAIN toR[p] /\ x = toR[p][1]
        /\ toR' \in [Sessions -> Seq(Frames)] /\ toR'[p] = Tail(toR[p])
        /\ \A q \in Sessions \ {p} : toR'[q] = toR[q]
        /\ UNCHANGED <<version, sLatest, spc, rpc, snapshot, left, chunk, toS, broken,
                       listVars, used, sent>>
    <2>1. TakeFrame(p, "file_chunks")
      BY DEF StoreFileChunks
    <2> QED
      BY <2>1, TakingFrame
  <1>2. x.file \in Files /\ x.chunk \in Chunks /\ x.chunk \in sent[p]
    BY <1>1 DEF Frames, Signals, Carried
  <1>3. /\ rLatest' = [rLatest EXCEPT ![x.file] = <<x.chunk>>]
        /\ UNCHANGED <<refs, objects, partial, torn, Kept, Filed>>
    BY <1>1 DEF StoreFileChunks, InsertFileChunks, storeVars, listVars, Kept, Filed
  <1> HIDE DEF x
  <1>4. SyncType'
    <2>1. rLatest' \in [Files -> Seq(Chunks)]
      BY <1>1, <1>2, <1>3 DEF SyncType
    <2> QED
      BY <1>1, <1>3, <2>1 DEF SyncType
  <1>5. Carried(p)'
    <2>1. "hello" \in Signals \ {"push_ack"}
      BY DEF Signals
    <2> QED
      BY <1>1, <1>3, <2>1, FrameTaken DEF x
  <1>6. ASSUME NEW q \in Sessions \ {p}  PROVE  Carried(q)'
    BY <1>1, <1>3, OthersCarried
  <1>7. Readable'
    <2>1. \A f \in Files : \A i \in DOMAIN rLatest'[f] :
             \/ f = x.file /\ rLatest'[f][i] = x.chunk
             \/ i \in DOMAIN rLatest[f] /\ rLatest'[f][i] = rLatest[f][i]
      BY <1>1, <1>2, <1>3 DEF SyncType
    <2> QED
      BY <1>1, <1>2, <1>3, <2>1 DEF SyncInv, Readable
  <1> QED
    BY <1>4, <1>5, <1>6, <1>7 DEF SyncInv

LEMMA ObjectStored ==
  ASSUME SyncInv, NEW p \in Sessions, StoreObject(p)
  PROVE  SyncInv'
  <1> DEFINE x == Head(toR[p])
  <1>1. /\ SyncType /\ Carried(p) /\ rpc[p] = "receive"
        /\ toR[p] \in Seq(Frames) /\ toR[p] # << >> /\ x.type = "object"
        /\ x \in Frames
        /\ toR' \in [Sessions -> Seq(Frames)] /\ toR'[p] = Tail(toR[p])
        /\ \A q \in Sessions \ {p} : toR'[q] = toR[q]
        /\ UNCHANGED <<version, sLatest, spc, rpc, snapshot, left, chunk, toS, broken,
                       listVars, used, sent>>
    <2>1. TakeFrame(p, "object")
      BY DEF StoreObject
    <2> QED
      BY <2>1, TakingFrame
  <1>2. x.chunk \in Chunks
    BY <1>1 DEF Frames, Signals
  <1>3. /\ objects' = objects \cup ({x.chunk} \ torn) /\ partial' = partial \ {x.chunk}
        /\ torn' = torn /\ rLatest' = rLatest
        /\ Kept' = Kept \cup {x.chunk} /\ Filed' = Filed
        /\ refs' = [refs EXCEPT ![x.chunk] = @ + 1]
    BY <1>1 DEF StoreObject, WriteObject, IncrementRef, InsertChunk, listVars, Kept, Filed
  <1> HIDE DEF x
  <1>4. SyncType'
    BY <1>1, <1>2, <1>3 DEF SyncType
  <1>5. Carried(p)'
    <2>1. "hello" \in Signals \ {"push_ack"}
      BY DEF Signals
    <2> QED
      BY <1>1, <1>3, <2>1, FrameTaken DEF x
  <1>6. ASSUME NEW q \in Sessions \ {p}  PROVE  Carried(q)'
    BY <1>1, <1>3, OthersCarried
  <1>7. Readable'
    <2>1. \A c \in Chunks : refs[c] > 0 \/ c = x.chunk => refs'[c] > 0
      BY <1>1, <1>2, <1>3 DEF SyncType
    <2> QED
      BY <1>1, <1>2, <1>3, <2>1 DEF SyncInv, Readable
  <1> QED
    BY <1>4, <1>5, <1>6, <1>7 DEF SyncInv

\* The end of a transfer finds everything stored.
LEMMA Registered ==
  ASSUME SyncInv, NEW p \in Sessions, Register(p)
  PROVE  SyncInv'
  <1> DEFINE x == [type |-> "push_ack"]
  <1>1. SyncType /\ Carried(p) /\ x \in Frames
    BY SignalFrames DEF SyncInv, Signals
  <1>2. /\ rpc[p] = "receive" /\ ReceiverAnswers(p, "push_end", x)
        /\ rpc' = [rpc EXCEPT ![p] = "done"] /\ Filed' = Filed \cup {snapshot[p]}
        /\ UNCHANGED <<senderVars, spc, snapshot, left, chunk, rLatest, refs, objects, partial,
                       torn, Kept, used, sent>>
    BY DEF Register, RGoto, storeVars, Kept, Filed
  <1>3. /\ broken' = broken /\ toR[p] # << >> /\ Head(toR[p]).type = "push_end"
        /\ toR' \in [Sessions -> Seq(Frames)] /\ toR'[p] = Tail(toR[p])
        /\ toS' \in [Sessions -> Seq(Frames)]
        /\ toS'[p] = toS[p] \/ toS'[p] = Append(toS[p], x)
        /\ \A q \in Sessions \ {p} : toR'[q] = toR[q] /\ toS'[q] = toS[q]
    BY <1>1, <1>2, ReceiverAnswering
  <1>4. SyncType'
    BY <1>1, <1>2, <1>3 DEF SyncType, senderVars
  <1>5. /\ spc[p] \in {"ack", "done", "failed"} /\ sent[p] \subseteq Kept
        /\ DOMAIN toR'[p] = {}
    <2>1. toR[p] \in Seq(Frames)
      BY <1>1 DEF SyncType
    <2>2. 1 \in DOMAIN toR[p] /\ toR[p][1].type = "push_end"
      BY <1>3, <2>1, Taken
    <2>3. Has(toR[p], "push_end") /\ Len(toR[p]) = 1
      BY <1>1, <2>2 DEF Carried, Has
    <2>4. DOMAIN toR[p] = {1}
      BY <2>1, <2>3
    <2>5. ObjectsIn(toR[p]) = {}
      BY <2>2, <2>4 DEF ObjectsIn
    <2>6. DOMAIN toR'[p] = {}
      <3>1. Len(Tail(toR[p])) = 0 /\ Tail(toR[p]) \in Seq(Frames)
        BY <1>3, <2>1, <2>3, Taken
      <3>2. ASSUME NEW s \in Seq(Frames), Len(s) = 0  PROVE  DOMAIN s = {}
        BY <3>2
      <3>3. DOMAIN Tail(toR[p]) = {}
        BY <3>1, <3>2
      <3> QED
        BY <1>3, <3>3
    <2> QED
      BY <1>1, <2>3, <2>5, <2>6 DEF Carried
  <1>6. Carried(p)'
    <2>1. Stored(p)'
      BY <1>2, <1>5 DEF Stored
    <2>2. ~ Has(toR'[p], "push_end")
      BY <1>5 DEF Has
    <2> QED
      BY <1>1, <1>2, <1>5, <2>1, <2>2 DEF Carried
  <1>7. ASSUME NEW q \in Sessions \ {p}  PROVE  Carried(q)'
    BY <1>1, <1>2, <1>3, OthersCarried DEF SyncType
  <1>8. Readable'
    <2>1. \A q \in Sessions : rpc'[q] = (IF q = p THEN "done" ELSE rpc[q])
      BY <1>1, <1>2 DEF SyncType
    <2>2. ASSUME \A q \in Sessions : rpc'[q] # "failed"
          PROVE  /\ torn = {} /\ partial = {} /\ objects \subseteq {c \in Chunks : refs[c] > 0}
                 /\ \A f \in Files : \A i \in DOMAIN rLatest[f] :
                       \/ rLatest[f][i] \in objects
                       \/ \E q \in Sessions : rpc'[q] = "receive" /\ rLatest[f][i] \in sent[q]
      <3>1. \A q \in Sessions : rpc[q] # "failed"
        BY <1>2, <2>1, <2>2
      <3>2. torn = {} /\ partial = {} /\ objects \subseteq {c \in Chunks : refs[c] > 0}
        BY <3>1 DEF SyncInv, Readable
      <3>3. sent[p] \subseteq objects
        BY <1>5, <3>2 DEF Kept
      <3> QED
        BY <2>1, <3>1, <3>2, <3>3 DEF SyncInv, Readable
    <2> QED
      BY <1>2, <2>2 DEF Readable
  <1> QED
    BY <1>4, <1>6, <1>7, <1>8 DEF SyncInv

-----------------------------------------------------------------------------
(* The world around them *)

LEMMA Backups ==
  ASSUME SyncInv, SenderBackup
  PROVE  SyncInv'
  <1>1. SyncType
    BY DEF SyncInv
  <1>2. /\ used["backup"] < Limit["backup"] /\ used' = [used EXCEPT !["backup"] = @ + 1]
        /\ version' = version + 1
        /\ UNCHANGED <<spc, rpc, snapshot, left, chunk, wireVars, receiverVars, sent>>
    BY DEF SenderBackup, Spend
  <1>3. PICK changed \in SUBSET Files :
           sLatest' = [f \in Files |-> IF f \in changed THEN <<f, version'>> ELSE sLatest[f]]
    BY DEF SenderBackup
  <1>4. version' \in Versions /\ Limit["backup"] \in Nat /\ used["backup"] \in Nat
    BY <1>1, <1>2, LimitAssumption DEF SyncType, Versions, Kinds
  <1>5. sLatest' \in [Files -> Chunks]
    BY <1>1, <1>3, <1>4 DEF SyncType, Chunks
  <1>6. /\ used' \in [Kinds -> Nat] /\ used'["backup"] <= Limit["backup"]
        /\ version' = used'["backup"] + 1
    BY <1>1, <1>2, <1>4 DEF SyncType, Kinds
  <1>7. SyncType'
    BY <1>1, <1>2, <1>5, <1>6 DEF SyncType, wireVars, receiverVars, storeVars, listVars, Kept, Filed
  <1>8. ASSUME NEW q \in Sessions  PROVE  Carried(q)'
    BY <1>2, OthersCarried DEF wireVars, receiverVars, storeVars, listVars, Kept, Filed
  <1>9. Readable'
    BY <1>2 DEF SyncInv, Readable, receiverVars, storeVars, listVars, Kept, Filed
  <1> QED
    BY <1>7, <1>8, <1>9 DEF SyncInv

\* What a broken connection cuts off, it cuts off at the end.
LEMMA Breaks ==
  ASSUME SyncInv, NEW p \in Sessions, Break(p)
  PROVE  SyncInv'
  <1>1. SyncType /\ Carried(p)
    BY DEF SyncInv
  <1>2. PICK r \in Prefixes(toR[p]), v \in Prefixes(toS[p]) :
           toR' = [toR EXCEPT ![p] = r] /\ toS' = [toS EXCEPT ![p] = v]
    BY DEF Break
  <1>3. /\ used["break"] < Limit["break"] /\ used' = [used EXCEPT !["break"] = @ + 1]
        /\ broken' = [broken EXCEPT ![p] = TRUE]
        /\ UNCHANGED <<senderVars, spc, rpc, snapshot, left, chunk, receiverVars, sent>>
    BY DEF Break, Spend
  <1>4. toR[p] \in Seq(Frames) /\ toS[p] \in Seq(Frames)
    BY <1>1 DEF SyncType
  <1>5. /\ r \in Seq(Frames) /\ v \in Seq(Frames)
        /\ \A t : Has(r, t) => Has(toR[p], t)
        /\ \A t : Has(v, t) => Has(toS[p], t)
        /\ \A i \in DOMAIN r : i \in DOMAIN toR[p] /\ r[i] = toR[p][i]
        /\ Len(toR[p]) \in DOMAIN r =>
              Len(r) = Len(toR[p]) /\ ObjectsIn(toR[p]) \subseteq ObjectsIn(r)
    BY <1>4, Cutoff
  <1>6. SyncType'
    <2>1. used' \in [Kinds -> Nat] /\ used'["backup"] = used["backup"]
      BY <1>1, <1>3 DEF SyncType, Kinds
    <2>2. toR' \in [Sessions -> Seq(Frames)] /\ toS' \in [Sessions -> Seq(Frames)]
      BY <1>1, <1>2, <1>5 DEF SyncType
    <2> QED
      BY <1>1, <1>3, <2>1, <2>2 DEF SyncType, senderVars, receiverVars, storeVars, listVars, Kept, Filed
  <1>7. Carried(p)'
    <2>1. toR'[p] = r /\ toS'[p] = v /\ broken'[p] /\ Kept' = Kept
          /\ Filed' = Filed
      BY <1>1, <1>2, <1>3 DEF SyncType, receiverVars, storeVars, listVars, Kept, Filed
    <2>2. ASSUME Has(r, "push_end")
          PROVE  /\ Has(toR[p], "push_end") /\ Len(r) = Len(toR[p])
                 /\ ObjectsIn(toR[p]) \subseteq ObjectsIn(r)
      <3>1. PICK i \in DOMAIN r : r[i].type = "push_end"
        BY <2>2 DEF Has
      <3>2. Has(toR[p], "push_end") /\ i = Len(toR[p])
        BY <1>1, <1>5, <2>2, <3>1 DEF Carried
      <3> QED
        BY <1>5, <3>1, <3>2
    <2> QED
      BY <1>1, <1>3, <1>5, <2>1, <2>2 DEF Carried, Stored
  <1>8. ASSUME NEW q \in Sessions \ {p}  PROVE  Carried(q)'
    BY <1>1, <1>2, <1>3, OthersCarried DEF SyncType, receiverVars, storeVars, listVars, Kept, Filed
  <1>9. Readable'
    BY <1>3 DEF SyncInv, Readable, receiverVars, storeVars, listVars, Kept, Filed
  <1> QED
    BY <1>6, <1>7, <1>8, <1>9 DEF SyncInv

LEMMA Fails ==
  ASSUME SyncInv, NEW p \in Sessions, SenderFails(p) \/ ReceiverFails(p)
  PROVE  SyncInv'
  <1>1. SyncType /\ Carried(p) /\ broken[p]
    BY DEF SyncInv, SenderFails, ReceiverFails
  <1>2. CASE SenderFails(p)
    <2>1. /\ spc[p] \notin {"none", "done", "failed"}
          /\ spc' = [spc EXCEPT ![p] = "failed"] /\ left' = [left EXCEPT ![p] = {}]
          /\ chunk' = [chunk EXCEPT ![p] = NoChunk]
          /\ UNCHANGED <<senderVars, rpc, snapshot, wireVars, receiverVars, used, sent>>
      BY <1>2 DEF SenderFails, SGoto, Ended
    <2>2. SyncType'
      BY <1>1, <2>1 DEF SyncType, senderVars, receiverVars, storeVars, listVars, Kept, Filed, wireVars
    <2>3. Carried(p)'
      BY <1>1, <2>1 DEF SyncType, Carried, Stored, receiverVars, storeVars, listVars, Kept, Filed, wireVars
    <2>4. ASSUME NEW q \in Sessions \ {p}  PROVE  Carried(q)'
      BY <1>1, <2>1, OthersCarried DEF SyncType, receiverVars, storeVars, listVars, Kept, Filed, wireVars
    <2>5. Readable'
      BY <2>1 DEF SyncInv, Readable, receiverVars, storeVars, listVars, Kept, Filed
    <2> QED
      BY <2>2, <2>3, <2>4, <2>5 DEF SyncInv
  <1>3. CASE ReceiverFails(p)
    <2>1. /\ rpc' = [rpc EXCEPT ![p] = "failed"]
          /\ UNCHANGED <<senderVars, spc, snapshot, left, chunk, wireVars, receiverVars, used, sent>>
      BY <1>3 DEF ReceiverFails, RGoto
    <2>2. SyncType'
      BY <1>1, <2>1 DEF SyncType, senderVars, receiverVars, storeVars, listVars, Kept, Filed, wireVars
    <2>3. ASSUME NEW q \in Sessions  PROVE  Carried(q)'
      BY <2>1, OthersCarried DEF receiverVars, storeVars, listVars, Kept, Filed, wireVars
    <2>4. Readable'
      <3>1. rpc'[p] = "failed"
        BY <1>1, <2>1 DEF SyncType
      <3> QED
        BY <2>1, <3>1 DEF SyncInv, Readable, receiverVars, storeVars, listVars, Kept, Filed
    <2> QED
      BY <2>2, <2>3, <2>4 DEF SyncInv
  <1> QED
    BY <1>2, <1>3

\* A crash empties the queues to the receiver and keeps what it has stored.
LEMMA Crashes ==
  ASSUME SyncInv, ReceiverCrash
  PROVE  SyncInv'
  <1>1. SyncType
    BY DEF SyncInv
  <1>2. /\ used["crash"] < Limit["crash"] /\ used' = [used EXCEPT !["crash"] = @ + 1]
        /\ broken' = [p \in Sessions |-> broken[p] \/ spc[p] # "none"]
        /\ toR' = [p \in Sessions |-> << >>]
        /\ rpc' = [p \in Sessions |-> IF rpc[p] \in {"none", "done", "failed"} THEN rpc[p]
                                      ELSE "failed"]
        /\ Kept \subseteq Kept' /\ Filed \subseteq Filed'
        /\ UNCHANGED <<senderVars, spc, snapshot, left, chunk, toS, rLatest, refs, sent>>
    BY DEF ReceiverCrash, Spend, Ended, LoseManifests, Kept, Filed
  <1>3. SyncType'
    <2>1. used' \in [Kinds -> Nat] /\ used'["backup"] = used["backup"]
      BY <1>1, <1>2 DEF SyncType, Kinds
    <2>2. toR' \in [Sessions -> Seq(Frames)]
      <3>1. << >> \in Seq(Frames)
        OBVIOUS
      <3> QED
        BY <1>2, <3>1
    <2>3. broken' \in [Sessions -> BOOLEAN]
      <3>1. \A p \in Sessions : (broken[p] \/ spc[p] # "none") \in BOOLEAN
        OBVIOUS
      <3> QED
        BY <1>2, <3>1
    <2>4. rpc' \in [Sessions -> {"none", "dialed", "accepted", "begin", "receive", "done",
                                 "failed"}]
      BY <1>1, <1>2 DEF SyncType
    <2> QED
      BY <1>1, <1>2, <2>1, <2>2, <2>3, <2>4 DEF SyncType, senderVars
  <1>4. ASSUME NEW p \in Sessions  PROVE  Carried(p)'
    <2>1. toR'[p] = << >> /\ ~ Has(toR'[p], "push_end") /\ DOMAIN toR'[p] = {}
      BY <1>2 DEF Has
    <2>2. ~ broken'[p] => ~ broken[p] /\ spc[p] = "none"
      BY <1>2
    <2> QED
      BY <1>2, <2>1, <2>2 DEF SyncInv, Carried, Stored
  <1>5. Readable'
    <2> SUFFICES ASSUME \A p \in Sessions : rpc'[p] # "failed"
                 PROVE  /\ torn' = {} /\ objects' \subseteq {c \in Chunks : refs[c] > 0}
                        /\ \A f \in Files : \A i \in DOMAIN rLatest[f] : rLatest[f][i] \in objects'
      BY <1>2 DEF Readable, ReceiverCrash
    <2>1. \A p \in Sessions : rpc[p] \notin {"failed", "receive"}
      BY <1>2
    <2>2. \A p \in Sessions : ObjectInHand(p) = {}
      BY <2>1 DEF ObjectInHand
    <2>3. torn = {} /\ partial = {} /\ objects \subseteq {c \in Chunks : refs[c] > 0}
      BY <2>1 DEF SyncInv, Readable
    <2>4. torn' = {} /\ objects' = objects
      <3>1. PICK half \in {{}} \cup {ObjectInHand(p) : p \in Sessions} :
               \/ torn' = torn \cup partial \cup (half \ objects) /\ UNCHANGED objects
               \/ objects' = objects \cup (half \ torn) /\ torn' = torn \cup (partial \ half)
        BY DEF ReceiverCrash
      <3>2. half = {}
        BY <2>2, <3>1
      <3> QED
        BY <2>3, <3>1, <3>2
    <2> QED
      BY <2>1, <2>3, <2>4 DEF SyncInv, Readable
  <1> QED
    BY <1>3, <1>4, <1>5 DEF SyncInv

\* A write that fails ends its session; what is cut short stays on disk.
LEMMA Failing ==
  ASSUME SyncInv, NEW p \in Sessions, WriteFails(p)
  PROVE  SyncInv'
  <1>1. SyncType /\ Carried(p)
    BY DEF SyncInv
  <1>2. /\ used["fault"] < Limit["fault"] /\ used' = [used EXCEPT !["fault"] = @ + 1]
        /\ broken' = [broken EXCEPT ![p] = TRUE] /\ rpc' = [rpc EXCEPT ![p] = "failed"]
        /\ toR' = [toR EXCEPT ![p] = << >>]
        /\ Kept \subseteq Kept' /\ Filed \subseteq Filed'
        /\ UNCHANGED <<senderVars, spc, snapshot, left, chunk, toS, rLatest, refs, sent>>
    BY DEF WriteFails, Spend, RGoto, LoseManifests, Kept, Filed
  <1>3. SyncType'
    <2>1. used' \in [Kinds -> Nat] /\ used'["backup"] = used["backup"]
      BY <1>1, <1>2 DEF SyncType, Kinds
    <2>2. toR' \in [Sessions -> Seq(Frames)]
      <3>1. << >> \in Seq(Frames)
        OBVIOUS
      <3> QED
        BY <1>1, <1>2, <3>1 DEF SyncType
    <2> QED
      BY <1>1, <1>2, <2>1, <2>2 DEF SyncType, senderVars
  <1>4. Carried(p)'
    <2>1. toR'[p] = << >> /\ ~ Has(toR'[p], "push_end") /\ DOMAIN toR'[p] = {} /\ broken'[p]
      BY <1>1, <1>2 DEF Has, SyncType
    <2> QED
      BY <1>1, <1>2, <2>1 DEF Carried, Stored
  <1>5. ASSUME NEW q \in Sessions \ {p}  PROVE  Carried(q)'
    BY <1>1, <1>2, OthersCarried DEF SyncType
  <1>6. Readable'
    <2>1. rpc'[p] = "failed"
      BY <1>1, <1>2 DEF SyncType
    <2> QED
      BY <2>1 DEF Readable
  <1> QED
    BY <1>3, <1>4, <1>5, <1>6 DEF SyncInv

LEMMA SyncStep == SyncInv /\ [Next]_vars => SyncInv'
  <1> SUFFICES ASSUME SyncInv, [Next]_vars  PROVE  SyncInv'
    OBVIOUS
  <1>1. CASE UNCHANGED vars \/ Idle
    <2>1. UNCHANGED vars
      BY <1>1 DEF Idle
    <2> QED
      BY <2>1 DEF vars, senderVars, wireVars, receiverVars, storeVars, listVars, Kept, Filed, SyncInv, SyncType, Carried,
                  Stored, Readable
  <1>2. ASSUME NEW p \in Sessions, NEW s \in Versions, PushSnapshot(p, s) \/ PullSnapshot(p, s)
        PROVE  SyncInv'
    BY <1>2, Dialing
  <1>3. ASSUME NEW p \in Sessions, SenderStep(p)  PROVE  SyncInv'
    BY <1>3, SenderHandshake, ListSent, ObjectOrEndSent, AckTaken, Fails DEF SenderStep
  <1>4. ASSUME NEW p \in Sessions, ReceiverStep(p)  PROVE  SyncInv'
    BY <1>4, ReceiverHandshake, ListStored, ObjectStored, Registered, Fails DEF ReceiverStep
  <1>5. ASSUME NEW p \in Sessions, Break(p) \/ WriteFails(p)  PROVE  SyncInv'
    BY <1>5, Breaks, Failing
  <1> QED
    BY <1>1, <1>2, <1>3, <1>4, <1>5, Backups, Crashes DEF Next

-----------------------------------------------------------------------------

\* A transfer that the sender reports as done is at the receiver for good, whatever breaks,
\* fails, crashes, is backed up or sent at the same time, but for what an interrupted write
\* left in part: send_snapshot returns Ok only for the acknowledgement, which follows all
\* the objects.
THEOREM DoneMeansStored == Spec => []DoneIsStored
  <1>1. SyncInv => DoneIsStored
    BY DEF SyncInv, Carried, Stored, DoneIsStored, Kept, Filed
  <1> QED
    BY <1>1, InitSync, SyncStep, PTL DEF Spec

\* As long as no transfer has failed, what the receiver's index names when none is under
\* way is in its store and counted.
THEOREM QuietMeansReadable == Spec => []QuietReadable
  <1>1. SyncInv => QuietReadable
    <2> SUFFICES ASSUME SyncInv, \A p \in Sessions : rpc[p] \in {"none", "done"},
                        NEW f \in Files, NEW i \in DOMAIN rLatest[f]
                 PROVE  rLatest[f][i] \in objects /\ refs[rLatest[f][i]] > 0
      BY DEF QuietReadable
    <2>1. rLatest[f][i] \in objects
      BY DEF SyncInv, Readable
    <2> QED
      BY <2>1 DEF SyncInv, Readable
  <1> QED
    BY <1>1, InitSync, SyncStep, PTL DEF Spec

-----------------------------------------------------------------------------
(* The list that a restart loads *)

\* A set of numbers has a least one.
LEMMA LeastNumber ==
  ASSUME NEW T, T \subseteq Nat, T # {}
  PROVE  \E i \in T : \A j \in T : i <= j
  <1> DEFINE R == {ss \in Nat \X Nat : ss[1] < ss[2]}
  <1>1. IsWellFoundedOn(R, Nat)
    BY NatLessThanWellFounded, Zenon DEF OpToRel
  <1>2. \A i, j \in Nat : <<j, i>> \in R <=> j < i
    OBVIOUS
  <1> HIDE DEF R
  <1>3. PICK i \in T : \A j \in T : <<j, i>> \notin R
    BY <1>1, WFMin, Zenon
  <1>4. ASSUME NEW j \in T PROVE i <= j
    <2>1. i \in Nat /\ j \in Nat
      OBVIOUS
    <2>2. ~ (j < i)
      BY <1>2, <1>3, <2>1, Zenon
    <2> QED
      BY <2>1, <2>2
  <1> QED
    BY <1>4

\* The lists of all of S's elements, in ascending order.
Ascending(S) == {q \in [1..Cardinality(S) -> S] : \A i, j \in DOMAIN q : i < j => q[i] < q[j]}

\* Numbers up to a bound can be listed in order: otherwise there would be a least bound
\* for which they cannot, and without it, or before it, they can.
LEMMA Listable ==
  ASSUME NEW n \in Nat
  PROVE  \A S \in SUBSET (1..n) : Ascending(S) # {}
  <1> DEFINE Listed(m) == \A S \in SUBSET (1..m) : Ascending(S) # {}
             Unlisted == {m \in Nat : ~ Listed(m)}
  <1>1. SUFFICES ASSUME Unlisted # {}  PROVE  FALSE
    OBVIOUS
  <1>2. PICK m \in Unlisted : \A k \in Unlisted : m <= k
    <2> HIDE DEF Unlisted
    <2>1. Unlisted \subseteq Nat
      BY DEF Unlisted
    <2> QED
      BY <1>1, <2>1, LeastNumber, Zenon
  <1>3. m \in Nat /\ ~ Listed(m)
    OBVIOUS
  <1>4. PICK S \in SUBSET (1..m) : Ascending(S) = {}
    BY <1>3
  <1>5. m # 0
    <2>1. ASSUME m = 0 PROVE FALSE
      <3>1. S = {}
        BY <2>1
      <3>2. Cardinality(S) = 0
        BY <3>1, FS_EmptySet
      <3>3. 1..Cardinality(S) = {}
        BY <3>2
      <3>4. [i \in {} |-> i] \in Ascending(S)
        BY <3>3 DEF Ascending
      <3> QED
        BY <1>4, <3>4
    <2> QED
      BY <2>1
  <1>6. m - 1 \in Nat /\ Listed(m - 1)
    <2>1. m - 1 \in Nat /\ ~ (m <= m - 1)
      BY <1>3, <1>5
    <2> HIDE DEF Listed
    <2> QED
      BY <1>2, <2>1
  <1> DEFINE T == S \ {m}
  <1>7. T \in SUBSET (1..m - 1) /\ m \in 1..m /\ \A i \in T : i < m
    BY <1>3, <1>5
  <1>8. PICK q : q \in Ascending(T)
    BY <1>6, <1>7
  <1>9. m \in S
    <2>1. ASSUME m \notin S  PROVE  FALSE
      <3>1. T = S
        BY <2>1
      <3> QED
        BY <1>4, <1>8, <3>1
    <2> QED
      BY <2>1
  <1>10. IsFiniteSet(S) /\ Cardinality(S) \in Nat /\ Cardinality(T) = Cardinality(S) - 1
         /\ Cardinality(T) \in Nat
    <2>1. IsFiniteSet(1..m)
      BY <1>3, FS_Interval
    <2>2. IsFiniteSet(S)
      BY <2>1, FS_Subset
    <2>3. IsFiniteSet(T) /\ Cardinality(T) = Cardinality(S) - 1
      BY <1>9, <2>2, FS_RemoveElement
    <2> QED
      BY <2>2, <2>3, FS_CardinalityType
  <1> DEFINE c == Cardinality(S)
             r == [i \in 1..c |-> IF i = c THEN m ELSE q[i]]
  <1>11. q \in [1..c - 1 -> T] /\ \A i, j \in 1..c - 1 : i < j => q[i] < q[j]
    <2>1. q \in [1..c - 1 -> T] /\ \A i, j \in DOMAIN q : i < j => q[i] < q[j]
      BY <1>8, <1>10 DEF Ascending
    <2> QED
      BY <2>1
  <1>12. c \in Nat
    BY <1>10
  <1> HIDE DEF c
  <1>13. \A i \in 1..c : i = c \/ i \in 1..c - 1
    BY <1>12
  <1> HIDE DEF T
  <1>14. \A i \in 1..c : r[i] = IF i = c THEN m ELSE q[i]
    OBVIOUS
  <1>15. r \in [1..c -> S]
    <2>1. \A i \in 1..c : r[i] \in S
      BY <1>9, <1>11, <1>13, <1>14 DEF T
    <2> QED
      BY <2>1
  <1>16. DOMAIN r = 1..c
    OBVIOUS
  <1> HIDE DEF r
  <1>17. ASSUME NEW i \in 1..c, NEW j \in 1..c, i < j  PROVE  r[i] < r[j]
    <2>1. i \in 1..c - 1
      BY <1>12, <1>17
    <2>2. r[i] = q[i] /\ q[i] \in T
      BY <1>11, <1>12, <1>14, <2>1
    <2>3. CASE j = c
      BY <1>7, <1>14, <2>2, <2>3
    <2>4. CASE j # c
      <3>1. j \in 1..c - 1 /\ r[j] = q[j]
        BY <1>13, <1>14, <2>4
      <3> QED
        BY <1>11, <1>17, <2>1, <2>2, <3>1
    <2> QED
      BY <2>3, <2>4
  <1>18. r \in Ascending(S)
    BY <1>15, <1>16, <1>17 DEF Ascending, c
  <1> QED
    BY <1>4, <1>18

\* The snapshots on disk are loaded into a list of snapshots.
LEMMA Loaded ==
  ASSUME NEW n \in Nat, NEW S \in SUBSET (1..n)
  PROVE  InOrder(S) \in Seq(1..n)
  <1>1. InOrder(S) \in [1..Cardinality(S) -> S]
    BY Listable DEF Ascending, InOrder
  <1>2. Cardinality(S) \in Nat
    <2>1. IsFiniteSet(1..n)
      BY FS_Interval
    <2>2. IsFiniteSet(S)
      BY <2>1, FS_Subset
    <2> QED
      BY <2>2, FS_CardinalityType
  <1> HIDE DEF InOrder
  <1>3. InOrder(S) \in [1..Cardinality(S) -> 1..n]
    BY <1>1
  <1> QED
    BY <1>2, <1>3

-----------------------------------------------------------------------------
(* Who speaks *)

\* The frames to the receiver that it answers.
Questions == {"hello", "hello_ack", "push_begin", "push_end"}
Asks(queue) == {i \in DOMAIN queue : queue[i].type \in Questions}

\* A session has at most one question in flight, or one answer to it; before the first
\* question, and between the files, it has neither.
Turns(p) ==
    /\ Len(toS[p]) <= 1
    /\ toS[p] # << >> => Asks(toR[p]) = {}
    /\ \A i, j \in Asks(toR[p]) : i = j
    /\ spc[p] = "none" => toR[p] = << >> /\ toS[p] = << >>
    /\ spc[p] \in {"file", "object"} => toS[p] = << >> /\ Asks(toR[p]) = {}

\* A frame that is put into a queue is its only question, or none.
LEMMA Asked ==
  ASSUME NEW q \in Seq(Frames), NEW x \in Frames
  PROVE  /\ Asks(q) = {} => \A i, j \in Asks(Append(q, x)) : i = j
         /\ x.type \notin Questions /\ Asks(q) = {} => Asks(Append(q, x)) = {}
  <1>1. \A i \in Asks(Append(q, x)) :
           i \in Asks(q) \/ (i = Len(Append(q, x)) /\ x.type \in Questions)
    <2>1. \A i \in DOMAIN Append(q, x) :
               \/ i \in DOMAIN q /\ Append(q, x)[i] = q[i]
               \/ i = Len(Append(q, x)) /\ Append(q, x)[i] = x
      BY Appended
    <2> QED
      BY <2>1 DEF Asks
  <1> QED
    BY <1>1

\* Taking a frame asks nothing, and takes the question when it is one.
LEMMA Answered ==
  ASSUME NEW q \in Seq(Frames), q # << >>, \A i, j \in Asks(q) : i = j
  PROVE  /\ \A i, j \in Asks(Tail(q)) : i = j
         /\ Asks(q) = {} => Asks(Tail(q)) = {}
         /\ Head(q).type \in Questions => Asks(q) # {} /\ Asks(Tail(q)) = {}
  <1>1. /\ 1 \in DOMAIN q /\ Head(q) = q[1]
        /\ \A i \in DOMAIN Tail(q) : i \in Nat /\ i >= 1 /\ i + 1 \in DOMAIN q
                                     /\ Tail(q)[i] = q[i + 1]
    BY Taken
  <1>2. \A i \in Asks(Tail(q)) : i \in Nat /\ i >= 1 /\ i + 1 \in Asks(q)
    BY <1>1 DEF Asks
  <1>3. Head(q).type \in Questions => 1 \in Asks(q)
    BY <1>1 DEF Asks
  <1>4. ASSUME NEW i \in Asks(Tail(q)), NEW j \in Asks(Tail(q)) PROVE i = j
    <2>1. i + 1 = j + 1
      BY <1>2
    <2> QED
      BY <1>2, <2>1
  <1>5. ASSUME 1 \in Asks(q), NEW i \in Asks(Tail(q)) PROVE FALSE
    <2>1. i + 1 = 1
      BY <1>2, <1>5
    <2> QED
      BY <1>2, <2>1
  <1> QED
    BY <1>2, <1>3, <1>4, <1>5

\* One frame in an empty queue is one frame.
LEMMA AtMostOne ==
  ASSUME NEW x \in Frames, NEW q, q = << >> \/ q = Append(<< >>, x)
  PROVE  Len(q) <= 1
  <1>1. << >> \in Seq(Frames) /\ Len(<< >>) = 0
    OBVIOUS
  <1>2. Len(Append(<< >>, x)) = 1
    BY <1>1
  <1>3. CASE q = << >>
    BY <1>1, <1>3
  <1>4. CASE q = Append(<< >>, x)
    BY <1>2, <1>4
  <1> QED
    BY <1>3, <1>4

\* Nothing is left of an empty queue.
LEMMA NothingLeft ==
  ASSUME NEW q \in Seq(Frames), NEW r \in Prefixes(q), q = << >>
  PROVE  r = << >>
  <1>1. r \in Seq(Frames) /\ \A i \in DOMAIN r : i \in DOMAIN q
    BY Cutoff
  <1>2. Len(r) \in Nat /\ DOMAIN r = 1..Len(r) /\ DOMAIN q = {}
    BY <1>1
  <1>3. 1 \notin DOMAIN r
    BY <1>1, <1>2
  <1>4. Len(r) = 0
    BY <1>2, <1>3
  <1> QED
    BY <1>1, <1>4

\* A queue with at most one frame is empty when that is taken.
LEMMA Single ==
  ASSUME NEW q \in Seq(Frames), Len(q) <= 1
  PROVE  q # << >> => Tail(q) = << >>
  OBVIOUS

-----------------------------------------------------------------------------

\* The session of a step keeps its turns, when the sender takes an answer and asks ...
LEMMA SenderAsks ==
  ASSUME SyncType, NEW p \in Sessions, Turns(p), NEW type, NEW x \in Frames,
         SenderAnswers(p, type, x), spc'[p] \notin {"none", "file", "object"}
  PROVE  Turns(p)'
  <1>1. toR[p] \in Seq(Frames) /\ toS[p] \in Seq(Frames)
    BY DEF SyncType
  <1>2. /\ toR'[p] = Append(toR[p], x) /\ toS'[p] = Tail(toS[p]) /\ toS[p] # << >>
    BY SenderAnswering
  <1>3. toS'[p] = << >> /\ Asks(toR[p]) = {}
    BY <1>1, <1>2, Single DEF Turns
  <1>4. \A i, j \in Asks(toR'[p]) : i = j
    BY <1>1, <1>2, <1>3, Asked
  <1> QED
    BY <1>3, <1>4 DEF Turns

\* ... and when the receiver takes a question and answers.
LEMMA ReceiverReplies ==
  ASSUME SyncType, NEW p \in Sessions, Turns(p), NEW type \in Questions, NEW x \in Frames,
         ReceiverAnswers(p, type, x), spc'[p] = spc[p]
  PROVE  Turns(p)'
  <1>1. toR[p] \in Seq(Frames) /\ toS[p] \in Seq(Frames)
    BY DEF SyncType
  <1>2. /\ toR[p] # << >> /\ Head(toR[p]).type = type /\ toR'[p] = Tail(toR[p])
        /\ toS'[p] = toS[p] \/ toS'[p] = Append(toS[p], x)
    BY ReceiverAnswering
  <1>3. Asks(toR[p]) # {} /\ Asks(toR'[p]) = {}
    BY <1>1, <1>2, Answered DEF Turns
  <1>4. toS[p] = << >> /\ spc[p] \notin {"none", "file", "object"}
    BY <1>2, <1>3 DEF Turns
  <1>5. Len(toS'[p]) <= 1
    <2>1. toS'[p] = << >> \/ toS'[p] = Append(<< >>, x)
      BY <1>2, <1>4
    <2> QED
      BY <2>1, AtMostOne, Zenon
  <1> QED
    BY <1>3, <1>4, <1>5 DEF Turns

\* The sender asks nothing when it sends a file.
LEMMA SenderTells ==
  ASSUME SyncType, NEW p \in Sessions, Turns(p), NEW x \in Frames, SendToR(p, x),
         toS' = toS, spc[p] \in {"file", "object"}, spc'[p] # "none",
         spc'[p] \in {"file", "object"} => x.type \notin Questions
  PROVE  Turns(p)'
  <1>1. toR[p] \in Seq(Frames) /\ toR'[p] = Append(toR[p], x)
    BY Sending DEF SyncType
  <1>2. toS'[p] = << >> /\ Asks(toR[p]) = {} /\ Len(toS'[p]) <= 1
    BY DEF Turns
  <1>3. /\ \A i, j \in Asks(toR'[p]) : i = j
        /\ spc'[p] \in {"file", "object"} => Asks(toR'[p]) = {}
    BY <1>1, <1>2, Asked
  <1> QED
    BY <1>2, <1>3 DEF Turns

\* Nothing is asked when the receiver takes a chunk list or an object.
LEMMA ReceiverListens ==
  ASSUME SyncType, NEW p \in Sessions, Turns(p), NEW type, TakeFrame(p, type)
  PROVE  Turns(p)'
  <1>1. /\ toR[p] # << >> /\ toR[p] \in Seq(Frames) /\ toR'[p] = Tail(toR[p])
        /\ toS' = toS /\ spc' = spc
    BY DEF TakeFrame, Hears, SyncType
  <1>2. spc[p] # "none"
    BY <1>1 DEF Turns
  <1>3. /\ \A i, j \in Asks(toR'[p]) : i = j
        /\ Asks(toR[p]) = {} => Asks(toR'[p]) = {}
    BY <1>1, Answered DEF Turns
  <1> QED
    BY <1>1, <1>2, <1>3 DEF Turns

-----------------------------------------------------------------------------

\* Every session speaks in turn, whatever step is taken.
LEMMA TurnsStep ==
  ASSUME SyncInv, \A p \in Sessions : Turns(p), [Next]_vars
  PROVE  \A p \in Sessions : Turns(p)'
  <1> SUFFICES ASSUME NEW p \in Sessions  PROVE  Turns(p)'
    OBVIOUS
  <1>1. SyncType /\ Turns(p) /\ toR[p] \in Seq(Frames) /\ toS[p] \in Seq(Frames)
    BY DEF SyncInv, SyncType
  <1>2. ASSUME spc'[p] = spc[p], toR'[p] = toR[p], toS'[p] = toS[p]
        PROVE  Turns(p)'
    BY <1>1, <1>2 DEF Turns
  <1>3. ASSUME spc'[p] = "failed" \/ spc'[p] = spc[p],
               toR'[p] \in Prefixes(toR[p]), toS'[p] \in Prefixes(toS[p])
        PROVE  Turns(p)'
    <2>1. /\ \A i \in DOMAIN toR'[p] : i \in DOMAIN toR[p] /\ toR'[p][i] = toR[p][i]
          /\ toR'[p] \in Seq(Frames) /\ toS'[p] \in Seq(Frames)
          /\ \A i \in DOMAIN toS'[p] : i \in DOMAIN toS[p]
      BY <1>1, <1>3, Cutoff
    <2>2. Asks(toR'[p]) \subseteq Asks(toR[p])
      BY <2>1 DEF Asks
    <2>3. toR[p] = << >> => toR'[p] = << >>
      BY <1>1, <1>3, NothingLeft
    <2>4. toS[p] = << >> => toS'[p] = << >>
      BY <1>1, <1>3, NothingLeft
    <2>5. Len(toS'[p]) <= 1
      <3>1. Len(toS'[p]) \in Nat /\ (Len(toS'[p]) > 1 => 2 \in DOMAIN toS'[p])
        BY <2>1
      <3>2. Len(toS[p]) <= 1
        BY <1>1 DEF Turns
      <3>3. 2 \notin DOMAIN toS[p]
        BY <1>1, <3>2
      <3> QED
        BY <2>1, <3>1, <3>3
    <2> QED
      BY <1>1, <1>3, <2>2, <2>3, <2>4, <2>5 DEF Turns
  <1>4. ASSUME NEW q \in Sessions \ {p}, NEW s \in Versions,
               \/ PushSnapshot(q, s) \/ PullSnapshot(q, s) \/ SenderStep(q)
               \/ ReceiverStep(q) \/ Break(q) \/ WriteFails(q)
        PROVE  Turns(p)'
    <2>1. spc'[p] = spc[p] /\ toR'[p] = toR[p] /\ toS'[p] = toS[p]
      BY <1>1, <1>4 DEF PushSnapshot, PullSnapshot, SenderStep, ReceiverStep, Break, WriteFails, SyncType,
         SGoto, RGoto, SendToR, Reply, SenderAnswers, ReceiverAnswers, SenderAuthenticates,
         BeginPush, ExpectReady, SendFileChunks, SendObject, SendEnd, ExpectAck, SenderFails,
         ReceiverAuthenticates, RequestPull, AcceptPush, StoreFileChunks, StoreObject, TakeFrame,
         Register, ReceiverFails, wireVars
    <2> QED
      BY <1>2, <2>1
  <1>5. ASSUME NEW s \in Versions, PushSnapshot(p, s) PROVE Turns(p)'
    <2> DEFINE x == [type |-> "hello"]
    <2>1. toR[p] = << >> /\ toS[p] = << >>
      BY <1>1, <1>5 DEF PushSnapshot, Turns
    <2>2. x \in Frames
      BY SignalFrames DEF Signals
    <2>3. toR'[p] = Append(toR[p], x) /\ toS' = toS /\ spc'[p] = "dialed"
      BY <1>1, <1>5, <2>2, Sending DEF PushSnapshot, SyncType, SGoto
    <2>4. Asks(toR[p]) = {}
      BY <2>1 DEF Asks
    <2>5. \A i, j \in Asks(toR'[p]) : i = j
      BY <1>1, <2>2, <2>3, <2>4, Asked
    <2> QED
      BY <2>1, <2>3, <2>5 DEF Turns
  <1>6. ASSUME NEW s \in Versions, PullSnapshot(p, s) PROVE Turns(p)'
    <2> DEFINE x == [type |-> "hello"]
    <2>1. toR[p] = << >> /\ toS[p] = << >>
      BY <1>1, <1>6 DEF PullSnapshot, Turns
    <2>2. toR'[p] = << >> /\ spc'[p] = "accepted"
          /\ (toS'[p] = << >> \/ toS'[p] = Append(<< >>, x))
      BY <1>1, <1>6, <2>1 DEF PullSnapshot, SyncType, SGoto, Reply
    <2>3. x \in Frames
      BY SignalFrames DEF Signals
    <2>4. Len(toS'[p]) <= 1
      BY <2>2, <2>3, AtMostOne, Zenon
    <2>5. Asks(toR'[p]) = {}
      BY <2>2 DEF Asks
    <2> QED
      BY <2>2, <2>4, <2>5 DEF Turns
  <1>7. CASE SenderStep(p)
    <2>1. CASE SenderAuthenticates(p)
      <3>1. [type |-> "hello_ack"] \in Frames
        BY SignalFrames DEF Signals
      <3> QED
        BY <1>1, <2>1, <3>1, SenderAsks DEF SenderAuthenticates, SGoto, SyncType
    <2>2. CASE BeginPush(p)
      <3>1. [type |-> "push_begin"] \in Frames
        BY SignalFrames DEF Signals
      <3>2. spc'[p] = "ready"
        BY <1>1, <2>2 DEF BeginPush, SGoto, SyncType
      <3> QED
        BY <1>1, <2>2, <3>1, <3>2, SenderAsks DEF BeginPush
    <2>3. CASE ExpectReady(p) \/ ExpectAck(p)
      <3>1. /\ toS[p] # << >> /\ toS'[p] = Tail(toS[p]) /\ toR' = toR
            /\ spc'[p] \in {"file", "done"}
        BY <1>1, <2>3 DEF ExpectReady, ExpectAck, Hears, SGoto, SyncType
      <3>2. toS'[p] = << >> /\ Asks(toR'[p]) = {}
        BY <1>1, <3>1, Single DEF Turns
      <3> QED
        BY <3>1, <3>2 DEF Turns
    <2>4. CASE SendFileChunks(p)
      <3> DEFINE f == CHOOSE f \in left[p] : TRUE
                 x == [type |-> "file_chunks", file |-> f, chunk |-> sLatest[f]]
      <3>1. f \in Files
        BY <1>1, <2>4 DEF SendFileChunks, SyncType
      <3>2. x \in Frames /\ x.type \notin Questions
        BY <1>1, <3>1 DEF Frames, SyncType, Questions
      <3>3. SendToR(p, x) /\ toS' = toS /\ spc[p] = "file" /\ spc'[p] = "object"
        BY <1>1, <2>4 DEF SendFileChunks, SGoto, SyncType
      <3> HIDE DEF x
      <3> QED
        BY <1>1, <3>2, <3>3, SenderTells
    <2>5. CASE SendObject(p)
      <3> DEFINE x == [type |-> "object", chunk |-> chunk[p]]
      <3>1. chunk[p] \in Chunks
        BY <1>1, <2>5 DEF SendObject, SyncInv, Carried
      <3>2. x \in Frames /\ x.type \notin Questions
        BY <3>1 DEF Frames, Questions
      <3>3. SendToR(p, x) /\ toS' = toS /\ spc[p] = "object" /\ spc'[p] = "file"
        BY <1>1, <2>5 DEF SendObject, SGoto, SyncType
      <3> HIDE DEF x
      <3> QED
        BY <1>1, <3>2, <3>3, SenderTells
    <2>6. CASE SendEnd(p)
      <3> DEFINE x == [type |-> "push_end"]
      <3>1. x \in Frames
        BY SignalFrames DEF Signals
      <3>2. SendToR(p, x) /\ toS' = toS /\ spc[p] = "file" /\ spc'[p] = "ack"
        BY <1>1, <2>6 DEF SendEnd, SGoto, SyncType
      <3> HIDE DEF x
      <3> QED
        BY <1>1, <3>1, <3>2, SenderTells
    <2>7. CASE SenderFails(p)
      <3>1. spc'[p] = "failed" /\ toR' = toR /\ toS' = toS
        BY <1>1, <2>7 DEF SenderFails, SGoto, SyncType, wireVars
      <3> QED
        BY <1>1, <3>1 DEF Turns
    <2> QED
      BY <1>7, <2>1, <2>2, <2>3, <2>4, <2>5, <2>6, <2>7 DEF SenderStep
  <1>8. CASE ReceiverStep(p)
    <2>1. CASE ReceiverAuthenticates(p)
      <3>1. [type |-> "hello_ack"] \in Frames /\ "hello" \in Questions
        BY SignalFrames DEF Signals, Questions
      <3> QED
        BY <1>1, <2>1, <3>1, ReceiverReplies DEF ReceiverAuthenticates
    <2>2. CASE RequestPull(p)
      <3>1. [type |-> "pull_request"] \in Frames /\ "hello_ack" \in Questions
        BY SignalFrames DEF Signals, Questions
      <3> QED
        BY <1>1, <2>2, <3>1, ReceiverReplies DEF RequestPull
    <2>3. CASE AcceptPush(p)
      <3>1. [type |-> "push_ready"] \in Frames /\ "push_begin" \in Questions
        BY SignalFrames DEF Signals, Questions
      <3> QED
        BY <1>1, <2>3, <3>1, ReceiverReplies DEF AcceptPush
    <2>4. CASE Register(p)
      <3>1. [type |-> "push_ack"] \in Frames /\ "push_end" \in Questions
        BY SignalFrames DEF Signals, Questions
      <3> QED
        BY <1>1, <2>4, <3>1, ReceiverReplies DEF Register
    <2>5. CASE StoreFileChunks(p) \/ StoreObject(p)
      BY <1>1, <2>5, ReceiverListens DEF StoreFileChunks, StoreObject
    <2>6. CASE ReceiverFails(p)
      BY <1>2, <2>6 DEF ReceiverFails, wireVars
    <2> QED
      BY <1>8, <2>1, <2>2, <2>3, <2>4, <2>5, <2>6 DEF ReceiverStep
  <1>9. CASE Break(p)
    BY <1>1, <1>3, <1>9 DEF Break, SyncType
  <1>10. CASE ReceiverCrash \/ WriteFails(p)
    <2>1. spc' = spc /\ toS' = toS /\ toR'[p] = << >>
      BY <1>1, <1>10 DEF ReceiverCrash, WriteFails, SyncType
    <2>2. Asks(toR'[p]) = {}
      BY <2>1 DEF Asks
    <2> QED
      BY <1>1, <2>1, <2>2 DEF Turns
  <1>11. CASE SenderBackup \/ UNCHANGED vars
    BY <1>2, <1>11 DEF SenderBackup, vars, wireVars
  <1> QED
    <2>1. ASSUME NEW q \in Sessions, NEW s \in Versions,
                 \/ PushSnapshot(q, s) \/ PullSnapshot(q, s) \/ SenderStep(q)
                 \/ ReceiverStep(q) \/ Break(q) \/ WriteFails(q)
          PROVE  Turns(p)'
      <3>1. CASE q = p
        BY <1>5, <1>6, <1>7, <1>8, <1>9, <1>10, <2>1, <3>1, Zenon
      <3>2. CASE q # p
        BY <1>4, <2>1, <3>2
      <3> QED
        BY <3>1, <3>2
    <2>2. 1 \in Versions
      BY LimitAssumption DEF Kinds, Versions
    <2> QED
      BY <1>10, <1>11, <2>1, <2>2, Zenon DEF Next, Idle

-----------------------------------------------------------------------------
(* Type correctness *)

\* What the types say of the receiver's snapshots and lists, and of the frames in flight.
Known ==
    /\ snapshot \in [Sessions -> 1..version]
    /\ manifests \subseteq 1..version /\ cut \subseteq (1..version) \ manifests
    /\ cache \in Seq(1..version)
    /\ \A f \in Files : Len(rLatest[f]) <= 1
    /\ \A p \in Sessions : Len(toR[p]) <= Window

\* No queue to the receiver gets longer than the window.
LEMMA WindowKept ==
  ASSUME SyncType, \A p \in Sessions : Len(toR[p]) <= Window, [Next]_vars
  PROVE  \A p \in Sessions : Len(toR'[p]) <= Window
  <1> SUFFICES ASSUME NEW p \in Sessions  PROVE  Len(toR'[p]) <= Window
    OBVIOUS
  <1> USE WindowAssumption
  <1>1. toR[p] \in Seq(Frames) /\ Len(toR[p]) \in Nat /\ Len(toR[p]) <= Window
    BY DEF SyncType
  <1>2. ASSUME \/ toR'[p] = toR[p] \/ toR'[p] = << >>
               \/ toR[p] # << >> /\ toR'[p] = Tail(toR[p])
               \/ \E x \in Frames : toR'[p] = Append(toR[p], x) /\ CanSend(p)
               \/ toR'[p] \in Prefixes(toR[p])
        PROVE  Len(toR'[p]) <= Window
    <2>1. CASE toR'[p] = toR[p] \/ toR'[p] = << >>
      BY <1>1, <2>1
    <2>2. CASE toR[p] # << >> /\ toR'[p] = Tail(toR[p])
      <3>1. Len(toR'[p]) = Len(toR[p]) - 1
        BY <1>1, <2>2
      <3> QED
        BY <1>1, <3>1
    <2>3. CASE \E x \in Frames : toR'[p] = Append(toR[p], x) /\ CanSend(p)
      <3>1. Len(toR'[p]) = Len(toR[p]) + 1 /\ Len(toR[p]) < Window
        BY <1>1, <2>3 DEF CanSend
      <3> QED
        BY <1>1, <3>1
    <2>4. CASE toR'[p] \in Prefixes(toR[p])
      <3>1. PICK n \in 0..Len(toR[p]) : toR'[p] = SubSeq(toR[p], 1, n)
        BY <2>4 DEF Prefixes
      <3>2. Len(toR'[p]) = n
        BY <1>1, <3>1
      <3> QED
        BY <1>1, <3>2
    <2> QED
      BY <1>2, <2>1, <2>2, <2>3, <2>4
  <1>3. ASSUME NEW q \in Sessions, NEW s \in Versions, PushSnapshot(q, s) \/ PullSnapshot(q, s)
        PROVE  Len(toR'[p]) <= Window
    <2>1. [type |-> "hello"] \in Frames
      BY SignalFrames DEF Signals
    <2>2. CASE PullSnapshot(q, s)
      BY <1>2, <2>2 DEF PullSnapshot
    <2>3. CASE PushSnapshot(q, s)
      <3>1. SendToR(q, [type |-> "hello"])
        BY <2>3 DEF PushSnapshot
      <3>2. toR \in [Sessions -> Seq(Frames)]
        BY DEF SyncType
      <3>3. \/ q = p /\ toR'[p] = Append(toR[p], [type |-> "hello"]) /\ CanSend(p)
            \/ toR'[p] = toR[p]
        BY <3>1, <3>2 DEF SendToR
      <3> QED
        BY <1>2, <2>1, <3>3
    <2> QED
      BY <1>3, <2>2, <2>3
  <1>4. ASSUME NEW q \in Sessions, SenderStep(q)
        PROVE  Len(toR'[p]) <= Window
    <2>1. ASSUME NEW x \in Frames, SendToR(q, x) PROVE Len(toR'[p]) <= Window
      BY <1>2, <2>1 DEF SendToR, SyncType
    <2>2. \A t \in Signals : [type |-> t] \in Frames
      BY SignalFrames
    <2>3. CASE SenderAuthenticates(q) \/ BeginPush(q) \/ SendEnd(q)
      BY <2>1, <2>2, <2>3 DEF SenderAuthenticates, BeginPush, SendEnd, SenderAnswers, Signals
    <2>4. CASE ExpectReady(q) \/ ExpectAck(q) \/ SenderFails(q)
      BY <1>2, <2>4 DEF ExpectReady, ExpectAck, SenderFails, wireVars
    <2>5. CASE SendFileChunks(q)
      <3> DEFINE f == CHOOSE f \in left[q] : TRUE
                 x == [type |-> "file_chunks", file |-> f, chunk |-> sLatest[f]]
      <3>1. f \in Files
        BY <2>5 DEF SendFileChunks, SyncType
      <3>2. x \in Frames
        BY <3>1 DEF Frames, SyncType
      <3>3. SendToR(q, x)
        BY <2>5 DEF SendFileChunks
      <3> HIDE DEF x
      <3> QED
        BY <2>1, <3>2, <3>3
    <2>6. CASE SendObject(q)
      BY <1>1, <1>2, <2>6 DEF SendObject, SendToR, SyncType, CanSend
    <2> QED
      BY <1>4, <2>3, <2>4, <2>5, <2>6 DEF SenderStep
  <1>5. ASSUME NEW q \in Sessions, ReceiverStep(q)
        PROVE  Len(toR'[p]) <= Window
    <2>1. toR'[p] = toR[p] \/ (toR[p] # << >> /\ toR'[p] = Tail(toR[p]))
      BY <1>5 DEF ReceiverStep, ReceiverAuthenticates, RequestPull, AcceptPush, StoreFileChunks,
         StoreObject, TakeFrame, Register, ReceiverFails, ReceiverAnswers, Hears, wireVars, SyncType
    <2> QED
      BY <1>2, <2>1
  <1>6. ASSUME NEW q \in Sessions, Break(q) \/ WriteFails(q)
        PROVE  Len(toR'[p]) <= Window
    BY <1>2, <1>6 DEF Break, WriteFails, SyncType
  <1>7. CASE ReceiverCrash \/ SenderBackup \/ UNCHANGED vars
    BY <1>2, <1>7 DEF ReceiverCrash, SenderBackup, vars, wireVars
  <1> QED
    BY <1>3, <1>4, <1>5, <1>6, <1>7, Zenon DEF Next, Idle

\* A list of numbers stays one when there are more of them.
LEMMA MoreNumbers ==
  ASSUME NEW m \in Nat, NEW n \in Nat, m <= n, NEW s \in Seq(1..m)
  PROVE  s \in Seq(1..n)
  <1>1. 1..m \subseteq 1..n
    OBVIOUS
  <1> DEFINE M == 1..m  N == 1..n
  <1>2. s \in Seq(M) /\ M \subseteq N
    BY <1>1
  <1> HIDE DEF M, N
  <1>3. s \in Seq(N)
    BY <1>2
  <1> QED
    BY <1>3 DEF N

\* Snapshots are known up to the sender's last, and a file has one chunk at the most.
LEMMA KnownStep ==
  ASSUME SyncType, Known, [Next]_vars
  PROVE  Known'
  <1> USE DEF Known
  <1>1. \A p \in Sessions : Len(toR'[p]) <= Window
    BY WindowKept
  <1>2. version \in Nat
    BY DEF SyncType, Kinds
  <1>3. ASSUME UNCHANGED <<version, snapshot, manifests, cut, cache, rLatest>>  PROVE  Known'
    BY <1>1, <1>3
  <1>4. ASSUME NEW p \in Sessions, NEW s \in Versions, PushSnapshot(p, s) \/ PullSnapshot(p, s)
        PROVE  Known'
    <2>1. UNCHANGED <<version, manifests, cut, cache, rLatest>>
          /\ snapshot' = [snapshot EXCEPT ![p] = s] /\ s <= version
      BY <1>4 DEF PushSnapshot, PullSnapshot, senderVars, receiverVars, listVars
    <2>2. s \in 1..version
      BY <1>2, <2>1 DEF Versions
    <2> QED
      BY <1>1, <2>1, <2>2
  <1>5. ASSUME NEW p \in Sessions, SenderStep(p) \/ Break(p)  PROVE  Known'
    BY <1>3, <1>5 DEF SenderStep, SenderAuthenticates, BeginPush, ExpectReady, SendFileChunks,
       SendObject, SendEnd, ExpectAck, SenderFails, Break, senderVars, receiverVars, listVars
  <1>6. ASSUME NEW p \in Sessions, ReceiverAuthenticates(p) \/ RequestPull(p) \/ AcceptPush(p)
               \/ StoreObject(p) \/ ReceiverFails(p)
        PROVE  Known'
    BY <1>3, <1>6 DEF ReceiverAuthenticates, RequestPull, AcceptPush, StoreObject, TakeFrame,
       ReceiverFails, senderVars, receiverVars, listVars
  <1>7. ASSUME NEW p \in Sessions, StoreFileChunks(p)  PROVE  Known'
    <2> DEFINE frame == Head(toR[p])
    <2>1. UNCHANGED <<version, snapshot, manifests, cut, cache>>
          /\ rLatest' = [rLatest EXCEPT ![frame.file] = <<frame.chunk>>]
      BY <1>7 DEF StoreFileChunks, TakeFrame, senderVars, listVars, InsertFileChunks
    <2> HIDE DEF frame
    <2>2. Len(<<frame.chunk>>) = 1
      OBVIOUS
    <2>3. ASSUME NEW f \in Files PROVE Len(rLatest'[f]) <= 1
      <3>1. rLatest'[f] = rLatest[f] \/ rLatest'[f] = <<frame.chunk>>
        BY <2>1 DEF SyncType
      <3>2. CASE rLatest'[f] = rLatest[f]
        BY <3>2, Zenon
      <3>3. CASE rLatest'[f] = <<frame.chunk>>
        <4>1. Len(rLatest'[f]) = 1
          BY <2>2, <3>3, Zenon
        <4> QED
          BY <4>1
      <3> QED
        BY <3>1, <3>2, <3>3
    <2> QED
      BY <1>1, <2>1, <2>3
  <1>8. ASSUME NEW p \in Sessions, Register(p)  PROVE  Known'
    <2>1. UNCHANGED <<version, snapshot, rLatest>>
          /\ manifests' = manifests \cup {snapshot[p]} /\ cut' = cut \ {snapshot[p]}
          /\ cache' = Append(cache, snapshot[p])
      BY <1>8 DEF Register, senderVars
    <2>2. snapshot[p] \in 1..version
      OBVIOUS
    <2> DEFINE V == 1..version
    <2>3. cache \in Seq(V) /\ snapshot[p] \in V /\ manifests \subseteq V
          /\ cut \subseteq V \ manifests /\ V' = V
      BY <2>1, <2>2
    <2>4. snapshot' \in [Sessions -> V]
      BY <2>1
    <2> HIDE DEF V
    <2>5. cache' \in Seq(V) /\ manifests' \subseteq V /\ cut' \subseteq V \ manifests'
      <3>1. Append(cache, snapshot[p]) \in Seq(V)
        BY <2>3
      <3>2. manifests \cup {snapshot[p]} \subseteq V
        BY <2>3, Zenon
      <3>3. cut \ {snapshot[p]} \subseteq V \ (manifests \cup {snapshot[p]})
        BY <2>3, Zenon
      <3> QED
        BY <2>1, <3>1, <3>2, <3>3, Zenon
    <2> QED
      BY <1>1, <2>1, <2>3, <2>4, <2>5 DEF V
  <1>9. CASE SenderBackup
    <2>1. version' = version + 1 /\ UNCHANGED <<snapshot, manifests, cut, cache, rLatest>>
      BY <1>9 DEF SenderBackup, receiverVars, listVars
    <2>2. cache' \in Seq(1..version')
      <3>1. cache \in Seq(1..version + 1)
        BY <1>2, MoreNumbers
      <3> QED
        BY <2>1, <3>1
    <2>3. 1..version \subseteq 1..version'
      BY <1>2, <2>1
    <2>4. /\ snapshot' \in [Sessions -> 1..version'] /\ manifests' \subseteq 1..version'
          /\ cut' \subseteq (1..version') \ manifests'
      BY <2>1, <2>3
    <2> QED
      BY <1>1, <2>1, <2>2, <2>4
  <1>10. CASE ReceiverCrash
    <2>1. UNCHANGED <<version, snapshot, rLatest>> /\ cache' = InOrder(manifests')
      BY <1>10 DEF ReceiverCrash, senderVars
    <2>2. PICK lost \in SUBSET UNION {ManifestInHand(p) : p \in Sessions} : LoseManifests(lost)
      BY <1>10 DEF ReceiverCrash
    <2>3. lost \subseteq 1..version
      BY DEF ManifestInHand
    <2>4. manifests' \in SUBSET (1..version) /\ cut' \subseteq (1..version) \ manifests'
      BY <2>2, <2>3 DEF LoseManifests
    <2>5. InOrder(manifests') \in Seq(1..version)
      BY <1>2, <2>4, Loaded
    <2> QED
      BY <1>1, <2>1, <2>4, <2>5
  <1>12. ASSUME NEW p \in Sessions, WriteFails(p)  PROVE  Known'
    <2>1. UNCHANGED <<version, snapshot, rLatest, cache>>
      BY <1>12 DEF WriteFails, senderVars
    <2>2. PICK lost \in SUBSET ManifestInHand(p) : LoseManifests(lost)
      BY <1>12 DEF WriteFails
    <2>3. lost \subseteq 1..version
      BY DEF ManifestInHand
    <2>4. manifests' \subseteq 1..version /\ cut' \subseteq (1..version) \ manifests'
      BY <2>2, <2>3 DEF LoseManifests
    <2> QED
      BY <1>1, <2>1, <2>4
  <1>11. CASE UNCHANGED vars
    BY <1>3, <1>11 DEF vars, senderVars, receiverVars, listVars
  <1> QED
    BY <1>4, <1>5, <1>6, <1>7, <1>8, <1>9, <1>10, <1>11, <1>12, Zenon DEF Next, ReceiverStep, Idle

\* What the types say of the receiver's store.
Sound ==
    /\ objects \subseteq Chunks
    /\ partial \subseteq Chunks \ objects
    /\ torn \subseteq Chunks \ (objects \cup partial)

\* A file of the store is whole, or in part and known to it or not; not two of these.
LEMMA SoundStep ==
  ASSUME SyncType, Sound, [Next]_vars
  PROVE  Sound'
  <1>1. ASSUME UNCHANGED <<objects, partial, torn>>  PROVE  Sound'
    BY <1>1 DEF Sound
  <1>2. ASSUME NEW p \in Sessions  PROVE  ObjectInHand(p) \subseteq Chunks
    <2> SUFFICES ASSUME toR[p] # << >>, Head(toR[p]).type = "object"
                 PROVE  Head(toR[p]).chunk \in Chunks
      BY DEF ObjectInHand, Hears
    <2>1. Head(toR[p]) \in Frames
      BY Taken DEF SyncType
    <2> QED
      BY <2>1 DEF Frames, Signals
  <1>3. ASSUME NEW p \in Sessions, StoreObject(p)  PROVE  Sound'
    <2> DEFINE c == Head(toR[p]).chunk
    <2>1. WriteObject(c) /\ rpc[p] = "receive" /\ Hears(toR, p, "object")
      BY <1>3 DEF StoreObject, TakeFrame
    <2>2. c \in Chunks
      BY <1>2, <2>1 DEF ObjectInHand
    <2> HIDE DEF c
    <2> QED
      BY <2>1, <2>2 DEF WriteObject, Sound
  <1>4. ASSUME NEW p \in Sessions, WriteFails(p)  PROVE  Sound'
    <2>1. PICK half \in {{}, ObjectInHand(p)} :
             /\ \/ partial' = partial \cup (half \ (objects \cup torn)) /\ UNCHANGED objects
                \/ objects' = objects \cup (half \ torn) /\ partial' = partial \ half
             /\ torn' = torn
      BY <1>4 DEF WriteFails
    <2>2. half \subseteq Chunks
      BY <1>2
    <2> HIDE DEF ObjectInHand
    <2> QED
      BY <2>1, <2>2 DEF Sound
  <1>5. CASE ReceiverCrash
    <2>1. PICK half \in {{}} \cup {ObjectInHand(p) : p \in Sessions} :
             /\ \/ torn' = torn \cup partial \cup (half \ objects) /\ UNCHANGED objects
                \/ objects' = objects \cup (half \ torn) /\ torn' = torn \cup (partial \ half)
             /\ partial' = {}
      BY <1>5 DEF ReceiverCrash
    <2>2. half \subseteq Chunks
      BY <1>2
    <2> QED
      BY <2>1, <2>2 DEF Sound
  <1>6. ASSUME NEW p \in Sessions, NEW s \in Versions,
               \/ PushSnapshot(p, s) \/ PullSnapshot(p, s) \/ SenderStep(p) \/ Break(p)
               \/ ReceiverAuthenticates(p) \/ RequestPull(p) \/ AcceptPush(p)
               \/ StoreFileChunks(p) \/ Register(p) \/ ReceiverFails(p)
        PROVE  Sound'
    BY <1>1, <1>6 DEF PushSnapshot, PullSnapshot, SenderStep, SenderAuthenticates, BeginPush,
       ExpectReady, SendFileChunks, SendObject, SendEnd, ExpectAck, SenderFails, Break,
       ReceiverAuthenticates, RequestPull, AcceptPush, StoreFileChunks, Register, ReceiverFails,
       receiverVars, storeVars
  <1>7. CASE SenderBackup \/ UNCHANGED vars
    BY <1>1, <1>7 DEF SenderBackup, vars, receiverVars, storeVars
  <1>8. 1 \in Versions
    BY LimitAssumption DEF Kinds, Versions
  <1> QED
    BY <1>3, <1>4, <1>5, <1>6, <1>7, <1>8, Zenon DEF Next, ReceiverStep, Idle

\* Every variable keeps its type; of the wire, there are never more frames in flight to
\* the receiver than the window, nor more than one to the sender: the two ends speak in
\* turn, however the connection breaks and the receiver restarts.
THEOREM TypesHold == Spec => []TypeOK
  <1> DEFINE Inv == SyncInv /\ Known /\ Sound /\ \A p \in Sessions : Turns(p)
  <1>1. Init => Inv
    <2> SUFFICES ASSUME Init  PROVE  Known /\ Sound /\ \A p \in Sessions : Turns(p)
      BY InitSync
    <2>1. version = 1 /\ snapshot = [p \in Sessions |-> 1]
          /\ manifests = {} /\ cut = {} /\ objects = {} /\ partial = {} /\ torn = {}
          /\ cache = << >> /\ rLatest = [f \in Files |-> << >>]
          /\ toR = [p \in Sessions |-> << >>] /\ toS = [p \in Sessions |-> << >>]
          /\ spc = [p \in Sessions |-> "none"]
      BY DEF Init
    <2>2. Len(<< >>) = 0 /\ << >> \in Seq(1..1) /\ 1 \in 1..1
      OBVIOUS
    <2>3. Known
      BY <2>1, <2>2, WindowAssumption DEF Known
    <2>4. Asks(<< >>) = {}
      BY DEF Asks
    <2>5. Sound
      BY <2>1 DEF Sound
    <2> QED
      BY <2>1, <2>2, <2>3, <2>4, <2>5 DEF Turns
  <1>2. Inv /\ [Next]_vars => Inv'
    BY SyncStep, KnownStep, SoundStep, TurnsStep DEF SyncInv
  <1>3. Inv => TypeOK
    <2> SUFFICES ASSUME Inv  PROVE  TypeOK
      OBVIOUS
    <2>1. SyncType /\ Known /\ Sound /\ \A p \in Sessions : Turns(p)
      BY DEF SyncInv
    <2>2. version \in Versions
      BY <2>1, LimitAssumption DEF SyncType, Versions, Kinds
    <2>3. snapshot \in [Sessions -> Versions] /\ \A p \in Sessions : chunk[p] \in {NoChunk} \cup Chunks
      BY <2>1 DEF SyncType
    <2>4. rLatest \in [Files -> {<< >>} \cup {<<c>> : c \in Chunks}]
      <3>1. ASSUME NEW f \in Files  PROVE  rLatest[f] \in {<< >>} \cup {<<c>> : c \in Chunks}
        <4>1. rLatest[f] \in Seq(Chunks) /\ Len(rLatest[f]) <= 1
          BY <2>1 DEF SyncType, Known
        <4>2. rLatest[f] = << >> \/ (rLatest[f][1] \in Chunks /\ rLatest[f] = <<rLatest[f][1]>>)
          BY <4>1
        <4> QED
          BY <4>2
      <3> QED
        BY <2>1, <3>1 DEF SyncType
    <2> QED
      BY <2>1, <2>2, <2>3, <2>4 DEF SyncType, Known, Sound, Turns, TypeOK
  <1> QED
    BY <1>1, <1>2, <1>3, PTL DEF Spec

-----------------------------------------------------------------------------
(* Nobody waits for nobody *)

Parts == {"file_chunks", "object"}

Only(queue, type) == Len(queue) = 1 /\ queue[1].type = type
Streams(queue) == \A i \in DOMAIN queue : queue[i].type \in Parts
Closes(queue) ==
    /\ queue # << >> /\ queue[Len(queue)].type = "push_end"
    /\ \A i \in DOMAIN queue : i # Len(queue) => queue[i].type \in Parts

\* Where the two ends of a session are together, s the sender and r the receiver, and
\* the frames then in flight, a to the receiver and b to the sender.
Exchange(s, r, a, b) ==
    \/ s = "none" /\ r = "none" /\ a = << >> /\ b = << >>
    \/ s = "dialed" /\ r = "accepted" /\ Only(a, "hello") /\ b = << >>
    \/ s = "dialed" /\ r = "begin" /\ a = << >> /\ Only(b, "hello_ack")
    \/ s = "accepted" /\ r = "dialed" /\ a = << >> /\ Only(b, "hello")
    \/ s = "command" /\ r = "dialed" /\ Only(a, "hello_ack") /\ b = << >>
    \/ s = "command" /\ r = "begin" /\ a = << >> /\ Only(b, "pull_request")
    \/ s = "ready" /\ r = "begin" /\ Only(a, "push_begin") /\ b = << >>
    \/ s = "ready" /\ r = "receive" /\ a = << >> /\ Only(b, "push_ready")
    \/ s \in {"file", "object"} /\ r = "receive" /\ Streams(a) /\ b = << >>
    \/ s = "ack" /\ r = "receive" /\ Closes(a) /\ b = << >>
    \/ s = "ack" /\ r = "done" /\ a = << >> /\ Only(b, "push_ack")
    \/ s = "done" /\ r = "done" /\ a = << >> /\ b = << >>

\* The two ends agree on where they are, as long as the connection holds.
InStep(p) == ~ broken[p] => Exchange(spc[p], rpc[p], toR[p], toS[p])

\* A frame alone in a queue.
LEMMA Alone ==
  ASSUME NEW x \in Frames
  PROVE  Only(Append(<< >>, x), x.type)
  <1>1. << >> \in Seq(Frames) /\ Len(<< >>) = 0
    OBVIOUS
  <1>2. Len(Append(<< >>, x)) = 1 /\ Append(<< >>, x)[1] = x
    BY <1>1
  <1> QED
    BY <1>2, Zenon DEF Only

\* It is the one that is heard, and leaves nothing when it is taken.
LEMMA TheOne ==
  ASSUME NEW q \in Seq(Frames), NEW t, Only(q, t)
  PROVE  q # << >> /\ Head(q).type = t /\ Tail(q) = << >>
  <1>1. Len(q) = 1 /\ q[1].type = t
    BY Zenon DEF Only
  <1>2. Len(<< >>) = 0 /\ Len(q) <= 1
    BY <1>1
  <1>3. ASSUME q = << >>  PROVE  FALSE
    <2>1. Len(q) = 0
      BY <1>2, <1>3, Zenon
    <2> QED
      BY <1>1, <2>1
  <1>4. Head(q) = q[1]
    BY <1>3
  <1>5. Tail(q) = << >>
    BY <1>2, <1>3, Single, Zenon
  <1> QED
    BY <1>1, <1>3, <1>4, <1>5, Zenon

\* A stream goes on with a chunk list or an object, and is closed by its end.
LEMMA StreamSent ==
  ASSUME NEW q \in Seq(Frames), NEW x \in Frames, Streams(q)
  PROVE  /\ x.type \in Parts => Streams(Append(q, x))
         /\ x.type = "push_end" => Closes(Append(q, x))
  <1>1. /\ Append(q, x) \in Seq(Frames) /\ Len(Append(q, x)) = Len(q) + 1 /\ Len(q) \in Nat
        /\ DOMAIN q = 1..Len(q) /\ DOMAIN Append(q, x) = 1..Len(q) + 1
        /\ \A i \in DOMAIN q : Append(q, x)[i] = q[i]
        /\ Append(q, x)[Len(q) + 1] = x
        /\ Append(q, x) # << >>
    OBVIOUS
  <1>2. \A i \in DOMAIN Append(q, x) :
           i \in DOMAIN q \/ (i = Len(q) + 1 /\ Append(q, x)[i] = x)
    BY <1>1
  <1>3. \A i \in DOMAIN q : Append(q, x)[i].type \in Parts
    BY <1>1 DEF Streams
  <1>4. x.type \in Parts => Streams(Append(q, x))
    BY <1>2, <1>3 DEF Streams
  <1>5. x.type = "push_end" => Closes(Append(q, x))
    BY <1>1, <1>2, <1>3 DEF Closes
  <1> QED
    BY <1>4, <1>5

\* What is heard of a stream.
LEMMA StreamHeard ==
  ASSUME NEW q \in Seq(Frames), q # << >>
  PROVE  /\ Streams(q) => Head(q).type \in Parts /\ Streams(Tail(q))
         /\ Closes(q) =>
              \/ Head(q).type \in Parts /\ Closes(Tail(q))
              \/ Head(q).type = "push_end" /\ Tail(q) = << >>
  <1>1. /\ Tail(q) \in Seq(Frames) /\ 1 \in DOMAIN q /\ Head(q) = q[1]
        /\ Len(q) \in Nat /\ Len(q) >= 1 /\ Len(Tail(q)) = Len(q) - 1
        /\ \A i \in DOMAIN Tail(q) : /\ i \in 1..(Len(q) - 1) /\ i + 1 \in DOMAIN q
                                     /\ Tail(q)[i] = q[i + 1]
        /\ Len(q) = 1 => Tail(q) = << >>
        /\ Len(q) # 1 => Tail(q) # << >> /\ Len(q) - 1 \in DOMAIN Tail(q)
    <2>1. /\ Tail(q) \in Seq(Frames) /\ 1 \in DOMAIN q /\ Head(q) = q[1]
          /\ Len(q) \in Nat /\ Len(q) >= 1 /\ Len(Tail(q)) = Len(q) - 1
      OBVIOUS
    <2>2. \A i \in DOMAIN Tail(q) : /\ i \in 1..(Len(q) - 1) /\ i + 1 \in DOMAIN q
                                    /\ Tail(q)[i] = q[i + 1]
      BY <2>1
    <2>3. ASSUME Len(q) = 1  PROVE  Tail(q) = << >>
      <3>1. Len(q) <= 1
        BY <2>3
      <3> QED
        BY <3>1, Single, Zenon
    <2>4. DOMAIN Tail(q) = 1..(Len(q) - 1)
      BY <2>1
    <2>5. Len(q) # 1 => Len(q) - 1 \in DOMAIN Tail(q)
      BY <2>1, <2>4
    <2>6. ASSUME Len(q) # 1, Tail(q) = << >>  PROVE  FALSE
      <3>1. Len(<< >>) = 0
        OBVIOUS
      <3>2. Len(Tail(q)) = 0
        BY <2>6, <3>1, Zenon
      <3> QED
        BY <2>1, <2>6, <3>2
    <2> QED
      BY <2>1, <2>2, <2>3, <2>5, <2>6
  <1>2. Streams(q) => Head(q).type \in Parts /\ Streams(Tail(q))
    BY <1>1 DEF Streams
  <1>3. ASSUME Closes(q), Len(q) = 1
        PROVE  Head(q).type = "push_end" /\ Tail(q) = << >>
    BY <1>1, <1>3 DEF Closes
  <1>4. ASSUME Closes(q), Len(q) # 1
        PROVE  Head(q).type \in Parts /\ Closes(Tail(q))
    <2>1. q[Len(q)].type = "push_end" /\ \A i \in DOMAIN q : i # Len(q) => q[i].type \in Parts
      BY <1>4 DEF Closes
    <2>2. Head(q).type \in Parts
      BY <1>1, <1>4, <2>1
    <2>3. Tail(q)[Len(Tail(q))].type = "push_end"
      <3>1. Tail(q)[Len(q) - 1] = q[(Len(q) - 1) + 1] /\ (Len(q) - 1) + 1 = Len(q)
        BY <1>1, <1>4
      <3> QED
        BY <1>1, <2>1, <3>1
    <2>4. ASSUME NEW i \in DOMAIN Tail(q), i # Len(Tail(q))  PROVE  Tail(q)[i].type \in Parts
      <3>1. i + 1 \in DOMAIN q /\ i + 1 # Len(q) /\ Tail(q)[i] = q[i + 1]
        BY <1>1, <2>4
      <3> QED
        BY <2>1, <3>1
    <2> QED
      BY <1>1, <1>4, <2>2, <2>3, <2>4 DEF Closes
  <1> QED
    BY <1>2, <1>3, <1>4

\* The ends of a session stay in step when it is dialed ...
LEMMA DialedInStep ==
  ASSUME SyncType, NEW p \in Sessions, InStep(p), NEW s \in Versions,
         PushSnapshot(p, s) \/ PullSnapshot(p, s)
  PROVE  InStep(p)'
  <1> DEFINE x == [type |-> "hello"]
  <1>1. x \in Frames /\ x.type = "hello"
    BY SignalFrames DEF Signals
  <1>2. Only(Append(<< >>, x), "hello")
    BY <1>1, Alone
  <1>3. SUFFICES ASSUME ~ broken[p]  PROVE  Exchange(spc'[p], rpc'[p], toR'[p], toS'[p])
    BY DEF InStep, PushSnapshot, PullSnapshot
  <1>4. toR[p] = << >> /\ toS[p] = << >>
    BY <1>3 DEF InStep, Exchange, PushSnapshot, PullSnapshot
  <1>5. CASE PushSnapshot(p, s)
    <2>1. /\ spc'[p] = "dialed" /\ rpc'[p] = "accepted" /\ toS'[p] = << >>
          /\ toR'[p] = Append(<< >>, x)
      BY <1>4, <1>5 DEF PushSnapshot, SyncType, SGoto, RGoto, SendToR
    <2> HIDE DEF x
    <2> QED
      BY <1>2, <2>1, Zenon DEF Exchange
  <1>6. CASE PullSnapshot(p, s)
    <2>1. /\ spc'[p] = "accepted" /\ rpc'[p] = "dialed" /\ toR'[p] = << >>
          /\ toS'[p] = Append(<< >>, x)
      BY <1>3, <1>4, <1>6 DEF PullSnapshot, SyncType, SGoto, RGoto, Reply
    <2> HIDE DEF x
    <2> QED
      BY <1>2, <2>1, Zenon DEF Exchange
  <1> QED
    BY <1>5, <1>6

\* ... when the sender takes a step ...
LEMMA SenderInStep ==
  ASSUME SyncInv, NEW p \in Sessions, InStep(p), SenderStep(p)
  PROVE  InStep(p)'
  <1>1. /\ SyncType /\ toR[p] \in Seq(Frames) /\ toS[p] \in Seq(Frames)
        /\ spc[p] = "object" => chunk[p] \in Chunks
        /\ \A t \in Signals : [type |-> t] \in Frames
    BY SignalFrames DEF SyncInv, SyncType, Carried
  <1>2. broken' = broken /\ rpc'[p] = rpc[p]
    BY <1>1 DEF SenderStep, SenderAuthenticates, BeginPush, ExpectReady, SendFileChunks,
       SendObject, SendEnd, ExpectAck, SenderFails, SenderAnswers, wireVars
  <1>3. SUFFICES ASSUME ~ broken[p]  PROVE  Exchange(spc'[p], rpc[p], toR'[p], toS'[p])
    BY <1>2 DEF InStep
  <1>4. Exchange(spc[p], rpc[p], toR[p], toS[p])
    BY <1>3 DEF InStep
  <1>5. ASSUME NEW type, NEW t \in Signals, SenderAnswers(p, type, [type |-> t])
        PROVE  /\ toS[p] # << >> /\ Head(toS[p]).type = type /\ toS'[p] = Tail(toS[p])
               /\ toR'[p] = Append(toR[p], [type |-> t])
               /\ Only(Append(<< >>, [type |-> t]), t)
    <2>1. toS[p] # << >> /\ Head(toS[p]).type = type
      BY <1>5 DEF SenderAnswers, Hears
    <2>2. [type |-> t] \in Frames /\ [type |-> t].type = t
      BY <1>1
    <2>3. Only(Append(<< >>, [type |-> t]), t)
      BY <2>2, Alone
    <2> QED
      BY <1>1, <1>5, <2>1, <2>2, <2>3, SenderAnswering
  <1>6. \A t : Only(toS[p], t) => Head(toS[p]).type = t /\ Tail(toS[p]) = << >>
    BY <1>1, TheOne
  <1>7. CASE SenderAuthenticates(p)
    <2>1. spc[p] = "accepted" /\ SenderAnswers(p, "hello", [type |-> "hello_ack"])
          /\ spc'[p] = "command"
      BY <1>1, <1>7 DEF SenderAuthenticates, SGoto, SyncType
    <2>2. /\ toS'[p] = Tail(toS[p]) /\ toR'[p] = Append(toR[p], [type |-> "hello_ack"])
          /\ Only(Append(<< >>, [type |-> "hello_ack"]), "hello_ack")
      BY <1>5, <2>1 DEF Signals
    <2>3. rpc[p] = "dialed" /\ toR[p] = << >> /\ Only(toS[p], "hello")
      BY <1>4, <2>1 DEF Exchange
    <2> QED
      BY <1>6, <2>1, <2>2, <2>3 DEF Exchange
  <1>8. CASE BeginPush(p)
    <2>1. /\ \/ spc[p] = "dialed" /\ SenderAnswers(p, "hello_ack", [type |-> "push_begin"])
             \/ spc[p] = "command" /\ SenderAnswers(p, "pull_request", [type |-> "push_begin"])
          /\ spc'[p] = "ready"
      BY <1>1, <1>8 DEF BeginPush, SGoto, SyncType
    <2>2. /\ toS[p] # << >> /\ toS'[p] = Tail(toS[p])
          /\ toR'[p] = Append(toR[p], [type |-> "push_begin"])
          /\ Only(Append(<< >>, [type |-> "push_begin"]), "push_begin")
      BY <1>5, <2>1 DEF Signals
    <2>3. /\ rpc[p] = "begin" /\ toR[p] = << >>
          /\ Only(toS[p], "hello_ack") \/ Only(toS[p], "pull_request")
      BY <1>4, <2>1, <2>2 DEF Exchange
    <2> QED
      BY <1>6, <2>1, <2>2, <2>3 DEF Exchange
  <1>9. CASE ExpectReady(p) \/ ExpectAck(p)
    <2>1. /\ toS[p] # << >> /\ toS'[p] = Tail(toS[p]) /\ toR'[p] = toR[p]
          /\ \/ spc[p] = "ready" /\ spc'[p] = "file"
             \/ spc[p] = "ack" /\ spc'[p] = "done"
      BY <1>1, <1>9 DEF ExpectReady, ExpectAck, Hears, SGoto, SyncType
    <2>2. /\ toR[p] = << >>
          /\ \/ spc[p] = "ready" /\ rpc[p] = "receive" /\ Only(toS[p], "push_ready")
             \/ spc[p] = "ack" /\ rpc[p] = "done" /\ Only(toS[p], "push_ack")
      BY <1>4, <2>1 DEF Exchange
    <2>3. Streams(<< >>)
      BY DEF Streams
    <2> QED
      BY <1>6, <2>1, <2>2, <2>3 DEF Exchange
  <1>10. ASSUME NEW x \in Frames, SendToR(p, x), toS' = toS, spc[p] \in {"file", "object"},
                \/ x.type \in Parts /\ spc'[p] \in {"file", "object"}
                \/ x.type = "push_end" /\ spc'[p] = "ack"
         PROVE  Exchange(spc'[p], rpc[p], toR'[p], toS'[p])
    <2>1. toR'[p] = Append(toR[p], x)
      BY <1>1, <1>10, Sending
    <2>2. rpc[p] = "receive" /\ Streams(toR[p]) /\ toS'[p] = << >>
      BY <1>4, <1>10 DEF Exchange
    <2>3. /\ x.type \in Parts => Streams(toR'[p])
          /\ x.type = "push_end" => Closes(toR'[p])
      BY <1>1, <2>1, <2>2, StreamSent
    <2> QED
      BY <1>10, <2>2, <2>3 DEF Exchange
  <1>11. CASE SendFileChunks(p)
    <2> DEFINE f == CHOOSE f \in left[p] : TRUE
               x == [type |-> "file_chunks", file |-> f, chunk |-> sLatest[f]]
    <2>1. f \in Files
      BY <1>1, <1>11 DEF SendFileChunks, SyncType
    <2>2. x \in Frames /\ x.type \in Parts
      BY <1>1, <2>1 DEF Frames, SyncType, Parts
    <2>3. SendToR(p, x) /\ toS' = toS /\ spc[p] = "file" /\ spc'[p] = "object"
      BY <1>1, <1>11 DEF SendFileChunks, SGoto, SyncType
    <2> HIDE DEF x
    <2> QED
      BY <1>10, <2>2, <2>3
  <1>12. CASE SendObject(p)
    <2> DEFINE x == [type |-> "object", chunk |-> chunk[p]]
    <2>1. SendToR(p, x) /\ toS' = toS /\ spc[p] = "object" /\ spc'[p] = "file"
      BY <1>1, <1>12 DEF SendObject, SGoto, SyncType
    <2>2. x \in Frames /\ x.type \in Parts
      BY <1>1, <2>1 DEF Frames, Parts
    <2> HIDE DEF x
    <2> QED
      BY <1>10, <2>1, <2>2
  <1>13. CASE SendEnd(p)
    <2> DEFINE x == [type |-> "push_end"]
    <2>1. SendToR(p, x) /\ toS' = toS /\ spc[p] = "file" /\ spc'[p] = "ack"
      BY <1>1, <1>13 DEF SendEnd, SGoto, SyncType
    <2>2. x \in Frames /\ x.type = "push_end"
      BY <1>1 DEF Signals
    <2> HIDE DEF x
    <2> QED
      BY <1>10, <2>1, <2>2
  <1>14. CASE SenderFails(p)
    BY <1>3, <1>14 DEF SenderFails
  <1> QED
    BY <1>7, <1>8, <1>9, <1>11, <1>12, <1>13, <1>14 DEF SenderStep

\* ... and when the receiver does.
LEMMA ReceiverInStep ==
  ASSUME SyncType, NEW p \in Sessions, InStep(p), ReceiverStep(p)
  PROVE  InStep(p)'
  <1>1. /\ toR[p] \in Seq(Frames) /\ toS[p] \in Seq(Frames)
        /\ \A t \in Signals : [type |-> t] \in Frames
    BY SignalFrames DEF SyncType
  <1>2. broken' = broken /\ spc'[p] = spc[p]
    BY DEF ReceiverStep, ReceiverAuthenticates, RequestPull, AcceptPush, StoreFileChunks,
       StoreObject, TakeFrame, Register, ReceiverFails, ReceiverAnswers, wireVars
  <1>3. SUFFICES ASSUME ~ broken[p]  PROVE  Exchange(spc[p], rpc'[p], toR'[p], toS'[p])
    BY <1>2 DEF InStep
  <1>4. Exchange(spc[p], rpc[p], toR[p], toS[p])
    BY <1>3 DEF InStep
  <1>5. ASSUME NEW type, NEW t \in Signals, ReceiverAnswers(p, type, [type |-> t])
        PROVE  /\ toR[p] # << >> /\ Head(toR[p]).type = type /\ toR'[p] = Tail(toR[p])
               /\ toS'[p] = Append(toS[p], [type |-> t])
               /\ Only(Append(<< >>, [type |-> t]), t)
    <2>1. [type |-> t] \in Frames /\ [type |-> t].type = t
      BY <1>1
    <2>2. Only(Append(<< >>, [type |-> t]), t)
      BY <2>1, Alone
    <2>3. toS'[p] = Append(toS[p], [type |-> t])
      BY <1>3, <1>5 DEF ReceiverAnswers, Reply, SyncType
    <2> QED
      BY <1>5, <2>1, <2>2, <2>3, ReceiverAnswering
  <1>6. \A t : Only(toR[p], t) => Head(toR[p]).type = t /\ Tail(toR[p]) = << >>
    BY <1>1, TheOne
  <1>7. CASE ReceiverAuthenticates(p)
    <2>1. rpc[p] = "accepted" /\ ReceiverAnswers(p, "hello", [type |-> "hello_ack"])
          /\ rpc'[p] = "begin"
      BY <1>7 DEF ReceiverAuthenticates, RGoto, SyncType
    <2>2. /\ toR'[p] = Tail(toR[p]) /\ toS'[p] = Append(toS[p], [type |-> "hello_ack"])
          /\ Only(Append(<< >>, [type |-> "hello_ack"]), "hello_ack")
      BY <1>5, <2>1 DEF Signals
    <2>3. spc[p] = "dialed" /\ toS[p] = << >> /\ Only(toR[p], "hello")
      BY <1>4, <2>1 DEF Exchange
    <2> QED
      BY <1>6, <2>1, <2>2, <2>3 DEF Exchange
  <1>8. CASE RequestPull(p)
    <2>1. rpc[p] = "dialed" /\ ReceiverAnswers(p, "hello_ack", [type |-> "pull_request"])
          /\ rpc'[p] = "begin"
      BY <1>8 DEF RequestPull, RGoto, SyncType
    <2>2. /\ toR[p] # << >> /\ toR'[p] = Tail(toR[p])
          /\ toS'[p] = Append(toS[p], [type |-> "pull_request"])
          /\ Only(Append(<< >>, [type |-> "pull_request"]), "pull_request")
      BY <1>5, <2>1 DEF Signals
    <2>3. spc[p] = "command" /\ toS[p] = << >> /\ Only(toR[p], "hello_ack")
      BY <1>4, <2>1, <2>2 DEF Exchange
    <2> QED
      BY <1>6, <2>1, <2>2, <2>3 DEF Exchange
  <1>9. CASE AcceptPush(p)
    <2>1. rpc[p] = "begin" /\ ReceiverAnswers(p, "push_begin", [type |-> "push_ready"])
          /\ rpc'[p] = "receive"
      BY <1>9 DEF AcceptPush, RGoto, SyncType
    <2>2. /\ toR[p] # << >> /\ toR'[p] = Tail(toR[p])
          /\ toS'[p] = Append(toS[p], [type |-> "push_ready"])
          /\ Only(Append(<< >>, [type |-> "push_ready"]), "push_ready")
      BY <1>5, <2>1 DEF Signals
    <2>3. spc[p] = "ready" /\ toS[p] = << >> /\ Only(toR[p], "push_begin")
      BY <1>4, <2>1, <2>2 DEF Exchange
    <2> QED
      BY <1>6, <2>1, <2>2, <2>3 DEF Exchange
  <1>10. CASE StoreFileChunks(p) \/ StoreObject(p)
    <2>1. /\ rpc[p] = "receive" /\ rpc'[p] = rpc[p] /\ toR[p] # << >>
          /\ Head(toR[p]).type \in Parts /\ toR'[p] = Tail(toR[p]) /\ toS'[p] = toS[p]
      BY <1>10 DEF StoreFileChunks, StoreObject, TakeFrame, Hears, SyncType, Parts
    <2>2. /\ toS[p] = << >>
          /\ \/ spc[p] \in {"file", "object"} /\ Streams(toR[p])
             \/ spc[p] = "ack" /\ Closes(toR[p])
      BY <1>4, <2>1 DEF Exchange
    <2>3. /\ Streams(toR[p]) => Streams(Tail(toR[p]))
          /\ Closes(toR[p]) => Closes(Tail(toR[p]))
      BY <1>1, <2>1, StreamHeard DEF Parts
    <2> QED
      BY <2>1, <2>2, <2>3 DEF Exchange
  <1>11. CASE Register(p)
    <2>1. rpc[p] = "receive" /\ ReceiverAnswers(p, "push_end", [type |-> "push_ack"])
          /\ rpc'[p] = "done"
      BY <1>11 DEF Register, RGoto, SyncType
    <2>2. /\ toR[p] # << >> /\ Head(toR[p]).type = "push_end" /\ toR'[p] = Tail(toR[p])
          /\ toS'[p] = Append(toS[p], [type |-> "push_ack"])
          /\ Only(Append(<< >>, [type |-> "push_ack"]), "push_ack")
      BY <1>5, <2>1 DEF Signals
    <2>3. ~ Streams(toR[p]) /\ (Closes(toR[p]) => Tail(toR[p]) = << >>)
      BY <1>1, <2>2, StreamHeard DEF Parts
    <2>4. spc[p] = "ack" /\ toS[p] = << >> /\ Closes(toR[p])
      BY <1>4, <2>1, <2>2, <2>3 DEF Exchange
    <2> QED
      BY <2>1, <2>2, <2>3, <2>4 DEF Exchange
  <1>12. CASE ReceiverFails(p)
    BY <1>3, <1>12 DEF ReceiverFails
  <1> QED
    BY <1>7, <1>8, <1>9, <1>10, <1>11, <1>12 DEF ReceiverStep

\* The ends of every session stay in step, whatever happens: a connection breaks, the
\* receiver dies, another session goes on.
LEMMA InStepKept ==
  ASSUME SyncInv, \A p \in Sessions : InStep(p), [Next]_vars
  PROVE  \A p \in Sessions : InStep(p)'
  <1> SUFFICES ASSUME NEW p \in Sessions  PROVE  InStep(p)'
    OBVIOUS
  <1>1. SyncType /\ InStep(p)
    BY DEF SyncInv
  <1>2. ASSUME broken'[p] = broken[p] /\ spc'[p] = spc[p] /\ rpc'[p] = rpc[p]
               /\ toR'[p] = toR[p] /\ toS'[p] = toS[p]
        PROVE  InStep(p)'
    BY <1>1, <1>2 DEF InStep
  <1>3. ASSUME NEW q \in Sessions \ {p}, NEW s \in Versions,
               \/ PushSnapshot(q, s) \/ PullSnapshot(q, s)
               \/ SenderStep(q) \/ ReceiverStep(q) \/ Break(q) \/ WriteFails(q)
        PROVE  InStep(p)'
    <2>1. /\ broken'[p] = broken[p] /\ spc'[p] = spc[p] /\ rpc'[p] = rpc[p]
          /\ toR'[p] = toR[p] /\ toS'[p] = toS[p]
      BY <1>1, <1>3 DEF PushSnapshot, PullSnapshot, SenderStep, ReceiverStep, Break, WriteFails, SyncType,
         SGoto, RGoto, SendToR, Reply, SenderAnswers, ReceiverAnswers, SenderAuthenticates,
         BeginPush, ExpectReady, SendFileChunks, SendObject, SendEnd, ExpectAck, SenderFails,
         ReceiverAuthenticates, RequestPull, AcceptPush, StoreFileChunks, StoreObject, TakeFrame,
         Register, ReceiverFails, wireVars
    <2> QED
      BY <1>2, <2>1
  <1>4. ASSUME NEW s \in Versions, PushSnapshot(p, s) \/ PullSnapshot(p, s)  PROVE  InStep(p)'
    BY <1>1, <1>4, DialedInStep
  <1>5. CASE SenderStep(p)
    BY <1>1, <1>5, SenderInStep
  <1>6. CASE ReceiverStep(p)
    BY <1>1, <1>6, ReceiverInStep
  <1>7. CASE Break(p) \/ WriteFails(p)
    BY <1>1, <1>7 DEF Break, WriteFails, InStep, SyncType
  <1>8. CASE ReceiverCrash
    <2>1. /\ broken'[p] = (broken[p] \/ spc[p] # "none") /\ toR'[p] = << >>
          /\ rpc'[p] = (IF rpc[p] \in Ended THEN rpc[p] ELSE "failed")
          /\ spc' = spc /\ toS' = toS
      BY <1>8 DEF ReceiverCrash
    <2>2. CASE ~ broken[p] /\ spc[p] = "none"
      BY <1>1, <2>1, <2>2 DEF InStep, Exchange, Ended
    <2>3. CASE broken[p] \/ spc[p] # "none"
      BY <2>1, <2>3 DEF InStep
    <2> QED
      BY <2>2, <2>3
  <1>9. CASE SenderBackup \/ UNCHANGED vars
    BY <1>2, <1>9 DEF SenderBackup, vars, wireVars
  <1> QED
    <2>1. ASSUME NEW q \in Sessions, NEW s \in Versions,
                 \/ PushSnapshot(q, s) \/ PullSnapshot(q, s)
                 \/ SenderStep(q) \/ ReceiverStep(q) \/ Break(q) \/ WriteFails(q)
          PROVE  InStep(p)'
      <3>1. CASE q = p
        BY <1>4, <1>5, <1>6, <1>7, <2>1, <3>1, Zenon
      <3>2. CASE q # p
        BY <1>3, <2>1, <3>2
      <3> QED
        BY <3>1, <3>2
    <2>2. 1 \in Versions
      BY LimitAssumption DEF Kinds, Versions
    <2> QED
      BY <1>8, <1>9, <2>1, <2>2, Zenon DEF Next, Idle

\* When an end can take a step: the guards of SenderStep and of ReceiverStep.
SenderCan(p) ==
    \/ spc[p] = "accepted" /\ Hears(toS, p, "hello") /\ CanSend(p)
    \/ spc[p] = "dialed" /\ Hears(toS, p, "hello_ack") /\ CanSend(p)
    \/ spc[p] = "command" /\ Hears(toS, p, "pull_request") /\ CanSend(p)
    \/ spc[p] = "ready" /\ Hears(toS, p, "push_ready")
    \/ spc[p] \in {"file", "object"} /\ CanSend(p)
    \/ spc[p] = "ack" /\ Hears(toS, p, "push_ack")
    \/ spc[p] \notin Ended /\ broken[p]

ReceiverCan(p) ==
    \/ rpc[p] = "accepted" /\ Hears(toR, p, "hello")
    \/ rpc[p] = "dialed" /\ Hears(toR, p, "hello_ack")
    \/ rpc[p] = "begin" /\ Hears(toR, p, "push_begin")
    \/ rpc[p] = "receive" /\ toR[p] # << >> /\ Head(toR[p]).type \in Parts \cup {"push_end"}
    \/ rpc[p] \notin Ended /\ broken[p]

\* One end of a session can go on until both are at their end.
NobodyWaits ==
    \A p \in Sessions : {spc[p], rpc[p]} \subseteq Ended \/ SenderCan(p) \/ ReceiverCan(p)

\* Ends in step do not both wait: the frame in flight is the one that is expected, and a
\* queue that is full has a frame for the receiver.
LEMMA OneCan ==
  ASSUME SyncType, \A p \in Sessions : InStep(p)
  PROVE  NobodyWaits
  <1> SUFFICES ASSUME NEW p \in Sessions
               PROVE  {spc[p], rpc[p]} \subseteq Ended \/ SenderCan(p) \/ ReceiverCan(p)
    BY DEF NobodyWaits
  <1>1. /\ toR[p] \in Seq(Frames) /\ toS[p] \in Seq(Frames) /\ InStep(p)
        /\ Window \in Nat /\ 0 < Window /\ Len(<< >>) = 0 /\ Len(toR[p]) \in Nat
        /\ toR[p] = << >> => Len(toR[p]) = 0
    BY WindowAssumption DEF SyncType
  <1>2. CASE broken[p]
    BY <1>2 DEF SenderCan, ReceiverCan
  <1>3. CASE ~ broken[p]
    <2>1. Exchange(spc[p], rpc[p], toR[p], toS[p])
      BY <1>1, <1>3 DEF InStep
    <2>2. toR[p] = << >> => CanSend(p)
      BY <1>1, <1>3 DEF CanSend
    <2>3. ~ CanSend(p) => toR[p] # << >>
      BY <2>2
    <2>4. \A t : Only(toS[p], t) => Hears(toS, p, t)
      BY <1>1, TheOne DEF Hears
    <2>5. \A t : Only(toR[p], t) => Hears(toR, p, t)
      BY <1>1, TheOne DEF Hears
    <2>6. /\ Streams(toR[p]) /\ toR[p] # << >> => Head(toR[p]).type \in Parts
          /\ Closes(toR[p]) => toR[p] # << >> /\ Head(toR[p]).type \in Parts \cup {"push_end"}
      BY <1>1, StreamHeard DEF Closes
    <2>7. CASE spc[p] \in {"none", "done"}
      BY <2>1, <2>7 DEF Exchange, Ended
    <2>8. CASE spc[p] \in {"dialed", "accepted", "command", "ready"}
      BY <2>1, <2>2, <2>4, <2>5, <2>8 DEF Exchange, SenderCan, ReceiverCan
    <2>9. CASE spc[p] \in {"file", "object"}
      BY <2>1, <2>3, <2>6, <2>9 DEF Exchange, SenderCan, ReceiverCan
    <2>10. CASE spc[p] = "ack"
      BY <2>1, <2>4, <2>6, <2>10 DEF Exchange, SenderCan, ReceiverCan
    <2> QED
      BY <2>1, <2>7, <2>8, <2>9, <2>10 DEF Exchange
  <1> QED
    BY <1>2, <1>3

\* The two ends of a session never wait for each other: one of them has a frame to take,
\* room to send or a broken connection to report, until both are at their end.  A window
\* of one frame is enough for that.
THEOREM OneEndGoesOn == Spec => []NobodyWaits
  <1> DEFINE Inv == SyncInv /\ \A p \in Sessions : InStep(p)
  <1>1. Init => Inv
    <2> SUFFICES ASSUME Init  PROVE  \A p \in Sessions : InStep(p)
      BY InitSync
    <2> QED
      BY DEF Init, InStep, Exchange
  <1>2. Inv /\ [Next]_vars => Inv'
    BY SyncStep, InStepKept
  <1>3. Inv => NobodyWaits
    BY OneCan DEF SyncInv
  <1> QED
    BY <1>1, <1>2, <1>3, PTL DEF Spec

-----------------------------------------------------------------------------
(* The way through a session is finite *)

\* The steps an end has ahead besides the files that are left: four for each of those
\* (its chunk list and its object, sent and taken).
SenderToDo(s) ==
    CASE s \in Ended -> 0
      [] s = "ack" -> 1
      [] s \in {"ready", "file"} -> 3
      [] s = "object" -> 5
      [] s \in {"dialed", "command"} -> 4 + 4 * Cardinality(Files)
      [] s = "accepted" -> 5 + 4 * Cardinality(Files)

ReceiverToDo(r) ==
    CASE r \in Ended -> 0
      [] r = "receive" -> 1
      [] r = "begin" -> 2
      [] r \in {"accepted", "dialed"} -> 3

Work(p) ==
    SenderToDo(spc[p]) + ReceiverToDo(rpc[p]) + 4 * Cardinality(left[p])
    + Len(toR[p]) + Len(toS[p])

\* A session that has begun does not begin again, and nothing adds to its work: no other
\* session, backup, break or crash; and each step of an end takes some of it away.
NearerTheEnd ==
    \A p \in Sessions :
        /\ spc[p] # "none" => spc'[p] # "none" /\ Work(p)' <= Work(p)
        /\ SenderStep(p) \/ ReceiverStep(p) => Work(p)' < Work(p)

\* The parts of the work, as numbers.
Counted(p, s, r, l, a, b) ==
    /\ SenderToDo(spc[p]) = s /\ ReceiverToDo(rpc[p]) = r
    /\ Cardinality(left[p]) = l /\ Len(toR[p]) = a /\ Len(toS[p]) = b

\* The steps ahead in each place.
LEMMA ToDo ==
  ASSUME NEW n \in Nat, Cardinality(Files) = n
  PROVE  /\ \A s \in Ended : SenderToDo(s) = 0 /\ ReceiverToDo(s) = 0
         /\ SenderToDo("ack") = 1 /\ SenderToDo("ready") = 3 /\ SenderToDo("file") = 3
         /\ SenderToDo("object") = 5 /\ SenderToDo("accepted") = 5 + 4 * n
         /\ SenderToDo("dialed") = 4 + 4 * n /\ SenderToDo("command") = 4 + 4 * n
         /\ ReceiverToDo("receive") = 1 /\ ReceiverToDo("begin") = 2
         /\ ReceiverToDo("accepted") = 3 /\ ReceiverToDo("dialed") = 3
  <1>1. \A s \in Ended : SenderToDo(s) = 0 /\ ReceiverToDo(s) = 0
    BY DEF SenderToDo, ReceiverToDo, Ended
  <1>2. /\ SenderToDo("ack") = 1 /\ SenderToDo("ready") = 3 /\ SenderToDo("file") = 3
        /\ SenderToDo("object") = 5
    BY DEF SenderToDo, Ended
  <1>3. /\ SenderToDo("accepted") = 5 + 4 * n
        /\ SenderToDo("dialed") = 4 + 4 * n /\ SenderToDo("command") = 4 + 4 * n
    BY DEF SenderToDo, Ended
  <1>4. /\ ReceiverToDo("receive") = 1 /\ ReceiverToDo("begin") = 2
        /\ ReceiverToDo("accepted") = 3 /\ ReceiverToDo("dialed") = 3
    BY DEF ReceiverToDo, Ended
  <1> QED
    BY <1>1, <1>2, <1>3, <1>4

\* How long queues get.
LEMMA Lengths ==
  ASSUME NEW q \in Seq(Frames)
  PROVE  /\ Len(q) \in Nat /\ Len(<< >>) = 0
         /\ \A x \in Frames : Len(Append(q, x)) = Len(q) + 1
         /\ q # << >> => Len(q) >= 1 /\ Len(Tail(q)) = Len(q) - 1
         /\ \A r \in Prefixes(q) : Len(r) \in Nat /\ Len(r) <= Len(q)
  <1>1. ASSUME NEW r \in Prefixes(q)  PROVE  Len(r) \in Nat /\ Len(r) <= Len(q)
    <2>1. PICK n \in 0..Len(q) : r = SubSeq(q, 1, n)
      BY DEF Prefixes
    <2>2. Len(r) = n
      BY <2>1
    <2> QED
      BY <2>2
  <1>2. /\ Len(q) \in Nat /\ Len(<< >>) = 0
        /\ \A x \in Frames : Len(Append(q, x)) = Len(q) + 1
        /\ q # << >> => Len(q) >= 1 /\ Len(Tail(q)) = Len(q) - 1
    OBVIOUS
  <1> QED
    BY <1>1, <1>2

\* The work of a session is a number, in every state.
LEMMA WorkCounted ==
  ASSUME IsFiniteSet(Files), SyncType, NEW p \in Sessions
  PROVE  /\ Work(p) \in Nat
         /\ \E s, r, l, a, b \in Nat :
               Counted(p, s, r, l, a, b) /\ Work(p) = s + r + 4 * l + a + b
  <1>1. PICK n \in Nat : Cardinality(Files) = n
    BY FS_CardinalityType
  <1>2. PICK s \in Nat : SenderToDo(spc[p]) = s
    <2>1. spc[p] \in Ended \cup {"dialed", "accepted", "command", "ready", "file", "object",
                                 "ack"}
      BY DEF SyncType, Ended
    <2> QED
      BY <1>1, <2>1, ToDo
  <1>3. PICK r \in Nat : ReceiverToDo(rpc[p]) = r
    <2>1. rpc[p] \in Ended \cup {"dialed", "accepted", "begin", "receive"}
      BY DEF SyncType, Ended
    <2> QED
      BY <1>1, <2>1, ToDo
  <1>4. PICK l \in Nat : Cardinality(left[p]) = l
    <2>1. left[p] \in SUBSET Files
      BY DEF SyncType
    <2> QED
      BY <2>1, FS_Subset, FS_CardinalityType
  <1>5. PICK a \in Nat, b \in Nat : Len(toR[p]) = a /\ Len(toS[p]) = b
    BY Lengths DEF SyncType
  <1>6. Work(p) = s + r + 4 * l + a + b
    BY <1>2, <1>3, <1>4, <1>5, Zenon DEF Work
  <1>7. Counted(p, s, r, l, a, b)
    BY <1>2, <1>3, <1>4, <1>5, Zenon DEF Counted
  <1>8. s + r + 4 * l + a + b \in Nat
    OBVIOUS
  <1> QED
    BY <1>6, <1>7, <1>8, Zenon

\* The sums by which a step of the sender lowers the work: its first frame of a transfer,
\* and the frame of one more file.
LEMMA SenderSums ==
  ASSUME NEW n \in Nat, NEW r \in Nat, NEW l \in Nat, NEW a \in Nat, NEW b \in Nat
  PROVE  /\ a + 1 \in Nat
         /\ 3 + r + 4 * n + (a + 1) + (b - 1) < (4 + 4 * n) + r + 4 * l + a + b
         /\ 5 + r + 4 * (l - 1) + (a + 1) + b < 3 + r + 4 * l + a + b
  <1>1. PICK m \in Nat : m = 4 * n
    OBVIOUS
  <1>2. PICK k \in Nat : k = 4 * l
    OBVIOUS
  <1>3. 3 + r + m + (a + 1) + (b - 1) < (4 + m) + r + k + a + b
    OBVIOUS
  <1>4. 4 * (l - 1) = k - 4
    BY <1>2
  <1>5. 5 + r + (k - 4) + (a + 1) + b < 3 + r + k + a + b
    OBVIOUS
  <1>6. a + 1 \in Nat
    OBVIOUS
  <1> QED
    BY <1>1, <1>2, <1>3, <1>4, <1>5, <1>6, Zenon

\* Each step of the sender takes some of the work away: a frame to the receiver, or one
\* that it takes, is less than what is done ...
LEMMA SenderWorks ==
  ASSUME IsFiniteSet(Files), SyncInv, NEW p \in Sessions, SenderStep(p)
  PROVE  Work(p)' \in Nat /\ Work(p)' < Work(p)
  <1>1. /\ SyncType /\ toR[p] \in Seq(Frames) /\ toS[p] \in Seq(Frames)
        /\ spc[p] = "object" => chunk[p] \in Chunks
        /\ \A t \in Signals : [type |-> t] \in Frames
        /\ left[p] \in SUBSET Files
    BY SignalFrames DEF SyncInv, SyncType, Carried
  <1>2. PICK s \in Nat, r \in Nat, l \in Nat, a \in Nat, b \in Nat :
            Counted(p, s, r, l, a, b) /\ Work(p) = s + r + 4 * l + a + b
    BY <1>1, WorkCounted
  <1>3. PICK n \in Nat : Cardinality(Files) = n
    BY FS_CardinalityType
  <1>4. /\ SenderToDo(spc[p]) = s /\ ReceiverToDo(rpc[p]) = r
        /\ Cardinality(left[p]) = l /\ Len(toR[p]) = a /\ Len(toS[p]) = b
    BY <1>2 DEF Counted
  <1>5. rpc'[p] = rpc[p]
    BY <1>1 DEF SenderStep, SenderAuthenticates, BeginPush, ExpectReady, SendFileChunks,
       SendObject, SendEnd, ExpectAck, SenderFails
  <1>6. ASSUME NEW s2 \in Nat, NEW l2 \in Nat, NEW a2 \in Nat, NEW b2 \in Nat,
               SenderToDo(spc'[p]) = s2, Cardinality(left'[p]) = l2,
               Len(toR'[p]) = a2, Len(toS'[p]) = b2,
               s2 + r + 4 * l2 + a2 + b2 < s + r + 4 * l + a + b
        PROVE  Work(p)' \in Nat /\ Work(p)' < Work(p)
    <2>1. Work(p)' = s2 + r + 4 * l2 + a2 + b2
      BY <1>4, <1>5, <1>6, Zenon DEF Work
    <2>2. s2 + r + 4 * l2 + a2 + b2 \in Nat
      OBVIOUS
    <2> QED
      BY <1>2, <1>6, <2>1, <2>2, Zenon
  <1>7. ASSUME toS[p] # << >>, toS'[p] = Tail(toS[p])
        PROVE  b >= 1 /\ Len(toS'[p]) = b - 1 /\ b - 1 \in Nat
    <2>1. Len(toS[p]) >= 1 /\ Len(Tail(toS[p])) = Len(toS[p]) - 1
      BY <1>1, <1>7, Lengths
    <2> QED
      BY <1>4, <1>7, <2>1
  <1>8. ASSUME NEW x \in Frames, toR'[p] = Append(toR[p], x)
        PROVE  Len(toR'[p]) = a + 1
    BY <1>1, <1>4, <1>8, Lengths
  <1>9. ASSUME NEW type, NEW t \in Signals, SenderAnswers(p, type, [type |-> t])
        PROVE  Len(toR'[p]) = a + 1 /\ b >= 1 /\ Len(toS'[p]) = b - 1 /\ b - 1 \in Nat
    <2>1. [type |-> t] \in Frames
      BY <1>1
    <2>2. toR'[p] = Append(toR[p], [type |-> t]) /\ toS[p] # << >> /\ toS'[p] = Tail(toS[p])
      BY <1>1, <1>9, <2>1, SenderAnswering
    <2> QED
      BY <1>7, <1>8, <2>1, <2>2
  <1>10. CASE SenderAuthenticates(p)
    <2>1. /\ spc[p] = "accepted" /\ SenderAnswers(p, "hello", [type |-> "hello_ack"])
          /\ spc'[p] = "command" /\ left' = left
      BY <1>1, <1>10 DEF SenderAuthenticates, SGoto, SyncType
    <2>2. Len(toR'[p]) = a + 1 /\ b >= 1 /\ Len(toS'[p]) = b - 1 /\ b - 1 \in Nat
      BY <1>9, <2>1 DEF Signals
    <2>3. /\ s = 5 + 4 * n /\ SenderToDo(spc'[p]) = 4 + 4 * n /\ Cardinality(left'[p]) = l
      BY <1>3, <1>4, <2>1, ToDo, Zenon
    <2>4. PICK m \in Nat : m = 4 + 4 * n
      OBVIOUS
    <2>5. s = m + 1
      BY <2>3, <2>4
    <2>6. m + r + 4 * l + (a + 1) + (b - 1) < s + r + 4 * l + a + b /\ a + 1 \in Nat
      BY <2>2, <2>5
    <2> QED
      BY <1>6, <2>2, <2>3, <2>4, <2>6, Zenon
  <1>11. CASE BeginPush(p)
    <2>1. /\ \/ spc[p] = "dialed" /\ SenderAnswers(p, "hello_ack", [type |-> "push_begin"])
             \/ spc[p] = "command" /\ SenderAnswers(p, "pull_request", [type |-> "push_begin"])
          /\ spc'[p] = "ready" /\ left'[p] = Files
      BY <1>1, <1>11 DEF BeginPush, SGoto, SyncType
    <2>2. Len(toR'[p]) = a + 1 /\ b >= 1 /\ Len(toS'[p]) = b - 1 /\ b - 1 \in Nat
      BY <1>9, <2>1 DEF Signals
    <2>3. /\ s = 4 + 4 * n /\ SenderToDo(spc'[p]) = 3 /\ Cardinality(left'[p]) = n
      BY <1>3, <1>4, <2>1, ToDo, Zenon
    <2>4. 3 + r + 4 * n + (a + 1) + (b - 1) < s + r + 4 * l + a + b /\ a + 1 \in Nat
      BY <2>3, SenderSums, Zenon
    <2>5. 3 \in Nat
      OBVIOUS
    <2> QED
      BY <1>6, <2>2, <2>3, <2>4, <2>5, Zenon
  <1>12. CASE ExpectReady(p) \/ ExpectAck(p)
    <2>1. /\ toS[p] # << >> /\ toS'[p] = Tail(toS[p]) /\ toR' = toR /\ left' = left
          /\ \/ spc[p] = "ready" /\ spc'[p] = "file"
             \/ spc[p] = "ack" /\ spc'[p] = "done"
      BY <1>1, <1>12 DEF ExpectReady, ExpectAck, Hears, SGoto, SyncType
    <2>2. b >= 1 /\ Len(toS'[p]) = b - 1 /\ b - 1 \in Nat
      BY <1>7, <2>1
    <2>3. /\ Cardinality(left'[p]) = l /\ Len(toR'[p]) = a
          /\ \/ s = 3 /\ SenderToDo(spc'[p]) = 3
             \/ s = 1 /\ SenderToDo(spc'[p]) = 0
      BY <1>3, <1>4, <2>1, ToDo, Zenon DEF Ended
    <2>4. /\ s + r + 4 * l + a + (b - 1) < s + r + 4 * l + a + b
          /\ s = 1 => 0 + r + 4 * l + a + (b - 1) < s + r + 4 * l + a + b
          /\ 0 \in Nat
      BY <2>2
    <2> QED
      BY <1>6, <2>2, <2>3, <2>4, Zenon
  <1>13. CASE SendFileChunks(p)
    <2> DEFINE f == CHOOSE f \in left[p] : TRUE
               x == [type |-> "file_chunks", file |-> f, chunk |-> sLatest[f]]
    <2>1. left[p] # {} /\ SendToR(p, x) /\ toS' = toS /\ spc[p] = "file"
          /\ left' = [left EXCEPT ![p] = @ \ {f}] /\ spc' = [spc EXCEPT ![p] = "object"]
      BY <1>13 DEF SendFileChunks, SGoto
    <2>2. f \in left[p] /\ f \in Files
      BY <1>1, <2>1
    <2>3. x \in Frames
      BY <1>1, <2>2 DEF Frames, SyncType
    <2> HIDE DEF x, f
    <2>4. toR'[p] = Append(toR[p], x)
      BY <1>1, <2>1, <2>3, Sending
    <2>5. Len(toR'[p]) = a + 1
      BY <1>8, <2>3, <2>4
    <2>6. IsFiniteSet(left[p])
      BY <1>1, FS_Subset
    <2>7. Cardinality(left[p] \ {f}) = l - 1 /\ IsFiniteSet(left[p] \ {f})
      BY <1>4, <2>2, <2>6, FS_RemoveElement
    <2>8. left'[p] = left[p] \ {f} /\ spc'[p] = "object" /\ l - 1 \in Nat
      BY <1>1, <2>1, <2>7, FS_CardinalityType DEF SyncType
    <2>9. /\ s = 3 /\ SenderToDo(spc'[p]) = 5 /\ Cardinality(left'[p]) = l - 1
          /\ Len(toS'[p]) = b
      BY <1>3, <1>4, <2>1, <2>7, <2>8, ToDo, Zenon
    <2>10. 5 + r + 4 * (l - 1) + (a + 1) + b < s + r + 4 * l + a + b /\ a + 1 \in Nat
      BY <2>9, SenderSums, Zenon
    <2>11. 5 \in Nat
      OBVIOUS
    <2> QED
      BY <1>6, <2>5, <2>8, <2>9, <2>10, <2>11, Zenon
  <1>14. CASE SendObject(p) \/ SendEnd(p)
    <2>1. PICK x \in Frames : SendToR(p, x)
      BY <1>1, <1>14 DEF SendObject, SendEnd, Frames, Signals
    <2>2. /\ toS' = toS /\ left' = left
          /\ \/ spc[p] = "object" /\ spc'[p] = "file"
             \/ spc[p] = "file" /\ spc'[p] = "ack"
      BY <1>1, <1>14 DEF SendObject, SendEnd, SGoto, SyncType
    <2>3. toR'[p] = Append(toR[p], x)
      BY <1>1, <2>1, Sending
    <2>4. Len(toR'[p]) = a + 1
      BY <1>8, <2>3
    <2>5. /\ Cardinality(left'[p]) = l /\ Len(toS'[p]) = b
          /\ \/ s = 5 /\ SenderToDo(spc'[p]) = 3
             \/ s = 3 /\ SenderToDo(spc'[p]) = 1
      BY <1>3, <1>4, <2>2, ToDo, Zenon
    <2>6. /\ s = 5 => 3 + r + 4 * l + (a + 1) + b < s + r + 4 * l + a + b
          /\ s = 3 => 1 + r + 4 * l + (a + 1) + b < s + r + 4 * l + a + b
          /\ 1 \in Nat /\ 3 \in Nat /\ a + 1 \in Nat
      OBVIOUS
    <2> QED
      BY <1>6, <2>4, <2>5, <2>6, Zenon
  <1>15. CASE SenderFails(p)
    <2>1. /\ spc[p] \notin Ended /\ spc'[p] = "failed" /\ left'[p] = {}
          /\ toR' = toR /\ toS' = toS
      BY <1>1, <1>15 DEF SenderFails, SGoto, SyncType, wireVars
    <2>2. s >= 1
      <3>1. spc[p] \in {"dialed", "accepted", "command", "ready", "file", "object", "ack"}
        BY <1>1, <2>1 DEF SyncType, Ended
      <3> QED
        BY <1>3, <1>4, <3>1, ToDo
    <2>3. /\ SenderToDo(spc'[p]) = 0 /\ Cardinality(left'[p]) = 0
          /\ Len(toR'[p]) = a /\ Len(toS'[p]) = b
      BY <1>3, <1>4, <2>1, ToDo, FS_EmptySet, Zenon DEF Ended
    <2>4. 0 + r + 4 * 0 + a + b < s + r + 4 * l + a + b /\ 0 \in Nat
      BY <2>2
    <2> QED
      BY <1>6, <2>3, <2>4, Zenon
  <1> QED
    BY <1>10, <1>11, <1>12, <1>13, <1>14, <1>15 DEF SenderStep

\* ... and so does each step of the receiver.
LEMMA ReceiverWorks ==
  ASSUME IsFiniteSet(Files), SyncType, NEW p \in Sessions, ReceiverStep(p)
  PROVE  Work(p)' \in Nat /\ Work(p)' < Work(p)
  <1>1. /\ toR[p] \in Seq(Frames) /\ toS[p] \in Seq(Frames)
        /\ \A t \in Signals : [type |-> t] \in Frames
    BY SignalFrames DEF SyncType
  <1>2. PICK s \in Nat, r \in Nat, l \in Nat, a \in Nat, b \in Nat :
            Counted(p, s, r, l, a, b) /\ Work(p) = s + r + 4 * l + a + b
    BY WorkCounted
  <1>3. PICK n \in Nat : Cardinality(Files) = n
    BY FS_CardinalityType
  <1>4. /\ SenderToDo(spc[p]) = s /\ ReceiverToDo(rpc[p]) = r
        /\ Cardinality(left[p]) = l /\ Len(toR[p]) = a /\ Len(toS[p]) = b
    BY <1>2 DEF Counted
  <1>5. spc'[p] = spc[p] /\ left'[p] = left[p]
    BY DEF ReceiverStep, ReceiverAuthenticates, RequestPull, AcceptPush, StoreFileChunks,
       StoreObject, TakeFrame, Register, ReceiverFails
  <1>6. ASSUME NEW r2 \in Nat, NEW a2 \in Nat, NEW b2 \in Nat,
               ReceiverToDo(rpc'[p]) = r2, Len(toR'[p]) = a2, Len(toS'[p]) = b2,
               s + r2 + 4 * l + a2 + b2 < s + r + 4 * l + a + b
        PROVE  Work(p)' \in Nat /\ Work(p)' < Work(p)
    <2>1. Work(p)' = s + r2 + 4 * l + a2 + b2
      BY <1>4, <1>5, <1>6, Zenon DEF Work
    <2>2. s + r2 + 4 * l + a2 + b2 \in Nat
      OBVIOUS
    <2> QED
      BY <1>2, <1>6, <2>1, <2>2, Zenon
  <1>7. ASSUME toR[p] # << >>, toR'[p] = Tail(toR[p])
        PROVE  a >= 1 /\ Len(toR'[p]) = a - 1 /\ a - 1 \in Nat
    <2>1. Len(toR[p]) >= 1 /\ Len(Tail(toR[p])) = Len(toR[p]) - 1
      BY <1>1, <1>7, Lengths
    <2> QED
      BY <1>4, <1>7, <2>1
  <1>8. CASE ReceiverAuthenticates(p) \/ RequestPull(p) \/ AcceptPush(p) \/ Register(p)
    <2>1. PICK type, t \in Signals : ReceiverAnswers(p, type, [type |-> t])
      BY <1>8, Zenon DEF ReceiverAuthenticates, RequestPull, AcceptPush, Register, Signals
    <2>2. /\ \/ rpc[p] \in {"accepted", "dialed"} /\ rpc'[p] = "begin"
             \/ rpc[p] = "begin" /\ rpc'[p] = "receive"
             \/ rpc[p] = "receive" /\ rpc'[p] = "done"
      BY <1>8 DEF ReceiverAuthenticates, RequestPull, AcceptPush, Register, RGoto, SyncType
    <2>3. [type |-> t] \in Frames
      BY <1>1
    <2>4. /\ toR[p] # << >> /\ toR'[p] = Tail(toR[p])
          /\ toS'[p] = toS[p] \/ toS'[p] = Append(toS[p], [type |-> t])
      BY <2>1, <2>3, ReceiverAnswering
    <2>5. a >= 1 /\ Len(toR'[p]) = a - 1 /\ a - 1 \in Nat
      BY <1>7, <2>4
    <2>6. PICK b2 \in Nat : Len(toS'[p]) = b2 /\ b2 <= b + 1
      <3>1. Len(Append(toS[p], [type |-> t])) = b + 1
        BY <1>1, <1>4, <2>3, Lengths
      <3> QED
        BY <1>4, <2>4, <3>1
    <2>7. PICK r2 \in Nat : ReceiverToDo(rpc'[p]) = r2 /\ r2 < r
      <3>1. /\ ReceiverToDo("accepted") = 3 /\ ReceiverToDo("dialed") = 3
            /\ ReceiverToDo("begin") = 2 /\ ReceiverToDo("receive") = 1
            /\ ReceiverToDo("done") = 0
        BY <1>3, ToDo DEF Ended
      <3> QED
        BY <1>4, <2>2, <3>1
    <2>8. s + r2 + 4 * l + (a - 1) + b2 < s + r + 4 * l + a + b
      BY <2>5, <2>6, <2>7
    <2> QED
      BY <1>6, <2>5, <2>6, <2>7, <2>8, Zenon
  <1>9. CASE StoreFileChunks(p) \/ StoreObject(p)
    <2>1. /\ rpc'[p] = rpc[p] /\ toR[p] # << >> /\ toR'[p] = Tail(toR[p]) /\ toS' = toS
      BY <1>9 DEF StoreFileChunks, StoreObject, TakeFrame, Hears, SyncType
    <2>2. a >= 1 /\ Len(toR'[p]) = a - 1 /\ a - 1 \in Nat
      BY <1>7, <2>1
    <2>3. ReceiverToDo(rpc'[p]) = r /\ Len(toS'[p]) = b
      BY <1>4, <2>1, Zenon
    <2>4. s + r + 4 * l + (a - 1) + b < s + r + 4 * l + a + b
      BY <2>2
    <2> QED
      BY <1>6, <2>2, <2>3, <2>4, Zenon
  <1>10. CASE ReceiverFails(p)
    <2>1. rpc[p] \notin Ended /\ rpc'[p] = "failed" /\ toR' = toR /\ toS' = toS
      BY <1>10 DEF ReceiverFails, RGoto, SyncType, wireVars
    <2>2. r >= 1
      <3>1. rpc[p] \in {"dialed", "accepted", "begin", "receive"}
        BY <2>1 DEF SyncType, Ended
      <3> QED
        BY <1>3, <1>4, <3>1, ToDo
    <2>3. ReceiverToDo(rpc'[p]) = 0 /\ Len(toR'[p]) = a /\ Len(toS'[p]) = b
      BY <1>3, <1>4, <2>1, ToDo, Zenon DEF Ended
    <2>4. s + 0 + 4 * l + a + b < s + r + 4 * l + a + b /\ 0 \in Nat
      BY <2>2
    <2> QED
      BY <1>6, <2>3, <2>4, Zenon
  <1> QED
    BY <1>8, <1>9, <1>10 DEF ReceiverStep

\* No step adds to the work of a session that has begun.
LEMMA NothingAdded ==
  ASSUME IsFiniteSet(Files), SyncInv, [Next]_vars, NEW p \in Sessions, spc[p] # "none"
  PROVE  spc'[p] # "none" /\ Work(p)' <= Work(p)
  <1>1. SyncType /\ toR[p] \in Seq(Frames) /\ toS[p] \in Seq(Frames)
    BY DEF SyncInv, SyncType
  <1>2. PICK s \in Nat, r \in Nat, l \in Nat, a \in Nat, b \in Nat :
            Counted(p, s, r, l, a, b) /\ Work(p) = s + r + 4 * l + a + b
    BY <1>1, WorkCounted
  <1>3. PICK n \in Nat : Cardinality(Files) = n
    BY FS_CardinalityType
  <1>4. /\ SenderToDo(spc[p]) = s /\ ReceiverToDo(rpc[p]) = r
        /\ Cardinality(left[p]) = l /\ Len(toR[p]) = a /\ Len(toS[p]) = b
    BY <1>2 DEF Counted
  <1>5. ASSUME spc'[p] = spc[p], left'[p] = left[p], NEW r2 \in Nat, NEW a2 \in Nat,
               NEW b2 \in Nat, ReceiverToDo(rpc'[p]) = r2, Len(toR'[p]) = a2,
               Len(toS'[p]) = b2, r2 <= r, a2 <= a, b2 <= b
        PROVE  Work(p)' <= Work(p)
    <2>1. Work(p)' = s + r2 + 4 * l + a2 + b2
      BY <1>4, <1>5, Zenon DEF Work
    <2>2. s + r2 + 4 * l + a2 + b2 <= s + r + 4 * l + a + b
      BY <1>5
    <2> QED
      BY <1>2, <2>1, <2>2, Zenon
  <1>6. r <= r /\ a <= a /\ b <= b
    OBVIOUS
  <1>7. ASSUME UNCHANGED <<spc[p], rpc[p], left[p], toR[p], toS[p]>>
        PROVE  spc'[p] # "none" /\ Work(p)' <= Work(p)
    BY <1>4, <1>5, <1>6, <1>7, Zenon
  <1>8. ASSUME Work(p)' \in Nat, Work(p)' < Work(p)  PROVE  Work(p)' <= Work(p)
    <2>1. Work(p) \in Nat
      BY <1>1, WorkCounted
    <2> QED
      BY <1>8, <2>1
  <1>9. CASE SenderStep(p)
    <2>1. spc'[p] # "none"
      BY <1>1, <1>9 DEF SenderStep, SenderAuthenticates, BeginPush, ExpectReady, SendFileChunks,
         SendObject, SendEnd, ExpectAck, SenderFails, SGoto, SyncType
    <2> QED
      BY <1>8, <1>9, <2>1, SenderWorks, Zenon
  <1>10. CASE ReceiverStep(p)
    <2>1. spc'[p] = spc[p]
      BY <1>10 DEF ReceiverStep, ReceiverAuthenticates, RequestPull, AcceptPush, StoreFileChunks,
         StoreObject, TakeFrame, Register, ReceiverFails
    <2> QED
      BY <1>1, <1>8, <1>10, <2>1, ReceiverWorks, Zenon
  <1>11. CASE Break(p)
    <2>1. /\ spc' = spc /\ rpc' = rpc /\ left' = left
          /\ toR'[p] \in Prefixes(toR[p]) /\ toS'[p] \in Prefixes(toS[p])
      BY <1>1, <1>11 DEF Break, SyncType
    <2>2. /\ Len(toR'[p]) \in Nat /\ Len(toR'[p]) <= a
          /\ Len(toS'[p]) \in Nat /\ Len(toS'[p]) <= b
      BY <1>1, <1>4, <2>1, Lengths
    <2> QED
      BY <1>4, <1>5, <1>6, <2>1, <2>2, Zenon
  <1>12. CASE ReceiverCrash \/ WriteFails(p)
    <2>1. /\ spc' = spc /\ left' = left /\ toS' = toS /\ toR'[p] = << >>
          /\ rpc'[p] = rpc[p] \/ rpc'[p] = "failed"
      BY <1>1, <1>12 DEF ReceiverCrash, WriteFails, RGoto, SyncType
    <2>2. ReceiverToDo("failed") = 0
      BY <1>3, ToDo DEF Ended
    <2>3. PICK r2 \in Nat : ReceiverToDo(rpc'[p]) = r2 /\ r2 <= r
      BY <1>4, <2>1, <2>2
    <2>4. Len(toR'[p]) = 0 /\ 0 \in Nat /\ 0 <= a
      BY <1>1, <2>1, Lengths
    <2>5. Len(toS'[p]) = b
      BY <1>4, <2>1, Zenon
    <2> QED
      BY <1>5, <1>6, <2>1, <2>3, <2>4, <2>5, Zenon
  <1>13. CASE SenderBackup \/ UNCHANGED vars
    BY <1>7, <1>13 DEF SenderBackup, vars, wireVars
  <1>14. ASSUME NEW q \in Sessions \ {p}, NEW v \in Versions,
                \/ PushSnapshot(q, v) \/ PullSnapshot(q, v)
                \/ SenderStep(q) \/ ReceiverStep(q) \/ Break(q) \/ WriteFails(q)
         PROVE  spc'[p] # "none" /\ Work(p)' <= Work(p)
    <2>1. UNCHANGED <<spc[p], rpc[p], left[p], toR[p], toS[p]>>
      BY <1>1, <1>14 DEF PushSnapshot, PullSnapshot, SenderStep, ReceiverStep, Break, WriteFails, SyncType,
         SGoto, RGoto, SendToR, Reply, SenderAnswers, ReceiverAnswers, SenderAuthenticates,
         BeginPush, ExpectReady, SendFileChunks, SendObject, SendEnd, ExpectAck, SenderFails,
         ReceiverAuthenticates, RequestPull, AcceptPush, StoreFileChunks, StoreObject, TakeFrame,
         Register, ReceiverFails, wireVars
    <2> QED
      BY <1>7, <2>1
  <1>15. ASSUME NEW v \in Versions, PushSnapshot(p, v) \/ PullSnapshot(p, v)  PROVE  FALSE
    BY <1>15 DEF PushSnapshot, PullSnapshot
  <1> QED
    <2>1. ASSUME NEW q \in Sessions, NEW v \in Versions,
                 \/ PushSnapshot(q, v) \/ PullSnapshot(q, v)
                 \/ SenderStep(q) \/ ReceiverStep(q) \/ Break(q) \/ WriteFails(q)
          PROVE  spc'[p] # "none" /\ Work(p)' <= Work(p)
      <3>1. CASE q = p
        BY <1>9, <1>10, <1>11, <1>12, <1>15, <2>1, <3>1, Zenon
      <3>2. CASE q # p
        BY <1>14, <2>1, <3>2
      <3> QED
        BY <3>1, <3>2
    <2>2. 1 \in Versions
      BY LimitAssumption DEF Kinds, Versions
    <2> QED
      BY <1>12, <1>13, <2>1, <2>2, Zenon DEF Next, Idle

\* Every session has finitely many steps ahead of it, when there are finitely many files:
\* a number that no other session, backup, break, failure or crash makes larger falls with each
\* step of either end.  With OneEndGoesOn, and the fairness of both ends, that is why
\* every session ends.
THEOREM WorkRunsOut ==
  ASSUME IsFiniteSet(Files)
  PROVE  Spec => [](\A p \in Sessions : Work(p) \in Nat) /\ [][NearerTheEnd]_vars
  <1>1. Init => SyncInv
    BY InitSync
  <1>2. SyncInv /\ [Next]_vars => SyncInv'
    BY SyncStep
  <1>3. SyncInv => \A p \in Sessions : Work(p) \in Nat
    BY WorkCounted DEF SyncInv
  <1>4. SyncInv /\ [Next]_vars => [NearerTheEnd]_vars
    BY SenderWorks, ReceiverWorks, NothingAdded DEF NearerTheEnd, SyncInv
  <1> QED
    BY <1>1, <1>2, <1>3, <1>4, PTL DEF Spec

=============================================================================
