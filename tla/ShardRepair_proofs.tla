------------------------- MODULE ShardRepair_proofs -------------------------
(***************************************************************************)
(* Theorems about ShardRepair, for any number of data and parity shards    *)
(* and any number of rotten shards, failing writes and crashes.            *)
(***************************************************************************)
EXTENDS ShardRepair, FiniteSetTheorems, TLAPS

-----------------------------------------------------------------------------

\* A job has put in place all the data shards before the one it is at; one that writes is
\* not in the index.
Written ==
    /\ open => job # "none"
    /\ job = "write" => ~ indexed
    /\ job # "none" => \A s \in Data : s < file => s \in good

\* A complete object that no repair has left unfinished is at rest, findable after a
\* restart, and lacks no more shards than have rotted.
AtRest ==
    complete /\ ~ torn =>
        /\ job = "none" /\ dir /\ header /\ indexed
        /\ Cardinality(Shards \ good) <= rots

\* But for an unfinished repair and a header that a failed write left behind, the header is
\* there only when all the data was written, and a restart finds an object where there is one.
HeaderLast ==
    ~ early /\ ~ torn =>
        /\ job # "repair"
        /\ job = "none" => (indexed <=> header)
        /\ job = "write" /\ header => file = ParityFile
        /\ header /\ rots = 0 => Data \subseteq good

\* A write begins with the directory, which stays.
HasDir == job # "none" \/ indexed \/ header => dir

\* A repair is unfinished until it ends.
RepairTorn == job = "repair" => torn

ShardInv == TypeOK /\ Written /\ AtRest /\ HeaderLast /\ HasDir /\ RepairTorn

-----------------------------------------------------------------------------

\* The shards are finitely many, and the parity file follows the data.
LEMMA ShardFacts ==
  /\ IsFiniteSet(Shards)
  /\ Data \cap Parity = {} /\ ParityFile \notin Data
  /\ \A s \in Data : s < ParityFile
  /\ \A s \in Data : s + 1 \in Data \cup {ParityFile}
  /\ 1 \in Data
  <1>1. IsFiniteSet(Data) /\ IsFiniteSet(Parity)
    BY ShardsAssumption, FS_Interval DEF Data, Parity
  <1>2. IsFiniteSet(Shards)
    BY <1>1, FS_Union DEF Shards
  <1> QED
    BY <1>2, ShardsAssumption DEF Data, Parity, ParityFile

\* No shard is left out of a finite set of them but the rotten.
LEMMA RotCount ==
  ASSUME NEW s \in Shards, NEW G \in SUBSET Shards
  PROVE  /\ Cardinality(Shards \ G) \in Nat
         /\ Cardinality(Shards \ (G \ {s})) <= Cardinality(Shards \ G) + 1
  <1>1. IsFiniteSet(Shards \ G)
    BY ShardFacts, FS_Subset
  <1>2. Shards \ (G \ {s}) = (Shards \ G) \cup {s}
    OBVIOUS
  <1>3. Cardinality(Shards \ G) \in Nat
    BY <1>1, FS_CardinalityType
  <1>4. Cardinality((Shards \ G) \cup {s}) =
          IF s \in Shards \ G THEN Cardinality(Shards \ G) ELSE Cardinality(Shards \ G) + 1
    BY <1>1, FS_AddElement
  <1>5. Cardinality(Shards \ (G \ {s})) = Cardinality((Shards \ G) \cup {s})
    BY <1>2, Zenon
  <1> QED
    BY <1>3, <1>4, <1>5

\* At first there is nothing.
LEMMA InitShards == Init => ShardInv
  <1> SUFFICES ASSUME Init PROVE ShardInv
    OBVIOUS
  <1>1. TypeOK
    BY ShardFacts DEF Init, TypeOK
  <1>2. Written /\ AtRest /\ HasDir /\ RepairTorn
    BY DEF Init, Written, AtRest, HasDir, RepairTorn
  <1>3. HeaderLast
    BY DEF Init, HeaderLast
  <1> QED
    BY <1>1, <1>2, <1>3 DEF ShardInv

\* Types are kept.
LEMMA ShardTypes == TypeOK /\ [Next]_vars => TypeOK'
  <1> SUFFICES ASSUME TypeOK, [Next]_vars PROVE TypeOK'
    OBVIOUS
  <1> USE ShardFacts, LimitAssumption DEF TypeOK, jobVars
  <1>1. CASE StartWrite \/ StartRepair \/ VerifyReports \/ UNCHANGED vars
    BY <1>1 DEF StartWrite, StartRepair, VerifyReports, Begin, vars
  <1>2. CASE TruncateShard
    BY <1>2 DEF TruncateShard
  <1>3. CASE FillShard
    <2>1. good' \subseteq Shards
      BY <1>3 DEF FillShard, Shards
    <2>2. file' \in Data \cup {ParityFile}
      BY <1>3 DEF FillShard
    <2> QED
      BY <1>3, <2>1, <2>2 DEF FillShard
  <1>6. CASE TruncateParity \/ FillHeader
    BY <1>6 DEF TruncateParity, FillHeader
  <1>7. CASE FillParity
    BY <1>7 DEF FillParity, End, Shards
  <1>4. CASE JobFails \/ Crash
    <2>1. used' \in [Kinds -> Nat]
      BY <1>4 DEF JobFails, Crash, Spend, Kinds
    <2>2. indexed' \in BOOLEAN
      BY <1>4 DEF JobFails, Crash, Loadable
    <2> QED
      BY <1>4, <2>1, <2>2 DEF JobFails, Crash, End
  <1>5. ASSUME NEW s \in Shards, Rot(s) PROVE TypeOK'
    BY <1>5 DEF Rot, Spend, Kinds
  <1> QED
    BY <1>1, <1>2, <1>3, <1>4, <1>5, <1>6, <1>7 DEF Next

\* A job begins.
LEMMA Begins ==
  ASSUME ShardInv, StartWrite \/ StartRepair
  PROVE  (Written /\ AtRest /\ HeaderLast /\ HasDir /\ RepairTorn)'
  <1> USE ShardFacts DEF ShardInv, TypeOK, Written, AtRest, HeaderLast, HasDir, RepairTorn, Begin
  <1>1. CASE StartWrite
    <2>1. \A s \in Data : ~ (s < 1)
      BY ShardsAssumption DEF Data
    <2> QED
      BY <1>1, <2>1 DEF StartWrite
  <1>2. CASE StartRepair
    <2>1. \A s \in Data : ~ (s < 1)
      BY ShardsAssumption DEF Data
    <2> QED
      BY <1>2, <2>1 DEF StartRepair
  <1> QED
    BY <1>1, <1>2

\* A data shard is put in place, in two steps: the object is not at rest, and not
\* indexed unless it is repaired.
LEMMA DataWritten ==
  ASSUME ShardInv, TruncateShard \/ FillShard
  PROVE  (Written /\ AtRest /\ HeaderLast /\ HasDir /\ RepairTorn)'
  <1> USE ShardFacts DEF ShardInv, TypeOK, HasDir, RepairTorn
  <1>1. /\ job # "none" /\ file \in Data /\ file \in Nat
        /\ UNCHANGED <<dir, header, indexed, job, used, complete, torn, early, rots>>
    BY ShardsAssumption DEF TruncateShard, FillShard, Written, Data
  <1>2. ~ (complete /\ ~ torn)
    BY <1>1 DEF AtRest
  <1>3. ~ early /\ ~ torn => job = "write" /\ ~ indexed /\ ~ header
    BY <1>1 DEF HeaderLast, Written
  <1>4. AtRest' /\ HeaderLast'
    BY <1>1, <1>2, <1>3 DEF AtRest, HeaderLast
  <1>5. Written'
    <2>1. CASE TruncateShard
      BY <1>1, <2>1 DEF TruncateShard, Written
    <2>2. CASE FillShard
      <3>1. \A s \in Data : s < file + 1 => s < file \/ s = file
        BY <1>1, ShardsAssumption DEF Data
      <3> QED
        BY <1>1, <2>2, <3>1 DEF FillShard, Written
    <2> QED
      BY <2>1, <2>2
  <1> QED
    BY <1>1, <1>4, <1>5

\* The parity file is truncated, and its header written.
LEMMA HeaderWritten ==
  ASSUME ShardInv, TruncateParity \/ FillHeader
  PROVE  (Written /\ AtRest /\ HeaderLast /\ HasDir /\ RepairTorn)'
  <1> USE ShardFacts DEF ShardInv, TypeOK, HasDir, RepairTorn
  <1>1. /\ job # "none" /\ file = ParityFile
        /\ UNCHANGED <<dir, indexed, job, file, used, complete, torn, rots>>
    BY DEF TruncateParity, FillHeader, Written, jobVars
  <1>2. ~ (complete /\ ~ torn)
    BY <1>1 DEF AtRest
  <1>3. Data \subseteq good /\ Data \subseteq good'
    BY <1>1 DEF TruncateParity, FillHeader, Written
  <1>4. ~ torn => job = "write" /\ ~ indexed /\ dir
    BY <1>1 DEF Written
  <1>5. AtRest' /\ HeaderLast'
    BY <1>1, <1>2, <1>3, <1>4 DEF AtRest, HeaderLast
  <1>6. Written'
    BY <1>1, <1>3 DEF Written
  <1> QED
    BY <1>1, <1>5, <1>6

\* The parity shards are written: the object has all its shards.
LEMMA ParityWritten ==
  ASSUME ShardInv, FillParity
  PROVE  (Written /\ AtRest /\ HeaderLast /\ HasDir /\ RepairTorn)'
  <1> USE ShardFacts DEF ShardInv, TypeOK, FillParity, End
  <1>1. Data \subseteq good /\ job # "none"
    BY DEF Written
  <1>2. good' = Shards
    BY <1>1 DEF Shards
  <1>3. Cardinality(Shards \ good') = 0
    BY <1>2, FS_EmptySet
  <1> QED
    BY <1>1, <1>2, <1>3 DEF Written, AtRest, HeaderLast, HasDir, RepairTorn, Shards

\* A job fails, or the process dies: an object at rest stays so, and a restart finds it.
LEMMA Stops ==
  ASSUME ShardInv, JobFails \/ Crash
  PROVE  (Written /\ AtRest /\ HeaderLast /\ HasDir /\ RepairTorn)'
  <1> USE LimitAssumption, ShardFacts
          DEF ShardInv, TypeOK, Written, AtRest, HeaderLast, HasDir, RepairTorn, End, Spend, Kinds
  <1>1. CASE JobFails
    BY <1>1 DEF JobFails
  <1>2. CASE Crash
    BY <1>2 DEF Crash, Loadable
  <1> QED
    BY <1>1, <1>2

\* A shard rots.
LEMMA Rots ==
  ASSUME ShardInv, NEW s \in Shards, Rot(s)
  PROVE  (Written /\ AtRest /\ HeaderLast /\ HasDir /\ RepairTorn)'
  <1> USE LimitAssumption, ShardFacts DEF ShardInv, TypeOK, HasDir, RepairTorn, Rot, jobVars, Spend, Kinds
  <1>1. Written' /\ HeaderLast'
    BY DEF Written, HeaderLast
  <1>2. /\ Cardinality(Shards \ good) \in Nat /\ Cardinality(Shards \ good') \in Nat
        /\ Cardinality(Shards \ good') <= Cardinality(Shards \ good) + 1
    BY RotCount
  <1>3. AtRest'
    BY <1>2 DEF AtRest
  <1> QED
    BY <1>1, <1>3

\* The invariant is inductive.
LEMMA ShardStep == ShardInv /\ [Next]_vars => ShardInv'
  <1> SUFFICES ASSUME ShardInv, [Next]_vars PROVE ShardInv'
    OBVIOUS
  <1>1. TypeOK'
    BY ShardTypes DEF ShardInv
  <1>2. CASE VerifyReports \/ UNCHANGED vars
    <2>1. UNCHANGED vars
      BY <1>2 DEF VerifyReports
    <2> QED
      BY <1>1, <2>1 DEF vars, jobVars, ShardInv, Written, AtRest, HeaderLast, HasDir, RepairTorn
  <1> QED
    BY <1>1, <1>2, Begins, DataWritten, HeaderWritten, ParityWritten, Stops, Rots
    DEF Next, ShardInv

-----------------------------------------------------------------------------

\* For any number of shards: an object whose write or repair has ended survives as many
\* rotten shards as there are parity shards, whatever fails and whenever the process
\* dies, unless a repair was left unfinished.
THEOREM RotTolerated == Spec => []ToleratesRot
  <1>1. ShardInv => ToleratesRot
    <2> SUFFICES ASSUME ShardInv, complete, ~ torn, rots <= ParityShards
                 PROVE  indexed /\ Recoverable
      BY DEF ToleratesRot
    <2>1. Cardinality(Shards \ good) \in Nat
      BY ShardFacts, FS_Subset, FS_CardinalityType
    <2> QED
      BY <2>1, ShardsAssumption DEF ShardInv, TypeOK, AtRest, Recoverable, Corrupted
  <1> QED
    BY InitShards, ShardStep, <1>1, PTL DEF Spec

\* For any number of shards, failing writes and crashes: what the index has has all its data,
\* unless shards rotted, a repair was left unfinished, or a failed write left its header behind.
THEOREM HeaderCommits == Spec => []IndexedHasData
  <1>1. ShardInv => IndexedHasData
    BY DEF ShardInv, Written, HeaderLast, IndexedHasData, TypeOK
  <1> QED
    BY InitShards, ShardStep, <1>1, PTL DEF Spec

=============================================================================
