------------------------- MODULE FileIntake_proofs --------------------------
(***************************************************************************)
(* Theorems about Chunking, GlobMatch and FileIntake: for files, chunk     *)
(* sizes and windows of any length, any way in which reads split a file,   *)
(* and patterns and paths of any length.                                   *)
(***************************************************************************)
EXTENDS FileIntake, SequenceTheorems, WellFoundedInduction, TLAPS

-----------------------------------------------------------------------------
(* The length of a chunk *)

\* A set of numbers has a least one.
LEMMA LeastNumber ==
  ASSUME NEW T, T \subseteq Nat, T # {}
  PROVE  \E i \in T : \A j \in T : i <= j
  <1> DEFINE R == {ss \in Nat \X Nat : ss[1] < ss[2]}
  <1>1. IsWellFoundedOn(R, Nat)
    BY NatLessThanWellFounded, Zenon DEF OpToRel
  <1>2. \A i, j \in Nat : <<j, i>> \in R <=> j < i
    OBVIOUS
  <1> HIDE DEF R
  <1>3. PICK i \in T : \A j \in T : <<j, i>> \notin R
    BY <1>1, WFMin, Zenon
  <1>4. ASSUME NEW j \in T PROVE i <= j
    <2>1. i \in Nat /\ j \in Nat
      OBVIOUS
    <2>2. ~ (j < i)
      BY <1>2, <1>3, <2>1, Zenon
    <2> QED
      BY <2>1, <2>2
  <1> QED
    BY <1>4

\* A chunk is not empty, is no longer than what is at hand and than the maximal size,
\* and no shorter than the minimal size if there is as much at hand.
LEMMA ChunkSizeBounds ==
  ASSUME NEW data \in Seq(Nat), data # << >>
  PROVE  /\ ChunkSize(data) \in 1..Len(data)
         /\ ChunkSize(data) <= MaxSize
         /\ Len(data) >= MinSize => ChunkSize(data) >= MinSize
  <1> USE ChunkAssumption
  <1> DEFINE end == Least(MaxSize, Len(data))
  <1>1. CASE Len(data) <= MinSize
    BY <1>1 DEF ChunkSize
  <1>2. CASE Len(data) > MinSize
    <2> DEFINE hits == {i \in MinSize + Window + 1..end : Boundary(WindowHashes(data)[i])}
    <2>1. FindBoundary(data) =
            IF hits = {} THEN end ELSE CHOOSE i \in hits : \A j \in hits : i <= j
      BY Zenon DEF FindBoundary
    <2>2. end \in Nat /\ MinSize <= end /\ end <= MaxSize /\ end <= Len(data)
      BY <1>2 DEF Least
    <2>3. hits \subseteq Nat /\ hits \subseteq MinSize..end
      BY <2>2
    <2> HIDE DEF hits
    <2>4. hits # {} => FindBoundary(data) \in hits
      BY <2>1, <2>3, LeastNumber, Zenon
    <2>5. hits = {} => FindBoundary(data) = end
      BY <2>1, Zenon
    <2> HIDE DEF end
    <2>6. FindBoundary(data) \in MinSize..end
      <3>1. end \in MinSize..end
        BY <2>2
      <3> QED
        BY <2>3, <2>4, <2>5, <3>1, Zenon
    <2> QED
      BY <1>2, <2>2, <2>6 DEF ChunkSize
  <1> QED
    BY <1>1, <1>2

-----------------------------------------------------------------------------
(* No byte is lost *)

\* A part of a sequence of bytes.
LEMMA PartOf ==
  ASSUME NEW s \in Seq(Nat), NEW m \in 1..Len(s) + 1, NEW n \in m - 1..Len(s)
  PROVE  /\ SubSeq(s, m, n) \in Seq(Nat)
         /\ Len(SubSeq(s, m, n)) = n - m + 1
         /\ \A i \in 1..n - m + 1 : SubSeq(s, m, n)[i] = s[m + i - 1]
  <1>1. \A i \in m..n : s[i] \in Nat
    OBVIOUS
  <1>2. m \in Int /\ n \in Int
    OBVIOUS
  <1> QED
    BY <1>1, <1>2, SubSeqProperties

\* The first n elements after the first k.
LEMMA Segment ==
  ASSUME NEW s \in Seq(Nat), NEW k \in Nat, NEW n \in Nat, k + n <= Len(s)
  PROVE  /\ SubSeq(s, k + 1, k + n) \in Seq(Nat)
         /\ Len(SubSeq(s, k + 1, k + n)) = n
         /\ \A i \in 1..n : SubSeq(s, k + 1, k + n)[i] = s[k + i]
  <1> DEFINE t == SubSeq(s, k + 1, k + n)
  <1>1. Len(s) \in Nat
    BY LenProperties
  <1>2. k + 1 \in 1..Len(s) + 1 /\ k + n \in (k + 1) - 1..Len(s)
    BY <1>1
  <1>3. /\ t \in Seq(Nat) /\ Len(t) = (k + n) - (k + 1) + 1
        /\ \A i \in 1..(k + n) - (k + 1) + 1 : t[i] = s[(k + 1) + i - 1]
    BY <1>2, PartOf
  <1> HIDE DEF t
  <1>4. (k + n) - (k + 1) + 1 = n
    OBVIOUS
  <1>5. ASSUME NEW i \in 1..n PROVE t[i] = s[k + i]
    <2>1. (k + 1) + i - 1 = k + i
      OBVIOUS
    <2> QED
      BY <1>3, <1>4, <2>1
  <1> QED
    BY <1>3, <1>4, <1>5 DEF t

\* What is left of a sequence without its first n elements.
LEMMA WithoutFirst ==
  ASSUME NEW s \in Seq(Nat), NEW n \in 0..Len(s)
  PROVE  /\ SubSeq(s, n + 1, Len(s)) \in Seq(Nat)
         /\ Len(SubSeq(s, n + 1, Len(s))) = Len(s) - n
         /\ \A i \in 1..Len(s) - n : SubSeq(s, n + 1, Len(s))[i] = s[n + i]
  <1> DEFINE m == Len(s) - n
  <1>1. m \in Nat /\ n + m = Len(s)
    BY LenProperties
  <1>2. m = Len(s) - n
    OBVIOUS
  <1> HIDE DEF m
  <1>3. /\ SubSeq(s, n + 1, n + m) \in Seq(Nat) /\ Len(SubSeq(s, n + 1, n + m)) = m
        /\ \A i \in 1..m : SubSeq(s, n + 1, n + m)[i] = s[n + i]
    BY <1>1, Segment
  <1> QED
    BY <1>1, <1>2, <1>3

Chunk == [offset : Nat, data : Seq(Nat)]

IntakeType ==
    /\ file.data \in Seq(Nat)
    /\ rest \in Seq(Nat) /\ buf \in Seq(Nat)
    /\ chunks \in Seq(Chunk)

\* The buffer and what is to be read follow the chunks in the file, up to its end.
Follows ==
    /\ Offset \in Nat
    /\ Offset + Len(buf) + Len(rest) = Len(file.data)
    /\ \A i \in 1..Len(buf) : buf[i] = file.data[Offset + i]
    /\ \A i \in 1..Len(rest) : rest[i] = file.data[Offset + Len(buf) + i]

\* The part of Lossless about chunks.
ChunksOK ==
    \A c \in DOMAIN chunks :
        /\ chunks[c].data = SubSeq(file.data, chunks[c].offset + 1,
                                   chunks[c].offset + Len(chunks[c].data))
        /\ c < Len(chunks) => /\ Len(chunks[c].data) >= MinSize
                              /\ chunks[c + 1].offset = chunks[c].offset + Len(chunks[c].data)
        /\ Len(chunks[c].data) \in 1..MaxSize

\* A chunk shorter than the minimal size is cut at the end of the file only, the
\* buffer has room for a read, and the end comes when everything is read and cut.
Tidy ==
    /\ chunks # << >> /\ Len(chunks[Len(chunks)].data) < MinSize => buf = << >> /\ rest = << >>
    /\ eof => rest = << >>
    /\ Len(buf) < MinSize + ReadSize
    /\ pc = "done" => buf = << >> /\ rest = << >>

IntakeInv == IntakeType /\ Follows /\ ChunksOK /\ Tidy

\* Nothing is read yet.
LEMMA InitIntake == Init => IntakeInv
  <1> SUFFICES ASSUME Init PROVE IntakeInv
    OBVIOUS
  <1> USE ChunkAssumption, IntakeAssumption DEF Init
  <1>1. IntakeType
    <2>1. file.data \in Seq(Nat)
      OBVIOUS
    <2>2. << >> \in Seq(Nat) /\ << >> \in Seq(Chunk)
      BY EmptySeq
    <2> QED
      BY <2>1, <2>2 DEF IntakeType
  <1>2. Offset = 0 /\ Len(buf) = 0
    BY DEF Offset
  <1>3. Follows
    BY <1>1, <1>2 DEF Follows, IntakeType
  <1>4. ChunksOK /\ Tidy
    BY DEF ChunksOK, Tidy
  <1> QED
    BY <1>1, <1>3, <1>4 DEF IntakeInv

\* The invariant says what Lossless says.
LEMMA IntakeLossless == IntakeInv => Lossless
  <1> SUFFICES ASSUME IntakeInv PROVE Lossless
    OBVIOUS
  <1> USE DEF IntakeInv, IntakeType
  <1> DEFINE left == SubSeq(file.data, Offset + 1, Len(file.data))
  <1>1. /\ buf \o rest \in Seq(Nat)
        /\ Len(buf \o rest) = Len(buf) + Len(rest)
        /\ \A i \in 1..Len(buf) + Len(rest) :
              (buf \o rest)[i] = IF i <= Len(buf) THEN buf[i] ELSE rest[i - Len(buf)]
    BY ConcatProperties
  <1>2. /\ left \in Seq(Nat)
        /\ Len(left) = Len(file.data) - Offset
        /\ \A i \in 1..Len(left) : left[i] = file.data[Offset + i]
    <2>1. Offset + 1 \in 1..Len(file.data) + 1 /\ Len(file.data) \in Offset..Len(file.data)
      BY DEF Follows
    <2> QED
      BY <2>1, PartOf DEF Follows
  <1> HIDE DEF left
  <1>0. Len(buf) \in Nat /\ Len(rest) \in Nat /\ Len(file.data) \in Nat /\ Offset \in Nat
    BY LenProperties DEF Follows
  <1>3. Len(left) = Len(buf) + Len(rest)
    BY <1>0, <1>2 DEF Follows
  <1>4. ASSUME NEW i \in 1..Len(left) PROVE (buf \o rest)[i] = left[i]
    <2>1. CASE i <= Len(buf)
      BY <1>0, <1>1, <1>2, <1>3, <2>1 DEF Follows
    <2>2. CASE i > Len(buf)
      <3>1. i - Len(buf) \in 1..Len(rest)
        BY <1>0, <1>3, <2>2
      <3>2. rest[i - Len(buf)] = file.data[Offset + Len(buf) + (i - Len(buf))]
        BY <3>1 DEF Follows
      <3>3. Offset + Len(buf) + (i - Len(buf)) = Offset + i
        BY <1>0
      <3>4. (buf \o rest)[i] = rest[i - Len(buf)]
        BY <1>0, <1>1, <1>3, <2>2
      <3> QED
        BY <1>2, <3>2, <3>3, <3>4
    <2> QED
      BY <1>0, <1>3, <2>1, <2>2
  <1>5. buf \o rest = left
    <2>1. Len(buf \o rest) = Len(left)
      BY <1>1, <1>3
    <2>2. \A i \in 1..Len(buf \o rest) : (buf \o rest)[i] = left[i]
      BY <1>4, <2>1
    <2> QED
      BY <1>1, <1>2, <2>1, <2>2, SeqEqual
  <1>6. pc = "done" => buf \o rest = << >>
    BY ConcatEmptySeq DEF Tidy
  <1> QED
    BY <1>5, <1>6 DEF Lossless, ChunksOK, Tidy, left

\* A read appends to the buffer what it takes off the file.
LEMMA Filling ==
  ASSUME IntakeInv, NEW n \in 0..ReadSize, Fill(n)
  PROVE  IntakeInv'
  <1>0. ReadSize \in Nat \ {0} /\ \A f \in Inputs : f.data \in Seq(Nat)
    BY IntakeAssumption
  <1> USE <1>0, ChunkAssumption DEF IntakeInv, IntakeType
  <1> DEFINE got == SubSeq(rest, 1, n)
  <1>1. n <= Len(rest) /\ n <= ReadSize /\ n \in Nat /\ (n = 0 <=> rest = << >>)
    BY DEF Fill, Least
  <1>2. /\ Len(buf) \in Nat /\ Len(rest) \in Nat /\ Len(file.data) \in Nat /\ Offset \in Nat
        /\ Len(buf) < MinSize /\ rest \in [1..Len(rest) -> Nat]
    BY LenProperties DEF Fill, Wanting, Follows
  <1>3. /\ got \in Seq(Nat) /\ Len(got) = n
        /\ \A i \in 1..n : got[i] = rest[i]
    BY <1>1, <1>2, PartOf
  <1>4. /\ rest' \in Seq(Nat) /\ Len(rest') = Len(rest) - n
        /\ \A i \in 1..Len(rest) - n : rest'[i] = rest[n + i]
    <2> DEFINE left == SubSeq(rest, n + 1, Len(rest))
    <2>1. /\ left \in Seq(Nat) /\ Len(left) = Len(rest) - n
          /\ \A i \in 1..Len(rest) - n : left[i] = rest[n + i]
      <3>1. n \in 0..Len(rest)
        BY <1>1, <1>2
      <3> QED
        BY <3>1, WithoutFirst
    <2>2. rest' = left
      BY DEF Fill
    <2> HIDE DEF left
    <2> QED
      BY <2>1, <2>2
  <1> HIDE DEF got
  <1>5. /\ buf' \in Seq(Nat) /\ Len(buf') = Len(buf) + n
        /\ \A i \in 1..Len(buf) + n : buf'[i] = IF i <= Len(buf) THEN buf[i] ELSE got[i - Len(buf)]
    <2> DEFINE both == buf \o got
    <2>1. /\ both \in Seq(Nat) /\ Len(both) = Len(buf) + Len(got)
          /\ \A i \in 1..Len(buf) + Len(got) :
                both[i] = IF i <= Len(buf) THEN buf[i] ELSE got[i - Len(buf)]
      <3>1. buf \in Seq(Nat) /\ got \in Seq(Nat)
        BY <1>3
      <3> HIDE <1>0, ChunkAssumption DEF IntakeInv, IntakeType
      <3> QED
        BY <3>1, ConcatProperties
    <2>2. buf' = both
      BY DEF Fill, got
    <2> HIDE DEF both
    <2> QED
      BY <1>3, <2>1, <2>2
  <1>6. UNCHANGED <<file, pc, chunks, Offset>>
    BY DEF Fill, Offset
  <1>7. IntakeType'
    BY <1>4, <1>5, <1>6
  <1>8. Follows'
    <2>1. ASSUME NEW i \in 1..Len(buf') PROVE buf'[i] = file.data[Offset + i]
      <3>1. CASE i <= Len(buf)
        <4>1. i \in 1..Len(buf) /\ i \in 1..Len(buf) + n
          BY <1>1, <1>2, <3>1
        <4>2. buf[i] = file.data[Offset + i]
          BY <4>1 DEF Follows
        <4> QED
          BY <1>5, <3>1, <4>1, <4>2
      <3>2. CASE i > Len(buf)
        <4>1. i - Len(buf) \in 1..n /\ i - Len(buf) \in 1..Len(rest)
          <5> DEFINE b == Len(buf)
                     r == Len(rest)
          <5>1. b \in Nat /\ r \in Nat /\ n \in Nat /\ n <= r /\ i \in 1..b + n /\ i > b
            BY <1>1, <1>2, <1>5, <3>2
          <5> HIDE <1>0, ChunkAssumption DEF IntakeInv, IntakeType, b, r
          <5>2. i - b \in 1..n /\ i - b \in 1..r
            BY <5>1
          <5> QED
            BY <5>2 DEF b, r
        <4>2. rest[i - Len(buf)] = file.data[Offset + Len(buf) + (i - Len(buf))]
          BY <4>1 DEF Follows
        <4>3. Offset + Len(buf) + (i - Len(buf)) = Offset + i
          BY <1>2
        <4>4. buf'[i] = got[i - Len(buf)]
          <5>1. i \in 1..Len(buf) + n /\ ~ (i <= Len(buf))
            BY <1>1, <1>2, <1>5, <3>2
          <5> QED
            BY <1>5, <5>1, Zenon
        <4> QED
          BY <1>3, <4>1, <4>2, <4>3, <4>4
      <3> QED
        BY <1>1, <1>2, <1>5, <3>1, <3>2
    <2>2. ASSUME NEW i \in 1..Len(rest') PROVE rest'[i] = file.data[Offset + Len(buf') + i]
      <3>1. n + i \in 1..Len(rest)
        BY <1>1, <1>2, <1>4
      <3>2. rest[n + i] = file.data[Offset + Len(buf) + (n + i)]
        BY <3>1 DEF Follows
      <3>3. Offset + Len(buf) + (n + i) = Offset + Len(buf') + i
        BY <1>1, <1>2, <1>5
      <3> QED
        BY <1>1, <1>2, <1>4, <3>2, <3>3
    <2>3. Offset + Len(buf') + Len(rest') = Len(file.data)
      <3>1. Offset + Len(buf) + Len(rest) = Len(file.data)
        BY DEF Follows
      <3>2. Len(buf') = Len(buf) + n /\ Len(rest') = Len(rest) - n
        BY <1>4, <1>5
      <3>3. Offset + (Len(buf) + n) + (Len(rest) - n) = Offset + Len(buf) + Len(rest)
        BY <1>1, <1>2
      <3> QED
        BY <3>1, <3>2, <3>3, Zenon
    <2> QED
      BY <1>2, <1>6, <2>1, <2>2, <2>3 DEF Follows
  <1>9. ChunksOK'
    BY <1>6 DEF ChunksOK
  <1>10. Tidy'
    <2>1. rest = << >> => n = 0
      BY <1>1
    <2>2. n = 0 => rest' = << >>
      <3>1. n = 0 => rest = << >> /\ Len(rest') = Len(rest)
        BY <1>1, <1>2, <1>4
      <3> QED
        BY <1>4, <3>1, EmptySeq
    <2>3. n = 0 /\ buf = << >> => buf' = << >>
      <3>1. n = 0 /\ buf = << >> => Len(buf') = 0
        BY <1>2, <1>5
      <3> QED
        BY <1>5, <3>1, EmptySeq
    <2>4. eof' => rest' = << >>
      BY <2>2 DEF Fill
    <2>5. Len(buf') < MinSize + ReadSize
      BY <1>1, <1>2, <1>5
    <2> QED
      BY <1>6, <2>1, <2>2, <2>3, <2>4, <2>5 DEF Tidy, Fill
  <1> QED
    BY <1>7, <1>8, <1>9, <1>10

\* The end of the file: there is nothing to cut.
LEMMA CuttingNothing ==
  ASSUME IntakeInv, Cut, buf = << >>
  PROVE  IntakeInv'
  <1> USE DEF IntakeInv, IntakeType
  <1>1. Len(buf) = 0
    BY EmptySeq
  <1>2. ChunkSize(buf) = 0
    BY <1>1, ChunkAssumption DEF ChunkSize
  <1>3. SubSeq(buf, 0 + 1, Len(buf)) = << >>
    BY <1>1, WithoutFirst, EmptySeq
  <1>4. buf' = << >> /\ UNCHANGED <<file, rest, eof, chunks>>
    BY <1>2, <1>3 DEF Cut
  <1>5. Offset' = Offset
    BY <1>4 DEF Offset
  <1>6. Follows' /\ ChunksOK'
    BY <1>4, <1>5 DEF Follows, ChunksOK
  <1>7. Tidy'
    <2>1. eof /\ rest = << >>
      BY <1>1, ChunkAssumption DEF Cut, Wanting, Tidy
    <2> QED
      BY <1>1, <1>4, <2>1, ChunkAssumption, IntakeAssumption DEF Tidy
  <1> QED
    BY <1>4, <1>6, <1>7

\* One chunk goes from the front of the buffer to the end of the chunks.
LEMMA Cutting ==
  ASSUME IntakeInv, Cut, buf # << >>
  PROVE  IntakeInv'
  <1> DEFINE size == ChunkSize(buf)
             chunk == [offset |-> Offset, data |-> SubSeq(buf, 1, size)]
             left == SubSeq(buf, size + 1, Len(buf))
             N == Len(chunks)
  <1>0. ReadSize \in Nat \ {0} /\ \A f \in Inputs : f.data \in Seq(Nat)
    BY IntakeAssumption
  <1> USE <1>0, ChunkAssumption
  <1>1. /\ file.data \in Seq(Nat) /\ rest \in Seq(Nat) /\ buf \in Seq(Nat)
        /\ chunks \in Seq(Chunk)
    BY DEF IntakeInv, IntakeType
  <1>2. /\ Len(buf) \in Nat \ {0} /\ Len(rest) \in Nat /\ Len(file.data) \in Nat
        /\ N \in Nat /\ DOMAIN chunks = 1..N /\ Offset \in Nat
        /\ Offset + Len(buf) + Len(rest) = Len(file.data)
    BY <1>1, LenProperties, EmptySeq DEF IntakeInv, Follows
  <1>3. /\ size \in 1..Len(buf) /\ size <= MaxSize
        /\ Len(buf) >= MinSize => size >= MinSize
        /\ Len(buf) < MinSize => size = Len(buf)
    BY <1>1, <1>2, ChunkSizeBounds DEF ChunkSize
  <1> HIDE DEF size
  <1>4. /\ chunk.data \in Seq(Nat) /\ Len(chunk.data) = size
        /\ \A i \in 1..size : chunk.data[i] = buf[i]
    <2> DEFINE part == SubSeq(buf, 0 + 1, 0 + size)
    <2>1. /\ part \in Seq(Nat) /\ Len(part) = size
          /\ \A i \in 1..size : part[i] = buf[0 + i]
      <3>1. size \in Nat /\ 0 + size <= Len(buf)
        BY <1>2, <1>3
      <3> QED
        BY <1>1, <3>1, Segment
    <2>2. chunk.data = part
      BY <1>2, <1>3
    <2> HIDE DEF part, chunk
    <2>3. \A i \in 1..size : 0 + i = i
      BY <1>2, <1>3
    <2> QED
      BY <2>1, <2>2, <2>3
  <1>5. /\ left \in Seq(Nat) /\ Len(left) = Len(buf) - size
        /\ \A i \in 1..Len(buf) - size : left[i] = buf[size + i]
    <2>1. buf \in Seq(Nat) /\ size \in 0..Len(buf)
      BY <1>1, <1>2, <1>3
    <2> QED
      BY <2>1, WithoutFirst, Zenon
  <1>6. chunk.offset = Offset /\ chunk \in Chunk
    BY <1>2, <1>4 DEF Chunk
  <1>7. /\ chunks' = Append(chunks, chunk) /\ buf' = left /\ UNCHANGED <<file, rest, eof>>
        /\ pc' = "done" => left = << >> /\ eof
        /\ ~ Wanting
    BY DEF Cut, size
  <1> HIDE DEF left, chunk
  <1>8. /\ chunks' \in Seq(Chunk) /\ chunks' # << >> /\ Len(chunks') = N + 1
        /\ \A c \in 1..N : chunks'[c] = chunks[c]
        /\ chunks'[N + 1] = chunk
    BY <1>1, <1>6, <1>7, AppendProperties
  <1> HIDE DEF N
  <1>9. Offset' = Offset + size
    BY <1>4, <1>6, <1>8 DEF Offset
  <1>10. Follows'
    <2>1. ASSUME NEW i \in 1..Len(left) PROVE left[i] = file.data[Offset + size + i]
      <3>1. size + i \in 1..Len(buf) /\ Offset + size + i = Offset + (size + i)
        BY <1>2, <1>3, <1>5
      <3>2. buf[size + i] = file.data[Offset + (size + i)]
        BY <3>1 DEF IntakeInv, Follows
      <3> QED
        BY <1>5, <3>1, <3>2
    <2>2. Offset + size + Len(left) = Offset + Len(buf) /\ Offset + size \in Nat
      BY <1>2, <1>3, <1>5
    <2>3. ASSUME NEW i \in 1..Len(rest)
          PROVE  rest[i] = file.data[Offset + size + Len(left) + i]
      BY <2>2 DEF IntakeInv, Follows
    <2> QED
      BY <1>2, <1>7, <1>9, <2>1, <2>2, <2>3 DEF Follows
  <1>11. chunk.data = SubSeq(file.data, Offset + 1, Offset + size)
    <2> DEFINE part == SubSeq(file.data, Offset + 1, Offset + size)
    <2>1. /\ part \in Seq(Nat) /\ Len(part) = size
          /\ \A i \in 1..size : part[i] = file.data[Offset + i]
      <3>1. /\ size \in Nat /\ Offset + size <= Len(file.data)
            /\ file.data \in Seq(Nat) /\ Offset \in Nat
        BY <1>1, <1>2, <1>3
      <3> HIDE <1>0, ChunkAssumption
      <3> QED
        BY <3>1, Segment, Zenon
    <2> HIDE DEF part
    <2>2. ASSUME NEW i \in 1..size PROVE chunk.data[i] = part[i]
      <3>1. i \in 1..Len(buf)
        BY <1>2, <1>3
      <3>2. buf[i] = file.data[Offset + i]
        BY <3>1 DEF IntakeInv, Follows
      <3> QED
        BY <1>4, <2>1, <3>2
    <2>3. chunk.data = part
      <3>1. Len(chunk.data) = Len(part) /\ \A i \in 1..Len(chunk.data) : chunk.data[i] = part[i]
        BY <1>4, <2>1, <2>2
      <3> QED
        BY <1>4, <2>1, <3>1, SeqEqual
    <2> QED
      BY <2>3 DEF part
  <1>12. ChunksOK'
    <2>1. ASSUME NEW c \in 1..N
          PROVE  /\ chunks'[c].data = SubSeq(file.data, chunks'[c].offset + 1,
                                             chunks'[c].offset + Len(chunks'[c].data))
                 /\ Len(chunks'[c].data) >= MinSize
                 /\ chunks'[c + 1].offset = chunks'[c].offset + Len(chunks'[c].data)
                 /\ Len(chunks'[c].data) \in 1..MaxSize
      <3>1. chunks'[c] = chunks[c]
        BY <1>8
      <3>2. CASE c < N
        <4>1. chunks'[c + 1] = chunks[c + 1]
          BY <1>2, <1>8, <3>2
        <4> QED
          BY <1>2, <3>1, <3>2, <4>1 DEF IntakeInv, ChunksOK, N
      <3>3. CASE c = N
        <4>1. chunks # << >>
          BY <1>2, <3>3, EmptySeq DEF N
        <4>2. Offset = chunks[c].offset + Len(chunks[c].data)
          BY <3>3, <4>1 DEF Offset, N
        <4>3. Len(chunks[c].data) \in 1..MaxSize
          BY <1>2 DEF IntakeInv, ChunksOK
        <4>4. Len(chunks[c].data) >= MinSize
          BY <3>3, <4>1, <4>3 DEF IntakeInv, Tidy, N
        <4> QED
          BY <1>2, <1>6, <1>8, <3>1, <3>3, <4>2, <4>3, <4>4 DEF IntakeInv, ChunksOK
      <3> QED
        BY <1>2, <3>2, <3>3
    <2>2. DOMAIN chunks' = 1..N + 1
      BY <1>8, LenProperties
    <2>3. /\ chunk.data = SubSeq(file.data, chunk.offset + 1, chunk.offset + Len(chunk.data))
          /\ Len(chunk.data) \in 1..MaxSize
      BY <1>2, <1>3, <1>4, <1>6, <1>11
    <2>4. ASSUME NEW c \in 1..N + 1
          PROVE  /\ chunks'[c].data = SubSeq(file.data, chunks'[c].offset + 1,
                                             chunks'[c].offset + Len(chunks'[c].data))
                 /\ c < N + 1 => /\ Len(chunks'[c].data) >= MinSize
                                 /\ chunks'[c + 1].offset =
                                      chunks'[c].offset + Len(chunks'[c].data)
                 /\ Len(chunks'[c].data) \in 1..MaxSize
      <3>1. CASE c = N + 1
        BY <1>2, <1>8, <2>3, <3>1
      <3>2. CASE c # N + 1
        <4>1. c \in 1..N
          BY <1>2, <3>2
        <4> QED
          BY <2>1, <4>1
      <3> QED
        BY <3>1, <3>2
    <2>5. file' = file /\ Len(chunks') = N + 1
      BY <1>7, <1>8
    <2> QED
      BY <2>2, <2>4, <2>5 DEF ChunksOK
  <1>13. Tidy'
    <2>1. eof => rest = << >>
      BY DEF IntakeInv, Tidy
    <2>2. size < MinSize => left = << >> /\ rest = << >>
      <3>1. size < MinSize => Len(buf) < MinSize
        BY <1>2, <1>3
      <3>2. Len(buf) < MinSize => eof
        BY <1>7 DEF Wanting
      <3>3. Len(buf) < MinSize => Len(left) = 0
        BY <1>2, <1>3, <1>5
      <3> QED
        BY <1>5, <2>1, <3>1, <3>2, <3>3, EmptySeq
    <2>3. Len(left) < MinSize + ReadSize
      BY <1>2, <1>3, <1>5 DEF IntakeInv, Tidy
    <2>4. Len(chunks'[Len(chunks')].data) = size
      BY <1>4, <1>8
    <2> QED
      BY <1>7, <2>1, <2>2, <2>3, <2>4 DEF Tidy
  <1> QED
    BY <1>1, <1>5, <1>7, <1>8, <1>10, <1>12, <1>13 DEF IntakeInv, IntakeType

\* The invariant is inductive.
LEMMA IntakeStep == IntakeInv /\ [Next]_vars => IntakeInv'
  <1> SUFFICES ASSUME IntakeInv, [Next]_vars PROVE IntakeInv'
    OBVIOUS
  <1>1. CASE Exclude \/ ReadFails \/ UNCHANGED vars
    <2>1. UNCHANGED <<file, rest, buf, eof, chunks>> /\ (pc' = "done" => pc = "done")
      BY <1>1 DEF Exclude, ReadFails, vars
    <2> QED
      BY <2>1 DEF IntakeInv, IntakeType, Follows, ChunksOK, Tidy, Offset
  <1>2. CASE Cut
    BY <1>2, Cutting, CuttingNothing
  <1>3. ASSUME NEW n \in 0..ReadSize, Fill(n) PROVE IntakeInv'
    BY <1>3, Filling
  <1> QED
    BY <1>1, <1>2, <1>3 DEF Next

\* For files of any length and whatever the reads return, no byte is lost, doubled or
\* moved on its way through the buffer, and chunks keep to their sizes.
THEOREM NoByteLost == Spec => []Lossless
  BY InitIntake, IntakeStep, IntakeLossless, PTL DEF Spec

-----------------------------------------------------------------------------
(* Hashes *)

\* The same as far as a hash is concerned.
Cong(a, b) == \E k \in Int : a = b + k * Modulus

\* A remainder is that of its number.
LEMMA Remainder ==
  ASSUME NEW a \in Int
  PROVE  a % Modulus \in 0..Modulus - 1 /\ a % Modulus \in Int /\ Cong(a % Modulus, a)
  BY ChunkAssumption DEF Cong

\* Two remainders are the same when their numbers are.
LEMMA CongEqual ==
  ASSUME NEW a \in 0..Modulus - 1, NEW b \in 0..Modulus - 1, Cong(a, b)
  PROVE  a = b
  BY ChunkAssumption DEF Cong

\* Congruence goes both ways, and on.
LEMMA CongOrder ==
  ASSUME NEW a \in Int, NEW b \in Int, NEW c \in Int, Cong(a, b)
  PROVE  Cong(b, a) /\ (Cong(b, c) => Cong(a, c))
  <1>1. Modulus \in Int
    BY ChunkAssumption
  <1>2. PICK k \in Int : a = b + k * Modulus
    BY DEF Cong
  <1>3. -k \in Int /\ b = a + (-k) * Modulus
    BY <1>1, <1>2
  <1>4. ASSUME NEW m \in Int, b = c + m * Modulus
        PROVE  k + m \in Int /\ a = c + (k + m) * Modulus
    BY <1>1, <1>2, <1>4
  <1> QED
    BY <1>3, <1>4, Zenon DEF Cong

\* Sums and products of congruent numbers.
LEMMA CongStep ==
  ASSUME NEW a \in Int, NEW b \in Int, NEW c \in Int, Cong(a, b)
  PROVE  Cong(a * 31 + c, b * 31 + c) /\ Cong(c + a, c + b) /\ Cong(c * a, c * b)
  <1>1. Modulus \in Int
    BY ChunkAssumption
  <1>2. PICK k \in Int : a = b + k * Modulus
    BY DEF Cong
  <1>3. k * 31 \in Int /\ a * 31 + c = b * 31 + c + (k * 31) * Modulus
    BY <1>1, <1>2
  <1>4. c + a = c + b + k * Modulus
    BY <1>1, <1>2
  <1>5. c * k \in Int /\ c * a = c * b + (c * k) * Modulus
    BY <1>1, <1>2
  <1> QED
    BY <1>2, <1>3, <1>4, <1>5, Zenon DEF Cong

\* What holds at m and at each number after one where it holds, holds up to n.
LEMMA Climb ==
  ASSUME NEW m \in Nat, NEW n \in Nat, NEW T, m <= n => m \in T,
         \A i \in m + 1..n : i - 1 \in T => i \in T
  PROVE  m..n \subseteq T
  <1> DEFINE off == (m..n) \ T
  <1> SUFFICES ASSUME off # {} PROVE FALSE
    OBVIOUS
  <1>1. off \subseteq Nat
    OBVIOUS
  <1> HIDE DEF off
  <1>2. PICK i \in off : \A j \in off : i <= j
    BY <1>1, LeastNumber
  <1>3. i \in m..n /\ i \notin T
    BY DEF off
  <1>4. i \in m + 1..n
    BY <1>3
  <1>5. i - 1 \in m..n /\ i - 1 \notin T /\ ~ (i <= i - 1)
    BY <1>3, <1>4
  <1>6. i - 1 \in off
    BY <1>5 DEF off
  <1> QED
    BY <1>2, <1>5, <1>6

\* f starts with a, and each next element is what step says of its place and the last.
Iterates(f, m, n, a, step) == f = [i \in m..n |-> IF i = m THEN a ELSE step[<<i, f[i - 1]>>]]

\* What a step function makes of a start exists.
LEMMA Iteration ==
  ASSUME NEW m \in Nat, NEW n \in Nat, NEW S, NEW a \in S, NEW step \in [Nat \X S -> S]
  PROVE  \E f \in [m..n -> S] : Iterates(f, m, n, a, step)
  <1> USE DEF Iterates
  <1> DEFINE Does(k, f) == f = [i \in m..k |-> IF i = m THEN a ELSE step[<<i, f[i - 1]>>]]
             Upto(k) == \E f \in [m..k -> S] : Does(k, f)
  <1>1. Upto(m)
    <2> DEFINE f == [i \in m..m |-> a]
    <2>1. f \in [m..m -> S] /\ Does(m, f)
      OBVIOUS
    <2> QED
      BY <2>1
  <1>2. ASSUME NEW k \in Nat, k >= m, Upto(k)
        PROVE  Upto(k + 1)
    <2>1. PICK f \in [m..k -> S] : Does(k, f)
      BY <1>2
    <2> DEFINE g == [i \in m..k + 1 |-> IF i = k + 1 THEN step[<<k + 1, f[k]>>] ELSE f[i]]
    <2>2. f[k] \in S /\ step[<<k + 1, f[k]>>] \in S
      BY <1>2
    <2>3. g \in [m..k + 1 -> S]
      BY <2>2
    <2>4. ASSUME NEW i \in m..k + 1
          PROVE  g[i] = IF i = m THEN a ELSE step[<<i, g[i - 1]>>]
      <3>1. CASE i = k + 1
        <4>1. k + 1 # m /\ k + 1 \in m..k + 1 /\ (k + 1) - 1 = k /\ k \in m..k + 1 /\ k # k + 1
          BY <1>2
        <4>2. g[k + 1] = step[<<k + 1, f[k]>>] /\ g[k] = f[k]
          BY <4>1, Zenon
        <4> HIDE DEF g
        <4> QED
          BY <3>1, <4>1, <4>2
      <3>2. CASE i # k + 1
        <4>1. i \in m..k
          BY <1>2, <3>2
        <4>2. f[i] = IF i = m THEN a ELSE step[<<i, f[i - 1]>>]
          BY <2>1, <4>1
        <4>3. g[i] = f[i]
          BY <1>2, <3>2
        <4>4. CASE i = m
          BY <4>2, <4>3, <4>4
        <4>5. CASE i # m
          <5>1. i - 1 \in m..k + 1 /\ i - 1 # k + 1
            BY <1>2, <4>1, <4>5
          <5>2. g[i - 1] = f[i - 1]
            BY <5>1
          <5> HIDE DEF g
          <5> QED
            BY <4>2, <4>3, <4>5, <5>2
        <4> QED
          BY <4>4, <4>5
      <3> QED
        BY <3>1, <3>2
    <2>5. Does(k + 1, g)
      <3>1. g = [i \in m..k + 1 |-> g[i]]
        BY <2>3, Zenon
      <3> HIDE DEF g
      <3> QED
        BY <2>4, <3>1, Zenon
    <2> QED
      BY <2>3, <2>5
  <1> HIDE DEF Upto
  <1>3. m <= n => Upto(n)
    <2> DEFINE T == {k \in m..n : Upto(k)}
    <2>1. m <= n => m \in T
      BY <1>1
    <2>2. \A k \in m + 1..n : k - 1 \in T => k \in T
      <3> SUFFICES ASSUME NEW k \in m + 1..n, k - 1 \in T PROVE k \in T
        OBVIOUS
      <3>1. k - 1 \in Nat /\ k - 1 >= m /\ (k - 1) + 1 = k /\ k \in m..n
        OBVIOUS
      <3> QED
        BY <1>2, <3>1
    <2> HIDE DEF T
    <2>3. m..n \subseteq T
      BY <2>1, <2>2, Climb
    <2> QED
      BY <2>3 DEF T
  <1>4. CASE m <= n
    BY <1>3, <1>4 DEF Upto
  <1>5. CASE ~ (m <= n)
    <2>1. m..n = {}
      BY <1>5
    <2> DEFINE f == [i \in m..n |-> a]
    <2>2. f \in [m..n -> S] /\ Does(n, f)
      BY <2>1
    <2> QED
      BY <2>2
  <1> QED
    BY <1>4, <1>5

\* The hash of a sequence after each of its bytes.
Hashes(h, bytes) ==
    h = [i \in 0..Len(bytes) |-> IF i = 0 THEN 0 ELSE (h[i - 1] * 31 + bytes[i]) % Modulus]

\* There is such a hash after each byte, and the last of them is the hash of the sequence.
LEMMA HashRuns ==
  ASSUME NEW bytes \in Seq(Nat)
  PROVE  \E h \in [0..Len(bytes) -> 0..Modulus - 1] :
            Hashes(h, bytes) /\ Hash(bytes) = h[Len(bytes)]
  <1> DEFINE n == Len(bytes)
             S == 0..Modulus - 1
             byte(i) == IF i \in 1..n THEN bytes[i] ELSE 0
             step == [p \in Nat \X S |-> (p[2] * 31 + byte(p[1])) % Modulus]
             h == CHOOSE hh : Hashes(hh, bytes)
  <1>1. n \in Nat /\ \A i \in 1..n : bytes[i] \in Nat
    BY LenProperties
  <1>2. step \in [Nat \X S -> S]
    <2>1. ASSUME NEW p \in Nat \X S PROVE (p[2] * 31 + byte(p[1])) % Modulus \in S
      <3>1. p[2] \in Int /\ byte(p[1]) \in Nat
        BY <1>1, ChunkAssumption
      <3> HIDE DEF byte
      <3>2. p[2] * 31 + byte(p[1]) \in Int
        BY <3>1
      <3> QED
        BY <3>2, Remainder
    <2> HIDE DEF S
    <2> QED
      BY <2>1, Zenon
  <1>3. 0 \in S
    BY ChunkAssumption
  <1>4. PICK f \in [0..n -> S] : Iterates(f, 0, n, 0, step)
    <2> HIDE DEF S, step, n
    <2>1. 0 \in Nat
      OBVIOUS
    <2> QED
      BY <1>1, <1>2, <1>3, <2>1, Iteration, Zenon
  <1>5. Hashes(f, bytes)
    <2>1. ASSUME NEW i \in 0..n
          PROVE  f[i] = IF i = 0 THEN 0 ELSE (f[i - 1] * 31 + bytes[i]) % Modulus
      <3>1. f[i] = IF i = 0 THEN 0 ELSE step[<<i, f[i - 1]>>]
        BY <1>4, Zenon DEF Iterates
      <3>2. CASE i = 0
        BY <3>1, <3>2
      <3>3. CASE i # 0
        <4>1. i \in Nat /\ i - 1 \in 0..n /\ i \in 1..n
          BY <1>1, <3>3
        <4>2. f[i - 1] \in S
          BY <4>1
        <4>3. step[<<i, f[i - 1]>>] = (f[i - 1] * 31 + bytes[i]) % Modulus
          <5>1. <<i, f[i - 1]>> \in Nat \X S
            BY <4>1, <4>2
          <5>2. step[<<i, f[i - 1]>>] =
                  (<<i, f[i - 1]>>[2] * 31 + byte(<<i, f[i - 1]>>[1])) % Modulus
            BY <5>1
          <5> HIDE DEF step
          <5> QED
            BY <4>1, <5>2
        <4> HIDE DEF step
        <4> QED
          BY <3>1, <3>3, <4>3
      <3> QED
        BY <3>2, <3>3
    <2>2. f = [i \in 0..n |-> f[i]]
      BY <1>4, Zenon DEF Iterates
    <2> QED
      BY <2>1, <2>2, Zenon DEF Hashes
  <1>6. Hashes(h, bytes)
    BY <1>5, Zenon
  <1>7. Hash(bytes) = h[Len(bytes)]
    BY Zenon DEF Hash, Hashes
  <1>8. h = f
    <2> DEFINE T == {i \in 0..n : h[i] = f[i]}
    <2> HIDE DEF h
    <2>1. \A i \in 0..n : h[i] = IF i = 0 THEN 0 ELSE (h[i - 1] * 31 + bytes[i]) % Modulus
      BY <1>6, Zenon DEF Hashes
    <2>2. \A i \in 0..n : f[i] = IF i = 0 THEN 0 ELSE (f[i - 1] * 31 + bytes[i]) % Modulus
      BY <1>5, Zenon DEF Hashes
    <2> HIDE DEF n
    <2>4. 0 \in T
      BY <1>1, <2>1, <2>2
    <2>5. ASSUME NEW i \in 0 + 1..n, i - 1 \in T PROVE i \in T
      <3>1. i \in 0..n /\ i # 0 /\ h[i - 1] = f[i - 1]
        BY <1>1, <2>5
      <3>2. h[i] = f[i]
        BY <2>1, <2>2, <3>1, Zenon
      <3> QED
        BY <3>1, <3>2
    <2> HIDE DEF T
    <2>6. 0..n \subseteq T
      BY <1>1, <2>4, <2>5, Climb
    <2>7. \A i \in 0..n : h[i] = f[i]
      BY <2>6 DEF T
    <2>3. h = [i \in 0..n |-> h[i]] /\ f = [i \in 0..n |-> f[i]]
      BY <1>5, <1>6, Zenon DEF Hashes, n
    <2> QED
      BY <2>3, <2>7, Zenon
  <1> QED
    BY <1>4, <1>6, <1>7, <1>8

\* The weights of a byte as it moves through a window.
Powers(p, n) == p = [i \in 0..n |-> IF i = 0 THEN 1 ELSE (p[i - 1] * 31) % Modulus]

\* There are such weights, and the last is the power.
LEMMA PowerRuns ==
  ASSUME NEW n \in Nat
  PROVE  \E p \in [0..n -> Nat] : Powers(p, n) /\ Power(n) = p[n]
  <1> DEFINE step == [q \in Nat \X Nat |-> (q[2] * 31) % Modulus]
             h == CHOOSE p : Powers(p, n)
  <1>1. step \in [Nat \X Nat -> Nat]
    <2>1. ASSUME NEW q \in Nat \X Nat PROVE (q[2] * 31) % Modulus \in Nat
      <3>1. q[2] * 31 \in Int
        OBVIOUS
      <3>2. (q[2] * 31) % Modulus \in 0..Modulus - 1
        BY <3>1, Remainder
      <3> QED
        BY <3>2, ChunkAssumption
    <2> QED
      BY <2>1, Zenon
  <1>2. 0 \in Nat /\ 1 \in Nat
    OBVIOUS
  <1>3. PICK f \in [0..n -> Nat] : Iterates(f, 0, n, 1, step)
    <2> HIDE DEF step
    <2> QED
      BY <1>1, <1>2, Iteration, Zenon
  <1>4. Powers(f, n)
    <2>1. ASSUME NEW i \in 0..n
          PROVE  f[i] = IF i = 0 THEN 1 ELSE (f[i - 1] * 31) % Modulus
      <3>1. f[i] = IF i = 0 THEN 1 ELSE step[<<i, f[i - 1]>>]
        BY <1>3, Zenon DEF Iterates
      <3>2. CASE i = 0
        BY <3>1, <3>2
      <3>3. CASE i # 0
        <4>1. i \in Nat /\ i - 1 \in 0..n
          BY <3>3
        <4>2. f[i - 1] \in Nat
          BY <4>1
        <4>3. step[<<i, f[i - 1]>>] = (f[i - 1] * 31) % Modulus
          BY <4>1, <4>2
        <4> HIDE DEF step
        <4> QED
          BY <3>1, <3>3, <4>3
      <3> QED
        BY <3>2, <3>3
    <2>2. f = [i \in 0..n |-> f[i]]
      BY <1>3, Zenon DEF Iterates
    <2> QED
      BY <2>1, <2>2, Zenon DEF Powers
  <1>5. Powers(h, n)
    BY <1>4, Zenon
  <1>6. Power(n) = h[n]
    BY Zenon DEF Power, Powers
  <1>7. h \in [0..n -> Nat]
    <2> HIDE DEF h
    <2>1. \A i \in 0..n : h[i] = IF i = 0 THEN 1 ELSE (h[i - 1] * 31) % Modulus
      BY <1>5, Zenon DEF Powers
    <2>2. h = [i \in 0..n |-> h[i]]
      BY <1>5, Zenon DEF Powers
    <2> DEFINE T == {i \in 0..n : h[i] \in Nat}
    <2>3. 0 \in T
      BY <2>1
    <2>4. ASSUME NEW i \in 0 + 1..n, i - 1 \in T PROVE i \in T
      <3>1. i \in 0..n /\ i # 0 /\ h[i - 1] \in Nat /\ h[i - 1] * 31 \in Int
        BY <2>4
      <3>2. (h[i - 1] * 31) % Modulus \in 0..Modulus - 1
        BY <3>1, Remainder
      <3>3. h[i] = (h[i - 1] * 31) % Modulus
        BY <2>1, <3>1, Zenon
      <3>4. h[i] \in Nat
        BY <3>2, <3>3, ChunkAssumption
      <3> QED
        BY <3>1, <3>4
    <2> HIDE DEF T
    <2>5. 0..n \subseteq T
      BY <2>3, <2>4, Climb
    <2>6. \A i \in 0..n : h[i] \in Nat
      BY <2>5 DEF T
    <2> QED
      BY <2>2, <2>6, Zenon
  <1> QED
    BY <1>5, <1>6, <1>7

\* A window of the first bytes and one of the same size a byte further: the hash of the
\* first is that of the second without its last byte, and the weighted first byte.
LEMMA WindowShift ==
  ASSUME NEW w \in Seq(Nat), NEW v \in Seq(Nat), Len(w) = Window, Len(v) = Window,
         \A i \in 1..Window - 1 : v[i] = w[i + 1],
         NEW hv \in [0..Window -> 0..Modulus - 1], Hashes(hv, v)
  PROVE  Cong(Hash(w), w[1] * Power(Window - 1) + hv[Window - 1])
  <1>1. PICK hw \in [0..Window -> 0..Modulus - 1] : Hashes(hw, w) /\ Hash(w) = hw[Window]
    BY HashRuns
  <1>2. PICK p \in [0..Window - 1 -> Nat] :
           Powers(p, Window - 1) /\ Power(Window - 1) = p[Window - 1]
    <2>1. Window - 1 \in Nat
      BY ChunkAssumption
    <2> QED
      BY <2>1, PowerRuns
  <1> DEFINE N == Window - 1
             T == {j \in 0..N : Cong(hw[j + 1], w[1] * p[j] + hv[j])}
  <1>3. N \in Nat /\ Window = N + 1
    BY ChunkAssumption
  <1>4. \A i \in 1..N + 1 : w[i] \in Nat /\ v[i] \in Nat
    BY <1>3, ElementOfSeq
  <1>5. \A i \in 0..N + 1 : hw[i] \in Int /\ hv[i] \in Int
    BY <1>3, ChunkAssumption
  <1>6. \A i \in 0..N : p[i] \in Nat
    BY <1>3
  <1>7. \A i \in 1..N + 1 : /\ hw[i] = (hw[i - 1] * 31 + w[i]) % Modulus
                            /\ hv[i] = (hv[i - 1] * 31 + v[i]) % Modulus
    <2> SUFFICES ASSUME NEW i \in 1..N + 1
                 PROVE  /\ hw[i] = (hw[i - 1] * 31 + w[i]) % Modulus
                        /\ hv[i] = (hv[i - 1] * 31 + v[i]) % Modulus
      OBVIOUS
    <2>1. i \in 0..Len(w) /\ i \in 0..Len(v) /\ i # 0
      BY <1>3
    <2> QED
      BY <1>1, <2>1, Zenon DEF Hashes
  <1>8. hw[0] = 0 /\ hv[0] = 0
    <2>1. 0 \in 0..Len(w) /\ 0 \in 0..Len(v)
      BY <1>3
    <2> QED
      BY <1>1, <2>1, Zenon DEF Hashes
  <1>9. p[0] = 1 /\ \A i \in 1..N : p[i] = (p[i - 1] * 31) % Modulus
    <2>1. 0 \in 0..N /\ \A i \in 1..N : i \in 0..N /\ i # 0
      BY <1>3
    <2> QED
      BY <1>2, <2>1, Zenon DEF Powers
  <1> HIDE DEF N
  <1>10. 0 \in T
    <2>1. hw[0 + 1] = (0 * 31 + w[1]) % Modulus
      BY <1>3, <1>7, <1>8
    <2>2. w[1] \in Nat /\ 0 * 31 + w[1] = w[1] * p[0] + hv[0]
      BY <1>3, <1>4, <1>8, <1>9
    <2>3. Cong((0 * 31 + w[1]) % Modulus, 0 * 31 + w[1])
      <3>1. 0 * 31 + w[1] \in Int
        BY <2>2
      <3> QED
        BY <3>1, Remainder
    <2>4. Cong(hw[0 + 1], w[1] * p[0] + hv[0])
      BY <2>1, <2>2, <2>3, Zenon
    <2> QED
      BY <1>3, <2>4
  <1>11. ASSUME NEW j \in 0 + 1..N, j - 1 \in T PROVE j \in T
    <2> DEFINE a == hw[j]  b == w[1] * p[j - 1]  c == hv[j - 1]  d == v[j]  e == w[1]
               q == p[j - 1]
    <2>1. Cong(a, b + c)
      BY <1>3, <1>11
    <2>2. /\ a \in Int /\ q \in Int /\ c \in Int /\ d \in Int /\ e \in Int
          /\ b = e * q /\ b \in Int /\ b + c \in Int
      <3>1. /\ j - 1 \in 0..N /\ j \in 0..N + 1 /\ j - 1 \in 0..N + 1
            /\ j \in 1..N + 1 /\ 1 \in 1..N + 1
        BY <1>3
      <3>2. a \in Int /\ q \in Int /\ c \in Int /\ d \in Int /\ e \in Int
        BY <1>4, <1>5, <1>6, <3>1
      <3> HIDE DEF a, c, d, e, q
      <3>3. e * q \in Int
        BY <3>2
      <3>4. e * q + c \in Int
        BY <3>2, <3>3
      <3> QED
        BY <3>2, <3>3, <3>4 DEF a, c, d, e, q
    <2>3. hw[j + 1] = (a * 31 + d) % Modulus
      <3>1. j + 1 \in 1..N + 1 /\ (j + 1) - 1 = j /\ j \in 1..Window - 1
        BY <1>3
      <3>2. w[j + 1] = d
        BY <3>1
      <3> QED
        BY <1>7, <3>1, <3>2
    <2>4. hv[j] = (c * 31 + d) % Modulus
      <3>1. j \in 1..N + 1
        BY <1>3
      <3> QED
        BY <1>7, <3>1
    <2>5. p[j] = (q * 31) % Modulus
      BY <1>9
    <2> HIDE DEF a, b, c, d, e, q
    <2>6. Cong(a * 31 + d, (b + c) * 31 + d)
      BY <2>1, <2>2, CongStep
    <2>7. Cong((a * 31 + d) % Modulus, (b + c) * 31 + d)
      <3>1. a * 31 + d \in Int /\ (b + c) * 31 + d \in Int
        BY <2>2
      <3>2. Cong((a * 31 + d) % Modulus, a * 31 + d) /\ (a * 31 + d) % Modulus \in Int
        BY <3>1, Remainder
      <3> QED
        BY <2>6, <3>1, <3>2, CongOrder
    <2>8. (b + c) * 31 + d = e * (q * 31) + (c * 31 + d)
      BY <2>2
    <2>9. Cong(e * (q * 31) + (c * 31 + d), e * ((q * 31) % Modulus) + ((c * 31 + d) % Modulus))
      <3> DEFINE x == q * 31  y == c * 31 + d  X == x % Modulus  Y == y % Modulus
      <3>1. x \in Int /\ y \in Int
        BY <2>2
      <3> HIDE DEF x, y
      <3>2. X \in Int /\ Y \in Int /\ Cong(X, x) /\ Cong(Y, y)
        BY <3>1, Remainder
      <3> HIDE DEF X, Y
      <3>3. Cong(x, X) /\ Cong(y, Y)
        BY <3>1, <3>2, CongOrder
      <3>4. Cong(e * x, e * X)
        BY <2>2, <3>1, <3>2, <3>3, CongStep
      <3>5. e * x \in Int /\ e * X \in Int
        BY <2>2, <3>1, <3>2
      <3> DEFINE s == e * x  t == e * X
      <3> HIDE DEF s, t
      <3>6. s \in Int /\ t \in Int /\ Cong(s, t)
        BY <3>4, <3>5 DEF s, t
      <3>7. Cong(y + s, y + t) /\ Cong(t + y, t + Y)
        BY <3>1, <3>2, <3>3, <3>6, CongStep
      <3>8. y + s = s + y /\ y + t = t + y /\ s + y \in Int /\ t + y \in Int /\ t + Y \in Int
        BY <3>1, <3>2, <3>6
      <3>9. Cong(s + y, t + Y)
        BY <3>7, <3>8, CongOrder
      <3> QED
        BY <3>9, Zenon DEF s, t, x, y, X, Y
    <2>10. Cong(hw[j + 1], e * p[j] + hv[j])
      <3> DEFINE m == (b + c) * 31 + d  n == e * p[j] + hv[j]
      <3>1. hw[j + 1] \in Int /\ m \in Int /\ n \in Int
        <4>1. j \in 0..N /\ j \in 0..N + 1 /\ j + 1 \in 0..N + 1
          BY <1>3
        <4>2. hw[j + 1] \in Int /\ p[j] \in Int /\ hv[j] \in Int
          BY <1>5, <1>6, <4>1
        <4> QED
          BY <2>2, <4>2
      <3>2. Cong(hw[j + 1], m)
        BY <2>3, <2>7
      <3>3. Cong(m, n)
        BY <2>4, <2>5, <2>8, <2>9
      <3> HIDE DEF m, n
      <3>4. Cong(hw[j + 1], n)
        BY <3>1, <3>2, <3>3, CongOrder
      <3> QED
        BY <3>4 DEF n
    <2> QED
      BY <1>3, <2>10 DEF e
  <1> HIDE DEF T
  <1>12. 0..N \subseteq T
    BY <1>3, <1>10, <1>11, Climb
  <1>13. N \in T
    BY <1>3, <1>12
  <1> QED
    BY <1>1, <1>2, <1>3, <1>13 DEF T, N

-----------------------------------------------------------------------------
(* Chunks end where the content says *)

\* The window of data whose last byte is the i-th.
WindowAt(data, i) == SubSeq(data, i - Window + 1, i)

\* Its bytes.
LEMMA WindowBytes ==
  ASSUME NEW data \in Seq(Nat), NEW i \in Window..Len(data)
  PROVE  /\ WindowAt(data, i) \in Seq(Nat)
         /\ Len(WindowAt(data, i)) = Window
         /\ \A k \in 1..Window : WindowAt(data, i)[k] = data[i - Window + k]
  <1> DEFINE m == i - Window
  <1>1. m \in Nat /\ Window \in Nat /\ i = m + Window /\ m + Window <= Len(data)
    BY ChunkAssumption, LenProperties
  <1> HIDE DEF m
  <1>2. /\ SubSeq(data, m + 1, m + Window) \in Seq(Nat)
        /\ Len(SubSeq(data, m + 1, m + Window)) = Window
        /\ \A k \in 1..Window : SubSeq(data, m + 1, m + Window)[k] = data[m + k]
    BY <1>1, Segment
  <1>3. WindowAt(data, i) = SubSeq(data, m + 1, m + Window)
    BY <1>1 DEF WindowAt, m
  <1>4. \A k \in 1..Window : i - Window + k = m + k
    BY DEF m
  <1> QED
    BY <1>2, <1>3, <1>4

\* The hash rolled on is the hash of the next window.
LEMMA RollsOn ==
  ASSUME NEW data \in Seq(Nat), NEW i \in Window + 1..Len(data)
  PROVE  Roll(Hash(WindowAt(data, i - 1)), data[i - Window], data[i]) = Hash(WindowAt(data, i))
  <1> DEFINE w == WindowAt(data, i - 1)
             v == WindowAt(data, i)
  <1>1. Window \in Nat \ {0} /\ Len(data) \in Nat /\ Modulus \in Nat \ {0}
    BY ChunkAssumption, LenProperties
  <1>2. /\ w \in Seq(Nat) /\ Len(w) = Window
        /\ \A k \in 1..Window : w[k] = data[i - 1 - Window + k]
    <2>1. i - 1 \in Window..Len(data)
      BY <1>1
    <2> QED
      BY <2>1, WindowBytes
  <1>3. /\ v \in Seq(Nat) /\ Len(v) = Window
        /\ \A k \in 1..Window : v[k] = data[i - Window + k]
    <2>1. i \in Window..Len(data)
      BY <1>1
    <2> QED
      BY <2>1, WindowBytes
  <1> HIDE DEF w, v
  <1>4. w[1] = data[i - Window] /\ v[Window] = data[i]
    <2>1. /\ 1 \in 1..Window /\ Window \in 1..Window
          /\ i - 1 - Window + 1 = i - Window /\ i - Window + Window = i
      BY <1>1
    <2>2. w[1] = data[i - 1 - Window + 1] /\ v[Window] = data[i - Window + Window]
      BY <1>2, <1>3, <2>1, Zenon
    <2> QED
      BY <2>1, <2>2
  <1>5. \A k \in 1..Window - 1 : v[k] = w[k + 1]
    <2> SUFFICES ASSUME NEW k \in 1..Window - 1 PROVE v[k] = w[k + 1]
      OBVIOUS
    <2>1. k \in 1..Window /\ k + 1 \in 1..Window /\ i - 1 - Window + (k + 1) = i - Window + k
      BY <1>1
    <2>2. v[k] = data[i - Window + k] /\ w[k + 1] = data[i - 1 - Window + (k + 1)]
      BY <1>2, <1>3, <2>1, Zenon
    <2> QED
      BY <2>1, <2>2
  <1>6. PICK hv \in [0..Window -> 0..Modulus - 1] : Hashes(hv, v) /\ Hash(v) = hv[Window]
    BY <1>3, HashRuns
  <1>7. PICK p \in Nat : p = Power(Window - 1)
    <2>1. Window - 1 \in Nat
      BY <1>1
    <2>2. PICK q \in [0..Window - 1 -> Nat] : Power(Window - 1) = q[Window - 1]
      BY <2>1, PowerRuns
    <2> QED
      BY <2>1, <2>2
  <1> DEFINE a == Hash(w)  b == w[1]  c == hv[Window - 1]  d == v[Window]
  <1>8. Cong(a, b * p + c)
    BY <1>2, <1>3, <1>5, <1>6, <1>7, WindowShift
  <1>9. a \in Int /\ b \in Int /\ c \in Int /\ d \in Int
    <2>1. a \in Int
      <3>1. PICK hw \in [0..Window -> 0..Modulus - 1] : a = hw[Window]
        BY <1>2, HashRuns
      <3> QED
        BY <1>1, <3>1
    <2>2. c \in Int
      BY <1>1
    <2>3. b \in Nat /\ d \in Nat
      <3>1. 1 \in 1..Len(w) /\ Window \in 1..Len(v)
        BY <1>1, <1>2, <1>3
      <3> QED
        BY <1>2, <1>3, <3>1, ElementOfSeq, Zenon
    <2> QED
      BY <2>1, <2>2, <2>3
  <1>10. Hash(v) = (c * 31 + d) % Modulus
    <2>1. Window \in 0..Len(v) /\ Window # 0
      BY <1>1, <1>3
    <2> QED
      BY <1>6, <2>1, Zenon DEF Hashes
  <1>11. Roll(a, b, d) = ((a - b * p) * 31 + d) % Modulus
    BY <1>7, Zenon DEF Roll
  <1> HIDE DEF a, b, c, d
  <1>12. Cong(a - b * p, c)
    <2> DEFINE e == b * p
    <2>1. e \in Int /\ -e \in Int
      BY <1>9
    <2>2. Cong(a, e + c)
      BY <1>8
    <2> HIDE DEF e
    <2>3. e + c \in Int
      BY <1>9, <2>1
    <2>4. Cong(-e + a, -e + (e + c))
      BY <1>9, <2>1, <2>2, <2>3, CongStep
    <2>5. -e + a = a - e /\ -e + (e + c) = c
      BY <1>9, <2>1
    <2>6. Cong(a - e, c)
      BY <2>4, <2>5
    <2> QED
      BY <2>6 DEF e
  <1>13. Cong((a - b * p) * 31 + d, c * 31 + d)
    <2> DEFINE e == a - b * p
    <2>1. e \in Int
      BY <1>9
    <2>2. Cong(e, c)
      BY <1>12
    <2> HIDE DEF e
    <2>3. Cong(e * 31 + d, c * 31 + d)
      BY <1>9, <2>1, <2>2, CongStep
    <2> QED
      BY <2>3 DEF e
  <1>14. Roll(a, b, d) = Hash(v)
    <2> DEFINE x == (a - b * p) * 31 + d  y == c * 31 + d  X == x % Modulus  Y == y % Modulus
    <2>1. x \in Int /\ y \in Int /\ Cong(x, y)
      BY <1>9, <1>13
    <2> HIDE DEF x, y
    <2>2. X \in 0..Modulus - 1 /\ Y \in 0..Modulus - 1 /\ Cong(X, x) /\ Cong(Y, y)
      BY <2>1, Remainder
    <2> HIDE DEF X, Y
    <2>3. X \in Int /\ Y \in Int
      BY <1>1, <2>2
    <2>4. Cong(X, y) /\ Cong(y, Y)
      BY <2>1, <2>2, <2>3, CongOrder
    <2>5. Cong(X, Y)
      BY <2>1, <2>3, <2>4, CongOrder
    <2>6. X = Y
      BY <2>2, <2>5, CongEqual
    <2> QED
      BY <1>10, <1>11, <2>6, Zenon DEF X, Y, x, y
  <1> QED
    BY <1>4, <1>14, Zenon DEF a, b, d, w, v

\* The hashes WindowHashes rolls from window to window.
Rolled(R, data) ==
    R = [i \in MinSize + Window..Least(MaxSize, Len(data)) |->
            IF i = MinSize + Window THEN Hash(SubSeq(data, MinSize + 1, MinSize + Window))
            ELSE Roll(R[i - 1], data[i - Window], data[i])]

\* The rolling hash at each place is the hash of the window that ends there.
LEMMA RollingIsDirect ==
  ASSUME NEW data \in Seq(Nat), NEW i \in MinSize + Window..Least(MaxSize, Len(data))
  PROVE  WindowHashes(data)[i] = Hash(WindowAt(data, i))
  <1> DEFINE first == MinSize + Window
             end == Least(MaxSize, Len(data))
             R == CHOOSE r : Rolled(r, data)
             f == [k \in first..end |-> Hash(WindowAt(data, k))]
  <1>1. /\ Len(data) \in Nat /\ first \in Nat /\ end \in Nat /\ end <= Len(data) /\ first <= end
        /\ first - Window = MinSize /\ first - Window + 1 = MinSize + 1 /\ first > Window
        /\ Window \in Nat
    BY ChunkAssumption, LenProperties DEF Least
  <1>2. WindowHashes(data) = R
    BY Zenon DEF WindowHashes, Rolled
  <1>3. Hash(WindowAt(data, first)) = Hash(SubSeq(data, MinSize + 1, first))
    BY <1>1, Zenon DEF WindowAt
  <1> HIDE DEF first, end
  <1>4. ASSUME NEW k \in first..end, k # first
        PROVE  k - 1 \in first..end /\ Roll(f[k - 1], data[k - Window], data[k]) = f[k]
    <2>1. k - 1 \in first..end /\ k \in Window + 1..Len(data)
      BY <1>1, <1>4
    <2>2. f[k - 1] = Hash(WindowAt(data, k - 1)) /\ f[k] = Hash(WindowAt(data, k))
      BY <2>1
    <2> HIDE DEF f
    <2> QED
      BY <2>1, <2>2, RollsOn
  <1>5. Rolled(f, data)
    <2>1. ASSUME NEW k \in first..end
          PROVE  f[k] = IF k = first THEN Hash(SubSeq(data, MinSize + 1, first))
                        ELSE Roll(f[k - 1], data[k - Window], data[k])
      <3>1. CASE k = first
        <4>1. f[k] = Hash(WindowAt(data, k))
          OBVIOUS
        <4> HIDE DEF f
        <4> QED
          BY <1>3, <3>1, <4>1
      <3>2. CASE k # first
        <4> HIDE DEF f
        <4> QED
          BY <1>4, <3>2
      <3> QED
        BY <3>1, <3>2
    <2>2. f = [k \in first..end |-> f[k]]
      BY Zenon
    <2> HIDE DEF f
    <2> QED
      BY <2>1, <2>2, Zenon DEF Rolled, first, end
  <1> HIDE DEF f
  <1>6. Rolled(R, data)
    BY <1>5, Zenon
  <1> HIDE DEF R
  <1> DEFINE T == {k \in first..end : R[k] = f[k]}
  <1>7. \A k \in first..end : R[k] = IF k = first THEN Hash(SubSeq(data, MinSize + 1, first))
                                     ELSE Roll(R[k - 1], data[k - Window], data[k])
    BY <1>6, Zenon DEF Rolled, first, end
  <1>8. first \in T
    <2>1. f[first] = Hash(WindowAt(data, first)) /\ first \in first..end
      BY <1>1 DEF f
    <2> QED
      BY <1>3, <1>7, <2>1
  <1>9. ASSUME NEW k \in first + 1..end, k - 1 \in T PROVE k \in T
    <2>1. k \in first..end /\ k # first /\ R[k - 1] = f[k - 1]
      BY <1>1, <1>9
    <2>2. R[k] = Roll(R[k - 1], data[k - Window], data[k])
      BY <1>7, <2>1, Zenon
    <2> QED
      BY <1>4, <2>1, <2>2
  <1> HIDE DEF T
  <1>10. first..end \subseteq T
    BY <1>1, <1>8, <1>9, Climb
  <1>11. i \in first..end
    BY DEF first, end
  <1>12. R[i] = f[i]
    BY <1>10, <1>11 DEF T
  <1> QED
    BY <1>2, <1>11, <1>12 DEF f

\* Where a chunk of data that starts after from ends: at the first cut past the minimal
\* size and a window, at the maximal size or with the data.
EndsAt(data, from, size) ==
    LET last == Least(MaxSize, Len(data) - from)
    IN  /\ size \in 1..last
        /\ size < last => size > MinSize + Window /\ IsCut(data, from + size)
        /\ \A i \in MinSize + Window + 1..size - 1 : ~ IsCut(data, from + i)

\* part holds what comes in data after the first from bytes, as far as it goes.
IsPart(part, data, from) ==
    /\ part \in Seq(Nat) /\ data \in Seq(Nat) /\ from \in Nat
    /\ from + Len(part) <= Len(data)
    /\ \A i \in 1..Len(part) : part[i] = data[from + i]

\* A chunk ends in one place.
LEMMA OneEnd ==
  ASSUME NEW data \in Seq(Nat), NEW from \in 0..Len(data), NEW s, NEW t,
         EndsAt(data, from, s), EndsAt(data, from, t)
  PROVE  s = t
  <1> DEFINE last == Least(MaxSize, Len(data) - from)
             first == MinSize + Window
  <1>1. last \in Int /\ first \in Int /\ s \in 1..last /\ t \in 1..last
    BY ChunkAssumption, LenProperties DEF EndsAt, Least
  <1>2. /\ s < last => s > first /\ IsCut(data, from + s)
        /\ t < last => t > first /\ IsCut(data, from + t)
        /\ \A i \in first + 1..s - 1 : ~ IsCut(data, from + i)
        /\ \A i \in first + 1..t - 1 : ~ IsCut(data, from + i)
    BY Zenon DEF EndsAt
  <1> HIDE DEF last, first
  <1>3. ASSUME s < t PROVE FALSE
    <2>1. s < last
      BY <1>1, <1>3
    <2>2. s \in first + 1..t - 1
      BY <1>1, <1>2, <1>3, <2>1
    <2> QED
      BY <1>2, <2>1, <2>2, Zenon
  <1>4. ASSUME t < s PROVE FALSE
    <2>1. t < last
      BY <1>1, <1>4
    <2>2. t \in first + 1..s - 1
      BY <1>1, <1>2, <1>4, <2>1
    <2> QED
      BY <1>2, <2>1, <2>2, Zenon
  <1> QED
    BY <1>1, <1>3, <1>4

\* A window within the buffer is that of the file.
LEMMA SameWindow ==
  ASSUME NEW part, NEW data, NEW from, IsPart(part, data, from), NEW i \in Window..Len(part)
  PROVE  IsCut(part, i) <=> IsCut(data, from + i)
  <1>1. /\ part \in Seq(Nat) /\ data \in Seq(Nat) /\ from \in Nat
        /\ Len(part) \in Nat /\ Len(data) \in Nat /\ Window \in Nat
        /\ i \in Window..Len(part) /\ i <= Len(part) /\ from + Len(part) <= Len(data)
    BY ChunkAssumption, LenProperties DEF IsPart
  <1>2. from + i \in Window..Len(data)
    BY <1>1
  <1> DEFINE u == WindowAt(part, i)
             v == WindowAt(data, from + i)
  <1>3. /\ u \in Seq(Nat) /\ Len(u) = Window
        /\ \A k \in 1..Window : u[k] = part[i - Window + k]
    BY <1>1, WindowBytes
  <1>4. /\ v \in Seq(Nat) /\ Len(v) = Window
        /\ \A k \in 1..Window : v[k] = data[from + i - Window + k]
    BY <1>1, <1>2, WindowBytes
  <1> HIDE DEF u, v
  <1>5. ASSUME NEW k \in 1..Window PROVE u[k] = v[k]
    <2>1. i - Window + k \in 1..Len(part) /\ from + i - Window + k = from + (i - Window + k)
      BY <1>1
    <2>2. part[i - Window + k] = data[from + (i - Window + k)]
      BY <2>1 DEF IsPart
    <2> QED
      BY <1>3, <1>4, <2>1, <2>2
  <1>6. u = v
    BY <1>3, <1>4, <1>5, SeqEqual
  <1> QED
    BY <1>6, Zenon DEF IsCut, u, v, WindowAt

\* A buffer with a maximal chunk or all that is left is cut where its content says.
LEMMA ChunkEnds ==
  ASSUME NEW part, NEW data, NEW from, IsPart(part, data, from), part # << >>,
         Len(part) >= MaxSize \/ from + Len(part) = Len(data)
  PROVE  EndsAt(data, from, ChunkSize(part))
  <1> DEFINE end == Least(MaxSize, Len(part))
             last == Least(MaxSize, Len(data) - from)
             first == MinSize + Window
             size == ChunkSize(part)
  <1>1. /\ part \in Seq(Nat) /\ data \in Seq(Nat) /\ from \in Nat
        /\ Len(part) \in Nat \ {0} /\ Len(data) \in Nat /\ Window \in Nat \ {0}
        /\ MinSize \in Nat \ {0} /\ MaxSize \in Nat /\ MinSize <= MaxSize
        /\ from + Len(part) <= Len(data)
    BY ChunkAssumption, LenProperties, EmptySeq DEF IsPart
  <1>2. end = last /\ end \in Nat /\ end <= Len(part) /\ end <= MaxSize /\ first \in Nat
        /\ first >= Window
    <2> DEFINE l == Len(part)  r == Len(data) - from
    <2>1. l \in Nat /\ r \in Nat /\ l <= r /\ (l >= MaxSize \/ l = r)
      BY <1>1
    <2>2. end = Least(MaxSize, l) /\ last = Least(MaxSize, r) /\ l = Len(part)
      BY Zenon
    <2> HIDE DEF l, r, end, last
    <2>3. end = last /\ end \in Nat /\ end <= l /\ end <= MaxSize
      BY <1>1, <2>1, <2>2 DEF Least
    <2> QED
      BY <1>1, <2>2, <2>3
  <1>3. ASSUME NEW i \in Window..end
        PROVE  IsCut(part, i) <=> IsCut(data, from + i)
    <2>1. i \in Window..Len(part)
      BY <1>1, <1>2
    <2> QED
      BY <2>1, SameWindow
  <1>4. CASE Len(part) <= MinSize
    <2>1. size = Len(part) /\ end = Len(part)
      BY <1>1, <1>4 DEF ChunkSize, Least
    <2> HIDE DEF size, end, last
    <2>2. size \in 1..last /\ ~ (size < last) /\ first + 1..size - 1 = {}
      BY <1>1, <1>2, <1>4, <2>1
    <2>3. EndsAt(data, from, size)
      BY <2>2, Zenon DEF EndsAt, last
    <2> QED
      BY <2>3 DEF size
  <1>5. CASE Len(part) > MinSize
    <2> DEFINE hits == {i \in first + 1..end : Boundary(WindowHashes(part)[i])}
    <2>1. size = IF hits = {} THEN end ELSE CHOOSE i \in hits : \A j \in hits : i <= j
      <3>1. ChunkSize(part) = FindBoundary(part)
        BY <1>1, <1>5 DEF ChunkSize
      <3> QED
        BY <3>1, Zenon DEF FindBoundary
    <2>2. ASSUME NEW i \in first + 1..end
          PROVE  i \in hits <=> IsCut(data, from + i)
      <3>1. i \in first..end /\ i \in Window..end
        BY <1>1, <1>2
      <3>2. WindowHashes(part)[i] = Hash(WindowAt(part, i))
        BY <1>1, <3>1, RollingIsDirect
      <3>3. i \in hits <=> IsCut(part, i)
        BY <3>2, Zenon DEF IsCut, WindowAt
      <3> QED
        BY <1>3, <3>1, <3>3
    <2>3. hits \subseteq Nat /\ hits \subseteq first + 1..end
      BY <1>2
    <2> HIDE DEF hits
    <2>4. hits # {} => size \in hits /\ \A j \in hits : size <= j
      BY <2>1, <2>3, LeastNumber, Zenon
    <2>5. hits = {} => size = end
      BY <2>1, Zenon
    <2>6. end >= 1
      BY <1>1 DEF Least
    <2> HIDE DEF size, end, last
    <2>7. size \in 1..last /\ (size < last => size \in hits)
      <3>1. CASE hits = {}
        BY <1>2, <2>5, <2>6, <3>1
      <3>2. CASE hits # {}
        <4>1. size \in first + 1..end
          BY <2>3, <2>4, <3>2
        <4> QED
          BY <1>2, <2>4, <3>2, <4>1
      <3> QED
        BY <3>1, <3>2
    <2>8. size < last => size > first /\ IsCut(data, from + size)
      <3> SUFFICES ASSUME size < last PROVE size > first /\ IsCut(data, from + size)
        OBVIOUS
      <3>1. size \in hits /\ size \in first + 1..end
        BY <2>3, <2>7
      <3>2. IsCut(data, from + size)
        BY <2>2, <3>1
      <3>3. size > first
        BY <1>2, <3>1
      <3> QED
        BY <3>2, <3>3
    <2>9. ASSUME NEW i \in first + 1..size - 1
          PROVE  ~ IsCut(data, from + i)
      <3>1. i \in first + 1..end /\ ~ (size <= i)
        BY <1>2, <2>7
      <3>2. i \notin hits
        BY <2>4, <3>1
      <3> QED
        BY <2>2, <3>1, <3>2
    <2>10. EndsAt(data, from, size)
      BY <2>7, <2>8, <2>9, Zenon DEF EndsAt, last
    <2> QED
      BY <2>10 DEF size
  <1> QED
    BY <1>1, <1>4, <1>5

-----------------------------------------------------------------------------
(* The whole file in memory *)

\* What comes after the first from bytes, and the first chunk of it.
After(data, from) == SubSeq(data, from + 1, Len(data))
FirstChunk(data, from) ==
    [offset |-> from, data |-> SubSeq(After(data, from), 1, ChunkSize(After(data, from)))]

\* C has the chunks of data after each number of bytes.
CutsAll(C, data) ==
    C = [from \in 0..Len(data) |->
            IF from = Len(data) THEN << >>
            ELSE <<FirstChunk(data, from)>> \o C[from + ChunkSize(After(data, from))]]

\* The chunks of what comes after the first from bytes.
ChunksAfter(data, from) == (CHOOSE C : CutsAll(C, data))[from]

\* The first chunk of what comes after from has this size, and ends where it must.
FirstIs(data, from, size) ==
    /\ size \in Nat \ {0} /\ from + size \in 0..Len(data)
    /\ EndsAt(data, from, size)
    /\ FirstChunk(data, from) = [offset |-> from, data |-> SubSeq(data, from + 1, from + size)]
    /\ SubSeq(data, from + 1, from + size) \in Seq(Nat)
    /\ Len(SubSeq(data, from + 1, from + size)) = size

\* The first chunk of what comes after from.
LEMMA FirstOf ==
  ASSUME NEW data \in Seq(Nat), NEW from \in 0..Len(data), from # Len(data)
  PROVE  FirstIs(data, from, ChunkSize(After(data, from)))
  <1> DEFINE size == ChunkSize(After(data, from))
  <1> SUFFICES FirstIs(data, from, size)
    OBVIOUS
  <1>0. size = ChunkSize(After(data, from))
    OBVIOUS
  <1> HIDE DEF size
  <1> DEFINE r == After(data, from)
             t == SubSeq(data, from + 1, from + size)
             u == SubSeq(r, 0 + 1, 0 + size)
  <1>1. /\ Len(data) \in Nat /\ from \in Nat /\ from \in 0..Len(data) /\ from < Len(data)
    BY LenProperties
  <1>2. /\ r \in Seq(Nat) /\ Len(r) = Len(data) - from
        /\ \A i \in 1..Len(data) - from : r[i] = data[from + i]
    BY <1>1, WithoutFirst DEF After
  <1> HIDE DEF r
  <1>3. r # << >>
    BY <1>1, <1>2, EmptySeq
  <1>4. IsPart(r, data, from) /\ from + Len(r) = Len(data)
    BY <1>1, <1>2 DEF IsPart
  <1>5. size = ChunkSize(r)
    BY <1>0 DEF r
  <1>6. size \in 1..Len(r)
    BY <1>2, <1>3, <1>5, ChunkSizeBounds
  <1>7. EndsAt(data, from, size)
    BY <1>3, <1>4, <1>5, ChunkEnds
  <1>8. size \in Nat /\ from + size <= Len(data) /\ 0 + size <= Len(r) /\ size \in Nat \ {0}
        /\ from + size \in 0..Len(data)
    <2> DEFINE m == Len(data)
               k == Len(r)
    <2>1. m \in Nat /\ from \in Nat /\ from < m /\ k = m - from /\ size \in 1..k
      BY <1>1, <1>2, <1>6
    <2> HIDE DEF m, k
    <2>2. /\ size \in Nat /\ from + size <= m /\ 0 + size <= k /\ size \in Nat \ {0}
          /\ from + size \in 0..m
      BY <2>1
    <2> QED
      BY <2>2 DEF m, k
  <1>9. t \in Seq(Nat) /\ Len(t) = size /\ \A i \in 1..size : t[i] = data[from + i]
    <2>1. from \in Nat /\ size \in Nat /\ from + size <= Len(data)
      BY <1>1, <1>8
    <2> QED
      BY <2>1, Segment, Zenon
  <1>10. u \in Seq(Nat) /\ Len(u) = size /\ \A i \in 1..size : u[i] = r[0 + i]
    <2>1. 0 \in Nat
      OBVIOUS
    <2> QED
      BY <1>2, <1>8, <2>1, Segment
  <1>11. FirstChunk(data, from) = [offset |-> from, data |-> u]
    <2>1. 0 + 1 = 1 /\ 0 + size = size
      BY <1>8
    <2> QED
      BY <1>5, <2>1, Zenon DEF FirstChunk, r
  <1> HIDE DEF t, u
  <1>12. ASSUME NEW i \in 1..size PROVE u[i] = t[i]
    <2>1. i \in 1..Len(data) - from /\ 0 + i = i
      BY <1>1, <1>2, <1>6
    <2> QED
      BY <1>2, <1>9, <1>10, <2>1
  <1>13. u = t
    BY <1>9, <1>10, <1>12, SeqEqual
  <1> QED
    BY <1>7, <1>8, <1>9, <1>11, <1>13, Zenon DEF t, FirstIs

\* chunk_file ends: what comes after from has its chunks.
LEMMA CutsExist ==
  ASSUME NEW data \in Seq(Nat)
  PROVE  \E C \in [0..Len(data) -> Seq(Chunk)] : CutsAll(C, data)
  <1> DEFINE n == Len(data)
             size(from) == ChunkSize(After(data, from))
             Does(C, k) == C = [from \in n - k..n |->
                IF from = n THEN << >> ELSE <<FirstChunk(data, from)>> \o C[from + size(from)]]
             Upto(k) == \E C \in [n - k..n -> Seq(Chunk)] : Does(C, k)
             T == {k \in 0..n : Upto(k)}
  <1>1. n \in Nat /\ 0 \in Nat
    BY LenProperties
  <1>2. ASSUME NEW from \in 0..n, from # n
        PROVE  /\ FirstChunk(data, from) \in Chunk
               /\ size(from) \in Nat \ {0} /\ from + size(from) \in 0..n
    <2>1. from \in 0..Len(data) /\ from # Len(data)
      BY <1>2
    <2> DEFINE s == size(from)
    <2>2. /\ s \in Nat \ {0} /\ from + s \in 0..n
          /\ FirstChunk(data, from) = [offset |-> from, data |-> SubSeq(data, from + 1, from + s)]
          /\ SubSeq(data, from + 1, from + s) \in Seq(Nat)
      BY <2>1, FirstOf, Zenon DEF FirstIs
    <2> HIDE DEF s
    <2>3. FirstChunk(data, from) \in Chunk
      BY <1>1, <2>1, <2>2 DEF Chunk
    <2> QED
      BY <2>2, <2>3 DEF s
  <1>3. Upto(0)
    <2> DEFINE C == [from \in n - 0..n |-> << >>]
    <2>1. << >> \in Seq(Chunk)
      BY EmptySeq
    <2>2. C \in [n - 0..n -> Seq(Chunk)]
      BY <2>1, Zenon
    <2>3. \A from \in n - 0..n : from = n
      BY <1>1
    <2>4. Does(C, 0)
      BY <2>3, Zenon
    <2> QED
      BY <2>2, <2>4
  <1> HIDE DEF n, size
  <1>4. ASSUME NEW k \in 0 + 1..n, Upto(k - 1)
        PROVE  Upto(k)
    <2> DEFINE m == n - k
    <2>1. /\ m \in 0..n /\ m # n /\ n - (k - 1) = m + 1 /\ n - k = m /\ n \in m + 1..n /\ m \in Nat
      BY <1>1
    <2> HIDE DEF m
    <2>2. PICK C \in [m + 1..n -> Seq(Chunk)] :
             C = [from \in m + 1..n |->
                IF from = n THEN << >> ELSE <<FirstChunk(data, from)>> \o C[from + size(from)]]
      BY <1>4, <2>1, Zenon
    <2> DEFINE new == <<FirstChunk(data, m)>> \o C[m + size(m)]
               D == [from \in m..n |-> IF from = m THEN new ELSE C[from]]
    <2>3. new \in Seq(Chunk)
      <3>1. FirstChunk(data, m) \in Chunk /\ size(m) \in Nat \ {0} /\ m + size(m) \in 0..n
        BY <1>2, <2>1
      <3>2. m + size(m) \in m + 1..n
        BY <1>1, <2>1, <3>1
      <3>3. C[m + size(m)] \in Seq(Chunk)
        BY <3>2
      <3>4. <<FirstChunk(data, m)>> \in Seq(Chunk)
        BY <3>1
      <3> QED
        BY <3>3, <3>4, ConcatProperties
    <2> HIDE DEF new
    <2>4. D \in [m..n -> Seq(Chunk)]
      <3>1. \A from \in m..n : from # m => from \in m + 1..n
        BY <1>1, <2>1
      <3>2. \A from \in m..n : from # m => C[from] \in Seq(Chunk)
        BY <3>1, Zenon
      <3> QED
        BY <2>3, <3>2, Zenon
    <2>5. ASSUME NEW from \in m..n
          PROVE  D[from] = IF from = n THEN << >>
                           ELSE <<FirstChunk(data, from)>> \o D[from + size(from)]
      <3>1. from # n => /\ size(from) \in Nat \ {0} /\ from + size(from) \in 0..n
                        /\ from + size(from) \in m..n /\ from + size(from) # m
        <4>1. from \in 0..n
          BY <1>1, <2>1
        <4>2. from # n => size(from) \in Nat \ {0} /\ from + size(from) \in 0..n
          BY <1>2, <4>1
        <4> QED
          BY <1>1, <2>1, <4>2
      <3>2. from # n => D[from + size(from)] = C[from + size(from)]
        BY <3>1
      <3>3. CASE from = m
        <4>1. D[from] = new
          BY <2>1, <3>3
        <4> HIDE DEF D
        <4> QED
          BY <2>1, <3>2, <3>3, <4>1, Zenon DEF new
      <3>4. CASE from # m
        <4>1. from \in m + 1..n
          BY <1>1, <2>1, <3>4
        <4>2. C[from] = IF from = n THEN << >>
                        ELSE <<FirstChunk(data, from)>> \o C[from + size(from)]
          BY <2>2, <4>1, Zenon
        <4>3. D[from] = C[from]
          BY <3>4
        <4> HIDE DEF D
        <4> QED
          BY <3>2, <4>2, <4>3, Zenon
      <3> QED
        BY <3>3, <3>4
    <2>6. D = [from \in m..n |-> D[from]]
      BY Zenon
    <2> HIDE DEF D
    <2>7. Does(D, k)
      BY <2>1, <2>5, <2>6, Zenon
    <2> QED
      BY <2>1, <2>4, <2>7, Zenon
  <1> HIDE DEF Upto
  <1>5. n \in T
    <2>1. 0 \in T
      BY <1>1, <1>3
    <2>2. ASSUME NEW k \in 0 + 1..n, k - 1 \in T PROVE k \in T
      <3>1. k \in 0..n /\ Upto(k - 1)
        BY <1>1, <2>2
      <3> QED
        BY <1>4, <3>1
    <2> HIDE DEF T
    <2>3. 0..n \subseteq T
      BY <1>1, <2>1, <2>2, Climb
    <2> QED
      BY <1>1, <2>3
  <1>6. n - n = 0
    BY <1>1
  <1>7. Upto(n)
    BY <1>5
  <1> QED
    BY <1>6, <1>7, Zenon DEF Upto, CutsAll, n, size

\* What holds at n and at each number before one where it holds, holds down to 0.
LEMMA Descend ==
  ASSUME NEW n \in Nat, NEW T, n \in T,
         \A i \in 0..n : i # n /\ (\A j \in 0..n : i < j => j \in T) => i \in T
  PROVE  0..n \subseteq T
  <1> DEFINE off == {k \in 0..n : n - k \notin T}
  <1> SUFFICES ASSUME off # {} PROVE FALSE
    <2>1. ASSUME off = {}, NEW i \in 0..n PROVE i \in T
      <3>1. n - i \in 0..n /\ n - (n - i) = i
        OBVIOUS
      <3> QED
        BY <2>1, <3>1
    <2> QED
      BY <2>1
  <1>1. off \subseteq Nat
    OBVIOUS
  <1> HIDE DEF off
  <1>2. PICK k \in off : \A j \in off : k <= j
    BY <1>1, LeastNumber
  <1>3. k \in 0..n /\ n - k \notin T
    BY DEF off
  <1>4. n - k \in 0..n /\ n - k # n
    <2>1. k # 0
      BY <1>3
    <2> QED
      BY <1>3, <2>1
  <1>5. ASSUME NEW j \in 0..n, n - k < j PROVE j \in T
    <2>1. n - j \in 0..n /\ n - (n - j) = j /\ ~ (k <= n - j)
      BY <1>3, <1>5
    <2>2. n - j \notin off
      BY <1>2, <2>1
    <2> QED
      BY <2>1, <2>2 DEF off
  <1> QED
    BY <1>3, <1>4, <1>5

\* chunk_file cuts the first chunk off what is left, until nothing is.
LEMMA ChunksRun ==
  ASSUME NEW data \in Seq(Nat)
  PROVE  /\ ChunkFile(data) = ChunksAfter(data, 0)
         /\ ChunksAfter(data, Len(data)) = << >>
         /\ \A from \in 0..Len(data) :
              from # Len(data) =>
                 ChunksAfter(data, from) =
                   <<FirstChunk(data, from)>>
                   \o ChunksAfter(data, from + ChunkSize(After(data, from)))
  <1> DEFINE C == CHOOSE f : CutsAll(f, data)
  <1>1. CutsAll(C, data)
    BY CutsExist, Zenon
  <1>2. \A from : ChunksAfter(data, from) = C[from]
    BY Zenon DEF ChunksAfter
  <1>3. ChunkFile(data) = C[0]
    BY Zenon DEF ChunkFile, CutsAll, FirstChunk, After
  <1> HIDE DEF C
  <1>4. Len(data) \in 0..Len(data)
    BY LenProperties
  <1>5. \A from \in 0..Len(data) :
           C[from] = IF from = Len(data) THEN << >>
                     ELSE <<FirstChunk(data, from)>> \o C[from + ChunkSize(After(data, from))]
    BY <1>1, Zenon DEF CutsAll
  <1> QED
    BY <1>2, <1>3, <1>4, <1>5, Zenon

\* Chunks that cover what comes in data after from, each as long as it must be.
Cover(s, data, from) ==
    \A c \in DOMAIN s :
        /\ s[c].offset = IF c = 1 THEN from ELSE s[c - 1].offset + Len(s[c - 1].data)
        /\ EndsAt(data, s[c].offset, Len(s[c].data))
        /\ s[c].data = SubSeq(data, s[c].offset + 1, s[c].offset + Len(s[c].data))

\* One more chunk in front.
LEMMA CoverMore ==
  ASSUME NEW data \in Seq(Nat), NEW from \in 0..Len(data), from # Len(data),
         NEW size, size = ChunkSize(After(data, from)),
         NEW s \in Seq(Chunk), Cover(s, data, from + size)
  PROVE  /\ <<FirstChunk(data, from)>> \o s \in Seq(Chunk)
         /\ Cover(<<FirstChunk(data, from)>> \o s, data, from)
  <1> DEFINE f == FirstChunk(data, from)
             all == <<f>> \o s
             N == Len(s)
  <1>1. /\ size \in Nat \ {0} /\ EndsAt(data, from, size)
        /\ f = [offset |-> from, data |-> SubSeq(data, from + 1, from + size)]
        /\ SubSeq(data, from + 1, from + size) \in Seq(Nat)
        /\ Len(SubSeq(data, from + 1, from + size)) = size
    BY FirstOf, Zenon DEF FirstIs
  <1>2. from \in Nat /\ N \in Nat /\ DOMAIN s = 1..N
    BY LenProperties
  <1> HIDE DEF f
  <1>3. f.offset = from /\ Len(f.data) = size /\ f.data = SubSeq(data, from + 1, from + size)
    BY <1>1
  <1>4. f \in Chunk
    BY <1>1, <1>2 DEF Chunk
  <1>5. <<f>> \in Seq(Chunk) /\ Len(<<f>>) = 1 /\ <<f>>[1] = f
    BY <1>4
  <1>6. /\ all \in Seq(Chunk) /\ Len(all) = 1 + N
        /\ \A c \in 1..1 + N : all[c] = IF c <= 1 THEN <<f>>[c] ELSE s[c - 1]
    BY <1>5, ConcatProperties
  <1> HIDE DEF all
  <1>7. DOMAIN all = 1..1 + N
    BY <1>6, LenProperties
  <1> HIDE DEF N
  <1>8. all[1] = f /\ \A c \in 1..N : all[c + 1] = s[c]
    <2>1. all[1] = f
      BY <1>2, <1>5, <1>6
    <2>2. ASSUME NEW c \in 1..N PROVE all[c + 1] = s[c]
      <3>1. c + 1 \in 1..1 + N /\ ~ (c + 1 <= 1) /\ (c + 1) - 1 = c
        BY <1>2
      <3> QED
        BY <1>6, <3>1
    <2> QED
      BY <2>1, <2>2
  <1> DEFINE Ok(c) ==
        /\ all[c].offset = IF c = 1 THEN from ELSE all[c - 1].offset + Len(all[c - 1].data)
        /\ EndsAt(data, all[c].offset, Len(all[c].data))
        /\ all[c].data = SubSeq(data, all[c].offset + 1, all[c].offset + Len(all[c].data))
  <1>9. Ok(1)
    BY <1>1, <1>3, <1>8, Zenon
  <1>10. ASSUME NEW c \in 1..N PROVE Ok(c + 1)
    <2>1. /\ s[c].offset = IF c = 1 THEN from + size ELSE s[c - 1].offset + Len(s[c - 1].data)
          /\ EndsAt(data, s[c].offset, Len(s[c].data))
          /\ s[c].data = SubSeq(data, s[c].offset + 1, s[c].offset + Len(s[c].data))
      BY <1>2, Zenon DEF Cover
    <2>2. all[c + 1] = s[c] /\ (c + 1) - 1 = c /\ c + 1 # 1
      BY <1>2, <1>8
    <2>3. all[c + 1].offset = all[c].offset + Len(all[c].data)
      <3>1. CASE c = 1
        <4>1. all[c] = f /\ all[c + 1].offset = from + size
          BY <1>8, <2>1, <2>2, <3>1, Zenon
        <4> QED
          BY <1>3, <4>1, Zenon
      <3>2. CASE c # 1
        <4>1. c - 1 \in 1..N /\ (c - 1) + 1 = c
          BY <1>2, <3>2
        <4>2. all[(c - 1) + 1] = s[c - 1]
          BY <1>8, <4>1, Zenon
        <4>3. all[c] = s[c - 1]
          BY <4>1, <4>2, Zenon
        <4> QED
          BY <2>1, <2>2, <3>2, <4>3, Zenon
      <3> QED
        BY <3>1, <3>2, Zenon
    <2> QED
      BY <2>1, <2>2, <2>3, Zenon
  <1>11. ASSUME NEW c \in 1..1 + N PROVE Ok(c)
    <2>1. CASE c = 1
      BY <1>9, <2>1, Zenon
    <2>2. CASE c # 1
      <3>1. c - 1 \in 1..N /\ (c - 1) + 1 = c
        BY <1>2, <2>2
      <3>2. Ok((c - 1) + 1)
        <4> HIDE DEF Ok
        <4> QED
          BY <1>10, <3>1, Zenon
      <3> HIDE DEF Ok
      <3> QED
        BY <3>1, <3>2, Zenon
    <2> QED
      BY <2>1, <2>2, Zenon
  <1>12. Cover(all, data, from)
    BY <1>7, <1>11, Zenon DEF Cover
  <1> QED
    BY <1>6, <1>12, Zenon DEF all, f

\* All of them, from wherever one starts.
LEMMA AllCover ==
  ASSUME NEW data \in Seq(Nat), NEW from \in 0..Len(data)
  PROVE  ChunksAfter(data, from) \in Seq(Chunk) /\ Cover(ChunksAfter(data, from), data, from)
  <1> DEFINE n == Len(data)
             Good(k) == ChunksAfter(data, k) \in Seq(Chunk) /\ Cover(ChunksAfter(data, k), data, k)
             T == {k \in 0..n : Good(k)}
  <1>1. n \in Nat
    BY LenProperties
  <1>2. Good(n)
    <2>1. << >> \in Seq(Chunk) /\ DOMAIN << >> = {}
      BY EmptySeq
    <2>2. ChunksAfter(data, n) = << >>
      BY ChunksRun
    <2>3. Cover(<< >>, data, n)
      BY <2>1, Zenon DEF Cover
    <2> QED
      BY <2>1, <2>2, <2>3, Zenon
  <1>3. ASSUME NEW i \in 0..n, i # n, \A j \in 0..n : i < j => Good(j)
        PROVE  Good(i)
    <2> DEFINE size == ChunkSize(After(data, i))
    <2>1. size \in Nat \ {0} /\ i + size \in 0..n
      BY <1>3, FirstOf, Zenon DEF FirstIs
    <2>2. ChunksAfter(data, i) = <<FirstChunk(data, i)>> \o ChunksAfter(data, i + size)
      BY <1>3, ChunksRun, Zenon
    <2> HIDE DEF size
    <2>3. i < i + size
      BY <1>1, <2>1
    <2> HIDE DEF Good
    <2>4. Good(i + size)
      BY <1>3, <2>1, <2>3, Zenon
    <2> DEFINE s == ChunksAfter(data, i + size)
    <2>5. s \in Seq(Chunk) /\ Cover(s, data, i + size)
      BY <2>4, Zenon DEF Good
    <2> HIDE DEF s
    <2>6. /\ <<FirstChunk(data, i)>> \o s \in Seq(Chunk)
          /\ Cover(<<FirstChunk(data, i)>> \o s, data, i)
      BY <1>3, <2>5, CoverMore, Zenon DEF size, n
    <2> QED
      BY <2>2, <2>6, Zenon DEF Good, s
  <1> HIDE DEF Good
  <1>4. n \in T
    BY <1>1, <1>2
  <1>5. ASSUME NEW i \in 0..n, i # n, \A j \in 0..n : i < j => j \in T
        PROVE  i \in T
    BY <1>3, <1>5
  <1> HIDE DEF T
  <1>6. 0..n \subseteq T
    BY <1>1, <1>4, <1>5, Descend
  <1>7. from \in T
    BY <1>6
  <1>8. Good(from)
    BY <1>7 DEF T
  <1> QED
    BY <1>8, Zenon DEF Good

\* chunk_file cuts at the first place it may.
LEMMA ChunkFileOk ==
  ASSUME NEW data \in Seq(Nat)
  PROVE  AreChunksOf(ChunkFile(data), data) /\ ChunkFile(data) = ChunksAfter(data, 0)
  <1> DEFINE s == ChunksAfter(data, 0)
  <1>1. s = ChunkFile(data)
    BY ChunksRun
  <1>2. Cover(s, data, 0)
    <2>1. 0 \in 0..Len(data)
      BY LenProperties
    <2> QED
      BY <2>1, AllCover, Zenon
  <1> HIDE DEF s
  <1>3. AreChunksOf(s, data)
    BY <1>2, Zenon DEF AreChunksOf, Cover, EndsAt
  <1> QED
    BY <1>1, <1>3, Zenon DEF s

-----------------------------------------------------------------------------
(* The two ways agree *)

\* What was cut and what chunk_file makes of the rest of the file is what it makes of the
\* file: true as long as no chunk was cut from too little.
OnCourse ==
    ~ short => chunks \o ChunksAfter(file.data, Offset) = ChunksAfter(file.data, 0)

\* No chunk yet.
LEMMA InitOnCourse == Init => OnCourse
  <1> SUFFICES ASSUME Init PROVE OnCourse
    OBVIOUS
  <1>1. file.data \in Seq(Nat) /\ chunks = << >>
    BY IntakeAssumption DEF Init
  <1>2. Offset = 0
    BY <1>1 DEF Offset
  <1>3. ChunksAfter(file.data, 0) \in Seq(Chunk)
    <2>1. 0 \in 0..Len(file.data)
      BY <1>1, LenProperties
    <2> QED
      BY <1>1, <2>1, AllCover, Zenon
  <1> DEFINE s == ChunksAfter(file.data, 0)
  <1> HIDE DEF s
  <1>4. << >> \o s = s
    BY <1>3, ConcatEmptySeq DEF s
  <1> QED
    BY <1>1, <1>2, <1>4, Zenon DEF OnCourse, s

\* As an operator, so that a proof can take the lemma as it is.
Moves(s, c, t) == Append(s, c) \o t = s \o (<<c>> \o t)

\* An element may go to the end of one list or to the front of the next.
LEMMA AppendMoves ==
  ASSUME NEW S, NEW s \in Seq(S), NEW c \in S, NEW t \in Seq(S)
  PROVE  Moves(s, c, t)
  <1> DEFINE u == <<c>>
  <1>1. u \in Seq(S)
    OBVIOUS
  <1>2. Append(s, c) = s \o u
    BY AppendIsConcat
  <1> HIDE DEF u
  <1>3. (s \o u) \o t = s \o (u \o t)
    BY <1>1, ConcatAssociative
  <1> QED
    BY <1>2, <1>3, Zenon DEF u, Moves

\* A chunk cut from enough is the one that chunk_file cuts there.
LEMMA CutOnCourse ==
  ASSUME IntakeInv, IntakeInv', OnCourse, Cut, buf # << >>
  PROVE  OnCourse'
  <1> SUFFICES ASSUME ~ short'
               PROVE  chunks' \o ChunksAfter(file.data', Offset') = ChunksAfter(file.data', 0)
    BY Zenon DEF OnCourse
  <1> DEFINE size == ChunkSize(buf)
             chunk == [offset |-> Offset, data |-> SubSeq(buf, 1, size)]
             N == Len(chunks)
             data == file.data
             from == Offset
  <1>1. /\ chunks' = Append(chunks, chunk) /\ file' = file
        /\ ~ short /\ (Len(buf) >= MaxSize \/ rest = << >>)
    <2>1. /\ chunks' = Append(chunks, chunk) /\ file' = file
          /\ ~ short /\ ~ (Len(buf) < MaxSize /\ rest # << >>)
      BY DEF Cut
    <2>2. Len(buf) \in Nat /\ MaxSize \in Nat
      BY LenProperties, ChunkAssumption DEF IntakeInv, IntakeType
    <2> QED
      BY <2>1, <2>2
  <1>2. /\ data \in Seq(Nat) /\ rest \in Seq(Nat) /\ buf \in Seq(Nat)
        /\ chunks \in Seq(Chunk) /\ chunks' \in Seq(Chunk)
        /\ from \in Nat /\ from + Len(buf) + Len(rest) = Len(data)
        /\ \A i \in 1..Len(buf) : buf[i] = data[from + i]
    BY <1>1 DEF IntakeInv, IntakeType, Follows
  <1>3. Len(buf) \in Nat \ {0} /\ Len(rest) \in Nat /\ Len(data) \in Nat /\ N \in Nat
    BY <1>2, LenProperties, EmptySeq
  <1>4. rest = << >> => from + Len(buf) = Len(data)
    <2>1. rest = << >> => Len(rest) = 0
      BY EmptySeq
    <2> QED
      BY <1>2, <1>3, <2>1
  <1>5. size \in 1..Len(buf)
    BY <1>2, ChunkSizeBounds
  <1>6. IsPart(buf, data, from) /\ from \in 0..Len(data) /\ from # Len(data)
    BY <1>2, <1>3 DEF IsPart
  <1>7. EndsAt(data, from, size)
    BY <1>1, <1>4, <1>6, ChunkEnds
  <1> DEFINE t == ChunkSize(After(data, from))
             first == [offset |-> from, data |-> SubSeq(data, from + 1, from + size)]
  <1>8. t = size /\ FirstChunk(data, from) = first /\ from + size \in 0..Len(data)
        /\ SubSeq(data, from + 1, from + size) \in Seq(Nat)
    <2>1. /\ from + t \in 0..Len(data) /\ EndsAt(data, from, t)
          /\ FirstChunk(data, from) = [offset |-> from, data |-> SubSeq(data, from + 1, from + t)]
          /\ SubSeq(data, from + 1, from + t) \in Seq(Nat)
      <3>1. t = ChunkSize(After(data, from))
        BY Zenon
      <3> HIDE DEF t, data
      <3>2. FirstIs(data, from, t)
        BY <1>2, <1>6, <3>1, FirstOf, Zenon
      <3> QED
        BY <3>2, Zenon DEF FirstIs
    <2> HIDE DEF t, size
    <2>2. t = size
      BY <1>2, <1>6, <1>7, <2>1, OneEnd, Zenon
    <2> QED
      BY <2>1, <2>2, Zenon
  <1>9. SubSeq(buf, 1, size) \in Seq(Nat) /\ Len(SubSeq(buf, 1, size)) = size
    <2> HIDE DEF size
    <2>1. 0 \in Nat /\ size \in Nat /\ 0 + size <= Len(buf) /\ 0 + 1 = 1 /\ 0 + size = size
      BY <1>3, <1>5
    <2>2. /\ SubSeq(buf, 0 + 1, 0 + size) \in Seq(Nat)
          /\ Len(SubSeq(buf, 0 + 1, 0 + size)) = size
      BY <1>2, <2>1, Segment, Zenon
    <2> QED
      BY <2>1, <2>2, Zenon
  <1> HIDE DEF size, data
  <1>10. chunk \in Chunk /\ chunk.offset = from /\ Len(chunk.data) = size
    BY <1>2, <1>9 DEF Chunk
  <1> HIDE DEF chunk
  <1>11. /\ chunks' # << >> /\ Len(chunks') = N + 1 /\ chunks'[N + 1] = chunk
    <2>1. chunks \in Seq(Chunk) /\ chunk \in Chunk /\ chunks' = Append(chunks, chunk)
      BY <1>1, <1>2, <1>10
    <2> QED
      BY <2>1, AppendProperties
  <1>12. Offset' = from + size
    BY <1>10, <1>11 DEF Offset
  <1>13. chunk = first
    <2>1. N + 1 \in DOMAIN chunks'
      BY <1>2, <1>3, <1>11, LenProperties
    <2>2. chunks'[N + 1].data = SubSeq(file'.data, chunks'[N + 1].offset + 1,
                                       chunks'[N + 1].offset + Len(chunks'[N + 1].data))
      BY <2>1, Zenon DEF IntakeInv, ChunksOK
    <2>3. chunk.data = SubSeq(data, from + 1, from + size)
      BY <1>1, <1>10, <1>11, <2>2, Zenon DEF data
    <2>4. chunk = [offset |-> chunk.offset, data |-> chunk.data]
      BY DEF chunk
    <2> QED
      BY <1>10, <2>3, <2>4, Zenon
  <1> DEFINE X == ChunksAfter(data, from + size)
  <1>14. ChunksAfter(data, from) = <<chunk>> \o X /\ X \in Seq(Chunk)
    <2>1. ChunksAfter(data, from) = <<FirstChunk(data, from)>> \o ChunksAfter(data, from + t)
      BY <1>2, <1>6, ChunksRun, Zenon
    <2>2. X \in Seq(Chunk)
      BY <1>2, <1>8, AllCover, Zenon
    <2> HIDE DEF t, first
    <2> QED
      BY <1>8, <1>13, <2>1, <2>2, Zenon
  <1> HIDE DEF X
  <1>15. chunks' \o X = chunks \o (<<chunk>> \o X)
    <2>1. Append(chunks, chunk) \o X = chunks \o (<<chunk>> \o X)
      <3>1. chunks \in Seq(Chunk) /\ chunk \in Chunk /\ X \in Seq(Chunk)
        BY <1>2, <1>10, <1>14
      <3>2. Moves(chunks, chunk, X)
        BY <3>1, AppendMoves, Zenon
      <3> QED
        BY <3>2, Zenon DEF Moves
    <2> QED
      BY <1>1, <2>1, Zenon
  <1>16. chunks \o ChunksAfter(data, from) = ChunksAfter(data, 0)
    BY <1>1, Zenon DEF OnCourse, data
  <1> QED
    BY <1>1, <1>12, <1>14, <1>15, <1>16, Zenon DEF data, X

\* The invariant of both.
LEMMA CourseStep ==
  IntakeInv /\ IntakeInv' /\ OnCourse /\ [Next]_vars => OnCourse'
  <1> SUFFICES ASSUME IntakeInv, IntakeInv', OnCourse, [Next]_vars PROVE OnCourse'
    OBVIOUS
  <1>1. ASSUME UNCHANGED <<file, chunks>>, short => short' PROVE OnCourse'
    <2>1. Offset' = Offset /\ file.data' = file.data
      BY <1>1, Zenon DEF Offset
    <2> QED
      BY <1>1, <2>1, Zenon DEF OnCourse
  <1>2. CASE Exclude \/ ReadFails \/ UNCHANGED vars
    BY <1>1, <1>2 DEF Exclude, ReadFails, vars
  <1>3. ASSUME NEW n \in 0..ReadSize, Fill(n) PROVE OnCourse'
    BY <1>1, <1>3 DEF Fill
  <1>4. CASE Cut
    <2>1. CASE buf = << >>
      BY <1>1, <1>4, <2>1 DEF Cut
    <2>2. CASE buf # << >>
      BY <1>4, <2>2, CutOnCourse
    <2> QED
      BY <2>1, <2>2
  <1> QED
    BY <1>2, <1>3, <1>4 DEF Next

\* At the end there is nothing left for chunk_file to cut.
LEMMA CourseAgrees == IntakeInv /\ OnCourse => StreamAgrees
  <1> SUFFICES ASSUME IntakeInv, OnCourse PROVE StreamAgrees
    OBVIOUS
  <1> DEFINE data == file.data
             whole == ChunkFile(data)
             X == ChunksAfter(data, Offset)
             N == Len(chunks)
  <1>1. /\ data \in Seq(Nat) /\ chunks \in Seq(Chunk) /\ rest \in Seq(Nat) /\ buf \in Seq(Nat)
        /\ Offset \in Nat /\ Offset + Len(buf) + Len(rest) = Len(data)
    BY DEF IntakeInv, IntakeType, Follows
  <1>2. /\ Len(buf) \in Nat /\ Len(rest) \in Nat /\ Len(data) \in Nat /\ N \in Nat
        /\ DOMAIN chunks = 1..N
    BY <1>1, LenProperties
  <1>3. AreChunksOf(whole, data) /\ whole = ChunksAfter(data, 0)
    BY <1>1, ChunkFileOk, Zenon
  <1>4. Offset \in 0..Len(data)
    BY <1>1, <1>2
  <1>5. X \in Seq(Chunk)
    BY <1>1, <1>4, AllCover, Zenon
  <1>6. ~ short => chunks \o X = whole
    BY <1>3, Zenon DEF OnCourse
  <1>7. pc = "done" => X = << >>
    <2> SUFFICES ASSUME pc = "done" PROVE X = << >>
      OBVIOUS
    <2>1. buf = << >> /\ rest = << >>
      BY DEF IntakeInv, Tidy
    <2>2. Len(buf) = 0 /\ Len(rest) = 0
      BY <2>1, EmptySeq
    <2>3. Offset = Len(data)
      BY <1>1, <1>2, <2>2
    <2>4. ChunksAfter(data, Len(data)) = << >>
      BY <1>1, ChunksRun, Zenon
    <2> QED
      BY <2>3, <2>4, Zenon
  <1> HIDE DEF X, whole
  <1>8. SubSeq(chunks \o X, 1, N) = chunks
    <2>1. CASE N = 0
      <3>1. chunks = << >>
        BY <1>1, <2>1, EmptySeq
      <3>2. SubSeq(chunks \o X, 1, 0) = << >>
        BY SubSeqEmpty
      <3> QED
        BY <2>1, <3>1, <3>2, Zenon
    <2>2. CASE N # 0
      <3>1. 1 \in 1..Len(chunks) /\ N \in 1..Len(chunks)
        BY <1>2, <2>2
      <3>2. SubSeq(chunks \o X, 1, N) = SubSeq(chunks, 1, N)
        BY <1>1, <1>5, <3>1, SubSeqOfConcat1
      <3>3. SubSeq(chunks, 1, N) = chunks
        BY <1>1, SubSeqFull
      <3> QED
        BY <3>2, <3>3
    <2> QED
      BY <2>1, <2>2
  <1>9. chunks \o << >> = chunks
    BY <1>1, ConcatEmptySeq
  <1>10. ~ short => chunks = SubSeq(whole, 1, N)
    BY <1>6, <1>8, Zenon
  <1>11. ~ short /\ pc = "done" => chunks = whole
    BY <1>6, <1>7, <1>9, Zenon
  <1> QED
    BY <1>3, <1>10, <1>11, Zenon DEF StreamAgrees, whole

\* For files, chunk sizes and windows of any length, and any way in which reads split a
\* file: chunk_file cuts where the content of each window says, and chunk_reader cuts
\* there too as long as it never cut from less than MaxSize bytes before the end.
THEOREM BothWaysAgree == Spec => []StreamAgrees
  BY InitIntake, IntakeStep, InitOnCourse, CourseStep, CourseAgrees, PTL DEF Spec

-----------------------------------------------------------------------------
(* Patterns: what a segment is turned into *)

\* What a segment is made of.
Chars == STRING \cup {DoubleStar}

\* What one more step to the front makes of a segment.
Expands(E, segment) ==
    E = [i \in 1..Len(segment) + 1 |->
            IF i > Len(segment) THEN << >>
            ELSE IF i < Len(segment) /\ segment[i] = Star /\ segment[i + 1] = Star
                 THEN <<DoubleStar>> \o E[i + 2]
                 ELSE <<segment[i]>> \o E[i + 1]]

\* The expansion of the last k characters, from those of fewer.
ExpandsFrom(E, segment, m) ==
    E = [i \in m..Len(segment) + 1 |->
            IF i > Len(segment) THEN << >>
            ELSE IF i < Len(segment) /\ segment[i] = Star /\ segment[i + 1] = Star
                 THEN <<DoubleStar>> \o E[i + 2]
                 ELSE <<segment[i]>> \o E[i + 1]]

\* A segment has its expansion, a sequence of characters.
LEMMA ExpandType ==
  ASSUME NEW segment \in Seq(Chars)
  PROVE  Expand(segment) \in Seq(Chars)
  <1> DEFINE n == Len(segment)
             N == n + 1
             Upto(m) == \E E \in [m..N -> Seq(Chars)] : ExpandsFrom(E, segment, m)
             Good(m) == m = 0 \/ Upto(m)
             T == {m \in 0..N : Good(m)}
             one(i) == i < n /\ segment[i] = Star /\ segment[i + 1] = Star
  <1>1. n \in Nat /\ N \in Nat /\ N = n + 1 /\ \A i \in 1..n : segment[i] \in Chars
    BY LenProperties, ElementOfSeq
  <1>2. << >> \in Seq(Chars)
    BY EmptySeq
  <1>3. ASSUME NEW c \in Chars, NEW s \in Seq(Chars) PROVE <<c>> \o s \in Seq(Chars)
    <2>1. <<c>> \in Seq(Chars)
      OBVIOUS
    <2> QED
      BY <2>1, ConcatProperties
  <1>4. DoubleStar \in Chars
    BY Zenon DEF Chars
  <1>5. N \in T
    <2> DEFINE E == [i \in N..N |-> << >>]
    <2>1. E \in [N..N -> Seq(Chars)]
      BY <1>2, Zenon
    <2>2. \A i \in N..N : i > n
      BY <1>1
    <2>3. ExpandsFrom(E, segment, N)
      BY <2>2, Zenon DEF ExpandsFrom
    <2>4. Upto(N)
      BY <2>1, <2>3
    <2> HIDE DEF Upto
    <2> QED
      BY <1>1, <2>4
  <1>6. ASSUME NEW m \in 0..N, m # N, \A j \in 0..N : m < j => j \in T
        PROVE  m \in T
    <2>1. CASE m = 0
      BY <1>1, <2>1
    <2>2. CASE m # 0
      <3>1. m \in 1..n /\ m + 1 \in 0..N /\ m < m + 1 /\ m + 1 # 0
        BY <1>1, <1>6, <2>2
      <3>2. PICK E \in [m + 1..N -> Seq(Chars)] : ExpandsFrom(E, segment, m + 1)
        BY <1>6, <3>1
      <3> DEFINE new == IF one(m) THEN <<DoubleStar>> \o E[m + 2] ELSE <<segment[m]>> \o E[m + 1]
                 D == [i \in m..N |-> IF i = m THEN new ELSE E[i]]
      <3>3. new \in Seq(Chars)
        <4>1. m + 1 \in m + 1..N /\ (one(m) => m + 2 \in m + 1..N)
          BY <1>1, <3>1
        <4>2. E[m + 1] \in Seq(Chars) /\ (one(m) => E[m + 2] \in Seq(Chars))
          BY <4>1
        <4>3. segment[m] \in Chars
          BY <1>1, <3>1
        <4> HIDE DEF one
        <4> QED
          BY <1>3, <1>4, <4>2, <4>3, Zenon
      <3> HIDE DEF new
      <3>4. D \in [m..N -> Seq(Chars)]
        <4>1. \A i \in m..N : i # m => i \in m + 1..N
          BY <1>1, <3>1
        <4>2. \A i \in m..N : i # m => E[i] \in Seq(Chars)
          BY <4>1, Zenon
        <4> QED
          BY <3>3, <4>2, Zenon
      <3>5. ASSUME NEW i \in m..N
            PROVE  D[i] = IF i > n THEN << >>
                          ELSE IF one(i) THEN <<DoubleStar>> \o D[i + 2]
                          ELSE <<segment[i]>> \o D[i + 1]
        <4>1. i <= n => i + 1 \in m..N /\ i + 1 # m
          BY <1>1, <3>1
        <4>2. one(i) => i + 2 \in m..N /\ i + 2 # m
          BY <1>1, <3>1
        <4>3. (i <= n => D[i + 1] = E[i + 1]) /\ (one(i) => D[i + 2] = E[i + 2])
          <5> HIDE DEF one
          <5> QED
            BY <4>1, <4>2
        <4>4. CASE i = m
          <5>1. D[i] = new /\ ~ (i > n) /\ i <= n
            BY <1>1, <3>1, <4>4
          <5> HIDE DEF D, one
          <5> QED
            BY <4>3, <4>4, <5>1, Zenon DEF new
        <4>5. CASE i # m
          <5>1. i \in m + 1..N /\ (~ (i > n) => i <= n)
            BY <1>1, <3>1, <4>5
          <5>2. E[i] = IF i > n THEN << >>
                       ELSE IF one(i) THEN <<DoubleStar>> \o E[i + 2]
                       ELSE <<segment[i]>> \o E[i + 1]
            BY <3>2, <5>1, Zenon DEF ExpandsFrom
          <5>3. D[i] = E[i]
            BY <4>5
          <5> HIDE DEF D, one
          <5> QED
            BY <4>3, <5>1, <5>2, <5>3, Zenon
        <4> QED
          BY <4>4, <4>5, Zenon
      <3>6. D = [i \in m..N |-> D[i]]
        BY Zenon
      <3> HIDE DEF D
      <3>7. ExpandsFrom(D, segment, m)
        BY <3>5, <3>6, Zenon DEF ExpandsFrom
      <3>8. Upto(m)
        BY <3>4, <3>7, Zenon
      <3> HIDE DEF Upto
      <3> QED
        BY <3>8
    <2> QED
      BY <2>1, <2>2
  <1>7. PICK f \in [1..N -> Seq(Chars)] : ExpandsFrom(f, segment, 1)
    <2> HIDE DEF T
    <2>1. 0..N \subseteq T
      BY <1>1, <1>5, <1>6, Descend
    <2>2. 1 \in T
      BY <1>1, <2>1
    <2> QED
      BY <2>2 DEF T
  <1> DEFINE E == CHOOSE g : Expands(g, segment)
  <1>8. Expands(f, segment)
    BY <1>7, Zenon DEF Expands, ExpandsFrom
  <1>9. Expands(E, segment)
    BY <1>8, Zenon
  <1>10. Expand(segment) = E[1]
    BY Zenon DEF Expand, Expands
  <1> HIDE DEF E
  <1>11. \A i \in 1..N : E[i] = IF i > n THEN << >>
                               ELSE IF one(i) THEN <<DoubleStar>> \o E[i + 2]
                               ELSE <<segment[i]>> \o E[i + 1]
    BY <1>9, Zenon DEF Expands
  <1> DEFINE Typed(m) == m = 0 \/ E[m] \in Seq(Chars)
             S == {m \in 0..N : Typed(m)}
  <1>12. N \in S
    <2>1. N \in 1..N /\ N > n
      BY <1>1
    <2>2. E[N] = << >>
      BY <1>11, <2>1, Zenon
    <2>3. Typed(N)
      BY <1>2, <2>2, Zenon
    <2> HIDE DEF Typed
    <2> QED
      BY <1>1, <2>3
  <1>13. ASSUME NEW m \in 0..N, m # N, \A j \in 0..N : m < j => j \in S
         PROVE  m \in S
    <2>1. CASE m = 0
      BY <1>1, <2>1
    <2>2. CASE m # 0
      <3>1. m \in 1..n /\ m \in 1..N /\ ~ (m > n) /\ m + 1 \in 0..N /\ m < m + 1 /\ m + 1 # 0
        BY <1>1, <1>13, <2>2
      <3>2. one(m) => m + 2 \in 0..N /\ m < m + 2 /\ m + 2 # 0
        BY <1>1, <3>1
      <3> HIDE DEF one
      <3>3. E[m + 1] \in Seq(Chars) /\ (one(m) => E[m + 2] \in Seq(Chars))
        BY <1>13, <3>1, <3>2
      <3>4. E[m] \in Seq(Chars)
        BY <1>1, <1>3, <1>4, <1>11, <3>1, <3>3, Zenon
      <3> QED
        BY <3>4
    <2> QED
      BY <2>1, <2>2
  <1>14. 1 \in S
    <2> HIDE DEF S
    <2>1. 0..N \subseteq S
      BY <1>1, <1>12, <1>13, Descend
    <2> QED
      BY <1>1, <2>1
  <1> QED
    BY <1>10, <1>14

-----------------------------------------------------------------------------
(* One segment and one name *)

\* What the loop may hold.
State == [pi : Nat, ni : Nat, star : {{}} \cup {{i} : i \in Nat}, mi : Nat]

\* What it holds after each number of turns.
Loops(L, p, n) ==
    L = [k \in 0..Turns(p, n) |->
            IF k = 0 THEN {At(n, 0, 0, {}, 0)}
            ELSE {Turn(p, n, s) : s \in {t \in L[k - 1] : ~ Breaks(p, n, t)}}]

\* Positions and counts make a state.
LEMMA AtType ==
  ASSUME NEW p \in Seq(Chars), NEW n \in Seq(Chars), NEW pi \in Nat, NEW ni \in Nat,
         NEW star \in {{}} \cup {{i} : i \in Nat}, NEW mi \in Nat
  PROVE  At(n, pi, ni, star, mi) \in State
  <1>1. Len(n) \in Nat
    BY LenProperties
  <1> DEFINE m == IF ni > Len(n) THEN Len(n) + 1 ELSE ni
  <1>2. m \in Nat
    BY <1>1
  <1>3. At(n, pi, ni, star, mi) = [pi |-> pi, ni |-> m, star |-> star, mi |-> mi]
    BY Zenon DEF At
  <1> HIDE DEF m
  <1> QED
    BY <1>2, <1>3 DEF State

\* A turn of a loop that goes on leaves a state.
LEMMA TurnType ==
  ASSUME NEW p \in Seq(Chars), NEW n \in Seq(Chars), NEW s \in State, ~ Breaks(p, n, s)
  PROVE  Turn(p, n, s) \in State
  <1>1. /\ s.pi \in Nat /\ s.ni \in Nat /\ s.mi \in Nat /\ s.star \in {{}} \cup {{i} : i \in Nat}
        /\ Len(n) \in Nat
    BY LenProperties DEF State
  <1>2. CASE OnStar(p, s)
    <2>1. s.pi + 1 \in Nat /\ {s.pi} \in {{}} \cup {{i} : i \in Nat}
      BY <1>1
    <2>2. Turn(p, n, s) = At(n, s.pi + 1, s.ni, {s.pi}, s.ni)
      BY <1>2, Zenon DEF Turn
    <2> QED
      BY <1>1, <2>1, <2>2, AtType
  <1>3. CASE ~ OnStar(p, s) /\ OnEqual(p, n, s)
    <2>1. s.pi + 1 \in Nat /\ s.ni + 1 \in Nat
      BY <1>1
    <2>2. Turn(p, n, s) = At(n, s.pi + 1, s.ni + 1, s.star, s.mi)
      BY <1>3, Zenon DEF Turn
    <2> QED
      BY <1>1, <2>1, <2>2, AtType
  <1>4. CASE ~ OnStar(p, s) /\ ~ OnEqual(p, n, s)
    <2>1. s.star # {}
      BY <1>4, Zenon DEF Breaks, Seen
    <2> DEFINE mi == IF s.mi > Len(n) THEN s.mi ELSE s.mi + 1
               back == (CHOOSE i \in s.star : TRUE)
    <2>2. mi \in Nat
      BY <1>1
    <2>3. back \in Nat
      <3>1. PICK i \in Nat : s.star = {i}
        BY <1>1, <2>1
      <3>2. back \in s.star
        BY <2>1, Zenon
      <3> QED
        BY <3>1, <3>2
    <2>4. Turn(p, n, s) = At(n, back + 1, mi, s.star, mi)
      BY <1>4, Zenon DEF Turn
    <2> HIDE DEF mi, back
    <2>5. back + 1 \in Nat
      BY <2>3
    <2> QED
      BY <1>1, <2>2, <2>4, <2>5, AtType
  <1> QED
    BY <1>2, <1>3, <1>4

\* What the loop holds exists.
LEMMA LoopsExist ==
  ASSUME NEW p \in Seq(Chars), NEW n \in Seq(Chars)
  PROVE  /\ Turns(p, n) \in Nat /\ Turns(p, n) > Len(p)
         /\ \E L : Loops(L, p, n)
  <1> DEFINE T == Turns(p, n)
             S == SUBSET State
             step == [q \in Nat \X S |-> {Turn(p, n, s) : s \in {t \in q[2] : ~ Breaks(p, n, t)}}]
             a == {At(n, 0, 0, {}, 0)}
  <1>1. T \in Nat /\ T > Len(p)
    <2> DEFINE x == Len(p)  y == Len(n)
    <2>1. x \in Nat /\ y \in Nat
      BY LenProperties
    <2>2. T = (x + 1) * (y + 2)
      BY Zenon DEF Turns
    <2> HIDE DEF x, y, T
    <2>3. (x + 1) * (y + 2) = (x + 1) * (y + 1) + x + 1
      BY <2>1
    <2>4. (x + 1) * (y + 1) \in Nat
      BY <2>1
    <2>5. T \in Nat /\ T > x
      BY <2>1, <2>2, <2>3, <2>4
    <2> QED
      BY <2>5 DEF x
  <1>2. a \in S
    <2>1. 0 \in Nat /\ {} \in {{}} \cup {{i} : i \in Nat}
      OBVIOUS
    <2>2. At(n, 0, 0, {}, 0) \in State
      BY <2>1, AtType, Zenon
    <2> QED
      BY <2>2
  <1>3. step \in [Nat \X S -> S]
    <2>1. ASSUME NEW q \in Nat \X S
          PROVE  {Turn(p, n, s) : s \in {t \in q[2] : ~ Breaks(p, n, t)}} \in S
      <3>1. q[2] \subseteq State
        OBVIOUS
      <3> QED
        BY <3>1, TurnType
    <2> HIDE DEF S
    <2> QED
      BY <2>1, Zenon
  <1>4. 0 \in Nat
    OBVIOUS
  <1> HIDE DEF T
  <1>5. PICK f \in [0..T -> S] : Iterates(f, 0, T, a, step)
    <2> HIDE DEF S, step, a
    <2> QED
      BY <1>1, <1>2, <1>3, <1>4, Iteration, Zenon
  <1>6. ASSUME NEW k \in 0..T
        PROVE  f[k] = IF k = 0 THEN a
                      ELSE {Turn(p, n, s) : s \in {t \in f[k - 1] : ~ Breaks(p, n, t)}}
    <2>1. f[k] = IF k = 0 THEN a ELSE step[<<k, f[k - 1]>>]
      BY <1>5, Zenon DEF Iterates
    <2>2. CASE k = 0
      BY <2>1, <2>2, Zenon
    <2>3. CASE k # 0
      <3>1. k - 1 \in 0..T /\ k \in Nat
        BY <1>1, <2>3
      <3>2. f[k - 1] \in S
        BY <3>1
      <3>3. <<k, f[k - 1]>> \in Nat \X S /\ <<k, f[k - 1]>>[2] = f[k - 1]
        BY <3>1, <3>2
      <3> DEFINE q == <<k, f[k - 1]>>
      <3>4. q \in Nat \X S /\ q[2] = f[k - 1]
        BY <3>3, Zenon
      <3> HIDE DEF q, S
      <3>5. step[q] = {Turn(p, n, s) : s \in {t \in q[2] : ~ Breaks(p, n, t)}}
        BY <3>4, Zenon
      <3>6. f[k] = step[q]
        BY <2>1, <2>3, Zenon DEF q
      <3> HIDE DEF step
      <3> QED
        BY <2>3, <3>4, <3>5, <3>6, Zenon
    <2> QED
      BY <2>2, <2>3
  <1>7. f = [k \in 0..T |-> f[k]]
    BY <1>5, Zenon DEF Iterates
  <1>8. Loops(f, p, n)
    BY <1>6, <1>7, Zenon DEF Loops, T
  <1> QED
    BY <1>1, <1>8, Zenon DEF T

\* p and n begin with the same k characters, none of them a star.
Plain(p, n, k) ==
    /\ k \in Nat /\ k <= Len(p) /\ k <= Len(n)
    /\ \A i \in 1..k : p[i] = n[i] /\ p[i] # Star

Starred(p) == \E i \in DOMAIN p : p[i] = Star

\* After k turns a star was seen, or each turn took a character of both.
Known(p, n, k, s) ==
    \/ s.star # {} /\ Starred(p)
    \/ s = [pi |-> k, ni |-> k, star |-> {}, mi |-> 0] /\ Plain(p, n, k)

\* The next turn.
LEMMA KnownNext ==
  ASSUME NEW p \in Seq(Chars), NEW n \in Seq(Chars), NEW k \in Nat, NEW s,
         Known(p, n, k, s), ~ Breaks(p, n, s)
  PROVE  Known(p, n, k + 1, Turn(p, n, s))
  <1>1. Len(p) \in Nat /\ Len(n) \in Nat /\ DOMAIN p = 1..Len(p)
    BY LenProperties
  <1>2. CASE s.star # {} /\ Starred(p)
    <2>1. Turn(p, n, s).star # {}
      <3>1. \A pi, ni, star, mi : At(n, pi, ni, star, mi).star = star
        BY DEF At
      <3>2. CASE OnStar(p, s)
        <4>1. Turn(p, n, s) = At(n, s.pi + 1, s.ni, {s.pi}, s.ni)
          BY <3>2, Zenon DEF Turn
        <4>2. At(n, s.pi + 1, s.ni, {s.pi}, s.ni).star = {s.pi}
          BY DEF At
        <4> QED
          BY <4>1, <4>2
      <3>3. CASE ~ OnStar(p, s)
        <4>1. CASE OnEqual(p, n, s)
          <5>1. Turn(p, n, s) = At(n, s.pi + 1, s.ni + 1, s.star, s.mi)
            BY <3>3, <4>1, Zenon DEF Turn
          <5> QED
            BY <1>2, <3>1, <5>1
        <4>2. CASE ~ OnEqual(p, n, s)
          <5> DEFINE mi == IF s.mi > Len(n) THEN s.mi ELSE s.mi + 1
          <5>1. Turn(p, n, s) = At(n, (CHOOSE i \in s.star : TRUE) + 1, mi, s.star, mi)
            BY <3>3, <4>2, Zenon DEF Turn
          <5> HIDE DEF mi
          <5> QED
            BY <1>2, <3>1, <5>1
        <4> QED
          BY <4>1, <4>2
      <3> QED
        BY <3>2, <3>3
    <2> QED
      BY <1>2, <2>1 DEF Known
  <1>3. CASE s = [pi |-> k, ni |-> k, star |-> {}, mi |-> 0] /\ Plain(p, n, k)
    <2>1. s.pi = k /\ s.ni = k /\ s.star = {} /\ s.mi = 0
      BY <1>3
    <2>2. CASE OnStar(p, s)
      <3>1. Turn(p, n, s).star = {k}
        <4>1. Turn(p, n, s) = At(n, s.pi + 1, s.ni, {s.pi}, s.ni)
          BY <2>2, Zenon DEF Turn
        <4> QED
          BY <2>1, <4>1 DEF At
      <3>2. k + 1 \in DOMAIN p /\ p[k + 1] = Star
        BY <1>1, <2>1, <2>2 DEF OnStar
      <3> QED
        BY <3>1, <3>2 DEF Known, Starred
    <2>3. CASE ~ OnStar(p, s) /\ OnEqual(p, n, s)
      <3>1. /\ k < Len(p) /\ k < Len(n) /\ p[k + 1] = n[k + 1] /\ p[k + 1] # Star
        BY <2>1, <2>3 DEF OnStar, OnEqual
      <3>2. Turn(p, n, s) = At(n, k + 1, k + 1, {}, 0)
        BY <2>1, <2>3, Zenon DEF Turn
      <3>3. ~ (k + 1 > Len(n))
        BY <1>1, <3>1
      <3>4. Turn(p, n, s) = [pi |-> k + 1, ni |-> k + 1, star |-> {}, mi |-> 0]
        BY <3>2, <3>3, Zenon DEF At
      <3>5. Plain(p, n, k + 1)
        <4>1. ASSUME NEW i \in 1..k + 1 PROVE p[i] = n[i] /\ p[i] # Star
          <5>1. CASE i = k + 1
            BY <3>1, <5>1
          <5>2. CASE i # k + 1
            <6>1. i \in 1..k
              BY <5>2
            <6> QED
              BY <1>3, <6>1, Zenon DEF Plain
          <5> QED
            BY <5>1, <5>2
        <4>2. k + 1 \in Nat /\ k + 1 <= Len(p) /\ k + 1 <= Len(n)
          BY <1>1, <3>1
        <4> QED
          BY <4>1, <4>2, Zenon DEF Plain
      <3> QED
        BY <3>4, <3>5, Zenon DEF Known
    <2>4. CASE ~ OnStar(p, s) /\ ~ OnEqual(p, n, s)
      BY <2>1, <2>4, Zenon DEF Breaks, Seen
    <2> QED
      BY <2>2, <2>3, <2>4
  <1> QED
    BY <1>2, <1>3 DEF Known

\* Where the loop breaks.
Ends(p, n) ==
    LET L == CHOOSE f : Loops(f, p, n)
    IN  {s \in UNION {L[k] : k \in 0..Turns(p, n)} : Breaks(p, n, s)}

\* It breaks with the same characters taken of both, or a star was seen.
LEMMA EndsKnown ==
  ASSUME NEW p \in Seq(Chars), NEW n \in Seq(Chars)
  PROVE  /\ \A s \in Ends(p, n) : \E k \in Nat : Known(p, n, k, s) /\ Breaks(p, n, s)
         /\ Ends(p, n) = {} => Starred(p)
  <1> DEFINE T == Turns(p, n)
             L == CHOOSE f : Loops(f, p, n)
             Sure(k) == \A s \in L[k] : Known(p, n, k, s)
             S == {k \in 0..T : Sure(k)}
             goes(k) == {t \in L[k - 1] : ~ Breaks(p, n, t)}
  <1>1. Len(p) \in Nat /\ T \in Nat /\ T > Len(p)
    BY LenProperties, LoopsExist
  <1>2. Loops(L, p, n)
    BY LoopsExist, Zenon
  <1>3. Ends(p, n) = {s \in UNION {L[k] : k \in 0..T} : Breaks(p, n, s)}
    BY Zenon DEF Ends
  <1> HIDE DEF L, T
  <1>4. \A k \in 0..T : L[k] = IF k = 0 THEN {At(n, 0, 0, {}, 0)}
                               ELSE {Turn(p, n, s) : s \in goes(k)}
    BY <1>2, Zenon DEF Loops, T
  <1>5. L[0] = {At(n, 0, 0, {}, 0)} /\ \A k \in 1..T : L[k] = {Turn(p, n, s) : s \in goes(k)}
    <2>1. 0 \in 0..T /\ \A k \in 1..T : k \in 0..T /\ k # 0
      BY <1>1
    <2> HIDE DEF goes
    <2> QED
      BY <1>4, <2>1, Zenon
  <1>6. 0 \in S
    <2>1. At(n, 0, 0, {}, 0) = [pi |-> 0, ni |-> 0, star |-> {}, mi |-> 0]
      <3>1. ~ (0 > Len(n))
        BY LenProperties
      <3> QED
        BY <3>1, Zenon DEF At
    <2>2. Plain(p, n, 0)
      BY LenProperties DEF Plain
    <2>3. Known(p, n, 0, At(n, 0, 0, {}, 0))
      BY <2>1, <2>2, Zenon DEF Known
    <2>4. Sure(0)
      BY <1>5, <2>3, Zenon
    <2> HIDE DEF Sure
    <2> QED
      BY <1>1, <2>4
  <1>7. ASSUME NEW k \in 0 + 1..T, k - 1 \in S PROVE k \in S
    <2>1. k - 1 \in Nat /\ k \in 0..T /\ k \in 1..T /\ (k - 1) + 1 = k
      BY <1>1
    <2>2. Sure(k - 1)
      BY <1>7
    <2>3. ASSUME NEW s \in goes(k) PROVE Known(p, n, k, Turn(p, n, s))
      <3>1. Known(p, n, k - 1, s) /\ ~ Breaks(p, n, s)
        BY <2>2, Zenon
      <3>2. Known(p, n, (k - 1) + 1, Turn(p, n, s))
        BY <2>1, <3>1, KnownNext, Zenon
      <3> QED
        BY <2>1, <3>2, Zenon
    <2> HIDE DEF goes
    <2>4. Sure(k)
      BY <1>5, <2>1, <2>3, Zenon
    <2> HIDE DEF Sure
    <2> QED
      BY <2>1, <2>4
  <1>8. \A k \in 0..T : Sure(k)
    <2>1. 0 \in Nat
      OBVIOUS
    <2> HIDE DEF S
    <2>2. 0..T \subseteq S
      BY <1>1, <1>6, <1>7, <2>1, Climb
    <2> QED
      BY <2>2 DEF S
  <1>9. \A s \in Ends(p, n) : \E k \in Nat : Known(p, n, k, s) /\ Breaks(p, n, s)
    <2> SUFFICES ASSUME NEW s \in Ends(p, n)
                 PROVE  \E k \in Nat : Known(p, n, k, s) /\ Breaks(p, n, s)
      OBVIOUS
    <2>1. PICK k \in 0..T : s \in L[k]
      BY <1>3, Zenon
    <2>2. Breaks(p, n, s)
      BY <1>3, Zenon
    <2>3. k \in Nat
      BY <1>1
    <2> QED
      BY <1>8, <2>1, <2>2, <2>3, Zenon
  <1>10. ASSUME Ends(p, n) = {} PROVE Starred(p)
    <2> DEFINE R == {k \in 0..T : L[k] # {}}
    <2>1. 0 \in R
      <3>1. 0 \in 0..T /\ {At(n, 0, 0, {}, 0)} # {}
        BY <1>1
      <3>2. L[0] # {}
        BY <1>5, <3>1, Zenon
      <3> QED
        BY <3>1, <3>2
    <2>2. ASSUME NEW k \in 0 + 1..T, k - 1 \in R PROVE k \in R
      <3>1. k - 1 \in 0..T /\ k \in 1..T /\ k \in 0..T
        BY <1>1
      <3>2. PICK s : s \in L[k - 1]
        BY <2>2
      <3>3. ~ Breaks(p, n, s)
        BY <1>3, <1>10, <3>1, <3>2, Zenon
      <3>4. s \in goes(k)
        BY <3>2, <3>3
      <3> HIDE DEF goes
      <3>5. Turn(p, n, s) \in L[k]
        BY <1>5, <3>1, <3>4, Zenon
      <3> QED
        BY <3>1, <3>5
    <2> HIDE DEF R
    <2>3. 0..T \subseteq R
      <3>1. 0 \in Nat
        OBVIOUS
      <3> QED
        BY <1>1, <2>1, <2>2, <3>1, Climb
    <2>4. T \in 0..T
      BY <1>1
    <2>5. PICK s : s \in L[T]
      BY <2>3, <2>4 DEF R
    <2>6. Known(p, n, T, s)
      BY <1>8, <2>4, <2>5, Zenon
    <2>7. ~ Plain(p, n, T)
      BY <1>1 DEF Plain
    <2> QED
      BY <2>6, <2>7, Zenon DEF Known
  <1> QED
    BY <1>9, <1>10

\* A cut of the name that fits the segment.
NameCut(cut, p, n) ==
    /\ cut[1] = 0 /\ cut[Len(p) + 1] = Len(n)
    /\ \A i \in DOMAIN p :
          IF p[i] = Star THEN cut[i] <= cut[i + 1]
          ELSE cut[i + 1] = cut[i] + 1 /\ p[i] = n[cut[i] + 1]

\* As long as no star comes, a cut takes a character for each.
LEMMA CutIsPlain ==
  ASSUME NEW p \in Seq(Chars), NEW n \in Seq(Chars), NEW k, Plain(p, n, k),
         NEW cut \in [1..Len(p) + 1 -> 0..Len(n)], NameCut(cut, p, n)
  PROVE  cut[k + 1] = k
  <1> DEFINE T == {j \in 0..k : cut[j + 1] = j}
  <1>1. Len(p) \in Nat /\ Len(n) \in Nat /\ k \in Nat /\ k <= Len(p) /\ DOMAIN p = 1..Len(p)
        /\ \A i \in 1..k : p[i] # Star
    BY LenProperties, Zenon DEF Plain
  <1>2. 0 \in T
    BY <1>1 DEF NameCut
  <1>3. ASSUME NEW j \in 0 + 1..k, j - 1 \in T PROVE j \in T
    <2>1. j \in DOMAIN p /\ j \in 1..k /\ (j - 1) + 1 = j /\ j \in 0..k
      BY <1>1
    <2>2. cut[j] = j - 1
      BY <1>3, <2>1
    <2>3. cut[j + 1] = cut[j] + 1
      BY <1>1, <2>1, Zenon DEF NameCut
    <2>4. cut[j + 1] = j
      BY <2>1, <2>2, <2>3
    <2> QED
      BY <2>1, <2>4
  <1> HIDE DEF T
  <1>4. 0..k \subseteq T
    <2>1. 0 \in Nat
      OBVIOUS
    <2> QED
      BY <1>1, <1>2, <1>3, <2>1, Climb
  <1>5. k \in T
    BY <1>1, <1>4
  <1> QED
    BY <1>5 DEF T

\* What single_match says of a segment and a name is true, and only a star among the
\* characters of a segment holds it in its loop.
LEMMA SingleMatchMeans ==
  ASSUME NEW p \in Seq(Chars), NEW n \in Seq(Chars)
  PROVE  /\ SingleMatch(p, n) \in Outcomes
         /\ SingleMatch(p, n) = "yes" => MeantName(p, n)
         /\ SingleMatch(p, n) = "no" => ~ MeantName(p, n)
         /\ SingleMatch(p, n) = "hang" => p # <<Star>> /\ Starred(p)
  <1> DEFINE AtEnd(s) == s.ni = Len(n) /\ \A i \in s.pi + 1..Len(p) : p[i] = Star
             l == Len(p)
             m == Len(n)
  <1>1. /\ l \in Nat /\ m \in Nat /\ DOMAIN p = 1..l
    BY LenProperties
  <1>2. SingleMatch(p, n) = IF p = <<Star>> THEN "yes"
                            ELSE IF Ends(p, n) = {} THEN "hang"
                            ELSE Answer(\A s \in Ends(p, n) : AtEnd(s))
    BY Zenon DEF SingleMatch, Ends, Loops
  <1>3. MeantName(p, n) <=> \E cut \in [1..l + 1 -> 0..m] : NameCut(cut, p, n)
    BY Zenon DEF MeantName, Covers, NameCut
  <1>4. CASE p = <<Star>>
    <2> DEFINE cut == [i \in 1..l + 1 |-> IF i = 1 THEN 0 ELSE m]
    <2>1. l = 1 /\ p[1] = Star
      BY <1>4
    <2>2. cut \in [1..l + 1 -> 0..m] /\ cut[1] = 0 /\ cut[2] = m /\ l + 1 = 2
      BY <1>1, <2>1
    <2> HIDE DEF cut, l
    <2>3. \A i \in DOMAIN p : i = 1 /\ i + 1 = 2
      BY <1>1, <2>1
    <2>4. NameCut(cut, p, n)
      BY <1>1, <2>1, <2>2, <2>3 DEF NameCut, l
    <2>5. MeantName(p, n)
      BY <1>3, <2>2, <2>4, Zenon
    <2> QED
      BY <1>2, <1>4, <2>5 DEF Outcomes
  <1>5. CASE p # <<Star>> /\ Ends(p, n) = {}
    <2>1. SingleMatch(p, n) = "hang"
      BY <1>2, <1>5, Zenon
    <2> QED
      BY <1>5, <2>1, EndsKnown DEF Outcomes
  <1>6. CASE p # <<Star>> /\ Ends(p, n) # {}
    <2>1. SingleMatch(p, n) = Answer(\A s \in Ends(p, n) : AtEnd(s))
      BY <1>2, <1>6, Zenon
    <2>2. ASSUME NEW s \in Ends(p, n)
          PROVE  \E k \in Nat : /\ Plain(p, n, k) /\ s.pi = k /\ s.ni = k
                                /\ ~ OnStar(p, s) /\ ~ OnEqual(p, n, s)
      <3>1. PICK k \in Nat : Known(p, n, k, s) /\ Breaks(p, n, s)
        BY EndsKnown, Zenon
      <3>2. s.star = {} /\ ~ OnStar(p, s) /\ ~ OnEqual(p, n, s)
        BY <3>1, Zenon DEF Breaks, Seen
      <3>3. s = [pi |-> k, ni |-> k, star |-> {}, mi |-> 0] /\ Plain(p, n, k)
        BY <3>1, <3>2, Zenon DEF Known
      <3>4. s.pi = k /\ s.ni = k
        BY <3>3
      <3> QED
        BY <3>2, <3>3, <3>4, Zenon
    <2>3. CASE \A s \in Ends(p, n) : AtEnd(s)
      <3>1. PICK s : s \in Ends(p, n)
        BY <1>6
      <3>2. PICK k \in Nat : /\ Plain(p, n, k) /\ s.pi = k /\ s.ni = k
                             /\ ~ OnStar(p, s) /\ ~ OnEqual(p, n, s)
        BY <2>2, <3>1
      <3>3. k = m /\ \A i \in k + 1..l : p[i] = Star
        BY <2>3, <3>1, <3>2, Zenon
      <3>4. k = l
        <4>1. k <= l
          BY <3>2 DEF Plain
        <4>2. k < l => p[k + 1] # Star
          BY <3>2 DEF OnStar
        <4>3. k < l => k + 1 \in k + 1..l
          BY <1>1
        <4>4. ~ (k < l)
          BY <3>3, <4>2, <4>3, Zenon
        <4> HIDE DEF l, m
        <4> QED
          BY <1>1, <4>1, <4>4
      <3> DEFINE cut == [i \in 1..l + 1 |-> i - 1]
      <3>5. cut \in [1..l + 1 -> 0..m] /\ cut[1] = 0 /\ cut[l + 1] = m
        BY <1>1, <3>3, <3>4
      <3>6. ASSUME NEW i \in 1..l
            PROVE  cut[i + 1] = cut[i] + 1 /\ p[i] = n[cut[i] + 1] /\ p[i] # Star
        <4>1. cut[i + 1] = i /\ cut[i] = i - 1 /\ (i - 1) + 1 = i
          BY <1>1
        <4>2. p[i] = n[i] /\ p[i] # Star
          BY <3>2, <3>4, Zenon DEF Plain
        <4> HIDE DEF cut
        <4> QED
          BY <4>1, <4>2
      <3> HIDE DEF cut
      <3>7. NameCut(cut, p, n)
        BY <1>1, <3>5, <3>6, Zenon DEF NameCut
      <3>8. MeantName(p, n)
        BY <1>3, <3>5, <3>7, Zenon
      <3>9. SingleMatch(p, n) = "yes"
        BY <2>1, <2>3, Zenon DEF Answer
      <3> QED
        BY <3>8, <3>9 DEF Outcomes
    <2>4. CASE ~ (\A s \in Ends(p, n) : AtEnd(s))
      <3>1. PICK s \in Ends(p, n) : ~ AtEnd(s)
        BY <2>4, Zenon
      <3>2. PICK k \in Nat : /\ Plain(p, n, k) /\ s.pi = k /\ s.ni = k
                             /\ ~ OnStar(p, s) /\ ~ OnEqual(p, n, s)
        BY <2>2
      <3>3. k <= l /\ k <= m
        BY <3>2, Zenon DEF Plain
      <3>4. /\ k < l => p[k + 1] # Star
            /\ k < l /\ k < m => p[k + 1] # n[k + 1]
        BY <3>2 DEF OnStar, OnEqual
      <3>5. k = m => k < l
        <4> SUFFICES ASSUME k = m, ~ (k < l) PROVE AtEnd(s)
          BY <3>1
        <4>1. k + 1..l = {}
          BY <1>1
        <4> QED
          BY <3>2, <4>1, Zenon
      <3>6. ~ MeantName(p, n)
        <4> SUFFICES ASSUME NEW cut \in [1..l + 1 -> 0..m], NameCut(cut, p, n) PROVE FALSE
          BY <1>3, Zenon
        <4>1. cut[k + 1] = k
          BY <3>2, CutIsPlain, Zenon
        <4>2. CASE k < l
          <5>1. k + 1 \in DOMAIN p /\ k + 2 \in 1..l + 1 /\ (k + 1) + 1 = k + 2
            BY <1>1, <4>2
          <5>2. cut[(k + 1) + 1] = cut[k + 1] + 1 /\ p[k + 1] = n[cut[k + 1] + 1]
            BY <3>4, <4>2, <5>1, Zenon DEF NameCut
          <5>3. cut[k + 2] = k + 1 /\ p[k + 1] = n[k + 1]
            BY <4>1, <5>1, <5>2, Zenon
          <5>4. k + 1 \in 0..m
            BY <5>1, <5>3
          <5>5. k < m
            BY <1>1, <5>4
          <5> QED
            BY <3>4, <4>2, <5>3, <5>5
        <4>3. CASE ~ (k < l)
          <5>1. k = l
            <6> HIDE DEF l, m
            <6> QED
              BY <1>1, <3>3, <4>3
          <5>2. cut[l + 1] = m
            BY Zenon DEF NameCut
          <5> QED
            BY <3>5, <4>1, <4>3, <5>1, <5>2
        <4> QED
          BY <4>2, <4>3
      <3>7. SingleMatch(p, n) = "no"
        BY <2>1, <2>4, Zenon DEF Answer
      <3> QED
        BY <3>6, <3>7 DEF Outcomes
    <2> QED
      BY <2>3, <2>4
  <1> QED
    BY <1>4, <1>5, <1>6

-----------------------------------------------------------------------------
(* A pattern and a path *)

Segments == Seq(Chars)

\* What match_segments answers for a place in the pattern and one in the path, from what
\* it answers for the next place in the pattern.
Cell(below, ps, path, pi, si) ==
    IF ps[pi] = <<DoubleStar>> THEN
        IF pi = Len(ps) THEN "yes"
        ELSE LET tries == {next \in From(ps, path, si) : below[next] # "no"}
             IN  IF tries = {} THEN "no"
                 ELSE below[CHOOSE next \in tries : \A t \in tries : next <= t]
    ELSE IF si > Len(path) THEN "no"
    ELSE LET single == SingleMatch(ps[pi], path[si])
         IN  IF single = "yes" THEN below[si + 1] ELSE single

\* The answers for each place in the pattern and each in the path.
Matches(M, ps, path) ==
    M = [pi \in 1..Len(ps) + 1 |-> [si \in 1..Len(path) + 1 |->
            IF pi > Len(ps) THEN Answer(si > Len(path))
            ELSE Cell(M[pi + 1], ps, path, pi, si)]]

\* The first place a ** goes on to, if there is one.
LEMMA FirstTry ==
  ASSUME NEW q \in Nat, NEW tries, tries \subseteq 1..q, tries # {}
  PROVE  (CHOOSE next \in tries : \A t \in tries : next <= t) \in tries
  <1>1. tries \subseteq Nat
    OBVIOUS
  <1>2. \E i \in tries : \A j \in tries : i <= j
    BY <1>1, LeastNumber
  <1> QED
    BY <1>2, Zenon

\* An answer is an answer.
LEMMA CellType ==
  ASSUME NEW ps \in Seq(Segments), NEW path \in Seq(Segments),
         NEW pi \in 1..Len(ps), NEW si \in 1..Len(path) + 1,
         NEW below \in [1..Len(path) + 1 -> Outcomes]
  PROVE  Cell(below, ps, path, pi, si) \in Outcomes
  <1>1. Len(path) \in Nat /\ ps[pi] \in Segments
    BY LenProperties, ElementOfSeq
  <1>2. CASE ps[pi] = <<DoubleStar>> /\ pi = Len(ps)
    <2>1. Cell(below, ps, path, pi, si) = "yes"
      BY <1>2, Zenon DEF Cell
    <2> QED
      BY <2>1 DEF Outcomes
  <1>3. CASE ps[pi] = <<DoubleStar>> /\ pi # Len(ps)
    <2> DEFINE tries == {next \in From(ps, path, si) : below[next] # "no"}
               try == CHOOSE next \in tries : \A t \in tries : next <= t
    <2>1. Cell(below, ps, path, pi, si) = IF tries = {} THEN "no" ELSE below[try]
      BY <1>3, Zenon DEF Cell
    <2>2. tries # {} => try \in 1..Len(path) + 1
      <3>1. Len(path) + 1 \in Nat /\ tries \subseteq 1..Len(path) + 1
        BY <1>1 DEF From
      <3> HIDE DEF tries
      <3>2. tries # {} => try \in tries
        BY <3>1, FirstTry, Zenon
      <3> HIDE DEF try
      <3> QED
        BY <3>1, <3>2
    <2> HIDE DEF tries, try
    <2> QED
      BY <2>1, <2>2 DEF Outcomes
  <1>4. CASE ps[pi] # <<DoubleStar>> /\ si > Len(path)
    <2>1. Cell(below, ps, path, pi, si) = "no"
      BY <1>4, Zenon DEF Cell
    <2> QED
      BY <2>1 DEF Outcomes
  <1>5. CASE ps[pi] # <<DoubleStar>> /\ ~ (si > Len(path))
    <2> DEFINE single == SingleMatch(ps[pi], path[si])
    <2>1. Cell(below, ps, path, pi, si) = IF single = "yes" THEN below[si + 1] ELSE single
      BY <1>5, Zenon DEF Cell
    <2>2. si \in 1..Len(path) /\ si + 1 \in 1..Len(path) + 1
      BY <1>1, <1>5
    <2>3. path[si] \in Segments
      BY <2>2, ElementOfSeq
    <2>4. single \in Outcomes
      BY <1>1, <2>3, SingleMatchMeans, Zenon DEF Segments
    <2> HIDE DEF single
    <2> QED
      BY <2>1, <2>2, <2>4
  <1> QED
    BY <1>2, <1>3, <1>4, <1>5

\* The answers exist.
LEMMA MatchesExist ==
  ASSUME NEW ps \in Seq(Segments), NEW path \in Seq(Segments)
  PROVE  \E M : Matches(M, ps, path)
  <1> DEFINE P == Len(ps)
             X == 1..Len(path) + 1
             S == [X -> Outcomes]
             a == [si \in X |-> Answer(si > Len(path))]
             row(k, below) == [si \in X |-> Cell(below, ps, path, P + 1 - k, si)]
             next(k, below) == IF k \in 1..P THEN row(k, below) ELSE below
             step == [q \in Nat \X S |-> next(q[1], q[2])]
  <1>1. P \in Nat /\ Len(path) \in Nat /\ 0 \in Nat
    BY LenProperties
  <1>2. a \in S
    BY DEF Answer, Outcomes
  <1>3. step \in [Nat \X S -> S]
    <2>1. ASSUME NEW k \in Nat, NEW below \in S PROVE next(k, below) \in S
      <3>1. CASE k \in 1..P
        <4>1. P + 1 - k \in 1..P
          BY <1>1, <3>1
        <4>2. \A si \in X : Cell(below, ps, path, P + 1 - k, si) \in Outcomes
          BY <4>1, CellType
        <4> HIDE DEF P
        <4> QED
          BY <3>1, <4>2
      <3>2. CASE k \notin 1..P
        BY <3>2, Zenon
      <3> QED
        BY <3>1, <3>2, Zenon
    <2> HIDE DEF S, next
    <2>2. \A q \in Nat \X S : q[1] \in Nat /\ q[2] \in S
      OBVIOUS
    <2>3. \A q \in Nat \X S : next(q[1], q[2]) \in S
      BY <2>1, <2>2, Zenon
    <2> QED
      BY <2>3, Zenon
  <1>4. PICK f \in [0..P -> S] : Iterates(f, 0, P, a, step)
    <2> HIDE DEF S, step, a, P
    <2> QED
      BY <1>1, <1>2, <1>3, Iteration, Zenon
  <1>5. f[0] = a
    <2>1. 0 \in 0..P
      BY <1>1
    <2> HIDE DEF a, step
    <2> QED
      BY <1>4, <2>1, Zenon DEF Iterates
  <1>6. ASSUME NEW k \in 1..P PROVE f[k] = row(k, f[k - 1])
    <2>1. k \in 0..P /\ k # 0 /\ k - 1 \in 0..P /\ k \in Nat
      BY <1>1
    <2>2. f[k - 1] \in S
      BY <2>1
    <2> DEFINE q == <<k, f[k - 1]>>
    <2>3. q \in Nat \X S /\ q[1] = k /\ q[2] = f[k - 1]
      BY <2>1, <2>2
    <2> HIDE DEF q, S, row, a
    <2>4. step[q] = next(k, f[k - 1])
      BY <2>3, Zenon
    <2>5. f[k] = step[q]
      <3> HIDE DEF step
      <3> QED
        BY <1>4, <2>1, Zenon DEF Iterates, q
    <2> QED
      BY <2>4, <2>5, Zenon
  <1> DEFINE M == [pi \in 1..P + 1 |-> f[P + 1 - pi]]
  <1>7. ASSUME NEW pi \in 1..P + 1
        PROVE  M[pi] = [si \in X |-> IF pi > Len(ps) THEN Answer(si > Len(path))
                                     ELSE Cell(M[pi + 1], ps, path, pi, si)]
    <2>1. M[pi] = f[P + 1 - pi]
      BY Zenon
    <2>2. CASE pi > Len(ps)
      <3>1. P + 1 - pi = 0
        BY <1>1, <2>2
      <3> HIDE DEF M
      <3> QED
        BY <1>5, <2>1, <2>2, <3>1, Zenon
    <2>3. CASE ~ (pi > Len(ps))
      <3> DEFINE k == P + 1 - pi
      <3>1. k \in 1..P /\ P + 1 - k = pi /\ k - 1 = P + 1 - (pi + 1) /\ pi + 1 \in 1..P + 1
        BY <1>1, <2>3
      <3>2. M[pi + 1] = f[P + 1 - (pi + 1)]
        BY <3>1, Zenon
      <3> HIDE DEF M, k
      <3>3. f[k] = row(k, f[k - 1])
        BY <1>6, <3>1, Zenon
      <3> QED
        BY <2>1, <2>3, <3>1, <3>2, <3>3, Zenon DEF k
    <2> QED
      BY <2>2, <2>3, Zenon
  <1>8. M = [pi \in 1..P + 1 |-> M[pi]]
    BY Zenon
  <1> HIDE DEF M
  <1>9. Matches(M, ps, path)
    BY <1>7, <1>8, Zenon DEF Matches
  <1> QED
    BY <1>9, Zenon

\* What MeantPath asks of one segment of a pattern.
PartFits(cut, ps, path, i) ==
    IF ps[i] = <<DoubleStar>> THEN cut[i] <= cut[i + 1]
    ELSE cut[i + 1] = cut[i] + 1 /\ MeantName(ps[i], path[cut[i] + 1])

\* The pattern from its pi-th segment on means the path from its si-th on.
MeantFrom(ps, path, pi, si) ==
    \E cut \in [pi..Len(ps) + 1 -> 0..Len(path)] :
        /\ cut[pi] = si - 1 /\ cut[Len(ps) + 1] = Len(path)
        /\ \A i \in pi..Len(ps) : PartFits(cut, ps, path, i)

\* Nothing means nothing.
LEMMA MeantEnd ==
  ASSUME NEW ps \in Seq(Segments), NEW path \in Seq(Segments), NEW si \in 1..Len(path) + 1
  PROVE  MeantFrom(ps, path, Len(ps) + 1, si) <=> si > Len(path)
  <1> DEFINE P == Len(ps)  Q == Len(path)
  <1>1. P \in Nat /\ Q \in Nat
    BY LenProperties
  <1>2. MeantFrom(ps, path, P + 1, si) <=>
          \E cut \in [P + 1..P + 1 -> 0..Q] :
             /\ cut[P + 1] = si - 1 /\ cut[P + 1] = Q
             /\ \A i \in P + 1..P : PartFits(cut, ps, path, i)
    BY Zenon DEF MeantFrom
  <1> HIDE DEF P, Q
  <1>3. P + 1..P = {}
    BY <1>1
  <1>4. ASSUME si > Q PROVE MeantFrom(ps, path, P + 1, si)
    <2> DEFINE cut == [i \in P + 1..P + 1 |-> Q]
    <2>1. cut \in [P + 1..P + 1 -> 0..Q] /\ cut[P + 1] = Q
      BY <1>1
    <2>2. si - 1 = Q
      BY <1>1, <1>4 DEF Q
    <2> HIDE DEF cut
    <2> QED
      BY <1>2, <1>3, <2>1, <2>2, Zenon
  <1>5. ASSUME MeantFrom(ps, path, P + 1, si) PROVE si > Q
    <2>1. si - 1 = Q
      BY <1>2, <1>5, Zenon
    <2> QED
      BY <1>1, <2>1
  <1> QED
    BY <1>4, <1>5, Zenon DEF P, Q

\* What one segment takes off the path.
Takes(ps, path, pi, si, next) ==
    IF ps[pi] = <<DoubleStar>> THEN si <= next
    ELSE next = si + 1 /\ MeantName(ps[pi], path[si])

\* A pattern means a path if its first segment takes what leaves a path that the others mean.
LEMMA MeantNext ==
  ASSUME NEW ps \in Seq(Segments), NEW path \in Seq(Segments),
         NEW pi \in 1..Len(ps), NEW si \in 1..Len(path) + 1
  PROVE  MeantFrom(ps, path, pi, si) <=>
            \E next \in 1..Len(path) + 1 :
               Takes(ps, path, pi, si, next) /\ MeantFrom(ps, path, pi + 1, next)
  <1> DEFINE P == Len(ps)  Q == Len(path)
  <1>1. P \in Nat /\ Q \in Nat /\ pi \in 1..P /\ si \in 1..Q + 1
    BY LenProperties
  <1>2. \A k, s : MeantFrom(ps, path, k, s) <=>
          \E cut \in [k..P + 1 -> 0..Q] :
             /\ cut[k] = s - 1 /\ cut[P + 1] = Q
             /\ \A i \in k..P : PartFits(cut, ps, path, i)
    BY Zenon DEF MeantFrom
  <1> HIDE DEF P, Q
  <1>3. ASSUME MeantFrom(ps, path, pi, si)
        PROVE  \E next \in 1..Q + 1 :
                  Takes(ps, path, pi, si, next) /\ MeantFrom(ps, path, pi + 1, next)
    <2>1. PICK cut \in [pi..P + 1 -> 0..Q] :
             /\ cut[pi] = si - 1 /\ cut[P + 1] = Q
             /\ \A i \in pi..P : PartFits(cut, ps, path, i)
      BY <1>2, <1>3, Zenon
    <2> DEFINE next == cut[pi + 1] + 1
               tail == [i \in pi + 1..P + 1 |-> cut[i]]
    <2>2. pi \in pi..P /\ pi + 1 \in pi..P + 1 /\ pi \in pi..P + 1
      BY <1>1
    <2>3. cut[pi + 1] \in 0..Q /\ next \in 1..Q + 1 /\ next - 1 = cut[pi + 1]
      BY <1>1, <2>2
    <2>4. Takes(ps, path, pi, si, next)
      <3>1. PartFits(cut, ps, path, pi)
        BY <2>1, <2>2, Zenon
      <3>2. CASE ps[pi] = <<DoubleStar>>
        <4>1. cut[pi] <= cut[pi + 1]
          BY <3>1, <3>2, Zenon DEF PartFits
        <4>2. si <= next
          BY <1>1, <2>1, <2>3, <4>1
        <4> QED
          BY <3>2, <4>2, Zenon DEF Takes
      <3>3. CASE ps[pi] # <<DoubleStar>>
        <4>1. cut[pi + 1] = cut[pi] + 1 /\ MeantName(ps[pi], path[cut[pi] + 1])
          BY <3>1, <3>3, Zenon DEF PartFits
        <4>2. cut[pi] + 1 = si /\ next = si + 1
          BY <1>1, <2>1, <2>3, <4>1
        <4> QED
          BY <3>3, <4>1, <4>2, Zenon DEF Takes
      <3> QED
        BY <3>2, <3>3
    <2>5. tail \in [pi + 1..P + 1 -> 0..Q]
      BY <1>1
    <2>6. \A i \in pi + 1..P + 1 : tail[i] = cut[i]
      OBVIOUS
    <2> HIDE DEF tail, next
    <2>7. ASSUME NEW i \in pi + 1..P PROVE PartFits(tail, ps, path, i)
      <3>1. i \in pi..P /\ i \in pi + 1..P + 1 /\ i + 1 \in pi + 1..P + 1
        BY <1>1
      <3>2. PartFits(cut, ps, path, i) /\ tail[i] = cut[i] /\ tail[i + 1] = cut[i + 1]
        BY <2>1, <2>6, <3>1, Zenon
      <3> QED
        BY <3>2, Zenon DEF PartFits
    <2>8. pi + 1 \in pi + 1..P + 1 /\ P + 1 \in pi + 1..P + 1
      BY <1>1
    <2>9. tail[pi + 1] = next - 1 /\ tail[P + 1] = Q
      BY <2>1, <2>3, <2>6, <2>8, Zenon
    <2>10. MeantFrom(ps, path, pi + 1, next)
      BY <1>2, <2>5, <2>7, <2>9, Zenon
    <2> QED
      BY <2>3, <2>4, <2>10, Zenon
  <1>4. ASSUME NEW next \in 1..Q + 1, Takes(ps, path, pi, si, next),
               MeantFrom(ps, path, pi + 1, next)
        PROVE  MeantFrom(ps, path, pi, si)
    <2>1. PICK tail \in [pi + 1..P + 1 -> 0..Q] :
             /\ tail[pi + 1] = next - 1 /\ tail[P + 1] = Q
             /\ \A i \in pi + 1..P : PartFits(tail, ps, path, i)
      BY <1>2, <1>4, Zenon
    <2> DEFINE cut == [i \in pi..P + 1 |-> IF i = pi THEN si - 1 ELSE tail[i]]
    <2>2. cut \in [pi..P + 1 -> 0..Q]
      BY <1>1
    <2>3. cut[pi] = si - 1
      BY <1>1
    <2>4. \A i \in pi + 1..P + 1 : cut[i] = tail[i]
      BY <1>1
    <2> HIDE DEF cut
    <2>5. pi + 1 \in pi + 1..P + 1 /\ P + 1 \in pi + 1..P + 1
      BY <1>1
    <2>6. cut[pi + 1] = next - 1 /\ cut[P + 1] = Q
      BY <2>1, <2>4, <2>5, Zenon
    <2>7. PartFits(cut, ps, path, pi)
      <3>1. CASE ps[pi] = <<DoubleStar>>
        <4>1. si <= next
          BY <1>4, <3>1, Zenon DEF Takes
        <4>2. cut[pi] <= cut[pi + 1]
          BY <1>1, <2>3, <2>6, <4>1
        <4> QED
          BY <3>1, <4>2, Zenon DEF PartFits
      <3>2. CASE ps[pi] # <<DoubleStar>>
        <4>1. next = si + 1 /\ MeantName(ps[pi], path[si])
          BY <1>4, <3>2, Zenon DEF Takes
        <4>2. cut[pi] + 1 = si /\ cut[pi + 1] = cut[pi] + 1
          BY <1>1, <2>3, <2>6, <4>1
        <4> QED
          BY <3>2, <4>1, <4>2, Zenon DEF PartFits
      <3> QED
        BY <3>1, <3>2
    <2>8. ASSUME NEW i \in pi..P PROVE PartFits(cut, ps, path, i)
      <3>1. CASE i = pi
        BY <2>7, <3>1, Zenon
      <3>2. CASE i # pi
        <4>1. i \in pi + 1..P /\ i \in pi + 1..P + 1 /\ i + 1 \in pi + 1..P + 1
          BY <1>1, <3>2
        <4>2. PartFits(tail, ps, path, i) /\ cut[i] = tail[i] /\ cut[i + 1] = tail[i + 1]
          BY <2>1, <2>4, <4>1, Zenon
        <4> QED
          BY <4>2, Zenon DEF PartFits
      <3> QED
        BY <3>1, <3>2
    <2> QED
      BY <1>2, <2>2, <2>3, <2>6, <2>8, Zenon
  <1> QED
    BY <1>3, <1>4, Zenon DEF Q

\* An answer that is true.
Right(r, ps, path, pi, si) ==
    /\ r \in Outcomes
    /\ r = "yes" => MeantFrom(ps, path, pi, si)
    /\ r = "no" => ~ MeantFrom(ps, path, pi, si)
    /\ r = "hang" => \E i \in DOMAIN ps : ps[i] # <<Star>> /\ Starred(ps[i])

\* An answer built on true ones is true.
LEMMA CellRight ==
  ASSUME NEW ps \in Seq(Segments), NEW path \in Seq(Segments),
         NEW pi \in 1..Len(ps), NEW si \in 1..Len(path) + 1, NEW below,
         \A x \in 1..Len(path) + 1 : Right(below[x], ps, path, pi + 1, x)
  PROVE  Right(Cell(below, ps, path, pi, si), ps, path, pi, si)
  <1> DEFINE P == Len(ps)  Q == Len(path)
             r == Cell(below, ps, path, pi, si)
  <1>1. P \in Nat /\ Q \in Nat /\ pi \in 1..P /\ si \in 1..Q + 1 /\ DOMAIN ps = 1..P
        /\ ps[pi] \in Segments
    BY LenProperties, ElementOfSeq
  <1>2. "yes" \in Outcomes /\ "no" \in Outcomes /\ "yes" # "no" /\ "yes" # "hang" /\ "no" # "hang"
    BY DEF Outcomes
  <1>3. CASE ps[pi] = <<DoubleStar>> /\ pi = P
    <2>1. r = "yes"
      BY <1>3, Zenon DEF Cell
    <2>2. Q + 1 \in 1..Q + 1 /\ si <= Q + 1 /\ Q + 1 > Q
      BY <1>1
    <2>3. MeantFrom(ps, path, P + 1, Q + 1)
      BY <2>2, MeantEnd, Zenon
    <2>4. Takes(ps, path, pi, si, Q + 1)
      BY <1>3, <2>2, Zenon DEF Takes
    <2>5. MeantFrom(ps, path, pi, si)
      BY <1>3, <2>2, <2>3, <2>4, MeantNext, Zenon
    <2> QED
      BY <1>2, <2>1, <2>5, Zenon DEF Right
  <1>4. CASE ps[pi] = <<DoubleStar>> /\ pi # P
    <2> DEFINE tries == {next \in From(ps, path, si) : below[next] # "no"}
               try == CHOOSE next \in tries : \A t \in tries : next <= t
    <2>1. r = IF tries = {} THEN "no" ELSE below[try]
      BY <1>4, Zenon DEF Cell
    <2>2. From(ps, path, si) = si..Q + 1
      BY DEF From
    <2>3. CASE tries = {}
      <3>1. ASSUME NEW next \in 1..Q + 1, si <= next PROVE ~ MeantFrom(ps, path, pi + 1, next)
        <4>1. next \in From(ps, path, si)
          BY <1>1, <2>2, <3>1
        <4>2. below[next] = "no"
          BY <2>3, <4>1, Zenon
        <4> QED
          BY <4>2, Zenon DEF Right
      <3>2. ~ MeantFrom(ps, path, pi, si)
        BY <1>4, <3>1, MeantNext, Zenon DEF Takes
      <3> QED
        BY <1>2, <2>1, <2>3, <3>2, Zenon DEF Right
    <2>4. CASE tries # {}
      <3>1. Q + 1 \in Nat /\ tries \subseteq 1..Q + 1 /\ \A t \in tries : si <= t
        BY <1>1, <2>2
      <3>2. \A t \in tries : below[t] # "no"
        BY Zenon
      <3> HIDE DEF tries
      <3>3. try \in tries
        BY <2>4, <3>1, FirstTry, Zenon
      <3> HIDE DEF try
      <3>4. try \in 1..Q + 1 /\ si <= try
        BY <3>1, <3>3
      <3>5. r = below[try] /\ r # "no" /\ Right(r, ps, path, pi + 1, try)
        BY <2>1, <2>4, <3>2, <3>3, <3>4, Zenon
      <3>6. MeantFrom(ps, path, pi + 1, try) => MeantFrom(ps, path, pi, si)
        <4>1. Takes(ps, path, pi, si, try)
          BY <1>4, <3>4, Zenon DEF Takes
        <4> QED
          BY <3>4, <4>1, MeantNext, Zenon
      <3> HIDE DEF r
      <3>7. Right(r, ps, path, pi, si)
        BY <3>5, <3>6, Zenon DEF Right
      <3> QED
        BY <3>7, Zenon DEF r
    <2> QED
      BY <2>3, <2>4
  <1>5. CASE ps[pi] # <<DoubleStar>> /\ si > Q
    <2>1. r = "no"
      BY <1>5, Zenon DEF Cell
    <2>2. ASSUME NEW next \in 1..Q + 1 PROVE next # si + 1
      BY <1>1, <1>5
    <2>3. \A next \in 1..Q + 1 : ~ Takes(ps, path, pi, si, next)
      BY <1>5, <2>2, Zenon DEF Takes
    <2>4. ~ MeantFrom(ps, path, pi, si)
      BY <2>3, MeantNext, Zenon
    <2> QED
      BY <1>2, <2>1, <2>4, Zenon DEF Right
  <1>6. CASE ps[pi] # <<DoubleStar>> /\ ~ (si > Q)
    <2> DEFINE single == SingleMatch(ps[pi], path[si])
    <2>1. r = IF single = "yes" THEN below[si + 1] ELSE single
      BY <1>6, Zenon DEF Cell
    <2>2. si \in 1..Q /\ si + 1 \in 1..Q + 1
      BY <1>1, <1>6
    <2>3. path[si] \in Segments
      BY <2>2, ElementOfSeq
    <2>4. /\ single \in Outcomes
          /\ single = "yes" => MeantName(ps[pi], path[si])
          /\ single = "no" => ~ MeantName(ps[pi], path[si])
          /\ single = "hang" => ps[pi] # <<Star>> /\ Starred(ps[pi])
      BY <1>1, <2>3, SingleMatchMeans, Zenon DEF Segments
    <2> HIDE DEF single, r
    <2>5. MeantFrom(ps, path, pi, si) <=>
            MeantName(ps[pi], path[si]) /\ MeantFrom(ps, path, pi + 1, si + 1)
      <3>1. \A next : Takes(ps, path, pi, si, next) <=>
                         next = si + 1 /\ MeantName(ps[pi], path[si])
        BY <1>6, Zenon DEF Takes
      <3>2. MeantFrom(ps, path, pi, si) <=>
              \E next \in 1..Q + 1 :
                 Takes(ps, path, pi, si, next) /\ MeantFrom(ps, path, pi + 1, next)
        BY MeantNext, Zenon
      <3> QED
        BY <2>2, <3>1, <3>2, Zenon
    <2>6. Right(below[si + 1], ps, path, pi + 1, si + 1)
      BY <2>2, Zenon
    <2>7. Right(r, ps, path, pi, si)
      <3>1. CASE single = "yes"
        <4>1. r = below[si + 1]
          BY <2>1, <3>1, Zenon
        <4> QED
          BY <2>4, <2>5, <2>6, <3>1, <4>1, Zenon DEF Right
      <3>2. CASE single # "yes"
        <4>1. r = single
          BY <2>1, <3>2, Zenon
        <4> QED
          BY <1>1, <2>4, <2>5, <3>2, <4>1, Zenon DEF Right
      <3> QED
        BY <3>1, <3>2
    <2> QED
      BY <2>7, Zenon DEF r
  <1> QED
    BY <1>3, <1>4, <1>5, <1>6

\* What match_segments answers is true.
LEMMA MatchRight ==
  ASSUME NEW ps \in Seq(Segments), NEW path \in Seq(Segments)
  PROVE  Right(MatchSegments(ps, path), ps, path, 1, 1)
  <1> DEFINE P == Len(ps)
             X == 1..Len(path) + 1
             M == CHOOSE f : Matches(f, ps, path)
  <1>1. P \in Nat /\ Len(path) \in Nat /\ P + 1 \in Nat
    BY LenProperties
  <1>2. Matches(M, ps, path)
    BY MatchesExist, Zenon
  <1>3. MatchSegments(ps, path) = M[1][1]
    BY Zenon DEF MatchSegments, Matches, Cell
  <1> HIDE DEF M
  <1>4. \A pi \in 1..P + 1, si \in X :
           M[pi][si] = IF pi > P THEN Answer(si > Len(path)) ELSE Cell(M[pi + 1], ps, path, pi, si)
    <2> SUFFICES ASSUME NEW pi \in 1..P + 1, NEW si \in X
                 PROVE  M[pi][si] = IF pi > P THEN Answer(si > Len(path))
                                    ELSE Cell(M[pi + 1], ps, path, pi, si)
      OBVIOUS
    <2>1. M[pi] = [s \in X |-> IF pi > P THEN Answer(s > Len(path))
                               ELSE Cell(M[pi + 1], ps, path, pi, s)]
      BY <1>2, Zenon DEF Matches
    <2> QED
      BY <2>1, Zenon
  <1> DEFINE Row(pi) == \A si \in X : Right(M[pi][si], ps, path, pi, si)
             Good(pi) == pi = 0 \/ Row(pi)
             T == {pi \in 0..P + 1 : Good(pi)}
  <1>5. Row(P + 1)
    <2> SUFFICES ASSUME NEW si \in X PROVE Right(M[P + 1][si], ps, path, P + 1, si)
      OBVIOUS
    <2>1. P + 1 \in 1..P + 1 /\ P + 1 > P
      BY <1>1
    <2>2. M[P + 1][si] = Answer(si > Len(path))
      BY <1>4, <2>1, Zenon
    <2>3. MeantFrom(ps, path, P + 1, si) <=> si > Len(path)
      BY MeantEnd
    <2> DEFINE r == M[P + 1][si]
    <2> HIDE DEF r
    <2>4. r = IF si > Len(path) THEN "yes" ELSE "no"
      BY <2>2, Zenon DEF Answer, r
    <2>5. Right(r, ps, path, P + 1, si)
      <3>1. CASE si > Len(path)
        <4>1. r = "yes" /\ r # "no" /\ r # "hang" /\ r \in Outcomes
          BY <2>4, <3>1 DEF Outcomes
        <4> QED
          BY <2>3, <3>1, <4>1, Zenon DEF Right
      <3>2. CASE ~ (si > Len(path))
        <4>1. r = "no" /\ r # "yes" /\ r # "hang" /\ r \in Outcomes
          BY <2>4, <3>2 DEF Outcomes
        <4> QED
          BY <2>3, <3>2, <4>1, Zenon DEF Right
      <3> QED
        BY <3>1, <3>2
    <2> QED
      BY <2>5, Zenon DEF r
  <1>6. P + 1 \in T
    <2>1. Good(P + 1)
      BY <1>5, Zenon
    <2> HIDE DEF Good
    <2> QED
      BY <1>1, <2>1
  <1>7. ASSUME NEW pi \in 0..P + 1, pi # P + 1, \A j \in 0..P + 1 : pi < j => j \in T
        PROVE  pi \in T
    <2>1. CASE pi = 0
      BY <2>1
    <2>2. CASE pi # 0
      <3>1. /\ pi \in 1..P /\ pi \in 1..P + 1 /\ ~ (pi > P) /\ pi + 1 \in 0..P + 1 /\ pi < pi + 1
            /\ pi + 1 # 0
        BY <1>1, <1>7, <2>2
      <3>2. pi + 1 \in T
        BY <1>7, <3>1, Zenon
      <3> HIDE DEF Row
      <3>3. Row(pi + 1)
        BY <3>1, <3>2
      <3>4. ASSUME NEW si \in X PROVE Right(M[pi][si], ps, path, pi, si)
        <4>1. Right(Cell(M[pi + 1], ps, path, pi, si), ps, path, pi, si)
          BY <3>1, <3>3, CellRight, Zenon DEF Row
        <4> QED
          BY <1>4, <3>1, <4>1, Zenon
      <3>5. Row(pi)
        BY <3>4, Zenon DEF Row
      <3> QED
        BY <3>5
    <2> QED
      BY <2>1, <2>2
  <1> HIDE DEF T
  <1>8. 0..P + 1 \subseteq T
    BY <1>1, <1>6, <1>7, Descend
  <1>9. 1 \in T /\ 1 \in X
    BY <1>1, <1>8
  <1>10. Row(1)
    <2> HIDE DEF Row
    <2> QED
      BY <1>9 DEF T
  <1> QED
    BY <1>3, <1>9, <1>10, Zenon

-----------------------------------------------------------------------------
(* What a file is left out for *)

\* A path of names is one of segments.
LEMMA NamesAreSegments ==
  ASSUME NEW path \in Seq(Seq(STRING))
  PROVE  path \in Seq(Segments)
  <1>1. STRING \subseteq Chars
    BY DEF Chars
  <1>2. Seq(STRING) \subseteq Segments
    BY <1>1, SeqMonotonic DEF Segments
  <1> QED
    BY <1>2, SeqMonotonic

\* A function on the first so many places is a sequence.
LEMMA FunctionIsSeq ==
  ASSUME NEW S, NEW m \in Nat, NEW f \in [1..m -> S]
  PROVE  f \in Seq(S)
  <1>1. [1..m -> S] \in {[1..k -> S] : k \in Nat}
    BY Zenon
  <1>2. f \in UNION {[1..k -> S] : k \in Nat}
    BY <1>1, Zenon
  <1> QED
    BY <1>2, SeqDef, Zenon

\* What a pattern answers for a path is true, and only a wildcard among the characters of
\* a segment holds the matcher in its loop.
LEMMA GlobRight ==
  ASSUME NEW pattern \in Seq(Seq(STRING)), NEW path \in Seq(Seq(STRING))
  PROVE  /\ GlobMatch(pattern, path) \in Outcomes
         /\ GlobMatch(pattern, path) = "yes" => MeantPath(pattern, path)
         /\ GlobMatch(pattern, path) = "no" => ~ MeantPath(pattern, path)
         /\ GlobMatch(pattern, path) = "hang" => HasWildcard(pattern)
  <1> DEFINE ps == [i \in DOMAIN pattern |-> Expand(pattern[i])]
             n == Len(pattern)
  <1>1. n \in Nat /\ DOMAIN pattern = 1..n
    BY LenProperties
  <1>2. pattern \in Seq(Segments)
    BY NamesAreSegments
  <1>3. ASSUME NEW i \in 1..n PROVE Expand(pattern[i]) \in Segments
    <2>1. pattern[i] \in Segments
      BY <1>2, <1>3, ElementOfSeq
    <2> QED
      BY <2>1, ExpandType, Zenon DEF Segments
  <1>4. ps \in Seq(Segments)
    <2>1. ps \in [1..n -> Segments]
      BY <1>1, <1>3, Zenon
    <2> HIDE DEF ps, n
    <2> QED
      BY <1>1, <2>1, FunctionIsSeq, Zenon
  <1>5. DOMAIN ps = DOMAIN pattern /\ Len(ps) = n
    <2>1. DOMAIN ps = DOMAIN pattern
      OBVIOUS
    <2> HIDE DEF ps
    <2>2. DOMAIN ps = 1..Len(ps) /\ Len(ps) \in Nat
      BY <1>4, LenProperties
    <2> QED
      BY <1>1, <2>1, <2>2
  <1>6. path \in Seq(Segments)
    BY NamesAreSegments
  <1>7. GlobMatch(pattern, path) = MatchSegments(ps, path)
    BY Zenon DEF GlobMatch
  <1>8. HasWildcard(pattern) <=> \E i \in DOMAIN ps : ps[i] # <<Star>> /\ Starred(ps[i])
    BY Zenon DEF HasWildcard, Starred
  <1>9. MeantPath(pattern, path) <=>
          \E cut \in [1..Len(ps) + 1 -> 0..Len(path)] :
             /\ cut[1] = 0 /\ cut[Len(ps) + 1] = Len(path)
             /\ \A i \in DOMAIN ps : PartFits(cut, ps, path, i)
    BY Zenon DEF MeantPath, Covers, PartFits
  <1> HIDE DEF ps
  <1>10. MeantPath(pattern, path) <=> MeantFrom(ps, path, 1, 1)
    <2>1. DOMAIN ps = 1..Len(ps) /\ 1 - 1 = 0
      BY <1>1, <1>5
    <2> QED
      BY <1>9, <2>1, Zenon DEF MeantFrom
  <1>11. Right(MatchSegments(ps, path), ps, path, 1, 1)
    BY <1>4, <1>6, MatchRight, Zenon
  <1> QED
    BY <1>7, <1>8, <1>10, <1>11, Zenon DEF Right

\* So is what the patterns of a configuration answer together.
LEMMA ExcludedRight ==
  ASSUME NEW patterns \in Seq(Seq(Seq(STRING))), NEW path \in Seq(Seq(STRING))
  PROVE  /\ IsExcluded(patterns, path) = "yes" =>
               \E i \in DOMAIN patterns : MeantPath(patterns[i], path)
         /\ IsExcluded(patterns, path) \notin {"yes", "hang"} =>
               ~ \E i \in DOMAIN patterns : MeantPath(patterns[i], path)
         /\ IsExcluded(patterns, path) = "hang" =>
               \E i \in DOMAIN patterns : HasWildcard(patterns[i])
  <1> DEFINE tries == {i \in DOMAIN patterns : GlobMatch(patterns[i], path) # "no"}
             try == CHOOSE i \in tries : \A j \in tries : i <= j
             r == IsExcluded(patterns, path)
  <1>1. Len(patterns) \in Nat /\ DOMAIN patterns = 1..Len(patterns)
    BY LenProperties
  <1>2. ASSUME NEW i \in DOMAIN patterns
        PROVE  /\ GlobMatch(patterns[i], path) \in Outcomes
               /\ GlobMatch(patterns[i], path) = "yes" => MeantPath(patterns[i], path)
               /\ GlobMatch(patterns[i], path) = "no" => ~ MeantPath(patterns[i], path)
               /\ GlobMatch(patterns[i], path) = "hang" => HasWildcard(patterns[i])
    <2>1. patterns[i] \in Seq(Seq(STRING))
      BY <1>1, <1>2, ElementOfSeq
    <2> QED
      BY <2>1, GlobRight, Zenon
  <1>3. r = IF tries = {} THEN "no" ELSE GlobMatch(patterns[try], path)
    BY Zenon DEF IsExcluded
  <1>4. CASE tries = {}
    <2>1. \A i \in DOMAIN patterns : GlobMatch(patterns[i], path) = "no"
      BY <1>4, Zenon
    <2>2. \A i \in DOMAIN patterns : ~ MeantPath(patterns[i], path)
      BY <1>2, <2>1, Zenon
    <2>3. r = "no" /\ "no" # "yes" /\ "no" # "hang"
      BY <1>3, <1>4, Zenon
    <2> QED
      BY <2>2, <2>3, Zenon
  <1>5. CASE tries # {}
    <2>1. tries \subseteq 1..Len(patterns)
      BY <1>1
    <2>2. \A i \in tries : i \in DOMAIN patterns /\ GlobMatch(patterns[i], path) # "no"
      BY Zenon
    <2> HIDE DEF tries
    <2>3. try \in tries
      BY <1>1, <1>5, <2>1, FirstTry, Zenon
    <2> HIDE DEF try
    <2>4. try \in DOMAIN patterns /\ r = GlobMatch(patterns[try], path) /\ r # "no"
      BY <1>3, <1>5, <2>2, <2>3, Zenon
    <2> HIDE DEF r
    <2>5. r \in {"yes", "hang"}
      <3>1. r \in Outcomes
        BY <1>2, <2>4, Zenon
      <3> QED
        BY <2>4, <3>1 DEF Outcomes
    <2>6. /\ r = "yes" => \E i \in DOMAIN patterns : MeantPath(patterns[i], path)
          /\ r = "hang" => \E i \in DOMAIN patterns : HasWildcard(patterns[i])
      BY <1>2, <2>4, Zenon
    <2> QED
      BY <2>5, <2>6, Zenon DEF r
  <1> QED
    BY <1>4, <1>5

\* What the scanner found is what the patterns answered.
AsAnswered ==
    /\ file \in Inputs
    /\ pc = "excluded" => file \in Excluded
    /\ pc = "hang" => file \in Stuck
    /\ pc \notin {"exclude", "excluded", "hang"} => file \notin Excluded /\ file \notin Stuck

\* It is asked once.
LEMMA AnsweredOnce ==
  /\ Init => AsAnswered
  /\ AsAnswered /\ [Next]_vars => AsAnswered'
  <1>1. Init => AsAnswered
    BY DEF Init, AsAnswered
  <1>2. ASSUME AsAnswered, [Next]_vars PROVE AsAnswered'
    <2>1. ASSUME UNCHANGED <<file, pc>> PROVE AsAnswered'
      BY <1>2, <2>1 DEF AsAnswered, Excluded, Stuck
    <2>2. CASE Exclude
      <3>1. file' = file /\ file \in Inputs
        BY <1>2, <2>2 DEF Exclude, AsAnswered
      <3>2. Excluded' = Excluded /\ Stuck' = Stuck
        BY DEF Excluded, Stuck
      <3>3. pc' = IF file \in Excluded THEN "excluded" ELSE IF file \in Stuck THEN "hang"
                  ELSE "read"
        BY <2>2 DEF Exclude
      <3> QED
        BY <3>1, <3>2, <3>3 DEF AsAnswered
    <2>3. CASE ReadFails \/ Cut
      <3>1. pc = "read" /\ pc' \in {"failed", "read", "done"} /\ file' = file
        BY <2>3 DEF ReadFails, Cut
      <3>2. Excluded' = Excluded /\ Stuck' = Stuck
        BY DEF Excluded, Stuck
      <3> QED
        BY <1>2, <3>1, <3>2 DEF AsAnswered
    <2>4. ASSUME NEW n \in 0..ReadSize, Fill(n) PROVE AsAnswered'
      BY <2>1, <2>4 DEF Fill
    <2>5. CASE UNCHANGED vars
      BY <2>1, <2>5 DEF vars
    <2> QED
      BY <1>2, <2>2, <2>3, <2>4, <2>5 DEF Next
  <1> QED
    BY <1>1, <1>2

\* And it is what the patterns mean.
LEMMA AnsweredMeant == AsAnswered => ExcludedAsMeant
  <1> SUFFICES ASSUME AsAnswered PROVE ExcludedAsMeant
    OBVIOUS
  <1> DEFINE r == IsExcluded(file.patterns, file.path)
  <1>1. /\ file \in Inputs /\ file.patterns \in Seq(Seq(Seq(STRING)))
        /\ file.path \in Seq(Seq(STRING))
    BY IntakeAssumption DEF AsAnswered
  <1>2. /\ r = "yes" => \E i \in DOMAIN file.patterns : MeantPath(file.patterns[i], file.path)
        /\ r \notin {"yes", "hang"} =>
              ~ \E i \in DOMAIN file.patterns : MeantPath(file.patterns[i], file.path)
        /\ r = "hang" => \E i \in DOMAIN file.patterns : HasWildcard(file.patterns[i])
    BY <1>1, ExcludedRight, Zenon
  <1>3. (file \in Excluded <=> r = "yes") /\ (file \in Stuck <=> r = "hang")
    BY <1>1, Zenon DEF Excluded, Stuck
  <1> HIDE DEF r
  <1>4. /\ pc = "excluded" => r = "yes"
        /\ pc = "hang" => r = "hang"
        /\ pc \notin {"exclude", "excluded", "hang"} => r \notin {"yes", "hang"}
    BY <1>3 DEF AsAnswered
  <1> QED
    BY <1>2, <1>4, Zenon DEF ExcludedAsMeant

\* For patterns, segments and paths of any length: a file is left out exactly when one of
\* the patterns means it, and the matcher is caught in its loop only by a wildcard among
\* the characters of a name.
THEOREM ExclusionsMeant == Spec => []ExcludedAsMeant
  BY AnsweredOnce, AnsweredMeant, PTL DEF Spec

-----------------------------------------------------------------------------
(* The way through a file is finite *)

\* What is still to be done about the file: a byte counts twice until it is read, once
\* until it is cut.
Ahead == IF pc = "exclude" THEN 2 ELSE IF pc = "read" THEN 1 ELSE 0
Unseen == IF eof THEN 0 ELSE 1
Effort == 2 * Len(rest) + Len(buf) + Unseen + Ahead

\* The guards of the steps: unless the file has ended, or the matcher is caught in its
\* loop, the scanner asks, a read returns, or a chunk is cut.
GoesOn ==
    \/ pc \in Ended
    \/ pc = "hang" /\ \E i \in DOMAIN file.patterns : HasWildcard(file.patterns[i])
    \/ pc = "exclude"
    \/ /\ pc = "read" /\ Wanting
       /\ \E n \in 0..ReadSize : n \in 0..Least(ReadSize, Len(rest)) /\ (n = 0 <=> rest = << >>)
    \/ pc = "read" /\ ~ Wanting

\* Every step takes something away from what is to be done.
LEMMA EffortFalls ==
  ASSUME IntakeInv, IntakeInv', Next
  PROVE  Effort' < Effort
  <1> DEFINE r == Len(rest)
             b == Len(buf)
  <1>1. /\ rest \in Seq(Nat) /\ buf \in Seq(Nat) /\ r \in Nat /\ b \in Nat
        /\ r' \in Nat /\ b' \in Nat
    BY LenProperties DEF IntakeInv, IntakeType
  <1>u. Unseen \in Nat /\ Ahead \in Nat /\ Unseen' \in Nat /\ Ahead' \in Nat
    BY DEF Unseen, Ahead
  <1>n. PICK r0 \in Nat, b0 \in Nat, u0 \in Nat, a0 \in Nat :
           r = r0 /\ b = b0 /\ Unseen = u0 /\ Ahead = a0
    BY <1>1, <1>u, Zenon
  <1>m. PICK r1 \in Nat, b1 \in Nat, u1 \in Nat, a1 \in Nat :
           r' = r1 /\ b' = b1 /\ Unseen' = u1 /\ Ahead' = a1
    BY <1>1, <1>u, Zenon
  <1>e. Effort = 2 * r0 + b0 + u0 + a0 /\ Effort' = 2 * r1 + b1 + u1 + a1
    BY <1>n, <1>m, Zenon DEF Effort
  <1>s. SUFFICES 2 * r1 + b1 + u1 + a1 < 2 * r0 + b0 + u0 + a0
    BY <1>e, Zenon
  <1>2. CASE Exclude
    <2>1. /\ r' = r /\ b' = b /\ eof' = eof
          /\ pc = "exclude" /\ pc' \in {"excluded", "hang", "read"}
      BY <1>2 DEF Exclude
    <2>2. Unseen' = Unseen /\ Ahead' < Ahead
      BY <2>1 DEF Unseen, Ahead
    <2>3. r1 = r0 /\ b1 = b0 /\ u1 = u0 /\ a1 < a0
      BY <1>n, <1>m, <2>1, <2>2, Zenon
    <2> QED
      BY <2>3
  <1>3. CASE ReadFails
    <2>1. r' = r /\ b' = b /\ eof' = eof /\ pc = "read" /\ pc' = "failed"
      BY <1>3 DEF ReadFails
    <2>2. Unseen' = Unseen /\ Ahead' < Ahead
      BY <2>1 DEF Unseen, Ahead
    <2>3. r1 = r0 /\ b1 = b0 /\ u1 = u0 /\ a1 < a0
      BY <1>n, <1>m, <2>1, <2>2, Zenon
    <2> QED
      BY <2>3
  <1>4. ASSUME NEW n \in 0..ReadSize, Fill(n) PROVE 2 * r1 + b1 + u1 + a1 < 2 * r0 + b0 + u0 + a0
    <2>1. /\ pc = "read" /\ pc' = "read" /\ ~ eof /\ eof' = (n = 0)
          /\ n \in 0..Least(ReadSize, r)
          /\ buf' = buf \o SubSeq(rest, 1, n) /\ rest' = SubSeq(rest, n + 1, Len(rest))
      BY <1>4 DEF Fill, Wanting
    <2>0. n \in Nat /\ n <= r
      <3>1. ReadSize \in Nat
        BY IntakeAssumption
      <3> HIDE DEF r
      <3> QED
        BY <1>1, <2>1, <3>1 DEF Least
    <2>2. r' = r - n
      <3>1. n \in 0..Len(rest)
        BY <1>1, <2>0
      <3> QED
        BY <1>1, <2>1, <3>1, WithoutFirst
    <2>3. b' = b + n
      <3> DEFINE got == SubSeq(rest, 0 + 1, 0 + n)
      <3>1. 0 \in Nat /\ 0 + n <= Len(rest) /\ 0 + 1 = 1 /\ 0 + n = n
        BY <1>1, <2>0
      <3>2. got \in Seq(Nat) /\ Len(got) = n
        BY <1>1, <2>0, <3>1, Segment
      <3>3. buf' = buf \o got
        BY <2>1, <3>1, Zenon
      <3> HIDE DEF got
      <3>4. Len(buf \o got) = Len(buf) + Len(got)
        BY <1>1, <3>2, ConcatProperties
      <3> QED
        BY <3>2, <3>3, <3>4
    <2>4. Unseen = 1 /\ Unseen' = (IF n = 0 THEN 0 ELSE 1) /\ Ahead' = Ahead
      BY <2>1 DEF Unseen, Ahead
    <2>5. r1 = r0 - n /\ b1 = b0 + n /\ u0 = 1 /\ u1 = (IF n = 0 THEN 0 ELSE 1) /\ a1 = a0
      BY <1>n, <1>m, <2>2, <2>3, <2>4, Zenon
    <2> QED
      BY <2>0, <2>5
  <1>5. CASE Cut
    <2> DEFINE size == ChunkSize(buf)
    <2>1. /\ r' = r /\ eof' = eof /\ pc = "read" /\ ~ Wanting
          /\ buf' = SubSeq(buf, size + 1, Len(buf))
          /\ pc' = IF buf' = << >> /\ eof THEN "done" ELSE "read"
      BY <1>5 DEF Cut
    <2>2. Unseen' = Unseen /\ Ahead' <= Ahead /\ (pc' = "done" => Ahead' < Ahead)
      BY <2>1 DEF Unseen, Ahead
    <2>4. CASE buf # << >>
      <3>1. size \in 1..Len(buf)
        BY <1>1, <2>4, ChunkSizeBounds
      <3> HIDE DEF size
      <3>2. b' = b - size
        <4>1. size \in 0..Len(buf)
          BY <1>1, <3>1
        <4> QED
          BY <1>1, <2>1, <4>1, WithoutFirst
      <3>3. size \in Nat /\ size >= 1
        BY <3>1
      <3>4. r1 = r0 /\ b1 = b0 - size /\ u1 = u0 /\ a1 <= a0
        BY <1>n, <1>m, <2>1, <2>2, <3>2, Zenon
      <3> QED
        BY <3>3, <3>4
    <2>5. CASE buf = << >>
      <3>1. b = 0 /\ eof
        BY <2>1, <2>5, ChunkAssumption DEF Wanting
      <3>2. buf' = << >>
        <4>1. 0 \in Nat /\ size = 0
          BY <2>5, ChunkAssumption DEF ChunkSize
        <4> HIDE DEF size
        <4> QED
          BY <2>1, <2>5, <4>1
      <3>3. b' = 0 /\ pc' = "done"
        BY <2>1, <3>1, <3>2
      <3>4. r1 = r0 /\ b1 = 0 /\ b0 = 0 /\ u1 = u0 /\ a1 < a0
        BY <1>n, <1>m, <2>1, <2>2, <3>1, <3>3, Zenon
      <3> QED
        BY <3>4
    <2> QED
      BY <2>4, <2>5
  <1> QED
    BY <1>2, <1>3, <1>4, <1>5 DEF Next

Phase == pc \in Ended \cup {"hang", "exclude", "read"}

\* There is always a step to take.
LEMMA AlwaysGoesOn ==
  ASSUME IntakeInv, AsAnswered, Phase
  PROVE  GoesOn /\ Effort \in Nat
  <1>1. /\ Len(rest) \in Nat /\ Len(buf) \in Nat
    BY LenProperties DEF IntakeInv, IntakeType
  <1>2. Effort \in Nat
    BY <1>1 DEF Effort, Unseen, Ahead
  <1>3. pc \in Ended \cup {"hang", "exclude", "read"}
    BY DEF Phase
  <1>4. pc = "hang" => \E i \in DOMAIN file.patterns : HasWildcard(file.patterns[i])
    BY AnsweredMeant DEF ExcludedAsMeant
  <1>5. \E n \in 0..ReadSize : n \in 0..Least(ReadSize, Len(rest)) /\ (n = 0 <=> rest = << >>)
    <2>1. ReadSize \in Nat \ {0}
      BY IntakeAssumption
    <2>2. CASE rest = << >>
      BY <1>1, <2>1, <2>2 DEF Least
    <2>3. CASE rest # << >>
      <3>1. Len(rest) # 0
        BY <2>3, EmptySeq DEF IntakeInv, IntakeType
      <3>2. 1 \in 0..ReadSize /\ 1 \in 0..Least(ReadSize, Len(rest))
        BY <1>1, <2>1, <3>1 DEF Least
      <3> QED
        BY <2>3, <3>2
    <2> QED
      BY <2>2, <2>3
  <1> QED
    BY <1>2, <1>3, <1>4, <1>5, Zenon DEF GoesOn

\* For files of any length and whatever the reads return, the way through a file has no
\* more steps than a number known when it begins, and stops nowhere but at an end or
\* where a wildcard among the characters of a name catches the matcher: what
\* EveryFileEnds needs beyond a fair scheduler.
THEOREM EveryStepNearer == Spec => []GoesOn /\ [](Effort \in Nat) /\ [][Effort' < Effort]_vars
  <1>1. IntakeInv /\ AsAnswered /\ Phase => GoesOn /\ Effort \in Nat
    BY AlwaysGoesOn
  <1>2. IntakeInv /\ IntakeInv' /\ [Next]_vars => [Effort' < Effort]_vars
    BY EffortFalls
  <1>3. Init => Phase
    BY DEF Init, Phase
  <1>4. Phase /\ [Next]_vars => Phase'
    BY DEF Phase, Ended, Next, vars, Exclude, Fill, ReadFails, Cut
  <1> QED
    BY <1>1, <1>2, <1>3, <1>4, InitIntake, IntakeStep, AnsweredOnce, PTL DEF Spec

=============================================================================
