------------------------------ MODULE Chunking ------------------------------
(***************************************************************************)
(* Content-defined chunking: sidecar/src/backup/chunker.rs.  A chunk ends  *)
(* where the hash of the last bytes has its low bits zero.                 *)
(***************************************************************************)
EXTENDS Naturals, Integers, Sequences

CONSTANTS
    MinSize, AvgSize, MaxSize,  \* 4 KB, 64 KB, 256 KB
    Window,                     \* bytes hashed (48)
    Modulus                     \* values of the hash (2^64)

ASSUME ChunkAssumption ==
    /\ MinSize \in Nat \ {0} /\ Window \in Nat \ {0}
    /\ MaxSize \in Nat /\ MinSize <= MaxSize
    /\ AvgSize \in Nat \ {0} /\ Modulus \in Nat \ {0} /\ Modulus % AvgSize = 0

Least(a, b) == IF a <= b THEN a ELSE b

\* The polynomial hash of a sequence of bytes.
Hash(bytes) ==
    LET H[i \in 0..Len(bytes)] ==
            IF i = 0 THEN 0 ELSE (H[i - 1] * 31 + bytes[i]) % Modulus
    IN  H[Len(bytes)]

Power(n) == LET P[i \in 0..n] == IF i = 0 THEN 1 ELSE (P[i - 1] * 31) % Modulus IN P[n]

Boundary(hash) == hash % AvgSize = 0  \* hash & mask = 0

\* Bug: the oldest byte leaves the hash with the weight of the newest.
Roll_Unweighted(hash, oldest, newest) == ((hash - oldest) * 31 + newest) % Modulus

\* The window moves on by a byte.
Roll(hash, oldest, newest) == ((hash - oldest * Power(Window - 1)) * 31 + newest) % Modulus

\* The hash of each window of data past the minimal size, by its last byte.
\* The first window may end past the data.
WindowHashes(data) ==
    LET first == MinSize + Window
        R[i \in first..Least(MaxSize, Len(data))] ==
            IF i = first THEN Hash(SubSeq(data, MinSize + 1, first))
            ELSE Roll(R[i - 1], data[i - Window], data[i])
    IN  R

\* Where the first chunk of data ends (find_boundary_at).  The first window is not tested.
FindBoundary(data) ==
    LET end == Least(MaxSize, Len(data))
        hash == WindowHashes(data)
        hits == {i \in MinSize + Window + 1..end : Boundary(hash[i])}
    IN  IF hits = {} THEN end ELSE CHOOSE i \in hits : \A j \in hits : i <= j

\* The length of the next chunk, of what is at hand.
ChunkSize(data) == IF Len(data) <= MinSize THEN Len(data) ELSE FindBoundary(data)

\* chunk_file: the whole file in memory.
ChunkFile(data) ==
    LET C[from \in 0..Len(data)] ==
            IF from = Len(data) THEN << >>
            ELSE LET rest == SubSeq(data, from + 1, Len(data))
                     size == ChunkSize(rest)
                 IN  <<[offset |-> from, data |-> SubSeq(rest, 1, size)]>> \o C[from + size]
    IN  C[0]

-----------------------------------------------------------------------------
(* The reference: chunks that cover the data, each as long as it must be *)

\* A window of the data whose last byte is the i-th is a cut.
IsCut(data, i) == Boundary(Hash(SubSeq(data, i - Window + 1, i)))

\* What chunks of data are to be: one after another, each ends at the first cut
\* past the minimal size and a window, at the maximal size or with the data.
AreChunksOf(chunks, data) ==
    \A c \in DOMAIN chunks :
        LET from == chunks[c].offset
            size == Len(chunks[c].data)
            last == Least(MaxSize, Len(data) - from)
        IN  /\ from = IF c = 1 THEN 0 ELSE chunks[c - 1].offset + Len(chunks[c - 1].data)
            /\ size \in 1..last
            /\ chunks[c].data = SubSeq(data, from + 1, from + size)
            /\ size < last => size > MinSize + Window /\ IsCut(data, from + size)
            /\ \A i \in MinSize + Window + 1..size - 1 : ~ IsCut(data, from + i)

=============================================================================
