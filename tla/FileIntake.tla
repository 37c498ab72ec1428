----------------------------- MODULE FileIntake -----------------------------
(***************************************************************************)
(* What becomes of one file of the world: the scanner asks the exclusion   *)
(* patterns (GlobMatch), and a backup reads the file and cuts it into      *)
(* chunks (Chunking) as the bytes come: chunk_reader in                    *)
(* sidecar/src/backup/chunker.rs, called by run_backup.  A read returns    *)
(* any number of bytes it likes.                                           *)
(***************************************************************************)
EXTENDS Chunking, GlobMatch

CONSTANTS
    Inputs,   \* files: [patterns, path, data]
    ReadSize  \* bytes a read asks for (8 KB)

ASSUME IntakeAssumption ==
    /\ ReadSize \in Nat \ {0}
    /\ \A f \in Inputs : /\ f.data \in Seq(Nat)
                         /\ f.path \in Seq(Seq(STRING))
                         /\ f.patterns \in Seq(Seq(Seq(STRING)))

VARIABLES
    file,    \* the file, and the patterns of the configuration
    pc,
    rest,    \* what is still to be read of the file
    buf,     \* what was read and not yet cut
    eof,     \* a read has returned nothing
    chunks,  \* what on_chunk was called with
    short    \* history: a chunk was cut from less than MaxSize bytes before the end

vars == <<file, pc, rest, buf, eof, chunks, short>>

Init ==
    /\ file \in Inputs
    /\ pc = "exclude"
    /\ rest = file.data
    /\ buf = << >>
    /\ eof = FALSE
    /\ chunks = << >>
    /\ short = FALSE

Ended == {"excluded", "failed", "done"}

-----------------------------------------------------------------------------

\* is_excluded reads nothing but the patterns and the path.
Excluded == {f \in Inputs : IsExcluded(f.patterns, f.path) = "yes"}
Stuck == {f \in Inputs : IsExcluded(f.patterns, f.path) = "hang"}

\* The scanner, for each file it walks over.
Exclude ==
    /\ pc = "exclude"
    /\ pc' = IF file \in Excluded THEN "excluded" ELSE IF file \in Stuck THEN "hang" ELSE "read"
    /\ UNCHANGED <<file, rest, buf, eof, chunks, short>>

\* The buffer is filled to the minimal size, not to the maximal one.
Wanting == Len(buf) < MinSize /\ ~ eof

\* Bug: a read that returns nothing is taken for a short one.
Fill_Retries(n) ==
    /\ pc = "read" /\ Wanting
    /\ n \in 0..Least(ReadSize, Len(rest)) /\ (n = 0 <=> rest = << >>)
    /\ buf' = buf \o SubSeq(rest, 1, n)
    /\ rest' = SubSeq(rest, n + 1, Len(rest))
    /\ UNCHANGED <<file, pc, eof, chunks, short>>

\* reader.read(&mut tmp) returns n bytes; none is the end of the file.
Fill(n) ==
    /\ pc = "read" /\ Wanting
    /\ n \in 0..Least(ReadSize, Len(rest)) /\ (n = 0 <=> rest = << >>)
    /\ buf' = buf \o SubSeq(rest, 1, n)
    /\ rest' = SubSeq(rest, n + 1, Len(rest))
    /\ eof' = (n = 0)
    /\ UNCHANGED <<file, pc, chunks, short>>

\* The read fails, and with it the file: nothing maps it to its chunks.
ReadFails ==
    /\ pc = "read" /\ Wanting
    /\ pc' = "failed"
    /\ UNCHANGED <<file, rest, buf, eof, chunks, short>>

Offset == IF chunks = << >> THEN 0
          ELSE LET c == chunks[Len(chunks)] IN c.offset + Len(c.data)

\* Bug: the buffer is cleared after a chunk.
Cut_Clears ==
    /\ pc = "read" /\ ~ Wanting
    /\ LET size == ChunkSize(buf)
           left == << >>
       IN  /\ chunks' = IF buf = << >> THEN chunks
                        ELSE Append(chunks, [offset |-> Offset, data |-> SubSeq(buf, 1, size)])
           /\ buf' = left
           /\ short' = (short \/ (Len(buf) < MaxSize /\ rest # << >>))
           /\ pc' = IF left = << >> /\ eof THEN "done" ELSE "read"
    /\ UNCHANGED <<file, rest, eof>>

\* One chunk off the buffer; or, with nothing in it, the end.
Cut ==
    /\ pc = "read" /\ ~ Wanting
    /\ LET size == ChunkSize(buf)
           left == SubSeq(buf, size + 1, Len(buf))
       IN  /\ chunks' = IF buf = << >> THEN chunks
                        ELSE Append(chunks, [offset |-> Offset, data |-> SubSeq(buf, 1, size)])
           /\ buf' = left
           /\ short' = (short \/ (Len(buf) < MaxSize /\ rest # << >>))
           /\ pc' = IF left = << >> /\ eof THEN "done" ELSE "read"
    /\ UNCHANGED <<file, rest, eof>>

Next == Exclude \/ (\E n \in 0..ReadSize : Fill(n)) \/ ReadFails \/ Cut

Spec == Init /\ [][Next]_vars

\* Synchronous code: it runs on, and a read of a file returns.
FairSpec == Spec /\ WF_vars(Exclude) /\ WF_vars(\E n \in 0..ReadSize : Fill(n)) /\ WF_vars(Cut)

-----------------------------------------------------------------------------
(* Properties *)

\* A file is left out of the backups exactly when one of the patterns means it; the
\* matcher can only be caught in its loop by a wildcard among the characters of a name.
ExcludedAsMeant ==
    LET meant == \E i \in DOMAIN file.patterns : MeantPath(file.patterns[i], file.path)
    IN  /\ pc = "excluded" => meant
        /\ pc \notin {"exclude", "excluded", "hang"} => ~ meant
        /\ pc = "hang" => \E i \in DOMAIN file.patterns : HasWildcard(file.patterns[i])

\* However the reads split the file, no byte of it is lost, doubled or moved: the chunks,
\* the buffer and what is to be read are the file, in order and at their offsets; all
\* chunks but the last have at least the minimal size, none has more than the maximal
\* one, and the buffer never holds more than the minimal size and a read.
Lossless ==
    LET cut == Offset
    IN  /\ \A c \in DOMAIN chunks :
              /\ chunks[c].data = SubSeq(file.data, chunks[c].offset + 1,
                                         chunks[c].offset + Len(chunks[c].data))
              /\ c < Len(chunks) => /\ Len(chunks[c].data) >= MinSize
                                    /\ chunks[c + 1].offset =
                                         chunks[c].offset + Len(chunks[c].data)
              /\ Len(chunks[c].data) \in 1..MaxSize
        /\ buf \o rest = SubSeq(file.data, cut + 1, Len(file.data))
        /\ Len(buf) < MinSize + ReadSize
        /\ pc = "done" => buf \o rest = << >>

\* The two ways to cut a file agree as long as the stream never cut a chunk from a buffer
\* that held neither MaxSize bytes nor the end of the file; both cut where the content
\* says (a direct hash of the window, not the rolling one).
StreamAgrees ==
    LET whole == ChunkFile(file.data)
    IN  /\ AreChunksOf(whole, file.data)
        /\ ~ short => /\ chunks = SubSeq(whole, 1, Len(chunks))
                      /\ pc = "done" => chunks = whole

\* Every file is excluded, read to its end or given up, unless a pattern has a
\* wildcard among the characters of a name.
EveryFileEnds ==
    (\A i \in DOMAIN file.patterns : ~ HasWildcard(file.patterns[i])) ~> pc \in Ended

=============================================================================
