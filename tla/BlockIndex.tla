----------------------------- MODULE BlockIndex -----------------------------
(***************************************************************************)
(* The RocksDB block index (sidecar/src/storage/index.rs) as operators on  *)
(* the values of its column families:                                      *)
(*                                                                         *)
(*   refs        chunk_refs:  chunk -> count.  The code deletes the key of *)
(*               a count that reaches 0, so "no key" is the count 0.       *)
(*   fileChunks  file_chunks: path -> list of chunks, the LATEST one only. *)
(*   snapFiles   snapshot:    snapshot id -> paths.  A missing key is read *)
(*               as the empty list.                                        *)
(*                                                                         *)
(* chunk_meta and file_meta only hold sizes and are left out.  RocksDB     *)
(* itself is taken to be infallible.                                       *)
(***************************************************************************)
EXTENDS Naturals

\* chunk_exists: the key is present.
ChunkExists(refs, c) == refs[c] > 0

\* increment_ref, and the counting half of insert_chunk.
IncrementRef(refs, c) == [refs EXCEPT ![c] = @ + 1]

InsertChunk(refs, c) == [refs EXCEPT ![c] = @ + 1]

\* decrement_ref saturates at 0 (and then deletes the key).
DecrementRef(refs, c) == [refs EXCEPT ![c] = IF @ > 0 THEN @ - 1 ELSE 0]

\* insert_file_chunks overwrites what the previous backup recorded.
InsertFileChunks(fileChunks, f, hs) == [fileChunks EXCEPT ![f] = hs]

InsertSnapshotFiles(snapFiles, s, fs) == [snapFiles EXCEPT ![s] = fs]

=============================================================================
