--------------------------- MODULE MCBackupEngine ---------------------------
(* Small instances of BackupEngine: two calls, two files, two chunks. *)
EXTENDS BackupEngine, TLC

CONSTANTS c1, c2

\* A two-chunk file, and a file with its second chunk only.
TwoContents == {<<c1, c2>>, <<c2>>}
OneContent == {<<c1>>}

\* How often each kind of event happens.
OfEach == [k \in Kinds |-> 1]
OneCancel == [k \in Kinds |-> IF k = "cancel" THEN 1 ELSE 0]

Symmetry == Permutations(Backups) \cup Permutations(Files)

=============================================================================
