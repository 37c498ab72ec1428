---------------------------- MODULE MCRetention -----------------------------
(* Three snapshots of a file; prunes keep none, one or two. *)
EXTENDS Retention, TLC

KeepAny == 0..2

Symmetry == Permutations(Backups) \cup Permutations(Pruners)

=============================================================================
