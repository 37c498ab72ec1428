---------------------------- MODULE MCIncremental ---------------------------
(* Two files, one or two backups at a time. *)
EXTENDS Incremental, TLC

FewEvents ==
    [k \in Kinds |-> CASE k = "change" -> 2 [] k = "backup" -> 3 [] OTHER -> 1]

Symmetry == Permutations(Backups) \cup Permutations(Files)

=============================================================================
