--------------------------- MODULE MCObjectStore ----------------------------
(* Three objects, packs of two, two packfiles. *)
EXTENDS ObjectStore, TLC

OneOfEach == [k \in Kinds |-> 1]
TwoCrashes == [k \in Kinds |-> IF k = "crash" THEN 2 ELSE 1]
OneCrash == [k \in Kinds |-> IF k = "crash" THEN 1 ELSE 0]

Symmetry == Permutations(Objects)

=============================================================================
