---------------------------- MODULE MCFileIntake ----------------------------
(***************************************************************************)
(* Patterns of up to three segments on every path of up to three; pairs of *)
(* patterns; and every file of up to MaxBytes bytes, however it is read.   *)
(***************************************************************************)
EXTENDS FileIntake, SequencesExt

CONSTANT MaxBytes

Names == {<<"a">>, <<"b">>, <<"a", "b">>}
Wild == {<<"*">>, <<"*", "*">>, <<"a", "*">>, <<"*", "b">>, <<"*", "*", "a">>}

Paths == BoundedSeq(Names, 3) \ {<< >>}
Patterns == BoundedSeq(Names \cup Wild, 3) \ {<< >>}
LockFile == <<<<"*", "*">>, <<"b">>>>

MCInputs ==
    [patterns : {<<p>> : p \in Patterns}, path : Paths, data : {<< >>}]
    \cup [patterns : {<<p, LockFile>> : p \in BoundedSeq(Names \cup Wild, 1) \ {<< >>}},
          path : Paths, data : {<<0>>}]
    \cup [patterns : {<<LockFile>>}, path : {<<<<"a">>>>}, data : BoundedSeq({0, 1}, MaxBytes)]

=============================================================================
