----------------------------- MODULE MCService ------------------------------
(***************************************************************************)
(* Three connections, over each of which the mod restores and asks for     *)
(* more; or the second is the command line client, or the third asks       *)
(* for nothing.                                                            *)
(***************************************************************************)
EXTENDS Service

CONSTANTS r1, r2, r3

MCScripts ==
    [c \in Restores |->
        {<<"auth", "restore", "other">>}
        \cup (IF c = r2 THEN {<<"restore">>} ELSE {})
        \cup (IF c = r3 THEN {<<"auth", "blank", "auth">>} ELSE {})]

=============================================================================
