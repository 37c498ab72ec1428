---------------------------- MODULE MCRemoteSync ----------------------------
(* Two sessions about two files, with one of each event. *)
EXTENDS RemoteSync, TLC

OneOfEach == [k \in Kinds |-> 1]

=============================================================================
