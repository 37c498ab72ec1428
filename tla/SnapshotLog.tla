---------------------------- MODULE SnapshotLog -----------------------------
(***************************************************************************)
(* What run_backup promises to its callers, without files, chunks, locks   *)
(* or phases: a log of snapshots that only grows.  A call that is answered *)
(* with a snapshot has appended it; one that is answered with an abort or  *)
(* "nothing to do" never has and never will; and one that is answered with *)
(* an error, or is lost in a crash, leaves its caller in doubt.            *)
(***************************************************************************)
EXTENDS Sequences, Naturals

CONSTANT Calls

VARIABLES
    log,     \* snapshots in the order they were taken
    outcome  \* what each call has been answered

logVars == <<log, outcome>>

InLog(b) == \E i \in DOMAIN log : log[i] = b

LogInit == log = <<>> /\ outcome = [b \in Calls |-> "pending"]

Record(b) ==
    /\ outcome[b] = "pending" /\ ~InLog(b)
    /\ log' = Append(log, b)
    /\ UNCHANGED outcome

Acknowledge(b) ==
    /\ outcome[b] = "pending" /\ InLog(b)
    /\ outcome' = [outcome EXCEPT ![b] = "ok"]
    /\ UNCHANGED log

Reject(b) ==
    /\ outcome[b] = "pending" /\ ~InLog(b)
    /\ outcome' = [outcome EXCEPT ![b] = "rejected"]
    /\ UNCHANGED log

\* An error may come before or after the snapshot is in the log.
Fail(b) ==
    /\ outcome[b] = "pending"
    /\ outcome' = [outcome EXCEPT ![b] = "failed"]
    /\ UNCHANGED log

\* A crash takes some of the unanswered calls with it.
Lose ==
    /\ \E S \in SUBSET {b \in Calls : outcome[b] = "pending"} :
         outcome' = [b \in Calls |-> IF b \in S THEN "lost" ELSE outcome[b]]
    /\ UNCHANGED log

LogNext == Lose \/ \E b \in Calls : Record(b) \/ Acknowledge(b) \/ Reject(b) \/ Fail(b)

LogSpec == LogInit /\ [][LogNext]_logVars

=============================================================================
