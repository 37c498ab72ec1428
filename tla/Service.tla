------------------------------ MODULE Service -------------------------------
(***************************************************************************)
(* The IPC service with the restores it runs: run and handle_connection in *)
(* sidecar/src/ipc/server.rs, its transport, and the clients: the mod, and *)
(* the command line client (client-cli/src/main.rs), which sends one line, *)
(* waits for an answer as long as its timeout, and goes.                   *)
(*                                                                         *)
(* A connection is a task that reads a line, serves it to the end, answers *)
(* and reads the next one.  It has the name of the restore it runs: the    *)
(* steps of that restore are those of RestoreSwap.                         *)
(***************************************************************************)
EXTENDS RestoreSwap, Sequences, FiniteSets

CONSTANTS
    Scripts  \* what the client may send, by connection


Connections == Restores

\* "other" is every line that is answered without touching the world: not JSON,
\* no op or an unknown one, a status, the restore of one file into the sandbox.
Lines == {"auth", "restore", "other", "blank"}

ASSUME ServiceAssumption ==
    /\ DOMAIN Scripts = Connections
    /\ \A c \in Connections : Scripts[c] \subseteq Seq(Lines)

VARIABLES
    stage,    \* the task of a connection: "none", "auth", "serving", "closed"
    client,   \* the other end: "away", "here", "gone"
    inbox,    \* lines on their way to the server
    sent,     \* history: lines the client has sent
    answers,  \* what the client has received: [line, ok]
    placed    \* history: how often a restore of the connection put its tree in place

ipcVars == <<stage, client, inbox, sent, answers, placed>>
serviceVars == <<vars, ipcVars>>

ServiceInit ==
    /\ Init
    /\ stage = [c \in Connections |-> "none"]
    /\ client = [c \in Connections |-> "away"]
    /\ inbox = [c \in Connections |-> << >>]
    /\ sent = [c \in Connections |-> << >>]
    /\ answers = [c \in Connections |-> << >>]
    /\ placed = [c \in Connections |-> 0]

Busy(c) == pc[c] # "idle"  \* in dispatch, with a restore

-----------------------------------------------------------------------------
(* The clients *)

\* listener.accept(), and a task for the connection.  When a line arrives makes no
\* difference, as the task may be as slow to read it.  The command line client sends
\* its request, and nothing before it.
Connect(c) ==
    /\ client[c] = "away"
    /\ client' = [client EXCEPT ![c] = "here"]
    /\ stage' = [stage EXCEPT ![c] = "auth"]
    /\ sent' \in {[sent EXCEPT ![c] = script] : script \in Scripts[c]}
    /\ inbox' = [inbox EXCEPT ![c] = sent'[c]]
    /\ UNCHANGED <<vars, answers, placed>>

\* It has its answer, or its patience is at an end; the server goes on.
Leave(c) ==
    /\ client[c] = "here" /\ stage[c] # "closed"
    /\ client' = [client EXCEPT ![c] = "gone"]
    /\ answers' = [answers EXCEPT ![c] = << >>]  \* and what it knew with it
    /\ UNCHANGED <<vars, stage, inbox, sent, placed>>

-----------------------------------------------------------------------------
(* handle_connection *)

\* write_all and flush.  With nobody at the other end the answer is lost; the
\* task ends with the error of the write, or when it reads on (HangUp).
Reply(c, line, ok, next) ==
    /\ stage' = [stage EXCEPT ![c] = next]
    /\ answers' = IF client[c] = "here"
                  THEN [answers EXCEPT ![c] = Append(@, [line |-> line, ok |-> ok])]
                  ELSE answers

NextLine(c, line) ==
    /\ inbox[c] # << >> /\ line = Head(inbox[c])
    /\ inbox' = [inbox EXCEPT ![c] = Tail(@)]

\* The first line, which has to be an auth with the right token.
Authenticate(c) ==
    /\ stage[c] = "auth"
    /\ \E line \in Lines :
          /\ NextLine(c, line)
          /\ IF line = "auth" THEN Reply(c, line, TRUE, "serving")
             ELSE Reply(c, line, FALSE, "closed")
    /\ UNCHANGED <<vars, client, sent, placed>>

Skip(c) ==
    /\ stage[c] = "serving" /\ ~ Busy(c)
    /\ NextLine(c, "blank")
    /\ UNCHANGED <<vars, stage, client, sent, answers, placed>>

\* A second auth is an unknown operation.  Whether another one succeeds is not told
\* apart here: ok is about the first line and about restores.
Serve(c) ==
    /\ stage[c] = "serving" /\ ~ Busy(c)
    /\ \E line \in {"auth", "other"} : NextLine(c, line) /\ Reply(c, line, FALSE, "serving")
    /\ UNCHANGED <<vars, client, sent, placed>>

\* handle_restore calls restore ...
BeginRestore(c) ==
    /\ stage[c] = "serving" /\ ~ Busy(c)
    /\ NextLine(c, "restore")
    /\ Build(c)
    /\ UNCHANGED <<stage, client, sent, answers, placed>>

\* ... or it refuses: no such snapshot (a snapshot called "latest", say), or a
\* signature that is not right.
RefuseRestore(c) ==
    /\ stage[c] = "serving" /\ ~ Busy(c)
    /\ NextLine(c, "restore")
    /\ Reply(c, "restore", FALSE, "serving")
    /\ UNCHANGED <<vars, client, sent, placed>>

RunRestore(c) ==
    /\ LookWorld(c) \/ MoveOld(c) \/ MoveNew(c)
    /\ placed' = [placed EXCEPT ![c] = IF world' = c /\ world # c THEN @ + 1 ELSE @]
    /\ UNCHANGED <<stage, client, inbox, sent, answers>>

\* Bug: the error of a rename is only logged.
EndRestore_Optimistic(c) ==
    /\ LookOld(c) \/ MoveOldFails(c) \/ MoveNewFails(c)
    /\ Reply(c, "restore", TRUE, "serving")
    /\ UNCHANGED <<client, inbox, sent, placed>>

\* ... and makes its result an answer.
EndRestore(c) ==
    /\ \/ LookOld(c) /\ Reply(c, "restore", TRUE, "serving")
       \/ (MoveOldFails(c) \/ MoveNewFails(c)) /\ Reply(c, "restore", FALSE, "serving")
    /\ UNCHANGED <<client, inbox, sent, placed>>

\* Bug: the task waits for another line of a client that is gone.
HangUp_Waits(c) ==
    /\ stage[c] = "auth" /\ client[c] = "gone" /\ inbox[c] = << >>
    /\ stage' = [stage EXCEPT ![c] = "closed"]
    /\ UNCHANGED <<vars, client, inbox, sent, answers, placed>>

\* The end of the stream, or an error of the read, which lines may still precede.
HangUp(c) ==
    /\ stage[c] \in {"auth", "serving"} /\ ~ Busy(c)
    /\ client[c] = "gone"
    /\ stage' = [stage EXCEPT ![c] = "closed"]
    /\ inbox' = [inbox EXCEPT ![c] = << >>]
    /\ UNCHANGED <<vars, client, sent, answers, placed>>

\* The process dies, or accept fails: then run returns, main with it, and every
\* task is dropped.
CrashService ==
    /\ Crash
    /\ stage' = [c \in Connections |-> IF stage[c] = "none" THEN "none" ELSE "closed"]
    /\ client' = [c \in Connections |-> IF client[c] = "here" THEN "gone" ELSE client[c]]
    /\ inbox' = [c \in Connections |-> << >>]
    /\ UNCHANGED <<sent, answers, placed>>

-----------------------------------------------------------------------------

Handle(c) ==
    \/ Authenticate(c) \/ Skip(c) \/ Serve(c) \/ BeginRestore(c) \/ RefuseRestore(c)
    \/ RunRestore(c) \/ EndRestore(c) \/ HangUp(c)

Clean(c) == CleanUpStep(c) /\ UNCHANGED ipcVars

ServiceNext ==
    \/ CrashService
    \/ \E c \in Connections :
          Connect(c) \/ Leave(c) \/ Handle(c) \/ Clean(c)

ServiceSpec == ServiceInit /\ [][ServiceNext]_serviceVars

\* tokio runs every task that is ready; a client need not do anything.
FairService ==
    ServiceSpec /\ \A c \in Connections :
        WF_serviceVars(Handle(c)) /\ WF_serviceVars(Clean(c))

-----------------------------------------------------------------------------
(* Properties *)

\* The places of the lines that are answered: the first, and all that are not blank.
Asked(c) == {i \in DOMAIN sent[c] : i = 1 \/ sent[c][i] # "blank"}

\* Which answer is that of the i-th line.
Rank(c, i) == Cardinality(Asked(c) \cap 1..i)

\* The client has given the token, in its first line.
Admitted(c) == sent[c] # << >> /\ Head(sent[c]) = "auth"

\* What a client reads is true: its answers are those of its lines, one for each, in
\* their order, the first refuses or admits it and nothing is served to one that was
\* refused; a restore was answered with ok exactly when its tree was put in place by that
\* request (while the client stays).  So the command line client is always refused.
AnswersTrue ==
    \A c \in Connections :
        LET n == Len(answers[c])
            done == {i \in 1..n : answers[c][i].line = "restore" /\ answers[c][i].ok}
        IN  /\ n <= Cardinality(Asked(c))
            /\ \A i \in Asked(c) : Rank(c, i) <= n => answers[c][Rank(c, i)].line = sent[c][i]
            /\ n > 0 /\ answers[c][1].line # "auth" => n = 1 /\ ~ answers[c][1].ok
            /\ placed[c] > 0 => Admitted(c)
            /\ client[c] = "here" /\ ~ Busy(c) => placed[c] = Cardinality(done)

\* Again and again no connection has anything left to do: each line that came was
\* answered, and one whose client went away is closed, whatever it was doing then.
ConnectionsSettle ==
    []<> \A c \in Connections :
        \/ stage[c] \in {"none", "closed"}
        \/ client[c] = "here" /\ inbox[c] = << >> /\ ~ Busy(c)

=============================================================================
