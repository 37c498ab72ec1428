--------------------------- MODULE Service_proofs ---------------------------
(***************************************************************************)
(* Theorems about RestoreSwap and Service: any number of restores and of   *)
(* connections, any lines, any number of crashes and of failing calls.     *)
(***************************************************************************)
EXTENDS Service, FiniteSetTheorems, TLAPS

-----------------------------------------------------------------------------
(* The inductive invariant *)

\* A restore that has put its tree in place, or the task it spawned: it is about to
\* remove what has the name world_old_tmp.
Late(r) == pc[r] = "lookOld" \/ cleanup[r] = "spawned"

\* Until its rename a restore has its tree in its sandbox; the task that it spawns
\* takes over when it ends.
Built ==
    \A r \in Restores :
        /\ pc[r] \in {"lookWorld", "moveOld", "moveNew"} => sandbox[r] = r
        /\ cleanup[r] # "none" => pc[r] = "idle"

\* At most one restore is about to remove world_old_tmp, only while there is a tree
\* in it and another in place, and only when a tree was put in place by a restore.
OneLate ==
    \A r \in Restores : Late(r) =>
        /\ world \in Trees /\ old \in Trees /\ r \in swapped
        /\ \A s \in Restores : Late(s) => s = r

SwapInv == TypeOK /\ Built /\ OneLate /\ WorldOnDisk /\ LiveKept /\ WorldInPlace

-----------------------------------------------------------------------------

\* The world of the start is in place, and no restore is under way.
LEMMA InitSwap == Init => SwapInv
  BY SwapAssumption DEF Init, SwapInv, TypeOK, Built, OneLate, WorldOnDisk, LiveKept,
     WorldInPlace, Late, Trees, Absent

\* Only calls of the file system fail.
LEMMA Faults ==
  ASSUME TypeOK, Fault("moveOld") \/ Fault("moveNew") \/ Fault("cleanUp") \/ UNCHANGED faults
  PROVE  faults' \subseteq Calls /\ faults \subseteq faults'
  BY DEF TypeOK, Fault, Calls

\* A restore until it renames: what is there stays there.
LEMMA BeforeRenames ==
  ASSUME SwapInv, NEW r \in Restores, Build(r) \/ LookWorld(r) \/ MoveOldFails(r)
  PROVE  SwapInv'
  <1> USE SwapAssumption DEF SwapInv, TypeOK, Goto, dirVars, Trees, Absent, Removing, Empty
  <1>0. faults' \subseteq Calls
    BY Faults DEF Build, LookWorld, MoveOldFails
  <1>1. TypeOK'
    BY <1>0 DEF Build, LookWorld, MoveOldFails
  <1>2. Built'
    BY DEF Built, Build, LookWorld, MoveOldFails
  <1>3. \A s \in Restores : Late(s)' => Late(s)
    BY DEF Late, Build, LookWorld, MoveOldFails
  <1>4. UNCHANGED <<world, old, swapped, crashes>> /\ faults \subseteq faults'
    BY DEF Build, LookWorld, MoveOldFails, Fault
  <1>5. OneLate' /\ WorldOnDisk' /\ LiveKept'
    BY <1>3, <1>4 DEF OneLate, WorldOnDisk, LiveKept
  <1>6. WorldInPlace'
    BY <1>4 DEF WorldInPlace, Build, LookWorld, MoveOldFails
  <1> QED
    BY <1>1, <1>2, <1>5, <1>6

\* The world is set aside: only onto a free name, where no restore is about to remove it.
LEMMA FirstRename ==
  ASSUME SwapInv, NEW r \in Restores, MoveOld(r)
  PROVE  SwapInv'
  <1> USE SwapAssumption DEF SwapInv, TypeOK, Goto, Free, Trees, Absent, Removing, Empty, MoveOld
  <1>1. TypeOK' /\ Built'
    BY DEF Built
  <1>2. \A s \in Restores : ~ Late(s)
    BY DEF OneLate
  <1>3. \A s \in Restores : ~ Late(s)'
    BY <1>2 DEF Late
  <1>4. OneLate' /\ WorldOnDisk'
    BY <1>3 DEF OneLate, WorldOnDisk
  <1>5. LiveKept' /\ WorldInPlace'
    BY DEF LiveKept, WorldInPlace
  <1> QED
    BY <1>1, <1>4, <1>5

\* A tree is put in place: nobody else is about to remove the one that was set aside.
LEMMA SecondRename ==
  ASSUME SwapInv, NEW r \in Restores, MoveNew(r)
  PROVE  SwapInv'
  <1> USE SwapAssumption DEF SwapInv, TypeOK, Goto, Free, Trees, Absent, Removing, Empty, MoveNew
  <1>1. TypeOK' /\ Built'
    BY DEF Built
  <1>2. world = Absent /\ old \in Trees /\ world' \in Trees /\ old' = old
    BY DEF WorldOnDisk, Built
  <1>3. \A s \in Restores : ~ Late(s)
    BY <1>2 DEF OneLate
  <1>4. \A s \in Restores : Late(s)' => s = r
    BY <1>3 DEF Late
  <1>5. OneLate' /\ WorldOnDisk'
    BY <1>2, <1>4 DEF OneLate, WorldOnDisk
  <1>6. LiveKept' /\ WorldInPlace'
    BY <1>2 DEF LiveKept, WorldInPlace
  <1> QED
    BY <1>1, <1>5, <1>6

\* A restore that was overtaken, or whose rename fails: what was set aside stays there.
LEMMA SecondRenameFails ==
  ASSUME SwapInv, NEW r \in Restores, MoveNewFails(r)
  PROVE  SwapInv'
  <1> USE SwapAssumption DEF SwapInv, TypeOK, Goto, Free, dirVars, Trees, Absent, Removing,
                             Empty, MoveNewFails
  <1>0. faults' \subseteq Calls
    BY Faults
  <1>1. TypeOK' /\ Built'
    BY <1>0 DEF Built
  <1>2. \A s \in Restores : Late(s)' => Late(s)
    BY DEF Late
  <1>3. OneLate' /\ WorldOnDisk' /\ LiveKept'
    BY <1>2 DEF OneLate, WorldOnDisk, LiveKept
  <1>4. WorldInPlace'
    BY DEF WorldInPlace, Fault
  <1> QED
    BY <1>1, <1>3, <1>4

\* A restore that ends hands its lateness on to the task it spawns.
LEMMA LastLook ==
  ASSUME SwapInv, NEW r \in Restores, LookOld(r)
  PROVE  SwapInv'
  <1> USE SwapAssumption DEF SwapInv, TypeOK, Goto, dirVars, Trees, Absent, Removing, Empty,
                             LookOld
  <1>1. TypeOK' /\ Built'
    BY DEF Built
  <1>2. \A s \in Restores : Late(s)' => Late(s)
    BY DEF Late
  <1>3. OneLate' /\ WorldOnDisk' /\ LiveKept'
    BY <1>2 DEF OneLate, WorldOnDisk, LiveKept
  <1>4. WorldInPlace'
    BY DEF WorldInPlace
  <1> QED
    BY <1>1, <1>3, <1>4

\* A clean-up removes a tree only while another is in place.
LEMMA CleaningUp ==
  ASSUME SwapInv, NEW r \in Restores, CleanUpStep(r)
  PROVE  SwapInv'
  <1> USE SwapAssumption DEF SwapInv, TypeOK, Trees, Absent, Removing, Empty
  <1>0. faults' \subseteq Calls
    BY Faults DEF CleanUpStep, CleanUp, CleanedUp, RemoveDir, CleanUpFails
  <1>1. TypeOK' /\ Built'
    BY <1>0 DEF Built, CleanUpStep, CleanUp, CleanedUp, RemoveDir, CleanUpFails, dirVars
  <1>2. WorldInPlace'
    BY DEF WorldInPlace, CleanUpStep, CleanUp, CleanedUp, RemoveDir, CleanUpFails, Fault, dirVars
  <1>3. CASE CleanUp(r)
    <2>1. Late(r) /\ world \in Trees /\ r \in swapped /\ \A s \in Restores : Late(s) => s = r
      BY <1>3 DEF CleanUp, Late, OneLate
    <2>2. \A s \in Restores : ~ Late(s)'
      <3>1. pc[r] # "lookOld"
        BY <1>3 DEF CleanUp, Built
      <3> QED
        BY <1>3, <2>1, <3>1 DEF CleanUp, Late
    <2> QED
      BY <1>1, <1>2, <1>3, <2>1, <2>2 DEF CleanUp, OneLate, WorldOnDisk, LiveKept
  <1>4. CASE CleanedUp(r) \/ RemoveDir(r) \/ CleanUpFails(r)
    <2>1. \A s \in Restores : Late(s)' => Late(s)
      BY <1>4 DEF Late, CleanedUp, RemoveDir, CleanUpFails, dirVars
    <2>2. old \in Trees => old' = old
      BY <1>4 DEF CleanedUp, RemoveDir, CleanUpFails, dirVars
    <2>3. old \notin Trees => \A s \in Restores : ~ Late(s)
      BY DEF OneLate
    <2>4. UNCHANGED <<world, swapped>>
      BY <1>4 DEF CleanedUp, RemoveDir, CleanUpFails, dirVars
    <2> QED
      BY <1>1, <1>2, <2>1, <2>2, <2>3, <2>4 DEF OneLate, WorldOnDisk, LiveKept
  <1> QED
    BY <1>3, <1>4 DEF CleanUpStep

\* A crash leaves the directories alone, and nobody late.
LEMMA Crashing == SwapInv /\ Crash => SwapInv'
  BY SwapAssumption DEF SwapInv, TypeOK, Built, OneLate, WorldOnDisk, LiveKept,
     WorldInPlace, Late, Crash, dirVars

\* The invariant is inductive.
LEMMA SwapStep == SwapInv /\ [Next]_vars => SwapInv'
  <1> SUFFICES ASSUME SwapInv, [Next]_vars PROVE SwapInv'
    OBVIOUS
  <1>1. CASE UNCHANGED vars
    BY <1>1 DEF vars, dirVars, SwapInv, TypeOK, Built, OneLate, WorldOnDisk, LiveKept,
       WorldInPlace, Late
  <1>2. CASE Crash
    BY <1>2, Crashing
  <1>3. ASSUME NEW r \in Restores, Build(r) \/ Step(r) \/ CleanUpStep(r)
        PROVE  SwapInv'
    BY <1>3, BeforeRenames, FirstRename, SecondRename, SecondRenameFails, LastLook,
       CleaningUp DEF Step
  <1> QED
    BY <1>1, <1>2, <1>3 DEF Next

-----------------------------------------------------------------------------

\* Every variable keeps its type.
THEOREM SwapTypes == Spec => []TypeOK
  <1>1. SwapInv => TypeOK
    BY DEF SwapInv
  <1> QED
    BY InitSwap, SwapStep, <1>1, PTL DEF Spec

\* However many restores there are, whatever fails and whenever the process dies, there is
\* a whole world on disk: no clean-up removes the last one.
THEOREM WorldSurvives == Spec => []WorldOnDisk
  <1>1. SwapInv => WorldOnDisk
    BY DEF SwapInv
  <1> QED
    BY InitSwap, SwapStep, <1>1, PTL DEF Spec

\* The world of before is kept until a restore has put another in its place.
THEOREM LiveSurvives == Spec => []LiveKept
  <1>1. SwapInv => LiveKept
    BY DEF SwapInv
  <1> QED
    BY InitSwap, SwapStep, <1>1, PTL DEF Spec

\* Unless the process dies or a second rename fails on a free name, there is a world in
\* place except between the two renames of a restore.
THEOREM NoGap == Spec => []WorldInPlace
  <1>1. SwapInv => WorldInPlace
    BY DEF SwapInv
  <1> QED
    BY InitSwap, SwapStep, <1>1, PTL DEF Spec

\* Serving requests adds nothing to what restores do: whatever clients send, and however
\* they come and go, the service takes no step that a restore does not take, or one
\* that leaves the directories alone.
THEOREM ServiceRestores == ServiceSpec => Spec
  <1>1. ServiceInit => Init
    BY DEF ServiceInit
  <1>2. [ServiceNext]_serviceVars => [Next]_vars
    <2> SUFFICES ASSUME [ServiceNext]_serviceVars PROVE [Next]_vars
      OBVIOUS
    <2>1. CASE UNCHANGED serviceVars
      BY <2>1 DEF serviceVars
    <2>2. CASE CrashService
      BY <2>2 DEF CrashService, Next
    <2>3. ASSUME NEW c \in Restores, Handle(c)
          PROVE  [Next]_vars
      <3>1. CASE Authenticate(c) \/ Skip(c) \/ Serve(c) \/ RefuseRestore(c) \/ HangUp(c)
        BY <3>1 DEF Authenticate, Skip, Serve, RefuseRestore, HangUp
      <3>2. CASE BeginRestore(c)
        BY <3>2 DEF BeginRestore, Next
      <3>3. CASE RunRestore(c)
        BY <3>3 DEF RunRestore, Step, Next
      <3>4. CASE EndRestore(c)
        BY <3>4 DEF EndRestore, Step, Next
      <3> QED
        BY <2>3, <3>1, <3>2, <3>3, <3>4 DEF Handle
    <2>4. ASSUME NEW c \in Restores, Connect(c) \/ Leave(c) \/ Clean(c)
          PROVE  [Next]_vars
      BY <2>4 DEF Connect, Leave, Clean, Next
    <2> QED
      BY <2>1, <2>2, <2>3, <2>4 DEF ServiceNext, Connections
  <1> QED
    BY <1>1, <1>2, PTL DEF ServiceSpec, Spec

-----------------------------------------------------------------------------
(* Authentication *)

\* Types of the service's variables (answers may be anything here).
SessionType ==
    /\ stage \in [Connections -> {"none", "auth", "serving", "closed"}]
    /\ client \in [Connections -> {"away", "here", "gone"}]
    /\ inbox \in [Connections -> Seq(Lines)]
    /\ sent \in [Connections -> Seq(Lines)]
    /\ placed \in [Connections -> Nat]

\* What is known of a connection in each stage: no line was read before the first, and
\* a restore runs only for a client whose first line was the right one.
SessionOK(c) ==
    /\ stage[c] = "none" => client[c] = "away"
    /\ client[c] = "away" => stage[c] = "none" /\ placed[c] = 0
    /\ stage[c] = "auth" => placed[c] = 0 /\ inbox[c] = sent[c]
    /\ stage[c] = "serving" => Admitted(c)
    /\ Busy(c) => stage[c] = "serving"
    /\ placed[c] > 0 => Admitted(c)

SessionInv == TypeOK /\ SessionType /\ \A c \in Connections : SessionOK(c)

\* Before anyone connects.
LEMMA InitSession == ServiceInit => SessionInv
  <1> SUFFICES ASSUME ServiceInit PROVE SessionInv
    OBVIOUS
  <1>1. TypeOK
    BY InitSwap DEF ServiceInit, SwapInv
  <1>2. SessionType
    BY DEF ServiceInit, SessionType
  <1>3. \A c \in Connections : SessionOK(c)
    <2> TAKE c \in Connections
    <2>1. stage[c] = "none" /\ client[c] = "away" /\ placed[c] = 0
      BY DEF ServiceInit
    <2>2. ~ Busy(c)
      BY DEF ServiceInit, Init, Busy, Connections
    <2> QED
      BY <2>1, <2>2 DEF SessionOK
  <1> QED
    BY <1>1, <1>2, <1>3 DEF SessionInv

\* The other connections are as they were when only the values of one change.
LEMMA OthersOK ==
  ASSUME NEW c \in Connections, NEW d \in Connections, SessionOK(d),
         stage'[d] = stage[d], client'[d] = client[d], inbox'[d] = inbox[d],
         sent'[d] = sent[d], placed'[d] = placed[d], pc'[d] = pc[d]
  PROVE  SessionOK(d)'
  BY DEF SessionOK, Admitted, Busy

\* Connections keep their types.
LEMMA SessionTypes ==
  ASSUME SessionType, NEW c \in Connections, Connect(c) \/ Leave(c) \/ Handle(c) \/ Clean(c)
  PROVE  SessionType'
  <1> USE DEF SessionType
  <1>0. \A line : NextLine(c, line) => inbox' \in [Connections -> Seq(Lines)]
    BY DEF NextLine
  <1>1. CASE Connect(c)
    BY <1>1, ServiceAssumption DEF Connect
  <1>2. CASE Leave(c) \/ Clean(c)
    BY <1>2 DEF Leave, Clean, ipcVars
  <1>3. CASE Authenticate(c) \/ Serve(c)
    BY <1>0, <1>3 DEF Authenticate, Serve, Reply
  <1>4. CASE Skip(c)
    BY <1>0, <1>4 DEF Skip
  <1>5. CASE RefuseRestore(c) \/ BeginRestore(c)
    BY <1>0, <1>5 DEF RefuseRestore, BeginRestore, Reply
  <1>6. CASE RunRestore(c)
    BY <1>6 DEF RunRestore
  <1>7. CASE EndRestore(c)
    BY <1>7 DEF EndRestore, Reply
  <1>8. CASE HangUp(c)
    <2>1. << >> \in Seq(Lines)
      OBVIOUS
    <2>2. inbox' \in [Connections -> Seq(Lines)]
      BY <1>8, <2>1 DEF HangUp
    <2> QED
      BY <1>8, <2>2 DEF HangUp
  <1> QED
    BY <1>1, <1>2, <1>3, <1>4, <1>5, <1>6, <1>7, <1>8 DEF Handle

\* A step of a connection leaves it in order.
LEMMA SessionKept ==
  ASSUME SessionInv, NEW c \in Connections, Connect(c) \/ Leave(c) \/ Handle(c) \/ Clean(c)
  PROVE  SessionOK(c)'
  <1> USE DEF SessionInv, SessionType, SessionOK, Admitted, Busy, Connections
  <1>1. CASE Connect(c)
    BY <1>1 DEF Connect, vars
  <1>2. CASE Leave(c)
    BY <1>2 DEF Leave, vars
  <1>3. CASE Clean(c)
    BY <1>3 DEF Clean, CleanUpStep, CleanUp, CleanedUp, RemoveDir, CleanUpFails, ipcVars
  <1>4. CASE Authenticate(c)
    BY <1>4 DEF Authenticate, NextLine, Reply, vars
  <1>5. CASE Skip(c) \/ Serve(c) \/ RefuseRestore(c)
    BY <1>5 DEF Skip, Serve, RefuseRestore, NextLine, Reply, vars
  <1>6. CASE BeginRestore(c)
    BY <1>6 DEF BeginRestore, NextLine
  <1>7. CASE RunRestore(c)
    BY <1>7 DEF RunRestore, LookWorld, MoveOld, MoveNew
  <1>8. CASE EndRestore(c)
    BY <1>8 DEF EndRestore, Reply, LookOld, MoveOldFails, MoveNewFails, Goto, TypeOK
  <1>9. CASE HangUp(c)
    BY <1>9 DEF HangUp, vars
  <1> QED
    BY <1>1, <1>2, <1>3, <1>4, <1>5, <1>6, <1>7, <1>8, <1>9 DEF Handle

\* Only its own values change with it.
LEMMA OthersUntouched ==
  ASSUME SessionInv, NEW c \in Connections, Connect(c) \/ Leave(c) \/ Handle(c) \/ Clean(c),
         NEW d \in Connections, d # c
  PROVE  /\ stage'[d] = stage[d] /\ client'[d] = client[d] /\ inbox'[d] = inbox[d]
         /\ sent'[d] = sent[d] /\ placed'[d] = placed[d] /\ pc'[d] = pc[d]
  <1> USE DEF SessionInv, SessionType, TypeOK, Connections
  <1>1. CASE Connect(c) \/ Leave(c) \/ Skip(c) \/ HangUp(c)
    BY <1>1 DEF Connect, Leave, Skip, HangUp, NextLine, vars
  <1>2. CASE Clean(c)
    BY <1>2 DEF Clean, CleanUpStep, CleanUp, CleanedUp, RemoveDir, CleanUpFails, ipcVars
  <1>3. CASE Authenticate(c) \/ Serve(c) \/ RefuseRestore(c)
    BY <1>3 DEF Authenticate, Serve, RefuseRestore, NextLine, Reply, vars
  <1>4. CASE BeginRestore(c)
    BY <1>4 DEF BeginRestore, NextLine, Build, Goto
  <1>5. CASE RunRestore(c)
    BY <1>5 DEF RunRestore, LookWorld, MoveOld, MoveNew, Goto
  <1>6. CASE EndRestore(c)
    BY <1>6 DEF EndRestore, Reply, LookOld, MoveOldFails, MoveNewFails, Goto
  <1> QED
    BY <1>1, <1>2, <1>3, <1>4, <1>5, <1>6 DEF Handle

\* The invariant is inductive.
LEMMA SessionStep == SessionInv /\ TypeOK' /\ [ServiceNext]_serviceVars => SessionInv'
  <1> SUFFICES ASSUME SessionInv, TypeOK', [ServiceNext]_serviceVars PROVE SessionInv'
    OBVIOUS
  <1>1. CASE UNCHANGED serviceVars
    BY <1>1 DEF serviceVars, vars, ipcVars, SessionInv, SessionType, SessionOK, Admitted, Busy
  <1>2. CASE CrashService
    <2>1. SessionType'
      BY <1>2 DEF CrashService, SessionInv, SessionType
    <2>2. \A c \in Connections : SessionOK(c)'
      BY <1>2 DEF CrashService, Crash, SessionInv, SessionType, SessionOK, Admitted, Busy,
                  Connections
    <2> QED
      BY <2>1, <2>2 DEF SessionInv
  <1>3. ASSUME NEW c \in Connections, Connect(c) \/ Leave(c) \/ Handle(c) \/ Clean(c)
        PROVE  SessionInv'
    <2>1. SessionType'
      BY <1>3, SessionTypes DEF SessionInv
    <2>2. \A d \in Connections : SessionOK(d)'
      BY <1>3, SessionKept, OthersUntouched, OthersOK DEF SessionInv
    <2> QED
      BY <2>1, <2>2 DEF SessionInv
  <1> QED
    BY <1>1, <1>2, <1>3 DEF ServiceNext

\* The world is replaced only for a client that gave the token in its first line,
\* whatever else is sent and however connections come, break and overlap.
THEOREM OnlyAdmitted == ServiceSpec => [](\A c \in Connections : placed[c] > 0 => Admitted(c))
  <1>1. SessionInv => \A c \in Connections : placed[c] > 0 => Admitted(c)
    BY DEF SessionInv, SessionOK
  <1>2. ServiceSpec => []TypeOK
    BY ServiceRestores, SwapTypes, PTL
  <1> QED
    BY InitSession, SessionStep, <1>1, <1>2, PTL DEF ServiceSpec

-----------------------------------------------------------------------------
(* Answers *)

Answer == [line : Lines, ok : BOOLEAN]

\* How many lines the task has read.
Reading(c) == Len(sent[c]) - Len(inbox[c])

\* The answers that tell of a restore.
Restored(a) == {i \in 1..Len(a) : a[i].line = "restore" /\ a[i].ok}

\* Each of the answers a is that of the line of s it belongs to, A being the places of
\* the lines that are answered.
Fits(a, A, s) ==
    /\ Len(a) <= Cardinality(A)
    /\ \A i \in A : Cardinality(A \cap 1..i) <= Len(a) =>
          a[Cardinality(A \cap 1..i)].line = s[i]

Matched(c) == Fits(answers[c], Asked(c), sent[c])

\* What is still to be read is the end of what was sent, the line of a restore that runs was
\* the last one read, and a client that is there has an answer to each line before.
InStep(c) ==
    /\ Len(inbox[c]) <= Len(sent[c])
    /\ \A j \in DOMAIN inbox[c] : inbox[c][j] = sent[c][Reading(c) + j]
    /\ client[c] = "away" => sent[c] = << >> /\ inbox[c] = << >> /\ answers[c] = << >>
    /\ stage[c] = "serving" => Reading(c) >= 1
    /\ Busy(c) => sent[c][Reading(c)] = "restore"
    /\ client[c] = "here" /\ stage[c] \in {"auth", "serving"} =>
          Len(answers[c]) + (IF Busy(c) THEN 1 ELSE 0) = Rank(c, Reading(c))

\* One that was refused is not served.
Refused(c) ==
    answers[c] # << >> /\ answers[c][1].line # "auth" =>
        Len(answers[c]) = 1 /\ ~ answers[c][1].ok /\ stage[c] # "serving"

\* The trees that were put in place are those a client was told of, and one that it
\* is about to be told of.
Told(c) ==
    client[c] = "here" =>
        placed[c] = Cardinality(Restored(answers[c])) + (IF pc[c] = "lookOld" THEN 1 ELSE 0)

AnswerOK(c) == InStep(c) /\ Matched(c) /\ Refused(c) /\ Told(c)

AnswerInv ==
    /\ answers \in [Connections -> Seq(Answer)]
    /\ \A c \in Connections : AnswerOK(c)

\* How many of a set of places come before another place, and how that grows with it.
LEMMA Ranks ==
  ASSUME NEW n \in Nat, NEW A \in SUBSET (1..n), NEW i \in Nat
  PROVE  /\ Cardinality(A \cap 1..i) \in Nat /\ Cardinality(A) \in Nat
         /\ Cardinality(A \cap 1..i) <= Cardinality(A)
         /\ Cardinality(A \cap 1..0) = 0
         /\ i + 1 \in A => Cardinality(A \cap 1..i + 1) = Cardinality(A \cap 1..i) + 1
         /\ i + 1 \notin A => Cardinality(A \cap 1..i + 1) = Cardinality(A \cap 1..i)
         /\ \A j \in Nat : i <= j => Cardinality(A \cap 1..i) <= Cardinality(A \cap 1..j)
         /\ i \in A => Cardinality(A \cap 1..i) >= 1
  <1>1. IsFiniteSet(A) /\ Cardinality(A) \in Nat
    <2>1. IsFiniteSet(1..n)
      BY FS_Interval
    <2> QED
      BY <2>1, FS_Subset, FS_CardinalityType
  <1>2. \A T : IsFiniteSet(A \cap T) /\ Cardinality(A \cap T) \in Nat
               /\ Cardinality(A \cap T) <= Cardinality(A)
    BY <1>1, FS_Subset, FS_CardinalityType
  <1>3. Cardinality(A \cap 1..0) = 0
    <2>1. A \cap 1..0 = {}
      OBVIOUS
    <2> QED
      BY <2>1, FS_EmptySet
  <1>4. ASSUME i + 1 \in A
        PROVE  Cardinality(A \cap 1..i + 1) = Cardinality(A \cap 1..i) + 1
    <2>1. A \cap 1..i + 1 = (A \cap 1..i) \cup {i + 1} /\ i + 1 \notin A \cap 1..i
      BY <1>4
    <2> QED
      BY <1>2, <2>1, FS_AddElement
  <1>5. ASSUME i + 1 \notin A
        PROVE  Cardinality(A \cap 1..i + 1) = Cardinality(A \cap 1..i)
    <2>1. A \cap 1..i + 1 = A \cap 1..i
      BY <1>5
    <2> QED
      BY <2>1
  <1>6. ASSUME NEW j \in Nat, i <= j
        PROVE  Cardinality(A \cap 1..i) <= Cardinality(A \cap 1..j)
    <2>1. A \cap 1..i \subseteq A \cap 1..j
      BY <1>6
    <2> QED
      BY <1>2, <2>1, FS_Subset
  <1>7. ASSUME i \in A
        PROVE  Cardinality(A \cap 1..i) >= 1
    <2>1. i \in A \cap 1..i
      BY <1>7
    <2>2. Cardinality(A \cap 1..i) # 0
      BY <1>2, <2>1, FS_EmptySet
    <2> QED
      BY <1>2, <2>2
  <1> QED
    BY <1>1, <1>2, <1>3, <1>4, <1>5, <1>6, <1>7

\* A list and what is appended to it.
LEMMA Appended ==
  ASSUME NEW S, NEW a \in Seq(S), NEW e \in S
  PROVE  /\ Append(a, e) \in Seq(S) /\ Len(Append(a, e)) = Len(a) + 1 /\ Len(a) \in Nat
         /\ Append(a, e)[Len(a) + 1] = e
         /\ \A m \in 1..Len(a) : Append(a, e)[m] = a[m]
  OBVIOUS

\* The answers a are those before place r + 1 of the n of s, and e is the one for it.
InTurn(n, A, r, s, a, e) ==
    /\ n \in Nat /\ A \in SUBSET (1..n) /\ r \in Nat /\ r + 1 \in A
    /\ a \in Seq(Answer) /\ e \in Answer /\ e.line = s[r + 1]
    /\ Len(a) = Cardinality(A \cap 1..r) /\ Fits(a, A, s)

\* The answers b are those up to that place.
Answered(A, r, s, b) ==
    b \in Seq(Answer) /\ Fits(b, A, s) /\ Len(b) = Cardinality(A \cap 1..r + 1)

\* An answer to the next of those places: it belongs to that one, and the others keep theirs.
LEMMA NextAnswer ==
  ASSUME NEW n, NEW A, NEW r, NEW s, NEW a, NEW e, InTurn(n, A, r, s, a, e)
  PROVE  Answered(A, r, s, Append(a, e))
  <1> USE DEF InTurn, Answered
  <1> DEFINE b == Append(a, e)  k(i) == Cardinality(A \cap 1..i)
  <1>1. \A i \in Nat : /\ k(i) \in Nat /\ k(i) <= Cardinality(A) /\ Cardinality(A) \in Nat
                       /\ i + 1 \in A => k(i + 1) = k(i) + 1
                       /\ i \in A => k(i) >= 1
                       /\ \A j \in Nat : i <= j => k(i) <= k(j)
    BY Ranks
  <1>2. /\ b \in Seq(Answer) /\ Len(b) = Len(a) + 1 /\ Len(a) \in Nat
        /\ b[Len(a) + 1] = e /\ \A m \in 1..Len(a) : b[m] = a[m]
    <2> HIDE DEF Answer
    <2>1. /\ b \in Seq(Answer) /\ Len(b) = Len(a) + 1 /\ Len(a) \in Nat
          /\ b[Len(a) + 1] = e
      <3>1. a \in Seq(Answer) /\ e \in Answer
        OBVIOUS
      <3> HIDE DEF InTurn, Answered, k
      <3> QED
        BY <3>1, Appended
    <2>2. ASSUME NEW m \in 1..Len(a)
          PROVE  b[m] = a[m]
      <3> HIDE DEF k
      <3> QED
        BY <2>2
    <2> QED
      BY <2>1, <2>2
  <1>3. /\ Len(a) = k(r) /\ \A i \in A : k(i) <= Len(a) => a[k(i)].line = s[i]
    BY DEF Fits
  <1> HIDE DEF b, k
  <1>4. Len(b) = k(r + 1) /\ Len(b) <= Cardinality(A)
    BY <1>1, <1>2, <1>3
  <1>5. ASSUME NEW i \in A, k(i) <= Len(b)
        PROVE  b[k(i)].line = s[i]
    <2>0. i \in Nat
      OBVIOUS
    <2>1. CASE i = r + 1
      BY <1>1, <1>2, <1>4, <2>1
    <2>2. CASE i > r + 1
      <3>1. PICK j \in Nat : i = j + 1 /\ r + 1 <= j
        <4>1. i - 1 \in Nat /\ i = (i - 1) + 1 /\ r + 1 <= i - 1
          BY <2>0, <2>2
        <4> QED
          BY <4>1
      <3>2. k(j + 1) = k(j) + 1
        BY <1>1, <1>5, <3>1
      <3>3. k(r + 1) <= k(j) /\ k(j) \in Nat /\ k(r + 1) \in Nat /\ k(i) = k(j) + 1
        <4>1. r + 1 \in Nat
          OBVIOUS
        <4> QED
          BY <1>1, <3>1, <3>2, <4>1
      <3> QED
        BY <1>4, <1>5, <3>3
    <2>3. CASE i <= r
      <3>1. k(i) <= k(r) /\ k(i) \in Nat /\ k(i) >= 1
        BY <1>1, <2>0, <2>3
      <3>2. k(i) \in 1..Len(a)
        BY <1>2, <1>3, <3>1
      <3>3. b[k(i)] = a[k(i)]
        BY <1>2, <3>2
      <3>4. a[k(i)].line = s[i]
        BY <1>3, <1>5, <3>1
      <3> QED
        BY <3>3, <3>4
    <2> QED
      BY <2>0, <2>1, <2>2, <2>3
  <1> QED
    BY <1>2, <1>4, <1>5 DEF b, k, Fits

\* One more answer tells of a restore, or it does not.
LEMMA NextRestored ==
  ASSUME NEW a \in Seq(Answer), NEW e \in Answer
  PROVE  /\ Cardinality(Restored(a)) \in Nat
         /\ e.line = "restore" /\ e.ok =>
               Cardinality(Restored(Append(a, e))) = Cardinality(Restored(a)) + 1
         /\ ~ (e.line = "restore" /\ e.ok) => Restored(Append(a, e)) = Restored(a)
  <1> DEFINE b == Append(a, e)  n == Len(a)
  <1>1. /\ n \in Nat /\ Len(b) = n + 1 /\ b[n + 1] = e /\ \A m \in 1..n : b[m] = a[m]
    BY Appended
  <1> HIDE DEF b, n
  <1>2. /\ Restored(a) \subseteq 1..n
        /\ e.line = "restore" /\ e.ok => Restored(b) = Restored(a) \cup {n + 1}
        /\ ~ (e.line = "restore" /\ e.ok) => Restored(b) = Restored(a)
    <2>1. Restored(a) = {i \in 1..n : a[i].line = "restore" /\ a[i].ok}
      BY DEF Restored, n
    <2>2. Restored(b) = {i \in 1..n + 1 : b[i].line = "restore" /\ b[i].ok}
      BY <1>1 DEF Restored
    <2>3. \A i \in 1..n + 1 : i \in 1..n \/ i = n + 1
      BY <1>1
    <2>4. 1..n \subseteq 1..n + 1 /\ n + 1 \in 1..n + 1 /\ n + 1 \notin 1..n
      BY <1>1
    <2> QED
      BY <1>1, <2>1, <2>2, <2>3, <2>4
  <1>3. IsFiniteSet(Restored(a)) /\ n + 1 \notin Restored(a)
    <2>1. IsFiniteSet(1..n) /\ n + 1 \notin 1..n
      BY <1>1, FS_Interval
    <2> QED
      BY <1>2, <2>1, FS_Subset
  <1>4. Cardinality(Restored(a)) \in Nat
    BY <1>3, FS_CardinalityType
  <1>5. Cardinality(Restored(a) \cup {n + 1}) = Cardinality(Restored(a)) + 1
    BY <1>3, FS_AddElement
  <1> QED
    BY <1>2, <1>4, <1>5 DEF b

\* Whoever has an answer has the first one.
LEMMA FirstAnswer ==
  ASSUME NEW n \in Nat, NEW A \in SUBSET (1..n), 1 \in A, NEW s, NEW a \in Seq(Answer), a # << >>,
         Fits(a, A, s)
  PROVE  a[1].line = s[1]
  <1>1. Cardinality(A \cap 1..1) = 1
    <2>1. A \cap 1..1 = {1}
      OBVIOUS
    <2> QED
      BY <2>1, FS_Singleton
  <1>2. Len(a) >= 1
    <2> HIDE DEF Answer
    <2> QED
      OBVIOUS
  <1> QED
    BY <1>1, <1>2 DEF Fits

\* What was sent, and how much of it was read.
LEMMA Places ==
  ASSUME SessionInv, AnswerInv, NEW c \in Connections
  PROVE  /\ Len(sent[c]) \in Nat /\ Asked(c) \in SUBSET (1..Len(sent[c]))
         /\ sent[c] \in Seq(Lines) /\ inbox[c] \in Seq(Lines)
         /\ Len(inbox[c]) \in Nat /\ Reading(c) \in Nat /\ Reading(c) <= Len(sent[c])
         /\ answers[c] \in Seq(Answer) /\ AnswerOK(c) /\ SessionOK(c)
  <1>1. sent[c] \in Seq(Lines) /\ inbox[c] \in Seq(Lines) /\ AnswerOK(c) /\ SessionOK(c)
    BY DEF SessionInv, SessionType, AnswerInv
  <1>2. answers[c] \in Seq(Answer)
    <2> HIDE DEF Answer
    <2> QED
      BY DEF AnswerInv
  <1>3. Len(sent[c]) \in Nat /\ Len(inbox[c]) \in Nat /\ DOMAIN sent[c] = 1..Len(sent[c])
    BY <1>1
  <1>4. Asked(c) \in SUBSET (1..Len(sent[c]))
    BY <1>3 DEF Asked
  <1>5. Reading(c) \in Nat /\ Reading(c) <= Len(sent[c])
    <2> DEFINE i == Len(inbox[c])  s == Len(sent[c])
    <2>1. i \in Nat /\ s \in Nat /\ i <= s
      BY <1>1, <1>3 DEF AnswerOK, InStep
    <2>2. Reading(c) = s - i
      BY DEF Reading
    <2> HIDE DEF i, s
    <2>3. Reading(c) \in Nat /\ Reading(c) <= s
      BY <2>1, <2>2
    <2> QED
      BY <2>3 DEF s
  <1> QED
    BY <1>1, <1>2, <1>3, <1>4, <1>5

\* The next line is read: it comes after those that were.
LEMMA Reads ==
  ASSUME SessionInv, AnswerInv, NEW c \in Connections, NEW line, NextLine(c, line), sent' = sent
  PROVE  /\ Reading(c)' = Reading(c) + 1 /\ line = sent[c][Reading(c) + 1]
         /\ Reading(c) + 1 \in DOMAIN sent[c] /\ line \in Lines
         /\ Len(inbox'[c]) <= Len(sent'[c])
         /\ \A j \in DOMAIN inbox'[c] : inbox'[c][j] = sent'[c][Reading(c)' + j]
  <1> DEFINE q == inbox[c]  s == sent[c]  r == Reading(c)
  <1>1. q # << >> /\ line = Head(q) /\ inbox'[c] = Tail(q)
    BY DEF NextLine, SessionInv, SessionType
  <1>2. /\ q \in Seq(Lines) /\ s \in Seq(Lines) /\ Len(q) \in Nat /\ Len(s) \in Nat
        /\ Len(q) <= Len(s) /\ r = Len(s) - Len(q) /\ r \in Nat
        /\ \A j \in DOMAIN q : q[j] = s[r + j]
    BY Places DEF AnswerOK, InStep, Reading
  <1>3. Reading(c)' = Len(s) - Len(Tail(q))
    BY <1>1 DEF Reading
  <1> HIDE DEF q, s, r
  <1>4. /\ Head(q) = q[1] /\ 1 \in DOMAIN q /\ Len(Tail(q)) = Len(q) - 1 /\ Len(q) >= 1
        /\ Head(q) \in Lines /\ DOMAIN s = 1..Len(s)
        /\ \A j \in DOMAIN Tail(q) : j \in Nat /\ j + 1 \in DOMAIN q /\ Tail(q)[j] = q[j + 1]
    BY <1>1, <1>2 DEF Lines
  <1>5. Reading(c)' = r + 1 /\ r + 1 \in 1..Len(s)
    <2>1. /\ Len(q) \in Nat /\ Len(s) \in Nat /\ Len(q) <= Len(s) /\ r = Len(s) - Len(q)
          /\ Len(Tail(q)) = Len(q) - 1 /\ Len(q) >= 1
      BY <1>2, <1>4
    <2> DEFINE lq == Len(q)  ls == Len(s)  lt == Len(Tail(q))
    <2>2. lq \in Nat /\ ls \in Nat /\ lq <= ls /\ r = ls - lq /\ lt = lq - 1 /\ lq >= 1
      BY <2>1, Zenon
    <2> HIDE DEF lq, ls, lt
    <2>3. ls - lt = r + 1 /\ r + 1 \in 1..ls
      BY <2>2
    <2> QED
      BY <1>3, <2>3, Zenon DEF ls, lt
  <1>6. line = s[r + 1]
    BY <1>1, <1>2, <1>4
  <1>7. ASSUME NEW j \in DOMAIN Tail(q)
        PROVE  Tail(q)[j] = s[r + 1 + j]
    <2>1. q[j + 1] = s[r + (j + 1)] /\ j \in Nat
      BY <1>2, <1>4
    <2>2. r + (j + 1) = r + 1 + j
      BY <1>2, <2>1
    <2> QED
      BY <1>4, <2>1, <2>2
  <1>8. sent'[c] = s
    BY DEF s
  <1>9. line \in Lines
    BY <1>1, <1>4
  <1>10. Len(Tail(q)) <= Len(s)
    BY <1>2, <1>4
  <1>11. \A j \in DOMAIN Tail(q) : Tail(q)[j] = s[Reading(c)' + j]
    BY <1>5, <1>7
  <1>12. r + 1 \in DOMAIN s
    BY <1>4, <1>5
  <1> QED
    BY <1>1, <1>5, <1>6, <1>8, <1>9, <1>10, <1>11, <1>12, Zenon DEF q, s, r

\* A line is answered, in its turn.
LEMMA Replies ==
  ASSUME SessionInv, AnswerInv, NEW c \in Connections, NEW line \in Lines, NEW ok \in BOOLEAN,
         NEW next, Reply(c, line, ok, next), sent' = sent,
         NEW r \in Nat, r + 1 \in Asked(c), line = sent[c][r + 1],
         client[c] = "here" => Len(answers[c]) = Rank(c, r)
  PROVE  /\ answers' \in [Connections -> Seq(Answer)]
         /\ \A d \in Connections : d # c => answers'[d] = answers[d]
         /\ Matched(c)'
         /\ client[c] # "here" => answers'[c] = answers[c]
         /\ client[c] = "here" =>
               /\ Len(answers'[c]) = Rank(c, r + 1)
               /\ answers'[c] = Append(answers[c], [line |-> line, ok |-> ok])
  <1> DEFINE e == [line |-> line, ok |-> ok]  a == answers[c]  n == Len(sent[c])
             A == Asked(c)  s == sent[c]
  <1>1. n \in Nat /\ A \in SUBSET (1..n) /\ a \in Seq(Answer) /\ Fits(a, A, s)
    BY Places DEF AnswerOK, Matched
  <1>2. e \in Answer /\ e.line = s[r + 1] /\ r + 1 \in A
    BY DEF Answer
  <1>3. Asked(c)' = A /\ sent'[c] = s
    BY DEF Asked
  <1>4. Matched(c)' <=> Fits(answers'[c], A, s)
    BY <1>3 DEF Matched, Fits
  <1>5. answers \in [Connections -> Seq(Answer)]
    BY DEF AnswerInv
  <1>6. CASE client[c] # "here"
    <2>1. answers' = answers
      BY <1>6 DEF Reply
    <2> QED
      BY <1>1, <1>4, <1>5, <1>6, <2>1
  <1>7. CASE client[c] = "here"
    <2>1. answers' = [answers EXCEPT ![c] = Append(a, e)]
      BY <1>7 DEF Reply
    <2>2. Len(a) = Cardinality(A \cap 1..r)
      BY <1>7 DEF Rank
    <2> DEFINE b == Append(a, e)
    <2>3. /\ b \in Seq(Answer) /\ Fits(b, A, s) /\ Len(b) = Cardinality(A \cap 1..r + 1)
      <3>1. InTurn(n, A, r, s, a, e)
        BY <1>1, <1>2, <2>2 DEF InTurn
      <3> HIDE DEF A, s, a, e, n
      <3>2. Answered(A, r, s, b)
        BY <3>1, NextAnswer, Zenon
      <3> QED
        BY <3>2 DEF Answered
    <2>4. Rank(c, r + 1) = Cardinality(A \cap 1..r + 1)
      BY DEF Rank
    <2>5. b = Append(answers[c], [line |-> line, ok |-> ok])
      OBVIOUS
    <2> HIDE DEF b, Answer, A, s
    <2>6. answers' = [answers EXCEPT ![c] = b]
      BY <2>1 DEF b
    <2>7. answers'[c] = b /\ \A d \in Connections : d # c => answers'[d] = answers[d]
      BY <1>5, <2>6
    <2>8. answers' \in [Connections -> Seq(Answer)]
      BY <1>5, <2>3, <2>6
    <2>9. Matched(c)'
      BY <1>4, <2>3, <2>7
    <2> QED
      BY <1>7, <2>3, <2>4, <2>5, <2>7, <2>8, <2>9
  <1> QED
    BY <1>6, <1>7

\* A connection that a step does not touch.
LEMMA OtherAnswers ==
  ASSUME NEW d \in Connections, AnswerOK(d), pc'[d] = pc[d],
         stage'[d] = stage[d], client'[d] = client[d], inbox'[d] = inbox[d],
         sent'[d] = sent[d], placed'[d] = placed[d], answers'[d] = answers[d]
  PROVE  AnswerOK(d)'
  <1>1. /\ Asked(d)' = Asked(d) /\ Reading(d)' = Reading(d) /\ (Busy(d)' <=> Busy(d))
        /\ \A i : Rank(d, i)' = Rank(d, i)
    BY DEF Asked, Reading, Busy, Rank
  <1>2. InStep(d)'
    <2>1. Rank(d, Reading(d))' = Rank(d, Reading(d))
      BY <1>1 DEF Rank
    <2> QED
      BY <1>1, <2>1 DEF InStep, AnswerOK
  <1>3. Matched(d)'
    BY <1>1 DEF Matched, Fits, AnswerOK
  <1>4. Refused(d)' /\ Told(d)'
    BY DEF Refused, Told, Restored, AnswerOK
  <1> QED
    BY <1>2, <1>3, <1>4 DEF AnswerOK

\* Whoever is served gave the token, and the first answer says so.
LEMMA ServedAdmitted ==
  ASSUME SessionInv', NEW c \in Connections, Matched(c)', answers'[c] \in Seq(Answer),
         stage'[c] = "serving"
  PROVE  Refused(c)'
  <1> DEFINE n == Len(sent'[c])  A == Asked(c)'  s == sent'[c]  a == answers'[c]
  <1>1. s \in Seq(Lines) /\ s # << >> /\ Head(s) = "auth" /\ n \in Nat
    BY DEF SessionInv, SessionType, SessionOK, Admitted
  <1>2. A \in SUBSET (1..n) /\ 1 \in A /\ s[1] = "auth" /\ a \in Seq(Answer) /\ Fits(a, A, s)
    <2>1. DOMAIN s = 1..n /\ n >= 1 /\ s[1] = "auth"
      BY <1>1
    <2> QED
      BY <2>1 DEF Asked, Matched
  <1> HIDE DEF n, A, s, a
  <1>3. a # << >> => a[1].line = s[1]
    BY <1>1, <1>2, FirstAnswer
  <1> QED
    BY <1>2, <1>3 DEF Refused, a

\* A line that is answered at once.
LEMMA LineAnswered ==
  ASSUME SessionInv, SessionInv', AnswerInv, NEW c \in Connections, NEW line \in Lines,
         NEW ok \in BOOLEAN, NEW next \in {"serving", "closed"},
         stage[c] \in {"auth", "serving"}, ~ Busy(c), NextLine(c, line),
         Reply(c, line, ok, next), UNCHANGED <<vars, client, sent, placed>>,
         Reading(c) = 0 \/ line # "blank", ~ (line = "restore" /\ ok),
         next = "closed" => ~ ok /\ Reading(c) = 0
  PROVE  /\ answers' \in [Connections -> Seq(Answer)]
         /\ \A d \in Connections : d # c => answers'[d] = answers[d]
         /\ AnswerOK(c)'
  <1> DEFINE r == Reading(c)  e == [line |-> line, ok |-> ok]
  <1>1. /\ r \in Nat /\ answers[c] \in Seq(Answer) /\ InStep(c) /\ Refused(c) /\ Told(c)
        /\ SessionOK(c) /\ Asked(c) \in SUBSET (1..Len(sent[c])) /\ Len(sent[c]) \in Nat
    BY Places DEF AnswerOK
  <1>2. /\ Reading(c)' = r + 1 /\ line = sent[c][r + 1] /\ r + 1 \in DOMAIN sent[c]
        /\ Len(inbox'[c]) <= Len(sent'[c])
        /\ \A j \in DOMAIN inbox'[c] : inbox'[c][j] = sent'[c][Reading(c)' + j]
    BY Reads
  <1>3. r + 1 \in Asked(c)
    BY <1>1, <1>2 DEF Asked
  <1>4. client[c] = "here" => Len(answers[c]) = Rank(c, r)
    <2>1. client[c] = "here" => Len(answers[c]) + 0 = Rank(c, r)
      BY <1>1 DEF InStep
    <2>2. Len(answers[c]) \in Nat
      <3> HIDE DEF Answer
      <3> QED
        BY <1>1
    <2> QED
      BY <2>1, <2>2
  <1>5. /\ answers' \in [Connections -> Seq(Answer)]
        /\ \A d \in Connections : d # c => answers'[d] = answers[d]
        /\ Matched(c)'
        /\ client[c] # "here" => answers'[c] = answers[c]
        /\ client[c] = "here" =>
              /\ Len(answers'[c]) = Rank(c, r + 1)
              /\ answers'[c] = Append(answers[c], e)
    BY <1>1, <1>2, <1>3, <1>4, Replies
  <1>6. stage'[c] = next /\ ~ Busy(c)' /\ pc' = pc
    BY DEF SessionInv, SessionType, Reply, Busy, vars
  <1>7. InStep(c)'
    <2>1. Rank(c, Reading(c))' = Rank(c, r + 1)
      <3>1. Asked(c)' = Asked(c)
        BY DEF Asked
      <3> QED
        BY <1>2, <3>1, Zenon DEF Rank
    <2>2. client[c] # "away"
      BY <1>1 DEF SessionOK
    <2>3. client[c] = "here" => Len(answers'[c]) + 0 = Rank(c, r + 1)
      <3>1. Rank(c, r + 1) \in Nat
        BY <1>1, Ranks DEF Rank
      <3> QED
        BY <1>5, <3>1
    <2>4. Reading(c)' >= 1
      BY <1>1, <1>2
    <2> QED
      BY <1>2, <1>6, <2>1, <2>2, <2>3, <2>4 DEF InStep
  <1>8. Refused(c)'
    <2>1. CASE next = "serving"
      <3>1. answers'[c] \in Seq(Answer)
        <4> HIDE DEF Answer
        <4> QED
          BY <1>5
      <3> QED
        BY <1>5, <1>6, <2>1, <3>1, ServedAdmitted
    <2>2. CASE next = "closed" /\ client[c] # "here"
      BY <1>1, <1>5, <1>6, <2>2 DEF Refused
    <2>3. CASE next = "closed" /\ client[c] = "here"
      <3>1. Len(answers[c]) = 0 /\ ~ ok
        <4>1. Rank(c, 0) = 0
          BY <1>1, Ranks DEF Rank
        <4> QED
          BY <1>4, <2>3, <4>1
      <3>2. Append(answers[c], e) = answers'[c] /\ Len(answers'[c]) = 1 /\ answers'[c][1] = e
        <4>1. e \in Answer
          BY DEF Answer
        <4> HIDE DEF Answer, e
        <4>2. Len(Append(answers[c], e)) = 0 + 1 /\ Append(answers[c], e)[0 + 1] = e
          BY <1>1, <3>1, <4>1, Appended
        <4> QED
          BY <1>5, <2>3, <4>2 DEF e
      <3> QED
        BY <1>6, <2>3, <3>1, <3>2 DEF Refused
    <2> QED
      BY <2>1, <2>2, <2>3
  <1>9. Told(c)'
    <2>1. pc[c] = "idle" /\ placed' = placed /\ client' = client
      BY DEF Busy
    <2>2. CASE client[c] = "here"
      <3>1. e \in Answer /\ ~ (e.line = "restore" /\ e.ok)
        BY DEF Answer
      <3>2. Restored(Append(answers[c], e)) = Restored(answers[c])
        <4> HIDE DEF Answer, e
        <4> QED
          BY <1>1, <3>1, NextRestored
      <3>3. Restored(answers'[c]) = Restored(answers[c])
        BY <1>5, <2>2, <3>2
      <3>4. Restored(answers[c])' = Restored(answers'[c])
        BY DEF Restored
      <3> QED
        BY <1>1, <1>6, <2>1, <3>3, <3>4 DEF Told
    <2> QED
      BY <2>1, <2>2 DEF Told
  <1> QED
    BY <1>5, <1>7, <1>8, <1>9 DEF AnswerOK

\* The first line, and those that are answered without a restore.
LEMMA AnsweredSteps ==
  ASSUME SessionInv, SessionInv', AnswerInv, NEW c \in Connections,
         Authenticate(c) \/ Serve(c) \/ RefuseRestore(c)
  PROVE  /\ answers' \in [Connections -> Seq(Answer)]
         /\ \A d \in Connections : d # c => answers'[d] = answers[d]
         /\ AnswerOK(c)'
  <1>1. CASE Authenticate(c)
    <2>1. PICK line \in Lines :
             /\ NextLine(c, line)
             /\ IF line = "auth" THEN Reply(c, line, TRUE, "serving")
                ELSE Reply(c, line, FALSE, "closed")
      BY <1>1 DEF Authenticate
    <2>2. stage[c] = "auth" /\ UNCHANGED <<vars, client, sent, placed>>
      BY <1>1 DEF Authenticate
    <2>3. ~ Busy(c) /\ Reading(c) = 0
      <3>1. inbox[c] = sent[c] /\ ~ Busy(c) /\ Len(sent[c]) \in Nat
        BY <2>2, Places DEF SessionOK
      <3> QED
        BY <3>1 DEF Reading
    <2>4. CASE line = "auth"
      <3>1. /\ Reply(c, line, TRUE, "serving") /\ NextLine(c, line)
            /\ ~ (line = "restore" /\ TRUE)
        BY <2>1, <2>4
      <3> QED
        BY <2>2, <2>3, <3>1, LineAnswered
    <2>5. CASE line # "auth"
      <3>1. Reply(c, line, FALSE, "closed") /\ NextLine(c, line)
        BY <2>1, <2>5
      <3> QED
        BY <2>2, <2>3, <3>1, LineAnswered
    <2> QED
      BY <2>4, <2>5
  <1>2. CASE Serve(c)
    <2>1. PICK line \in {"auth", "other"} : NextLine(c, line) /\ Reply(c, line, FALSE, "serving")
      BY <1>2 DEF Serve
    <2>2. stage[c] = "serving" /\ ~ Busy(c) /\ UNCHANGED <<vars, client, sent, placed>>
      BY <1>2 DEF Serve
    <2>3. line \in Lines /\ line # "blank"
      BY DEF Lines
    <2> QED
      BY <2>1, <2>2, <2>3, LineAnswered
  <1>3. CASE RefuseRestore(c)
    <2>1. /\ stage[c] = "serving" /\ ~ Busy(c) /\ UNCHANGED <<vars, client, sent, placed>>
          /\ NextLine(c, "restore") /\ Reply(c, "restore", FALSE, "serving")
      BY <1>3 DEF RefuseRestore
    <2>2. "restore" \in Lines
      BY DEF Lines
    <2> QED
      BY <2>1, <2>2, LineAnswered
  <1> QED
    BY <1>1, <1>2, <1>3

\* Nothing fits as answers to nothing.
LEMMA NoAnswers ==
  ASSUME NEW n \in Nat, NEW A \in SUBSET (1..n), NEW s
  PROVE  Fits(<< >>, A, s) /\ Restored(<< >>) = {} /\ Cardinality(Restored(<< >>)) = 0
  <1>1. Len(<< >>) = 0
    OBVIOUS
  <1>2. \A i \in A : ~ (Cardinality(A \cap 1..i) <= 0)
    <2> TAKE i \in A
    <2>1. i \in Nat
      OBVIOUS
    <2>2. Cardinality(A \cap 1..i) \in Nat /\ Cardinality(A \cap 1..i) >= 1
      BY <2>1, Ranks, Zenon
    <2> QED
      BY <2>2
  <1>3. 0 <= Cardinality(A)
    <2>1. Cardinality(A) \in Nat
      <3>1. 0 \in Nat
        OBVIOUS
      <3> QED
        BY <3>1, Ranks, Zenon
    <2> QED
      BY <2>1
  <1>4. Restored(<< >>) = {}
    BY <1>1 DEF Restored
  <1> QED
    BY <1>1, <1>2, <1>3, <1>4, FS_EmptySet DEF Fits

\* A client that comes or goes.
LEMMA ComesOrGoes ==
  ASSUME SessionInv, SessionInv', AnswerInv, NEW c \in Connections, Connect(c) \/ Leave(c)
  PROVE  /\ answers' \in [Connections -> Seq(Answer)]
         /\ \A d \in Connections : d # c => answers'[d] = answers[d]
         /\ AnswerOK(c)'
  <1>0. /\ answers \in [Connections -> Seq(Answer)]
        /\ InStep(c) /\ Matched(c) /\ Refused(c) /\ Told(c) /\ SessionOK(c)
        /\ sent \in [Connections -> Seq(Lines)] /\ inbox \in [Connections -> Seq(Lines)]
        /\ client \in [Connections -> {"away", "here", "gone"}]
        /\ stage \in [Connections -> {"none", "auth", "serving", "closed"}]
        /\ Len(sent[c]) \in Nat /\ Asked(c) \in SUBSET (1..Len(sent[c]))
    BY Places DEF AnswerInv, AnswerOK, SessionInv, SessionType
  <1>00. Len(sent'[c]) \in Nat /\ Asked(c)' \in SUBSET (1..Len(sent'[c]))
    BY DEF SessionInv, SessionType, Asked
  <1>1. CASE Connect(c)
    <2>1. /\ client[c] = "away" /\ client'[c] = "here" /\ stage'[c] = "auth"
          /\ inbox'[c] = sent'[c] /\ UNCHANGED <<vars, answers, placed>>
      BY <1>0, <1>1 DEF Connect
    <2>2. answers[c] = << >> /\ answers'[c] = << >>
      BY <1>0, <2>1 DEF InStep
    <2>3. Reading(c)' = 0 /\ ~ Busy(c) /\ ~ Busy(c)' /\ placed[c] = 0 /\ pc' = pc
      <3>1. Reading(c)' = Len(sent'[c]) - Len(sent'[c])
        BY <2>1 DEF Reading
      <3>2. ~ Busy(c) /\ placed[c] = 0 /\ pc' = pc
        BY <1>0, <2>1 DEF SessionOK, vars
      <3> QED
        BY <1>00, <3>1, <3>2 DEF Busy
    <2>4. Matched(c)' /\ Cardinality(Restored(answers'[c])) = 0
      BY <1>00, <2>2, NoAnswers DEF Matched
    <2>5. Refused(c)'
      BY <2>2 DEF Refused
    <2>6. Told(c)'
      <3>1. Cardinality(Restored(answers[c]))' = 0
        BY <2>4 DEF Restored
      <3> QED
        BY <2>1, <2>3, <3>1 DEF Told, Busy
    <2>7. InStep(c)'
      <3>1. Rank(c, Reading(c))' = Cardinality(Asked(c)' \cap 1..0)
        BY <2>3, Zenon DEF Rank
      <3>2. Cardinality(Asked(c)' \cap 1..0) = 0 /\ Len(answers'[c]) = 0
        BY <1>00, <2>2, Ranks
      <3>3. \A j \in DOMAIN sent'[c] : 0 + j = j
        BY DEF SessionInv, SessionType
      <3> QED
        BY <1>00, <2>1, <2>3, <3>1, <3>2, <3>3 DEF InStep
    <2> QED
      BY <1>0, <2>1, <2>4, <2>5, <2>6, <2>7 DEF AnswerOK
  <1>2. CASE Leave(c)
    <2>1. /\ client'[c] = "gone" /\ client[c] = "here" /\ answers' = [answers EXCEPT ![c] = << >>]
          /\ UNCHANGED <<vars, stage, inbox, sent, placed>>
      BY <1>0, <1>2 DEF Leave
    <2>2. /\ answers'[c] = << >>
          /\ \A d \in Connections : d # c => answers'[d] = answers[d]
      BY <1>0, <2>1
    <2>3. answers' \in [Connections -> Seq(Answer)]
      <3>1. << >> \in Seq(Answer)
        <4> HIDE DEF Answer
        <4> QED
          OBVIOUS
      <3> HIDE DEF Answer
      <3> QED
        BY <1>0, <2>1, <3>1
    <2>4. Matched(c)' /\ Refused(c)' /\ Told(c)'
      BY <1>00, <2>1, <2>2, NoAnswers DEF Matched, Refused, Told
    <2>5. InStep(c)'
      <3>1. Reading(c)' = Reading(c) /\ (Busy(c)' <=> Busy(c))
        BY <2>1 DEF Reading, Busy, vars
      <3> QED
        BY <1>0, <2>1, <3>1 DEF InStep
    <2> QED
      BY <2>2, <2>3, <2>4, <2>5 DEF AnswerOK
  <1> QED
    BY <1>1, <1>2

\* Lines that are read without an answer: a blank one, and that of a restore, which is
\* answered when it ends.
LEMMA ReadOnly ==
  ASSUME SessionInv, SessionInv', AnswerInv, NEW c \in Connections, Skip(c) \/ BeginRestore(c)
  PROVE  AnswerOK(c)' /\ answers' = answers
  <1> DEFINE r == Reading(c)  n == Len(sent[c])  k == Len(answers[c])
  <1>1. /\ r \in Nat /\ answers[c] \in Seq(Answer) /\ InStep(c) /\ Refused(c) /\ Told(c)
        /\ Matched(c) /\ SessionOK(c) /\ Asked(c) \in SUBSET (1..n) /\ n \in Nat
    BY Places DEF AnswerOK
  <1>2. PICK line : /\ NextLine(c, line) /\ line \in {"blank", "restore"}
                    /\ line = "blank" => pc' = pc
                    /\ line = "restore" => pc'[c] = "lookWorld"
    <2>1. CASE Skip(c)
      BY <2>1 DEF Skip, vars
    <2>2. CASE BeginRestore(c)
      <3>1. pc'[c] = "lookWorld"
        BY <2>2 DEF BeginRestore, Build, Goto, SessionInv, TypeOK, Connections
      <3> QED
        BY <2>2, <3>1 DEF BeginRestore
    <2> QED
      BY <2>1, <2>2
  <1>3. /\ UNCHANGED <<stage, client, sent, answers, placed>>
        /\ stage[c] = "serving" /\ pc[c] = "idle" /\ ~ Busy(c)
    BY DEF Skip, BeginRestore, Busy
  <1>4. /\ Reading(c)' = r + 1 /\ line = sent[c][r + 1] /\ r + 1 \in DOMAIN sent[c]
        /\ Len(inbox'[c]) <= Len(sent'[c])
        /\ \A j \in DOMAIN inbox'[c] : inbox'[c][j] = sent'[c][Reading(c)' + j]
    BY <1>2, <1>3, Reads
  <1>5. r >= 1
    BY <1>1, <1>3 DEF InStep
  <1>6. Asked(c)' = Asked(c) /\ (line = "restore" <=> r + 1 \in Asked(c))
    BY <1>1, <1>2, <1>3, <1>4, <1>5 DEF Asked
  <1>7. pc'[c] # "lookOld" /\ (Busy(c)' <=> line = "restore")
    BY <1>2, <1>3 DEF Busy
  <1>8. Rank(c, Reading(c))' = Rank(c, r) + (IF line = "restore" THEN 1 ELSE 0)
    <2>1. Rank(c, Reading(c))' = Cardinality(Asked(c) \cap 1..r + 1)
      BY <1>4, <1>6, Zenon DEF Rank
    <2>2. Rank(c, r) = Cardinality(Asked(c) \cap 1..r)
      BY DEF Rank
    <2> HIDE DEF r, n
    <2>3. /\ r + 1 \in Asked(c) =>
               Cardinality(Asked(c) \cap 1..r + 1) = Cardinality(Asked(c) \cap 1..r) + 1
          /\ r + 1 \notin Asked(c) =>
               Cardinality(Asked(c) \cap 1..r + 1) = Cardinality(Asked(c) \cap 1..r)
          /\ Cardinality(Asked(c) \cap 1..r) \in Nat
      BY <1>1, Ranks
    <2> QED
      BY <1>6, <2>1, <2>2, <2>3
  <1>9. InStep(c)'
    <2>1. client[c] = "here" => k + 0 = Rank(c, r) /\ k \in Nat
      <3>1. k \in Nat
        <4> HIDE DEF Answer
        <4> QED
          BY <1>1
      <3> QED
        BY <1>1, <1>3, <3>1 DEF InStep
    <2>2. client'[c] = "here" => k + (IF Busy(c)' THEN 1 ELSE 0) = Rank(c, Reading(c))'
      <3>1. CASE line = "restore"
        <4>1. Rank(c, Reading(c))' = Rank(c, r) + 1 /\ Busy(c)'
          BY <1>7, <1>8, <3>1
        <4> QED
          BY <1>3, <2>1, <4>1
      <3>2. CASE line # "restore"
        <4>1. Rank(c, Reading(c))' = Rank(c, r) + 0 /\ ~ Busy(c)'
          BY <1>7, <1>8, <3>2
        <4> QED
          BY <1>3, <2>1, <4>1
      <3> QED
        BY <3>1, <3>2
    <2>3. client[c] # "away"
      BY <1>1, <1>3 DEF SessionOK
    <2>4. Reading(c)' >= 1 /\ (Busy(c)' => sent'[c][Reading(c)'] = "restore")
      BY <1>1, <1>3, <1>4, <1>7
    <2> QED
      BY <1>3, <1>4, <2>2, <2>3, <2>4 DEF InStep
  <1>10. Matched(c)'
    BY <1>1, <1>3, <1>6 DEF Matched, Fits
  <1>11. Refused(c)'
    BY <1>1, <1>3 DEF Refused
  <1>12. Told(c)'
    BY <1>1, <1>3, <1>7 DEF Told, Restored
  <1> QED
    BY <1>3, <1>9, <1>10, <1>11, <1>12 DEF AnswerOK

\* A restore up to its second rename: its tree is put in place there, and nowhere else.
LEMMA Restoring ==
  ASSUME SessionInv, SessionInv', SwapInv, AnswerInv, NEW c \in Connections, RunRestore(c)
  PROVE  AnswerOK(c)' /\ answers' = answers
  <1>1. InStep(c) /\ Refused(c) /\ Told(c) /\ Matched(c) /\ SessionOK(c)
    BY Places DEF AnswerOK
  <1>2. UNCHANGED <<stage, client, inbox, sent, answers>>
    BY DEF RunRestore
  <1>3. pc[c] \in {"lookWorld", "moveOld", "moveNew"} /\ pc'[c] # "idle"
    BY DEF RunRestore, LookWorld, MoveOld, MoveNew, Goto, SwapInv, TypeOK, Connections
  <1>4. placed'[c] = placed[c] + (IF pc'[c] = "lookOld" THEN 1 ELSE 0) /\ placed[c] \in Nat
    <2>1. /\ placed[c] \in Nat
          /\ placed'[c] = IF world' = c /\ world # c THEN placed[c] + 1 ELSE placed[c]
      BY DEF SessionInv, SessionType, RunRestore
    <2>2. CASE LookWorld(c) \/ MoveOld(c)
      <3>1. pc'[c] # "lookOld"
        BY <2>2 DEF LookWorld, MoveOld, Goto, SwapInv, TypeOK, Connections
      <3>2. ~ (world' = c /\ world # c)
        BY <2>2, SwapAssumption DEF LookWorld, MoveOld, dirVars, Trees, Connections
      <3> QED
        BY <2>1, <3>1, <3>2
    <2>3. CASE MoveNew(c)
      <3>1. pc'[c] = "lookOld"
        BY <2>3 DEF MoveNew, Goto, SwapInv, TypeOK, Connections
      <3>2. world' = c
        BY <2>3 DEF MoveNew, SwapInv, Built, Connections
      <3>3. world # c
        BY <2>3, SwapAssumption DEF MoveNew, Free, Trees, Connections
      <3> QED
        BY <2>1, <3>1, <3>2, <3>3
    <2> QED
      BY <2>2, <2>3 DEF RunRestore
  <1>5. Reading(c)' = Reading(c) /\ Asked(c)' = Asked(c) /\ Busy(c) /\ Busy(c)'
    BY <1>2, <1>3 DEF Reading, Asked, Busy
  <1>6. InStep(c)'
    <2>1. Rank(c, Reading(c))' = Rank(c, Reading(c))
      BY <1>5, Zenon DEF Rank
    <2> QED
      BY <1>1, <1>2, <1>5, <2>1 DEF InStep
  <1>7. Matched(c)' /\ Refused(c)'
    BY <1>1, <1>2, <1>5 DEF Matched, Fits, Refused
  <1>8. Told(c)'
    <2> DEFINE t == Cardinality(Restored(answers[c]))
    <2>1. t \in Nat
      <3>1. answers[c] \in Seq(Answer) /\ [line |-> "auth", ok |-> TRUE] \in Answer
        BY Places DEF Answer, Lines
      <3> HIDE DEF Answer
      <3> QED
        BY <3>1, NextRestored
    <2>2. t' = t
      BY <1>2 DEF Restored
    <2>3. client[c] = "here" => placed[c] = t + 0
      BY <1>1, <1>3 DEF Told
    <2>4. Told(c)' <=> (client'[c] = "here" => placed'[c] = t' + (IF pc'[c] = "lookOld" THEN 1 ELSE 0))
      BY DEF Told
    <2> HIDE DEF t
    <2> QED
      BY <1>2, <1>4, <2>1, <2>2, <2>3, <2>4
  <1> QED
    BY <1>2, <1>6, <1>7, <1>8 DEF AnswerOK

\* A restore ends, and its line is answered: with ok when its tree is in place.
LEMMA Ending ==
  ASSUME SessionInv, SessionInv', AnswerInv, NEW c \in Connections, EndRestore(c)
  PROVE  /\ answers' \in [Connections -> Seq(Answer)]
         /\ \A d \in Connections : d # c => answers'[d] = answers[d]
         /\ AnswerOK(c)'
  <1> DEFINE ok == pc[c] = "lookOld"  e == [line |-> "restore", ok |-> ok]
             n == Len(sent[c])  k == Len(answers[c])
  <1>1. /\ Reading(c) \in Nat /\ Reading(c) <= n /\ answers[c] \in Seq(Answer) /\ InStep(c)
        /\ Refused(c) /\ Told(c) /\ Matched(c) /\ SessionOK(c)
        /\ Asked(c) \in SUBSET (1..n) /\ n \in Nat /\ sent[c] \in Seq(Lines)
    BY Places DEF AnswerOK
  <1>2. /\ Reply(c, "restore", ok, "serving") /\ UNCHANGED <<client, inbox, sent, placed>>
        /\ pc[c] # "idle" /\ pc'[c] = "idle" /\ ok \in BOOLEAN
    BY DEF EndRestore, LookOld, MoveOldFails, MoveNewFails, Goto, SessionInv, TypeOK, Connections
  <1>3. /\ stage[c] = "serving" /\ stage'[c] = "serving" /\ Busy(c) /\ ~ Busy(c)'
        /\ Reading(c) >= 1 /\ sent[c][Reading(c)] = "restore" /\ client[c] # "away"
    BY <1>1, <1>2 DEF SessionOK, InStep, Busy, Reply, SessionInv, SessionType
  <1>4. PICK r \in Nat : Reading(c) = r + 1
    <2>1. Reading(c) - 1 \in Nat /\ Reading(c) = (Reading(c) - 1) + 1
      BY <1>1, <1>3
    <2> QED
      BY <2>1
  <1>5. r + 1 \in Asked(c) /\ "restore" = sent[c][r + 1]
    <2>1. r + 1 \in DOMAIN sent[c] /\ sent[c][r + 1] # "blank"
      BY <1>1, <1>3, <1>4
    <2> QED
      BY <1>3, <1>4, <2>1 DEF Asked
  <1>6. client[c] = "here" => k = Rank(c, r)
    <2> HIDE DEF n
    <2>1. /\ Rank(c, r + 1) = Rank(c, r) + 1 /\ Rank(c, r) \in Nat
      BY <1>1, <1>4, <1>5, Ranks DEF Rank
    <2>2. k \in Nat
      <3> HIDE DEF Answer
      <3> QED
        BY <1>1
    <2>3. client[c] = "here" => k + 1 = Rank(c, r + 1)
      BY <1>1, <1>3, <1>4 DEF InStep
    <2> QED
      BY <2>1, <2>2, <2>3
  <1>7. /\ answers' \in [Connections -> Seq(Answer)]
        /\ \A d \in Connections : d # c => answers'[d] = answers[d]
        /\ Matched(c)'
        /\ client[c] # "here" => answers'[c] = answers[c]
        /\ client[c] = "here" =>
              /\ Len(answers'[c]) = Rank(c, r + 1)
              /\ answers'[c] = Append(answers[c], e)
    <2>1. "restore" \in Lines
      BY DEF Lines
    <2> HIDE DEF ok, n
    <2> QED
      BY <1>2, <1>4, <1>5, <1>6, <2>1, Replies
  <1>8. InStep(c)'
    <2>1. Reading(c)' = Reading(c) /\ Asked(c)' = Asked(c)
      BY <1>2 DEF Reading, Asked
    <2>2. Rank(c, Reading(c))' = Rank(c, r + 1)
      BY <1>4, <2>1, Zenon DEF Rank
    <2>3. Rank(c, r + 1) \in Nat
      BY <1>1, Ranks DEF Rank
    <2>4. client'[c] = "here" => Len(answers'[c]) + 0 = Rank(c, Reading(c))'
      BY <1>2, <1>7, <2>2, <2>3
    <2> QED
      BY <1>1, <1>2, <1>3, <2>1, <2>4 DEF InStep
  <1>9. Refused(c)'
    <2>1. answers'[c] \in Seq(Answer)
      <3> HIDE DEF Answer
      <3> QED
        BY <1>7
    <2> QED
      BY <1>3, <1>7, <2>1, ServedAdmitted
  <1>10. Told(c)'
    <2>1. CASE client[c] # "here"
      BY <1>2, <2>1 DEF Told
    <2>2. CASE client[c] = "here"
      <3> DEFINE t == Cardinality(Restored(answers[c]))  u == Cardinality(Restored(answers'[c]))
      <3>1. e \in Answer /\ e.line = "restore" /\ (e.ok <=> ok)
        BY <1>2 DEF Answer, Lines
      <3>2. t \in Nat /\ (ok => u = t + 1) /\ (~ ok => u = t)
        <4> HIDE DEF Answer, e, ok
        <4>1. /\ t \in Nat
              /\ ok => Cardinality(Restored(Append(answers[c], e))) = t + 1
              /\ ~ ok => Restored(Append(answers[c], e)) = Restored(answers[c])
          BY <1>1, <3>1, NextRestored
        <4> QED
          BY <1>7, <2>2, <4>1
      <3>3. placed[c] = t + (IF ok THEN 1 ELSE 0)
        BY <1>1, <2>2 DEF Told
      <3>4. Told(c)' <=> (client'[c] = "here" => placed'[c] = u + (IF pc'[c] = "lookOld" THEN 1 ELSE 0))
        BY DEF Told, Restored
      <3>5. placed'[c] = placed[c] /\ pc'[c] # "lookOld"
        BY <1>2
      <3> HIDE DEF t, u
      <3>6. placed[c] = u + 0
        <4>1. CASE ok
          BY <3>2, <3>3, <4>1
        <4>2. CASE ~ ok
          BY <3>2, <3>3, <4>2
        <4> QED
          BY <4>1, <4>2
      <3> QED
        BY <3>4, <3>5, <3>6
    <2> QED
      BY <2>1, <2>2
  <1> QED
    BY <1>7, <1>8, <1>9, <1>10 DEF AnswerOK

\* A connection whose lines are dropped, and its client with them.
LEMMA Dropped ==
  ASSUME SessionInv, AnswerInv, NEW c \in Connections, inbox'[c] = << >>,
         client'[c] # "here", client'[c] = "away" => client[c] = "away",
         stage'[c] \in {"none", "closed"}, ~ Busy(c)', sent' = sent, answers' = answers
  PROVE  AnswerOK(c)'
  <1>1. InStep(c) /\ Refused(c) /\ Matched(c) /\ Len(sent[c]) \in Nat
    BY Places DEF AnswerOK
  <1>2. InStep(c)'
    <2>1. Len(<< >>) = 0 /\ DOMAIN << >> = {}
      OBVIOUS
    <2> QED
      BY <1>1, <2>1 DEF InStep
  <1>3. Matched(c)' /\ Refused(c)' /\ Told(c)'
    BY <1>1 DEF Matched, Fits, Asked, Refused, Told
  <1> QED
    BY <1>2, <1>3 DEF AnswerOK

\* A step of a connection leaves its answers in order.
LEMMA AnswersKept ==
  ASSUME SessionInv, SessionInv', SwapInv, AnswerInv, NEW c \in Connections,
         Connect(c) \/ Leave(c) \/ Handle(c) \/ Clean(c)
  PROVE  /\ answers' \in [Connections -> Seq(Answer)]
         /\ \A d \in Connections : d # c => answers'[d] = answers[d]
         /\ AnswerOK(c)'
  <1>0. answers \in [Connections -> Seq(Answer)] /\ AnswerOK(c)
    BY DEF AnswerInv
  <1>1. CASE Connect(c) \/ Leave(c)
    BY <1>1, ComesOrGoes
  <1>2. CASE Clean(c)
    <2>1. UNCHANGED <<stage, client, inbox, sent, placed, answers, pc>>
      BY <1>2 DEF Clean, ipcVars, CleanUpStep, CleanUp, CleanedUp, RemoveDir, CleanUpFails
    <2> QED
      BY <1>0, <2>1, OtherAnswers
  <1>3. CASE Authenticate(c) \/ Serve(c) \/ RefuseRestore(c)
    BY <1>3, AnsweredSteps
  <1>4. CASE Skip(c) \/ BeginRestore(c)
    BY <1>0, <1>4, ReadOnly
  <1>5. CASE RunRestore(c)
    BY <1>0, <1>5, Restoring
  <1>6. CASE EndRestore(c)
    BY <1>6, Ending
  <1>7. CASE HangUp(c)
    <2>1. /\ inbox'[c] = << >> /\ client'[c] = "gone" /\ stage'[c] = "closed" /\ ~ Busy(c)'
          /\ sent' = sent /\ answers' = answers
      BY <1>7 DEF HangUp, vars, Busy, SessionInv, SessionType
    <2> QED
      BY <1>0, <2>1, Dropped
  <1> QED
    BY <1>1, <1>2, <1>3, <1>4, <1>5, <1>6, <1>7 DEF Handle

\* Before anyone connects.
LEMMA InitAnswers == ServiceInit => AnswerInv
  <1> SUFFICES ASSUME ServiceInit, NEW c \in Connections
               PROVE  answers \in [Connections -> Seq(Answer)] /\ AnswerOK(c)
    BY DEF AnswerInv, ServiceInit
  <1>1. /\ sent[c] = << >> /\ inbox[c] = << >> /\ answers[c] = << >> /\ placed[c] = 0
        /\ client[c] = "away" /\ stage[c] = "none" /\ ~ Busy(c)
    BY DEF ServiceInit, Init, Busy, Connections
  <1>2. answers \in [Connections -> Seq(Answer)]
    <2>1. << >> \in Seq(Answer)
      <3> HIDE DEF Answer
      <3> QED
        OBVIOUS
    <2> HIDE DEF Answer
    <2> QED
      BY <2>1 DEF ServiceInit
  <1>3. Matched(c)
    <2>1. Asked(c) \in SUBSET (1..0) /\ 0 \in Nat
      BY <1>1 DEF Asked
    <2> QED
      BY <1>1, <2>1, NoAnswers DEF Matched
  <1>4. InStep(c)
    <2>1. Len(<< >>) = 0 /\ DOMAIN << >> = {}
      OBVIOUS
    <2> QED
      BY <1>1, <2>1 DEF InStep
  <1>5. Refused(c) /\ Told(c)
    BY <1>1 DEF Refused, Told
  <1> QED
    BY <1>2, <1>3, <1>4, <1>5 DEF AnswerOK

\* The invariant is inductive, next to those of the restores and of the sessions.
LEMMA AnswersStep ==
  SessionInv /\ SessionInv' /\ SwapInv /\ AnswerInv /\ [ServiceNext]_serviceVars => AnswerInv'
  <1> SUFFICES ASSUME SessionInv, SessionInv', SwapInv, AnswerInv, [ServiceNext]_serviceVars
               PROVE  AnswerInv'
    OBVIOUS
  <1>0. answers \in [Connections -> Seq(Answer)] /\ \A c \in Connections : AnswerOK(c)
    BY DEF AnswerInv
  <1>1. CASE UNCHANGED serviceVars
    <2>1. UNCHANGED <<stage, client, inbox, sent, placed, answers, pc>>
      BY <1>1 DEF serviceVars, vars, ipcVars
    <2>2. \A c \in Connections : AnswerOK(c)'
      BY <1>0, <2>1, OtherAnswers
    <2> QED
      BY <1>0, <2>1, <2>2 DEF AnswerInv
  <1>2. CASE CrashService
    <2>1. ASSUME NEW c \in Connections
          PROVE  AnswerOK(c)'
      <3>1. /\ inbox'[c] = << >> /\ client'[c] # "here" /\ sent' = sent /\ answers' = answers
            /\ client'[c] = "away" => client[c] = "away"
            /\ stage'[c] \in {"none", "closed"} /\ ~ Busy(c)'
        BY <1>2 DEF CrashService, Crash, Busy, Connections
      <3> QED
        BY <3>1, Dropped
    <2> QED
      BY <1>0, <1>2, <2>1 DEF AnswerInv, CrashService
  <1>3. ASSUME NEW c \in Connections, Connect(c) \/ Leave(c) \/ Handle(c) \/ Clean(c)
        PROVE  AnswerInv'
    <2>1. /\ answers' \in [Connections -> Seq(Answer)]
          /\ \A d \in Connections : d # c => answers'[d] = answers[d]
          /\ AnswerOK(c)'
      BY <1>3, AnswersKept
    <2>2. ASSUME NEW d \in Connections, d # c
          PROVE  AnswerOK(d)'
      <3>1. /\ stage'[d] = stage[d] /\ client'[d] = client[d] /\ inbox'[d] = inbox[d]
            /\ sent'[d] = sent[d] /\ placed'[d] = placed[d] /\ pc'[d] = pc[d]
        BY <1>3, <2>2, OthersUntouched
      <3> QED
        BY <1>0, <2>1, <2>2, <3>1, OtherAnswers
    <2> QED
      BY <2>1, <2>2 DEF AnswerInv
  <1> QED
    BY <1>1, <1>2, <1>3 DEF ServiceNext

\* Whatever clients send and when they go, whatever restores overlap and whenever the
\* process dies: a client's answers are those of its lines, in their order, a refused one is
\* not served, and ok for a restore means that its tree was put in place.
THEOREM AnswersAreTrue == ServiceSpec => []AnswersTrue
  <1>1. SessionInv /\ AnswerInv => AnswersTrue
    <2> SUFFICES ASSUME SessionInv, AnswerInv, NEW c \in Connections
                 PROVE  LET n == Len(answers[c])
                            done == {i \in 1..n : answers[c][i].line = "restore" /\ answers[c][i].ok}
                        IN  /\ n <= Cardinality(Asked(c))
                            /\ \A i \in Asked(c) : Rank(c, i) <= n =>
                                  answers[c][Rank(c, i)].line = sent[c][i]
                            /\ n > 0 /\ answers[c][1].line # "auth" => n = 1 /\ ~ answers[c][1].ok
                            /\ placed[c] > 0 => Admitted(c)
                            /\ client[c] = "here" /\ ~ Busy(c) => placed[c] = Cardinality(done)
      BY DEF AnswersTrue
    <2> DEFINE n == Len(answers[c])
    <2>1. Matched(c) /\ Refused(c) /\ Told(c) /\ SessionOK(c) /\ answers[c] \in Seq(Answer)
      BY Places DEF AnswerOK
    <2>2. /\ n <= Cardinality(Asked(c))
          /\ \A i \in Asked(c) : Rank(c, i) <= n => answers[c][Rank(c, i)].line = sent[c][i]
      BY <2>1 DEF Matched, Fits, Rank
    <2>3. n > 0 /\ answers[c][1].line # "auth" => n = 1 /\ ~ answers[c][1].ok
      <3>1. n > 0 => answers[c] # << >>
        OBVIOUS
      <3> QED
        BY <2>1, <3>1 DEF Refused
    <2>4. client[c] = "here" /\ ~ Busy(c) => placed[c] = Cardinality(Restored(answers[c]))
      <3>1. [line |-> "auth", ok |-> TRUE] \in Answer
        BY DEF Answer, Lines
      <3>2. Cardinality(Restored(answers[c])) \in Nat
        <4> HIDE DEF Answer
        <4> QED
          BY <2>1, <3>1, NextRestored
      <3>3. client[c] = "here" /\ ~ Busy(c) => placed[c] = Cardinality(Restored(answers[c])) + 0
        BY <2>1 DEF Told, Busy
      <3> QED
        BY <3>2, <3>3
    <2> QED
      BY <2>1, <2>2, <2>3, <2>4 DEF Restored, SessionOK
  <1>2. ServiceSpec => []SwapInv
    BY ServiceRestores, InitSwap, SwapStep, PTL DEF Spec
  <1>3. ServiceSpec => []SessionInv
    <2>1. SwapInv => TypeOK
      BY DEF SwapInv
    <2> QED
      BY InitSession, SessionStep, <1>2, <2>1, PTL DEF ServiceSpec
  <1> QED
    BY InitAnswers, AnswersStep, <1>1, <1>2, <1>3, PTL DEF ServiceSpec

=============================================================================
