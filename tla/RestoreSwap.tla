---------------------------- MODULE RestoreSwap -----------------------------
(***************************************************************************)
(* Full restores: the end of restore() in sidecar/src/backup/mod.rs, where *)
(* the restored tree takes the place of the world by two renames, and the  *)
(* task it spawns to remove the tree that was there.  Several restores may *)
(* be in flight (each connection of the IPC server is a task of its own),  *)
(* and no lock is held any more when the renames are made.                 *)
(*                                                                         *)
(* A tree is abstracted to where it comes from.  rename(2) moves a         *)
(* directory onto a name that is free or an empty directory, and fails on  *)
(* a directory with something in it.                                       *)
(***************************************************************************)
EXTENDS Naturals

CONSTANTS
    Restores,   \* calls of restore that may be in flight together
    Live,       \* the tree the game server writes
    MaxCrashes  \* bound on the crashes of the process

Trees == {Live} \cup Restores  \* the tree of a restore is named after it
Absent == "absent"
Removing == "removing"         \* some of it is removed
Empty == "empty"
Calls == {"moveOld", "moveNew", "cleanUp"}  \* what is called of the file system

ASSUME SwapAssumption ==
    /\ Live \notin Restores
    /\ Trees \cap {Absent, Removing, Empty} = {}
    /\ MaxCrashes \in Nat

VARIABLES
    world,    \* <server_root>/world
    old,      \* <server_root>/world_old_tmp
    sandbox,  \* .obsidian/sandbox/restore_<uuid> of each restore
    pc,       \* where each restore is
    cleanup,  \* where the task it spawned is
    swapped,  \* history: restores that put their tree in place
    crashes,
    faults    \* history: calls of the file system that failed for a reason of their own

dirVars == <<world, old, sandbox>>
vars == <<dirVars, pc, cleanup, swapped, crashes, faults>>

Init ==
    /\ world = Live
    /\ old = Absent
    /\ sandbox = [r \in Restores |-> Absent]
    /\ pc = [r \in Restores |-> "idle"]
    /\ cleanup = [r \in Restores |-> "none"]
    /\ swapped = {}
    /\ crashes = 0
    /\ faults = {}

Goto(r, l) == pc' = [pc EXCEPT ![r] = l]
Free(dir) == dir \in {Absent, Empty}

\* The call returns an error for a reason of its own: the device, a permission, a file in
\* use.  It may happen any number of times.
Fault(call) == faults' = faults \cup {call}

-----------------------------------------------------------------------------

\* The files are written to a fresh sandbox, under the lock of the index, with
\* or without all their chunks: a missing one is only reported.
Build(r) ==
    /\ pc[r] = "idle" /\ cleanup[r] = "none"
    /\ sandbox' = [sandbox EXCEPT ![r] = r]
    /\ Goto(r, "lookWorld")
    /\ UNCHANGED <<world, old, cleanup, swapped, crashes, faults>>

\* world_dir.exists()
LookWorld(r) ==
    /\ pc[r] = "lookWorld"
    /\ Goto(r, IF world = Absent THEN "moveNew" ELSE "moveOld")
    /\ UNCHANGED <<dirVars, cleanup, swapped, crashes, faults>>

\* Bug: the world is deleted instead of being renamed.
MoveOld_Deletes(r) ==
    /\ pc[r] = "moveOld"
    /\ world # Absent
    /\ world' = Absent
    /\ Goto(r, "moveNew")
    /\ UNCHANGED <<old, sandbox, cleanup, swapped, crashes, faults>>

\* Bug: the task that removes the old tree is spawned right after the rename.
MoveOld_CleansUp(r) ==
    /\ pc[r] = "moveOld"
    /\ world # Absent /\ Free(old)
    /\ old' = world
    /\ world' = Absent
    /\ cleanup' = [cleanup EXCEPT ![r] = "spawned"]
    /\ Goto(r, "moveNew")
    /\ UNCHANGED <<sandbox, swapped, crashes, faults>>

\* rename(world, world_old_tmp)
MoveOld(r) ==
    /\ pc[r] = "moveOld"
    /\ world # Absent /\ Free(old)
    /\ old' = world
    /\ world' = Absent
    /\ Goto(r, "moveNew")
    /\ UNCHANGED <<sandbox, cleanup, swapped, crashes, faults>>

\* It fails: `?` returns the error, the sandbox stays.
MoveOldFails(r) ==
    /\ pc[r] = "moveOld"
    /\ IF world = Absent \/ ~ Free(old) THEN UNCHANGED faults ELSE Fault("moveOld")
    /\ Goto(r, "idle")
    /\ UNCHANGED <<dirVars, cleanup, swapped, crashes>>

\* rename(sandbox_tx, world)
MoveNew(r) ==
    /\ pc[r] = "moveNew"
    /\ Free(world)
    /\ world' = sandbox[r]
    /\ sandbox' = [sandbox EXCEPT ![r] = Absent]
    /\ swapped' = swapped \cup {r}
    /\ Goto(r, "lookOld")
    /\ UNCHANGED <<old, cleanup, crashes, faults>>

\* Bug: the world in the way is removed before the error returns.
MoveNewFails_Removes(r) ==
    /\ pc[r] = "moveNew"
    /\ ~ Free(world)
    /\ world' = Absent
    /\ Goto(r, "idle")
    /\ UNCHANGED <<old, sandbox, cleanup, swapped, crashes, faults>>

\* Another restore was faster, or the rename fails for another reason: the error is
\* returned, what was moved away is not moved back, and no task is spawned for it.
MoveNewFails(r) ==
    /\ pc[r] = "moveNew"
    /\ IF ~ Free(world) THEN UNCHANGED faults ELSE Fault("moveNew")
    /\ Goto(r, "idle")
    /\ UNCHANGED <<dirVars, cleanup, swapped, crashes>>

\* Bug: only a tree that a restore had put in place is removed.
LookOld_OwnOnly(r) ==
    /\ pc[r] = "lookOld"
    /\ cleanup' = [cleanup EXCEPT ![r] = IF old \in {Absent, Live} THEN "none" ELSE "spawned"]
    /\ Goto(r, "idle")
    /\ UNCHANGED <<dirVars, swapped, crashes, faults>>

\* backup_dir.exists(): then the task that removes it is spawned, and restore
\* returns Ok.
LookOld(r) ==
    /\ pc[r] = "lookOld"
    /\ cleanup' = [cleanup EXCEPT ![r] = IF old = Absent THEN "none" ELSE "spawned"]
    /\ Goto(r, "idle")
    /\ UNCHANGED <<dirVars, swapped, crashes, faults>>

-----------------------------------------------------------------------------
(* remove_dir_all(world_old_tmp) *)

\* Bug: the task removes the directory of the world.
CleanUp_World(r) ==
    /\ cleanup[r] = "spawned"
    /\ world' = IF world = Absent THEN Absent ELSE Removing
    /\ cleanup' = [cleanup EXCEPT ![r] = IF old = Absent THEN "none" ELSE "removing"]
    /\ UNCHANGED <<old, sandbox, pc, swapped, crashes, faults>>

\* It opens what has that name now, and removes what it finds in it ...
CleanUp(r) ==
    /\ cleanup[r] = "spawned"
    /\ old' = IF old \in Trees THEN Removing ELSE old
    /\ cleanup' = [cleanup EXCEPT ![r] = IF old = Absent THEN "none" ELSE "removing"]
    /\ UNCHANGED <<world, sandbox, pc, swapped, crashes, faults>>

\* ... until that directory (which may be gone) is empty ...
CleanedUp(r) ==
    /\ cleanup[r] = "removing"
    /\ old' = IF old = Removing THEN Empty ELSE old
    /\ cleanup' = [cleanup EXCEPT ![r] = "rmdir"]
    /\ UNCHANGED <<world, sandbox, pc, swapped, crashes, faults>>

\* ... and removes the directory of that name, unless there is something in it.
RemoveDir(r) ==
    /\ cleanup[r] = "rmdir"
    /\ old' = IF old = Empty THEN Absent ELSE old
    /\ cleanup' = [cleanup EXCEPT ![r] = "none"]
    /\ UNCHANGED <<world, sandbox, pc, swapped, crashes, faults>>

\* It meets an error at any point: that is logged, and what is left stays.
CleanUpFails(r) ==
    /\ cleanup[r] # "none"
    /\ Fault("cleanUp")
    /\ cleanup' = [cleanup EXCEPT ![r] = "none"]
    /\ UNCHANGED <<dirVars, pc, swapped, crashes>>

\* The process dies: what was in flight is lost, and nothing looks at the
\* directories when it starts again.
Crash ==
    /\ crashes < MaxCrashes
    /\ crashes' = crashes + 1
    /\ pc' = [r \in Restores |-> "idle"]
    /\ cleanup' = [r \in Restores |-> "none"]
    /\ UNCHANGED <<dirVars, swapped, faults>>

-----------------------------------------------------------------------------

Step(r) ==
    \/ LookWorld(r) \/ MoveOld(r) \/ MoveOldFails(r) \/ MoveNew(r) \/ MoveNewFails(r)
    \/ LookOld(r)

CleanUpStep(r) == CleanUp(r) \/ CleanedUp(r) \/ RemoveDir(r) \/ CleanUpFails(r)

Next == Crash \/ \E r \in Restores : Build(r) \/ Step(r) \/ CleanUpStep(r)

Spec == Init /\ [][Next]_vars

\* tokio runs every task that is ready, and no step waits for another task.
FairSpec ==
    Spec /\ \A r \in Restores : WF_vars(Step(r)) /\ WF_vars(CleanUpStep(r))

-----------------------------------------------------------------------------
(* Properties *)

TypeOK ==
    /\ world \in Trees \cup {Absent}
    /\ old \in Trees \cup {Absent, Removing, Empty}
    /\ sandbox \in [Restores -> Restores \cup {Absent}]
    /\ pc \in [Restores -> {"idle", "lookWorld", "moveOld", "moveNew", "lookOld"}]
    /\ cleanup \in [Restores -> {"none", "spawned", "removing", "rmdir"}]
    /\ swapped \subseteq Restores
    /\ crashes \in 0..MaxCrashes
    /\ faults \subseteq Calls

\* There is always a whole tree on disk, in place or set aside: no clean-up, be it
\* as late as it will, removes a tree that another restore has just set aside.
WorldOnDisk == world \in Trees \/ old \in Trees

\* Until a restore has put its tree in place, the world that was there before is
\* there whole, whatever fails and whenever the process dies.
LiveKept == swapped = {} => Live \in {world, old}

\* There is a world except while a restore that has moved it away has its own rename
\* still to make: a restore that finds a name taken, a first rename or a clean-up
\* that fails for whatever reason never leaves the server without a world.  Two things
\* do, and are left out here: a crash between the renames, and a second rename that fails
\* although the name is free.
WorldInPlace ==
    world = Absent =>
        crashes > 0 \/ "moveNew" \in faults \/ \E r \in Restores : pc[r] = "moveNew"

\* Again and again no tree is set aside: each is removed in the end, unless the process
\* dies or a second rename or a clean-up meets an error of its own, which leave it there
\* (and while it has something in it every later restore that finds a world fails).
OldRemoved ==
    []<>(old \notin Trees \/ crashes > 0 \/ faults \cap {"moveNew", "cleanUp"} # {})

=============================================================================
