-------------------------- MODULE SceneTransaction --------------------------
(***************************************************************************)
(* Replacing the simulated world: SimulationCoordinator's scene            *)
(* transaction (coordinator.py) with the v2 runtime's rebuild transaction  *)
(* (world_runtime.py).  The Bullet bodies, the coordinator's world, the    *)
(* runtime's bindings, the LiDAR worker and the protocol's generations are *)
(* changed by one sequence of calls on the physics thread, any of which    *)
(* may fail.                                                               *)
(*                                                                         *)
(* A built world has a number; it stands for its robot, obstacle manager   *)
(* and sensor backend.  Workers are numbered too.  The clean-up of a       *)
(* candidate that could not be used is assumed to work (its errors are     *)
(* ignored by the code).  Documents are taken up to the poses of moving      *)
(* obstacles, which change without a rebuild.  "down" is a run that ended  *)
(* with an exception.                                                      *)
(***************************************************************************)
EXTENDS Integers, Sequences

CONSTANTS
    Docs,         \* scene documents
    Parts,        \* the bodies of a world
    Faults,       \* the calls that may fail
    MaxOps        \* bound on structural operations and the frames of clears

ASSUME TransactionAssumption ==
    /\ Docs # {}
    /\ Faults \subseteq {"close", "enumerate", "remove", "diagnose", "build", "worker"}
    /\ MaxOps \in Nat

VARIABLES
    pc,           \* "idle", the next call of the transaction, "clear" or "down"
    ops,          \* structural operations begun, and frames that go on clearing
    target,       \* the requested document
    failed,       \* the target could not be installed
    bodies,       \* Bullet bodies, as <<world, part>>
    built,        \* document of every world built
    world,        \* the coordinator's world and obstacle manager
    candidate,    \* the world last built
    outcome        \* state_changed and error of the last result

VARIABLES
    rtManager,    \* obstacle manager of the runtime
    rtRobot,      \* robot and sensor backend of the runtime
    rtWorker,     \* worker the sensor factory uses
    worker,       \* V2WorldRuntime._worker
    workers,      \* document and generation of every worker started
    sceneDoc,     \* V2WorldRuntime._scene_document
    prepared,     \* V2WorldRuntime._prepared and the controller's flag
    worldGen,
    cmdGen,
    begun         \* history: the operation, its world and generations at first

sceneVars == <<target, failed, bodies, built, world, candidate, outcome>>
bindVars == <<rtManager, rtRobot, rtWorker>>
workerVars == <<worker, workers, sceneDoc>>
transactionVars == <<pc, ops, sceneVars, bindVars, workerVars, prepared, worldGen, cmdGen, begun>>

Bodies(n) == {n} \X Parts

SceneInit ==
    /\ pc = "idle"
    /\ ops = 0
    /\ target \in Docs
    /\ failed = FALSE
    /\ bodies = Bodies(1)
    /\ built = <<target>>
    /\ world = 1
    /\ candidate = 1
    /\ outcome = [changed |-> FALSE, error |-> FALSE]
    /\ rtManager = 1
    /\ rtRobot = 1
    /\ rtWorker = 1
    /\ worker = 1
    /\ workers = <<[doc |-> target, gen |-> 1]>>
    /\ sceneDoc = target
    /\ prepared = FALSE
    /\ worldGen = 1
    /\ cmdGen = 1
    /\ begun = [op |-> "none", world |-> 1, gen |-> 1, cmd |-> 1]

CanFail(call) == call \in Faults

(* start_worker; the runtime's factory is made anew around the worker. *)
StartWorker(doc, gen) ==
    /\ workers' = Append(workers, [doc |-> doc, gen |-> gen])
    /\ worker' = Len(workers')
    /\ rtWorker' = Len(workers')
    /\ sceneDoc' = doc

(* fault_world_rebuild, then the exception ends the run. *)
Fault ==
    /\ pc' = "down"
    /\ prepared' = FALSE

-----------------------------------------------------------------------------
BeginOperation(op) ==
    /\ pc = "idle"
    /\ ops < MaxOps
    /\ ops' = ops + 1
    /\ begun' = [op |-> op, world |-> world, gen |-> worldGen, cmd |-> cmdGen]

(* Switch, reset, terrain and load all apply a document. *)
Begin ==
    /\ BeginOperation("scene")
    /\ target' \in Docs
    /\ failed' = FALSE
    /\ pc' = "prepare"
    /\ UNCHANGED <<bodies, built, world, candidate, outcome, bindVars, workerVars,
                   prepared, worldGen, cmdGen>>

(* prepare_world_rebuild: revoke the old commands, then close the worker,  *)
(* which is refused while a scan is in flight.                             *)
Prepare ==
    /\ pc = "prepare"
    /\ cmdGen' = cmdGen + 1
    /\ prepared' = TRUE
    /\ \/ pc' = "enumerate"
       \/ CanFail("close") /\ pc' = "abort"
    /\ UNCHANGED <<ops, sceneVars, bindVars, workerVars, worldGen, begun>>

(* Mutant: the runtime keeps its factory. *)
AbortKeepingRuntime ==
    /\ pc = "abort"
    /\ prepared' = FALSE
    /\ pc' = "idle"
    /\ workers' = Append(workers, [doc |-> sceneDoc, gen |-> worldGen])
    /\ worker' = Len(workers')
    /\ outcome' = [changed |-> FALSE, error |-> TRUE]
    /\ UNCHANGED <<ops, target, failed, bodies, built, world, candidate, rtManager,
                   rtRobot, rtWorker, sceneDoc, worldGen, cmdGen, begun>>

(* abort_world_rebuild: a new worker for the old world. *)
Abort ==
    /\ pc = "abort"
    /\ prepared' = FALSE
    /\ \/ /\ pc' = "idle"
          /\ StartWorker(sceneDoc, worldGen)
          /\ outcome' = [changed |-> FALSE, error |-> TRUE]
       \/ /\ CanFail("worker")
          /\ pc' = "down"
          /\ UNCHANGED <<workerVars, rtWorker, outcome>>
    /\ UNCHANGED <<ops, target, failed, bodies, built, world, candidate, rtManager,
                   rtRobot, worldGen, cmdGen, begun>>

(* The bodies are listed before the first is removed. *)
Enumerate ==
    /\ pc = "enumerate"
    /\ \/ pc' = "remove"
       \/ CanFail("enumerate") /\ pc' = "abort"
    /\ UNCHANGED <<ops, sceneVars, bindVars, workerVars, prepared, worldGen, cmdGen, begun>>

(* _remove_active_world_strict, body by body. *)
RemoveBody ==
    /\ pc = "remove"
    /\ \E b \in bodies : bodies' = bodies \ {b}
    /\ pc' = IF bodies' = {} THEN "build" ELSE "remove"
    /\ UNCHANGED <<ops, target, failed, built, world, candidate, outcome, bindVars,
                   workerVars, prepared, worldGen, cmdGen, begun>>

(* A removal raises, with or without effect; what is left decides. *)
RemoveFails ==
    /\ pc = "remove"
    /\ CanFail("remove")
    /\ bodies' \in {bodies} \cup {bodies \ {b} : b \in bodies}
    /\ \/ /\ pc' = IF bodies' = Bodies(world) THEN "abort" ELSE "recover"
          /\ UNCHANGED prepared
       \/ /\ CanFail("diagnose")
          /\ Fault
    /\ UNCHANGED <<ops, target, failed, built, world, candidate, outcome, bindVars,
                   workerVars, worldGen, cmdGen, begun>>

(* _recover_after_partial_removal: remove the rest or give up. *)
Recover ==
    /\ pc = "recover"
    /\ failed' = TRUE
    /\ \/ /\ bodies' = bodies \ Bodies(world)
          /\ pc' = "rollback"
          /\ UNCHANGED prepared
       \/ /\ CanFail("remove")
          /\ bodies' \in SUBSET bodies
          /\ Fault
    /\ UNCHANGED <<ops, target, built, world, candidate, outcome, bindVars, workerVars,
                   worldGen, cmdGen, begun>>

(* _build_scene for the target or for the previous document; the runtime   *)
(* is bound to the new manager before it commits.                          *)
Build ==
    /\ pc \in {"build", "rollback"}
    /\ built' = Append(built, IF pc = "build" THEN target ELSE built[world])
    /\ candidate' = Len(built')
    /\ rtManager' = Len(built')
    /\ bodies' = bodies \cup Bodies(Len(built'))
    /\ pc' = IF pc = "build" THEN "commit" ELSE "recommit"
    /\ UNCHANGED <<ops, target, failed, world, outcome, rtRobot, rtWorker, workerVars,
                   prepared, worldGen, cmdGen, begun>>

(* The target failed: go back to the previous document.  That failed too:  *)
(* the run ends.                                                           *)
GiveUp ==
    /\ failed' = TRUE
    /\ IF pc \in {"build", "commit"} THEN pc' = "rollback" /\ UNCHANGED prepared ELSE Fault

(* _build_scene raises after it has cleaned up. *)
BuildFails ==
    /\ pc \in {"build", "rollback"}
    /\ CanFail("build")
    /\ GiveUp
    /\ UNCHANGED <<ops, target, bodies, built, world, candidate, outcome, bindVars, workerVars,
                   worldGen, cmdGen, begun>>

(* state_changed is also set for an installed rollback. *)
InstalledResult == [changed |-> TRUE, error |-> failed]

(* commit_world_rebuild and _install_built_scene. *)
Commit ==
    /\ pc \in {"commit", "recommit"}
    /\ StartWorker(built[candidate], worldGen + 1)
    /\ worldGen' = worldGen + 1
    /\ prepared' = FALSE
    /\ rtRobot' = candidate
    /\ world' = candidate
    /\ outcome' = InstalledResult
    /\ pc' = "idle"
    /\ UNCHANGED <<ops, target, failed, bodies, built, candidate, rtManager, cmdGen, begun>>

(* The worker does not start; the candidate is removed. *)
CommitFails ==
    /\ pc \in {"commit", "recommit"}
    /\ CanFail("worker")
    /\ GiveUp
    /\ bodies' = bodies \ Bodies(candidate)
    /\ UNCHANGED <<ops, target, built, world, candidate, outcome, bindVars, workerVars,
                   worldGen, cmdGen, begun>>

(* refresh_scene_bindings after the set of obstacles has changed: the      *)
(* runtime prepares and commits at once.  A failure aborts, with a new     *)
(* worker for the old document if one starts, and ends the run.            *)
Refresh(done) ==
    \E doc \in Docs \ {sceneDoc} :
        /\ built' = [built EXCEPT ![world] = doc]
        /\ cmdGen' = cmdGen + 1
        /\ \/ /\ StartWorker(doc, worldGen + 1)
              /\ worldGen' = worldGen + 1
              /\ done
           \/ /\ CanFail("close") \/ CanFail("worker")
              /\ pc' = "down"
              /\ \/ /\ workers' = Append(workers, [doc |-> sceneDoc, gen |-> worldGen])
                    /\ worker' = Len(workers')
                 \/ CanFail("worker") /\ UNCHANGED <<workers, worker>>
              /\ UNCHANGED <<sceneDoc, rtWorker, worldGen, outcome>>

NoRefresh == UNCHANGED <<built, rtWorker, workerVars, worldGen, cmdGen>>

EditKeeps == UNCHANGED <<target, failed, bodies, world, candidate, rtManager, rtRobot, prepared>>

Result(next, changed, error) ==
    pc' = next /\ outcome' = [changed |-> changed, error |-> error]

(* The last frame of an addition, or a deletion: the set has changed       *)
(* exactly if it succeeded.                                                *)
AddOrDelete ==
    /\ BeginOperation("edit")
    /\ \/ Refresh(Result("idle", TRUE, FALSE))
       \/ Result("idle", FALSE, TRUE) /\ NoRefresh
    /\ EditKeeps

StartClear ==
    /\ BeginOperation("clear")
    /\ pc' = "clear"
    /\ NoRefresh /\ EditKeeps /\ UNCHANGED outcome

(* A clear ends when everything is gone, or with a removal that raises;    *)
(* state_changed is set in the first case only.                            *)
ClearEnds ==
    \/ Result("idle", TRUE, FALSE)
    \/ CanFail("remove") /\ Result("idle", FALSE, TRUE)

(* The frame's time is over: "pending" goes back in the place of an error. *)
ClearPending == Result("clear", FALSE, TRUE)

(* Every frame that has removed an obstacle refreshes the runtime before   *)
(* physics.  A frame that removed none ends the clear.                     *)
ClearFrame ==
    /\ pc = "clear"
    /\ \/ Refresh(ClearEnds \/ ClearPending)
       \/ ClearEnds /\ NoRefresh
    /\ ops' = IF pc' = "clear" THEN ops + 1 ELSE ops
    /\ ops' <= MaxOps
    /\ EditKeeps /\ UNCHANGED begun

SceneNext ==
    \/ Begin \/ Prepare \/ Abort \/ Enumerate \/ RemoveBody \/ RemoveFails
    \/ Recover \/ Build \/ BuildFails \/ Commit \/ CommitFails
    \/ AddOrDelete \/ StartClear \/ ClearFrame

SceneSpec == SceneInit /\ [][SceneNext]_transactionVars

-----------------------------------------------------------------------------
(* Properties *)

TypeOK ==
    /\ pc \in {"idle", "prepare", "abort", "enumerate", "remove", "recover", "build",
               "commit", "rollback", "recommit", "clear", "down"}
    /\ ops \in 0..MaxOps
    /\ target \in Docs
    /\ failed \in BOOLEAN
    /\ built \in Seq(Docs)
    /\ bodies \subseteq (1..Len(built)) \X Parts
    /\ {world, candidate, rtManager, rtRobot} \subseteq 1..Len(built)
    /\ outcome \in [changed : BOOLEAN, error : BOOLEAN]
    /\ workers \in Seq([doc : Docs, gen : Nat])
    /\ {worker, rtWorker} \subseteq 1..Len(workers)
    /\ sceneDoc \in Docs
    /\ prepared \in BOOLEAN
    /\ worldGen \in Nat
    /\ cmdGen \in Nat

(* Whatever failed on the way, a run that goes on, and each frame of a     *)
(* clear, has one consistent world: exactly the bodies of the              *)
(* coordinator's world, the runtime bound to its robot, manager and        *)
(* worker, the worker started for its document and generation, and no      *)
(* transaction left open.                                                  *)
WorldConsistent ==
    pc \in {"idle", "clear"} =>
        /\ bodies = Bodies(world)
        /\ rtManager = world /\ rtRobot = world
        /\ rtWorker = worker
        /\ workers[worker] = [doc |-> built[world], gen |-> worldGen]
        /\ sceneDoc = built[world]
        /\ ~prepared

(* The bodies of two worlds are never in Bullet together. *)
OneWorldAtATime == \A a, b \in bodies : a[1] = b[1]

(* What the loop can rely on when it tells Command of the new generation   *)
(* on state_changed only: an unchanged result has kept the world, and its  *)
(* generation too, for a scene, an addition or a deletion whatever failed. *)
(* A clear whose later frame fails is the exception, and says so by its    *)
(* error: Command is then not told of the generations of its removals.     *)
ChangeReported ==
    pc = "idle" /\ ~outcome.changed =>
        /\ world = begun.world
        /\ worldGen = begun.gen \/ (begun.op = "clear" /\ outcome.error)

(* Each new world of an operation has revoked the commands of the one      *)
(* before it, in every frame of a clear too, and so has a scene that       *)
(* failed on the way.                                                      *)
OldCommandsRevoked ==
    pc \in {"idle", "clear"} =>
        /\ worldGen - begun.gen <= cmdGen - begun.cmd
        /\ begun.op = "scene" /\ outcome.error => cmdGen > begun.cmd

(* A structural operation in which anything fails leaves one world, told   *)
(* to everyone who depends on it.                                          *)
TransactionSound ==
    TypeOK /\ WorldConsistent /\ OneWorldAtATime /\ ChangeReported /\ OldCommandsRevoked
=============================================================================
