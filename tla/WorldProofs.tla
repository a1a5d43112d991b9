---------------------------- MODULE WorldProofs -----------------------------
(***************************************************************************)
(* Proofs about the simulated world: the scene transaction, for any scene  *)
(* documents, any parts of a world, any calls that may fail and any number *)
(* of operations; and the obstacles, for any set of body ids, any limits   *)
(* and any set of faults.                                                  *)
(*                                                                         *)
(* The invariant of the transaction says for every place in it which       *)
(* bodies are in Bullet and to which world the runtime is bound.           *)
(* ObstaclesSound is not inductive: that a body is not shown and owed at   *)
(* the same time after a restore rests on what the manager has checked     *)
(* when the restore began, and on Bullet giving only ids that are free.    *)
(***************************************************************************)
EXTENDS SceneTransaction, ObstacleManager, SequenceTheorems, TLAPS

(* The worker and the robot belong to the coordinator's world until a run  *)
(* ends.                                                                   *)
WorkerOfWorld ==
    pc # "down" =>
        /\ rtRobot = world /\ rtWorker = worker /\ sceneDoc = built[world]
        /\ workers[worker] = [doc |-> built[world], gen |-> worldGen]

(* The bodies and the manager along the transaction. *)
BodiesOfStep ==
    /\ pc \in {"idle", "clear", "prepare", "enumerate", "abort"} => bodies = Bodies(world)
    /\ pc \in {"remove", "recover"} => bodies \subseteq Bodies(world)
    /\ pc \in {"build", "rollback"} => bodies = {}
    /\ pc \in {"commit", "recommit"} => bodies = Bodies(candidate) /\ rtManager = candidate
    /\ pc \in {"idle", "clear", "prepare", "enumerate", "abort", "remove", "recover"} =>
         rtManager = world
    /\ pc \in {"idle", "clear", "prepare"} => ~prepared

(* What the operation has changed so far: a scene nothing but the command  *)
(* generation, a clear no world.                                           *)
SinceBegun ==
    /\ pc \notin {"idle", "clear", "down"} => worldGen = begun.gen /\ world = begun.world
    /\ pc = "prepare" => cmdGen = begun.cmd
    /\ pc \notin {"idle", "prepare", "clear", "down"} => cmdGen > begun.cmd
    /\ pc = "clear" => world = begun.world /\ begun.op = "clear"
    /\ begun \in [op : {"none", "scene", "edit", "clear"}, world : Nat, gen : Nat, cmd : Nat]

SceneInv ==
    /\ TypeOK /\ WorkerOfWorld /\ BodiesOfStep /\ SinceBegun
    /\ OneWorldAtATime /\ ChangeReported /\ OldCommandsRevoked

-----------------------------------------------------------------------------
LEMMA Appended ==
  ASSUME NEW S, NEW s \in Seq(S), NEW x \in S
  PROVE  /\ Append(s, x) \in Seq(S) /\ Len(Append(s, x)) = Len(s) + 1 /\ Len(s) \in Nat
         /\ \A i \in 1..Len(s) : Append(s, x)[i] = s[i] /\ i \in 1..Len(Append(s, x))
         /\ Append(s, x)[Len(s) + 1] = x /\ Len(s) + 1 \in 1..Len(Append(s, x))
  BY AppendProperties, LenProperties

LEMMA OneWorld == ASSUME NEW n PROVE \A a, b \in Bodies(n) : a[1] = b[1]
  BY DEF Bodies

LEMMA SceneStarts == SceneInit => SceneInv
  <1> SUFFICES ASSUME SceneInit PROVE SceneInv
    OBVIOUS
  <1> USE DEF SceneInit
  <1>1. /\ built \in Seq(Docs) /\ Len(built) = 1 /\ built[1] = target
        /\ workers \in Seq([doc : Docs, gen : Nat]) /\ Len(workers) = 1
        /\ workers[1] = [doc |-> target, gen |-> 1]
    OBVIOUS
  <1>2. bodies \subseteq (1..1) \X Parts
    BY DEF Bodies
  <1>3. TypeOK
    <2>1. 0 \in 0..MaxOps /\ [changed |-> FALSE, error |-> FALSE] \in [changed : BOOLEAN, error : BOOLEAN]
      BY TransactionAssumption
    <2>2. bodies \subseteq (1..Len(built)) \X Parts
      BY <1>1, <1>2
    <2>3. /\ {world, candidate, rtManager, rtRobot} \subseteq 1..Len(built)
          /\ {worker, rtWorker} \subseteq 1..Len(workers)
      BY <1>1
    <2> QED BY <1>1, <2>1, <2>2, <2>3 DEF TypeOK
  <1>4. WorkerOfWorld /\ BodiesOfStep /\ SinceBegun /\ ChangeReported /\ OldCommandsRevoked
    <2>1. WorkerOfWorld /\ BodiesOfStep /\ SinceBegun /\ ChangeReported
      BY <1>1 DEF WorkerOfWorld, BodiesOfStep, SinceBegun, ChangeReported
    <2>2. begun.gen = 1 /\ begun.cmd = 1 /\ begun.op = "none"
      OBVIOUS
    <2> QED BY <2>1, <2>2 DEF OldCommandsRevoked
  <1>5. OneWorldAtATime
    BY OneWorld DEF OneWorldAtATime
  <1> QED BY <1>3, <1>4, <1>5 DEF SceneInv

(* A new worker for a document and a generation. *)
LEMMA StartWorkerIs ==
  ASSUME TypeOK, NEW doc \in Docs, NEW gen \in Nat, StartWorker(doc, gen)
  PROVE  /\ workers' \in Seq([doc : Docs, gen : Nat]) /\ {worker', rtWorker'} \subseteq 1..Len(workers')
         /\ rtWorker' = worker' /\ sceneDoc' = doc /\ sceneDoc' \in Docs
         /\ workers'[worker'] = [doc |-> doc, gen |-> gen]
  <1>1. [doc |-> doc, gen |-> gen] \in [doc : Docs, gen : Nat] /\ workers \in Seq([doc : Docs, gen : Nat])
    BY DEF TypeOK
  <1> QED BY <1>1, Appended DEF StartWorker

LEMMA BeginKeeps == ASSUME SceneInv, Begin PROVE SceneInv'
  <1> USE DEF Begin, BeginOperation, bindVars, workerVars
  <1>0. ops' \in 0..MaxOps
    BY TransactionAssumption DEF SceneInv, TypeOK
  <1>1. TypeOK'
    BY <1>0 DEF SceneInv, TypeOK
  <1>2. WorkerOfWorld' /\ BodiesOfStep' /\ OneWorldAtATime'
    BY DEF SceneInv, WorkerOfWorld, BodiesOfStep, OneWorldAtATime
  <1>3. world \in Nat /\ worldGen \in Nat /\ cmdGen \in Nat
    BY LenProperties DEF SceneInv, TypeOK
  <1>4. /\ begun' \in [op : {"none", "scene", "edit", "clear"}, world : Nat, gen : Nat, cmd : Nat]
        /\ begun'.op = "scene" /\ begun'.world = world /\ begun'.gen = worldGen /\ begun'.cmd = cmdGen
    BY <1>3
  <1>5. SinceBegun' /\ ChangeReported' /\ OldCommandsRevoked'
    BY <1>4 DEF SinceBegun, ChangeReported, OldCommandsRevoked
  <1> QED BY <1>1, <1>2, <1>5 DEF SceneInv

LEMMA PrepareKeeps == ASSUME SceneInv, Prepare PROVE SceneInv'
  <1> USE DEF Prepare, sceneVars, bindVars, workerVars
  <1>1. TypeOK'
    BY SMTT(30) DEF SceneInv, TypeOK
  <1>2. WorkerOfWorld' /\ BodiesOfStep' /\ OneWorldAtATime'
    BY DEF SceneInv, WorkerOfWorld, BodiesOfStep, OneWorldAtATime
  <1>3. cmdGen' > begun.cmd
    BY DEF SceneInv, SinceBegun
  <1>4. SinceBegun' /\ ChangeReported' /\ OldCommandsRevoked'
    BY <1>3 DEF SceneInv, SinceBegun, ChangeReported, OldCommandsRevoked
  <1> QED BY <1>1, <1>2, <1>4 DEF SceneInv

LEMMA AbortKeeps == ASSUME SceneInv, Abort PROVE SceneInv'
  <1>0. /\ UNCHANGED <<ops, target, failed, bodies, built, world, candidate, rtManager, rtRobot,
                       worldGen, cmdGen, begun>>
        /\ pc = "abort" /\ prepared' = FALSE
        /\ TypeOK /\ WorkerOfWorld /\ BodiesOfStep /\ SinceBegun /\ OneWorldAtATime
    BY DEF Abort, SceneInv
  <1>1. OneWorldAtATime'
    BY <1>0 DEF OneWorldAtATime
  <1>2. ASSUME pc' = "idle", StartWorker(sceneDoc, worldGen), outcome' = [changed |-> FALSE, error |-> TRUE]
        PROVE  SceneInv'
    <2>1. /\ workers' \in Seq([doc : Docs, gen : Nat]) /\ {worker', rtWorker'} \subseteq 1..Len(workers')
          /\ rtWorker' = worker' /\ sceneDoc' = sceneDoc /\ sceneDoc' \in Docs
          /\ workers'[worker'] = [doc |-> sceneDoc, gen |-> worldGen]
      BY <1>0, <1>2, StartWorkerIs DEF TypeOK
    <2>2. TypeOK'
      BY <1>0, <1>2, <2>1 DEF TypeOK
    <2>3. WorkerOfWorld' /\ BodiesOfStep'
      BY <1>0, <1>2, <2>1 DEF WorkerOfWorld, BodiesOfStep
    <2>4. SinceBegun' /\ ChangeReported'
      BY <1>0, <1>2 DEF SinceBegun, ChangeReported
    <2>5. worldGen' = begun'.gen /\ cmdGen' > begun'.cmd /\ begun'.cmd \in Nat /\ begun'.gen \in Nat
      BY <1>0 DEF SinceBegun
    <2>6. cmdGen' \in Nat
      BY <1>0 DEF TypeOK
    <2>7. OldCommandsRevoked'
      BY <2>5, <2>6 DEF OldCommandsRevoked
    <2> QED BY <1>1, <2>2, <2>3, <2>4, <2>7 DEF SceneInv
  <1>3. ASSUME pc' = "down", UNCHANGED <<workerVars, rtWorker, outcome>> PROVE SceneInv'
    <2>1. TypeOK'
      BY <1>0, <1>3 DEF TypeOK, workerVars
    <2>2. /\ WorkerOfWorld' /\ BodiesOfStep' /\ SinceBegun' /\ ChangeReported' /\ OldCommandsRevoked'
      BY <1>0, <1>3 DEF WorkerOfWorld, BodiesOfStep, SinceBegun, ChangeReported, OldCommandsRevoked
    <2> QED BY <1>1, <2>1, <2>2 DEF SceneInv
  <1> QED BY <1>2, <1>3 DEF Abort

(* Steps that only move on, take bodies away or give the target up.        *)
LEMMA RemovalKeeps ==
  ASSUME SceneInv, pc \notin {"idle", "prepare", "clear", "down"},
         UNCHANGED <<ops, target, built, world, candidate, outcome, bindVars, workerVars, worldGen,
                     cmdGen, begun>>,
         bodies' \subseteq bodies, failed' \in BOOLEAN, prepared' \in BOOLEAN,
         \/ pc' = "down"
         \/ pc' \in {"enumerate", "abort", "remove", "recover", "build", "rollback"} /\ BodiesOfStep'
  PROVE  SceneInv'
  <1>1. TypeOK'
    BY DEF SceneInv, TypeOK, bindVars, workerVars
  <1>2. WorkerOfWorld' /\ OneWorldAtATime'
    BY DEF SceneInv, WorkerOfWorld, OneWorldAtATime, bindVars, workerVars
  <1>3. SinceBegun' /\ ChangeReported' /\ OldCommandsRevoked'
    BY DEF SceneInv, SinceBegun, ChangeReported, OldCommandsRevoked
  <1>4. BodiesOfStep'
    BY DEF BodiesOfStep
  <1> QED BY <1>1, <1>2, <1>3, <1>4 DEF SceneInv

LEMMA EnumerateKeeps == ASSUME SceneInv, Enumerate PROVE SceneInv'
  <1> USE DEF Enumerate, sceneVars, bindVars, workerVars
  <1>1. BodiesOfStep' /\ pc' \in {"remove", "abort"}
    BY DEF SceneInv, BodiesOfStep
  <1>2. failed' \in BOOLEAN /\ prepared' \in BOOLEAN
    BY DEF SceneInv, TypeOK
  <1> QED BY <1>1, <1>2, RemovalKeeps

LEMMA RemoveBodyKeeps == ASSUME SceneInv, RemoveBody PROVE SceneInv'
  <1> USE DEF RemoveBody, bindVars, workerVars
  <1>1. bodies' \subseteq bodies /\ failed' \in BOOLEAN /\ prepared' \in BOOLEAN
    BY DEF SceneInv, TypeOK
  <1>2. BodiesOfStep' /\ pc' \in {"build", "remove"}
    BY <1>1 DEF SceneInv, BodiesOfStep, Bodies
  <1> QED BY <1>1, <1>2, RemovalKeeps

LEMMA RemoveFailsKeeps == ASSUME SceneInv, RemoveFails PROVE SceneInv'
  <1>0. /\ UNCHANGED <<ops, target, failed, built, world, candidate, outcome, bindVars, workerVars,
                       worldGen, cmdGen, begun>>
        /\ pc = "remove"
    BY DEF RemoveFails
  <1>1. bodies' \subseteq bodies
    BY DEF RemoveFails
  <1>2. failed' \in BOOLEAN /\ prepared' \in BOOLEAN
    BY <1>0 DEF RemoveFails, Fault, SceneInv, TypeOK
  <1>3. CASE pc' = "down"
    BY <1>0, <1>1, <1>2, <1>3, RemovalKeeps
  <1>4. CASE pc' # "down"
    <2>1. pc' = IF bodies' = Bodies(world) THEN "abort" ELSE "recover"
      BY <1>4 DEF RemoveFails, Fault
    <2>2. BodiesOfStep' /\ pc' \in {"abort", "recover"}
      BY <1>0, <1>1, <2>1 DEF SceneInv, BodiesOfStep, bindVars, Bodies
    <2> QED BY <1>0, <1>1, <1>2, <2>2, RemovalKeeps
  <1> QED BY <1>3, <1>4

LEMMA RecoverKeeps == ASSUME SceneInv, Recover PROVE SceneInv'
  <1>0. /\ UNCHANGED <<ops, target, built, world, candidate, outcome, bindVars, workerVars, worldGen,
                       cmdGen, begun>>
        /\ pc = "recover" /\ failed' = TRUE
    BY DEF Recover
  <1>1. bodies' \subseteq bodies /\ prepared' \in BOOLEAN
    BY DEF Recover, Fault, SceneInv, TypeOK
  <1>2. CASE pc' = "down"
    BY <1>0, <1>1, <1>2, RemovalKeeps
  <1>3. CASE pc' # "down"
    <2>1. pc' = "rollback" /\ bodies' = bodies \ Bodies(world)
      BY <1>3 DEF Recover, Fault
    <2>2. bodies' = {}
      BY <1>0, <2>1 DEF SceneInv, BodiesOfStep
    <2>3. BodiesOfStep'
      BY <2>1, <2>2 DEF BodiesOfStep
    <2> QED BY <1>0, <1>1, <2>1, <2>3, RemovalKeeps
  <1> QED BY <1>2, <1>3

LEMMA GivenUpKeeps == ASSUME SceneInv, BuildFails \/ CommitFails PROVE SceneInv'
  <1>0. /\ UNCHANGED <<ops, target, built, world, candidate, outcome, bindVars, workerVars, worldGen,
                       cmdGen, begun>>
        /\ pc \in {"build", "rollback", "commit", "recommit"} /\ GiveUp
    BY DEF BuildFails, CommitFails
  <1>1. bodies' = {} /\ bodies' \subseteq bodies
    <2>1. CASE BuildFails
      BY <2>1 DEF BuildFails, SceneInv, BodiesOfStep
    <2>2. CASE CommitFails
      BY <2>2 DEF CommitFails, SceneInv, BodiesOfStep
    <2> QED BY <2>1, <2>2
  <1>2. failed' = TRUE /\ prepared' \in BOOLEAN /\ pc' \in {"rollback", "down"}
    BY <1>0 DEF GiveUp, Fault, SceneInv, TypeOK
  <1>3. BodiesOfStep'
    BY <1>1, <1>2 DEF BodiesOfStep
  <1> QED BY <1>0, <1>1, <1>2, <1>3, RemovalKeeps

LEMMA BuildKeeps == ASSUME SceneInv, Build PROVE SceneInv'
  <1> DEFINE doc == IF pc = "build" THEN target ELSE built[world]
  <1>0. /\ UNCHANGED <<ops, target, failed, world, outcome, rtRobot, rtWorker, workerVars, prepared,
                       worldGen, cmdGen, begun>>
        /\ pc \in {"build", "rollback"} /\ built' = Append(built, doc)
        /\ candidate' = Len(built') /\ rtManager' = Len(built')
        /\ bodies' = bodies \cup Bodies(Len(built')) /\ pc' \in {"commit", "recommit"}
        /\ TypeOK /\ WorkerOfWorld /\ BodiesOfStep /\ SinceBegun
    BY DEF Build, SceneInv
  <1>1. doc \in Docs /\ built \in Seq(Docs) /\ world \in 1..Len(built)
    BY <1>0, ElementOfSeq DEF TypeOK
  <1> HIDE DEF doc
  <1>2. /\ built' \in Seq(Docs) /\ Len(built') = Len(built) + 1 /\ Len(built) \in Nat
        /\ \A i \in 1..Len(built) : built'[i] = built[i] /\ i \in 1..Len(built')
        /\ Len(built') \in 1..Len(built')
    BY <1>0, <1>1, Appended
  <1>3. bodies' = Bodies(candidate')
    BY <1>0 DEF BodiesOfStep
  <1>4. TypeOK'
    <2>1. {world', candidate', rtManager', rtRobot'} \subseteq 1..Len(built')
      BY <1>0, <1>2 DEF TypeOK
    <2>2. bodies' \subseteq (1..Len(built')) \X Parts
      BY <1>0, <1>2, <1>3 DEF Bodies
    <2> QED BY <1>0, <1>2, <2>1, <2>2 DEF TypeOK, workerVars
  <1>5. WorkerOfWorld' /\ BodiesOfStep'
    BY <1>0, <1>1, <1>2, <1>3 DEF WorkerOfWorld, BodiesOfStep, workerVars
  <1>6. SinceBegun' /\ ChangeReported' /\ OldCommandsRevoked'
    BY <1>0 DEF SinceBegun, ChangeReported, OldCommandsRevoked
  <1>7. OneWorldAtATime'
    BY <1>3, OneWorld DEF OneWorldAtATime
  <1> QED BY <1>4, <1>5, <1>6, <1>7 DEF SceneInv

LEMMA CommitKeeps == ASSUME SceneInv, Commit PROVE SceneInv'
  <1>0. /\ UNCHANGED <<ops, target, failed, bodies, built, candidate, rtManager, cmdGen, begun>>
        /\ pc \in {"commit", "recommit"} /\ StartWorker(built[candidate], worldGen + 1)
        /\ worldGen' = worldGen + 1 /\ prepared' = FALSE /\ rtRobot' = candidate /\ world' = candidate
        /\ outcome' = [changed |-> TRUE, error |-> failed] /\ pc' = "idle"
        /\ TypeOK /\ BodiesOfStep /\ SinceBegun /\ OneWorldAtATime
    BY DEF Commit, SceneInv, InstalledResult
  <1>1. built[candidate] \in Docs /\ worldGen + 1 \in Nat
    BY SMTT(30), <1>0, ElementOfSeq DEF TypeOK
  <1>2. /\ workers' \in Seq([doc : Docs, gen : Nat]) /\ {worker', rtWorker'} \subseteq 1..Len(workers')
        /\ rtWorker' = worker' /\ sceneDoc' = built[candidate] /\ sceneDoc' \in Docs
        /\ workers'[worker'] = [doc |-> built[candidate], gen |-> worldGen + 1]
    BY <1>0, <1>1, StartWorkerIs
  <1>3. TypeOK'
    BY <1>0, <1>1, <1>2 DEF TypeOK
  <1>4. WorkerOfWorld' /\ BodiesOfStep' /\ OneWorldAtATime'
    BY <1>0, <1>2 DEF WorkerOfWorld, BodiesOfStep, OneWorldAtATime
  <1>5. SinceBegun' /\ ChangeReported'
    BY <1>0 DEF SinceBegun, ChangeReported
  <1>6. /\ worldGen' = begun'.gen + 1 /\ cmdGen' > begun'.cmd /\ begun'.cmd \in Nat /\ begun'.gen \in Nat
        /\ cmdGen' \in Nat
    BY <1>0 DEF SinceBegun, TypeOK
  <1>7. OldCommandsRevoked'
    BY <1>6 DEF OldCommandsRevoked
  <1> QED BY <1>3, <1>4, <1>5, <1>7 DEF SceneInv

(* A refresh that has started the worker of the changed document. *)
LEMMA RefreshedKeeps ==
  ASSUME TypeOK, WorkerOfWorld, BodiesOfStep, OneWorldAtATime, pc \in {"idle", "clear"},
         EditKeeps, ops' \in 0..MaxOps,
         NEW doc \in Docs, built' = [built EXCEPT ![world] = doc],
         StartWorker(doc, worldGen + 1), worldGen' = worldGen + 1, cmdGen' = cmdGen + 1,
         pc' \in {"idle", "clear"}, outcome' \in [changed : BOOLEAN, error : BOOLEAN]
  PROVE  TypeOK' /\ WorkerOfWorld' /\ BodiesOfStep' /\ OneWorldAtATime'
  <1>0. UNCHANGED <<target, failed, bodies, world, candidate, rtManager, rtRobot, prepared>>
    BY DEF EditKeeps
  <1>1. worldGen \in Nat /\ cmdGen \in Nat /\ worldGen + 1 \in Nat /\ world \in 1..Len(built)
    BY DEF TypeOK
  <1>2. built' \in Seq(Docs) /\ Len(built') = Len(built) /\ built'[world] = doc
    BY <1>1, ExceptSeq DEF TypeOK
  <1>3. /\ workers' \in Seq([doc : Docs, gen : Nat]) /\ {worker', rtWorker'} \subseteq 1..Len(workers')
        /\ rtWorker' = worker' /\ sceneDoc' = doc /\ sceneDoc' \in Docs
        /\ workers'[worker'] = [doc |-> doc, gen |-> worldGen + 1]
    <2> HIDE DEF TypeOK
    <2> QED BY <1>1, StartWorkerIs
  <1>4. TypeOK'
    <2>1. /\ bodies' \subseteq (1..Len(built')) \X Parts
          /\ {world', candidate', rtManager', rtRobot'} \subseteq 1..Len(built')
      BY <1>0, <1>2 DEF TypeOK
    <2>2. /\ target' \in Docs /\ failed' \in BOOLEAN /\ prepared' \in BOOLEAN
          /\ worldGen' \in Nat /\ cmdGen' \in Nat
      BY <1>0, <1>1 DEF TypeOK
    <2> QED BY <1>2, <1>3, <2>1, <2>2 DEF TypeOK
  <1>5. WorkerOfWorld' /\ BodiesOfStep'
    BY <1>0, <1>2, <1>3 DEF WorkerOfWorld, BodiesOfStep
  <1>6. OneWorldAtATime'
    BY <1>0 DEF OneWorldAtATime
  <1> QED BY <1>4, <1>5, <1>6

(* A refresh that failed: the run ends, with a worker of the old document  *)
(* or without.                                                             *)
LEMMA RefreshFailedKeeps ==
  ASSUME TypeOK, WorkerOfWorld, BodiesOfStep, SinceBegun', OneWorldAtATime, pc \in {"idle", "clear"},
         EditKeeps, ops' \in 0..MaxOps,
         NEW doc \in Docs, built' = [built EXCEPT ![world] = doc], cmdGen' = cmdGen + 1,
         pc' = "down", UNCHANGED <<sceneDoc, rtWorker, worldGen, outcome>>,
         \/ /\ workers' = Append(workers, [doc |-> sceneDoc, gen |-> worldGen])
            /\ worker' = Len(workers')
         \/ UNCHANGED <<workers, worker>>
  PROVE  SceneInv'
  <1>0. UNCHANGED <<target, failed, bodies, world, candidate, rtManager, rtRobot, prepared>>
    BY DEF EditKeeps
  <1>1. worldGen \in Nat /\ cmdGen \in Nat /\ world \in 1..Len(built)
    BY DEF TypeOK
  <1>2. built' \in Seq(Docs) /\ Len(built') = Len(built)
    BY <1>1, ExceptSeq DEF TypeOK
  <1>3. /\ workers' \in Seq([doc : Docs, gen : Nat]) /\ {worker', rtWorker'} \subseteq 1..Len(workers')
    <2>1. [doc |-> sceneDoc, gen |-> worldGen] \in [doc : Docs, gen : Nat]
      BY DEF TypeOK
    <2>2. workers \in Seq([doc : Docs, gen : Nat]) /\ {worker, rtWorker} \subseteq 1..Len(workers)
      BY DEF TypeOK
    <2>3. CASE UNCHANGED <<workers, worker>>
      BY <2>2, <2>3
    <2>4. CASE /\ workers' = Append(workers, [doc |-> sceneDoc, gen |-> worldGen])
               /\ worker' = Len(workers')
      <3>1. /\ workers' \in Seq([doc : Docs, gen : Nat])
            /\ Len(workers') = Len(workers) + 1 /\ Len(workers) \in Nat
        BY <2>1, <2>2, <2>4, Appended
      <3>2. worker' = Len(workers) + 1 /\ rtWorker' = rtWorker
        BY <2>4, <3>1
      <3> QED BY <2>2, <3>1, <3>2
    <2> QED BY <2>3, <2>4
  <1>4. TypeOK'
    <2>1. /\ bodies' \subseteq (1..Len(built')) \X Parts
          /\ {world', candidate', rtManager', rtRobot'} \subseteq 1..Len(built')
      BY <1>0, <1>2 DEF TypeOK
    <2>2. /\ target' \in Docs /\ failed' \in BOOLEAN /\ prepared' \in BOOLEAN
          /\ outcome' \in [changed : BOOLEAN, error : BOOLEAN] /\ sceneDoc' \in Docs
          /\ worldGen' \in Nat /\ cmdGen' \in Nat
      BY <1>0, <1>1 DEF TypeOK
    <2> QED BY <1>2, <1>3, <2>1, <2>2 DEF TypeOK
  <1>5. WorkerOfWorld' /\ BodiesOfStep' /\ ChangeReported' /\ OldCommandsRevoked'
    BY DEF WorkerOfWorld, BodiesOfStep, ChangeReported, OldCommandsRevoked
  <1>6. OneWorldAtATime'
    BY <1>0 DEF OneWorldAtATime
  <1> QED BY <1>4, <1>5, <1>6 DEF SceneInv

(* A frame that leaves the obstacles as they are. *)
LEMMA NoRefreshKeeps ==
  ASSUME TypeOK, WorkerOfWorld, BodiesOfStep, OneWorldAtATime, pc \in {"idle", "clear"},
         EditKeeps, NoRefresh, ops' \in 0..MaxOps, pc' \in {"idle", "clear"},
         outcome' \in [changed : BOOLEAN, error : BOOLEAN]
  PROVE  TypeOK' /\ WorkerOfWorld' /\ BodiesOfStep' /\ OneWorldAtATime'
  <1> USE DEF EditKeeps, NoRefresh, workerVars
  <1>1. TypeOK'
    BY DEF TypeOK
  <1>2. WorkerOfWorld' /\ BodiesOfStep' /\ OneWorldAtATime'
    BY DEF WorkerOfWorld, BodiesOfStep, OneWorldAtATime
  <1> QED BY <1>1, <1>2

LEMMA Begun ==
  ASSUME SceneInv, NEW op \in {"none", "scene", "edit", "clear"}, BeginOperation(op)
  PROVE  /\ ops' \in 0..MaxOps /\ begun' = [op |-> op, world |-> world, gen |-> worldGen, cmd |-> cmdGen]
         /\ begun' \in [op : {"none", "scene", "edit", "clear"}, world : Nat, gen : Nat, cmd : Nat]
         /\ world \in Nat /\ worldGen \in Nat /\ cmdGen \in Nat
         /\ pc = "idle" /\ TypeOK /\ WorkerOfWorld /\ BodiesOfStep /\ OneWorldAtATime
  <1>1. ops' \in 0..MaxOps
    BY TransactionAssumption DEF BeginOperation, SceneInv, TypeOK
  <1>2. world \in Nat /\ worldGen \in Nat /\ cmdGen \in Nat
    BY LenProperties DEF SceneInv, TypeOK
  <1> QED BY <1>1, <1>2 DEF BeginOperation, SceneInv

LEMMA AddOrDeleteKeeps == ASSUME SceneInv, AddOrDelete PROVE SceneInv'
  <1>0. BeginOperation("edit") /\ EditKeeps
    BY DEF AddOrDelete
  <1>1. /\ ops' \in 0..MaxOps /\ begun' = [op |-> "edit", world |-> world, gen |-> worldGen, cmd |-> cmdGen]
        /\ begun' \in [op : {"none", "scene", "edit", "clear"}, world : Nat, gen : Nat, cmd : Nat]
        /\ world \in Nat /\ worldGen \in Nat /\ cmdGen \in Nat
        /\ pc = "idle" /\ TypeOK /\ WorkerOfWorld /\ BodiesOfStep /\ OneWorldAtATime
    BY <1>0, Begun
  <1>2. world' = world
    BY <1>0 DEF EditKeeps
  <1>3. ASSUME NEW doc \in Docs, built' = [built EXCEPT ![world] = doc], cmdGen' = cmdGen + 1,
               StartWorker(doc, worldGen + 1), worldGen' = worldGen + 1, Result("idle", TRUE, FALSE)
        PROVE  SceneInv'
    <2>1. pc' = "idle" /\ outcome' = [changed |-> TRUE, error |-> FALSE]
      BY <1>3 DEF Result
    <2>2. TypeOK' /\ WorkerOfWorld' /\ BodiesOfStep' /\ OneWorldAtATime'
      <3> outcome' \in [changed : BOOLEAN, error : BOOLEAN]
        BY <2>1
      <3> QED BY <1>0, <1>1, <1>3, <2>1, RefreshedKeeps
    <2>3. SinceBegun' /\ ChangeReported' /\ OldCommandsRevoked'
      BY <1>1, <1>2, <1>3, <2>1 DEF SinceBegun, ChangeReported, OldCommandsRevoked
    <2> QED BY <2>2, <2>3 DEF SceneInv
  <1>4. ASSUME NEW doc \in Docs, built' = [built EXCEPT ![world] = doc], cmdGen' = cmdGen + 1,
               pc' = "down", UNCHANGED <<sceneDoc, rtWorker, worldGen, outcome>>,
               \/ /\ workers' = Append(workers, [doc |-> sceneDoc, gen |-> worldGen])
                  /\ worker' = Len(workers')
               \/ UNCHANGED <<workers, worker>>
        PROVE  SceneInv'
    <2>1. SinceBegun'
      BY <1>1, <1>4 DEF SinceBegun
    <2> QED BY <1>0, <1>1, <1>4, <2>1, RefreshFailedKeeps
  <1>5. CASE Result("idle", FALSE, TRUE) /\ NoRefresh
    <2>1. pc' = "idle" /\ outcome' = [changed |-> FALSE, error |-> TRUE]
      BY <1>5 DEF Result
    <2>2. TypeOK' /\ WorkerOfWorld' /\ BodiesOfStep' /\ OneWorldAtATime'
      <3> outcome' \in [changed : BOOLEAN, error : BOOLEAN]
        BY <2>1
      <3> QED BY <1>0, <1>1, <1>5, <2>1, NoRefreshKeeps
    <2>3. SinceBegun' /\ ChangeReported' /\ OldCommandsRevoked'
      BY <1>1, <1>2, <1>5, <2>1 DEF NoRefresh, SinceBegun, ChangeReported, OldCommandsRevoked
    <2> QED BY <2>2, <2>3 DEF SceneInv
  <1> QED BY <1>3, <1>4, <1>5 DEF AddOrDelete, Refresh

LEMMA StartClearKeeps == ASSUME SceneInv, StartClear PROVE SceneInv'
  <1>0. BeginOperation("clear") /\ EditKeeps /\ NoRefresh /\ pc' = "clear" /\ outcome' = outcome
    BY DEF StartClear
  <1>1. /\ ops' \in 0..MaxOps /\ begun' = [op |-> "clear", world |-> world, gen |-> worldGen, cmd |-> cmdGen]
        /\ begun' \in [op : {"none", "scene", "edit", "clear"}, world : Nat, gen : Nat, cmd : Nat]
        /\ world \in Nat /\ worldGen \in Nat /\ cmdGen \in Nat
        /\ pc = "idle" /\ TypeOK /\ WorkerOfWorld /\ BodiesOfStep /\ OneWorldAtATime
    BY <1>0, Begun
  <1>2. TypeOK' /\ WorkerOfWorld' /\ BodiesOfStep' /\ OneWorldAtATime'
    <2> outcome' \in [changed : BOOLEAN, error : BOOLEAN]
      BY <1>0, <1>1 DEF TypeOK
    <2> QED BY <1>0, <1>1, NoRefreshKeeps
  <1>3. SinceBegun' /\ ChangeReported' /\ OldCommandsRevoked'
    BY <1>0, <1>1 DEF EditKeeps, NoRefresh, SinceBegun, ChangeReported, OldCommandsRevoked
  <1> QED BY <1>2, <1>3 DEF SceneInv

(* What a frame of a clear leaves of the world, and what its result says. *)
LEMMA ClearFrameKeeps == ASSUME SceneInv, ClearFrame PROVE SceneInv'
  <1>0. /\ pc = "clear" /\ EditKeeps /\ begun' = begun /\ world' = world
        /\ TypeOK /\ WorkerOfWorld /\ BodiesOfStep /\ OneWorldAtATime
        /\ world = begun.world /\ begun.op = "clear"
        /\ begun \in [op : {"none", "scene", "edit", "clear"}, world : Nat, gen : Nat, cmd : Nat]
        /\ worldGen - begun.gen <= cmdGen - begun.cmd
    BY DEF ClearFrame, EditKeeps, SceneInv, SinceBegun, OldCommandsRevoked
  <1>1. worldGen \in Nat /\ cmdGen \in Nat /\ begun.gen \in Nat /\ begun.cmd \in Nat
    BY <1>0 DEF TypeOK
  <1>2. ops' \in 0..MaxOps
    BY <1>0, TransactionAssumption DEF ClearFrame, TypeOK
  <1>3. ASSUME ClearEnds \/ ClearPending
        PROVE  /\ pc' \in {"idle", "clear"} /\ outcome' \in [changed : BOOLEAN, error : BOOLEAN]
               /\ pc' = "idle" /\ ~outcome'.changed => outcome'.error
    <2>1. \/ pc' = "idle" /\ outcome' = [changed |-> TRUE, error |-> FALSE]
          \/ pc' = "clear" /\ outcome' = [changed |-> FALSE, error |-> TRUE]
          \/ pc' = "idle" /\ outcome' = [changed |-> FALSE, error |-> TRUE]
      BY <1>3 DEF ClearEnds, ClearPending, Result
    <2>2. CASE pc' = "idle" /\ outcome' = [changed |-> TRUE, error |-> FALSE]
      BY <2>2
    <2>3. CASE outcome' = [changed |-> FALSE, error |-> TRUE]
      BY <2>1, <2>3
    <2> QED BY <2>1, <2>2, <2>3
  <1>4. ASSUME ClearEnds \/ ClearPending,
               \/ worldGen' = worldGen + 1 /\ cmdGen' = cmdGen + 1
               \/ UNCHANGED <<worldGen, cmdGen>>,
               TypeOK' /\ WorkerOfWorld' /\ BodiesOfStep' /\ OneWorldAtATime'
        PROVE  SceneInv'
    <2>1. worldGen' - begun.gen <= cmdGen' - begun.cmd
      BY <1>0, <1>1, <1>4
    <2>2. SinceBegun' /\ ChangeReported' /\ OldCommandsRevoked'
      BY <1>0, <1>3, <1>4, <2>1 DEF SinceBegun, ChangeReported, OldCommandsRevoked
    <2> QED BY <1>4, <2>2 DEF SceneInv
  <1>5. ASSUME NEW doc \in Docs, built' = [built EXCEPT ![world] = doc], cmdGen' = cmdGen + 1,
               StartWorker(doc, worldGen + 1), worldGen' = worldGen + 1, ClearEnds \/ ClearPending
        PROVE  SceneInv'
    <2>1. TypeOK' /\ WorkerOfWorld' /\ BodiesOfStep' /\ OneWorldAtATime'
      BY <1>0, <1>2, <1>3, <1>5, RefreshedKeeps
    <2> QED BY <1>4, <1>5, <2>1
  <1>6. ASSUME NEW doc \in Docs, built' = [built EXCEPT ![world] = doc], cmdGen' = cmdGen + 1,
               pc' = "down", UNCHANGED <<sceneDoc, rtWorker, worldGen, outcome>>,
               \/ /\ workers' = Append(workers, [doc |-> sceneDoc, gen |-> worldGen])
                  /\ worker' = Len(workers')
               \/ UNCHANGED <<workers, worker>>
        PROVE  SceneInv'
    <2>1. SinceBegun'
      BY <1>0, <1>6 DEF SinceBegun
    <2> QED BY <1>0, <1>2, <1>6, <2>1, RefreshFailedKeeps
  <1>7. CASE ClearEnds /\ NoRefresh
    <2>1. TypeOK' /\ WorkerOfWorld' /\ BodiesOfStep' /\ OneWorldAtATime'
      BY <1>0, <1>2, <1>3, <1>7, NoRefreshKeeps
    <2>2. UNCHANGED <<worldGen, cmdGen>>
      BY <1>7 DEF NoRefresh
    <2> QED BY <1>4, <1>7, <2>1, <2>2
  <1> QED BY <1>5, <1>6, <1>7 DEF ClearFrame, Refresh

(* Whatever call of a structural operation fails, at any place and any     *)
(* number of times: a run that goes on has one consistent world, told to   *)
(* the runtime, the worker and the operator, and old commands are revoked. *)
THEOREM OneWorldAfterEveryOperation == SceneSpec => []TransactionSound
  <1>1. SceneInv /\ [SceneNext]_transactionVars => SceneInv'
    <2> SUFFICES ASSUME SceneInv, [SceneNext]_transactionVars PROVE SceneInv'
      OBVIOUS
    <2>1. CASE UNCHANGED transactionVars
      <3> USE <2>1 DEF transactionVars, sceneVars, bindVars, workerVars
      <3>1. TypeOK'
        BY DEF SceneInv, TypeOK
      <3>2. WorkerOfWorld' /\ BodiesOfStep' /\ OneWorldAtATime'
        BY DEF SceneInv, WorkerOfWorld, BodiesOfStep, OneWorldAtATime
      <3>3. SinceBegun' /\ ChangeReported' /\ OldCommandsRevoked'
        BY DEF SceneInv, SinceBegun, ChangeReported, OldCommandsRevoked
      <3> QED BY <3>1, <3>2, <3>3 DEF SceneInv
    <2>2. CASE SceneNext
      BY <2>2, BeginKeeps, PrepareKeeps, AbortKeeps, EnumerateKeeps, RemoveBodyKeeps, RemoveFailsKeeps,
         RecoverKeeps, BuildKeeps, GivenUpKeeps, CommitKeeps, AddOrDeleteKeeps, StartClearKeeps, ClearFrameKeeps
         DEF SceneNext
    <2> QED BY <2>1, <2>2
  <1>2. SceneInv => TransactionSound
    BY DEF SceneInv, TransactionSound, WorldConsistent, WorkerOfWorld, BodiesOfStep
  <1> QED BY <1>1, <1>2, SceneStarts, PTL DEF SceneSpec

-----------------------------------------------------------------------------
IsRecord(r) == r = [body |-> r.body, moving |-> r.moving]
OnePerBody(rs) == \A r, q \in rs : r.body = q.body => r = q

(* The records have their fields. *)
Shapes ==
    /\ job = [op |-> job.op, specs |-> job.specs, planned |-> job.planned, temps |-> job.temps,
              cands |-> job.cands, made |-> job.made, rest |-> job.rest, checked |-> job.checked]
    /\ ghost = [leaked |-> ghost.leaked, abandoned |-> ghost.abandoned, misled |-> ghost.misled]
    /\ ghost.misled \in BOOLEAN
    /\ \A r \in formal \cup job.cands : IsRecord(r)

(* What is under way: its bodies are in the world and apart from each      *)
(* other, it began without debts and without a fault.                      *)
JobStands ==
    /\ job.op \in {"none", "add", "clear", "restore", "rollback"}
    /\ job.op # "add" => job.temps = {}
    /\ job.temps # {} => Planned
    /\ job.checked => job.op = "add" /\ Previewed
    /\ job.op = "add" /\ job.cands # {} => Previewed
    /\ job.op = "add" => job.made \in Int /\ Len(job.specs) \in Int
    /\ job.op \in {"none", "clear"} => job.cands = {}
    /\ job.op \in {"add", "clear", "restore"} => debt = {}
    /\ job.op # "none" => ~faulted
    /\ job.op \in {"restore", "rollback"} => ~attached
    /\ job.temps \cup BodiesOf(job.cands) \subseteq alive
    /\ job.temps \cap BodiesOf(job.cands) = {}
    /\ OnePerBody(job.cands)

(* Records, debts and the batch under way do not share a body. *)
RecordsStand ==
    /\ OnePerBody(formal)
    /\ BodiesOf(formal) \cap debt = {}
    /\ faulted => formal = {}
    /\ job.op = "rollback" => BodiesOf(job.cands) \cap debt = {}
    /\ job.op = "restore" \/ (~ghost.misled /\ job.op # "rollback") =>
          /\ BodiesOf(formal) \subseteq alive
          /\ BodiesOf(formal) \cap (job.temps \cup BodiesOf(job.cands)) = {}

(* The runtime's bindings are behind only inside the slice of a clear. *)
BindingsFollow ==
    attached /\ (frame = "advance" => job.op # "clear") => bound = BodiesOf(formal)

ObstacleInv ==
    frame # "down" => Shapes /\ JobStands /\ RecordsStand /\ EveryBodyOwned /\ BindingsFollow
-----------------------------------------------------------------------------
(* Sets of records and of bodies. *)
LEMMA BodiesOfUnion == \A A, B : BodiesOf(A \cup B) = BodiesOf(A) \cup BodiesOf(B)
  BY DEF BodiesOf

LEMMA BodiesOfOne == ASSUME NEW x PROVE BodiesOf({x}) = {x.body}
  BY DEF BodiesOf

LEMMA BodiesOfNone == BodiesOf({}) = {}
  BY DEF BodiesOf

LEMMA BodiesOfPart == ASSUME NEW A, NEW B, A \subseteq B PROVE BodiesOf(A) \subseteq BodiesOf(B)
  BY DEF BodiesOf

(* What was not reported as failed is gone, and nothing else goes. *)
LEMMA RemovalFacts ==
  ASSUME NEW B, NEW r \in Removals(B)
  PROVE  r.failed \subseteq B /\ r.gone \subseteq B /\ B \ r.failed \subseteq r.gone
  BY DEF Removals

LEMMA CreationFacts ==
  ASSUME NEW b, NEW c \in FailedCreations(b)
  PROVE  c.made \subseteq {b} /\ c.residual \subseteq {b}
  BY DEF FailedCreations

(* The job is over. *)
JobShape(j) ==
    j = [op |-> j.op, specs |-> j.specs, planned |-> j.planned, temps |-> j.temps,
         cands |-> j.cands, made |-> j.made, rest |-> j.rest, checked |-> j.checked]

LEMMA NoJobIs == JobShape(NoJob) /\ NoJob.op = "none" /\ NoJob.temps = {} /\ NoJob.cands = {} /\ ~NoJob.checked
  BY DEF JobShape, NoJob

GhostShape(g) ==
    g = [leaked |-> g.leaked, abandoned |-> g.abandoned, misled |-> g.misled] /\ g.misled \in BOOLEAN

LEMMA ShapesAre == Shapes <=> /\ JobShape(job) /\ GhostShape(ghost)
                              /\ \A r \in formal \cup job.cands : IsRecord(r)
  BY DEF Shapes, JobShape, GhostShape

(* The history after a removal. *)
LEMMA GhostIs ==
  ASSUME GhostShape(ghost), NEW L, NEW A, NEW M \in BOOLEAN,
         ghost' = [leaked |-> L, abandoned |-> A, misled |-> ghost.misled \/ M]
  PROVE  /\ GhostShape(ghost') /\ ghost'.leaked = L /\ ghost'.abandoned = A
         /\ ~ghost'.misled => ~ghost.misled /\ ~M
  <1>1. ghost'.leaked = L /\ ghost'.abandoned = A /\ ghost'.misled = (ghost.misled \/ M)
    BY Zenon
  <1>2. (ghost.misled \/ M) \in BOOLEAN
    OBVIOUS
  <1>3. GhostShape(ghost')
    BY <1>1, <1>2, Zenon DEF GhostShape
  <1> QED BY <1>1, <1>3, Zenon

LEMMA NoteIs ==
  ASSUME GhostShape(ghost), NEW r, Note(r)
  PROVE  /\ GhostShape(ghost') /\ ghost'.leaked = ghost.leaked /\ ghost'.abandoned = ghost.abandoned
         /\ ~ghost'.misled => ~ghost.misled /\ ~Misled(r)
  <1>1. ghost' = [leaked |-> ghost.leaked, abandoned |-> ghost.abandoned,
                  misled |-> ghost.misled \/ Misled(r)]
    BY DEF Note, GhostShape
  <1>2. Misled(r) \in BOOLEAN
    BY DEF Misled
  <1> QED BY <1>1, <1>2, GhostIs

LEMMA ObstacleStarts == ObstacleInit => ObstacleInv
  <1> SUFFICES ASSUME ObstacleInit PROVE ObstacleInv
    OBVIOUS
  <1>1. Shapes
    BY NoJobIs, ShapesAre DEF ObstacleInit, GhostShape
  <1>2. JobStands /\ RecordsStand /\ EveryBodyOwned /\ BindingsFollow
    BY NoJobIs, BodiesOfNone DEF ObstacleInit, JobStands, RecordsStand, EveryBodyOwned, BindingsFollow,
       OnePerBody, PendingBodyIds
  <1> QED BY <1>1, <1>2 DEF ObstacleInv
-----------------------------------------------------------------------------
(* Steps that leave records, debts and bodies alone. *)
LEMMA QuietStepKeeps ==
  ASSUME frame # "down", ObstacleInv, UNCHANGED <<formal, debt, faulted, alive, bound, attached, ghost>>,
         JobShape(job'), job'.op = job.op, job'.temps = job.temps, job'.cands = job.cands,
         job'.made = job.made, job'.specs = job.specs,
         job'.planned = job.planned \/ (job.temps = {} /\ job.cands = {}),
         job'.checked => Previewed' /\ job.op = "add",
         frame = "advance" \/ frame' # "advance" \/ job.op = "clear" \/ job.op = "add",
         frame' # frame => frame # "advance" \/ job.op # "clear"
  PROVE  ObstacleInv'
  <1>0. Shapes /\ JobStands /\ RecordsStand /\ EveryBodyOwned /\ BindingsFollow
    BY DEF ObstacleInv
  <1>1. Shapes'
    BY <1>0 DEF Shapes, JobShape
  <1>2. JobStands' /\ RecordsStand'
    BY <1>0 DEF JobStands, RecordsStand, Previewed, Planned
  <1>3. EveryBodyOwned' /\ BindingsFollow'
    BY <1>0 DEF EveryBodyOwned, PendingBodyIds, BindingsFollow
  <1> QED BY <1>1, <1>2, <1>3 DEF ObstacleInv

(* A batch is given up: its bodies are gone, owed, or in the history. *)
LEMMA BatchGivenUpKeeps ==
  ASSUME NEW new, frame # "down", ObstacleInv, job.op = "add", job' = NoJob, GhostShape(ghost'),
         UNCHANGED <<formal, faulted, bound, attached>>, frame' \in {"move", "down"},
         debt' = debt \cup new, new \cap BodiesOf(formal) # {} => frame' = "down",
         alive \ alive' \subseteq job.temps \cup BodiesOf(job.cands),
         alive' \subseteq BodiesOf(formal) \cup debt' \cup ghost'.leaked \cup ghost'.abandoned,
         ~ghost'.misled => ~ghost.misled
  PROVE  ObstacleInv'
  <1>0. Shapes /\ JobStands /\ RecordsStand /\ EveryBodyOwned /\ BindingsFollow
    BY DEF ObstacleInv
  <1>a. /\ JobShape(job') /\ job'.op = "none" /\ job'.temps = {} /\ job'.cands = {} /\ ~job'.checked
        /\ BodiesOf({}) = {}
    BY NoJobIs, BodiesOfNone
  <1>1. Shapes'
    BY <1>0, <1>a DEF Shapes, JobShape, GhostShape
  <1> SUFFICES ASSUME frame' = "move" PROVE (JobStands /\ RecordsStand /\ EveryBodyOwned /\ BindingsFollow)'
    BY <1>1 DEF ObstacleInv
  <1>2. JobStands'
    BY <1>0, <1>a DEF JobStands, OnePerBody
  <1>3. RecordsStand'
    BY <1>0, <1>a DEF RecordsStand, OnePerBody
  <1>4. EveryBodyOwned'
    BY <1>a DEF EveryBodyOwned, PendingBodyIds
  <1>5. BindingsFollow'
    BY <1>0 DEF BindingsFollow
  <1> QED BY <1>2, <1>3, <1>4, <1>5

LEMMA AbandonKeeps ==
  ASSUME frame # "down", ObstacleInv, job.op = "add",
         NEW residual, NEW living, living = alive \cup residual,
         NEW B, B = job.temps \cup BodiesOf(job.cands), AbandonBatch(B, residual, living)
  PROVE  ObstacleInv'
  <1>0. Shapes /\ EveryBodyOwned
    BY DEF ObstacleInv
  <1>1. PICK r \in Removals(B) :
          /\ alive' = living \ r.gone
          /\ Register(residual \cup r.failed)
          /\ job' = NoJob
          /\ Note(r)
          /\ UNCHANGED <<formal, faulted, bound, attached>>
    BY DEF AbandonBatch
  <1>2. r.failed \subseteq B /\ r.gone \subseteq B /\ B \ r.failed \subseteq r.gone
    BY RemovalFacts
  <1>3. GhostShape(ghost)
    BY <1>0, ShapesAre
  <1>4. /\ GhostShape(ghost') /\ ghost'.leaked = ghost.leaked /\ ghost'.abandoned = ghost.abandoned
        /\ ~ghost'.misled => ~ghost.misled
    BY <1>1, <1>3, NoteIs
  <1>5. /\ debt' = debt \cup (residual \cup r.failed) /\ frame' \in {"move", "down"}
        /\ (residual \cup r.failed) \cap BodiesOf(formal) # {} => frame' = "down"
    BY <1>1 DEF Register, Raise
  <1>6. alive \ alive' \subseteq job.temps \cup BodiesOf(job.cands)
    BY <1>1, <1>2
  <1>7. alive' \subseteq BodiesOf(formal) \cup debt' \cup ghost'.leaked \cup ghost'.abandoned
    BY <1>0, <1>1, <1>2, <1>4, <1>5 DEF EveryBodyOwned, PendingBodyIds
  <1> HIDE DEF ObstacleInv
  <1> QED BY <1>1, <1>4, <1>5, <1>6, <1>7, BatchGivenUpKeeps

LEMMA IdleFrameKeeps == ASSUME ObstacleInv, IdleFrame PROVE ObstacleInv'
  <1>1. JobShape(job') /\ job' = job /\ ~job'.checked
    BY NoJobIs DEF IdleFrame, managerVars
  <1>2. UNCHANGED <<formal, debt, faulted, alive, bound, attached, ghost>> /\ frame = "start" /\ frame' = "move"
    BY DEF IdleFrame, managerVars
  <1> QED BY <1>1, <1>2, QuietStepKeeps

LEMMA NextFrameKeeps == ASSUME ObstacleInv, NextFrame PROVE ObstacleInv'
  <1>0. JobShape(job) /\ frame # "down"
    BY ShapesAre DEF ObstacleInv, NextFrame
  <1>1. /\ JobShape(job') /\ job'.op = job.op /\ job'.temps = job.temps /\ job'.cands = job.cands
        /\ ~job'.checked /\ job'.planned = job.planned /\ job'.specs = job.specs /\ job'.made = job.made
    BY <1>0 DEF JobShape, NextFrame
  <1> QED BY <1>0, <1>1, QuietStepKeeps DEF NextFrame

LEMMA VehicleOutOfTheWayKeeps == ASSUME ObstacleInv, VehicleOutOfTheWay PROVE ObstacleInv'
  <1>0. JobShape(job) /\ frame # "down"
    BY ShapesAre DEF ObstacleInv, VehicleOutOfTheWay
  <1>1. /\ JobShape(job') /\ job'.op = job.op /\ job'.temps = job.temps /\ job'.cands = job.cands
        /\ job'.planned = job.planned /\ job'.specs = job.specs /\ job'.made = job.made
    BY <1>0 DEF JobShape, VehicleOutOfTheWay
  <1>2. Previewed'
    BY <1>1 DEF Planned, Previewed, VehicleOutOfTheWay
  <1> QED BY <1>0, <1>1, <1>2, QuietStepKeeps DEF VehicleOutOfTheWay

LEMMA PhysicsKeeps == ASSUME ObstacleInv, UpdateMoving \/ StepPhysics PROVE ObstacleInv'
  <1>0. JobShape(job) /\ frame # "down" /\ job' = job /\ (job.checked => Previewed /\ job.op = "add")
    BY ShapesAre DEF ObstacleInv, JobStands, UpdateMoving, StepPhysics, managerVars
  <1>2. Previewed' <=> Previewed
    BY <1>0 DEF Previewed, Planned
  <1>3. /\ UNCHANGED <<formal, debt, faulted, alive, bound, attached, ghost>>
        /\ frame \in {"move", "physics"} /\ frame' # "advance"
    BY DEF UpdateMoving, StepPhysics, Raise, managerVars
  <1> QED BY <1>0, <1>2, <1>3, QuietStepKeeps

LEMMA PlanOneKeeps == ASSUME ObstacleInv, PlanOne PROVE ObstacleInv'
  <1>0. /\ JobShape(job) /\ GhostShape(ghost) /\ frame = "advance" /\ EveryBodyOwned /\ JobStands
        /\ job.op = "add" /\ job.planned < Len(job.specs)
        /\ UNCHANGED <<formal, debt, faulted, alive, bound, attached, ghost>>
    BY ShapesAre DEF ObstacleInv, PlanOne
  <1>1. ~Planned
    BY <1>0 DEF Planned
  <1>2. job.temps = {} /\ job.cands = {} /\ ~job.checked
    BY <1>0, <1>1 DEF JobStands, Previewed
  <1>3. CASE job' = [job EXCEPT !.planned = @ + 1] /\ Unit
    <2>1. /\ JobShape(job') /\ job'.op = job.op /\ job'.temps = job.temps /\ job'.cands = job.cands
          /\ job'.checked = job.checked /\ job'.made = job.made /\ job'.specs = job.specs
      BY <1>0, <1>3 DEF JobShape
    <2> QED BY <1>0, <1>1, <1>2, <1>3, <2>1, QuietStepKeeps DEF Unit
  <1>4. CASE job' = NoJob /\ frame' = "move"
    <2>1. alive' \subseteq BodiesOf(formal) \cup debt' \cup ghost'.leaked \cup ghost'.abandoned
      BY <1>0, <1>2, BodiesOfNone DEF EveryBodyOwned, PendingBodyIds
    <2>2. debt' = debt \cup {} /\ ghost' = ghost /\ alive' = alive /\ GhostShape(ghost')
      BY <1>0
    <2> QED BY <1>0, <1>4, <2>1, <2>2, BatchGivenUpKeeps
  <1> QED BY <1>3, <1>4 DEF PlanOne

(* The debts are settled before a call; what it begins has no body yet. *)
LEMMA GateKeeps ==
  ASSUME frame = "start", ObstacleInv, job.op = "none", NEW r \in Removals(debt),
         debt' = r.failed, alive' = alive \ r.gone, Note(r), UNCHANGED <<formal, faulted, bound, attached>>,
         JobShape(job'), job'.temps = {}, job'.cands = {}, ~job'.checked,
         job'.op \in {"none", "add", "clear", "restore"},
         job'.op # "none" => debt' = {} /\ ~faulted,
         job'.op = "add" => job'.made \in Int /\ Len(job'.specs) \in Int,
         job'.op = "restore" => ~attached /\ BodiesOf(formal) \subseteq alive'
  PROVE  ObstacleInv'
  <1>0. Shapes /\ JobStands /\ RecordsStand /\ EveryBodyOwned /\ BindingsFollow
    BY DEF ObstacleInv
  <1>1. /\ GhostShape(ghost') /\ ghost'.leaked = ghost.leaked /\ ghost'.abandoned = ghost.abandoned
        /\ ~ghost'.misled => ~ghost.misled
    BY <1>0, ShapesAre, NoteIs
  <1>2. r.failed \subseteq debt /\ r.gone \subseteq debt /\ debt \ r.failed \subseteq r.gone
    BY RemovalFacts
  <1>3. Shapes'
    BY <1>0, <1>1 DEF Shapes, JobShape, GhostShape
  <1>4. JobStands'
    BY BodiesOfNone DEF JobStands, OnePerBody
  <1>5. RecordsStand'
    BY <1>0, <1>1, <1>2, BodiesOfNone DEF RecordsStand
  <1>6. EveryBodyOwned'
    BY <1>0, <1>1, <1>2, BodiesOfNone DEF EveryBodyOwned, PendingBodyIds, JobStands
  <1>7. BindingsFollow'
    BY <1>0 DEF BindingsFollow
  <1> QED BY <1>3, <1>4, <1>5, <1>6, <1>7 DEF ObstacleInv

LEMMA ModesLength ==
  ASSUME NEW request \in Requests
  PROVE  Len(ModesForRequest(request)) \in Int
  <1>1. request.count \in Nat
    BY DEF Requests
  <1> DEFINE n == request.count
             modes == ModesForRequest(request)
             S == {modes[i] : i \in 1..n}
  <1>2. modes \in [1..n -> S]
    BY DEF ModesForRequest
  <1> HIDE DEF modes, S, n
  <1>3. n \in Nat
    BY <1>1 DEF n
  <1>4. modes \in Seq(S)
    BY <1>2, <1>3
  <1>5. Len(modes) \in Nat
    BY <1>4, LenProperties
  <1> QED BY <1>5 DEF modes

LEMMA BeginAddKeeps == ASSUME ObstacleInv, NEW request \in Requests, BeginAdd(request) PROVE ObstacleInv'
  <1>0. frame = "start" /\ job = NoJob /\ UNCHANGED <<formal, faulted, bound, attached>>
    BY DEF BeginAdd
  <1>1. PICK r \in Removals(debt) :
        /\ Gate(r) /\ Note(r)
        /\ IF Admitted(r)
           THEN IF request.count > MaxBatch \/ Cardinality(formal) + request.count > MaxScene
                THEN frame' = "move" /\ job' = job
                ELSE /\ frame' = "advance"
                     /\ job' = [NoJob EXCEPT !.op = "add", !.specs = ModesForRequest(request)]
           ELSE Raise /\ job' = job
    BY DEF BeginAdd
  <1>2. debt' = r.failed /\ alive' = alive \ r.gone /\ job.op = "none"
    BY <1>0, <1>1, NoJobIs DEF Gate
  <1>3. CASE job' = job
    <2>1. JobShape(job') /\ job'.op = "none" /\ job'.temps = {} /\ job'.cands = {} /\ ~job'.checked
      BY <1>0, <1>3, NoJobIs
    <2> QED BY <1>0, <1>1, <1>2, <2>1, GateKeeps
  <1>4. CASE Admitted(r) /\ job' = [NoJob EXCEPT !.op = "add", !.specs = ModesForRequest(request)]
    <2>1. /\ JobShape(job') /\ job'.op = "add" /\ job'.temps = {} /\ job'.cands = {} /\ ~job'.checked
          /\ job'.made = 0 /\ job'.specs = ModesForRequest(request)
      BY <1>4 DEF NoJob, JobShape
    <2>2. debt' = {} /\ ~faulted
      BY <1>2, <1>4 DEF Admitted
    <2>3. job'.made \in Int /\ Len(job'.specs) \in Int
      BY <2>1, ModesLength
    <2> QED BY <1>0, <1>1, <1>2, <2>1, <2>2, <2>3, GateKeeps
  <1> QED BY <1>1, <1>3, <1>4

LEMMA BeginClearKeeps == ASSUME ObstacleInv, BeginClear PROVE ObstacleInv'
  <1>0. frame = "start" /\ job = NoJob /\ UNCHANGED <<formal, faulted, bound, attached>>
    BY DEF BeginClear
  <1>1. PICK r \in Removals(debt) :
        /\ Gate(r) /\ Note(r)
        /\ IF Admitted(r)
           THEN /\ job' = [NoJob EXCEPT !.op = "clear", !.rest = BodiesOf(formal)]
                /\ frame' = "advance"
           ELSE Raise /\ job' = job
    BY DEF BeginClear
  <1>2. debt' = r.failed /\ alive' = alive \ r.gone /\ job.op = "none"
    BY <1>0, <1>1, NoJobIs DEF Gate
  <1>3. CASE job' = job
    <2>1. JobShape(job') /\ job'.op = "none" /\ job'.temps = {} /\ job'.cands = {} /\ ~job'.checked
      BY <1>0, <1>3, NoJobIs
    <2> QED BY <1>0, <1>1, <1>2, <2>1, GateKeeps
  <1>4. CASE Admitted(r) /\ job' = [NoJob EXCEPT !.op = "clear", !.rest = BodiesOf(formal)]
    <2>1. JobShape(job') /\ job'.op = "clear" /\ job'.temps = {} /\ job'.cands = {} /\ ~job'.checked
      BY <1>4 DEF NoJob, JobShape
    <2>2. debt' = {} /\ ~faulted
      BY <1>2, <1>4 DEF Admitted
    <2> QED BY <1>0, <1>1, <1>2, <2>1, <2>2, GateKeeps
  <1> QED BY <1>1, <1>3, <1>4

-----------------------------------------------------------------------------
(* The bodies of a batch. *)
LEMMA NewBodyKeeps ==
  ASSUME frame = "advance", frame' # "down", ObstacleInv, job.op = "add", NEW b, b \notin alive,
         alive' = alive \cup {b}, UNCHANGED <<formal, debt, faulted, bound, attached, ghost>>,
         JobShape(job'), job'.op = "add", job'.made = job.made + 1, job'.specs = job.specs,
         job'.planned = job.planned, job'.checked = job.checked,
         \A r \in job'.cands : IsRecord(r), OnePerBody(job'.cands), Planned,
         \/ job'.temps = job.temps \cup {b} /\ job'.cands = job.cands
         \/ /\ job'.temps = job.temps /\ BodiesOf(job'.cands) = BodiesOf(job.cands) \cup {b}
            /\ Previewed
  PROVE  ObstacleInv'
  <1>0. Shapes /\ JobStands /\ RecordsStand /\ EveryBodyOwned /\ BindingsFollow
    BY DEF ObstacleInv
  <1>1. Shapes'
    BY <1>0 DEF Shapes, JobShape
  <1>2. Planned' /\ (Previewed => Previewed') /\ job'.made \in Int /\ Len(job'.specs) \in Int
    BY <1>0 DEF JobStands, Planned, Previewed
  <1>3. JobStands'
    BY <1>0, <1>2 DEF JobStands
  <1>4. RecordsStand'
    BY <1>0 DEF RecordsStand, JobStands
  <1>5. EveryBodyOwned' /\ BindingsFollow'
    BY <1>0 DEF EveryBodyOwned, PendingBodyIds, BindingsFollow
  <1> QED BY <1>1, <1>3, <1>4, <1>5 DEF ObstacleInv

LEMMA CreateTemporaryKeeps == ASSUME ObstacleInv, NEW b, CreateTemporary(b) PROVE ObstacleInv'
  <1>0. /\ JobShape(job) /\ frame = "advance" /\ job.op = "add" /\ Planned /\ ~Previewed /\ b \notin alive
        /\ JobStands /\ (\A r \in job.cands : IsRecord(r))
    BY ShapesAre DEF ObstacleInv, CreateTemporary, Free
  <1>1. CASE /\ job' = [job EXCEPT !.temps = @ \cup {b}, !.made = @ + 1]
             /\ alive' = alive \cup {b}
             /\ Unit
             /\ UNCHANGED <<formal, debt, faulted, bound, attached, ghost>>
    <2>1. /\ JobShape(job') /\ job'.op = "add" /\ job'.temps = job.temps \cup {b} /\ job'.cands = job.cands
          /\ job'.planned = job.planned /\ job'.specs = job.specs /\ job'.made = job.made + 1
          /\ job'.checked = job.checked
      BY <1>0, <1>1 DEF JobShape
    <2>2. frame' # "down" /\ OnePerBody(job'.cands)
      BY <1>0, <1>1, <2>1 DEF Unit, JobStands
    <2> QED BY <1>0, <1>1, <2>1, <2>2, NewBodyKeeps
  <1>2. ASSUME NEW c \in FailedCreations(b), c.residual = c.made,
               AbandonBatch(job.temps, c.residual, alive \cup c.made)
        PROVE  ObstacleInv'
    <2>1. job.temps = job.temps \cup BodiesOf(job.cands)
      BY <1>0, BodiesOfNone DEF JobStands
    <2>2. alive \cup c.made = alive \cup c.residual
      BY <1>2
    <2> QED BY <1>0, <1>2, <2>1, <2>2, AbandonKeeps
  <1> QED BY <1>1, <1>2 DEF CreateTemporary

LEMMA CreateCandidateKeeps == ASSUME ObstacleInv, NEW b, CreateCandidate(b) PROVE ObstacleInv'
  <1>0. /\ JobShape(job) /\ frame = "advance" /\ job.op = "add" /\ job.checked /\ b \notin alive
        /\ JobStands /\ (\A r \in job.cands : IsRecord(r))
    BY ShapesAre DEF ObstacleInv, CreateCandidate, Free
  <1>1. CASE /\ job' = [job EXCEPT !.cands = @ \cup {[body |-> b, moving |-> job.specs[Made + 1]]},
                                   !.made = @ + 1]
             /\ alive' = alive \cup {b}
             /\ Unit
             /\ UNCHANGED <<formal, debt, faulted, bound, attached, ghost>>
    <2> DEFINE x == [body |-> b, moving |-> job.specs[Made + 1]]
    <2>1. x.body = b /\ IsRecord(x)
      BY DEF IsRecord
    <2>2. job' = [job EXCEPT !.cands = @ \cup {x}, !.made = @ + 1]
      BY <1>1
    <2> HIDE DEF x
    <2>3. /\ JobShape(job') /\ job'.op = "add" /\ job'.temps = job.temps /\ job'.cands = job.cands \cup {x}
          /\ job'.planned = job.planned /\ job'.specs = job.specs /\ job'.made = job.made + 1
          /\ job'.checked = job.checked
      BY <1>0, <2>2 DEF JobShape
    <2>4. BodiesOf(job'.cands) = BodiesOf(job.cands) \cup {b}
      <3>1. BodiesOf({x}) = {b}
        BY <2>1, BodiesOfOne
      <3> QED BY <2>3, <3>1, BodiesOfUnion
    <2>5. frame' # "down" /\ Previewed /\ Planned
      BY <1>0, <1>1 DEF Unit, JobStands, Previewed
    <2>6. \A r \in job'.cands : IsRecord(r)
      BY <1>0, <2>1, <2>3
    <2>7. OnePerBody(job'.cands)
      <3>1. \A r \in job.cands : r.body # b
        BY <1>0 DEF JobStands, BodiesOf
      <3> QED BY <1>0, <2>1, <2>3, <3>1 DEF JobStands, OnePerBody
    <2> QED BY <1>0, <1>1, <2>3, <2>4, <2>5, <2>6, <2>7, NewBodyKeeps
  <1>2. ASSUME NEW c \in FailedCreations(b), c.residual = c.made,
               AbandonBatch(job.temps \cup BodiesOf(job.cands), c.residual, alive \cup c.made)
        PROVE  ObstacleInv'
    <2>1. alive \cup c.made = alive \cup c.residual
      BY <1>2
    <2> QED BY <1>0, <1>2, <2>1, AbandonKeeps
  <1> QED BY <1>1, <1>2 DEF CreateCandidate

LEMMA LeakBodyKeeps == ASSUME ObstacleInv, NEW b, LeakBody(b) PROVE ObstacleInv'
  <1>0. /\ GhostShape(ghost) /\ frame = "advance" /\ job.op = "add" /\ EveryBodyOwned
        /\ UNCHANGED <<formal, faulted, bound, attached>>
    BY ShapesAre DEF ObstacleInv, LeakBody
  <1> DEFINE B == job.temps \cup BodiesOf(job.cands)
  <1>1. PICK c \in FailedCreations(b) :
          /\ \E r \in Removals(B) :
              /\ alive' = (alive \cup c.made) \ r.gone
              /\ Register(c.residual \cup r.failed)
              /\ ghost' = [ghost EXCEPT !.leaked = @ \cup c.made,
                                        !.misled = @ \/ Misled(r) \/ c.residual # {}]
          /\ job' = NoJob
    BY DEF LeakBody
  <1>2. PICK r \in Removals(B) :
              /\ alive' = (alive \cup c.made) \ r.gone
              /\ Register(c.residual \cup r.failed)
              /\ ghost' = [ghost EXCEPT !.leaked = @ \cup c.made,
                                        !.misled = @ \/ Misled(r) \/ c.residual # {}]
    BY <1>1
  <1> DEFINE M == Misled(r) \/ c.residual # {}
  <1>3. r.failed \subseteq B /\ r.gone \subseteq B /\ B \ r.failed \subseteq r.gone
    BY RemovalFacts
  <1>4. M \in BOOLEAN
    BY DEF Misled
  <1>5. ghost' = [leaked |-> ghost.leaked \cup c.made, abandoned |-> ghost.abandoned,
                  misled |-> ghost.misled \/ M]
    BY <1>0, <1>2 DEF GhostShape
  <1> HIDE DEF M
  <1>6. /\ GhostShape(ghost') /\ ghost'.leaked = ghost.leaked \cup c.made
        /\ ghost'.abandoned = ghost.abandoned /\ (~ghost'.misled => ~ghost.misled)
    BY <1>0, <1>4, <1>5, GhostIs
  <1>7. /\ debt' = debt \cup (c.residual \cup r.failed) /\ frame' \in {"move", "down"}
        /\ (c.residual \cup r.failed) \cap BodiesOf(formal) # {} => frame' = "down"
    BY <1>2 DEF Register, Raise
  <1>8. alive \ alive' \subseteq job.temps \cup BodiesOf(job.cands)
    BY <1>2, <1>3
  <1>9. alive' \subseteq BodiesOf(formal) \cup debt' \cup ghost'.leaked \cup ghost'.abandoned
    BY <1>0, <1>2, <1>3, <1>6, <1>7 DEF EveryBodyOwned, PendingBodyIds
  <1> QED BY <1>0, <1>1, <1>6, <1>7, <1>8, <1>9, BatchGivenUpKeeps

LEMMA VehicleInTheWayKeeps == ASSUME ObstacleInv, VehicleInTheWay PROVE ObstacleInv'
  <1>0. /\ GhostShape(ghost) /\ frame = "advance" /\ job.op = "add" /\ EveryBodyOwned
        /\ UNCHANGED <<formal, faulted, bound, attached>> /\ job' = NoJob
    BY ShapesAre DEF ObstacleInv, VehicleInTheWay
  <1>1. PICK r \in Removals(job.temps) :
        /\ alive' = alive \ r.gone
        /\ Register(r.failed)
        /\ ghost' = [ghost EXCEPT !.abandoned = @ \cup BodiesOf(job.cands),
                                  !.misled = @ \/ Misled(r)]
    BY DEF VehicleInTheWay
  <1>2. r.failed \subseteq job.temps /\ r.gone \subseteq job.temps /\ job.temps \ r.failed \subseteq r.gone
    BY RemovalFacts
  <1>3. Misled(r) \in BOOLEAN
    BY DEF Misled
  <1>4. ghost' = [leaked |-> ghost.leaked, abandoned |-> ghost.abandoned \cup BodiesOf(job.cands),
                  misled |-> ghost.misled \/ Misled(r)]
    BY <1>0, <1>1 DEF GhostShape
  <1>5. /\ GhostShape(ghost') /\ ghost'.leaked = ghost.leaked
        /\ ghost'.abandoned = ghost.abandoned \cup BodiesOf(job.cands) /\ (~ghost'.misled => ~ghost.misled)
    BY <1>0, <1>3, <1>4, GhostIs
  <1>6. /\ debt' = debt \cup r.failed /\ frame' \in {"move", "down"}
        /\ r.failed \cap BodiesOf(formal) # {} => frame' = "down"
    BY <1>1 DEF Register, Raise
  <1>7. alive \ alive' \subseteq job.temps \cup BodiesOf(job.cands)
    BY <1>1, <1>2
  <1>8. alive' \subseteq BodiesOf(formal) \cup debt' \cup ghost'.leaked \cup ghost'.abandoned
    BY <1>0, <1>1, <1>2, <1>5, <1>6 DEF EveryBodyOwned, PendingBodyIds
  <1> QED BY <1>0, <1>5, <1>6, <1>7, <1>8, BatchGivenUpKeeps

LEMMA RemoveTemporaryKeeps == ASSUME ObstacleInv, NEW b, RemoveTemporary(b) PROVE ObstacleInv'
  <1>0. /\ JobShape(job) /\ GhostShape(ghost) /\ frame = "advance" /\ job.op = "add" /\ b \in job.temps
        /\ Shapes /\ JobStands /\ RecordsStand /\ EveryBodyOwned /\ BindingsFollow
    BY ShapesAre DEF ObstacleInv, RemoveTemporary
  <1>1. PICK r \in Removals({b}) :
        IF r.failed = {}
        THEN /\ job' = [job EXCEPT !.temps = @ \ {b}]
             /\ alive' = alive \ r.gone
             /\ Unit
             /\ UNCHANGED <<formal, debt, faulted, bound, attached, ghost>>
        ELSE \E q \in Removals((job.temps \ {b}) \cup BodiesOf(job.cands)) :
                /\ alive' = alive \ (r.gone \cup q.gone)
                /\ Register(r.failed \cup q.failed)
                /\ job' = NoJob
                /\ ghost' = [ghost EXCEPT !.misled = @ \/ Misled(r) \/ Misled(q)]
                /\ UNCHANGED <<formal, faulted, bound, attached>>
    BY DEF RemoveTemporary
  <1>2. r.failed \subseteq {b} /\ r.gone \subseteq {b} /\ {b} \ r.failed \subseteq r.gone
    BY RemovalFacts
  <1>3. CASE r.failed = {}
    <2>1. /\ JobShape(job') /\ job'.op = "add" /\ job'.temps = job.temps \ {b} /\ job'.cands = job.cands
          /\ job'.planned = job.planned /\ job'.specs = job.specs /\ job'.made = job.made
          /\ job'.checked = job.checked
      BY <1>0, <1>1, <1>3 DEF JobShape
    <2>2. alive' = alive \ {b}
      BY <1>1, <1>2, <1>3
    <2>3. /\ frame' \in {"advance", "move"} /\ UNCHANGED <<formal, debt, faulted, bound, attached, ghost>>
      BY <1>1, <1>3 DEF Unit
    <2>4. Shapes'
      BY <1>0, <2>1, <2>3 DEF Shapes, JobShape
    <2>5. JobStands'
      BY <1>0, <2>1, <2>2, <2>3 DEF JobStands, Previewed, Planned
    <2>6. RecordsStand'
      BY <1>0, <2>1, <2>2, <2>3 DEF RecordsStand
    <2>7. EveryBodyOwned' /\ BindingsFollow'
      BY <1>0, <2>1, <2>2, <2>3 DEF EveryBodyOwned, PendingBodyIds, BindingsFollow
    <2> QED BY <2>4, <2>5, <2>6, <2>7 DEF ObstacleInv
  <1>4. CASE r.failed # {}
    <2> DEFINE B == (job.temps \ {b}) \cup BodiesOf(job.cands)
    <2>1. PICK q \in Removals(B) :
                /\ alive' = alive \ (r.gone \cup q.gone)
                /\ Register(r.failed \cup q.failed)
                /\ job' = NoJob
                /\ ghost' = [ghost EXCEPT !.misled = @ \/ Misled(r) \/ Misled(q)]
                /\ UNCHANGED <<formal, faulted, bound, attached>>
      BY <1>1, <1>4
    <2>2. q.failed \subseteq B /\ q.gone \subseteq B /\ B \ q.failed \subseteq q.gone
      BY RemovalFacts
    <2> DEFINE M == Misled(r) \/ Misled(q)
    <2>3. M \in BOOLEAN
      BY DEF Misled
    <2>4. ghost' = [leaked |-> ghost.leaked, abandoned |-> ghost.abandoned, misled |-> ghost.misled \/ M]
      BY <1>0, <2>1 DEF GhostShape
    <2> HIDE DEF M
    <2>5. /\ GhostShape(ghost') /\ ghost'.leaked = ghost.leaked /\ ghost'.abandoned = ghost.abandoned
          /\ ~ghost'.misled => ~ghost.misled
      BY <1>0, <2>3, <2>4, GhostIs
    <2>6. /\ debt' = debt \cup (r.failed \cup q.failed) /\ frame' \in {"move", "down"}
          /\ (r.failed \cup q.failed) \cap BodiesOf(formal) # {} => frame' = "down"
      BY <2>1 DEF Register, Raise
    <2>7. alive \ alive' \subseteq job.temps \cup BodiesOf(job.cands)
      BY <1>0, <1>2, <2>1, <2>2
    <2>8. alive' \subseteq BodiesOf(formal) \cup debt' \cup ghost'.leaked \cup ghost'.abandoned
      BY <1>0, <1>2, <2>1, <2>2, <2>5, <2>6 DEF EveryBodyOwned, PendingBodyIds
    <2> QED BY <1>0, <2>1, <2>5, <2>6, <2>7, <2>8, BatchGivenUpKeeps
  <1> QED BY <1>3, <1>4

LEMMA PublishBatchKeeps == ASSUME ObstacleInv, PublishBatch PROVE ObstacleInv'
  <1>0. /\ frame = "advance" /\ job.op = "add" /\ job.temps = {} /\ job.checked
        /\ Shapes /\ JobStands /\ RecordsStand /\ EveryBodyOwned /\ BindingsFollow
        /\ UNCHANGED <<debt, faulted, alive, attached, ghost>>
    BY DEF ObstacleInv, PublishBatch
  <1>1. CASE ~Publishable(formal \cup job.cands)
    BY <1>1 DEF PublishBatch, Raise, ObstacleInv
  <1>2. CASE Publishable(formal \cup job.cands)
    <2>1. formal' = formal \cup job.cands /\ job' = NoJob /\ frame' = "move" /\ bound' = BodiesOf(formal')
      BY <1>2 DEF PublishBatch
    <2>a. /\ JobShape(job') /\ job'.op = "none" /\ job'.temps = {} /\ job'.cands = {} /\ ~job'.checked
          /\ BodiesOf({}) = {}
      BY <2>1, NoJobIs, BodiesOfNone
    <2>2. BodiesOf(formal') = BodiesOf(formal) \cup BodiesOf(job.cands)
      BY <2>1, BodiesOfUnion
    <2>3. Shapes'
      BY <1>0, <2>1, <2>a DEF Shapes, JobShape
    <2>4. JobStands'
      BY <1>0, <2>1, <2>a DEF JobStands, OnePerBody
    <2>5. OnePerBody(formal') /\ BodiesOf(formal') \cap debt' = {}
      BY <1>0, <1>2, <2>1 DEF Publishable, OnePerBody
    <2>6. RecordsStand'
      BY <1>0, <2>a, <2>2, <2>5 DEF RecordsStand, JobStands
    <2>7. EveryBodyOwned'
      BY <1>0, <2>a, <2>2 DEF EveryBodyOwned, PendingBodyIds
    <2>8. BindingsFollow'
      BY <2>1 DEF BindingsFollow
    <2> QED BY <2>3, <2>4, <2>6, <2>7, <2>8 DEF ObstacleInv
  <1> QED BY <1>1, <1>2

-----------------------------------------------------------------------------
(* Deleting and clearing. *)
LEMMA DeleteKeeps == ASSUME ObstacleInv, NEW record \in formal, Delete(record) PROVE ObstacleInv'
  <1>0. /\ frame = "start" /\ job = NoJob /\ job' = job /\ UNCHANGED <<faulted, attached>>
        /\ Shapes /\ JobStands /\ RecordsStand /\ EveryBodyOwned /\ BindingsFollow
    BY DEF ObstacleInv, Delete
  <1>a. /\ JobShape(job') /\ job'.op = "none" /\ job'.temps = {} /\ job'.cands = {} /\ ~job'.checked
        /\ BodiesOf({}) = {} /\ GhostShape(ghost) /\ job.temps = {} /\ job.cands = {} /\ job.op = "none"
    BY <1>0, NoJobIs, BodiesOfNone, ShapesAre
  <1>1. PICK g \in Removals(debt), r \in Removals({record.body}) :
        IF Admitted(g)
        THEN /\ alive' = alive \ (g.gone \cup r.gone)
             /\ debt' = {}
             /\ formal' = IF r.failed = {} THEN formal \ {record} ELSE formal
             /\ bound' = IF r.failed = {} THEN BodiesOf(formal') ELSE bound
             /\ frame' = "move"
             /\ ghost' = [ghost EXCEPT !.misled = @ \/ Misled(g) \/ Misled(r)]
        ELSE /\ r.failed = {}
             /\ Gate(g) /\ Note(g) /\ Raise
             /\ UNCHANGED <<formal, bound>>
    BY DEF Delete
  <1>2. CASE ~Admitted(g)
    BY <1>1, <1>2 DEF Raise, ObstacleInv
  <1>3. CASE Admitted(g)
    <2>0. /\ g.failed \subseteq debt /\ g.gone \subseteq debt /\ debt \ g.failed \subseteq g.gone
          /\ r.failed \subseteq {record.body} /\ r.gone \subseteq {record.body}
          /\ {record.body} \ r.failed \subseteq r.gone /\ g.failed = {}
      BY <1>3, RemovalFacts DEF Admitted
    <2> DEFINE M == Misled(g) \/ Misled(r)
    <2>1. M \in BOOLEAN
      BY DEF Misled
    <2>2. ghost' = [leaked |-> ghost.leaked, abandoned |-> ghost.abandoned, misled |-> ghost.misled \/ M]
      BY <1>a, <1>1, <1>3 DEF GhostShape
    <2> HIDE DEF M
    <2>3. /\ GhostShape(ghost') /\ ghost'.leaked = ghost.leaked /\ ghost'.abandoned = ghost.abandoned
          /\ ~ghost'.misled => ~ghost.misled /\ ~M
      BY <1>a, <2>1, <2>2, GhostIs
    <2>4. ~ghost'.misled => r.failed \cap r.gone = {}
      BY <2>3 DEF M, Misled
    <2>5. formal' \subseteq formal /\ debt' = {} /\ alive' = alive \ (debt \cup r.gone) /\ frame' = "move"
      BY <1>1, <1>3, <2>0
    <2>6. CASE r.failed = {}
      <3>1. formal' = formal \ {record} /\ bound' = BodiesOf(formal') /\ r.gone = {record.body}
        BY <1>1, <1>3, <2>0, <2>6
      <3>2. BodiesOf(formal') = BodiesOf(formal) \ {record.body}
        BY <1>0, <3>1 DEF RecordsStand, OnePerBody, BodiesOf
      <3>3. Shapes'
        BY <1>0, <1>a, <2>3, <2>5 DEF Shapes, JobShape, GhostShape
      <3>4. JobStands'
        BY <1>0, <1>a, <2>5 DEF JobStands, OnePerBody
      <3>5. RecordsStand'
        BY <1>0, <1>a, <2>3, <2>5, <3>1, <3>2 DEF RecordsStand, OnePerBody
      <3>6. EveryBodyOwned' /\ BindingsFollow'
        BY <1>0, <1>a, <2>3, <2>5, <3>1, <3>2 DEF EveryBodyOwned, PendingBodyIds, BindingsFollow
      <3> QED BY <3>3, <3>4, <3>5, <3>6 DEF ObstacleInv
    <2>7. CASE r.failed # {}
      <3>1. formal' = formal /\ bound' = bound /\ (~ghost'.misled => r.gone = {})
        BY <1>1, <1>3, <2>0, <2>4, <2>7
      <3>3. Shapes'
        BY <1>0, <1>a, <2>3, <2>5 DEF Shapes, JobShape, GhostShape
      <3>4. JobStands'
        BY <1>0, <1>a, <2>5 DEF JobStands, OnePerBody
      <3>5. RecordsStand'
        BY <1>0, <1>a, <2>3, <2>5, <3>1 DEF RecordsStand, OnePerBody
      <3>6. EveryBodyOwned' /\ BindingsFollow'
        BY <1>0, <1>a, <2>3, <2>5, <3>1 DEF EveryBodyOwned, PendingBodyIds, BindingsFollow
      <3> QED BY <3>3, <3>4, <3>5, <3>6 DEF ObstacleInv
    <2> QED BY <2>6, <2>7
  <1> QED BY <1>2, <1>3

LEMMA ClearOneKeeps == ASSUME ObstacleInv, NEW b, ClearOne(b) PROVE ObstacleInv'
  <1>0. /\ frame = "advance" /\ job.op = "clear" /\ UNCHANGED <<debt, faulted, attached>>
        /\ Shapes /\ JobStands /\ RecordsStand /\ EveryBodyOwned /\ JobShape(job) /\ GhostShape(ghost)
    BY ShapesAre DEF ObstacleInv, ClearOne
  <1>a. job.temps = {} /\ job.cands = {} /\ ~job.checked /\ BodiesOf({}) = {} /\ debt = {} /\ ~faulted
    BY <1>0, BodiesOfNone DEF JobStands
  <1>1. PICK r \in Removals({b}) :
        /\ alive' = alive \ r.gone
        /\ IF r.failed = {}
           THEN /\ formal' = {x \in formal : x.body # b}
                /\ job' = [job EXCEPT !.rest = @ \ {b}]
                /\ Unit
           ELSE formal' = formal /\ job' = NoJob /\ frame' = "move"
        /\ bound' = IF frame' = "move" THEN BodiesOf(formal') ELSE bound
        /\ Note(r)
    BY DEF ClearOne
  <1>2. r.failed \subseteq {b} /\ r.gone \subseteq {b} /\ {b} \ r.failed \subseteq r.gone
    BY RemovalFacts
  <1>3. /\ GhostShape(ghost') /\ ghost'.leaked = ghost.leaked /\ ghost'.abandoned = ghost.abandoned
        /\ ~ghost'.misled => ~ghost.misled /\ r.failed \cap r.gone = {}
    BY <1>0, <1>1, NoteIs DEF Misled
  <1>4. /\ JobShape(job') /\ job'.op \in {"none", "clear"} /\ job'.temps = {} /\ job'.cands = {} /\ ~job'.checked
        /\ frame' \in {"advance", "move"} /\ (frame' = "advance" => job'.op = "clear") /\ formal' \subseteq formal
    <2>1. CASE r.failed = {}
      BY <1>0, <1>a, <1>1, <2>1 DEF JobShape, Unit
    <2>2. CASE r.failed # {}
      BY <1>1, <2>2, NoJobIs
    <2> QED BY <2>1, <2>2
  <1>5. /\ BodiesOf(formal') \subseteq BodiesOf(formal) /\ BodiesOf(formal) \ r.gone \subseteq BodiesOf(formal')
        /\ ~ghost'.misled => BodiesOf(formal') \cap r.gone = {}
    <2>1. CASE r.failed = {}
      BY <1>1, <1>2, <2>1 DEF BodiesOf
    <2>2. CASE r.failed # {}
      BY <1>1, <1>2, <1>3, <2>2
    <2> QED BY <2>1, <2>2
  <1>6. Shapes'
    BY <1>0, <1>3, <1>4 DEF Shapes, JobShape, GhostShape
  <1>7. JobStands'
    BY <1>0, <1>a, <1>4 DEF JobStands, OnePerBody
  <1>8. RecordsStand'
    BY <1>0, <1>a, <1>1, <1>3, <1>4, <1>5 DEF RecordsStand, OnePerBody
  <1>9. EveryBodyOwned'
    BY <1>0, <1>a, <1>1, <1>3, <1>4, <1>5 DEF EveryBodyOwned, PendingBodyIds
  <1>10. BindingsFollow'
    BY <1>1, <1>4 DEF BindingsFollow
  <1> QED BY <1>6, <1>7, <1>8, <1>9, <1>10 DEF ObstacleInv

LEMMA EndClearKeeps == ASSUME ObstacleInv, EndClear PROVE ObstacleInv'
  <1>0. /\ Shapes /\ JobStands /\ RecordsStand /\ EveryBodyOwned /\ job.op = "clear" /\ job' = NoJob
        /\ UNCHANGED <<formal, debt, faulted, alive, attached, ghost>> /\ bound' = BodiesOf(formal')
    BY DEF ObstacleInv, EndClear
  <1>a. /\ JobShape(job') /\ job'.op = "none" /\ job'.temps = {} /\ job'.cands = {} /\ ~job'.checked
        /\ BodiesOf({}) = {}
    BY <1>0, NoJobIs, BodiesOfNone
  <1>1. Shapes'
    BY <1>0, <1>a DEF Shapes, JobShape
  <1>2. JobStands' /\ RecordsStand'
    BY <1>0, <1>a DEF JobStands, RecordsStand, OnePerBody
  <1>3. EveryBodyOwned' /\ BindingsFollow'
    BY <1>0, <1>a DEF EveryBodyOwned, PendingBodyIds, BindingsFollow, JobStands
  <1> QED BY <1>1, <1>2, <1>3 DEF ObstacleInv

-----------------------------------------------------------------------------
(* Restoring. *)
LEMMA FaultKeeps ==
  ASSUME frame # "down", ObstacleInv, UNCHANGED <<attached, frame, bound>>, ~attached,
         formal' = {}, faulted', job' = NoJob, GhostShape(ghost'),
         alive' \subseteq debt' \cup ghost'.leaked \cup ghost'.abandoned
  PROVE  ObstacleInv'
  <1>a. /\ JobShape(job') /\ job'.op = "none" /\ job'.temps = {} /\ job'.cands = {} /\ ~job'.checked
        /\ BodiesOf({}) = {}
    BY NoJobIs, BodiesOfNone
  <1>1. Shapes'
    BY <1>a DEF Shapes, JobShape, GhostShape
  <1>2. JobStands' /\ RecordsStand'
    BY <1>a DEF JobStands, RecordsStand, OnePerBody
  <1>3. EveryBodyOwned' /\ BindingsFollow'
    BY <1>a DEF EveryBodyOwned, PendingBodyIds, BindingsFollow
  <1> QED BY <1>1, <1>2, <1>3 DEF ObstacleInv

LEMMA BeginRestoreKeeps == ASSUME ObstacleInv, NEW specs, BeginRestore(specs) PROVE ObstacleInv'
  <1>0. /\ frame = "start" /\ job = NoJob /\ ~attached /\ UNCHANGED <<frame, bound, attached>>
        /\ Shapes /\ JobStands /\ RecordsStand /\ EveryBodyOwned /\ GhostShape(ghost)
    BY ShapesAre DEF ObstacleInv, BeginRestore
  <1>a. /\ JobShape(job) /\ job.op = "none" /\ job.temps = {} /\ job.cands = {} /\ ~job.checked
        /\ BodiesOf({}) = {}
    BY <1>0, NoJobIs, BodiesOfNone
  <1>1. PICK r \in Removals(debt) :
        /\ Note(r)
        /\ alive' = alive \ r.gone
        /\ \/ /\ Admitted(r) /\ BodiesOf(formal) \subseteq alive'
              /\ job' = [NoJob EXCEPT !.op = "restore", !.specs = specs]
              /\ debt' = r.failed
              /\ UNCHANGED <<formal, faulted>>
           \/ /\ Admitted(r)
              /\ BodiesOf(formal) \subseteq alive' => Faulty("diagnose")
              /\ \/ formal' = {} /\ debt' = BodiesOf(formal) \cap alive'
                 \/ Faulty("diagnose") /\ formal' = {} /\ debt' = BodiesOf(formal)
              /\ faulted' = TRUE /\ job' = job
           \/ /\ debt' = r.failed
              /\ UNCHANGED <<formal, faulted, job>>
    BY DEF BeginRestore
  <1>2. r.failed \subseteq debt /\ r.gone \subseteq debt /\ debt \ r.failed \subseteq r.gone
    BY RemovalFacts
  <1>3. /\ GhostShape(ghost') /\ ghost'.leaked = ghost.leaked /\ ghost'.abandoned = ghost.abandoned
        /\ ~ghost'.misled => ~ghost.misled
    BY <1>0, <1>1, NoteIs
  <1>4. CASE /\ Admitted(r) /\ BodiesOf(formal) \subseteq alive'
             /\ job' = [NoJob EXCEPT !.op = "restore", !.specs = specs]
             /\ debt' = r.failed
             /\ UNCHANGED <<formal, faulted>>
    <2>1. JobShape(job') /\ job'.op = "restore" /\ job'.temps = {} /\ job'.cands = {} /\ ~job'.checked
      BY <1>4 DEF NoJob, JobShape
    <2>2. debt' = {} /\ ~faulted
      BY <1>4 DEF Admitted
    <2> QED BY <1>0, <1>a, <1>1, <1>4, <2>1, <2>2, GateKeeps
  <1>5. CASE /\ Admitted(r)
             /\ \/ formal' = {} /\ debt' = BodiesOf(formal) \cap alive'
                \/ formal' = {} /\ debt' = BodiesOf(formal)
             /\ faulted' = TRUE /\ job' = job
    <2>1. alive' \subseteq debt' \cup ghost'.leaked \cup ghost'.abandoned
      BY <1>0, <1>a, <1>1, <1>2, <1>3, <1>5 DEF EveryBodyOwned, PendingBodyIds, Admitted
    <2> QED BY <1>0, <1>3, <1>5, <2>1, FaultKeeps
  <1>6. CASE debt' = r.failed /\ UNCHANGED <<formal, faulted, job>>
    BY <1>0, <1>a, <1>1, <1>6, GateKeeps
  <1> QED BY <1>1, <1>4, <1>5, <1>6

LEMMA CommitRestoreKeeps == ASSUME ObstacleInv, frame # "down", CommitRestore PROVE ObstacleInv'
  <1>0. /\ job.op = "restore" /\ alive' = alive \ BodiesOf(formal) /\ formal' = job.cands /\ job' = NoJob
        /\ UNCHANGED <<debt, faulted, frame, bound, attached, ghost>>
        /\ Shapes /\ JobStands /\ RecordsStand /\ EveryBodyOwned
    BY DEF ObstacleInv, CommitRestore
  <1>a. /\ JobShape(job') /\ job'.op = "none" /\ job'.temps = {} /\ job'.cands = {} /\ ~job'.checked
        /\ BodiesOf({}) = {}
    BY <1>0, NoJobIs, BodiesOfNone
  <1>1. Shapes'
    BY <1>0, <1>a DEF Shapes, JobShape
  <1>2. JobStands'
    BY <1>0, <1>a DEF JobStands, OnePerBody
  <1>3. RecordsStand'
    BY <1>0, <1>a DEF JobStands, RecordsStand
  <1>4. EveryBodyOwned' /\ BindingsFollow'
    BY <1>0, <1>a DEF EveryBodyOwned, PendingBodyIds, BindingsFollow, JobStands
  <1> QED BY <1>1, <1>2, <1>3, <1>4 DEF ObstacleInv

LEMMA RestoreOneKeeps == ASSUME ObstacleInv, frame # "down", NEW b, RestoreOne(b) PROVE ObstacleInv'
  <1>0. /\ job.op = "restore" /\ b \notin alive /\ UNCHANGED <<formal, faulted, frame, bound, attached>>
        /\ Shapes /\ JobStands /\ RecordsStand /\ EveryBodyOwned /\ BindingsFollow
        /\ JobShape(job) /\ GhostShape(ghost) /\ (\A r \in job.cands : IsRecord(r))
    BY ShapesAre DEF ObstacleInv, RestoreOne, Free
  <1>a. job.temps = {} /\ debt = {} /\ ~faulted /\ ~attached /\ ~job.checked
    BY <1>0 DEF JobStands
  <1>1. CASE /\ job' = [job EXCEPT !.cands = @ \cup {[body |-> b, moving |-> job.specs[job.made + 1]]},
                                   !.made = @ + 1]
             /\ alive' = alive \cup {b}
             /\ UNCHANGED <<debt, ghost>>
    <2> DEFINE x == [body |-> b, moving |-> job.specs[job.made + 1]]
    <2>1. x.body = b /\ IsRecord(x)
      BY DEF IsRecord
    <2>2. job' = [job EXCEPT !.cands = @ \cup {x}, !.made = @ + 1]
      BY <1>1
    <2> HIDE DEF x
    <2>3. /\ JobShape(job') /\ job'.op = "restore" /\ job'.temps = {} /\ job'.cands = job.cands \cup {x}
          /\ ~job'.checked
      BY <1>0, <1>a, <2>2 DEF JobShape
    <2>4. BodiesOf(job'.cands) = BodiesOf(job.cands) \cup {b}
      <3>1. BodiesOf({x}) = {b}
        BY <2>1, BodiesOfOne
      <3> QED BY <2>3, <3>1, BodiesOfUnion
    <2>5. OnePerBody(job'.cands)
      <3>1. \A r \in job.cands : r.body # b
        BY <1>0 DEF JobStands, BodiesOf
      <3> QED BY <1>0, <2>1, <2>3, <3>1 DEF JobStands, OnePerBody
    <2>6. Shapes'
      BY <1>0, <1>1, <2>1, <2>3 DEF Shapes, JobShape
    <2>7. JobStands'
      BY <1>0, <1>a, <1>1, <2>3, <2>4, <2>5 DEF JobStands
    <2>8. RecordsStand'
      BY ZenonT(60), <1>0, <1>1, <2>3, <2>4 DEF RecordsStand, JobStands
    <2>9. EveryBodyOwned' /\ BindingsFollow'
      BY <1>0, <1>a, <1>1, <2>3, <2>4 DEF EveryBodyOwned, PendingBodyIds, BindingsFollow
    <2> QED BY <2>6, <2>7, <2>8, <2>9 DEF ObstacleInv
  <1>2. ASSUME NEW c \in FailedCreations(b), NEW r \in Removals(BodiesOf(job.cands)),
               alive' = (alive \cup c.made) \ r.gone,
               debt' = debt \cup c.residual \cup r.failed,
               job' = NoJob,
               ghost' = [ghost EXCEPT !.leaked = @ \cup (c.made \ c.residual),
                                      !.misled = @ \/ Misled(r) \/ c.residual # c.made]
        PROVE  ObstacleInv'
    <2> DEFINE M == Misled(r) \/ c.residual # c.made
    <2>1. M \in BOOLEAN
      BY DEF Misled
    <2>2. ghost' = [leaked |-> ghost.leaked \cup (c.made \ c.residual), abandoned |-> ghost.abandoned,
                    misled |-> ghost.misled \/ M]
      BY <1>0, <1>2 DEF GhostShape
    <2> HIDE DEF M
    <2>3. /\ GhostShape(ghost') /\ ghost'.leaked = ghost.leaked \cup (c.made \ c.residual)
          /\ ghost'.abandoned = ghost.abandoned /\ (~ghost'.misled => ~ghost.misled)
      BY <1>0, <2>1, <2>2, GhostIs
    <2>4. /\ r.failed \subseteq BodiesOf(job.cands) /\ r.gone \subseteq BodiesOf(job.cands)
          /\ BodiesOf(job.cands) \ r.failed \subseteq r.gone /\ c.made \subseteq {b} /\ c.residual \subseteq {b}
      BY RemovalFacts, CreationFacts
    <2>a. /\ JobShape(job') /\ job'.op = "none" /\ job'.temps = {} /\ job'.cands = {} /\ ~job'.checked
          /\ BodiesOf({}) = {}
      BY <1>2, NoJobIs, BodiesOfNone
    <2>5. Shapes'
      BY <1>0, <2>a, <2>3 DEF Shapes, JobShape, GhostShape
    <2>6. JobStands'
      BY <2>a DEF JobStands, OnePerBody
    <2>7. BodiesOf(formal) \subseteq alive /\ BodiesOf(formal) \cap BodiesOf(job.cands) = {}
      BY <1>0 DEF RecordsStand
    <2>8. BodiesOf(formal) \subseteq alive' /\ BodiesOf(formal) \cap debt' = {}
      BY <1>0, <1>a, <1>2, <2>4, <2>7
    <2>9. RecordsStand'
      BY <1>0, <1>a, <2>a, <2>8 DEF RecordsStand
    <2>10. EveryBodyOwned' /\ BindingsFollow'
      BY <1>0, <1>a, <1>2, <2>a, <2>3, <2>4 DEF EveryBodyOwned, PendingBodyIds, BindingsFollow
    <2> QED BY <2>5, <2>6, <2>9, <2>10 DEF ObstacleInv
  <1> QED BY <1>1, <1>2 DEF RestoreOne

LEMMA RollBackRestoreKeeps == ASSUME ObstacleInv, frame # "down", RollBackRestore PROVE ObstacleInv'
  <1>0. /\ job.op = "restore" /\ UNCHANGED <<formal, faulted, frame, bound, attached>>
        /\ Shapes /\ JobStands /\ RecordsStand /\ EveryBodyOwned /\ GhostShape(ghost)
    BY ShapesAre DEF ObstacleInv, RollBackRestore
  <1>a. job.temps = {} /\ debt = {} /\ ~faulted /\ ~attached
    BY <1>0 DEF JobStands
  <1>1. PICK went \in SUBSET BodiesOf(formal), r \in Removals(BodiesOf(job.cands)), stays \in BodiesOf(formal) :
            /\ alive' = alive \ (went \cup r.gone)
            /\ debt' = debt \cup r.failed
            /\ job' = [NoJob EXCEPT !.op = "rollback", !.rest = went]
            /\ ghost' = [ghost EXCEPT !.misled = @ \/ Misled(r) \/ stays \in went]
    BY DEF RollBackRestore
  <1> DEFINE M == Misled(r) \/ stays \in went
  <1>2. M \in BOOLEAN
    BY DEF Misled
  <1>3. ghost' = [leaked |-> ghost.leaked, abandoned |-> ghost.abandoned, misled |-> ghost.misled \/ M]
    BY <1>0, <1>1 DEF GhostShape
  <1> HIDE DEF M
  <1>4. /\ GhostShape(ghost') /\ ghost'.leaked = ghost.leaked /\ ghost'.abandoned = ghost.abandoned
    BY <1>0, <1>2, <1>3, GhostIs
  <1>5. /\ r.failed \subseteq BodiesOf(job.cands) /\ r.gone \subseteq BodiesOf(job.cands)
        /\ BodiesOf(job.cands) \ r.failed \subseteq r.gone
    BY RemovalFacts
  <1>6. /\ JobShape(job') /\ job'.op = "rollback" /\ job'.temps = {} /\ job'.cands = {} /\ ~job'.checked
        /\ BodiesOf({}) = {}
    BY <1>1, BodiesOfNone DEF NoJob, JobShape
  <1>7. Shapes'
    BY <1>0, <1>4, <1>6 DEF Shapes, JobShape, GhostShape
  <1>8. JobStands'
    BY <1>0, <1>a, <1>6 DEF JobStands, OnePerBody
  <1>9. RecordsStand'
    BY <1>0, <1>a, <1>1, <1>5, <1>6 DEF RecordsStand
  <1>10. EveryBodyOwned' /\ BindingsFollow'
    BY <1>0, <1>a, <1>1, <1>4, <1>5, <1>6 DEF EveryBodyOwned, PendingBodyIds, BindingsFollow
  <1> QED BY <1>7, <1>8, <1>9, <1>10 DEF ObstacleInv

LEMMA RemakeKeeps ==
  ASSUME ObstacleInv, frame # "down", NEW b, NEW old \in formal, Remake(old, b)
  PROVE  ObstacleInv'
  <1>0. /\ job.op = "rollback" /\ b \notin alive /\ UNCHANGED <<frame, bound, attached>>
        /\ Shapes /\ JobStands /\ RecordsStand /\ EveryBodyOwned /\ BindingsFollow
        /\ JobShape(job) /\ GhostShape(ghost) /\ (\A r \in formal \cup job.cands : IsRecord(r))
    BY ShapesAre DEF ObstacleInv, Remake, Free
  <1>a. job.temps = {} /\ ~faulted /\ ~attached /\ ~job.checked
    BY <1>0 DEF JobStands
  <1>b. ASSUME NEW owned, EnterFault(owned, alive'), GhostShape(ghost'), BodiesOf(job.cands) \subseteq owned,
               alive' \subseteq alive \cup owned \cup ghost'.leaked,
               ghost.leaked \subseteq ghost'.leaked, ghost.abandoned = ghost'.abandoned
        PROVE  ObstacleInv'
    <2>1. /\ formal' = {} /\ faulted' /\ job' = NoJob
          /\ \/ debt' = (BodiesOf(formal) \cup debt \cup owned) \cap alive'
             \/ debt' = BodiesOf(formal) \cup debt \cup owned
      BY <1>b DEF EnterFault
    <2>2. alive' \subseteq debt' \cup ghost'.leaked \cup ghost'.abandoned
      BY <1>0, <1>a, <1>b, <2>1 DEF EveryBodyOwned, PendingBodyIds
    <2> QED BY <1>0, <1>a, <1>b, <2>1, <2>2, FaultKeeps
  <1>1. CASE alive' = alive \cup {b} /\ ghost' = ghost /\ EnterFault(BodiesOf(job.cands) \cup {b}, alive')
    BY <1>0, <1>b, <1>1
  <1>2. ASSUME NEW c \in FailedCreations(b), alive' = alive \cup c.made,
               EnterFault(BodiesOf(job.cands) \cup c.residual, alive'),
               ghost' = [ghost EXCEPT !.leaked = @ \cup (c.made \ c.residual),
                                      !.misled = @ \/ c.residual # c.made]
        PROVE  ObstacleInv'
    <2> DEFINE M == c.residual # c.made
    <2>1. M \in BOOLEAN
      OBVIOUS
    <2>2. ghost' = [leaked |-> ghost.leaked \cup (c.made \ c.residual), abandoned |-> ghost.abandoned,
                    misled |-> ghost.misled \/ M]
      BY <1>0, <1>2 DEF GhostShape
    <2> HIDE DEF M
    <2>3. /\ GhostShape(ghost') /\ ghost'.leaked = ghost.leaked \cup (c.made \ c.residual)
          /\ ghost'.abandoned = ghost.abandoned
      BY <1>0, <2>1, <2>2, GhostIs
    <2> QED BY <1>b, <1>2, <2>3
  <1>3. CASE /\ alive' = alive \cup {b} /\ ghost' = ghost /\ b \notin debt
             /\ job' = [job EXCEPT !.rest = @ \ {old.body}, !.cands = @ \cup {[old EXCEPT !.body = b]}]
             /\ UNCHANGED <<formal, debt, faulted>>
    <2> DEFINE x == [old EXCEPT !.body = b]
    <2>1. x.body = b /\ IsRecord(x)
      BY <1>0 DEF IsRecord
    <2>2. job' = [job EXCEPT !.rest = @ \ {old.body}, !.cands = @ \cup {x}]
      BY <1>3
    <2> HIDE DEF x
    <2>3. /\ JobShape(job') /\ job'.op = "rollback" /\ job'.temps = {} /\ job'.cands = job.cands \cup {x}
          /\ ~job'.checked
      BY <1>0, <1>a, <2>2 DEF JobShape
    <2>4. BodiesOf(job'.cands) = BodiesOf(job.cands) \cup {b}
      <3>1. BodiesOf({x}) = {b}
        BY <2>1, BodiesOfOne
      <3> QED BY <2>3, <3>1, BodiesOfUnion
    <2>5. OnePerBody(job'.cands)
      <3>1. \A r \in job.cands : r.body # b
        BY <1>0 DEF JobStands, BodiesOf
      <3> QED BY <1>0, <2>1, <2>3, <3>1 DEF JobStands, OnePerBody
    <2>6. Shapes'
      BY <1>0, <1>3, <2>1, <2>3 DEF Shapes, JobShape
    <2>7. JobStands'
      BY <1>0, <1>a, <1>3, <2>3, <2>4, <2>5 DEF JobStands
    <2>8. RecordsStand'
      BY <1>0, <1>3, <2>3, <2>4 DEF RecordsStand
    <2>9. EveryBodyOwned' /\ BindingsFollow'
      BY <1>0, <1>a, <1>3, <2>3, <2>4 DEF EveryBodyOwned, PendingBodyIds, BindingsFollow
    <2> QED BY <2>6, <2>7, <2>8, <2>9 DEF ObstacleInv
  <1> QED BY <1>1, <1>2, <1>3 DEF Remake

LEMMA EndRollbackKeeps == ASSUME ObstacleInv, frame # "down", EndRollback PROVE ObstacleInv'
  <1>0. /\ job.op = "rollback" /\ UNCHANGED <<alive, frame, bound, attached, ghost>>
        /\ Shapes /\ JobStands /\ RecordsStand /\ EveryBodyOwned /\ GhostShape(ghost)
    BY ShapesAre DEF ObstacleInv, EndRollback
  <1>a. job.temps = {} /\ ~faulted /\ ~attached
    BY <1>0 DEF JobStands
  <1>1. CASE EnterFault(BodiesOf(job.cands), alive)
    <2>1. /\ formal' = {} /\ faulted' /\ job' = NoJob
          /\ \/ debt' = (BodiesOf(formal) \cup debt \cup BodiesOf(job.cands)) \cap alive
             \/ debt' = BodiesOf(formal) \cup debt \cup BodiesOf(job.cands)
      BY <1>1 DEF EnterFault
    <2>2. alive' \subseteq debt' \cup ghost'.leaked \cup ghost'.abandoned
      BY <1>0, <1>a, <2>1 DEF EveryBodyOwned, PendingBodyIds
    <2> QED BY <1>0, <1>a, <2>1, <2>2, FaultKeeps
  <1>2. CASE /\ formal' = {x \in formal : x.body \in alive /\ x.body \notin BodiesOf(job.cands)} \cup job.cands
             /\ job' = NoJob
             /\ UNCHANGED <<debt, faulted>>
    <2> DEFINE kept == {x \in formal : x.body \in alive /\ x.body \notin BodiesOf(job.cands)}
    <2>a. /\ JobShape(job') /\ job'.op = "none" /\ job'.temps = {} /\ job'.cands = {} /\ ~job'.checked
          /\ BodiesOf({}) = {}
      BY <1>2, NoJobIs, BodiesOfNone
    <2>1. BodiesOf(kept) = (BodiesOf(formal) \cap alive) \ BodiesOf(job.cands)
      BY DEF BodiesOf
    <2>2. BodiesOf(formal') = BodiesOf(kept) \cup BodiesOf(job.cands)
      BY <1>2, BodiesOfUnion
    <2>3. OnePerBody(formal')
      <3>1. OnePerBody(kept) /\ OnePerBody(job.cands)
        BY <1>0 DEF JobStands, RecordsStand, OnePerBody
      <3>2. \A r \in kept, q \in job.cands : r.body # q.body
        BY DEF BodiesOf
      <3> HIDE DEF kept
      <3>3. formal' = kept \cup job.cands
        BY <1>2 DEF kept
      <3> QED BY <3>1, <3>2, <3>3 DEF OnePerBody
    <2>4. \A r \in formal' : IsRecord(r)
      BY <1>0, <1>2 DEF Shapes
    <2> HIDE DEF kept
    <2>5. Shapes'
      BY <1>0, <2>a, <2>4 DEF Shapes, JobShape
    <2>6. JobStands'
      BY <2>a DEF JobStands, OnePerBody
    <2>7. RecordsStand'
      BY <1>0, <1>a, <1>2, <2>a, <2>1, <2>2, <2>3 DEF RecordsStand, JobStands
    <2>8. EveryBodyOwned' /\ BindingsFollow'
      BY <1>0, <1>a, <1>2, <2>a, <2>1, <2>2 DEF EveryBodyOwned, PendingBodyIds, BindingsFollow
    <2> QED BY <2>5, <2>6, <2>7, <2>8 DEF ObstacleInv
  <1> QED BY <1>1, <1>2 DEF EndRollback

-----------------------------------------------------------------------------
(* An exception that left step() has ended the run. *)
LEMMA DownIsFinal == ASSUME frame = "down", ObstacleNext PROVE frame' = "down"
  BY DEF ObstacleNext, IdleFrame, NextFrame, BeginClear, EndClear, PlanOne, VehicleInTheWay,
     VehicleOutOfTheWay, PublishBatch, UpdateMoving, StepPhysics, CommitRestore, RollBackRestore,
     EndRollback, BeginAdd, Delete, CreateTemporary, LeakBody, CreateCandidate, RemoveTemporary,
     ClearOne, RestoreOne, Remake, BeginRestore

LEMMA ObstacleStepKeeps == ObstacleInv /\ [ObstacleNext]_obstacleVars => ObstacleInv'
  <1> SUFFICES ASSUME ObstacleInv, [ObstacleNext]_obstacleVars PROVE ObstacleInv'
    OBVIOUS
  <1>1. CASE UNCHANGED obstacleVars
    BY <1>1 DEF obstacleVars, managerVars, ObstacleInv, Shapes, JobStands, RecordsStand, EveryBodyOwned,
       BindingsFollow, PendingBodyIds, Previewed, Planned
  <1>2. CASE frame = "down" /\ ObstacleNext
    BY <1>2, DownIsFinal DEF ObstacleInv
  <1>3. CASE frame # "down" /\ ObstacleNext
    <2>1. CASE \/ IdleFrame \/ NextFrame \/ BeginClear \/ EndClear \/ PlanOne
               \/ VehicleInTheWay \/ VehicleOutOfTheWay \/ PublishBatch \/ UpdateMoving \/ StepPhysics
               \/ CommitRestore \/ RollBackRestore \/ EndRollback
      BY <1>3, <2>1, IdleFrameKeeps, NextFrameKeeps, BeginClearKeeps, EndClearKeeps, PlanOneKeeps,
         VehicleInTheWayKeeps, VehicleOutOfTheWayKeeps, PublishBatchKeeps, PhysicsKeeps,
         CommitRestoreKeeps, RollBackRestoreKeeps, EndRollbackKeeps
    <2>2. ASSUME NEW request \in Requests, BeginAdd(request) PROVE ObstacleInv'
      BY <2>2, BeginAddKeeps
    <2>3. ASSUME NEW record \in formal, Delete(record) PROVE ObstacleInv'
      BY <2>3, DeleteKeeps
    <2>4. ASSUME NEW b \in BodyIds,
                 \/ CreateTemporary(b) \/ LeakBody(b) \/ CreateCandidate(b)
                 \/ RemoveTemporary(b) \/ ClearOne(b) \/ RestoreOne(b)
          PROVE  ObstacleInv'
      BY <1>3, <2>4, CreateTemporaryKeeps, LeakBodyKeeps, CreateCandidateKeeps, RemoveTemporaryKeeps,
         ClearOneKeeps, RestoreOneKeeps
    <2>5. ASSUME NEW b \in BodyIds, NEW old \in formal, Remake(old, b) PROVE ObstacleInv'
      BY <1>3, <2>5, RemakeKeeps
    <2>6. ASSUME NEW n \in 0..MaxScene, BeginRestore([i \in 1..n |-> i = 1]) PROVE ObstacleInv'
      BY <2>6, BeginRestoreKeeps
    <2> QED BY <1>3, <2>1, <2>2, <2>3, <2>4, <2>5, <2>6 DEF ObstacleNext
  <1> QED BY <1>1, <1>2, <1>3

(* Whatever fails while obstacles are added, deleted, cleared or restored: *)
(* every body in the world has exactly the owners that are named, no body  *)
(* is shown and owed at once, and physics runs only with bindings that     *)
(* name the published obstacles.                                           *)
THEOREM ObstaclesStaySound == ObstacleSpec => []ObstaclesSound
  <1>1. ObstacleInv => ObstaclesSound
    <2> SUFFICES ASSUME ObstacleInv PROVE ObstaclesSound
      OBVIOUS
    <2>1. PhysicsSeesPublished
      BY DEF ObstacleInv, PhysicsSeesPublished, BindingsFollow
    <2>2. ASSUME frame # "down" PROVE NoDoubleOwnership /\ EveryBodyOwned
      <3>1. JobStands /\ RecordsStand /\ EveryBodyOwned
        BY <2>2 DEF ObstacleInv
      <3>2. job.op # "rollback" => debt \cap (job.temps \cup BodiesOf(job.cands)) = {}
        BY <3>1, BodiesOfNone DEF JobStands
      <3> QED BY <3>1, <3>2 DEF NoDoubleOwnership, RecordsStand
    <2> QED BY <2>1, <2>2 DEF ObstaclesSound, BodiesOwnedOnce
  <1> QED BY <1>1, ObstacleStarts, ObstacleStepKeeps, PTL DEF ObstacleSpec
=============================================================================
