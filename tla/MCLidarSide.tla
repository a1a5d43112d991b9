---------------------------- MODULE MCLidarSide ----------------------------
(* The LiDAR path, one component per behaviour: the scan service alone with *)
(* every operation of its, the sensor output that drives it and shuts down, *)
(* the start and the obstacle mirror of the worker processes, and the      *)
(* stage-4 coordinator with its shards.                                    *)
EXTENDS V2SensorOutput, LidarWorker, Stage4LidarCoordinator

VARIABLE part

sideVars == <<outputAll, workerVars, vars, part>>

(* A worker that is not started in this behaviour. *)
WorkerRests ==
    /\ start = [profile |-> "stage3", pc |-> "closed", at |-> 1, reap |-> <<>>, error |-> "none"]
    /\ proc = [p \in Procs |-> NoProc] /\ mirror = Quiet /\ failures = 0

SideInit ==
    /\ part \in {"service", "output", "worker", "coordinator"}
    /\ OutputInit /\ Init
    /\ IF part = "worker" THEN WorkerInit ELSE WorkerRests

SideNext ==
    \/ part = "service" /\ ServiceNext /\ UNCHANGED <<outputVars, workerVars, vars, part>>
    \/ part = "output" /\ OutputNext /\ UNCHANGED <<workerVars, vars, part>>
    \/ part = "worker" /\ WorkerNext /\ UNCHANGED <<outputAll, vars, part>>
    \/ part = "coordinator" /\ Next /\ UNCHANGED <<outputAll, workerVars, part>>

(* The parent polls on every physics step and while it drains, a child     *)
(* that is up works on its request, a start goes on, and the coordinator,  *)
(* its shards and its parent keep running.                                 *)
SideFairness ==
    /\ WF_svcAll(part = "service" /\ Poll)
    /\ WF_outputAll(part = "output" /\ Main)
    /\ WF_svcAll(part \in {"service", "output"} /\ (\E kind \in Kinds : ChildAnswer(kind)) /\ UNCHANGED serviceVars)
    /\ WF_workerVars(part = "worker" /\ Parent)
    /\ WF_vars(part = "coordinator" /\ ParentTake)
    /\ WF_vars(part = "coordinator" /\ Coordinator)
    /\ \A s \in Shards : WF_vars(part = "coordinator" /\ (ShardScan(s) \/ ShardStop(s)))

SideSpec == SideInit /\ [][SideNext]_sideVars /\ SideFairness

(* The sensor output never forgets a scan the service still has, nor waits *)
(* for one it has not, and a clean shutdown has published all of them.     *)
NoSampleForgotten == part = "output" => OutputTypeOK /\ FactoryMatchesService /\ CloseLosesNothing

(* begin_draining of a service that is polled gets everything out, the     *)
(* shutdown of the sensor output releases the worker and the controller,   *)
(* and the start of worker processes returns with all of them or none.     *)
EveryDrainEnds == (part = "service" => DrainCompletes) /\ CloseReleases /\ StartReturns
=============================================================================
