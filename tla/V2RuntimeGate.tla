---------------------------- MODULE V2RuntimeGate ----------------------------
(***************************************************************************)
(* The acceptance gate of the v2 runtime.  verify_stage4_v2_runtime_ecal   *)
(* starts a collector process that subscribes to the four outputs, runs    *)
(* the simulator (stage4_v2_simulation_runtime) over a fixed window and    *)
(* accepts only if both sides report the same whole window.  Headless, the *)
(* simulator runs in the gate's own thread; with the dashboard             *)
(* (stage4_v2_dashboard) it is a child process that a supervisor thread    *)
(* watches while the Qt thread shows its latest snapshots.                 *)
(*                                                                         *)
(* The four topics are handled alike and one stands for them; its frames   *)
(* are numbered.  A calm run has no failure, meets its deadlines and gives *)
(* every process its turn; any other run may fail or time out everywhere.  *)
(***************************************************************************)
EXTENDS Integers, Sequences, FiniteSets

CONSTANTS
    Steps,           \* physics steps of the window
    PhysicsHz,
    SensorHz

ASSUME V2GateAssumption ==
    /\ {Steps, PhysicsHz, SensorHz} \subseteq Nat \ {0}
    /\ SensorHz <= PhysicsHz

(* Frames due after s steps; expected_v2_frame_counts for the window. *)
DueFrames(s) == (s * SensorHz) \div PhysicsHz
ExpectedFrames == DueFrames(Steps)

VARIABLES
    fair,            \* a calm run
    judge,           \* _run_v2_ecal_gate
    collector,       \* run_collector_participant
    bus,             \* frames under way to the collector
    simulator,       \* run_v2_simulation_runtime
    qt,              \* the Qt thread of run_v2_dashboard_session
    watch            \* its supervisor thread

v2GateVars == <<fair, judge, collector, bus, simulator, qt, watch>>

Up(p) == p.pc \notin {"none", "ok", "failed", "killed"}
WithDashboard == judge.mode = "dashboard"

V2GateInit ==
    /\ fair \in BOOLEAN
    /\ \E mode \in {"headless", "dashboard"}, admitted \in BOOLEAN :
          judge = [pc |-> "start", mode |-> mode, admitted |-> admitted, verdict |-> "none", why |-> "none"]
    /\ collector = [pc |-> "none", ready |-> "absent", got |-> <<>>, peerSeen |-> FALSE, errors |-> 0]
    /\ bus = <<>>
    /\ simulator = [pc |-> "none", step |-> 0, counted |-> 0, scans |-> <<>>, lane |-> 0,
                    sent |-> 0, dropped |-> 0, snapshot |-> "none", stopped |-> TRUE]
    /\ qt = [pc |-> "none", screenshot |-> FALSE, cancelled |-> FALSE, error |-> FALSE]
    /\ watch = [pc |-> "none", outcome |-> "none"]

-----------------------------------------------------------------------------
(* The gate. *)
Rejects(why) == judge' = [judge EXCEPT !.pc = "reap", !.verdict = "rejected", !.why = why]

(* The evidence directory must be new, and a dashboard needs a desktop. *)
StartGate ==
    /\ judge.pc = "start"
    /\ IF judge.admitted
       THEN /\ judge' = [judge EXCEPT !.pc = "ready"]
            /\ collector' = [collector EXCEPT !.pc = "boot"]
       ELSE /\ judge' = [judge EXCEPT !.pc = "ended", !.verdict = "rejected", !.why = "refused"]
            /\ UNCHANGED collector
    /\ UNCHANGED <<fair, bus, simulator, qt, watch>>

(* _wait_for_collector_ready reads the file as soon as it exists. *)
CollectorReady ==
    /\ judge.pc = "ready" /\ collector.ready = "whole"
    /\ judge' = [judge EXCEPT !.pc = "runtime"]
    /\ IF WithDashboard
       THEN /\ qt' = [qt EXCEPT !.pc = "show"]
            /\ watch' = [watch EXCEPT !.pc = "spawn"]
            /\ UNCHANGED simulator
       ELSE /\ simulator' = [simulator EXCEPT !.pc = "boot"]
            /\ UNCHANGED <<qt, watch>>
    /\ UNCHANGED <<fair, collector, bus>>

ReadyTorn ==
    /\ judge.pc = "ready" /\ collector.ready = "torn"
    /\ Rejects("torn")
    /\ UNCHANGED <<fair, collector, bus, simulator, qt, watch>>

NotReady ==
    /\ judge.pc = "ready" /\ (~fair \/ (collector.pc = "failed" /\ collector.ready = "absent"))
    /\ Rejects("ready")
    /\ UNCHANGED <<fair, collector, bus, simulator, qt, watch>>

(* The runtime returns a result or raises; with the dashboard it is its    *)
(* session that does.                                                      *)
RuntimeReturns ==
    /\ judge.pc = "runtime"
    /\ LET ok == IF WithDashboard THEN qt.pc = "ok" ELSE simulator.pc = "ok"
           bad == IF WithDashboard THEN qt.pc = "failed" ELSE simulator.pc = "failed"
       IN  \/ ok /\ judge' = [judge EXCEPT !.pc = "collect"]
           \/ bad /\ Rejects("runtime")
    /\ UNCHANGED <<fair, collector, bus, simulator, qt, watch>>

(* verify_peer_evidence: one command peer, no callback error, and the      *)
(* sequence numbers of the whole window in order.                          *)
PeerEvidence ==
    /\ collector.peerSeen /\ collector.errors = 0
    /\ collector.got = [k \in 1..ExpectedFrames |-> k]

(* verify_runtime_evidence: frames, steps, nothing dropped; the pacing is  *)
(* a number of the run, which a calm one meets.                            *)
RuntimeEvidence(paced) ==
    /\ paced
    /\ simulator.counted = ExpectedFrames /\ simulator.step = Steps
    /\ simulator.sent = ExpectedFrames /\ simulator.dropped = 0

Judge(paced) ==
    /\ judge.pc = "collect" /\ collector.pc \in {"ok", "failed"}
    /\ fair => paced
    /\ IF collector.pc = "ok" /\ PeerEvidence /\ RuntimeEvidence(paced)
       THEN judge' = [judge EXCEPT !.pc = "reap", !.verdict = "accepted"]
       ELSE Rejects("evidence")
    /\ UNCHANGED <<fair, collector, bus, simulator, qt, watch>>

CollectorLate ==
    /\ judge.pc = "collect" /\ ~fair
    /\ Rejects("late")
    /\ UNCHANGED <<fair, collector, bus, simulator, qt, watch>>

(* The finally clause: terminate, then kill. *)
ReapCollector ==
    /\ judge.pc = "reap"
    /\ judge' = [judge EXCEPT !.pc = "ended"]
    /\ collector' = IF Up(collector) THEN [collector EXCEPT !.pc = "killed"] ELSE collector
    /\ UNCHANGED <<fair, bus, simulator, qt, watch>>

-----------------------------------------------------------------------------
(* The collector. *)
CollectorKeeps == UNCHANGED <<fair, judge, simulator, qt, watch>>

(* The ready file is created, and then written. *)
CollectorOpens ==
    /\ collector.pc = "boot"
    /\ collector' = [collector EXCEPT !.pc = "ready", !.ready = "torn"]
    /\ CollectorKeeps /\ UNCHANGED bus

CollectorAnnounces ==
    /\ collector.pc = "ready"
    /\ collector' = [collector EXCEPT !.pc = "collect", !.ready = "whole"]
    /\ CollectorKeeps /\ UNCHANGED bus

(* A receive callback; the frame may be lost on the way or be invalid. *)
Receive(how) ==
    /\ bus # <<>> /\ how \in {"good", "lost", "invalid"} /\ (fair => how = "good")
    /\ bus' = Tail(bus)
    /\ collector' = IF collector.pc \notin {"ready", "collect"} THEN collector
                    ELSE CASE how = "good" -> [collector EXCEPT !.got = Append(@, Head(bus))]
                           [] how = "invalid" -> [collector EXCEPT !.errors = 1]
                           [] OTHER -> collector
    /\ CollectorKeeps

(* One turn of the collecting loop. *)
SimulatorOnBus == simulator.pc \in {"peers", "window", "drain", "idle"}
CollectorTurn ==
    /\ collector.pc = "collect"
    /\ LET seen == collector.peerSeen \/ SimulatorOnBus
           done == collector.errors # 0 \/ Len(collector.got) = ExpectedFrames
       IN  collector' = [collector EXCEPT !.peerSeen = seen, !.pc = IF done THEN "report" ELSE @]
    /\ CollectorKeeps /\ UNCHANGED bus

CollectorDeadline ==
    /\ collector.pc = "collect" /\ ~fair
    /\ collector' = [collector EXCEPT !.pc = "report"]
    /\ CollectorKeeps /\ UNCHANGED bus

(* eCAL is finalised, the evidence written and then judged by itself. *)
CollectorReports ==
    /\ collector.pc = "report"
    /\ collector' = [collector EXCEPT !.pc = IF PeerEvidence THEN "ok" ELSE "failed"]
    /\ CollectorKeeps /\ UNCHANGED bus

CollectorFails ==
    /\ ~fair /\ Up(collector)
    /\ collector' = [collector EXCEPT !.pc = "failed"]
    /\ CollectorKeeps /\ UNCHANGED bus

-----------------------------------------------------------------------------
(* The simulator. *)
SimulatorKeeps == UNCHANGED <<fair, judge, collector, qt, watch>>
SimulatorGoes(pc) == simulator' = [simulator EXCEPT !.pc = pc]

(* World, LiDAR service, controller and transport are built. *)
BuildRuntime ==
    /\ simulator.pc = "boot"
    /\ SimulatorGoes("peers")
    /\ SimulatorKeeps /\ UNCHANGED bus

(* _wait_for_verified_peers: the collector's endpoints. *)
PeersVerified ==
    /\ simulator.pc = "peers" /\ collector.pc = "collect"
    /\ simulator' = [simulator EXCEPT !.pc = "window", !.stopped = FALSE]
    /\ SimulatorKeeps /\ UNCHANGED bus

(* A physics step: frames that are due are counted and captured; their     *)
(* LiDAR job is under way.                                                 *)
PhysicsStep ==
    /\ simulator.pc = "window" /\ simulator.step < Steps
    /\ LET s == simulator.step + 1
           due == DueFrames(s) - DueFrames(s - 1)
       IN  simulator' = [simulator EXCEPT !.step = s, !.counted = @ + due,
                                          !.scans = IF due > 0 THEN Append(@, DueFrames(s)) ELSE @]
    /\ SimulatorKeeps /\ UNCHANGED bus

(* A finished job is published: the lane of the topic keeps the latest     *)
(* frame only.  The dashboard's store is told.                             *)
PublishFrame ==
    /\ simulator.pc \in {"window", "drain"} /\ simulator.scans # <<>>
    /\ fair => simulator.lane = 0
    /\ simulator' = [simulator EXCEPT !.scans = Tail(@), !.lane = Head(simulator.scans),
                                      !.dropped = IF simulator.lane # 0 THEN @ + 1 ELSE @,
                                      !.snapshot = IF WithDashboard THEN "full" ELSE @]
    /\ SimulatorKeeps /\ UNCHANGED bus

(* The transport lane sends its frame. *)
SendFrame ==
    /\ SimulatorOnBus /\ simulator.lane # 0
    /\ simulator' = [simulator EXCEPT !.lane = 0, !.sent = @ + 1]
    /\ bus' = Append(bus, simulator.lane)
    /\ SimulatorKeeps

(* The window is over: the robot is stopped first. *)
WindowEnds ==
    /\ simulator.pc = "window" /\ simulator.step = Steps
    /\ fair => collector.peerSeen
    /\ simulator' = [simulator EXCEPT !.pc = "drain", !.stopped = TRUE]
    /\ SimulatorKeeps /\ UNCHANGED bus

(* drain_sensor_outputs, and the LiDAR service is closed. *)
SensorsDrained ==
    /\ simulator.pc = "drain" /\ simulator.scans = <<>>
    /\ SimulatorGoes("idle")
    /\ SimulatorKeeps /\ UNCHANGED bus

(* Mutant: the transport is closed with a frame in its lane. *)
CloseAtOnce ==
    /\ simulator.pc = "idle"
    /\ SimulatorGoes("exit")
    /\ SimulatorKeeps /\ UNCHANGED bus

(* wait_idle, then the controller and its transport are closed and the     *)
(* result is written.                                                      *)
CloseRuntime ==
    /\ simulator.pc = "idle" /\ simulator.lane = 0
    /\ SimulatorGoes("exit")
    /\ SimulatorKeeps /\ UNCHANGED bus

(* Headless it returns; a child process ends when the snapshot it has put  *)
(* into the queue is out of it.                                            *)
RuntimeExits ==
    /\ simulator.pc = "exit" /\ simulator.snapshot # "full"
    /\ SimulatorGoes("ok")
    /\ SimulatorKeeps /\ UNCHANGED bus

(* An error or a timeout: the robot is stopped, everything is closed. *)
RuntimeRaises ==
    /\ ~fair /\ Up(simulator)
    /\ simulator' = [simulator EXCEPT !.pc = "failed", !.stopped = TRUE]
    /\ SimulatorKeeps /\ UNCHANGED bus

-----------------------------------------------------------------------------
(* The dashboard session. *)
SpawnRuntime ==
    /\ watch.pc = "spawn"
    /\ watch' = [watch EXCEPT !.pc = "supervise"]
    /\ simulator' = [simulator EXCEPT !.pc = "boot"]
    /\ UNCHANGED <<fair, judge, collector, bus, qt>>

(* _supervise_child_process: the child has ended by itself. *)
ChildEnds ==
    /\ watch.pc = "supervise" /\ ~Up(simulator)
    /\ watch' = [watch EXCEPT !.pc = "completed",
                              !.outcome = IF simulator.pc = "ok" THEN "result" ELSE "error"]
    /\ UNCHANGED <<fair, judge, collector, bus, simulator, qt>>

(* Cancelled, or over its deadline: terminate, then kill. *)
StopChild ==
    /\ watch.pc = "supervise" /\ Up(simulator)
    /\ qt.cancelled \/ ~fair
    /\ simulator' = [simulator EXCEPT !.pc = "killed"]
    /\ watch' = [watch EXCEPT !.pc = "completed", !.outcome = "error"]
    /\ UNCHANGED <<fair, judge, collector, bus, qt>>

(* refresh_dashboard: the latest snapshot is shown and the first complete  *)
(* one is saved.  Then it looks whether the supervisor has completed.      *)
RefreshDashboard ==
    /\ qt.pc = "show"
    /\ qt' = [qt EXCEPT !.pc = "check", !.screenshot = @ \/ simulator.snapshot = "full"]
    /\ simulator' = [simulator EXCEPT !.snapshot = IF @ = "full" THEN "none" ELSE @]
    /\ UNCHANGED <<fair, judge, collector, bus, watch>>

CheckCompleted ==
    /\ qt.pc = "check"
    /\ qt' = IF watch.pc = "completed" THEN [qt EXCEPT !.pc = "quit", !.cancelled = TRUE]
             ELSE [qt EXCEPT !.pc = "show"]
    /\ UNCHANGED <<fair, judge, collector, bus, simulator, watch>>

(* The refresh fails, or the user closes the window. *)
QuitEarly(failed) ==
    /\ ~fair /\ qt.pc = "show"
    /\ qt' = [qt EXCEPT !.pc = "quit", !.cancelled = TRUE, !.error = failed]
    /\ UNCHANGED <<fair, judge, collector, bus, simulator, watch>>

(* The supervisor is joined with a timeout, and the session judges. *)
JoinSupervisor ==
    /\ qt.pc = "quit" /\ watch.pc = "completed"
    /\ qt' = [qt EXCEPT !.pc = IF ~qt.error /\ watch.outcome = "result" /\ qt.screenshot
                               THEN "ok" ELSE "failed"]
    /\ UNCHANGED <<fair, judge, collector, bus, simulator, watch>>

JoinTimesOut ==
    /\ ~fair /\ qt.pc = "quit" /\ watch.pc # "completed"
    /\ qt' = [qt EXCEPT !.pc = "failed"]
    /\ UNCHANGED <<fair, judge, collector, bus, simulator, watch>>

-----------------------------------------------------------------------------
V2Judge ==
    \/ StartGate \/ CollectorReady \/ ReadyTorn \/ NotReady \/ RuntimeReturns \/ CollectorLate
    \/ ReapCollector \/ \E paced \in BOOLEAN : Judge(paced)
V2Collector ==
    \/ CollectorOpens \/ CollectorAnnounces \/ CollectorTurn \/ CollectorDeadline
    \/ CollectorReports \/ CollectorFails
V2Simulator ==
    \/ BuildRuntime \/ PeersVerified \/ PhysicsStep \/ PublishFrame \/ WindowEnds
    \/ SensorsDrained \/ CloseRuntime \/ RuntimeExits \/ RuntimeRaises
V2Watch == SpawnRuntime \/ ChildEnds \/ StopChild
V2Qt ==
    \/ RefreshDashboard \/ CheckCompleted \/ JoinSupervisor \/ JoinTimesOut
    \/ \E failed \in BOOLEAN : QuitEarly(failed)

V2GateNext ==
    \/ V2Judge \/ V2Collector \/ V2Simulator \/ SendFrame \/ V2Watch \/ V2Qt
    \/ \E how \in {"good", "lost", "invalid"} : Receive(how)

V2GateSpec == V2GateInit /\ [][V2GateNext]_v2GateVars

-----------------------------------------------------------------------------
(* Properties *)

(* What is accepted was whole: every frame of the window has reached the   *)
(* collector once and in order, the simulator has counted and sent as      *)
(* many and dropped none, and a dashboard has shown a complete snapshot.   *)
AcceptedIsWhole ==
    judge.verdict = "accepted" =>
        /\ collector.pc = "ok" /\ collector.got = [k \in 1..ExpectedFrames |-> k]
        /\ simulator.pc = "ok" /\ simulator.sent = ExpectedFrames /\ simulator.dropped = 0
        /\ WithDashboard => qt.screenshot

(* Nothing drives when the controller and its transport are closed. *)
StoppedAtClose == simulator.pc \in {"exit", "ok", "failed"} => simulator.stopped

(* A gate that has ended leaves no collector; a simulator is left only to  *)
(* a supervisor that is about to stop it.                                  *)
NobodyLeft ==
    judge.pc = "ended" =>
        /\ ~Up(collector)
        /\ Up(simulator) => watch.pc = "supervise" /\ qt.cancelled

(* The gate ends, its children too, and a calm run is accepted unless the  *)
(* gate has read the ready file while it was written or the Qt thread has  *)
(* looked away while the last snapshot came.                               *)
V2GateEnds ==
    /\ <>[](judge.pc = "ended" /\ ~Up(simulator))
    /\ <>(fair /\ judge.admitted =>
             \/ judge.verdict = "accepted"
             \/ judge.why = "torn"
             \/ judge.why = "runtime" /\ WithDashboard /\ ~qt.screenshot)
=============================================================================
