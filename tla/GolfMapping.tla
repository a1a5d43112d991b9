----------------------------- MODULE GolfMapping -----------------------------
(***************************************************************************)
(* The offline mapping session: the orchestrator                           *)
(* (scripts/run_mid360_golf_mapping.py) starts the recorder, the simulator *)
(* (mid360_golf_simulation.py) and the command peer                        *)
(* (mid360_golf_command_peer.py), and accepts what they leave behind.      *)
(*                                                                         *)
(* Simulator and peer run in lockstep over topics: every wheel state is    *)
(* answered by one command of the same simulated time, and the simulator   *)
(* waits for it.  Each topic has a callback thread of its own in the peer, *)
(* so wheel states overtake poses and the RTK overtakes the IMU.  Time is  *)
(* counted in periods of the wheel state (10 ms); poses and point clouds   *)
(* come every PosePeriod of them.                                          *)
(***************************************************************************)
EXTENDS Integers, Sequences, FiniteSets

CONSTANTS
    PosePeriod,      \* wheel periods per pose (100 ms / 10 ms)
    RouteEnd,        \* _normal_stop_timestamp_ns
    TopSpeed,        \* periods needed to stop from it
    ZeroTail,        \* _ZERO_TAIL_NS
    QuietStates,     \* quiet wheel states that end a faulted peer or simulator (20)
    MaxMishaps       \* bound on what goes wrong from outside

ASSUME GolfAssumption ==
    /\ {PosePeriod, RouteEnd, TopSpeed, ZeroTail, QuietStates} \subseteq Nat \ {0}
    /\ RouteEnd % PosePeriod = 0 /\ ZeroTail % PosePeriod = 0

(* The planned window: the route, the slowest stop in whole frames, the    *)
(* tail.  Simulator and peer compute it each for itself.                   *)
StopTime == PosePeriod * ((TopSpeed + PosePeriod - 1) \div PosePeriod)
Finish == RouteEnd + StopTime + ZeroTail
Duration == RouteEnd + StopTime + ZeroTail
GolfTopics == {"command", "wheel", "lidar", "rtk", "imu"}
ExpectedCounts == [t \in GolfTopics |->
    IF t \in {"command", "wheel"} THEN Duration
    ELSE IF t = "lidar" THEN Duration \div PosePeriod ELSE Duration \div PosePeriod + 1]

VARIABLES
    orch,            \* run_mid360_golf_mapping: where it is, and the marker files
    simu,            \* the simulator
    golfPeer,            \* GolfCommandPeer and its process
    recd,            \* the recorder
    wires            \* messages under way to the peer and to the simulator

golfVars == <<orch, simu, golfPeer, recd, wires>>

GolfInit ==
    /\ orch = [pc |-> "preflight", start |-> FALSE, fault |-> FALSE, accepted |-> FALSE]
    /\ simu = [pc |-> "none", tick |-> 0, fault |-> FALSE, latest |-> 0, speed |-> 0,
               applied |-> 0, monitor |-> FALSE, quiet |-> 0, ready |-> FALSE,
               result |-> "none", exit |-> "none"]
    /\ golfPeer = [pc |-> "none", fault |-> FALSE, wheel |-> 0, rtk |-> 0, imu |-> 0, pending |-> 0,
               moving |-> FALSE, speed |-> 0, zeroSince |-> 0, quiet |-> 0, finished |-> FALSE,
               answered |-> <<>>, ready |-> FALSE, result |-> "none", exit |-> "none"]
    /\ recd = [pc |-> "none", counts |-> [t \in GolfTopics |-> 0], exit |-> "none"]
    /\ wires = [wheel |-> <<>>, rtk |-> <<>>, imu |-> <<>>, command |-> <<>>, mishaps |-> 0]

-----------------------------------------------------------------------------
(* Publishing: the recorder gets its copy of what others get.              *)
Record(topics) ==
    recd' = IF recd.pc = "run"
            THEN [recd EXCEPT !.counts = [t \in GolfTopics |-> IF t \in topics THEN @[t] + 1 ELSE @[t]]]
            ELSE recd

(* What may go wrong from outside: a message is lost, a process dies or    *)
(* does not start, the machine stalls (then any deadline may pass), the    *)
(* vehicle is in trouble or behind its route.                              *)
Mishap(w, happens) == [w EXCEPT !.mishaps = IF happens THEN @ + 1 ELSE @]
MayHappen(happens) == happens => wires.mishaps < MaxMishaps
Overdue == wires.mishaps > 0

LoseMessage(topic) ==
    /\ wires[topic] # <<>> /\ MayHappen(TRUE)
    /\ wires' = [Mishap(wires, TRUE) EXCEPT ![topic] = Tail(@)]
    /\ UNCHANGED <<orch, simu, golfPeer, recd>>

Stall ==
    /\ MayHappen(TRUE)
    /\ wires' = Mishap(wires, TRUE)
    /\ UNCHANGED <<orch, simu, golfPeer, recd>>

-----------------------------------------------------------------------------
(* The simulator. *)
SimuExits(code) == simu' = [simu EXCEPT !.pc = "dead", !.exit = code]
SimuBoot ==
    /\ simu.pc = "boot"
    /\ simu' = [simu EXCEPT !.pc = "peers"]
    /\ UNCHANGED <<orch, golfPeer, recd, wires>>

(* _wait_for_verified_peers: exactly one command peer and one recorder. *)
SimuReady ==
    /\ simu.pc = "peers" /\ golfPeer.pc \in {"peers", "waiting"} /\ recd.pc = "run"
    /\ simu' = [simu EXCEPT !.pc = "waiting", !.ready = TRUE]
    /\ UNCHANGED <<orch, golfPeer, recd, wires>>

(* The start: the first frame begins, and its pose is published at once. *)
SimuStarts ==
    /\ simu.pc = "waiting" /\ orch.start
    /\ simu' = [simu EXCEPT !.pc = "step"]
    /\ wires' = [wires EXCEPT !.rtk = Append(@, 0), !.imu = Append(@, 0)]
    /\ Record({"rtk", "imu"})
    /\ UNCHANGED <<orch, golfPeer>>

SimuTimesOut ==
    /\ simu.pc \in {"peers", "waiting", "answer"}
    /\ Overdue /\ ~(simu.pc = "answer" /\ simu.latest = simu.tick)
    /\ SimuExits("failed")
    /\ UNCHANGED <<orch, golfPeer, recd, wires>>

(* One wheel period: the decision in the mailbox, or nothing once a fault  *)
(* is known, is applied; then the wheel state goes out.                    *)
Applied == IF orch.fault \/ simu.fault THEN 0 ELSE simu.speed
SimuStep ==
    /\ simu.pc = "step" /\ simu.tick < Duration
    /\ simu' = [simu EXCEPT !.pc = "answer", !.tick = @ + 1, !.fault = @ \/ orch.fault, !.applied = Applied]
    /\ wires' = [wires EXCEPT !.wheel = Append(@, [t |-> simu.tick + 1, moving |-> Applied # 0])]
    /\ Record({"wheel"})
    /\ UNCHANGED <<orch, golfPeer>>

(* accept_payload: by simulated time, whatever the wall clock says. *)
AcceptCommand ==
    /\ wires.command # <<>>
    /\ wires' = [wires EXCEPT !.command = Tail(@)]
    /\ simu' = IF simu.pc = "dead" THEN simu
               ELSE [simu EXCEPT !.latest = Head(wires.command).t, !.speed = Head(wires.command).speed]
    /\ UNCHANGED <<orch, golfPeer, recd>>

(* wait_for_command; then, at the end of a frame, the cloud and the pose,  *)
(* of the next frame or of the end of the window.                          *)
SimuAnswered ==
    /\ simu.pc = "answer" /\ simu.latest >= simu.tick
    /\ IF simu.latest > simu.tick
       THEN SimuExits("failed") /\ wires' = wires /\ recd' = recd
       ELSE /\ simu' = [simu EXCEPT !.pc = "safety"]
            /\ IF simu.tick % PosePeriod # 0 THEN wires' = wires /\ recd' = recd
               ELSE /\ wires' = [wires EXCEPT !.rtk = Append(@, simu.tick), !.imu = Append(@, simu.tick)]
                    /\ Record({"lidar", "rtk", "imu"})
    /\ UNCHANGED <<orch, golfPeer>>

(* GolfSafetyMonitor: a collision, the edge or a stall is a fault, and     *)
(* stays one.  Only a fault of its own lets the monitor find the vehicle   *)
(* settled, after 0.2 s at rest (48 physics steps, the time of QuietStates *)
(* wheel states): with the marker of the orchestrator alone the simulator  *)
(* goes on, at zero drive, to the end of its window or until it is ended.  *)
Monitored(trouble) == simu.monitor \/ trouble
QuietFor(trouble) == IF Monitored(trouble) /\ simu.applied = 0 THEN simu.quiet + 1 ELSE 0
Settled(trouble) == QuietFor(trouble) >= QuietStates

SimuSafety(trouble) ==
    /\ simu.pc = "safety" /\ MayHappen(trouble)
    /\ simu' = [simu EXCEPT !.fault = @ \/ trouble, !.monitor = Monitored(trouble), !.quiet = QuietFor(trouble),
                            !.pc = IF simu.tick = Duration \/ Settled(trouble) THEN "report" ELSE "step"]
    /\ wires' = Mishap(wires, trouble)
    /\ UNCHANGED <<orch, golfPeer, recd>>

SimuReports ==
    /\ simu.pc = "report"
    /\ simu' = [simu EXCEPT !.pc = "dead", !.result = IF simu.fault THEN "faulted" ELSE "clean",
                            !.exit = IF simu.fault THEN "failed" ELSE "ok"]
    /\ UNCHANGED <<orch, golfPeer, recd, wires>>

-----------------------------------------------------------------------------
(* The command peer.  Faults are latched; the first one wins. *)
Latch(p, bad) == [p EXCEPT !.fault = @ \/ bad]
LatestPose(p) == (IF p.rtk < p.imu THEN p.rtk ELSE p.imu) - 1
PoseAt(p, t) ==
    LET kept == {k \in 0..LatestPose(p) : k > LatestPose(p) - 4 /\ k * PosePeriod <= t}
    IN  IF kept = {} THEN -PosePeriod - 1
        ELSE PosePeriod * (CHOOSE k \in kept : \A j \in kept : j <= k)

(* Mutant: a pose one period old counts as missing. *)
NeedsPoseEarly(p, t) ==
    ~p.fault /\ t <= RouteEnd /\ t - PoseAt(p, t) >= PosePeriod

(* _wheel_needs_pose_locked *)
NeedsPose(p, t) ==
    ~p.fault /\ t <= RouteEnd /\ t - PoseAt(p, t) > PosePeriod

(* GolfRouteController: some speed, as long as the route lasts. *)
FollowRoute == TopSpeed

TowardZero(s) == IF s = 0 THEN 0 ELSE s - 1

(* _command_speeds: nothing after a fault, slower and slower from the end  *)
(* of the route on.                                                        *)
CommandSpeeds(p, t) ==
    IF p.fault THEN 0
    ELSE IF t >= RouteEnd THEN TowardZero(p.speed)
    ELSE FollowRoute

(* _maybe_finish_normal_locked *)
MaybeFinish(p) ==
    IF p.fault \/ p.zeroSince = 0 THEN p
    ELSE [p EXCEPT !.finished = /\ p.wheel >= Finish
                                /\ LatestPose(p) * PosePeriod >= Finish
                                /\ p.wheel - p.zeroSince >= ZeroTail]

(* _update_completion *)
Completion(p, t, speed) ==
    IF p.fault
    THEN LET n == IF p.moving THEN 0 ELSE p.quiet + 1
         IN  [p EXCEPT !.quiet = n, !.finished = n >= QuietStates]
    ELSE IF t < RouteEnd THEN p
    ELSE MaybeFinish([p EXCEPT !.zeroSince = IF speed # 0 THEN 0 ELSE IF @ = 0 THEN t ELSE @])

(* _publish_command_locked.  `stale` is the pose check in _command_speeds: *)
(* driving on an old pose is a fault of its own.                           *)
PublishCommand(p, t) ==
    LET stale == t <= RouteEnd /\ t - PoseAt(p, t) > PosePeriod
        q == Latch(p, stale)
        speed == CommandSpeeds(q, t)
    IN  Completion([q EXCEPT !.answered = Append(@, [t |-> t, speed |-> speed, ok |-> ~q.fault]),
                             !.speed = speed], t, speed)

(* _dispatch_pending_wheel_if_ready_locked *)
Dispatch(p) ==
    IF p.pending = 0 \/ NeedsPose(p, p.pending) THEN p
    ELSE PublishCommand([p EXCEPT !.pending = 0], p.pending)

(* What the peer sent in a step goes out in order, and to the recorder.    *)
NewAnswers == SubSeq(golfPeer'.answered, Len(golfPeer.answered) + 1, Len(golfPeer'.answered))
Sends(left) ==
    LET sent == [k \in 1..Len(NewAnswers) |-> [t |-> NewAnswers[k].t, speed |-> NewAnswers[k].speed]]
    IN  /\ wires' = [left EXCEPT !.command = @ \o sent]
        /\ recd' = IF recd.pc = "run" THEN [recd EXCEPT !.counts["command"] = @ + Len(sent)] ELSE recd

PeerUp == golfPeer.pc \in {"peers", "waiting", "drive"}

(* _accept_wheel_state: a state of its own series is taken even when its   *)
(* identity or the progress on the route is a fault.                       *)
Accepted(msg, lag) == [golfPeer EXCEPT !.wheel = msg.t, !.moving = msg.moving, !.fault = @ \/ lag]

(* _on_wheel_payload.  A gap in the sequence is a fault and is not         *)
(* answered; a second state while one is pending ends the waiting.         *)
OnWheel(lag) ==
    /\ PeerUp /\ wires.wheel # <<>> /\ MayHappen(lag)
    /\ LET msg == Head(wires.wheel)
           seen == Accepted(msg, lag)
       IN  IF msg.t # golfPeer.wheel + 1
           THEN golfPeer' = Latch(golfPeer, TRUE)
           ELSE IF golfPeer.pending # 0
           THEN golfPeer' = PublishCommand(Dispatch(Latch(seen, TRUE)), msg.t)
           ELSE IF NeedsPose(seen, msg.t) THEN golfPeer' = [seen EXCEPT !.pending = msg.t]
           ELSE golfPeer' = PublishCommand(seen, msg.t)
    /\ Sends([Mishap(wires, lag) EXCEPT !.wheel = Tail(@)])
    /\ UNCHANGED <<orch, simu>>

(* _on_rtk_payload and _on_imu_payload: the second half of a pose makes it *)
(* whole, and may release a pending wheel state or finish the route.       *)
OnPose(topic) ==
    /\ PeerUp /\ wires[topic] # <<>>
    /\ LET k == Head(wires[topic]) \div PosePeriod
           counted == [golfPeer EXCEPT ![topic] = k + 1]
       IN  IF k # golfPeer[topic] THEN golfPeer' = Latch(golfPeer, TRUE)
           ELSE golfPeer' = IF LatestPose(counted) = LatestPose(golfPeer) THEN counted
                        ELSE MaybeFinish(Dispatch(counted))
    /\ Sends([wires EXCEPT ![topic] = Tail(@)])
    /\ UNCHANGED <<orch, simu>>

(* service_pending_wheel, from the main loop: the fault marker, and a      *)
(* pose that stays away too long.                                          *)
ServicePending(late) ==
    /\ golfPeer.pc = "drive" /\ (late => Overdue) /\ (golfPeer.pending # 0 \/ (orch.fault /\ ~golfPeer.fault))
    /\ golfPeer' = Dispatch(Latch(golfPeer, orch.fault \/ (late /\ golfPeer.pending # 0 /\ NeedsPose(golfPeer, golfPeer.pending))))
    /\ Sends(wires)
    /\ UNCHANGED <<orch, simu>>

GolfPeerReady ==
    /\ golfPeer.pc = "peers" /\ simu.pc \in {"peers", "waiting"} /\ recd.pc = "run"
    /\ golfPeer' = [golfPeer EXCEPT !.pc = "waiting", !.ready = TRUE]
    /\ UNCHANGED <<orch, simu, recd, wires>>

PeerStarts ==
    /\ golfPeer.pc = "waiting" /\ orch.start
    /\ golfPeer' = [golfPeer EXCEPT !.pc = "drive"]
    /\ UNCHANGED <<orch, simu, recd, wires>>

PeerTimesOut ==
    /\ golfPeer.pc \in {"peers", "waiting"} /\ Overdue
    /\ golfPeer' = [golfPeer EXCEPT !.pc = "dead", !.exit = "failed"]
    /\ UNCHANGED <<orch, simu, recd, wires>>

GolfPeerReports ==
    /\ golfPeer.pc = "drive" /\ golfPeer.finished
    /\ golfPeer' = [golfPeer EXCEPT !.pc = "dead", !.result = IF golfPeer.fault THEN "faulted" ELSE "clean",
                            !.exit = IF golfPeer.fault THEN "failed" ELSE "ok"]
    /\ UNCHANGED <<orch, simu, recd, wires>>

-----------------------------------------------------------------------------
(* The recorder ends when it has every message of the plan, or late.       *)
GolfRecorderEnds(late) ==
    /\ recd.pc = "run"
    /\ (late /\ Overdue) \/ recd.counts = ExpectedCounts
    /\ recd' = [recd EXCEPT !.pc = "dead", !.exit = IF recd.counts = ExpectedCounts THEN "ok" ELSE "failed"]
    /\ UNCHANGED <<orch, simu, golfPeer, wires>>

Crash ==
    /\ \/ simu.pc \notin {"none", "dead"} /\ SimuExits("killed") /\ UNCHANGED <<golfPeer, recd>>
       \/ golfPeer.pc \notin {"none", "dead"} /\ golfPeer' = [golfPeer EXCEPT !.pc = "dead", !.exit = "killed"]
          /\ UNCHANGED <<simu, recd>>
       \/ recd.pc = "run" /\ recd' = [recd EXCEPT !.pc = "dead", !.exit = "killed"]
          /\ UNCHANGED <<simu, golfPeer>>
    /\ MayHappen(TRUE) /\ wires' = Mishap(wires, TRUE)
    /\ UNCHANGED orch

-----------------------------------------------------------------------------
(* The orchestrator. *)
Exits == {simu.exit, golfPeer.exit, recd.exit}
OrchGoes(pc) == orch' = [orch EXCEPT !.pc = pc]

(* _preflight: the tools are there and the output directory is new; a      *)
(* refusal is raised before anything exists.                               *)
Preflight(ok) ==
    /\ orch.pc = "preflight"
    /\ OrchGoes(IF ok THEN "spawn" ELSE "refused")
    /\ UNCHANGED <<simu, golfPeer, recd, wires>>

(* Recorder, simulator, command peer, in this order; a process that does   *)
(* not start is a failure like any other.                                  *)
Spawn(ok) ==
    /\ orch.pc = "spawn" /\ MayHappen(~ok)
    /\ IF ~ok THEN OrchGoes("fault") /\ UNCHANGED <<simu, golfPeer, recd>>
       ELSE IF recd.pc = "none"
       THEN recd' = [recd EXCEPT !.pc = "run"] /\ UNCHANGED <<orch, simu, golfPeer>>
       ELSE IF simu.pc = "none"
       THEN simu' = [simu EXCEPT !.pc = "boot"] /\ UNCHANGED <<orch, golfPeer, recd>>
       ELSE golfPeer' = [golfPeer EXCEPT !.pc = "peers"] /\ OrchGoes("ready") /\ UNCHANGED <<simu, recd>>
    /\ wires' = Mishap(wires, ~ok)

(* _wait_for_ready, and the start marker. *)
WaitReady(late) ==
    /\ orch.pc = "ready" /\ (late => Overdue)
    /\ IF Exits # {"none"} \/ late THEN OrchGoes("fault")
       ELSE simu.ready /\ golfPeer.ready /\ orch' = [orch EXCEPT !.pc = "run", !.start = TRUE]
    /\ UNCHANGED <<simu, golfPeer, recd, wires>>

(* Mutant: exit codes are looked at when all have ended. *)
WaitCompletionOfAll ==
    /\ orch.pc = "run" /\ "none" \notin Exits
    /\ OrchGoes(IF Exits = {"ok"} THEN "validate" ELSE "fault")
    /\ UNCHANGED <<simu, golfPeer, recd, wires>>

(* _wait_for_completion: no deadline of its own. *)
WaitCompletion ==
    /\ orch.pc = "run"
    /\ \/ Exits \cap {"failed", "killed"} # {} /\ OrchGoes("fault")
       \/ Exits = {"ok"} /\ OrchGoes("validate")
    /\ UNCHANGED <<simu, golfPeer, recd, wires>>

(* The three result files and the recording against the frozen plan. *)
SimulatorHolds == simu.result = "clean" /\ simu.tick = Duration
CommandHolds == /\ golfPeer.result = "clean" /\ Len(golfPeer.answered) = Duration /\ golfPeer.wheel = Duration
                /\ LatestPose(golfPeer) * PosePeriod = Duration
RecorderHolds == recd.exit = "ok"
IndexHolds == recd.counts = ExpectedCounts

Validate ==
    /\ orch.pc = "validate"
    /\ OrchGoes(IF SimulatorHolds /\ CommandHolds /\ RecorderHolds /\ IndexHolds THEN "metrics" ELSE "fault")
    /\ UNCHANGED <<simu, golfPeer, recd, wires>>

(* The metrics of the map, the LVX2 export and the replay, each of which   *)
(* may turn the session down.                                              *)
Judge(from, to, good) ==
    /\ orch.pc = from
    /\ OrchGoes(IF good THEN to ELSE "fault")
    /\ UNCHANGED <<simu, golfPeer, recd, wires>>
Metrics(good) == Judge("metrics", "export", good)
ExportLidar(good) == Judge("export", "replay", good)
Replay(good) ==
    /\ orch.pc = "replay"
    /\ orch' = IF good THEN [orch EXCEPT !.pc = "done", !.accepted = TRUE] ELSE [orch EXCEPT !.pc = "fault"]
    /\ UNCHANGED <<simu, golfPeer, recd, wires>>

PublishFault ==
    /\ orch.pc = "fault"
    /\ orch' = [orch EXCEPT !.pc = "grace", !.fault = TRUE]
    /\ UNCHANGED <<simu, golfPeer, recd, wires>>

(* _cleanup_after_fault: some time to come to a stop, then the process     *)
(* groups are ended, the last started first.                               *)
GolfAlive(p) == p.pc \notin {"none", "dead"}
EndGrace ==
    /\ orch.pc = "grace"
    /\ OrchGoes("kill")
    /\ UNCHANGED <<simu, golfPeer, recd, wires>>

StopGroups ==
    /\ orch.pc = "kill"
    /\ IF GolfAlive(golfPeer) THEN golfPeer' = [golfPeer EXCEPT !.pc = "dead", !.exit = "killed"] /\ UNCHANGED <<orch, simu, recd>>
       ELSE IF GolfAlive(simu) THEN SimuExits("killed") /\ UNCHANGED <<orch, golfPeer, recd>>
       ELSE IF GolfAlive(recd) THEN recd' = [recd EXCEPT !.pc = "dead", !.exit = "killed"] /\ UNCHANGED <<orch, simu, golfPeer>>
       ELSE OrchGoes("failed") /\ UNCHANGED <<simu, golfPeer, recd>>
    /\ UNCHANGED wires

-----------------------------------------------------------------------------
Simulator == \/ SimuBoot \/ SimuReady \/ SimuStarts \/ SimuTimesOut \/ SimuStep \/ AcceptCommand
             \/ SimuAnswered \/ SimuReports \/ \E trouble \in BOOLEAN : SimuSafety(trouble)
CommandPeer == \/ \E lag \in BOOLEAN : OnWheel(lag) \/ ServicePending(lag)
               \/ \E topic \in {"rtk", "imu"} : OnPose(topic)
               \/ GolfPeerReady \/ PeerStarts \/ PeerTimesOut \/ GolfPeerReports
GolfRecorder == \E late \in BOOLEAN : GolfRecorderEnds(late)
Orchestrator == \/ \E ok \in BOOLEAN : Preflight(ok) \/ Spawn(ok) \/ WaitReady(~ok)
                                        \/ Metrics(ok) \/ ExportLidar(ok) \/ Replay(ok)
                \/ WaitCompletion \/ Validate \/ PublishFault \/ EndGrace \/ StopGroups

GolfNext == \/ Simulator \/ CommandPeer \/ GolfRecorder \/ Orchestrator \/ Crash \/ Stall
            \/ \E topic \in {"wheel", "rtk", "imu", "command"} : LoseMessage(topic)

(* Every process runs, and every deadline that is still waited for passes. *)
GolfFairness == /\ WF_golfVars(Simulator) /\ WF_golfVars(Orchestrator) /\ WF_golfVars(GolfRecorder)
                /\ WF_golfVars(CommandPeer)
GolfSpec == GolfInit /\ [][GolfNext]_golfVars /\ GolfFairness

-----------------------------------------------------------------------------
(* Every wheel state is answered at most once, in order, by a command of   *)
(* its own time, and no command drives once a fault is latched: whichever  *)
(* callback of the peer comes first, and whatever is lost.                 *)
OneAnswerPerState ==
    \A k \in 1..Len(golfPeer.answered) :
        /\ golfPeer.answered[k].t = k
        /\ ~golfPeer.answered[k].ok => golfPeer.answered[k].speed = 0

(* Without a loss, a crash or a fault nobody waits for somebody who waits  *)
(* for them: a wheel state that waits for its pose waits for one that was  *)
(* already published.                                                      *)
NoLockstepDeadlock ==
    wires.mishaps = 0 /\ golfPeer.pending # 0 /\ simu.pc = "answer" =>
        wires.rtk # <<>> \/ wires.imu # <<>> \/ wires.command # <<>>

(* A session is accepted, exported and replayed only when it is complete,  *)
(* and nothing of it is left running when the orchestrator returns.        *)
AcceptedIsComplete ==
    /\ orch.accepted => recd.counts = ExpectedCounts /\ ~simu.fault /\ ~golfPeer.fault
    /\ orch.pc \in {"done", "failed", "refused"} => ~GolfAlive(simu) /\ ~GolfAlive(golfPeer) /\ ~GolfAlive(recd)

(* The peer missed something of the tail: simulator and recorder are done, *)
(* no further state or pose will come, and the peer can neither finish nor *)
(* count quiet wheel states.                                               *)
StrandedPeer == golfPeer.pc = "drive" /\ ~golfPeer.finished /\ simu.exit = "ok" /\ recd.exit = "ok"

(* The orchestrator returns, although it has no deadline while it waits    *)
(* (_wait_for_completion), unless it waits for a stranded peer.            *)
SessionEnds == <>(orch.pc \in {"done", "failed", "refused"} \/ StrandedPeer)

(* The lock-step of the mapping run, and what is made of it. *)
MappingSound == OneAnswerPerState /\ NoLockstepDeadlock /\ AcceptedIsComplete
=============================================================================
