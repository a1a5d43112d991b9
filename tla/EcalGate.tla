------------------------------ MODULE EcalGate ------------------------------
(***************************************************************************)
(* The two-process eCAL acceptance gate: scripts/verify_ecal_roundtrip.py  *)
(* starts the simulation runtime (ecal_simulation_runtime.py) and an       *)
(* official eCAL peer (ecal_roundtrip_peer.py), which run a scripted       *)
(* scenario against each other.  The only channel for the script is a      *)
(* directory: for every stage the peer writes a marker file, the runtime   *)
(* writes an acknowledgement when it has seen the effect, and the peer     *)
(* removes the marker.  A file is written in place: it exists before it is *)
(* whole.                                                                  *)
(*                                                                         *)
(* Discovery lags behind the endpoints, the runtime polls it at 20 Hz and  *)
(* works with that observation for several iterations.  A calm run has no  *)
(* failure and meets its wall-clock deadlines; any other run may fail or   *)
(* time out at every step.                                                 *)
(***************************************************************************)
EXTENDS Integers, Sequences, FiniteSets

CONSTANTS
    Outputs,         \* number of output topics; topic 1 is the wheel state
    MaxFrames        \* bound on wheel-state frames inside the window

Topics == 1..Outputs
Command == 0
Endpoints == Topics \cup {Command}

(* The stages in the order of run_simulation_peer. *)
DropStages == [k \in 1..(2 * Outputs) |->
                 IF k % 2 = 1 THEN <<"drop", (k + 1) \div 2>> ELSE <<"restore", k \div 2>>]
Script ==
    <<<<"measure", 0>>, <<"complete", 0>>, <<"invalid", 0>>, <<"timeout", 0>>>> \o DropStages
      \o <<<<"prepare", 0>>, <<"disconnected", 0>>, <<"reconnected", 0>>, <<"new", 0>>>>
Stages == {Script[k] : k \in 1..Len(Script)}
None == <<"none", 0>>

VARIABLES
    calm,            \* no failure and no timeout happens in this run
    gate,            \* _run_ecal_simulation_roundtrip
    peer,            \* run_simulation_peer
    sim,             \* run_simulation_runtime
    wire,            \* eCAL: endpoints found, frames in flight
    marks,           \* state of each marker file
    acks             \* state of each acknowledgement file

gateVars == <<calm, gate, peer, sim, wire, marks, acks>>

NoObservation == [conn |-> {}, cmd |-> "waiting", invalid |-> FALSE]
GateInit ==
    /\ calm \in BOOLEAN
    /\ gate = [pc |-> "launch", start |-> FALSE, stop |-> FALSE, verdict |-> "none"]
    /\ peer = [pc |-> "down", stage |-> 0, open |-> {}, sending |-> FALSE,
               got |-> {}, measured |-> {}, fence |-> 0, start |-> 0, end |-> 0]
    /\ sim = [pc |-> "down", obs |-> NoObservation, seen |-> {}, gen |-> 1, cmd |-> "none",
              invalid |-> FALSE, dec |-> "waiting", window |-> "before", now |-> 0, start |-> 0,
              end |-> 0, gap |-> "none", evidence |-> {}, before |-> 0, after |-> 0, acking |-> None]
    /\ wire = [found |-> {}, flight |-> <<>>]
    /\ marks = [s \in Stages |-> "absent"]
    /\ acks = [s \in Stages |-> "absent"]

Alive(p) == p.pc \notin {"down", "ok", "failed", "killed"}
FileExists(file) == file # "absent"
GateAt(s) == peer.stage \in 1..Len(Script) /\ Script[peer.stage] = s

-----------------------------------------------------------------------------
(* eCAL *)
(* The registration of the peer's endpoints reaches, or leaves, the        *)
(* runtime's participant.                                                  *)
Discover(e) ==
    /\ (e \in wire.found) # (e \in peer.open)
    /\ wire' = [wire EXCEPT !.found = IF e \in peer.open THEN @ \cup {e} ELSE @ \ {e}]
    /\ UNCHANGED <<calm, gate, peer, sim, marks, acks>>

(* A wheel-state frame reaches the peer, in order; only a run that is not  *)
(* calm loses one.                                                         *)
DeliverFrame(lost) ==
    /\ wire.flight # <<>> /\ (lost => ~calm)
    /\ wire' = [wire EXCEPT !.flight = Tail(@)]
    /\ peer' = IF lost \/ ~Alive(peer) \/ 1 \notin peer.open THEN peer
               ELSE [peer EXCEPT !.got = @ \cup {Head(wire.flight)}]
    /\ UNCHANGED <<calm, gate, sim, marks, acks>>

(* A command reaches the mailbox of the runtime, if its participant knows  *)
(* the publisher; a command that is not renewed expires after 100 ms.      *)
DeliverCommand ==
    /\ peer.sending /\ Command \in peer.open /\ Command \in sim.seen /\ Alive(sim)
    /\ sim.cmd # "live"
    /\ sim' = [sim EXCEPT !.cmd = "live"]
    /\ UNCHANGED <<calm, gate, peer, wire, marks, acks>>

CommandExpires ==
    /\ sim.cmd = "live" /\ (~peer.sending \/ ~calm)
    /\ sim' = [sim EXCEPT !.cmd = "expired"]
    /\ UNCHANGED <<calm, gate, peer, wire, marks, acks>>

-----------------------------------------------------------------------------
(* The orchestrator. *)
LaunchRuntime ==
    /\ gate.pc = "launch"
    /\ gate' = [gate EXCEPT !.pc = "runtime_ready"]
    /\ sim' = [sim EXCEPT !.pc = "boot"]
    /\ UNCHANGED <<calm, peer, wire, marks, acks>>

LaunchPeer ==
    /\ gate.pc = "runtime_ready" /\ sim.pc = "await"
    /\ gate' = [gate EXCEPT !.pc = "peer_ready"]
    /\ peer' = [peer EXCEPT !.pc = "discover", !.open = Endpoints]
    /\ UNCHANGED <<calm, sim, wire, marks, acks>>

SignalStart ==
    /\ gate.pc = "peer_ready" /\ peer.pc = "await"
    /\ gate' = [gate EXCEPT !.pc = "finish_peer", !.start = TRUE]
    /\ UNCHANGED <<calm, peer, sim, wire, marks, acks>>

(* _finish_peer: the peer must exit by itself, and with 0. *)
FinishPeer ==
    /\ gate.pc = "finish_peer" /\ peer.pc = "ok"
    /\ gate' = [gate EXCEPT !.pc = "finish_runtime", !.stop = TRUE]
    /\ UNCHANGED <<calm, peer, sim, wire, marks, acks>>

FinishRuntime ==
    /\ gate.pc = "finish_runtime" /\ sim.pc = "ok"
    /\ gate' = [gate EXCEPT !.pc = "reap_peer", !.verdict = "evidence"]
    /\ UNCHANGED <<calm, peer, sim, wire, marks, acks>>

(* A child that ends early or badly, or a timeout: the finally clause. *)
GateRaises ==
    /\ gate.pc \in {"runtime_ready", "peer_ready", "finish_peer", "finish_runtime"}
    /\ \/ ~calm
       \/ gate.pc = "runtime_ready" /\ sim.pc = "failed"
       \/ gate.pc \in {"peer_ready", "finish_peer"} /\ peer.pc = "failed"
       \/ gate.pc = "finish_runtime" /\ sim.pc = "failed"
    /\ gate' = [gate EXCEPT !.pc = "reap_peer", !.stop = TRUE, !.verdict = "rejected"]
    /\ UNCHANGED <<calm, peer, sim, wire, marks, acks>>

(* _reap_process: terminate, then kill. *)
Reaped(p) == IF Alive(p) THEN [p EXCEPT !.pc = "killed"] ELSE p
ReapPeer ==
    /\ gate.pc = "reap_peer"
    /\ peer' = [Reaped(peer) EXCEPT !.open = {}, !.sending = FALSE]
    /\ gate' = [gate EXCEPT !.pc = "reap_runtime", !.stop = TRUE]
    /\ UNCHANGED <<calm, sim, wire, marks, acks>>

ReapRuntime ==
    /\ gate.pc = "reap_runtime"
    /\ sim' = Reaped(sim)
    /\ gate' = [gate EXCEPT !.pc = IF gate.verdict = "evidence" THEN "evaluate" ELSE "ended"]
    /\ UNCHANGED <<calm, peer, wire, marks, acks>>

(* What both children report about the window: the same bounds, a fence    *)
(* behind its end, and the frames of the log are the frames of the peer.   *)
WindowsAgree == peer.start = sim.start /\ peer.end = sim.end /\ peer.start < peer.end
WheelLogDelivery == peer.measured = {f \in 1..sim.now : f > sim.start /\ f <= sim.end}
SafetyEvidence ==
    /\ {<<"invalid", 0>>, <<"timeout", 0>>, <<"new", 0>>} \subseteq sim.evidence
    /\ \A t \in Topics : <<"drop", t>> \in sim.evidence
    /\ sim.after > sim.before

(* The thresholds on rates, motion, log load and clock ratio are numbers   *)
(* of the run: a calm run meets them, another one may not.                 *)
LoadEvidence(load) == load \/ ~calm

Evaluate(load) ==
    /\ gate.pc = "evaluate" /\ LoadEvidence(load)
    /\ gate' = [gate EXCEPT !.pc = "ended",
                            !.verdict = IF /\ load /\ WindowsAgree /\ peer.fence > peer.end
                                           /\ WheelLogDelivery /\ SafetyEvidence
                                        THEN "accepted" ELSE "rejected"]
    /\ UNCHANGED <<calm, peer, sim, wire, marks, acks>>

-----------------------------------------------------------------------------
(* The peer. *)
PeerGoes(pc) == peer' = [peer EXCEPT !.pc = pc]
PeerKeeps == UNCHANGED <<calm, gate, sim, wire>>

PeerReady ==
    /\ peer.pc = "discover" /\ Alive(sim)
    /\ PeerGoes("await")
    /\ PeerKeeps /\ UNCHANGED <<marks, acks>>

(* The first frame of every output arrives: the warm-up, 1 s of commands.  *)
Warmup ==
    /\ peer.pc = "await" /\ gate.start /\ sim.pc \in {"top", "blocks"}
    /\ peer' = [peer EXCEPT !.pc = "warm", !.sending = TRUE]
    /\ PeerKeeps /\ UNCHANGED <<marks, acks>>

WarmupEnds ==
    /\ peer.pc = "warm"
    /\ calm => sim.cmd = "live" /\ sim.seen = Endpoints
    /\ peer' = [peer EXCEPT !.pc = "mark", !.stage = 1, !.sending = FALSE]
    /\ PeerKeeps /\ UNCHANGED <<marks, acks>>

(* _write_marker *)
Mark ==
    /\ peer.pc = "mark" /\ \E s \in Stages : GateAt(s) /\ marks' = [marks EXCEPT ![s] = "torn"]
    /\ PeerGoes("marking")
    /\ PeerKeeps /\ UNCHANGED acks

(* What a stage does between its marker and the wait: an invalid command,  *)
(* the end of a subscriber or of the command publisher, or commands.       *)
MarkedAct(s) ==
    CASE s[1] = "drop" -> [peer EXCEPT !.pc = "wait", !.open = @ \ {s[2]}]
      [] s[1] = "disconnected" -> [peer EXCEPT !.pc = "wait", !.open = @ \ {Command}, !.sending = FALSE]
      [] s[1] \in {"prepare", "new"} -> [peer EXCEPT !.pc = "wait", !.sending = TRUE]
      [] OTHER -> [peer EXCEPT !.pc = "wait"]
Marked ==
    /\ peer.pc = "marking"
    /\ \E s \in Stages :
          /\ GateAt(s)
          /\ marks' = [marks EXCEPT ![s] = "whole"]
          /\ peer' = MarkedAct(s)
          /\ sim' = IF s[1] = "invalid" /\ Command \in sim.seen
                    THEN [sim EXCEPT !.invalid = TRUE] ELSE sim
    /\ UNCHANGED <<calm, gate, wire, acks>>

(* _wait_for_file needs the file, _wait_for_json_object the whole of it;   *)
(* new commands are sent for 0.25 s, which a calm run finds long enough.   *)
AckSeen(s) == IF s[1] \in {"measure", "complete"} THEN acks[s] = "whole" ELSE FileExists(acks[s])
NewCommandsEnd ==
    /\ peer.pc = "wait" /\ GateAt(<<"new", 0>>) /\ peer.sending
    /\ calm => FileExists(acks[<<"new", 0>>])
    /\ peer' = [peer EXCEPT !.sending = FALSE]
    /\ PeerKeeps /\ UNCHANGED <<marks, acks>>

(* After the acknowledgement: the marker goes (that of a drop with the one *)
(* of its restore), and the peer prepares the next stage.                  *)
NextOf(s) ==
    LET next == [peer EXCEPT !.pc = "mark", !.stage = @ + 1]
    IN  CASE s[1] = "measure" -> [next EXCEPT !.pc = "schedule", !.start = sim.start, !.sending = TRUE]
          [] s[1] = "complete" -> [next EXCEPT !.pc = "fence", !.end = sim.end]
          [] s[1] = "drop" -> [next EXCEPT !.open = @ \cup {s[2]}]
          [] s[1] = "prepare" -> [next EXCEPT !.sending = FALSE]
          [] s[1] = "disconnected" -> [next EXCEPT !.open = @ \cup {Command}]
          [] s[1] = "new" -> [next EXCEPT !.pc = "report"]
          [] OTHER -> next
Advance ==
    /\ peer.pc = "wait"
    /\ \E s \in Stages :
          /\ GateAt(s) /\ AckSeen(s) /\ ~(s[1] = "new" /\ peer.sending)
          /\ peer' = NextOf(s)
          /\ marks' = [t \in Stages |->
                         IF (t = s /\ s[1] # "drop") \/ (s[1] = "restore" /\ t = <<"drop", s[2]>>)
                         THEN "absent" ELSE marks[t]]
    /\ PeerKeeps /\ UNCHANGED acks

(* The commands of the measurement window. *)
ScheduleEnds ==
    /\ peer.pc = "schedule"
    /\ peer' = [peer EXCEPT !.pc = "mark", !.sending = FALSE]
    /\ PeerKeeps /\ UNCHANGED <<marks, acks>>

(* Mutant: the peer does not wait for a frame behind the window. *)
PassFenceAtOnce ==
    /\ peer.pc = "fence"
    /\ peer' = [peer EXCEPT !.pc = "mark", !.fence = sim.end + 1,
                            !.measured = {f \in peer.got : f > peer.start /\ f <= peer.end}]
    /\ PeerKeeps /\ UNCHANGED <<marks, acks>>

(* _wait_for_output_fence, and the frames of the window are taken. *)
PassFence ==
    /\ peer.pc = "fence"
    /\ \E f \in peer.got :
          /\ f > peer.end
          /\ peer' = [peer EXCEPT !.pc = "mark", !.fence = f,
                                  !.measured = {g \in peer.got : g > peer.start /\ g <= peer.end}]
    /\ PeerKeeps /\ UNCHANGED <<marks, acks>>

(* Endpoints are closed and the result is written. *)
PeerReports ==
    /\ peer.pc = "report"
    /\ peer' = [peer EXCEPT !.pc = "ok", !.open = {}, !.sending = FALSE]
    /\ PeerKeeps /\ UNCHANGED <<marks, acks>>

PeerFails ==
    /\ ~calm /\ Alive(peer)
    /\ peer' = [peer EXCEPT !.pc = "failed", !.open = {}, !.sending = FALSE]
    /\ PeerKeeps /\ UNCHANGED <<marks, acks>>

-----------------------------------------------------------------------------
(* The simulation runtime. *)
SimKeeps == UNCHANGED <<calm, gate, peer, marks>>

Boot ==
    /\ sim.pc = "boot"
    /\ sim' = [sim EXCEPT !.pc = "await"]
    /\ SimKeeps /\ UNCHANGED <<wire, acks>>

AwaitStart ==
    /\ sim.pc = "await" /\ (gate.start \/ gate.stop)
    /\ sim' = [sim EXCEPT !.pc = IF gate.start THEN "top" ELSE "failed"]
    /\ SimKeeps /\ UNCHANGED <<wire, acks>>

(* poll_transport: an edge of the command publisher ends its generation. *)
Polled ==
    LET lost == Command \in sim.seen /\ Command \notin wire.found
    IN  [sim EXCEPT !.seen = wire.found,
                    !.gen = IF lost THEN @ + 1 ELSE @,
                    !.cmd = IF lost THEN "none" ELSE @]
Observation(s) ==
    [conn |-> s.seen,
     cmd |-> IF Command \notin s.seen THEN "disconnected"
             ELSE IF s.cmd = "none" THEN "waiting" ELSE "active",
     invalid |-> s.invalid]
Decision(s) ==
    CASE s.cmd = "live" -> "drive" [] s.cmd = "expired" -> "timed_out" [] OTHER -> "waiting"

(* _WheelDrainFenceGate: after the window one frame is let out, and then   *)
(* nothing until the marker of the next stage is whole.                    *)
FenceReleased == marks[<<"invalid", 0>>] = "whole"

FenceGate == IF sim.gap = "delivered" /\ FenceReleased THEN "released" ELSE sim.gap
StepDue ==
    /\ FenceGate # "delivered"
    /\ acks[<<"new", 0>>] # "whole"
    /\ sim.window # "over"

(* One turn of the loop up to the physics step; the lane of the wheel      *)
(* state is idle, else the step is only delayed.  Frames are numbered      *)
(* from the start of the window.                                           *)
Publishes == (sim.window = "open" /\ sim.now < MaxFrames) \/ FenceGate = "armed"
Turn(poll, frame) ==
    /\ sim.pc = "top" /\ ~gate.stop /\ sim.window # "over"
    /\ frame => StepDue /\ Publishes
    /\ LET s == IF poll THEN Polled ELSE sim
       IN  sim' = [s EXCEPT !.obs = IF poll THEN Observation(s) ELSE @,
                            !.dec = Decision(s),
                            !.pc = IF StepDue THEN "blocks" ELSE "top",
                            !.now = IF frame THEN @ + 1 ELSE @,
                            !.gap = IF frame /\ FenceGate = "armed" THEN "delivered" ELSE FenceGate]
    /\ wire' = IF frame THEN [wire EXCEPT !.flight = Append(@, sim.now + 1)] ELSE wire
    /\ SimKeeps /\ UNCHANGED acks

(* _write_ack: an acknowledgement that exists is not written again. *)
Acknowledge(s, new) ==
    IF FileExists(acks[s]) THEN sim' = new /\ acks' = acks
    ELSE /\ sim' = [new EXCEPT !.acking = s]
         /\ acks' = [acks EXCEPT ![s] = "torn"]

AckWritten ==
    /\ Alive(sim) /\ sim.acking # None
    /\ acks' = [acks EXCEPT ![sim.acking] = "whole"]
    /\ sim' = [sim EXCEPT !.acking = None]
    /\ SimKeeps /\ UNCHANGED wire

InBlocks(s) == sim.pc = "blocks" /\ sim.acking = None /\ GateAt(s) /\ FileExists(marks[s])

(* All topics of the transport are active. *)
AllActive == sim.seen = Endpoints /\ sim.cmd # "none"

(* Sensors, log and lanes are drained and the snapshot is taken; a topic   *)
(* that is not active ends the run.                                        *)
Captured(s, new) ==
    IF AllActive THEN Acknowledge(s, new)
    ELSE sim' = [sim EXCEPT !.pc = "failed"] /\ acks' = acks

(* The measurement window opens. *)
CaptureStart ==
    LET s == <<"measure", 0>>
    IN  /\ InBlocks(s) /\ marks[s] = "whole" /\ sim.window = "before"
        /\ Captured(s, [sim EXCEPT !.window = "open", !.start = sim.now])
        /\ SimKeeps /\ UNCHANGED wire

(* The duration of the window is over, on the runtime's clock: it stops    *)
(* stepping and waits for the peer to say so.                              *)
WindowOver ==
    /\ sim.pc = "top" /\ sim.window = "open" /\ sim.acking = None /\ sim.now > 0
    /\ sim' = [sim EXCEPT !.window = "over"]
    /\ SimKeeps /\ UNCHANGED <<wire, acks>>

(* The window closes, and the fence is armed. *)
CaptureEnd ==
    LET s == <<"complete", 0>>
    IN  /\ sim.pc = "top" /\ sim.window = "over" /\ sim.acking = None /\ marks[s] = "whole"
        /\ Captured(s, [sim EXCEPT !.window = "closed", !.end = sim.now, !.gap = "armed"])
        /\ SimKeeps /\ UNCHANGED wire

SeeInvalid ==
    LET s == <<"invalid", 0>>
    IN  /\ InBlocks(s) /\ marks[s] = "whole" /\ sim.obs.invalid
        /\ Acknowledge(s, [sim EXCEPT !.evidence = @ \cup {s}])
        /\ SimKeeps /\ UNCHANGED wire

SeeTimeout ==
    LET s == <<"timeout", 0>>
    IN  /\ InBlocks(s) /\ sim.dec = "timed_out"
        /\ Acknowledge(s, [sim EXCEPT !.evidence = @ \cup {s}])
        /\ SimKeeps /\ UNCHANGED wire

(* _output_peer_isolated *)
PeerIsolated(t) == t \notin sim.obs.conn /\ Topics \ {t} \subseteq sim.obs.conn

SeeDrop(t) ==
    /\ InBlocks(<<"drop", t>>) /\ marks[<<"drop", t>>] = "whole" /\ PeerIsolated(t)
    /\ Acknowledge(<<"drop", t>>, [sim EXCEPT !.evidence = @ \cup {<<"drop", t>>}])
    /\ SimKeeps /\ UNCHANGED wire

SeeRestore(t) ==
    /\ InBlocks(<<"restore", t>>) /\ marks[<<"restore", t>>] = "whole" /\ Topics \subseteq sim.obs.conn
    /\ Acknowledge(<<"restore", t>>, sim)
    /\ SimKeeps /\ UNCHANGED wire

SeePrepared ==
    LET s == <<"prepare", 0>>
    IN  /\ InBlocks(s) /\ sim.before = 0 /\ sim.obs.cmd = "active" /\ sim.dec = "drive"
        /\ Acknowledge(s, [sim EXCEPT !.before = sim.gen])
        /\ SimKeeps /\ UNCHANGED wire

SeeDisconnected ==
    LET s == <<"disconnected", 0>>
    IN  /\ InBlocks(s) /\ sim.obs.cmd = "disconnected" /\ sim.dec # "drive"
        /\ sim.before # 0 /\ sim.gen > sim.before
        /\ Acknowledge(s, [sim EXCEPT !.after = sim.gen, !.evidence = @ \cup {s}])
        /\ SimKeeps /\ UNCHANGED wire

SeeReconnected ==
    LET s == <<"reconnected", 0>>
    IN  /\ InBlocks(s) /\ Command \in sim.obs.conn /\ sim.dec = "waiting"
        /\ Acknowledge(s, [sim EXCEPT !.evidence = @ \cup {s}])
        /\ SimKeeps /\ UNCHANGED wire

(* _write_final_protocol_ack *)
SeeNewCommand ==
    LET s == <<"new", 0>>
    IN  /\ InBlocks(s) /\ <<"reconnected", 0>> \in sim.evidence /\ sim.obs.cmd = "active" /\ sim.dec = "drive"
        /\ sim.obs.conn = Endpoints
        /\ Acknowledge(s, [sim EXCEPT !.evidence =
                                 IF <<"disconnected", 0>> \in @ THEN @ \cup {s} ELSE @])
        /\ SimKeeps /\ UNCHANGED wire

EndTurn ==
    /\ sim.pc = "blocks" /\ sim.acking = None
    /\ sim' = [sim EXCEPT !.pc = "top"]
    /\ SimKeeps /\ UNCHANGED <<wire, acks>>

(* The stop file: the evidence must be complete, the session is closed and *)
(* the result is written.  While the runtime waits for the completion      *)
(* marker a stop is a failure.                                             *)
Stopped ==
    /\ sim.pc = "top" /\ sim.acking = None /\ gate.stop
    /\ sim' = [sim EXCEPT !.pc = IF sim.window = "closed" /\ sim.after # 0 THEN "ok" ELSE "failed"]
    /\ SimKeeps /\ UNCHANGED <<wire, acks>>

SimFails ==
    /\ ~calm /\ Alive(sim)
    /\ sim' = [sim EXCEPT !.pc = "failed"]
    /\ SimKeeps /\ UNCHANGED <<wire, acks>>

-----------------------------------------------------------------------------
GateStep ==
    \/ LaunchRuntime \/ LaunchPeer \/ SignalStart \/ FinishPeer \/ FinishRuntime \/ GateRaises
    \/ ReapPeer \/ ReapRuntime \/ \E load \in BOOLEAN : Evaluate(load)

PeerStep ==
    \/ PeerReady \/ Warmup \/ WarmupEnds \/ Mark \/ Marked \/ NewCommandsEnd \/ Advance
    \/ ScheduleEnds \/ PassFence \/ PeerReports \/ PeerFails

See ==
    \/ CaptureStart \/ WindowOver \/ CaptureEnd \/ SeeInvalid \/ SeeTimeout
    \/ \E t \in Topics : SeeDrop(t) \/ SeeRestore(t)
    \/ SeePrepared \/ SeeDisconnected \/ SeeReconnected \/ SeeNewCommand

SimStep ==
    \/ Boot \/ AwaitStart \/ AckWritten \/ See \/ EndTurn \/ Stopped \/ SimFails
    \/ \E poll, frame \in BOOLEAN : Turn(poll, frame)

GateNext ==
    \/ GateStep \/ PeerStep \/ SimStep
    \/ \E e \in Endpoints : Discover(e)
    \/ \E lost \in BOOLEAN : DeliverFrame(lost)
    \/ DeliverCommand \/ CommandExpires

(* Every process runs, eCAL delivers and expires, the runtime polls, steps *)
(* and looks at the markers in every turn.                                 *)
GateFairness ==
    /\ WF_gateVars(GateStep) /\ WF_gateVars(PeerStep) /\ WF_gateVars(SimStep)
    /\ \A e \in Endpoints : WF_gateVars(Discover(e))
    /\ WF_gateVars(DeliverFrame(FALSE))
    /\ SF_gateVars(DeliverCommand) /\ WF_gateVars(CommandExpires)
    /\ SF_gateVars(See) /\ SF_gateVars(Turn(TRUE, TRUE)) /\ SF_gateVars(Turn(TRUE, FALSE))

GateSpec == GateInit /\ [][GateNext]_gateVars /\ GateFairness

-----------------------------------------------------------------------------
(* What the runtime acknowledges is true when it does: an output is        *)
(* reported isolated only while the bus has lost exactly that subscriber,  *)
(* a stop only while the command publisher is gone from the bus, and the   *)
(* resumption only in a generation behind the disconnect.  The observation *)
(* behind an acknowledgement may be several steps old.                     *)
AcksAreTrue ==
    /\ \A t \in Topics :
          peer.pc \in {"marking", "wait"} /\ GateAt(<<"drop", t>>) /\ FileExists(acks[<<"drop", t>>])
             => peer.open = Endpoints \ {t} /\ t \notin wire.found
    /\ peer.pc \in {"marking", "wait"} /\ GateAt(<<"disconnected", 0>>)
          /\ FileExists(acks[<<"disconnected", 0>>]) => Command \notin wire.found
    /\ <<"new", 0>> \in sim.evidence => sim.after > sim.before /\ sim.before # 0

(* The frames that the peer takes for the window are those the runtime has *)
(* published in it, whatever was in flight when the window was closed,     *)
(* unless a frame was lost; and a run is accepted only with all of them.   *)
WindowIsWhole ==
    /\ calm /\ peer.fence > 0 => WindowsAgree /\ WheelLogDelivery
    /\ gate.verdict = "accepted" =>
          peer.measured = {f \in 1..sim.now : sim.start < f /\ f <= sim.end} /\ peer.measured # {}

(* When the gate has ended, no participant of it is left on the bus. *)
NoChildLeft == gate.pc = "ended" => ~Alive(peer) /\ ~Alive(sim)

(* The handshake has no deadlock: every run ends, and a calm one is        *)
(* accepted.                                                               *)
GateEnds == <>(gate.pc = "ended" /\ (calm => gate.verdict = "accepted"))
=============================================================================
