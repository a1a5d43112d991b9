---------------------------- MODULE ManualSession ----------------------------
(***************************************************************************)
(* The hosts of the simulation: the interactive loop                       *)
(* (slope_sim/manual_demo.py, with the v2 runtime, the v1 interface or     *)
(* neither) and the automatic experiment (slope_sim/simulation.py).        *)
(*                                                                         *)
(* `run` is what the host has opened and closes in its `finally`, whatever *)
(* failed on the way.  `gui`, `coord` and `frames` are the loop: requests *)
(* of the dashboard go through two queues to SimulationCoordinator, which  *)
(* works on one of them per frame, in slices; the loop matches the results *)
(* with the requests, unlocks the dashboard and takes over the new world.  *)
(* Everything of a frame is one thread; the user acts inside               *)
(* process_events only.                                                    *)
(***************************************************************************)
EXTENDS Naturals, Sequences, FiniteSets

CONSTANTS
    MaxRequests,     \* bound on structural requests
    Slices,          \* frames an obstacle batch takes
    MaxFaults        \* bound on things that raise

ASSUME SessionAssumption == {MaxRequests, Slices, MaxFaults} \subseteq Nat /\ Slices > 0

VARIABLES run, gui, coord, frames
sessVars == <<run, gui, coord, frames>>

Kinds == {"switch", "add", "delete"}
SafeStop(action) == action.kind = "switch"
NoAction == [id |-> 0, kind |-> "none"]
NoResult == [serial |-> 0, of |-> 0, obstacle |-> FALSE, done |-> TRUE, changed |-> FALSE, reset |-> FALSE]

(* What each host opens, in order.  The parts of the v1 interface come one *)
(* by one and belong to the runtime once it exists.                        *)
InterfaceParts == {"backend", "transport", "eventLog", "lidar"}
OpensInterface == <<"backend", "transport", "eventLog", "lidar", "runtime">>
Opens(mode) ==
    CASE mode = "v2" -> <<"client", "runtime", "csv", "obstacleLog", "dashboard", "receiver", "observer">>
      [] mode = "v1" -> <<"client">> \o OpensInterface \o <<"csv", "obstacleLog", "dashboard">>
      [] mode = "plain" -> <<"client", "csv", "obstacleLog", "dashboard">>
      [] mode = "auto" -> <<"client">> \o OpensInterface \o <<"csv", "gc">>

(* The order of the `finally` blocks. *)
Closes(mode) ==
    CASE mode = "v2" -> <<"capture", "receiver", "observer", "rc", "arbiter", "command", "runtime",
                          "dashboard", "csv", "obstacleLog", "client">>
      [] mode \in {"v1", "plain"} -> <<"capture", "runtime", "dashboard", "csv", "obstacleLog", "client">>
      [] mode = "auto" -> <<"gc", "runtime", "csv", "client">>

(* What main.py has opened before it calls the host, and closes after it.  *)
Callers == {"rc", "arbiter", "command"}

FreshGui == [actions |-> <<>>, busy |-> FALSE, paused |-> FALSE, exit |-> FALSE, batched |-> FALSE,
             capture |-> "off", wants |-> "none", keys |-> 0]
FreshCoordinator == [queue |-> <<>>, active |-> NoAction, left |-> 0, result |-> NoResult, world |-> 0, edits |-> 0]
FreshFrames == [pc |-> "events", robot |-> 0, pending |-> <<>>, handled |-> 0, logged |-> TRUE,
              speed |-> 0, origin |-> 0, out |-> FALSE, frozen |-> <<0, 0>>]

SessInit ==
    /\ \E mode \in {"v2", "v1", "plain", "auto"} :
        run = [mode |-> mode, pc |-> "open", at |-> 1, held |-> IF mode = "v2" THEN Callers ELSE {},
               early |-> FALSE, raised |-> FALSE, faults |-> 0, asked |-> 0]
    /\ gui = FreshGui /\ coord = FreshCoordinator /\ frames = FreshFrames

-----------------------------------------------------------------------------
(* Opening and closing. *)
Fault(bad) == (bad => run.faults < MaxFaults)
FaultsWith(bad) == IF bad THEN run.faults + 1 ELSE run.faults
Leaves == [run EXCEPT !.pc = "close", !.at = 1, !.raised = TRUE, !.faults = @ + 1]

(* _close_lidar_service_quietly and _close_resource_quietly: what the      *)
(* runtime has not taken over yet is closed where it was opened.           *)
Rollback(held) == held \ InterfaceParts

Open(ok) ==
    /\ run.pc = "open" /\ run.at <= Len(Opens(run.mode)) /\ Fault(~ok)
    /\ LET name == Opens(run.mode)[run.at]
           taken == IF name = "runtime" THEN run.held \ InterfaceParts ELSE run.held
       IN  run' = IF ok THEN [run EXCEPT !.at = @ + 1, !.held = taken \cup {name}]
                  ELSE IF name = "client" THEN [Leaves EXCEPT !.pc = "caller", !.early = TRUE]
                  ELSE [Leaves EXCEPT !.held = Rollback(@)]
    /\ UNCHANGED <<gui, coord, frames>>

Begin ==
    /\ run.pc = "open" /\ run.at > Len(Opens(run.mode))
    /\ run' = [run EXCEPT !.pc = "loop"]
    /\ UNCHANGED <<gui, coord, frames>>

(* The loop is left, and with it the state of its frames. *)
FramesEnd == gui' = FreshGui /\ coord' = FreshCoordinator /\ frames' = FreshFrames

(* Anything in a frame may raise. *)
Raise ==
    /\ run.pc = "loop" /\ Fault(TRUE)
    /\ run' = Leaves
    /\ FramesEnd

(* One close of the `finally`; its failure is kept and the rest goes on.   *)
(* A Command that would not close is tried again by main.py.               *)
Close(ok) ==
    /\ run.pc = "close" /\ run.at <= Len(Closes(run.mode)) /\ Fault(~ok)
    /\ LET name == Closes(run.mode)[run.at]
           skipped == name = "command" /\ "runtime" \notin run.held
           stays == skipped \/ (~ok /\ name = "command")
       IN  run' = [run EXCEPT !.at = @ + 1, !.faults = FaultsWith(~ok), !.raised = @ \/ ~ok,
                              !.held = IF stays THEN @ ELSE @ \ {name}]
    /\ UNCHANGED <<gui, coord, frames>>

Return ==
    /\ run.pc = "close" /\ run.at > Len(Closes(run.mode))
    /\ run' = [run EXCEPT !.pc = "caller"]
    /\ UNCHANGED <<gui, coord, frames>>

(* main.py: the arbiter and the Command once more, the result or the error. *)
CallerReturns ==
    /\ run.pc = "caller"
    /\ run' = [run EXCEPT !.pc = "ended", !.held = @ \ {"arbiter", "command"}]
    /\ UNCHANGED <<gui, coord, frames>>

-----------------------------------------------------------------------------
(* The user, inside process_events. *)
InEvents == run.pc = "loop" /\ frames.pc = "events" /\ run.mode # "auto"
CaptureLocks == gui.capture # "off" \/ gui.wants = "start"

(* request_reset ... request_clear_obstacles: refused while a request is   *)
(* being applied; several in one batch of events queue up.                 *)
Request(kind) ==
    /\ InEvents /\ run.asked < MaxRequests
    /\ ~(gui.busy /\ gui.actions = <<>>) /\ ~CaptureLocks
    /\ gui' = [gui EXCEPT !.actions = Append(@, [id |-> run.asked + 1, kind |-> kind]), !.busy = TRUE,
                          !.batched = @ \/ gui.actions # <<>>]
    /\ run' = [run EXCEPT !.asked = @ + 1]
    /\ UNCHANGED <<coord, frames>>

RequestCaptureStart ==
    /\ InEvents /\ gui.capture = "off" /\ ~gui.busy
    /\ gui' = [gui EXCEPT !.wants = "start"]
    /\ UNCHANGED <<run, coord, frames>>

RequestCaptureStop ==
    /\ InEvents /\ gui.capture = "on"
    /\ gui' = [gui EXCEPT !.wants = "stop"]
    /\ UNCHANGED <<run, coord, frames>>

UserInput(keys, paused) ==
    /\ InEvents
    /\ gui' = [gui EXCEPT !.keys = keys, !.paused = paused]
    /\ UNCHANGED <<run, coord, frames>>

UserExits ==
    /\ InEvents
    /\ gui' = [gui EXCEPT !.exit = TRUE]
    /\ UNCHANGED <<run, coord, frames>>

-----------------------------------------------------------------------------
(* The frame. *)
InLoop(pc) == run.pc = "loop" /\ frames.pc = pc
To(pc) == [frames EXCEPT !.pc = pc]

(* take_capture_request: the scene is frozen when the capture begins. *)
ServeCapture ==
    /\ InLoop("events")
    /\ gui' = [gui EXCEPT !.capture = IF gui.wants = "start" THEN "on" ELSE IF gui.wants = "stop" THEN "off" ELSE @,
                          !.wants = "none"]
    /\ frames' = IF gui.wants = "start" THEN [To("command") EXCEPT !.frozen = <<coord.world, coord.edits>>]
               ELSE To("command")
    /\ run' = [run EXCEPT !.held = IF gui.wants = "start" THEN @ \cup {"capture"}
                                   ELSE IF gui.wants = "stop" THEN @ \ {"capture"} ELSE @]
    /\ UNCHANGED coord

(* merge_manual_commands and limit_manual_command_step. *)
Limited(action) == IF gui.paused \/ frames.out \/ SafeStop(action) THEN 0 ELSE gui.keys

(* current_command: one request per frame. *)
NextAction == IF gui.actions = <<>> THEN NoAction ELSE Head(gui.actions)

(* The frame enqueues it and drives, or ends here when the user pauses or  *)
(* leaves.                                                                 *)
CommandFrame ==
    /\ InLoop("command")
    /\ LET action == NextAction
           some == action # NoAction
           speed == Limited(action)
       IN  IF gui.exit
           THEN run' = [run EXCEPT !.pc = "close", !.at = 1] /\ FramesEnd
           ELSE /\ gui' = IF some THEN [gui EXCEPT !.actions = Tail(@), !.busy = TRUE] ELSE gui
                /\ coord' = IF some THEN [coord EXCEPT !.queue = Append(@, action)] ELSE coord
                /\ frames' = [To(IF gui.paused THEN "events" ELSE "step") EXCEPT
                              !.pending = IF some THEN Append(@, action) ELSE @,
                              !.speed = speed,
                              !.origin = IF speed = 0 \/ frames.speed = 0 THEN frames.robot ELSE @]
                /\ UNCHANGED run

(* _advance_active_action: one slice of the batch of obstacles. *)
AdvanceAction(c, ok) ==
    LET done == c.left = 1
    IN  [c EXCEPT !.left = @ - 1, !.active = IF done THEN NoAction ELSE @,
                  !.edits = IF done /\ ok THEN @ + 1 ELSE @,
                  !.result = [serial |-> c.result.serial + 1, of |-> c.active.id, obstacle |-> TRUE,
                              done |-> done, changed |-> done /\ ok, reset |-> FALSE]]

(* _apply_immediate_action: another world, or one obstacle less; a refused *)
(* transaction leaves the world (see SceneTransaction).                    *)
ApplyImmediate(c, action, ok) ==
    LET reset == ok /\ action.kind = "switch"
    IN  [c EXCEPT !.world = IF reset THEN @ + 1 ELSE @,
                  !.edits = IF ok /\ ~reset THEN @ + 1 ELSE @,
                  !.result = [serial |-> c.result.serial + 1, of |-> action.id,
                              obstacle |-> action.kind = "delete", done |-> TRUE, changed |-> ok, reset |-> reset]]

(* _start_next_action *)
StartNext(c, ok) ==
    IF c.active # NoAction \/ c.queue = <<>> THEN c
    ELSE LET action == Head(c.queue)
             rest == [c EXCEPT !.queue = Tail(@)]
         IN  IF action.kind = "add" THEN [rest EXCEPT !.active = action, !.left = Slices]
             ELSE ApplyImmediate(rest, action, ok)

(* SimulationCoordinator.step *)
StepWorld(ok) ==
    /\ InLoop("step")
    /\ coord' = LET c == StartNext(coord, ok) IN IF c.active # NoAction THEN AdvanceAction(c, ok) ELSE c
    /\ frames' = To("handle")
    /\ UNCHANGED <<run, gui>>

(* Mutant: a result of a slice takes the request with it. *)
TakesRequestEarly(result) == result.serial # 0

(* The request a result belongs to stays at the head until it is done. *)
TakesRequest(result) == ~result.obstacle \/ result.done

Rests(result) == IF result.reset THEN 0 ELSE frames.speed

(* The dashboard stays locked while the coordinator has something to do.   *)
StaysBusy(result) == coord.queue # <<>> \/ coord.active # NoAction \/ ~result.done

(* A new result is logged with its request, a new world is taken over, the *)
(* dashboard told; the old result, seen again, is not.                     *)
HandleResult(out) ==
    /\ InLoop("handle")
    /\ LET result == coord.result
           new == result.serial # frames.handled
           next == [To("events") EXCEPT !.robot = coord.world, !.out = out]
       IN  IF ~new THEN frames' = next /\ gui' = gui
           ELSE /\ frames' = [next EXCEPT
                     !.handled = result.serial,
                     !.logged = @ /\ (result.done =>
                                        frames.pending # <<>> /\ Head(frames.pending).id = result.of),
                     !.pending = IF TakesRequest(result) /\ @ # <<>> THEN Tail(@) ELSE @,
                     !.speed = Rests(result),
                     !.origin = IF Rests(result) = 0 THEN coord.world ELSE @]
                /\ gui' = [gui EXCEPT !.busy = StaysBusy(result)]
    /\ UNCHANGED <<run, coord>>

-----------------------------------------------------------------------------
(* run_experiment: its steps, no requests, then the end of the loop. *)
AutoEnds ==
    /\ run.mode = "auto" /\ InLoop("events")
    /\ run' = [run EXCEPT !.pc = "close", !.at = 1]
    /\ FramesEnd

User == \/ \E kind \in Kinds : Request(kind)
        \/ RequestCaptureStart \/ RequestCaptureStop
        \/ \E keys \in 0..1, paused \in BOOLEAN : UserInput(keys, paused)
        \/ UserExits
Frame == \/ ServeCapture \/ CommandFrame \/ \E ok \in BOOLEAN : StepWorld(ok) \/ HandleResult(ok)
Closing == (\E ok \in BOOLEAN : Close(ok)) \/ Return \/ CallerReturns
Opening == (\E ok \in BOOLEAN : Open(ok)) \/ Begin
SessNext == Opening \/ Closing \/ Frame \/ User \/ AutoEnds \/ Raise

(* The loop runs, whatever the user does. *)
SessFairness == WF_sessVars(Opening) /\ WF_sessVars(Closing) /\ WF_sessVars(Frame)
SessSpec == SessInit /\ [][SessNext]_sessVars /\ SessFairness

-----------------------------------------------------------------------------
(* Every close of the `finally` blocks happens, whatever failed before it, *)
(* and in an order in which nothing outlives what it needs: the vehicle is *)
(* stopped and the sensors read while PyBullet is connected, and the only  *)
(* Command stops before the runtime it commands.  Left open is only the    *)
(* serial RC worker, when the host fails before it is inside its `try`.    *)
EverythingReleased ==
    /\ run.pc = "ended" => run.held \subseteq (IF run.early THEN {"rc"} ELSE {})
    /\ run.pc \in {"close", "caller"} /\ ~run.early /\ "client" \notin run.held
          => run.held \subseteq {"arbiter", "command"}
    /\ run.pc = "caller" => run.held \cap InterfaceParts = {}

(* The log names, for every finished request, the request it was, and the  *)
(* robot of a new world is never driven by a speed that was ramped up in   *)
(* the old one, even when the change waited behind a batch of obstacles.   *)
ResultsMeetRequests ==
    /\ frames.logged
    /\ InLoop("events") => frames.robot = coord.world /\ (frames.speed > 0 => frames.origin = coord.world)

(* The dashboard is locked as long as the coordinator has something to do, *)
(* so the scene a capture froze when it began is the scene until it ends,  *)
(* unless several requests were made in one batch of events.               *)
CaptureFreezesScene ==
    gui.capture = "on" /\ ~gui.batched => frames.frozen = <<coord.world, coord.edits>>

(* A dashboard locked for a request is unlocked again, or the user paused  *)
(* or the session ended.                                                   *)
LockReleased == gui.busy ~> (~gui.busy \/ gui.paused \/ run.pc # "loop")

(* The frame loop as the user relies on it, and the end of the session.    *)
SessionInOrder ==
    /\ [](EverythingReleased /\ ResultsMeetRequests /\ CaptureFreezesScene)
    /\ LockReleased
=============================================================================
