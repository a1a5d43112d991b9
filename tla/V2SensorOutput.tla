--------------------------- MODULE V2SensorOutput ---------------------------
(***************************************************************************)
(* The 10 Hz sensor output of the v2 runtime and its shutdown              *)
(* (sensor_frames.py, simulation_runtime.py, world_runtime.py), on top of  *)
(* the LiDAR scan service and its child.                                   *)
(*                                                                         *)
(* A due sample reserves its identities, freezes RTK and IMU and submits a *)
(* scan; the triple is published when the child's cloud comes back.  The   *)
(* factory remembers the frozen half of every submitted sample (_pending). *)
(* The physics loop owns the service, so the child is the only process     *)
(* that runs between its steps.  The service is never paused here and its  *)
(* generation never moves: a new world gets a new worker, service and      *)
(* factory.                                                                *)
(***************************************************************************)
EXTENDS LidarScanService

CONSTANT
    MayRefuse     \* the transport may refuse a message

ASSUME OutputAssumption == MayRefuse \in BOOLEAN

VARIABLES
    pc,           \* the loop: "poll1", "capture", "poll2"; close: "drain",
                  \* "release", and its outcome "released" or "aborted"
    waiting,      \* samples in the factory's _pending
    accepted,     \* history: samples whose scan was accepted
    published,    \* samples published, in order
    refused       \* samples of which the transport refused a message

outputVars == <<pc, waiting, accepted, published, refused>>
outputAll == <<outputVars, svcAll>>

OutputInit ==
    /\ ServiceInit
    /\ pc = "poll1"
    /\ waiting = {}
    /\ accepted = {}
    /\ published = <<>>
    /\ refused = {}

-----------------------------------------------------------------------------
(* poll_completed without a frame: events are drained, and a frame_failed  *)
(* event withdraws its sample.                                             *)
CompletedNothing ==
    /\ \/ /\ PollFailed
          /\ waiting' = waiting \ {inFlight.id}
       \/ /\ PollQuiet \/ PollIdle \/ PollExited \/ PollBroken
          /\ UNCHANGED waiting
    /\ taken' = Len(events')
    /\ UNCHANGED <<accepted, published, refused>>

(* poll_completed with a frame: its sample is taken out. *)
CompletedFrame ==
    /\ PollFrame
    /\ waiting' = waiting \ {inFlight.id}
    /\ taken' = Len(events')
    /\ UNCHANGED accepted

(* All three messages of the sample leave. *)
PublishFrame ==
    /\ CompletedFrame
    /\ inFlight.id \in waiting
    /\ published' = Append(published, inFlight.id)
    /\ UNCHANGED refused

(* The sample is unknown, or the transport refuses one of its messages:    *)
(* an exception.                                                           *)
PublishRaises ==
    /\ CompletedFrame
    /\ MayRefuse \/ inFlight.id \notin waiting
    /\ refused' = refused \cup ({inFlight.id} \cap waiting)
    /\ UNCHANGED published

(* poll, capture, poll. *)
NextPc == IF pc = "poll1" THEN "capture" ELSE "poll1"

(* The two polls of after_physics_step. *)
StepPoll ==
    /\ pc \in {"poll1", "poll2"}
    /\ \/ (CompletedNothing \/ PublishFrame) /\ pc' = NextPc
       \/ PublishRaises /\ pc' = "drain"

(* No sample is due in this physics step. *)
NotDue ==
    /\ pc = "capture"
    /\ pc' = "poll2"
    /\ UNCHANGED <<waiting, accepted, published, refused, svcAll>>

(* Mutant: a capture that has to wait is not registered. *)
CaptureDueIfSent ==
    /\ pc = "capture"
    /\ pc' = "poll2"
    /\ \/ /\ CaptureSend
          /\ waiting' = waiting \cup {captures + 1}
          /\ accepted' = accepted \cup {captures + 1}
       \/ /\ CapturePend
          /\ accepted' = accepted \cup {captures + 1}
          /\ UNCHANGED waiting
       \/ /\ CaptureReject
          /\ UNCHANGED <<waiting, accepted>>
    /\ UNCHANGED <<published, refused>>

(* capture: accepted, or rejected by back pressure. *)
CaptureDue ==
    /\ pc = "capture"
    /\ pc' = "poll2"
    /\ \/ /\ CaptureSend \/ CapturePend
          /\ waiting' = waiting \cup {captures + 1}
          /\ accepted' = accepted \cup {captures + 1}
       \/ /\ CaptureReject
          /\ UNCHANGED <<waiting, accepted>>
    /\ UNCHANGED <<published, refused>>

(* capture: the service is not healthy; the run ends. *)
CaptureFails ==
    /\ pc = "capture"
    /\ pc' = "drain"
    /\ Refuse \/ CaptureBroken
    /\ UNCHANGED <<waiting, accepted, published, refused>>

(* The operator quits, or the loop raises elsewhere. *)
RunEnds ==
    /\ pc \in {"poll1", "capture", "poll2"}
    /\ pc' = "drain"
    /\ UNCHANGED <<waiting, accepted, published, refused, svcAll>>

-----------------------------------------------------------------------------
(* V2ManualWorldRuntime.close *)

(* drain_sensor_outputs has nothing to wait for. *)
Drained ==
    /\ pc = "drain"
    /\ waiting = {}
    /\ pc' = "release"
    /\ UNCHANGED <<waiting, accepted, published, refused, svcAll>>

DrainPoll ==
    /\ pc = "drain"
    /\ waiting # {}
    /\ \/ (CompletedNothing \/ PublishFrame) /\ UNCHANGED pc
       \/ PublishRaises /\ pc' = "aborted"

(* Five seconds are long against a scan: they pass only when no answer     *)
(* can come any more.  TimeoutError leaves everything else open.           *)
DrainTimeout ==
    /\ pc = "drain"
    /\ waiting # {}
    /\ state = "failed"
    /\ pc' = "aborted"
    /\ UNCHANGED <<waiting, accepted, published, refused, svcAll>>

(* The receiver is closed, then begin_draining and close_idle, then the    *)
(* controller.                                                             *)
Release ==
    /\ pc = "release"
    /\ CloseIdle
    /\ pc' = "released"
    /\ UNCHANGED <<waiting, accepted, published, refused>>

(* close_idle raises: a job is left, or the child does not acknowledge. *)
ReleaseFails ==
    /\ pc = "release"
    /\ ~Idle \/ ~childUp
    /\ pc' = "aborted"
    /\ state' = IF state = "ready" THEN "draining" ELSE state
    /\ UNCHANGED <<waiting, accepted, published, refused, svcGen, pauseEpoch, captures,
                   inFlight, reported, pending, events, taken, delivered, barrier,
                   childVars>>

Main ==
    \/ StepPoll \/ NotDue \/ CaptureDue \/ CaptureFails \/ RunEnds
    \/ Drained \/ DrainPoll \/ DrainTimeout \/ Release \/ ReleaseFails

Environment == (Age \/ ScanChild) /\ UNCHANGED outputVars

OutputNext == Main \/ Environment

OutputSpec == OutputInit /\ [][OutputNext]_outputAll

(* The loop keeps running, and a child that is up answers. *)
OutputLiveSpec ==
    /\ OutputSpec
    /\ WF_outputAll(Main)
    /\ WF_outputAll((\E kind \in Kinds : ChildAnswer(kind)) /\ UNCHANGED <<serviceVars, outputVars>>)

-----------------------------------------------------------------------------
(* Properties *)

OutputTypeOK ==
    /\ ServiceTypeOK
    /\ pc \in {"poll1", "capture", "poll2", "drain", "release", "released", "aborted"}
    /\ waiting \subseteq 1..MaxCaptures
    /\ accepted \subseteq 1..MaxCaptures
    /\ published \in Seq(1..MaxCaptures)
    /\ refused \subseteq 1..MaxCaptures

Outstanding == {c.id : c \in {inFlight, pending} \ {None}}

(* As long as the service has not failed, the factory waits for exactly    *)
(* the scans the service still has: none is forgotten, so no cloud comes   *)
(* back with an unknown timestamp, and none is waited for in vain.         *)
FactoryMatchesService == state # "failed" => waiting = Outstanding

FailedFrames == {events[i].id : i \in {k \in 1..Len(events) : events[k].kind = "frame_failed"}}

(* A clean shutdown has published every sample whose scan was accepted, in *)
(* capture order, unless its frame failed or the transport refused it: the *)
(* last frames are not lost.                                               *)
CloseLosesNothing ==
    /\ \A i, j \in 1..Len(published) : i < j => published[i] < published[j]
    /\ pc = "released" =>
         accepted = {published[i] : i \in 1..Len(published)}
                      \cup FailedFrames \cup refused

(* Unless the child is lost or the transport refuses a message, every      *)
(* shutdown gets through to the worker and the controller: no failed,      *)
(* rejected or waiting scan holds up the drain.                            *)
CloseReleases ==
    pc = "drain" ~> \/ pc = "released"
                    \/ ~childUp \/ state = "failed"
                    \/ refused # {}
=============================================================================
