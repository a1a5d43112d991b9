-------------------------- MODULE LidarScanService --------------------------
(***************************************************************************)
(* LidarScanService of lidar_worker.py: the parent's bounded view of one   *)
(* LiDAR worker.  One job is in flight in the child, one more capture may  *)
(* wait in the parent, a third is refused.  Every method holds the         *)
(* service's lock for its whole body, so each is one action.               *)
(*                                                                         *)
(* Captures are numbered; the number stands for topic, timestamp and job   *)
(* id, all of which the child echoes.  "late" means that the 100 ms budget *)
(* since the capture is over.  events holds everything ever emitted and    *)
(* taken says how much of it drain_events has returned.                    *)
(***************************************************************************)
EXTENDS LidarChild, FiniteSets

CONSTANTS
    None,
    MaxCaptures,  \* bound on capture calls
    MaxGen,       \* bound on lifecycle generations
    MaxEpoch      \* bound on pause epochs

ASSUME ServiceAssumption ==
    /\ MaxCaptures \in Nat /\ MaxGen \in Nat /\ MaxEpoch \in Nat
    /\ None \notin [id : Nat, gen : Nat, epoch : Nat, late : BOOLEAN]

VARIABLES
    state,        \* "ready", "suspended", "draining", "failed" or "closed"
    svcGen,       \* _lifecycle_generation
    pauseEpoch,   \* _pause_epoch
    captures,     \* capture calls so far
    inFlight,     \* _in_flight or None
    reported,     \* _in_flight_overrun_reported
    pending,      \* _pending or None
    events,
    taken,
    delivered,    \* captures whose frame poll returned, in order
    barrier       \* history: captures made when gen or epoch last moved

serviceVars == <<state, svcGen, pauseEpoch, captures, inFlight, reported, pending,
                 events, taken, delivered, barrier>>
svcAll == <<serviceVars, childVars>>

Job(c) == [id |-> c.id, gen |-> c.gen, epoch |-> c.epoch]

Event(kind, c) == [kind |-> kind, id |-> IF c = None THEN 0 ELSE c.id]

ServiceInit ==
    /\ ChildInit
    /\ state = "ready"
    /\ svcGen = 0
    /\ pauseEpoch = 0
    /\ captures = 0
    /\ inFlight = None
    /\ reported = FALSE
    /\ pending = None
    /\ events = <<>>
    /\ taken = 0
    /\ delivered = <<>>
    /\ barrier = 0

-----------------------------------------------------------------------------
(* _fail_service; the in-flight job stays recorded. *)
FailService ==
    /\ state' = "failed"
    /\ pending' = None

(* capture: refused unless ready. *)
Refuse ==
    /\ state # "ready"
    /\ captures < MaxCaptures
    /\ captures' = captures + 1
    /\ UNCHANGED <<state, svcGen, pauseEpoch, inFlight, reported, pending, events,
                   taken, delivered, barrier, childVars>>

NewCapture == [id |-> captures + 1, gen |-> svcGen, epoch |-> pauseEpoch, late |-> FALSE]

(* capture: nothing in flight, the job goes out. *)
CaptureSend ==
    /\ state = "ready"
    /\ captures < MaxCaptures
    /\ captures' = captures + 1
    /\ inFlight = None
    /\ inFlight' = NewCapture
    /\ reported' = FALSE
    /\ ChildSend(Job(NewCapture))
    /\ UNCHANGED <<state, svcGen, pauseEpoch, pending, events, taken, delivered, barrier>>

(* capture: the request pipe is broken. *)
CaptureBroken ==
    /\ state = "ready"
    /\ captures < MaxCaptures
    /\ captures' = captures + 1
    /\ inFlight = None
    /\ ~childUp
    /\ FailService
    /\ events' = Append(events, Event("service_failed", None))
    /\ UNCHANGED <<svcGen, pauseEpoch, inFlight, reported, taken, delivered, barrier, childVars>>

(* capture: one waits in the parent. *)
CapturePend ==
    /\ state = "ready"
    /\ captures < MaxCaptures
    /\ captures' = captures + 1
    /\ inFlight # None
    /\ pending = None
    /\ pending' = NewCapture
    /\ UNCHANGED <<state, svcGen, pauseEpoch, inFlight, reported, events, taken,
                   delivered, barrier, childVars>>

(* capture: both places are taken, the newest is rejected. *)
CaptureReject ==
    /\ state = "ready"
    /\ captures < MaxCaptures
    /\ captures' = captures + 1
    /\ inFlight # None
    /\ pending # None
    /\ events' = Append(events, Event("capture_rejected", NewCapture))
    /\ UNCHANGED <<state, svcGen, pauseEpoch, inFlight, reported, pending, taken,
                   delivered, barrier, childVars>>

Pause ==
    /\ state = "ready"
    /\ pauseEpoch < MaxEpoch
    /\ pauseEpoch' = pauseEpoch + 1
    /\ state' = "suspended"
    /\ pending' = None
    /\ barrier' = captures
    /\ UNCHANGED <<svcGen, captures, inFlight, reported, events, taken, delivered, childVars>>

Resume ==
    /\ state = "suspended"
    /\ state' = "ready"
    /\ UNCHANGED <<svcGen, pauseEpoch, captures, inFlight, reported, pending, events,
                   taken, delivered, barrier, childVars>>

BeginDraining ==
    /\ state \in {"ready", "suspended"}
    /\ state' = "draining"
    /\ UNCHANGED <<svcGen, pauseEpoch, captures, inFlight, reported, pending, events,
                   taken, delivered, barrier, childVars>>

InvalidateGeneration ==
    /\ svcGen < MaxGen
    /\ svcGen' = svcGen + 1
    /\ pending' = None
    /\ barrier' = captures
    /\ UNCHANGED <<state, pauseEpoch, captures, inFlight, reported, events, taken,
                   delivered, childVars>>

Idle == inFlight = None /\ pending = None

(* close_idle: the child acknowledges the Stop and is joined. *)
CloseIdle ==
    /\ state # "closed"
    /\ Idle
    /\ childUp
    /\ state' = "closed"
    /\ childUp' = FALSE
    /\ UNCHANGED <<requests, responses, svcGen, pauseEpoch, captures, inFlight, reported,
                   pending, events, taken, delivered, barrier>>

(* force_close *)
ForceClose ==
    /\ state # "closed"
    /\ state' = "closed"
    /\ inFlight' = None
    /\ pending' = None
    /\ reported' = FALSE
    /\ childUp' = FALSE
    /\ requests' = <<>>
    /\ responses' = <<>>
    /\ UNCHANGED <<svcGen, pauseEpoch, captures, events, taken, delivered, barrier>>

DrainEvents ==
    /\ taken < Len(events)
    /\ taken' = Len(events)
    /\ UNCHANGED <<state, svcGen, pauseEpoch, captures, inFlight, reported, pending,
                   events, delivered, barrier, childVars>>

-----------------------------------------------------------------------------
(* poll *)

Stale(c) == c.gen # svcGen \/ c.epoch # pauseEpoch

(* Mutant: the report is not remembered. *)
OverrunAgain == inFlight # None /\ ~Stale(inFlight) /\ inFlight.late

Overrun == inFlight # None /\ ~Stale(inFlight) /\ inFlight.late /\ ~reported

(* Nothing to read, nothing to report. *)
PollQuiet ==
    /\ state \in {"failed", "closed"} \/ (childUp /\ responses = <<>> /\ ~Overrun)
    /\ UNCHANGED <<state, svcGen, pauseEpoch, captures, inFlight, reported, pending,
                   events, delivered, barrier, childVars>>

(* Nothing to read: only the budget of the job in flight is checked. *)
PollIdle ==
    /\ state \notin {"failed", "closed"}
    /\ childUp
    /\ responses = <<>>
    /\ Overrun
    /\ reported' = TRUE
    /\ events' = Append(events, Event("job_overrun", inFlight))
    /\ UNCHANGED <<state, svcGen, pauseEpoch, captures, inFlight, pending, delivered,
                   barrier, childVars>>

(* The response pipe is at its end. *)
PollExited ==
    /\ state \notin {"failed", "closed"}
    /\ ~childUp
    /\ responses = <<>>
    /\ FailService
    /\ events' = Append(events, Event("service_failed", inFlight))
    /\ UNCHANGED <<svcGen, pauseEpoch, captures, inFlight, reported, delivered,
                   barrier, childVars>>

ScanAnswer == Head(responses)

(* Does the answer belong to the job in flight? *)
Matches == inFlight # None /\ ScanAnswer.kind # "invalid" /\ ScanAnswer.job = Job(inFlight)

(* A foreign, malformed or scene_state_unknown answer. *)
PollBroken ==
    /\ state \notin {"failed", "closed"}
    /\ ChildTake
    /\ ~Matches \/ ScanAnswer.kind = "unknown"
    /\ FailService
    /\ events' = Append(events, Event("service_failed", inFlight))
    /\ UNCHANGED <<svcGen, pauseEpoch, captures, inFlight, reported, delivered, barrier>>

OverrunEvents == IF Overrun THEN <<Event("job_overrun", inFlight)>> ELSE <<>>

(* Mutant: nothing is promoted once draining has begun. *)
PromotesWhenReady == state = "ready" /\ pending # None

(* A finished job makes room for the waiting capture. *)
Promotes == state \in {"ready", "draining"} /\ pending # None

(* The waiting capture is sent and its budget checked, or the send finds   *)
(* the pipe broken; log is what poll has emitted so far.                   *)
Promoted(log) ==
    \/ /\ ~Promotes
       /\ inFlight' = None
       /\ reported' = FALSE
       /\ events' = log
       /\ responses' = Tail(responses)
       /\ UNCHANGED <<state, pending, requests, childUp>>
    \/ /\ Promotes
       /\ childUp
       /\ inFlight' = pending
       /\ reported' = pending.late
       /\ events' = log \o (IF pending.late THEN <<Event("job_overrun", pending)>> ELSE <<>>)
       /\ pending' = None
       /\ requests' = Append(requests, Job(pending))
       /\ responses' = Tail(responses)
       /\ UNCHANGED <<state, childUp>>
    \/ /\ Promotes
       /\ ~childUp
       /\ inFlight' = None
       /\ reported' = FALSE
       /\ FailService
       /\ events' = Append(log, Event("service_failed", None))
       /\ responses' = Tail(responses)
       /\ UNCHANGED <<requests, childUp>>

Answered(kind) ==
    /\ state \notin {"failed", "closed"}
    /\ responses # <<>>
    /\ Matches
    /\ ScanAnswer.kind = kind
    /\ UNCHANGED <<svcGen, pauseEpoch, captures, barrier>>

(* The job was overtaken by a pause or a new generation. *)
PollStale ==
    /\ \E kind \in {"frame", "failed"} : Answered(kind)
    /\ Stale(inFlight)
    /\ Promoted(events)
    /\ UNCHANGED delivered

PollFailed ==
    /\ Answered("failed")
    /\ ~Stale(inFlight)
    /\ Promoted(Append(events \o OverrunEvents, Event("frame_failed", inFlight)))
    /\ UNCHANGED delivered

(* Mutant: every frame is returned. *)
PollFrameUnchecked ==
    /\ Answered("frame")
    /\ Promoted(events \o OverrunEvents)
    /\ delivered' = Append(delivered, inFlight.id)

PollFrame ==
    /\ Answered("frame")
    /\ ~Stale(inFlight)
    /\ Promoted(events \o OverrunEvents)
    /\ delivered' = Append(delivered, inFlight.id)

Poll ==
    /\ \/ PollQuiet \/ PollIdle \/ PollExited \/ PollBroken
       \/ PollStale \/ PollFailed \/ PollFrame
    /\ UNCHANGED taken

(* The budget of the oldest capture that still has one runs out. *)
BudgetEnds ==
    \/ /\ inFlight # None
       /\ ~inFlight.late
       /\ inFlight' = [inFlight EXCEPT !.late = TRUE]
       /\ UNCHANGED pending
    \/ /\ pending # None
       /\ ~pending.late
       /\ inFlight # None => inFlight.late
       /\ pending' = [pending EXCEPT !.late = TRUE]
       /\ UNCHANGED inFlight

Age ==
    /\ BudgetEnds
    /\ UNCHANGED <<state, svcGen, pauseEpoch, captures, reported, events, taken,
                   delivered, barrier, childVars>>

(* The child computes; after scene_state_unknown it exits. *)
ScanChild ==
    /\ \/ \E kind \in Kinds : ChildAnswer(kind)
       \/ ChildExit
    /\ UNCHANGED serviceVars

ServiceNext ==
    \/ Refuse \/ CaptureSend \/ CaptureBroken \/ CapturePend \/ CaptureReject
    \/ Pause \/ Resume \/ BeginDraining \/ InvalidateGeneration
    \/ CloseIdle \/ ForceClose \/ DrainEvents
    \/ Poll \/ Age \/ ScanChild

ServiceSpec == ServiceInit /\ [][ServiceNext]_svcAll

(* The parent polls on every physics step and while it drains; a child     *)
(* that is up works on its request.                                        *)
ServiceLiveSpec ==
    /\ ServiceSpec
    /\ WF_svcAll(Poll)
    /\ WF_svcAll((\E kind \in Kinds : ChildAnswer(kind)) /\ UNCHANGED serviceVars)

-----------------------------------------------------------------------------
(* Properties *)

Capture == [id : 1..MaxCaptures, gen : 0..MaxGen, epoch : 0..MaxEpoch, late : BOOLEAN]

ServiceTypeOK ==
    /\ state \in {"ready", "suspended", "draining", "failed", "closed"}
    /\ svcGen \in 0..MaxGen
    /\ pauseEpoch \in 0..MaxEpoch
    /\ captures \in 0..MaxCaptures
    /\ inFlight \in Capture \cup {None}
    /\ reported \in BOOLEAN
    /\ pending \in Capture \cup {None}
    /\ events \in Seq([kind : {"service_failed", "capture_rejected", "job_overrun",
                               "frame_failed"}, id : 0..MaxCaptures])
    /\ taken \in 0..Len(events)
    /\ delivered \in Seq(1..MaxCaptures)
    /\ barrier \in 0..captures
    /\ childUp \in BOOLEAN

(* The job in flight is the only one the pipes know of, and it is on       *)
(* exactly one side of a child that is up: poll never meets an answer that *)
(* belongs to no job or to another one.                                    *)
OneJobOutstanding ==
    state \notin {"failed", "closed"} =>
        /\ Len(requests) + Len(responses) <= 1
        /\ inFlight = None => requests = <<>> /\ responses = <<>>
        /\ inFlight # None /\ childUp => Len(requests) + Len(responses) = 1
        /\ requests # <<>> => Head(requests) = Job(inFlight)
        /\ responses # <<>> => Head(responses).job = Job(inFlight)

(* A capture waits only behind an older job, and one from before a pause   *)
(* or a generation change never waits: promoting it needs no staleness     *)
(* check, as the code has none there.                                      *)
PendingIsCurrent ==
    pending # None =>
        /\ inFlight # None
        /\ pending.id > inFlight.id
        /\ ~Stale(pending)

Count(kind, id) ==
    Cardinality({i \in 1..Len(events) : events[i].kind = kind /\ events[i].id = id})

(* Frames come out in capture order, each once; a capture that was         *)
(* delivered is never also reported failed or rejected, and a job is       *)
(* reported over budget at most once, whether poll noticed it waiting,     *)
(* answered or just promoted.                                              *)
OneOutcome ==
    /\ \A i, j \in 1..Len(delivered) : i < j => delivered[i] < delivered[j]
    /\ \A id \in 1..MaxCaptures :
         /\ Count("job_overrun", id) <= 1
         /\ Count("frame_failed", id) + Count("capture_rejected", id)
               + Cardinality({i \in 1..Len(delivered) : delivered[i] = id}) <= 1

(* The service as its callers rely on it: one job on the way, nothing      *)
(* stale that waits, one outcome for every capture.                        *)
ServiceSound == ServiceTypeOK /\ OneJobOutstanding /\ PendingIsCurrent /\ OneOutcome

(* No frame captured before a pause or a generation change is handed out   *)
(* after it, though its job cannot be cancelled.                           *)
NoFrameAcrossBarrier ==
    [][delivered' # delivered => delivered'[Len(delivered')] > barrier]_svcAll

(* What was captured before begin_draining comes out, or the service has   *)
(* failed or was closed.                                                   *)
DrainCompletes ==
    state = "draining" ~> Idle \/ state \in {"failed", "closed"}
=============================================================================
