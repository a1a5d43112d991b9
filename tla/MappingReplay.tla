---------------------------- MODULE MappingReplay ----------------------------
(***************************************************************************)
(* The replay of a recorded golf session.  load_mapping_session            *)
(* (mapping_mcap.py) indexes a recording strictly; MappingReplayWindow     *)
(* (mapping_replay_gui.py) runs on the Qt thread and asks for frames with  *)
(* PlaybackClock (mapping_replay.py); ReplayFrameWorker renders them on    *)
(* its own thread, through a request and a result queue of one place each, *)
(* from MappingMcapReplaySource, which streams the recording again and     *)
(* accumulates the world map.                                              *)
(*                                                                         *)
(* Times are counted in frame periods of 100 ms.  A recording has, for     *)
(* every topic, the sequence numbers and times of its messages; hits says  *)
(* in which voxels frame k has fixed and moving points.  The numbers in    *)
(* the payloads (geometry, identity, encoding) are one flag of the         *)
(* recording.  The file may be replaced under the same name; an open       *)
(* stream then reads on in the old file.                                   *)
(***************************************************************************)
EXTENDS Integers, Sequences, FiniteSets

CONSTANTS
    Recordings,      \* what may have been recorded
    Voxels,
    Ttl,             \* moving_ttl_ns in frame periods (3)
    NoRequest, NoFrame, NoCache,
    MaxAsks          \* bound on clock generations

ASSUME ReplayBounds ==
    /\ Ttl \in Nat
    /\ NoRequest \notin [gen : Nat, index : Nat, rebuild : BOOLEAN]

V2Topics == {"command", "wheel", "lidar", "rtk", "imu"}

ASSUME RecordingsAssumption ==
    \A rec \in Recordings : rec.msgs \in [V2Topics -> Seq([seq : Int, time : Int])]

VARIABLES
    recording,
    replaced,        \* the indexed file has another content now
    window,          \* MappingReplayWindow
    clock,           \* PlaybackClock
    requests,        \* the worker's queues
    results,
    cancelled,       \* _cancellation
    worker,          \* the thread of ReplayFrameWorker
    source           \* MappingMcapReplaySource

replayVars == <<recording, replaced, window, clock, requests, results, cancelled, worker, source>>

-----------------------------------------------------------------------------
(* The index: what _load_mapping_session accepts. *)
Strict(msgs) ==
    \A i \in 1..(Len(msgs) - 1) : msgs[i].seq < msgs[i + 1].seq /\ msgs[i].time < msgs[i + 1].time
Times(msgs) == {msgs[i].time : i \in 1..Len(msgs)}

Indexed(rec) ==
    /\ rec.valid
    /\ \A t \in V2Topics : rec.msgs[t] # <<>> /\ Strict(rec.msgs[t])
    /\ Times(rec.msgs["rtk"]) = Times(rec.msgs["imu"])
    /\ Times(rec.msgs["lidar"]) \subseteq Times(rec.msgs["rtk"])

(* PlaybackClock refuses a recording with a frame missing. *)
Gapless(rec) ==
    LET lidar == rec.msgs["lidar"]
    IN  \A i \in 1..(Len(lidar) - 1) : lidar[i + 1].time - lidar[i].time = 1

FrameCount == Len(recording.msgs["lidar"])
LastFrame == FrameCount - 1

(* A frame is deskewed between its own pose and the next; without the next *)
(* it is shown raw and adds nothing to the map.                            *)
Mapped(k) == recording.msgs["lidar"][k + 1].time + 1 \in Times(recording.msgs["rtk"])
Hits(k, layer) == {v \in Voxels : layer \in recording.hits[k + 1][v]}

-----------------------------------------------------------------------------
(* WorldMapAccumulator: for a voxel, the frame whose point it holds or -1. *)
EmptyMap == [v \in Voxels |-> -1]

AddFixed(map, k) == [v \in Voxels |-> IF map[v] = -1 /\ v \in Hits(k, "fixed") THEN k ELSE map[v]]
AddMoving(map, k) == [v \in Voxels |-> IF v \in Hits(k, "moving") THEN k ELSE map[v]]
Expired(map, k) == [v \in Voxels |-> IF map[v] # -1 /\ k - map[v] > Ttl THEN -1 ELSE map[v]]

(* add_frame *)
AddedFrame(s, k) ==
    LET fixed == AddFixed(s.fixed, k)
    IN  [s EXCEPT !.fixed = fixed,
                  !.moving = Expired(AddMoving(s.moving, k), k),
                  !.cache = IF fixed = s.fixed THEN @ ELSE NoCache]

(* snapshot: the moving layer ages, the fixed arrays are cached. *)
Snapshot(s, k) ==
    [s EXCEPT !.moving = Expired(@, k),
              !.cache = IF @ = NoCache THEN s.fixed ELSE @]

-----------------------------------------------------------------------------
(* PlaybackClock *)
NewClock == [frame |-> 0, desired |-> 0, paused |-> TRUE, gen |-> 0, rebuild |-> FALSE,
             inFlight |-> NoRequest]

RequestIfIdle(c) ==
    IF c.inFlight # NoRequest \/ c.desired = c.frame THEN c
    ELSE [c EXCEPT !.inFlight = [gen |-> c.gen, index |-> c.desired, rebuild |-> c.rebuild]]

Schedule(c, target, rebuild) ==
    RequestIfIdle([c EXCEPT !.gen = @ + 1, !.desired = target, !.rebuild = rebuild])

BeginNextFrame(c) ==
    IF c.paused \/ c.inFlight # NoRequest THEN c
    ELSE IF c.frame >= LastFrame THEN [c EXCEPT !.paused = TRUE]
    ELSE Schedule(c, c.frame + 1, FALSE)

Accepts(c, request) == request.gen = c.gen /\ request.index = c.desired
Completed(c, request) ==
    LET free == [c EXCEPT !.inFlight = NoRequest]
    IN  IF ~Accepts(c, request) THEN free
        ELSE [free EXCEPT !.frame = request.index, !.rebuild = FALSE,
                          !.paused = @ \/ request.index = LastFrame]

-----------------------------------------------------------------------------
(* The window; every slot runs to its end on the Qt thread. *)
Initial == [gen |-> 0, index |-> 0, rebuild |-> TRUE]

NewSource == [stream |-> "none", index |-> -1, fixed |-> EmptyMap, moving |-> EmptyMap,
              cache |-> NoCache, track |-> 0, mapped |-> FALSE]

ReplayInit ==
    /\ recording \in Recordings
    /\ replaced = FALSE
    /\ window = [pc |-> "load", initial |-> TRUE, shown |-> NoFrame, due |-> "now", error |-> "none",
                 refused |-> FALSE]
    /\ clock = NewClock
    /\ requests = <<>> /\ results = <<>> /\ cancelled = FALSE
    /\ worker = [pc |-> "none", req |-> NoRequest, res |-> NoFrame, error |-> "none"]
    /\ source = NewSource

(* _open_mapping_replay: index, clock, worker thread, first request. *)
OpenReplay ==
    /\ window.pc = "load"
    /\ IF Indexed(recording) /\ Gapless(recording)
       THEN /\ window' = [window EXCEPT !.pc = "open"]
            /\ worker' = [worker EXCEPT !.pc = "get"]
            /\ requests' = <<Initial>>
       ELSE /\ window' = [window EXCEPT !.pc = "refused"]
            /\ UNCHANGED <<worker, requests>>
    /\ UNCHANGED <<recording, replaced, clock, results, cancelled, source>>

(* The clock becomes c; a request it has begun goes to the queue, and the  *)
(* caller does not look whether the queue had room.                        *)
Asks(c) == c.inFlight # clock.inFlight
Submitted(c) == Asks(c) /\ requests = <<>>
Ask(c) ==
    /\ clock' = c
    /\ requests' = IF Submitted(c) THEN <<c.inFlight>> ELSE requests

Refusing(c) == window.refused \/ (Asks(c) /\ requests # <<>>)

ReplayUser == window.pc = "open" /\ clock.gen < MaxAsks
QtKeeps == UNCHANGED <<recording, replaced, results, cancelled, worker, source>>

(* Step target: clamped to the recording. *)
StepTarget(d) == IF clock.frame + d < 0 THEN 0
                 ELSE IF clock.frame + d > LastFrame THEN LastFrame ELSE clock.frame + d

StepFrame(d) ==
    /\ ReplayUser
    /\ LET target == StepTarget(d)
           c == Schedule([clock EXCEPT !.paused = TRUE], target, target < clock.frame)
       IN  /\ Ask(c)
           /\ window' = [window EXCEPT !.refused = Refusing(c)]
    /\ QtKeeps

SeekFrame(k) ==
    /\ ReplayUser
    /\ LET c == Schedule([clock EXCEPT !.paused = TRUE], k, TRUE)
       IN  /\ Ask(c)
           /\ window' = [window EXCEPT !.refused = Refusing(c)]
    /\ QtKeeps

(* _advance_playback with the clock c. *)
Advanced(c) ==
    LET next == BeginNextFrame(c)
    IN  /\ Ask(next)
        /\ window' = [window EXCEPT !.due = IF Submitted(next) THEN "never" ELSE "now",
                                    !.refused = Refusing(next)]

TogglePlayback ==
    /\ ReplayUser
    /\ IF clock.paused THEN Advanced([clock EXCEPT !.paused = FALSE])
       ELSE /\ clock' = [clock EXCEPT !.paused = TRUE]
            /\ UNCHANGED <<window, requests>>
    /\ QtKeeps

AdvancePlayback ==
    /\ ReplayUser
    /\ ~clock.paused /\ window.due = "now"
    /\ Advanced(clock)
    /\ QtKeeps

FrameIntervalEnds ==
    /\ window.pc = "open" /\ window.due = "later"
    /\ window' = [window EXCEPT !.due = "now"]
    /\ QtKeeps /\ UNCHANGED <<clock, requests>>

(* _poll_worker: an error stops the playback and stays on the screen.      *)
PollError ==
    /\ window.pc = "open" /\ results # <<>> /\ Head(results).error # "none"
    /\ results' = Tail(results)
    /\ clock' = [clock EXCEPT !.paused = TRUE]
    /\ window' = [window EXCEPT !.error = Head(results).error]
    /\ UNCHANGED <<recording, replaced, requests, cancelled, worker, source>>

(* A frame: the first one is shown as it comes, another one if the clock   *)
(* accepts it; then the latest wish that has waited is begun.              *)
PollFrame ==
    /\ window.pc = "open" /\ results # <<>> /\ Head(results).error = "none"
    /\ results' = Tail(results)
    /\ LET result == Head(results)
           first == window.initial /\ result.req = Initial
           after == IF first THEN clock ELSE Completed(clock, result.req)
           shows == first \/ Accepts(clock, result.req)
           c == RequestIfIdle(after)
       IN  IF ~first /\ result.req # clock.inFlight
           THEN /\ window' = [window EXCEPT !.error = "mismatch"]
                /\ UNCHANGED <<clock, requests>>
           ELSE /\ clock' = c
                /\ requests' = IF c.inFlight # after.inFlight /\ requests = <<>>
                               THEN <<c.inFlight>> ELSE requests
                /\ window' = [window EXCEPT
                                !.initial = @ /\ ~first,
                                !.shown = IF shows THEN result.frame ELSE @,
                                !.due = IF shows /\ ~after.paused THEN "later" ELSE @,
                                !.refused = @ \/ (c.inFlight # after.inFlight /\ requests # <<>>)]
    /\ UNCHANGED <<recording, replaced, cancelled, worker, source>>

(* closeEvent: the timers stop, the worker is told and joined, and only    *)
(* then the source is closed.                                              *)
CloseWindow ==
    /\ window.pc = "open"
    /\ window' = [window EXCEPT !.pc = "closing"]
    /\ cancelled' = TRUE
    /\ UNCHANGED <<recording, replaced, clock, requests, results, worker, source>>

WorkerJoined ==
    /\ window.pc = "closing" /\ worker.pc = "ended"
    /\ window' = [window EXCEPT !.pc = "closed"]
    /\ source' = [source EXCEPT !.stream = "none"]
    /\ UNCHANGED <<recording, replaced, clock, requests, results, cancelled, worker>>

-----------------------------------------------------------------------------
(* The worker thread. *)
WorkerKeeps == UNCHANGED <<recording, replaced, window, clock, cancelled>>

(* Mutant: the map of the frames seen so far is kept. *)
RewoundMapKept(s) == [s EXCEPT !.stream = "new", !.index = -1]

(* _reset *)
Rewound(s) == [NewSource EXCEPT !.stream = "new"]

Fails(why) == [worker EXCEPT !.pc = "deliver", !.res = NoFrame, !.error = why]

(* A request is taken and render_frame decides how to reach its frame. *)
TakeRequest ==
    /\ worker.pc = "get" /\ requests # <<>>
    /\ requests' = <<>>
    /\ LET req == Head(requests)
           taken == [worker EXCEPT !.pc = "render", !.req = req]
           rewind == req.rebuild \/ source.stream = "none" \/ req.index <= source.index
       IN  /\ source' = IF rewind THEN Rewound(source) ELSE source
           /\ worker' = IF ~rewind /\ req.index # source.index + 1
                        THEN [Fails("jump") EXCEPT !.req = req] ELSE taken
    /\ WorkerKeeps /\ UNCHANGED results

(* _consume_next: the stream checks the file when it opens and when it has *)
(* given its last frame.                                                   *)
Consumed(k) ==
    LET fed == IF Mapped(k) THEN AddedFrame(source, k) ELSE source
    IN  [fed EXCEPT !.stream = IF k = LastFrame THEN "none" ELSE "open",
                    !.index = k, !.track = @ + 1, !.mapped = Mapped(k)]

(* The file is not the indexed one, or the stream has failed before. *)
StreamFails(k) ==
    \/ source.stream = "ended"
    \/ replaced /\ (source.stream = "new" \/ k = LastFrame)

ConsumeNext ==
    /\ worker.pc = "render" /\ source.index < worker.req.index
    /\ LET k == source.index + 1
       IN  \/ /\ cancelled
              /\ worker' = Fails("cancelled")
              /\ UNCHANGED source
           \/ /\ ~cancelled /\ StreamFails(k)
              /\ worker' = Fails("changed")
              /\ source' = [IF source.stream = "open" THEN Consumed(k) ELSE source
                              EXCEPT !.stream = "ended", !.index = source.index]
           \/ /\ ~cancelled /\ ~StreamFails(k)
              /\ source' = Consumed(k)
              /\ UNCHANGED worker
    /\ WorkerKeeps /\ UNCHANGED <<requests, results>>

(* The rendered frame: what the window will show. *)
Rendered(s) == [index |-> s.index, fixed |-> s.cache, moving |-> s.moving, track |-> s.track,
                mapped |-> s.mapped]

FinishRender ==
    /\ worker.pc = "render" /\ source.index >= worker.req.index
    /\ source' = Snapshot(source, source.index)
    /\ worker' = [worker EXCEPT !.pc = "deliver", !.res = Rendered(source'), !.error = "none"]
    /\ WorkerKeeps /\ UNCHANGED <<requests, results>>

(* _deliver: retried until there is room or the window closes. *)
Deliver ==
    /\ worker.pc = "deliver" /\ results = <<>>
    /\ results' = <<[req |-> worker.req, frame |-> worker.res, error |-> worker.error]>>
    /\ worker' = [worker EXCEPT !.pc = "get", !.req = NoRequest, !.res = NoFrame, !.error = "none"]
    /\ WorkerKeeps /\ UNCHANGED <<requests, source>>

WorkerEnds ==
    /\ worker.pc \in {"get", "deliver"} /\ cancelled
    /\ worker' = [worker EXCEPT !.pc = "ended"]
    /\ WorkerKeeps /\ UNCHANGED <<requests, results, source>>

ReplaceFile ==
    /\ ~replaced /\ window.pc = "open"
    /\ replaced' = TRUE
    /\ UNCHANGED <<recording, window, clock, requests, results, cancelled, worker, source>>

-----------------------------------------------------------------------------
ReplayWorker == TakeRequest \/ ConsumeNext \/ FinishRender \/ Deliver \/ WorkerEnds
ReplaySlots == PollError \/ PollFrame \/ WorkerJoined

ReplayNext ==
    \/ OpenReplay \/ TogglePlayback \/ AdvancePlayback \/ FrameIntervalEnds \/ CloseWindow
    \/ \E d \in {-1, 1} : StepFrame(d)
    \/ \E k \in 0..LastFrame : SeekFrame(k)
    \/ ReplaySlots \/ ReplayWorker \/ ReplaceFile

ReplaySpec == ReplayInit /\ [][ReplayNext]_replayVars

-----------------------------------------------------------------------------
(* Properties *)

Requests == [gen : Nat, index : 0..LastFrame, rebuild : BOOLEAN]
Maps == [Voxels -> {-1} \cup 0..LastFrame]
RenderedFrames == [index : 0..LastFrame, fixed : Maps, moving : Maps, track : Nat, mapped : BOOLEAN]

ReplayTypeOK ==
    /\ replaced \in BOOLEAN /\ cancelled \in BOOLEAN
    /\ window \in [pc : {"load", "refused", "open", "closing", "closed"}, initial : BOOLEAN,
                   shown : RenderedFrames \cup {NoFrame}, due : {"now", "later", "never"},
                   error : {"none", "cancelled", "changed", "jump"}, refused : BOOLEAN]
    /\ FrameCount > 0 =>
          clock \in [frame : 0..LastFrame, desired : 0..LastFrame, paused : BOOLEAN, gen : Nat,
                     rebuild : BOOLEAN, inFlight : Requests \cup {NoRequest}]
    /\ Len(requests) <= 1 /\ Len(results) <= 1

(* The clock's request is under way at most once, behind the first request *)
(* of the window if that is still under way; so complete() never meets a   *)
(* result that is not the one it waits for, which it would refuse with an  *)
(* error inside a Qt slot.                                                 *)
UnderWay ==
    (IF results # <<>> THEN <<Head(results).req>> ELSE <<>>)
      \o (IF worker.pc \in {"render", "deliver"} THEN <<worker.req>> ELSE <<>>)
      \o (IF requests # <<>> THEN <<Head(requests)>> ELSE <<>>)

RequestsAccounted ==
    window.pc = "open" =>
        \/ UnderWay = <<>>
        \/ UnderWay = <<Initial>> /\ window.initial
        \/ UnderWay = <<clock.inFlight>>
        \/ UnderWay = <<Initial, clock.inFlight>> /\ window.initial

(* The window shows the frame the clock is at; a frame that was asked for  *)
(* without rebuilding is the next one, so playing skips none; and the      *)
(* latest wish is granted once nothing is in flight.                       *)
ShownIsCurrent ==
    /\ window.shown # NoFrame => window.shown.index = clock.frame
    /\ LET r == clock.inFlight
       IN  r # NoRequest /\ r.gen = clock.gen /\ ~r.rebuild => r.index = clock.frame + 1
    /\ clock.inFlight = NoRequest => clock.desired = clock.frame

(* The map of frame k as a function of the recording alone: the first      *)
(* frame up to k that has a fixed point in the voxel, and the last one     *)
(* that has a moving point there if it is young enough.                    *)
Seen(v, layer, k) == {j \in 0..k : Mapped(j) /\ v \in Hits(j, layer)}
FixedUpTo(map, k) ==
    \A v \in Voxels :
        \/ map[v] = -1 /\ Seen(v, "fixed", k) = {}
        \/ map[v] \in Seen(v, "fixed", k) /\ \A j \in Seen(v, "fixed", k) : map[v] <= j
MovingUpTo(map, k) ==
    \A v \in Voxels :
        \/ map[v] = -1 /\ \A j \in Seen(v, "moving", k) : k - j > Ttl
        \/ /\ map[v] \in Seen(v, "moving", k) /\ k - map[v] <= Ttl
           /\ \A j \in Seen(v, "moving", k) : j <= map[v]

(* Whatever was sought, stepped and played before, by way of stale         *)
(* requests and a cached layer, the map on the screen is that of its frame *)
(* and the track has one pose for every frame up to it.                    *)
ShownIsPrefix ==
    window.shown # NoFrame =>
        LET f == window.shown
        IN  /\ FixedUpTo(f.fixed, f.index)
            /\ MovingUpTo(f.moving, f.index)
            /\ f.track = f.index + 1
            /\ f.mapped = Mapped(f.index)

(* Only an indexed recording without gaps is replayed, every frame of it   *)
(* has its pose, and the source is closed under no render.                 *)
ReplayedIsIndexed ==
    /\ window.pc \in {"open", "closing", "closed"} => Indexed(recording) /\ Gapless(recording)
    /\ window.pc = "closed" => worker.pc = "ended"
    /\ window.error = "changed" => replaced

(* The replay as its user sees it. *)
ReplaySound ==
    ReplayTypeOK /\ RequestsAccounted /\ ShownIsCurrent /\ ShownIsPrefix /\ ReplayedIsIndexed

(* What was asked for last is shown at last, or an error is on the screen, *)
(* or the request met a full queue; a window that is closed gets rid of    *)
(* its worker.                                                             *)
ReplaySettles ==
    /\ clock.desired # clock.frame ~>
          clock.desired = clock.frame \/ window.error # "none" \/ window.refused \/ window.pc # "open"
    /\ window.pc = "closing" ~> window.pc = "closed"
=============================================================================
