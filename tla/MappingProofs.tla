--------------------------- MODULE MappingProofs ----------------------------
(***************************************************************************)
(* Proofs about the mapping: its replay, for recordings of any length, any *)
(* number of voxels, any life of moving points and any sequence of seeks,  *)
(* steps and plays; and the recorded session, for any route, any pose      *)
(* period, any speed and any number of things that go wrong.               *)
(*                                                                         *)
(* That the map on the screen is the map of its frame rests on what the    *)
(* source holds between two requests: the map of the frame it is at, with  *)
(* moving points that are not yet aged there, or a stream that has failed  *)
(* and gives no frame until it is rewound.  That the clock meets no result *)
(* it does not wait for rests on where the window's first request and the  *)
(* clock's request can be at the same time.  That simulator and command    *)
(* peer never wait for each other rests on a count of what is under way on *)
(* each topic, which holds until something goes wrong from outside.        *)
(***************************************************************************)
EXTENDS MappingReplay, GolfMapping, SequenceTheorems, TLAPS

(* The moving layer before it is aged: a voxel shows the last frame that   *)
(* has a moving point in it, unless that point is already too old.         *)
MovingBefore(map, k) ==
    \A v \in Voxels :
        \/ map[v] = -1 /\ \A j \in Seen(v, "moving", k) : k - j > Ttl
        \/ /\ map[v] \in Seen(v, "moving", k)
           /\ \A j \in Seen(v, "moving", k) : j <= map[v]

SourceShape(s) ==
    s = [stream |-> s.stream, index |-> s.index, fixed |-> s.fixed, moving |-> s.moving,
         cache |-> s.cache, track |-> s.track, mapped |-> s.mapped]

(* The source has the map of the frame it is at. *)
MapOf(s) ==
    /\ s.fixed \in Maps /\ s.moving \in Maps
    /\ FixedUpTo(s.fixed, s.index) /\ MovingBefore(s.moving, s.index)
    /\ s.cache = NoCache \/ s.cache = s.fixed
    /\ s.track = s.index + 1
    /\ s.index >= 0 => s.mapped = Mapped(s.index)

(* A frame that may be shown for the request. *)
FrameOf(f, k) ==
    /\ f \in RenderedFrames /\ f.index = k
    /\ FixedUpTo(f.fixed, k) /\ MovingUpTo(f.moving, k)
    /\ f.track = k + 1 /\ f.mapped = Mapped(k)

-----------------------------------------------------------------------------
(* The map of a frame from that of the frame before. *)
LEMMA SeenNext ==
  ASSUME NEW v, NEW layer, NEW k \in Nat
  PROVE  Seen(v, layer, k) = Seen(v, layer, k - 1)
                               \cup (IF Mapped(k) /\ v \in Hits(k, layer) THEN {k} ELSE {})
  <1>1. 0..k = 0..(k - 1) \cup {k}
    OBVIOUS
  <1> QED BY <1>1 DEF Seen

LEMMA SeenBelow ==
  ASSUME NEW v, NEW layer, NEW k \in Int, NEW j \in Seen(v, layer, k)
  PROVE  j \in Nat /\ j <= k
  BY DEF Seen

LEMMA FixedNext ==
  ASSUME NEW map \in Maps, NEW k \in 0..LastFrame, LastFrame \in Nat, FixedUpTo(map, k - 1)
  PROVE  /\ ~Mapped(k) => FixedUpTo(map, k)
         /\ Mapped(k) => AddFixed(map, k) \in Maps /\ FixedUpTo(AddFixed(map, k), k)
  <1>1. \A v \in Voxels : map[v] \in {-1} \cup 0..LastFrame
    BY DEF Maps
  <1>2. ASSUME ~Mapped(k) PROVE FixedUpTo(map, k)
    BY <1>2, SeenNext DEF FixedUpTo
  <1>3. ASSUME Mapped(k) PROVE AddFixed(map, k) \in Maps
    BY <1>1 DEF AddFixed, Maps
  <1>4. ASSUME Mapped(k) PROVE FixedUpTo(AddFixed(map, k), k)
    <2> SUFFICES ASSUME NEW v \in Voxels
                 PROVE  LET m == AddFixed(map, k)
                        IN  \/ m[v] = -1 /\ Seen(v, "fixed", k) = {}
                            \/ m[v] \in Seen(v, "fixed", k) /\ \A j \in Seen(v, "fixed", k) : m[v] <= j
      BY DEF FixedUpTo
    <2>1. AddFixed(map, k)[v] = IF map[v] = -1 /\ v \in Hits(k, "fixed") THEN k ELSE map[v]
      BY DEF AddFixed
    <2>2. Seen(v, "fixed", k) = Seen(v, "fixed", k - 1)
                                  \cup (IF v \in Hits(k, "fixed") THEN {k} ELSE {})
      BY <1>4, SeenNext
    <2>3. \/ map[v] = -1 /\ Seen(v, "fixed", k - 1) = {}
          \/ map[v] \in Seen(v, "fixed", k - 1) /\ \A j \in Seen(v, "fixed", k - 1) : map[v] <= j
      BY DEF FixedUpTo
    <2>4. \A j \in Seen(v, "fixed", k - 1) : j \in Nat /\ j <= k - 1
      BY SeenBelow
    <2>5. CASE map[v] = -1 /\ v \in Hits(k, "fixed")
      BY <2>1, <2>2, <2>3, <2>4, <2>5
    <2>6. CASE ~(map[v] = -1 /\ v \in Hits(k, "fixed"))
      BY <2>1, <2>2, <2>3, <2>4, <2>6
    <2> QED BY <2>5, <2>6
  <1> QED BY <1>2, <1>3, <1>4

LEMMA MovingAged ==
  ASSUME NEW map \in Maps, NEW k \in 0..LastFrame, LastFrame \in Nat, MovingBefore(map, k)
  PROVE  Expired(map, k) \in Maps /\ MovingUpTo(Expired(map, k), k) /\ MovingBefore(Expired(map, k), k)
  <1>1. \A v \in Voxels : map[v] \in {-1} \cup 0..LastFrame
    BY DEF Maps
  <1>2. Expired(map, k) \in Maps
    BY <1>1 DEF Expired, Maps
  <1>3. ASSUME NEW v \in Voxels
        PROVE  LET m == Expired(map, k)
               IN  \/ m[v] = -1 /\ \A j \in Seen(v, "moving", k) : k - j > Ttl
                   \/ /\ m[v] \in Seen(v, "moving", k) /\ k - m[v] <= Ttl
                      /\ \A j \in Seen(v, "moving", k) : j <= m[v]
    <2>1. Expired(map, k)[v] = IF map[v] # -1 /\ k - map[v] > Ttl THEN -1 ELSE map[v]
      BY DEF Expired
    <2>2. \/ map[v] = -1 /\ \A j \in Seen(v, "moving", k) : k - j > Ttl
          \/ map[v] \in Seen(v, "moving", k) /\ \A j \in Seen(v, "moving", k) : j <= map[v]
      BY DEF MovingBefore
    <2>3. \A j \in Seen(v, "moving", k) : j \in Nat /\ j <= k
      BY SeenBelow
    <2> QED BY <1>1, <2>1, <2>2, <2>3, ReplayBounds
  <1>4. MovingUpTo(Expired(map, k), k)
    BY <1>3 DEF MovingUpTo
  <1>5. MovingBefore(Expired(map, k), k)
    BY <1>3 DEF MovingBefore
  <1> QED BY <1>2, <1>4, <1>5

LEMMA MovingNext ==
  ASSUME NEW map \in Maps, NEW k \in 0..LastFrame, LastFrame \in Nat, MovingBefore(map, k - 1)
  PROVE  /\ ~Mapped(k) => MovingBefore(map, k)
         /\ Mapped(k) => AddMoving(map, k) \in Maps /\ MovingBefore(AddMoving(map, k), k)
  <1>1. \A v \in Voxels : map[v] \in {-1} \cup 0..LastFrame
    BY DEF Maps
  <1>2. \A v \in Voxels :
          \/ map[v] = -1 /\ \A j \in Seen(v, "moving", k - 1) : (k - 1) - j > Ttl
          \/ map[v] \in Seen(v, "moving", k - 1) /\ \A j \in Seen(v, "moving", k - 1) : j <= map[v]
    BY DEF MovingBefore
  <1>3. \A v \in Voxels : \A j \in Seen(v, "moving", k - 1) : j \in Nat /\ j <= k - 1
    BY SeenBelow
  <1>4. ASSUME ~Mapped(k) PROVE MovingBefore(map, k)
    <2>1. ASSUME NEW v \in Voxels PROVE Seen(v, "moving", k) = Seen(v, "moving", k - 1)
      <3>1. Seen(v, "moving", k) = Seen(v, "moving", k - 1)
                \cup (IF Mapped(k) /\ v \in Hits(k, "moving") THEN {k} ELSE {})
        BY SeenNext
      <3>2. Seen(v, "moving", k) = Seen(v, "moving", k - 1) \cup {}
        BY <1>4, <3>1, Zenon
      <3> QED BY <3>2
    <2>2. ASSUME NEW v \in Voxels
          PROVE  \/ map[v] = -1 /\ \A j \in Seen(v, "moving", k) : k - j > Ttl
                 \/ map[v] \in Seen(v, "moving", k) /\ \A j \in Seen(v, "moving", k) : j <= map[v]
      <3>1. \A j \in Seen(v, "moving", k - 1) : (k - 1) - j > Ttl => k - j > Ttl
        BY <1>3, ReplayBounds
      <3> QED BY <1>2, <2>1, <3>1
    <2> QED BY <2>2 DEF MovingBefore
  <1>5. ASSUME Mapped(k) PROVE AddMoving(map, k) \in Maps
    BY <1>1 DEF AddMoving, Maps
  <1>6. ASSUME Mapped(k) PROVE MovingBefore(AddMoving(map, k), k)
    <2> SUFFICES ASSUME NEW v \in Voxels
                 PROVE  LET m == AddMoving(map, k)
                        IN  \/ m[v] = -1 /\ \A j \in Seen(v, "moving", k) : k - j > Ttl
                            \/ m[v] \in Seen(v, "moving", k) /\ \A j \in Seen(v, "moving", k) : j <= m[v]
      BY DEF MovingBefore
    <2>1. AddMoving(map, k)[v] = IF v \in Hits(k, "moving") THEN k ELSE map[v]
      BY DEF AddMoving
    <2>2. Seen(v, "moving", k) = Seen(v, "moving", k - 1)
                                   \cup (IF v \in Hits(k, "moving") THEN {k} ELSE {})
      BY <1>6, SeenNext
    <2>3. CASE v \in Hits(k, "moving")
      BY <1>3, <2>1, <2>2, <2>3
    <2>4. CASE v \notin Hits(k, "moving")
      BY <1>1, <1>2, <1>3, <2>1, <2>2, <2>4, ReplayBounds
    <2> QED BY <2>3, <2>4
  <1> QED BY <1>4, <1>5, <1>6

-----------------------------------------------------------------------------
(* The invariant. *)
Windows == [pc : {"load", "refused", "open", "closing", "closed"}, initial : BOOLEAN,
            shown : RenderedFrames \cup {NoFrame}, due : {"now", "later", "never"},
            error : {"none", "cancelled", "changed", "jump"}, refused : BOOLEAN]

WorkerShape(w) == w = [pc |-> w.pc, req |-> w.req, res |-> w.res, error |-> w.error]

ReplayTypes ==
    /\ recording \in Recordings /\ replaced \in BOOLEAN /\ cancelled \in BOOLEAN
    /\ window \in Windows /\ WorkerShape(worker)

ClockRecords ==
    [frame : 0..LastFrame, desired : 0..LastFrame, paused : BOOLEAN, gen : Nat,
     rebuild : BOOLEAN, inFlight : Requests \cup {NoRequest}]

(* What is wished and not at hand is in flight or waits behind an older    *)
(* request; only the next frame is reached without rebuilding.             *)
ClockStands(c) ==
    /\ c \in ClockRecords
    /\ c.gen = 0 => c.desired = c.frame
    /\ c.inFlight # NoRequest => c.inFlight.gen \in 1..c.gen
    /\ ~c.rebuild => c.desired \in {c.frame, c.frame + 1}
    /\ LET r == c.inFlight
       IN  r # NoRequest /\ r.gen = c.gen /\ ~r.rebuild => r.index = c.frame + 1
    /\ c.inFlight = NoRequest => c.desired = c.frame

(* The window shows a frame of the recording, the one its clock is at. *)
ShownStands ==
    /\ window.shown # NoFrame => FrameOf(window.shown, clock.frame)
    /\ window.error = "changed" => replaced

(* A request that may be under way, in one of the two queues or in hand. *)
Expected(req) ==
    /\ req \in Requests
    /\ \/ req = Initial /\ window.initial /\ clock.frame = 0
       \/ req = clock.inFlight /\ req # Initial

Busy == worker.pc \in {"render", "deliver"}

(* Two requests under way are the window's first and, behind it, the       *)
(* clock's.                                                                *)
Queued ==
    /\ requests = <<>> \/ \E req : requests = <<req>> /\ Expected(req)
    /\ results = <<>> \/ \E res : results = <<res>> /\ Expected(res.req)
    /\ Busy => Expected(worker.req)
    /\ Busy /\ requests # <<>> => worker.req = Initial /\ Head(requests) = clock.inFlight
    /\ Busy /\ results # <<>> => Head(results).req = Initial /\ worker.req = clock.inFlight
    /\ requests # <<>> /\ results # <<>> =>
           Head(results).req = Initial /\ Head(requests) = clock.inFlight

Errors == {"none", "cancelled", "changed", "jump"}

(* A result is the frame of its request or an error. *)
ResultOf(req, frame, error) ==
    /\ error \in Errors
    /\ error = "changed" => replaced
    /\ error = "none" => FrameOf(frame, req.index)

SourceStands ==
    /\ SourceShape(source)
    /\ source.stream \in {"none", "new", "open", "ended"}
    /\ source.index \in -1..LastFrame
    /\ source.stream = "ended" => replaced
    /\ source.stream # "ended" => MapOf(source)

WorkerStands ==
    /\ worker.pc \in {"get", "render", "deliver"}
    /\ worker.pc = "render" =>
          /\ source.index <= worker.req.index
          /\ source.stream = "ended" => source.index < worker.req.index
    /\ worker.pc = "deliver" => ResultOf(worker.req, worker.res, worker.error)
    /\ results # <<>> => LET r == Head(results) IN ResultOf(r.req, r.frame, r.error)

(* Before the recording is loaded, or when it was refused. *)
Untouched ==
    /\ clock = NewClock /\ window.shown = NoFrame /\ window.error = "none" /\ window.initial
    /\ requests = <<>> /\ results = <<>> /\ ~cancelled
    /\ worker.pc = "none" /\ source = NewSource

Opened ==
    /\ ~cancelled /\ Indexed(recording) /\ Gapless(recording)
    /\ ClockStands(clock) /\ ShownStands
    /\ Queued /\ SourceStands /\ WorkerStands

(* Nobody reads the results any more; what is shown stays. *)
Leaving ==
    /\ Indexed(recording) /\ Gapless(recording)
    /\ ClockStands(clock) /\ ShownStands
    /\ Len(requests) <= 1 /\ Len(results) <= 1
    /\ window.pc = "closed" => worker.pc = "ended"

ReplayInv ==
    /\ ReplayTypes
    /\ window.pc \in {"load", "refused"} => Untouched
    /\ window.pc = "open" => Opened
    /\ window.pc \in {"closing", "closed"} => Leaving

-----------------------------------------------------------------------------
LEMMA OneElement ==
  ASSUME NEW x
  PROVE  <<x>> # <<>> /\ Head(<<x>>) = x /\ Tail(<<x>>) = <<>> /\ Len(<<x>>) = 1
  OBVIOUS

LEMMA NoElement == Len(<<>>) = 0
  OBVIOUS

LEMMA TwoElements ==
  ASSUME NEW x, NEW y
  PROVE  <<x>> \o <<y>> = <<x, y>> /\ <<x, y>> \o <<>> = <<x, y>>
  <1> DEFINE S == {x, y}
  <1>1. <<x>> \in Seq(S) /\ <<y>> \in Seq(S) /\ <<x, y>> \in Seq(S)
    OBVIOUS
  <1>2. /\ <<x>> \o <<y>> \in Seq(S) /\ Len(<<x>> \o <<y>>) = 2
        /\ (<<x>> \o <<y>>)[1] = x /\ (<<x>> \o <<y>>)[2] = y
    BY <1>1, ConcatProperties
  <1>3. <<x>> \o <<y>> = <<x, y>>
    <2> DEFINE s == <<x>> \o <<y>>
               t == <<x, y>>
    <2>1. /\ t \in Seq(S) /\ s \in Seq(S) /\ Len(s) = 2 /\ Len(t) = 2
          /\ s[1] = x /\ s[2] = y /\ t[1] = x /\ t[2] = y
      BY <1>1, <1>2
    <2> HIDE DEF s, t, S
    <2>2. \A i \in 1..Len(s) : s[i] = t[i]
      BY <2>1
    <2>3. s = t
      BY <2>1, <2>2, SeqEqual
    <2> QED BY <2>3 DEF s, t
  <1> QED BY <1>1, <1>3, ConcatEmptySeq

LEMMA FramesAre ==
  ASSUME recording \in Recordings, Indexed(recording)
  PROVE  FrameCount \in Nat \ {0} /\ LastFrame \in Nat
  <1>1. recording.msgs["lidar"] \in Seq([seq : Int, time : Int]) /\ recording.msgs["lidar"] # <<>>
    BY RecordingsAssumption DEF Indexed, V2Topics
  <1>2. Len(recording.msgs["lidar"]) \in Nat /\ Len(recording.msgs["lidar"]) # 0
    BY <1>1, LenProperties, EmptySeq
  <1> QED BY <1>2 DEF FrameCount, LastFrame

LEMMA RequestIs ==
  ASSUME NEW req \in Requests, LastFrame \in Nat
  PROVE  /\ req # NoRequest /\ req = [gen |-> req.gen, index |-> req.index, rebuild |-> req.rebuild]
         /\ req.gen \in Nat /\ req.index \in 0..LastFrame /\ req.rebuild \in BOOLEAN
  BY ReplayBounds DEF Requests

LEMMA InitialIs == Initial # NoRequest /\ Initial.gen = 0 /\ Initial.index = 0 /\ Initial.rebuild
  <1> DEFINE t == TRUE
  <1>1. t \in BOOLEAN
    OBVIOUS
  <1>2. Initial = [gen |-> 0, index |-> 0, rebuild |-> t]
    BY DEF Initial
  <1> HIDE DEF t
  <1>3. Initial \in [gen : Nat, index : Nat, rebuild : BOOLEAN]
    BY <1>1, <1>2
  <1> QED BY <1>2, <1>3, ReplayBounds DEF t

LEMMA StreamIs ==
  ASSUME NEW a, NEW b, NEW c, NEW d, NEW e, NEW f, NEW g, NEW st
  PROVE  [[stream |-> a, index |-> b, fixed |-> c, moving |-> d, cache |-> e, track |-> f,
           mapped |-> g] EXCEPT !.stream = st]
         = [stream |-> st, index |-> b, fixed |-> c, moving |-> d, cache |-> e, track |-> f,
            mapped |-> g]
  OBVIOUS

LEMMA EmptySource ==
  ASSUME LastFrame \in Nat
  PROVE  /\ SourceShape(NewSource) /\ MapOf(NewSource) /\ NewSource.index = -1
         /\ NewSource.stream = "none"
         /\ SourceShape(Rewound(source)) /\ MapOf(Rewound(source)) /\ Rewound(source).index = -1
         /\ Rewound(source).stream = "new"
  <1>1. EmptyMap \in Maps
    BY DEF EmptyMap, Maps
  <1>2. \A v, layer : Seen(v, layer, -1) = {}
    BY DEF Seen
  <1>3. FixedUpTo(EmptyMap, -1) /\ MovingBefore(EmptyMap, -1)
    BY <1>2 DEF FixedUpTo, MovingBefore, EmptyMap
  <1>4. Rewound(source) = [stream |-> "new", index |-> -1, fixed |-> EmptyMap, moving |-> EmptyMap,
                           cache |-> NoCache, track |-> 0, mapped |-> FALSE]
    <2> DEFINE minus == -1  no == FALSE  zero == 0  none == "none"  new == "new"
    <2> HIDE DEF minus, no, zero, none, new
    <2>1. [[stream |-> none, index |-> minus, fixed |-> EmptyMap, moving |-> EmptyMap,
            cache |-> NoCache, track |-> zero, mapped |-> no] EXCEPT !.stream = new]
          = [stream |-> new, index |-> minus, fixed |-> EmptyMap, moving |-> EmptyMap,
             cache |-> NoCache, track |-> zero, mapped |-> no]
      BY StreamIs
    <2> QED BY <2>1, Zenon DEF Rewound, NewSource, minus, no, zero, none, new
  <1>5. ASSUME NEW st
        PROVE  LET s == [stream |-> st, index |-> -1, fixed |-> EmptyMap, moving |-> EmptyMap,
                         cache |-> NoCache, track |-> 0, mapped |-> FALSE]
               IN  SourceShape(s) /\ MapOf(s) /\ s.index = -1 /\ s.stream = st
    BY <1>1, <1>3 DEF SourceShape, MapOf
  <1> QED BY <1>4, <1>5 DEF NewSource

LEMMA ReplayStarts == ReplayInit => ReplayInv
  <1> SUFFICES ASSUME ReplayInit PROVE ReplayInv
    OBVIOUS
  <1>1. /\ window.pc = "load" /\ window.shown = NoFrame /\ window.error = "none" /\ window.initial
        /\ worker.pc = "none" /\ ~cancelled
        /\ clock = NewClock /\ requests = <<>> /\ results = <<>> /\ source = NewSource
    BY Zenon DEF ReplayInit
  <1>2. window \in Windows
    BY DEF ReplayInit, Windows
  <1>3. WorkerShape(worker)
    BY Zenon DEF ReplayInit, WorkerShape
  <1>4. recording \in Recordings /\ replaced \in BOOLEAN /\ cancelled \in BOOLEAN
    BY DEF ReplayInit
  <1> QED BY <1>1, <1>2, <1>3, <1>4 DEF ReplayInv, ReplayTypes, Untouched

-----------------------------------------------------------------------------
(* The clock. *)
ClockShape(c) ==
    c = [frame |-> c.frame, desired |-> c.desired, paused |-> c.paused, gen |-> c.gen,
         rebuild |-> c.rebuild, inFlight |-> c.inFlight]

(* Nothing new is in flight, or a request where there was none. *)
Begins(c, d) ==
    \/ d.inFlight = c.inFlight
    \/ c.inFlight = NoRequest /\ d.inFlight \in Requests /\ d.inFlight.gen > 0

LEMMA ClockIs ==
  ASSUME NEW c \in ClockRecords
  PROVE  /\ ClockShape(c)
         /\ c.frame \in 0..LastFrame /\ c.desired \in 0..LastFrame /\ c.paused \in BOOLEAN
         /\ c.gen \in Nat /\ c.rebuild \in BOOLEAN /\ c.inFlight \in Requests \cup {NoRequest}
  BY DEF ClockRecords, ClockShape

LEMMA PausedStands ==
  ASSUME NEW c, ClockStands(c), NEW p \in BOOLEAN
  PROVE  LET d == [c EXCEPT !.paused = p]
         IN  /\ ClockStands(d) /\ d.frame = c.frame /\ d.inFlight = c.inFlight
             /\ d.desired = c.desired /\ d.gen = c.gen /\ d.rebuild = c.rebuild /\ d.paused = p
  <1> DEFINE d == [c EXCEPT !.paused = p]
  <1>1. c \in ClockRecords
    BY DEF ClockStands
  <1>2. /\ d.frame = c.frame /\ d.inFlight = c.inFlight /\ d.desired = c.desired /\ d.gen = c.gen
        /\ d.rebuild = c.rebuild /\ d.paused = p /\ d \in ClockRecords
    BY <1>1 DEF ClockRecords
  <1> HIDE DEF d
  <1>3. ClockStands(d)
    BY <1>2 DEF ClockStands
  <1> QED BY <1>2, <1>3 DEF d

LEMMA IdleRequests ==
  ASSUME LastFrame \in Nat, NEW c \in ClockRecords,
         c.gen = 0 => c.desired = c.frame,
         c.inFlight # NoRequest => c.inFlight.gen \in 1..c.gen,
         ~c.rebuild => c.desired \in {c.frame, c.frame + 1},
         c.inFlight # NoRequest /\ c.inFlight.gen = c.gen /\ ~c.inFlight.rebuild
            => c.inFlight.index = c.frame + 1
  PROVE  LET d == RequestIfIdle(c)
         IN  /\ ClockStands(d) /\ Begins(c, d) /\ d.frame = c.frame /\ d.paused = c.paused
             /\ d.desired = c.desired /\ d.gen = c.gen
  <1>1. CASE c.inFlight # NoRequest \/ c.desired = c.frame
    BY <1>1 DEF RequestIfIdle, ClockStands, Begins
  <1>2. CASE c.inFlight = NoRequest /\ c.desired # c.frame
    <2> DEFINE q == [gen |-> c.gen, index |-> c.desired, rebuild |-> c.rebuild]
               d == [c EXCEPT !.inFlight = q]
    <2>1. RequestIfIdle(c) = d
      BY <1>2 DEF RequestIfIdle
    <2>2. c.gen \in Nat /\ c.gen > 0 /\ c.desired \in 0..LastFrame /\ c.rebuild \in BOOLEAN /\ c.frame \in 0..LastFrame
      BY <1>2, ClockIs
    <2>3. q \in Requests /\ q.gen = c.gen /\ q.index = c.desired /\ q.rebuild = c.rebuild
      BY <2>2 DEF Requests
    <2>4. q # NoRequest
      BY <2>3, RequestIs
    <2> HIDE DEF q
    <2>5. /\ d.frame = c.frame /\ d.inFlight = q /\ d.desired = c.desired /\ d.gen = c.gen
          /\ d.rebuild = c.rebuild /\ d.paused = c.paused /\ d \in ClockRecords
      BY <2>3 DEF ClockRecords
    <2> HIDE DEF d
    <2>6. ClockStands(d)
      BY <1>2, <2>2, <2>3, <2>4, <2>5 DEF ClockStands
    <2>7. Begins(c, d)
      BY <1>2, <2>2, <2>3, <2>5 DEF Begins
    <2> QED BY <2>1, <2>5, <2>6, <2>7
  <1> QED BY <1>1, <1>2

LEMMA ScheduleStands ==
  ASSUME LastFrame \in Nat, NEW c, ClockStands(c), NEW target \in 0..LastFrame, NEW rb \in BOOLEAN,
         ~rb => target \in {c.frame, c.frame + 1}
  PROVE  LET d == Schedule(c, target, rb)
         IN  ClockStands(d) /\ Begins(c, d) /\ d.frame = c.frame
  <1> DEFINE b == [c EXCEPT !.gen = @ + 1, !.desired = target, !.rebuild = rb]
  <1>1. c \in ClockRecords /\ c.gen \in Nat
    BY DEF ClockStands, ClockRecords
  <1> DEFINE g == c.gen + 1
             e == [c EXCEPT !.gen = g, !.desired = target, !.rebuild = rb]
  <1>2. b = e /\ g \in Nat
    BY <1>1
  <1> HIDE DEF b, g
  <1>3. /\ e.gen = g /\ e.desired = target /\ e.rebuild = rb /\ e.frame = c.frame
        /\ e.inFlight = c.inFlight /\ e \in ClockRecords
    BY <1>1, <1>2 DEF ClockRecords
  <1>4. /\ b.gen = c.gen + 1 /\ b.desired = target /\ b.rebuild = rb /\ b.frame = c.frame
        /\ b.inFlight = c.inFlight /\ b \in ClockRecords
    BY <1>2, <1>3 DEF g
  <1> HIDE DEF b
  <1>5. c.inFlight # NoRequest => c.inFlight.gen \in 1..c.gen
    BY DEF ClockStands
  <1>6. LET d == RequestIfIdle(b)
        IN  ClockStands(d) /\ Begins(b, d) /\ d.frame = b.frame
    BY <1>1, <1>4, <1>5, IdleRequests
  <1>7. Schedule(c, target, rb) = RequestIfIdle(b)
    BY DEF Schedule, b
  <1> QED BY <1>4, <1>6, <1>7 DEF Begins

LEMMA BeginNextStands ==
  ASSUME LastFrame \in Nat, NEW c, ClockStands(c)
  PROVE  LET d == BeginNextFrame(c)
         IN  ClockStands(d) /\ Begins(c, d) /\ d.frame = c.frame
  <1>1. c.frame \in 0..LastFrame
    BY ClockIs DEF ClockStands
  <1>2. CASE c.paused \/ c.inFlight # NoRequest
    BY <1>2 DEF BeginNextFrame, Begins
  <1>3. CASE ~(c.paused \/ c.inFlight # NoRequest) /\ c.frame >= LastFrame
    BY <1>3, PausedStands DEF BeginNextFrame, Begins
  <1>4. CASE ~(c.paused \/ c.inFlight # NoRequest) /\ ~(c.frame >= LastFrame)
    <2>1. BeginNextFrame(c) = Schedule(c, c.frame + 1, FALSE)
      BY <1>4 DEF BeginNextFrame
    <2>2. c.frame + 1 \in 0..LastFrame
      BY <1>1, <1>4
    <2> QED BY <2>1, <2>2, ScheduleStands
  <1> QED BY <1>2, <1>3, <1>4

(* A result of the clock's own request. *)
LEMMA CompletedStands ==
  ASSUME LastFrame \in Nat, ClockStands(clock), clock.inFlight # NoRequest
  PROVE  LET a == Completed(clock, clock.inFlight)
             d == RequestIfIdle(a)
         IN  /\ ClockStands(d) /\ a.inFlight = NoRequest
             /\ a.frame = d.frame
             /\ d.inFlight # a.inFlight => d.inFlight \in Requests /\ d.inFlight.gen > 0
             /\ IF Accepts(clock, clock.inFlight) THEN d.frame = clock.inFlight.index
                                                  ELSE d.frame = clock.frame
  <1> DEFINE r == clock.inFlight
             free == [clock EXCEPT !.inFlight = NoRequest]
             a == Completed(clock, r)
  <1>1. /\ clock \in ClockRecords /\ clock.gen \in Nat /\ clock.frame \in 0..LastFrame
        /\ r \in Requests /\ clock.desired \in 0..LastFrame
    BY ClockIs DEF ClockStands
  <1>2. r.index \in 0..LastFrame
    BY <1>1, RequestIs
  <1>3. /\ free.frame = clock.frame /\ free.inFlight = NoRequest /\ free.desired = clock.desired
        /\ free.gen = clock.gen /\ free.rebuild = clock.rebuild /\ free \in ClockRecords
    BY <1>1 DEF ClockRecords
  <1>4. CASE ~Accepts(clock, r)
    <2>1. a = free
      BY <1>4 DEF Completed
    <2> HIDE DEF free, a
    <2>2. LET d == RequestIfIdle(free)
          IN  ClockStands(d) /\ Begins(free, d) /\ d.frame = free.frame
      BY <1>3, IdleRequests DEF ClockStands
    <2> QED BY <1>3, <1>4, <2>1, <2>2 DEF Begins, a
  <1>5. CASE Accepts(clock, r)
    <2> DEFINE p == clock.paused \/ r.index = LastFrame
               b == [free EXCEPT !.frame = r.index, !.rebuild = FALSE, !.paused = p]
    <2>1. a = [free EXCEPT !.frame = r.index, !.rebuild = FALSE, !.paused = @ \/ r.index = LastFrame]
      BY <1>5 DEF Completed
    <2>2. free.paused = clock.paused
      BY <1>1 DEF ClockRecords
    <2>3. a = b
      BY <2>1, <2>2
    <2>4. p \in BOOLEAN
      BY <1>1 DEF ClockRecords
    <2> HIDE DEF p, free
    <2>5. /\ b.frame = r.index /\ b.inFlight = NoRequest /\ b.desired = clock.desired
          /\ b.gen = clock.gen /\ ~b.rebuild /\ b \in ClockRecords
      BY <1>2, <1>3, <2>4 DEF ClockRecords
    <2>6. clock.desired = r.index
      BY <1>5 DEF Accepts
    <2> HIDE DEF b, a
    <2>7. LET d == RequestIfIdle(b)
          IN  ClockStands(d) /\ Begins(b, d) /\ d.frame = b.frame
      BY <2>5, <2>6, <1>2, IdleRequests
    <2> QED BY <1>5, <2>3, <2>5, <2>7 DEF Begins, a
  <1> QED BY <1>4, <1>5

-----------------------------------------------------------------------------
(* What only depends on the recording stays. *)
LEMMA RecordingKept ==
  ASSUME recording' = recording
  PROVE  /\ LastFrame' = LastFrame /\ FrameCount' = FrameCount
         /\ Requests' = Requests /\ ClockRecords' = ClockRecords
         /\ RenderedFrames' = RenderedFrames
         /\ Indexed(recording)' <=> Indexed(recording)
         /\ Gapless(recording)' <=> Gapless(recording)
         /\ \A f, k : FrameOf(f, k)' <=> FrameOf(f, k)
         /\ \A s : MapOf(s)' <=> MapOf(s)
         /\ \A c : ClockStands(c)' <=> ClockStands(c)
  <1>1. FrameCount' = FrameCount /\ LastFrame' = LastFrame
    BY DEF FrameCount, LastFrame
  <1>2. Requests' = Requests /\ Maps' = Maps
    BY <1>1 DEF Requests, Maps
  <1>3. ClockRecords' = ClockRecords /\ RenderedFrames' = RenderedFrames
    BY <1>1, <1>2 DEF ClockRecords, RenderedFrames
  <1>4. Indexed(recording)' <=> Indexed(recording)
    BY DEF Indexed
  <1>5. Gapless(recording)' <=> Gapless(recording)
    BY DEF Gapless
  <1>6. \A k : Mapped(k)' <=> Mapped(k)
    BY DEF Mapped
  <1>7. \A k, layer : Hits(k, layer)' = Hits(k, layer)
    BY DEF Hits
  <1>8. \A v, layer, k : Seen(v, layer, k)' = Seen(v, layer, k)
    <2> SUFFICES ASSUME NEW v, NEW layer, NEW k
                 PROVE  {j \in 0..k : Mapped(j)' /\ v \in Hits(j, layer)'}
                        = {j \in 0..k : Mapped(j) /\ v \in Hits(j, layer)}
      BY DEF Seen
    <2> QED BY <1>6, <1>7
  <1>9. \A m, k : /\ FixedUpTo(m, k)' <=> FixedUpTo(m, k)
                  /\ MovingUpTo(m, k)' <=> MovingUpTo(m, k)
                  /\ MovingBefore(m, k)' <=> MovingBefore(m, k)
    BY <1>8 DEF FixedUpTo, MovingUpTo, MovingBefore
  <1>10. \A f, k : FrameOf(f, k)' <=> FrameOf(f, k)
    BY <1>3, <1>6, <1>9, Zenon DEF FrameOf
  <1>11. \A s : MapOf(s)' <=> MapOf(s)
    BY <1>2, <1>6, <1>9, Zenon DEF MapOf
  <1>12. \A c : ClockStands(c)' <=> ClockStands(c)
    BY <1>3, Zenon DEF ClockStands
  <1> QED BY <1>1, <1>2, <1>3, <1>4, <1>5, <1>10, <1>11, <1>12

LEMMA OpenedIs ==
  ASSUME ReplayInv, window.pc = "open"
  PROVE  Opened /\ ReplayTypes /\ LastFrame \in Nat
  BY FramesAre DEF ReplayInv, Opened, ReplayTypes

LEMMA QueueLengths ==
  ASSUME Queued
  PROVE  Len(requests) <= 1 /\ Len(results) <= 1
  <1>1. Len(requests) = 0 \/ Len(requests) = 1
    BY OneElement, NoElement DEF Queued
  <1>2. Len(results) = 0 \/ Len(results) = 1
    BY OneElement, NoElement DEF Queued
  <1> QED BY <1>1, <1>2

(* The clock has become c and has submitted what it began. *)
LEMMA AskKeeps ==
  ASSUME ReplayInv, window.pc = "open",
         NEW c, ClockStands(c), Begins(clock, c), c.frame = clock.frame, Ask(c), QtKeeps,
         window' \in Windows, window'.pc = "open", window'.initial = window.initial,
         window'.shown = window.shown, window'.error = window.error
  PROVE  ReplayInv'
  <1>1. Opened /\ ReplayTypes /\ LastFrame \in Nat
    BY OpenedIs
  <1>2. UNCHANGED <<recording, replaced, results, cancelled, worker, source>> /\ clock' = c
    BY DEF QtKeeps, Ask
  <1>3. window'.shown # NoFrame => FrameOf(window.shown, clock.frame)
    BY <1>1 DEF Opened, ShownStands
  <1>4. ShownStands' /\ ClockStands(clock)' /\ SourceStands' /\ WorkerStands'
    <2>1. ShownStands'
      BY <1>1, <1>2, <1>3, RecordingKept DEF Opened, ShownStands
    <2>2. ClockStands(clock)'
      BY <1>2, RecordingKept
    <2>3. SourceStands'
      BY <1>1, <1>2, RecordingKept DEF Opened, SourceStands
    <2>4. \A q, f, e : ResultOf(q, f, e)' <=> ResultOf(q, f, e)
      BY <1>2, RecordingKept DEF ResultOf
    <2>5. WorkerStands'
      BY <1>1, <1>2, <2>4 DEF Opened, WorkerStands
    <2> QED BY <2>1, <2>2, <2>3, <2>5
  <1>5. Queued'
    <2>1. CASE c.inFlight = clock.inFlight
      <3>1. requests' = requests
        BY <2>1 DEF Ask, Submitted, Asks
      <3>2. \A q : Expected(q)' <=> Expected(q)
        BY <1>2, <2>1, RecordingKept DEF Expected
      <3> QED BY <1>1, <1>2, <2>1, <3>1, <3>2 DEF Opened, Queued, Busy
    <2>2. CASE c.inFlight # clock.inFlight
      <3>1. clock.inFlight = NoRequest /\ c.inFlight \in Requests /\ c.inFlight.gen > 0
        BY <2>2 DEF Begins
      <3>2. c.inFlight # Initial
        BY <3>1 DEF Initial
      <3>3. \A q : Expected(q) => q = Initial
        BY <1>1, <3>1, RequestIs DEF Expected
      <3>4. \A q : Expected(q) => Expected(q)'
        <4> SUFFICES ASSUME NEW q, Expected(q) PROVE Expected(q)'
          OBVIOUS
        <4>1. q = Initial /\ q \in Requests /\ window.initial /\ clock.frame = 0
          BY <1>1, <3>1, RequestIs DEF Expected
        <4> QED BY <1>2, <4>1, RecordingKept DEF Expected
      <3>5. Expected(c.inFlight)'
        BY <1>2, <3>1, <3>2, RecordingKept DEF Expected
      <3>6. Initial # NoRequest
        BY InitialIs
      <3>7. CASE requests = <<>>
        <4>1. requests' = <<c.inFlight>>
          BY <2>2, <3>7 DEF Ask, Submitted, Asks
        <4>2. requests' # <<>> /\ Head(requests') = c.inFlight
          BY <4>1, OneElement
        <4>3. ~(Busy /\ results # <<>>)
          BY <1>1, <3>1, <3>3, <3>6 DEF Opened, Queued
        <4>4. Busy' = Busy
          BY <1>2 DEF Busy
        <4>5. results # <<>> => Head(results).req = Initial
          BY <1>1, <3>3, OneElement DEF Opened, Queued
        <4>6. Busy => worker.req = Initial
          BY <1>1, <3>3 DEF Opened, Queued
        <4> QED BY <1>1, <1>2, <3>4, <3>5, <4>1, <4>2, <4>3, <4>4, <4>5, <4>6 DEF Opened, Queued
      <3>8. CASE requests # <<>>
        <4>1. requests' = requests
          BY <3>8 DEF Ask, Submitted
        <4>2. Head(requests) = Initial
          BY <1>1, <3>3, <3>8, OneElement DEF Opened, Queued
        <4>3. ~Busy /\ results = <<>>
          BY <1>1, <3>1, <3>6, <3>8, <4>2 DEF Opened, Queued
        <4> QED BY <1>1, <1>2, <3>4, <4>1, <4>3 DEF Opened, Queued, Busy
      <3> QED BY <3>7, <3>8
    <2> QED BY <2>1, <2>2
  <1>6. Opened' /\ ReplayTypes'
    <2>1. (window \in Windows)'
      BY <1>2, RecordingKept DEF Windows
    <2>2. Indexed(recording)' /\ Gapless(recording)'
      BY <1>1, <1>2, RecordingKept DEF Opened
    <2> QED BY <1>1, <1>2, <1>4, <1>5, <2>1, <2>2 DEF Opened, ReplayTypes, WorkerShape
  <1> QED BY <1>6 DEF ReplayInv

LEMMA WindowIs ==
  ASSUME window \in Windows
  PROVE  /\ window.initial \in BOOLEAN /\ window.refused \in BOOLEAN
         /\ window.due \in {"now", "later", "never"}
         /\ window.shown \in RenderedFrames \cup {NoFrame} /\ window.error \in Errors
         /\ \A x \in BOOLEAN : LET w == [window EXCEPT !.refused = x]
               IN  /\ w \in Windows /\ w.pc = window.pc /\ w.initial = window.initial
                   /\ w.shown = window.shown /\ w.error = window.error
         /\ \A d \in {"now", "later", "never"}, x \in BOOLEAN :
               LET w == [window EXCEPT !.due = d, !.refused = x]
               IN  /\ w \in Windows /\ w.pc = window.pc /\ w.initial = window.initial
                   /\ w.shown = window.shown /\ w.error = window.error
         /\ \A d \in {"now", "later", "never"} : LET w == [window EXCEPT !.due = d]
               IN  /\ w \in Windows /\ w.pc = window.pc /\ w.initial = window.initial
                   /\ w.shown = window.shown /\ w.error = window.error
  BY DEF Windows, Errors

LEMMA RefusingIs == ASSUME window \in Windows, NEW c PROVE Refusing(c) \in BOOLEAN
  BY WindowIs DEF Refusing

LEMMA StepFrameKeeps == ASSUME ReplayInv, NEW d \in {-1, 1}, StepFrame(d) PROVE ReplayInv'
  <1> DEFINE target == StepTarget(d)
             b == [clock EXCEPT !.paused = TRUE]
             c == Schedule(b, target, target < clock.frame)
  <1>1. Opened /\ ReplayTypes /\ LastFrame \in Nat /\ window.pc = "open"
    BY OpenedIs DEF StepFrame, ReplayUser
  <1>2. clock.frame \in 0..LastFrame
    BY <1>1, ClockIs DEF Opened, ClockStands
  <1>3. target \in 0..LastFrame /\ (~(target < clock.frame) => target \in {clock.frame, clock.frame + 1})
    BY <1>1, <1>2 DEF StepTarget
  <1>4. ClockStands(b) /\ b.frame = clock.frame /\ b.inFlight = clock.inFlight
    BY <1>1, PausedStands DEF Opened
  <1>5. (target < clock.frame) \in BOOLEAN
    OBVIOUS
  <1>6. Ask(c) /\ QtKeeps /\ window' = [window EXCEPT !.refused = Refusing(c)]
    BY DEF StepFrame
  <1> HIDE DEF target, b
  <1>7. ClockStands(c) /\ Begins(b, c) /\ c.frame = b.frame
    BY <1>1, <1>3, <1>4, <1>5, ScheduleStands
  <1> HIDE DEF c
  <1>8. Begins(clock, c) /\ c.frame = clock.frame
    BY <1>4, <1>7 DEF Begins
  <1>9. Refusing(c) \in BOOLEAN /\ window \in Windows
    BY <1>1, RefusingIs DEF ReplayTypes
  <1>10. /\ window' \in Windows /\ window'.pc = "open" /\ window'.initial = window.initial
         /\ window'.shown = window.shown /\ window'.error = window.error
    BY <1>1, <1>6, <1>9, WindowIs
  <1> QED BY <1>1, <1>6, <1>7, <1>8, <1>10, AskKeeps

LEMMA SeekFrameKeeps == ASSUME ReplayInv, NEW k \in 0..LastFrame, SeekFrame(k) PROVE ReplayInv'
  <1> DEFINE b == [clock EXCEPT !.paused = TRUE]
             c == Schedule(b, k, TRUE)
  <1>1. Opened /\ ReplayTypes /\ LastFrame \in Nat /\ window.pc = "open"
    BY OpenedIs DEF SeekFrame, ReplayUser
  <1>2. ClockStands(b) /\ b.frame = clock.frame /\ b.inFlight = clock.inFlight
    BY <1>1, PausedStands DEF Opened
  <1>3. Ask(c) /\ QtKeeps /\ window' = [window EXCEPT !.refused = Refusing(c)]
    BY DEF SeekFrame
  <1> HIDE DEF b
  <1>4. ClockStands(c) /\ Begins(b, c) /\ c.frame = b.frame
    BY <1>1, <1>2, ScheduleStands
  <1> HIDE DEF c
  <1>5. Begins(clock, c) /\ c.frame = clock.frame
    BY <1>2, <1>4 DEF Begins
  <1>6. Refusing(c) \in BOOLEAN /\ window \in Windows
    BY <1>1, RefusingIs DEF ReplayTypes
  <1>7. /\ window' \in Windows /\ window'.pc = "open" /\ window'.initial = window.initial
        /\ window'.shown = window.shown /\ window'.error = window.error
    BY <1>1, <1>3, <1>6, WindowIs
  <1> QED BY <1>1, <1>3, <1>4, <1>5, <1>7, AskKeeps

LEMMA AdvancedKeeps ==
  ASSUME ReplayInv, window.pc = "open", NEW p \in BOOLEAN,
         Advanced([clock EXCEPT !.paused = p]), QtKeeps
  PROVE  ReplayInv'
  <1> DEFINE b == [clock EXCEPT !.paused = p]
             c == BeginNextFrame(b)
             due == IF Submitted(c) THEN "never" ELSE "now"
  <1>1. Opened /\ ReplayTypes /\ LastFrame \in Nat
    BY OpenedIs
  <1>2. ClockStands(b) /\ b.frame = clock.frame /\ b.inFlight = clock.inFlight
    BY <1>1, PausedStands DEF Opened
  <1>3. Ask(c) /\ window' = [window EXCEPT !.due = due, !.refused = Refusing(c)]
    BY DEF Advanced
  <1>4. due \in {"now", "later", "never"}
    OBVIOUS
  <1> HIDE DEF b, due
  <1>5. ClockStands(c) /\ Begins(b, c) /\ c.frame = b.frame
    BY <1>1, <1>2, BeginNextStands
  <1> HIDE DEF c
  <1>6. Begins(clock, c) /\ c.frame = clock.frame
    BY <1>2, <1>5 DEF Begins
  <1>7. Refusing(c) \in BOOLEAN /\ window \in Windows
    BY <1>1, RefusingIs DEF ReplayTypes
  <1>8. /\ window' \in Windows /\ window'.pc = "open" /\ window'.initial = window.initial
        /\ window'.shown = window.shown /\ window'.error = window.error
    BY ZenonT(60), <1>1, <1>3, <1>4, <1>7, WindowIs
  <1> QED BY <1>3, <1>5, <1>6, <1>8, AskKeeps

LEMMA PlaybackKeeps ==
  ASSUME ReplayInv, TogglePlayback \/ AdvancePlayback \/ FrameIntervalEnds
  PROVE  ReplayInv'
  <1>1. Opened /\ ReplayTypes /\ window.pc = "open" /\ window \in Windows
    BY OpenedIs DEF TogglePlayback, AdvancePlayback, FrameIntervalEnds, ReplayUser, ReplayTypes
  <1>2. clock \in ClockRecords /\ clock.paused \in BOOLEAN /\ ClockStands(clock)
    BY <1>1, ClockIs DEF Opened, ClockStands
  <1>3. CASE TogglePlayback /\ clock.paused
    BY <1>1, <1>3, AdvancedKeeps DEF TogglePlayback
  <1>4. CASE TogglePlayback /\ ~clock.paused
    <2> DEFINE c == [clock EXCEPT !.paused = TRUE]
    <2>1. clock' = c /\ window' = window /\ requests' = requests /\ QtKeeps
      BY <1>4 DEF TogglePlayback
    <2>2. ClockStands(c) /\ c.frame = clock.frame /\ c.inFlight = clock.inFlight
      BY <1>2, PausedStands
    <2> HIDE DEF c
    <2>3. Ask(c) /\ Begins(clock, c)
      BY <2>1, <2>2 DEF Ask, Submitted, Asks, Begins
    <2> QED BY <1>1, <2>1, <2>2, <2>3, AskKeeps
  <1>5. CASE AdvancePlayback
    <2>1. clock = [clock EXCEPT !.paused = clock.paused]
      BY <1>2 DEF ClockRecords
    <2>2. Advanced(clock) /\ QtKeeps
      BY <1>5 DEF AdvancePlayback
    <2> DEFINE p == clock.paused
    <2>3. Advanced([clock EXCEPT !.paused = p])
      BY <2>1, <2>2, Zenon
    <2> QED BY <1>1, <1>2, <2>2, <2>3, AdvancedKeeps
  <1>6. CASE FrameIntervalEnds
    <2>1. /\ window' \in Windows /\ window'.pc = "open" /\ window'.initial = window.initial
          /\ window'.shown = window.shown /\ window'.error = window.error
      BY <1>1, <1>6, WindowIs DEF FrameIntervalEnds
    <2>2. Ask(clock) /\ Begins(clock, clock) /\ QtKeeps
      BY <1>6 DEF FrameIntervalEnds, Ask, Submitted, Asks, Begins
    <2> QED BY <1>1, <1>2, <2>1, <2>2, AskKeeps
  <1> QED BY <1>3, <1>4, <1>5, <1>6

-----------------------------------------------------------------------------
LEMMA OpenReplayKeeps == ASSUME ReplayInv, OpenReplay PROVE ReplayInv'
  <1>1. /\ window.pc = "load" /\ Untouched /\ ReplayTypes
        /\ UNCHANGED <<recording, replaced, clock, results, cancelled, source>>
    BY DEF OpenReplay, ReplayInv
  <1>2. CASE Indexed(recording) /\ Gapless(recording)
    <2>1. /\ window' = [window EXCEPT !.pc = "open"] /\ worker' = [worker EXCEPT !.pc = "get"]
          /\ requests' = <<Initial>>
      BY <1>2 DEF OpenReplay
    <2>2. LastFrame \in Nat /\ LastFrame' = LastFrame
      BY <1>1, <1>2, FramesAre, RecordingKept DEF ReplayTypes
    <2>3. /\ window' \in Windows /\ window'.pc = "open" /\ window'.initial /\ window'.shown = NoFrame
          /\ window'.error = "none"
      BY <1>1, <2>1 DEF ReplayTypes, Windows, Untouched
    <2>4. WorkerShape(worker') /\ worker'.pc = "get"
      BY <1>1, <2>1 DEF ReplayTypes, WorkerShape
    <2>5. ReplayTypes'
      <3>1. (window \in Windows)'
        BY <1>1, <2>3, RecordingKept DEF Windows
      <3> QED BY <1>1, <2>4, <3>1 DEF ReplayTypes, WorkerShape
    <2>6. ClockStands(NewClock) /\ NewClock.frame = 0
      <3>1. NewClock \in ClockRecords
        BY <2>2 DEF NewClock, ClockRecords
      <3> QED BY <3>1 DEF NewClock, ClockStands
    <2>7. ClockStands(clock)' /\ clock'.frame = 0
      BY <1>1, <2>6, RecordingKept DEF Untouched
    <2>8. Initial \in Requests
      BY <2>2 DEF Initial, Requests
    <2>9. Expected(Initial)'
      BY <1>1, <2>3, <2>7, <2>8, RecordingKept DEF Expected
    <2>10. Queued'
      BY <1>1, <2>1, <2>4, <2>9 DEF Queued, Busy, Untouched
    <2>11. SourceStands'
      <3>1. source' = NewSource
        BY <1>1 DEF Untouched
      <3>2. MapOf(source')
        BY <2>2, <3>1, EmptySource
      <3>3. MapOf(source)'
        BY <1>1, <3>2, RecordingKept
      <3>4. SourceShape(source)' /\ source'.index = -1 /\ source'.stream = "none"
        BY <2>2, <3>1, EmptySource DEF SourceShape
      <3> QED BY <2>2, <3>3, <3>4 DEF SourceStands
    <2>12. WorkerStands'
      BY <1>1, <2>4 DEF WorkerStands, Untouched
    <2>13. Opened'
      BY <1>1, <1>2, <2>3, <2>7, <2>10, <2>11, <2>12, RecordingKept
         DEF Opened, ShownStands, Untouched
    <2> QED BY <2>3, <2>5, <2>13 DEF ReplayInv
  <1>3. CASE ~(Indexed(recording) /\ Gapless(recording))
    <2>1. window' = [window EXCEPT !.pc = "refused"] /\ UNCHANGED <<worker, requests>>
      BY <1>3 DEF OpenReplay
    <2>2. /\ window' \in Windows /\ window'.pc = "refused" /\ window'.initial = window.initial
          /\ window'.shown = window.shown /\ window'.error = window.error
      BY <1>1, <2>1 DEF ReplayTypes, Windows
    <2>3. (window \in Windows)'
      BY <1>1, <2>2, RecordingKept DEF Windows
    <2> QED BY <1>1, <2>1, <2>2, <2>3 DEF ReplayInv, ReplayTypes, Untouched, WorkerShape
  <1> QED BY <1>2, <1>3

LEMMA PollErrorKeeps == ASSUME ReplayInv, PollError PROVE ReplayInv'
  <1>1. /\ Opened /\ ReplayTypes /\ LastFrame \in Nat /\ window.pc = "open" /\ results # <<>>
        /\ results' = Tail(results)
        /\ clock' = [clock EXCEPT !.paused = TRUE]
        /\ window' = [window EXCEPT !.error = Head(results).error]
        /\ UNCHANGED <<recording, replaced, requests, cancelled, worker, source>>
    BY OpenedIs DEF PollError
  <1>2. results' = <<>>
    BY <1>1, OneElement DEF Opened, Queued
  <1>3. Head(results).error \in Errors /\ (Head(results).error = "changed" => replaced)
    BY <1>1 DEF Opened, WorkerStands, ResultOf
  <1>4. /\ window' \in Windows /\ window'.pc = "open" /\ window'.initial = window.initial
        /\ window'.shown = window.shown /\ window'.error = Head(results).error
    BY <1>1, <1>3 DEF ReplayTypes, Windows, Errors
  <1>5. ClockStands(clock') /\ clock'.frame = clock.frame /\ clock'.inFlight = clock.inFlight
    BY <1>1, PausedStands DEF Opened
  <1>6. ReplayTypes'
    <2>1. (window \in Windows)'
      BY <1>1, <1>4, RecordingKept DEF Windows
    <2> QED BY <1>1, <2>1 DEF ReplayTypes, WorkerShape
  <1>7. ClockStands(clock)'
    BY <1>1, <1>5, RecordingKept
  <1>8. ShownStands'
    BY <1>1, <1>3, <1>4, <1>5, RecordingKept DEF Opened, ShownStands
  <1>9. Queued'
    <2>1. \A q : Expected(q)' <=> Expected(q)
      BY <1>1, <1>4, <1>5, RecordingKept DEF Expected
    <2> QED BY <1>1, <1>2, <1>5, <2>1 DEF Opened, Queued, Busy
  <1>10. SourceStands'
    BY <1>1, RecordingKept DEF Opened, SourceStands
  <1>11. WorkerStands'
    <2>1. \A q, f, e : ResultOf(q, f, e)' <=> ResultOf(q, f, e)
      BY <1>1, RecordingKept DEF ResultOf
    <2> QED BY <1>1, <1>2, <2>1 DEF Opened, WorkerStands
  <1>12. Opened'
    BY <1>1, <1>7, <1>8, <1>9, <1>10, <1>11, RecordingKept DEF Opened
  <1> QED BY <1>4, <1>6, <1>12 DEF ReplayInv

(* The first frame is shown as it comes. *)
LEMMA PollFirstKeeps ==
  ASSUME ReplayInv, PollFrame, Head(results).req = Initial PROVE ReplayInv'
  <1> DEFINE result == Head(results)
             c == RequestIfIdle(clock)
  <1>1. /\ Opened /\ ReplayTypes /\ LastFrame \in Nat /\ window.pc = "open" /\ results # <<>>
        /\ result.error = "none" /\ results' = Tail(results)
        /\ UNCHANGED <<recording, replaced, cancelled, worker, source>>
    BY OpenedIs DEF PollFrame
  <1>2. results' = <<>> /\ Expected(result.req)
    BY <1>1, OneElement DEF Opened, Queued
  <1>3. ClockStands(clock) /\ clock \in ClockRecords /\ clock.paused \in BOOLEAN
    BY <1>1, ClockIs DEF Opened, ClockStands
  <1>4. window.initial /\ clock.frame = 0
    <2>1. CASE result.req = clock.inFlight /\ result.req # Initial
      BY <2>1
    <2> QED BY <1>2, <2>1 DEF Expected
  <1>5. c = clock
    BY <1>3 DEF ClockStands, RequestIfIdle
  <1>6. FrameOf(result.frame, 0)
    BY <1>1, InitialIs DEF Opened, WorkerStands, ResultOf
  <1>7. /\ clock' = clock /\ requests' = requests
        /\ \E d \in {"now", "later", "never"}, x \in BOOLEAN :
             window' = [window EXCEPT !.initial = FALSE, !.shown = result.frame, !.due = d, !.refused = x]
    <2>1. /\ clock' = c
          /\ requests' = IF c.inFlight # clock.inFlight /\ requests = <<>>
                         THEN <<c.inFlight>> ELSE requests
          /\ window' = [window EXCEPT
                          !.initial = @ /\ FALSE,
                          !.shown = result.frame,
                          !.due = IF ~clock.paused THEN "later" ELSE @,
                          !.refused = @ \/ (c.inFlight # clock.inFlight /\ requests # <<>>)]
      BY <1>1, <1>4, Zenon DEF PollFrame
    <2>2. window \in Windows /\ window.due \in {"now", "later", "never"} /\ window.refused \in BOOLEAN
      BY <1>1, WindowIs DEF ReplayTypes
    <2> DEFINE d == IF ~clock.paused THEN "later" ELSE window.due
               x == window.refused \/ (c.inFlight # clock.inFlight /\ requests # <<>>)
    <2>3. window' = [window EXCEPT !.initial = FALSE, !.shown = result.frame, !.due = d, !.refused = x]
      BY <2>1, <2>2 DEF Windows
    <2>4. d \in {"now", "later", "never"} /\ x \in BOOLEAN
      BY <2>2
    <2> QED BY <1>5, <2>1, <2>3, <2>4
  <1>8. result.frame \in RenderedFrames
    BY <1>6 DEF FrameOf
  <1>9. /\ window' \in Windows /\ window'.pc = "open" /\ window'.initial = FALSE
        /\ window'.shown = result.frame /\ window'.error = window.error
    <2>1. PICK d \in {"now", "later", "never"}, x \in BOOLEAN :
             window' = [window EXCEPT !.initial = FALSE, !.shown = result.frame, !.due = d, !.refused = x]
      BY <1>7
    <2> HIDE DEF result
    <2> QED BY <1>1, <1>8, <2>1 DEF ReplayTypes, Windows
  <1>10. ReplayTypes'
    <2>1. (window \in Windows)'
      BY <1>1, <1>9, RecordingKept DEF Windows
    <2> QED BY <1>1, <2>1 DEF ReplayTypes, WorkerShape
  <1>11. ClockStands(clock)'
    BY <1>1, <1>3, <1>7, RecordingKept
  <1>12. ShownStands'
    BY <1>1, <1>4, <1>6, <1>7, <1>9, RecordingKept DEF Opened, ShownStands
  <1>13. Queued'
    <2>1. \A q : Expected(q) /\ q # Initial => Expected(q)'
      BY <1>1, <1>7, RecordingKept DEF Expected
    <2>2. clock.inFlight # Initial
      BY <1>3, InitialIs DEF ClockStands
    <2>3. Busy => worker.req = clock.inFlight /\ Expected(worker.req) /\ requests = <<>>
      BY <1>1, <2>2 DEF Opened, Queued
    <2>4. requests # <<>> => Head(requests) = clock.inFlight /\ \E q : requests = <<q>> /\ Expected(q)
      BY <1>1 DEF Opened, Queued
    <2>5. Busy => Expected(worker.req)'
      BY <1>1, <2>1, <2>2, <2>3
    <2>6. requests # <<>> => \E q : requests = <<q>> /\ Expected(q)'
      BY <2>1, <2>2, <2>4, OneElement
    <2>7. Busy' = Busy
      BY <1>1 DEF Busy
    <2> QED BY <1>1, <1>2, <1>7, <2>3, <2>5, <2>6, <2>7 DEF Queued
  <1>14. SourceStands'
    BY <1>1, RecordingKept DEF Opened, SourceStands
  <1>15. WorkerStands'
    <2>1. \A q, f, e : ResultOf(q, f, e)' <=> ResultOf(q, f, e)
      BY <1>1, RecordingKept DEF ResultOf
    <2> QED BY <1>1, <1>2, <2>1 DEF Opened, WorkerStands
  <1>16. Opened'
    BY <1>1, <1>11, <1>12, <1>13, <1>14, <1>15, RecordingKept DEF Opened
  <1> QED BY <1>9, <1>10, <1>16 DEF ReplayInv

(* Another result is the clock's; the next wish takes its place. *)
LEMMA PollNextKeeps ==
  ASSUME ReplayInv, PollFrame, Head(results).req # Initial PROVE ReplayInv'
  <1> DEFINE result == Head(results)
             after == Completed(clock, clock.inFlight)
             shows == Accepts(clock, clock.inFlight)
             c == RequestIfIdle(after)
  <1>1. /\ Opened /\ ReplayTypes /\ LastFrame \in Nat /\ window.pc = "open" /\ results # <<>>
        /\ result.error = "none" /\ results' = Tail(results)
        /\ UNCHANGED <<recording, replaced, cancelled, worker, source>>
    BY OpenedIs DEF PollFrame
  <1>2. results' = <<>> /\ Expected(result.req)
    BY <1>1, OneElement DEF Opened, Queued
  <1>3. result.req = clock.inFlight /\ clock.inFlight \in Requests /\ clock.inFlight # NoRequest
    BY <1>1, <1>2, RequestIs DEF Expected
  <1>4. ~Busy /\ requests = <<>>
    BY <1>1 DEF Opened, Queued
  <1>5. /\ ClockStands(c) /\ after.inFlight = NoRequest /\ after.frame = c.frame
        /\ c.inFlight # after.inFlight => c.inFlight \in Requests /\ c.inFlight.gen > 0
        /\ IF shows THEN c.frame = clock.inFlight.index ELSE c.frame = clock.frame
    BY <1>1, <1>3, CompletedStands DEF Opened
  <1>6. shows => FrameOf(result.frame, clock.inFlight.index)
    BY <1>1, <1>3 DEF Opened, WorkerStands, ResultOf
  <1>7. /\ clock' = c
        /\ requests' = IF c.inFlight # after.inFlight /\ requests = <<>> THEN <<c.inFlight>> ELSE requests
        /\ window' = [window EXCEPT
                        !.initial = @ /\ ~FALSE,
                        !.shown = IF shows THEN result.frame ELSE @,
                        !.due = IF shows /\ ~after.paused THEN "later" ELSE @,
                        !.refused = @ \/ (c.inFlight # after.inFlight /\ requests # <<>>)]
    <2> DEFINE first == window.initial /\ result.req = Initial
    <2>1. ~first
      OBVIOUS
    <2> QED BY <1>3, <2>1, Zenon DEF PollFrame
  <1> HIDE DEF c, after, shows
  <1>8. /\ window' \in Windows /\ window'.pc = "open" /\ window'.initial = window.initial
        /\ window'.shown = (IF shows THEN result.frame ELSE window.shown)
        /\ window'.error = window.error
    <2> DEFINE f == IF shows THEN result.frame ELSE window.shown
               d == IF shows /\ ~after.paused THEN "later" ELSE window.due
               x == window.refused \/ (c.inFlight # after.inFlight /\ requests # <<>>)
    <2>1. /\ window \in Windows /\ window.due \in {"now", "later", "never"}
          /\ window.refused \in BOOLEAN /\ window.initial \in BOOLEAN
          /\ window.shown \in RenderedFrames \cup {NoFrame}
      BY <1>1, WindowIs DEF ReplayTypes
    <2>2. window' = [window EXCEPT !.initial = window.initial, !.shown = f, !.due = d, !.refused = x]
      BY <1>7, <2>1 DEF Windows
    <2>3. f \in RenderedFrames \cup {NoFrame} /\ d \in {"now", "later", "never"} /\ x \in BOOLEAN
      BY <1>6, <2>1 DEF FrameOf
    <2>4. window'.shown = f
      BY <2>1, <2>2 DEF Windows
    <2> HIDE DEF f, d, x
    <2>5. /\ window' \in Windows /\ window'.pc = "open" /\ window'.initial = window.initial
          /\ window'.error = window.error
      BY <1>1, <2>1, <2>2, <2>3 DEF Windows
    <2> QED BY <2>4, <2>5 DEF f
  <1>9. ReplayTypes'
    <2>1. (window \in Windows)'
      BY <1>1, <1>8, RecordingKept DEF Windows
    <2> QED BY <1>1, <2>1 DEF ReplayTypes, WorkerShape
  <1>10. ClockStands(clock)'
    BY <1>1, <1>5, <1>7, RecordingKept
  <1>11. ShownStands'
    <2>1. CASE shows
      BY <1>1, <1>5, <1>6, <1>7, <1>8, <2>1, RecordingKept DEF Opened, ShownStands
    <2>2. CASE ~shows
      BY <1>1, <1>5, <1>7, <1>8, <2>2, RecordingKept DEF Opened, ShownStands
    <2> QED BY <2>1, <2>2
  <1>12. Queued'
    <2>1. ~Busy'
      BY <1>1, <1>4 DEF Busy
    <2>2. CASE c.inFlight # after.inFlight
      <3>1. PICK q : q = c.inFlight
        OBVIOUS
      <3>2. q \in Requests /\ q # Initial /\ q = clock'.inFlight
        BY <1>5, <1>7, <2>2, <3>1, InitialIs
      <3>3. Expected(q)'
        BY <1>1, <3>2, RecordingKept DEF Expected
      <3>4. requests' = <<q>>
        BY <1>4, <1>7, <2>2, <3>1
      <3> QED BY <1>2, <2>1, <3>3, <3>4 DEF Queued
    <2>3. CASE c.inFlight = after.inFlight
      BY <1>2, <1>4, <1>7, <2>1, <2>3 DEF Queued
    <2> QED BY <2>2, <2>3
  <1>13. SourceStands'
    BY <1>1, RecordingKept DEF Opened, SourceStands
  <1>14. WorkerStands'
    <2>1. \A q, f, e : ResultOf(q, f, e)' <=> ResultOf(q, f, e)
      BY <1>1, RecordingKept DEF ResultOf
    <2> QED BY <1>1, <1>2, <2>1 DEF Opened, WorkerStands
  <1>15. Opened'
    BY <1>1, <1>10, <1>11, <1>12, <1>13, <1>14, RecordingKept DEF Opened
  <1> QED BY <1>8, <1>9, <1>15 DEF ReplayInv

LEMMA CloseWindowKeeps == ASSUME ReplayInv, CloseWindow PROVE ReplayInv'
  <1>1. /\ Opened /\ ReplayTypes /\ window.pc = "open" /\ window' = [window EXCEPT !.pc = "closing"]
        /\ cancelled' = TRUE
        /\ UNCHANGED <<recording, replaced, clock, requests, results, worker, source>>
    BY OpenedIs DEF CloseWindow
  <1>2. /\ window' \in Windows /\ window'.pc = "closing" /\ window'.shown = window.shown
        /\ window'.error = window.error
    BY <1>1 DEF ReplayTypes, Windows
  <1>3. (window \in Windows)'
    BY <1>1, <1>2, RecordingKept DEF Windows
  <1>4. ReplayTypes'
    BY <1>1, <1>3 DEF ReplayTypes, WorkerShape
  <1>5. Leaving'
    BY <1>1, <1>2, RecordingKept, QueueLengths DEF Opened, Leaving, ShownStands
  <1> QED BY <1>2, <1>4, <1>5 DEF ReplayInv

(* Steps of the worker, and its end, after the window began to close. *)
LEMMA LeavingKeeps ==
  ASSUME ReplayInv, window.pc \in {"closing", "closed"},
         UNCHANGED <<recording, replaced, clock, cancelled>>,
         window' \in Windows, window'.pc \in {"closing", "closed"}, window'.shown = window.shown,
         window'.error = window.error, WorkerShape(worker'),
         Len(requests') <= 1, Len(results') <= 1,
         window'.pc = "closed" => worker'.pc = "ended"
  PROVE  ReplayInv'
  <1>1. (window \in Windows)'
    BY RecordingKept DEF Windows
  <1>2. ReplayTypes'
    BY <1>1 DEF ReplayInv, ReplayTypes, WorkerShape
  <1>3. Leaving'
    BY RecordingKept DEF ReplayInv, Leaving, ShownStands
  <1> QED BY <1>2, <1>3 DEF ReplayInv

LEMMA WorkerJoinedKeeps == ASSUME ReplayInv, WorkerJoined PROVE ReplayInv'
  <1>1. /\ window.pc = "closing" /\ worker.pc = "ended"
        /\ window' = [window EXCEPT !.pc = "closed"] /\ ReplayTypes /\ Leaving
        /\ UNCHANGED <<recording, replaced, clock, requests, results, cancelled, worker>>
    BY DEF WorkerJoined, ReplayInv
  <1>2. /\ window' \in Windows /\ window'.pc = "closed" /\ window'.shown = window.shown
        /\ window'.error = window.error
    BY <1>1 DEF ReplayTypes, Windows
  <1>3. WorkerShape(worker') /\ Len(requests') <= 1 /\ Len(results') <= 1
    BY <1>1 DEF ReplayTypes, WorkerShape, Leaving
  <1> QED BY <1>1, <1>2, <1>3, LeavingKeeps

LEMMA ReplaceFileKeeps == ASSUME ReplayInv, ReplaceFile PROVE ReplayInv'
  <1>1. /\ Opened /\ ReplayTypes /\ window.pc = "open" /\ ~replaced /\ replaced'
        /\ UNCHANGED <<recording, window, clock, requests, results, cancelled, worker, source>>
    BY OpenedIs DEF ReplaceFile
  <1>2. (window \in Windows)' /\ replaced' \in BOOLEAN
    BY <1>1, RecordingKept DEF Windows, ReplayTypes, ReplaceFile
  <1>3. ReplayTypes'
    BY <1>1, <1>2 DEF ReplayTypes, WorkerShape
  <1>4. Queued'
    <2>1. \A q : Expected(q)' <=> Expected(q)
      BY <1>1, RecordingKept DEF Expected
    <2> QED BY <1>1, <2>1 DEF Opened, Queued, Busy
  <1>5. WorkerStands'
    <2>1. \A q, f, e : ResultOf(q, f, e) => ResultOf(q, f, e)'
      BY <1>1, RecordingKept DEF ResultOf
    <2> QED BY <1>1, <2>1 DEF Opened, WorkerStands
  <1>6. Opened'
    BY <1>1, <1>4, <1>5, RecordingKept DEF Opened, ShownStands, SourceStands
  <1> QED BY <1>1, <1>3, <1>6 DEF ReplayInv

-----------------------------------------------------------------------------
(* The worker thread. *)
LEMMA TakeRequestKeeps == ASSUME ReplayInv, TakeRequest, window.pc = "open" PROVE ReplayInv'
  <1> DEFINE rewind == \/ Head(requests).rebuild \/ source.stream = "none"
                       \/ Head(requests).index <= source.index
  <1>1. /\ Opened /\ ReplayTypes /\ LastFrame \in Nat
        /\ worker.pc = "get" /\ requests # <<>> /\ requests' = <<>>
        /\ UNCHANGED <<recording, replaced, window, clock, cancelled, results>>
    BY OpenedIs DEF TakeRequest, WorkerKeeps
  <1>2. PICK req : requests = <<req>> /\ Expected(req)
    BY <1>1 DEF Opened, Queued
  <1>3. Head(requests) = req /\ req \in Requests /\ req.index \in 0..LastFrame
    BY <1>1, <1>2, OneElement, RequestIs DEF Expected
  <1>4. /\ source' = IF rewind THEN Rewound(source) ELSE source
        /\ worker' = IF ~rewind /\ req.index # source.index + 1
                     THEN [[worker EXCEPT !.pc = "deliver", !.res = NoFrame, !.error = "jump"] EXCEPT !.req = req]
                     ELSE [worker EXCEPT !.pc = "render", !.req = req]
    BY <1>3, Zenon DEF TakeRequest, Fails
  <1>5. /\ WorkerShape(worker') /\ worker'.req = req /\ worker'.pc \in {"render", "deliver"}
        /\ worker'.pc = "deliver" => worker'.error = "jump"
        /\ worker'.pc = "render" => rewind \/ req.index = source.index + 1
    BY <1>1, <1>4 DEF ReplayTypes, WorkerShape
  <1>6. ReplayTypes' /\ ShownStands' /\ ClockStands(clock)'
    <2>1. (window \in Windows)'
      BY <1>1, RecordingKept DEF Windows, ReplayTypes
    <2> QED BY <1>1, <1>5, <2>1, RecordingKept DEF Opened, ReplayTypes, WorkerShape, ShownStands
  <1>7. Queued'
    <2>1. Expected(req)' /\ (\A q : Expected(q)' <=> Expected(q))
      BY <1>1, <1>2, RecordingKept DEF Expected
    <2>2. Busy'
      BY <1>5 DEF Busy
    <2>3. Expected(worker.req)'
      BY <1>5, <2>1
    <2>4. results # <<>> => Head(results).req = Initial /\ req = clock.inFlight
      BY <1>1, <1>3 DEF Opened, Queued
    <2> QED BY <1>1, <1>5, <2>1, <2>2, <2>3, <2>4 DEF Opened, Queued
  <1>8. /\ SourceStands'
        /\ worker'.pc = "render" =>
              /\ source'.index <= req.index
              /\ source'.stream = "ended" => source'.index < req.index
    <2>1. CASE rewind
      <3>1. source' = Rewound(source)
        BY <1>4, <2>1
      <3>2. /\ SourceShape(source') /\ MapOf(source') /\ source'.index = -1
            /\ source'.stream = "new"
        BY <1>1, <3>1, EmptySource
      <3>3. MapOf(source)' /\ SourceShape(source)'
        BY <1>1, <3>2, RecordingKept DEF SourceShape
      <3> QED BY <1>1, <1>3, <3>2, <3>3, RecordingKept DEF SourceStands
    <2>2. CASE ~rewind
      <3>1. source' = source /\ source.index \in -1..LastFrame
        BY <1>1, <1>4, <2>2 DEF Opened, SourceStands
      <3>2. SourceStands'
        BY <1>1, <3>1, RecordingKept DEF Opened, SourceStands
      <3> QED BY <1>3, <1>5, <2>2, <3>1, <3>2
    <2> QED BY <2>1, <2>2
  <1>9. WorkerStands'
    <2>1. \A q, f, e : ResultOf(q, f, e)' <=> ResultOf(q, f, e)
      BY <1>1, RecordingKept DEF ResultOf
    <2>2. worker'.pc = "deliver" => ResultOf(worker.req, worker.res, worker.error)'
      BY <1>5 DEF ResultOf, Errors
    <2>3. results' # <<>> => LET r == Head(results') IN ResultOf(r.req, r.frame, r.error)
      BY <1>1 DEF Opened, WorkerStands
    <2>4. results' # <<>> => (LET r == Head(results) IN ResultOf(r.req, r.frame, r.error))'
      BY <2>1, <2>3
    <2>5. worker'.pc \in {"get", "render", "deliver"}
      BY <1>5
    <2>6. worker'.pc = "render" =>
            /\ source'.index <= worker'.req.index
            /\ source'.stream = "ended" => source'.index < worker'.req.index
      <3>1. worker'.req = req
        BY <1>5
      <3> QED BY <1>8, <3>1, Zenon
    <2> QED BY <2>2, <2>4, <2>5, <2>6 DEF WorkerStands
  <1>10. Opened'
    BY <1>1, <1>6, <1>7, <1>8, <1>9, RecordingKept DEF Opened
  <1> QED BY <1>1, <1>6, <1>10 DEF ReplayInv

(* The source after one more frame. *)
LEMMA ConsumedIs ==
  ASSUME Opened, LastFrame \in Nat, NEW k \in 0..LastFrame, k = source.index + 1
  PROVE  LET s == Consumed(k)
         IN  /\ SourceShape(s) /\ s.index = k
             /\ s.stream \in {"none", "open"}
             /\ source.stream # "ended" => MapOf(s)
  <1> DEFINE s == Consumed(k)
             fixed == IF Mapped(k) THEN AddFixed(source.fixed, k) ELSE source.fixed
             moving == IF Mapped(k) THEN Expired(AddMoving(source.moving, k), k) ELSE source.moving
             cache == IF fixed = source.fixed THEN source.cache ELSE NoCache
             track == source.track + 1
             stream == IF k = LastFrame THEN "none" ELSE "open"
             mapped == Mapped(k)
  <1>1. SourceShape(source) /\ source.index \in -1..LastFrame
    BY DEF Opened, SourceStands
  <1>2. s = [stream |-> stream, index |-> k, fixed |-> fixed, moving |-> moving, cache |-> cache,
             track |-> track, mapped |-> mapped]
    <2> HIDE DEF stream, track, mapped
    <2>1. CASE Mapped(k)
      <3> DEFINE af == AddFixed(source.fixed, k)
                 am == Expired(AddMoving(source.moving, k), k)
                 ac == IF af = source.fixed THEN source.cache ELSE NoCache
      <3>1. AddedFrame(source, k) = [source EXCEPT !.fixed = af, !.moving = am, !.cache = ac]
        BY <1>1 DEF AddedFrame, SourceShape
      <3>2. fixed = af /\ moving = am /\ cache = ac
        BY <2>1
      <3>3. s = [AddedFrame(source, k) EXCEPT !.stream = stream, !.index = k, !.track = @ + 1, !.mapped = mapped]
        BY <2>1 DEF Consumed, stream, mapped
      <3> HIDE DEF af, am, ac, fixed, moving, cache
      <3>4. AddedFrame(source, k) = [stream |-> source.stream, index |-> source.index, fixed |-> af,
                                     moving |-> am, cache |-> ac, track |-> source.track,
                                     mapped |-> source.mapped]
        BY <1>1, <3>1 DEF SourceShape
      <3> HIDE DEF s
      <3>5. s = [stream |-> stream, index |-> k, fixed |-> af, moving |-> am, cache |-> ac,
                 track |-> track, mapped |-> mapped]
        <4> DEFINE a == AddedFrame(source, k)
        <4> HIDE DEF a
        <4>1. a = [stream |-> source.stream, index |-> source.index, fixed |-> af, moving |-> am,
                   cache |-> ac, track |-> source.track, mapped |-> source.mapped]
          BY <3>4 DEF a
        <4>2. s = [a EXCEPT !.stream = stream, !.index = k, !.track = a.track + 1, !.mapped = mapped]
          BY <3>3 DEF a
        <4>3. a.track + 1 = track
          BY <4>1 DEF track
        <4>4. s = [a EXCEPT !.stream = stream, !.index = k, !.track = track, !.mapped = mapped]
          BY <4>2, <4>3
        <4> QED BY <4>1, <4>4
      <3> QED BY <3>2, <3>5
    <2>2. CASE ~Mapped(k)
      <3>1. fixed = source.fixed /\ moving = source.moving /\ cache = source.cache
        BY <2>2
      <3>2. s = [source EXCEPT !.stream = stream, !.index = k, !.track = @ + 1, !.mapped = mapped]
        BY <2>2 DEF Consumed, stream, mapped
      <3> HIDE DEF s, fixed, moving, cache
      <3>3. s = [stream |-> stream, index |-> k, fixed |-> source.fixed, moving |-> source.moving,
                 cache |-> source.cache, track |-> track, mapped |-> mapped]
        BY <1>1, <3>2 DEF SourceShape, track
      <3> QED BY <3>1, <3>3
    <2> QED BY <2>1, <2>2
  <1> HIDE DEF s
  <1>3. SourceShape(s) /\ s.index = k /\ s.stream \in {"none", "open"}
    <2>1. stream \in {"none", "open"}
      OBVIOUS
    <2> HIDE DEF stream, fixed, moving, cache, track, mapped
    <2> QED BY <1>2, <2>1 DEF SourceShape
  <1>4. ASSUME source.stream # "ended" PROVE MapOf(s)
    <2>1. MapOf(source)
      BY <1>4 DEF Opened, SourceStands
    <2>2. k - 1 = source.index
      BY <1>1
    <2>3. /\ source.fixed \in Maps /\ source.moving \in Maps
          /\ FixedUpTo(source.fixed, k - 1) /\ MovingBefore(source.moving, k - 1)
          /\ source.cache = NoCache \/ source.cache = source.fixed
          /\ source.track = k
      BY <1>1, <2>1, <2>2 DEF MapOf
    <2>4. fixed \in Maps /\ FixedUpTo(fixed, k)
      BY <2>3, FixedNext
    <2>5. moving \in Maps /\ MovingBefore(moving, k)
      <3>1. CASE Mapped(k)
        <4> DEFINE m == AddMoving(source.moving, k)
        <4>1. m \in Maps /\ MovingBefore(m, k)
          BY <2>3, <3>1, MovingNext
        <4> HIDE DEF m
        <4>2. Expired(m, k) \in Maps /\ MovingBefore(Expired(m, k), k)
          BY <4>1, MovingAged
        <4> QED BY <3>1, <4>2 DEF m
      <3>2. CASE ~Mapped(k)
        BY <2>3, <3>2, MovingNext
      <3> QED BY <3>1, <3>2
    <2>6. cache = NoCache \/ cache = fixed
      BY <2>3
    <2>7. track = k + 1
      BY <2>3
    <2>8. mapped = Mapped(k)
      OBVIOUS
    <2> HIDE DEF fixed, moving, cache, track, stream, mapped
    <2>9. /\ s.index = k /\ s.fixed = fixed /\ s.moving = moving /\ s.cache = cache
          /\ s.track = track /\ s.mapped = mapped
      BY <1>2
    <2> QED BY <2>4, <2>5, <2>6, <2>7, <2>8, <2>9, Zenon DEF MapOf
  <1> QED BY <1>3, <1>4 DEF s

LEMMA FailsIs ==
  ASSUME WorkerShape(worker), NEW why, worker' = Fails(why)
  PROVE  /\ WorkerShape(worker') /\ worker'.pc = "deliver" /\ worker'.req = worker.req
         /\ worker'.error = why
  BY DEF WorkerShape, Fails

(* A step of the worker that takes no request and delivers nothing. *)
LEMMA RenderKeeps ==
  ASSUME ReplayInv, window.pc = "open", worker.pc = "render",
         UNCHANGED <<recording, replaced, window, clock, cancelled, requests, results>>,
         WorkerShape(worker'), worker'.req = worker.req, worker'.pc \in {"render", "deliver"},
         SourceStands',
         worker'.pc = "render" => /\ source'.index <= worker.req.index
                                  /\ source'.stream = "ended" => source'.index < worker.req.index,
         worker'.pc = "deliver" => ResultOf(worker.req, worker.res, worker.error)'
  PROVE  ReplayInv'
  <1>1. Opened /\ ReplayTypes
    BY OpenedIs
  <1>2. ReplayTypes' /\ ShownStands' /\ ClockStands(clock)'
    <2>1. (window \in Windows)'
      BY <1>1, RecordingKept DEF Windows, ReplayTypes
    <2> QED BY <1>1, <2>1, RecordingKept DEF Opened, ReplayTypes, WorkerShape, ShownStands
  <1>3. Queued'
    <2>1. \A q : Expected(q)' <=> Expected(q)
      BY <1>1, RecordingKept DEF Expected
    <2>2. Busy /\ Busy'
      BY DEF Busy
    <2>3. Expected(worker.req)'
      BY <1>1, <2>1, <2>2 DEF Opened, Queued
    <2> QED BY <1>1, <2>1, <2>2, <2>3 DEF Opened, Queued
  <1>4. WorkerStands'
    <2>1. \A q, f, e : ResultOf(q, f, e)' <=> ResultOf(q, f, e)
      BY <1>1, RecordingKept DEF ResultOf
    <2>2. results' # <<>> => (LET r == Head(results) IN ResultOf(r.req, r.frame, r.error))'
      BY <1>1, <2>1 DEF Opened, WorkerStands
    <2> QED BY <2>2 DEF WorkerStands
  <1>5. Opened'
    BY <1>1, <1>2, <1>3, <1>4, RecordingKept DEF Opened
  <1> QED BY <1>2, <1>5 DEF ReplayInv

LEMMA ConsumeNextKeeps == ASSUME ReplayInv, ConsumeNext, window.pc = "open" PROVE ReplayInv'
  <1> DEFINE k == source.index + 1
  <1>1. /\ Opened /\ ReplayTypes /\ LastFrame \in Nat /\ ~cancelled
        /\ worker.pc = "render" /\ source.index < worker.req.index
        /\ UNCHANGED <<recording, replaced, window, clock, cancelled, requests, results>>
    BY OpenedIs DEF ConsumeNext, WorkerKeeps, Opened
  <1>2. /\ SourceShape(source) /\ source.index \in -1..LastFrame
        /\ worker.req \in Requests /\ worker.req.index \in 0..LastFrame
    BY <1>1, RequestIs DEF Opened, SourceStands, Queued, Busy, Expected
  <1>3. k \in 0..LastFrame
    BY <1>1, <1>2
  <1>4. /\ SourceShape(Consumed(k)) /\ Consumed(k).index = k
        /\ Consumed(k).stream \in {"none", "open"}
        /\ source.stream # "ended" => MapOf(Consumed(k))
    BY <1>1, <1>3, ConsumedIs
  <1>5. WorkerShape(worker)
    BY <1>1 DEF ReplayTypes
  <1>6. CASE StreamFails(k)
    <2> DEFINE base == IF source.stream = "open" THEN Consumed(k) ELSE source
    <2>1. worker' = Fails("changed") /\ source' = [base EXCEPT !.stream = "ended", !.index = source.index]
      BY <1>1, <1>6 DEF ConsumeNext
    <2>2. replaced
      BY <1>1, <1>6 DEF StreamFails, Opened, SourceStands
    <2>3. SourceShape(base)
      BY <1>2, <1>4
    <2> HIDE DEF base
    <2>4. SourceShape(source') /\ source'.stream = "ended" /\ source'.index = source.index
      BY <2>1, <2>3 DEF SourceShape
    <2>5. SourceStands'
      BY <1>1, <1>2, <2>2, <2>4, RecordingKept DEF SourceStands, SourceShape
    <2>6. /\ WorkerShape(worker') /\ worker'.pc = "deliver" /\ worker'.req = worker.req
          /\ worker'.error = "changed"
      BY <1>5, <2>1, FailsIs
    <2>7. ResultOf(worker.req, worker.res, worker.error)'
      BY <1>1, <2>2, <2>6 DEF ResultOf, Errors
    <2> QED BY <1>1, <2>5, <2>6, <2>7, RenderKeeps
  <1>7. CASE ~StreamFails(k)
    <2>1. worker' = worker /\ source' = Consumed(k) /\ source.stream # "ended"
      BY <1>1, <1>7 DEF ConsumeNext, StreamFails
    <2>2. /\ SourceShape(source') /\ source'.index = k /\ source'.stream \in {"none", "open"}
          /\ MapOf(source')
      BY <1>4, <2>1
    <2>3. SourceStands'
      <3>1. MapOf(source)' /\ SourceShape(source)'
        BY <1>1, <2>2, RecordingKept DEF SourceShape
      <3>2. source'.index \in -1..LastFrame'
        BY <1>1, <1>3, <2>2, RecordingKept
      <3> QED BY <2>2, <3>1, <3>2 DEF SourceStands
    <2>4. source'.index <= worker.req.index /\ source'.stream # "ended"
      BY <1>1, <1>2, <2>2
    <2>5. worker'.pc = "render" /\ worker'.req = worker.req /\ WorkerShape(worker')
      BY <1>1, <1>5, <2>1
    <2> QED BY <1>1, <2>3, <2>4, <2>5, RenderKeeps
  <1> QED BY <1>6, <1>7

LEMMA FinishRenderKeeps == ASSUME ReplayInv, FinishRender, window.pc = "open" PROVE ReplayInv'
  <1> DEFINE k == source.index
             moving == Expired(source.moving, k)
             cache == IF source.cache = NoCache THEN source.fixed ELSE source.cache
  <1>1. /\ Opened /\ ReplayTypes /\ LastFrame \in Nat
        /\ worker.pc = "render" /\ source.index >= worker.req.index
        /\ UNCHANGED <<recording, replaced, window, clock, cancelled, requests, results>>
    BY OpenedIs DEF FinishRender, WorkerKeeps
  <1>2. /\ SourceShape(source) /\ k \in -1..LastFrame
        /\ worker.req \in Requests /\ worker.req.index \in 0..LastFrame
        /\ source.index <= worker.req.index
        /\ source.stream = "ended" => source.index < worker.req.index
    BY <1>1, RequestIs DEF Opened, SourceStands, WorkerStands, Queued, Busy, Expected
  <1>3. k = worker.req.index /\ source.stream # "ended" /\ k \in 0..LastFrame
    BY <1>1, <1>2
  <1>4. /\ source.stream \in {"none", "new", "open", "ended"} /\ MapOf(source)
    BY <1>1, <1>3 DEF Opened, SourceStands
  <1>5. /\ source.fixed \in Maps /\ source.moving \in Maps /\ FixedUpTo(source.fixed, k)
        /\ MovingBefore(source.moving, k) /\ source.track = k + 1 /\ source.mapped = Mapped(k)
        /\ cache = source.fixed
    BY <1>3, <1>4 DEF MapOf
  <1>6. moving \in Maps /\ MovingUpTo(moving, k) /\ MovingBefore(moving, k)
    BY <1>1, <1>3, <1>5, MovingAged
  <1>7. source' = [source EXCEPT !.moving = moving, !.cache = cache]
    BY <1>2 DEF FinishRender, Snapshot, SourceShape
  <1>8. /\ SourceShape(source') /\ source'.stream = source.stream /\ source'.index = k
        /\ source'.fixed = source.fixed /\ source'.moving = moving /\ source'.cache = cache
        /\ source'.track = source.track /\ source'.mapped = source.mapped
    <2> HIDE DEF moving, cache
    <2> QED BY <1>2, <1>7 DEF SourceShape
  <1>9. SourceStands'
    <2>1. MapOf(source')
      BY <1>3, <1>5, <1>6, <1>8, Zenon DEF MapOf
    <2>2. MapOf(source)' /\ SourceShape(source)'
      BY <1>1, <1>8, <2>1, RecordingKept DEF SourceShape
    <2> QED BY <1>1, <1>2, <1>3, <1>4, <1>8, <2>2, RecordingKept DEF SourceStands
  <1>10. FrameOf(Rendered(source'), k)
    <2> DEFINE m == Mapped(k)
    <2>1. Rendered(source') = [index |-> k, fixed |-> source.fixed, moving |-> moving,
                               track |-> k + 1, mapped |-> m]
      BY <1>5, <1>8, Zenon DEF Rendered
    <2>2. m \in BOOLEAN
      BY DEF Mapped
    <2> HIDE DEF m, moving
    <2>3. /\ Rendered(source') \in RenderedFrames
          /\ Rendered(source').index = k /\ Rendered(source').fixed = source.fixed
          /\ Rendered(source').moving = moving /\ Rendered(source').track = k + 1
          /\ Rendered(source').mapped = m
      BY <1>3, <1>5, <1>6, <2>1, <2>2 DEF RenderedFrames
    <2> QED BY <1>5, <1>6, <2>3, Zenon DEF FrameOf, m
  <1>11. worker' = [worker EXCEPT !.pc = "deliver", !.res = Rendered(source'), !.error = "none"]
    BY DEF FinishRender
  <1>12. /\ WorkerShape(worker') /\ worker'.pc = "deliver" /\ worker'.req = worker.req
         /\ worker'.res = Rendered(source') /\ worker'.error = "none"
    BY <1>1, <1>11 DEF ReplayTypes, WorkerShape
  <1>13. ResultOf(worker.req, worker.res, worker.error)'
    <2>1. FrameOf(worker'.res, worker'.req.index)
      BY <1>3, <1>10, <1>12
    <2>2. FrameOf(worker.res, worker.req.index)'
      BY <1>1, <2>1, RecordingKept
    <2> QED BY <1>12, <2>2 DEF ResultOf, Errors
  <1> QED BY <1>1, <1>9, <1>12, <1>13, RenderKeeps

LEMMA DeliverKeeps == ASSUME ReplayInv, Deliver, window.pc = "open" PROVE ReplayInv'
  <1> DEFINE result == [req |-> worker.req, frame |-> worker.res, error |-> worker.error]
  <1>1. /\ Opened /\ ReplayTypes /\ LastFrame \in Nat
        /\ worker.pc = "deliver" /\ results = <<>> /\ results' = <<result>>
        /\ worker' = [worker EXCEPT !.pc = "get", !.req = NoRequest, !.res = NoFrame, !.error = "none"]
        /\ UNCHANGED <<recording, replaced, window, clock, cancelled, requests, source>>
    BY OpenedIs DEF Deliver, WorkerKeeps
  <1>2. WorkerShape(worker') /\ worker'.pc = "get"
    BY <1>1 DEF ReplayTypes, WorkerShape
  <1>3. PICK r : r = result
    OBVIOUS
  <1>4. /\ r.req = worker.req /\ r.frame = worker.res /\ r.error = worker.error
        /\ results' = <<r>> /\ results' # <<>> /\ Head(results') = r
    BY <1>1, <1>3, OneElement
  <1>5. ReplayTypes' /\ ShownStands' /\ ClockStands(clock)'
    <2>1. (window \in Windows)'
      BY <1>1, RecordingKept DEF Windows, ReplayTypes
    <2> QED BY <1>1, <1>2, <2>1, RecordingKept DEF Opened, ReplayTypes, WorkerShape, ShownStands
  <1>6. Queued'
    <2>1. \A q : Expected(q)' <=> Expected(q)
      BY <1>1, RecordingKept DEF Expected
    <2>2. Busy /\ ~Busy'
      BY <1>1, <1>2 DEF Busy
    <2>3. Expected(r.req)'
      BY <1>1, <1>4, <2>1, <2>2 DEF Opened, Queued
    <2>4. requests # <<>> => r.req = Initial /\ Head(requests) = clock.inFlight
      BY <1>1, <1>4, <2>2 DEF Opened, Queued
    <2>5. requests = <<>> \/ \E req : requests = <<req>> /\ Expected(req)
      BY <1>1 DEF Opened, Queued
    <2> QED BY <1>1, <1>4, <2>1, <2>2, <2>3, <2>4, <2>5 DEF Queued
  <1>7. SourceStands'
    BY <1>1, RecordingKept DEF Opened, SourceStands
  <1>8. WorkerStands'
    <2>1. ResultOf(r.req, r.frame, r.error)
      BY <1>1, <1>4 DEF Opened, WorkerStands
    <2>2. ResultOf(r.req, r.frame, r.error)'
      BY <1>1, <2>1, RecordingKept DEF ResultOf
    <2> QED BY <1>2, <1>4, <2>2 DEF WorkerStands
  <1>9. Opened'
    BY <1>1, <1>5, <1>6, <1>7, <1>8, RecordingKept DEF Opened
  <1> QED BY <1>1, <1>5, <1>9 DEF ReplayInv

LEMMA WorkerKeepsInv == ASSUME ReplayInv, ReplayWorker PROVE ReplayInv'
  <1>1. UNCHANGED <<recording, replaced, window, clock, cancelled>> /\ ReplayTypes
    BY DEF ReplayWorker, TakeRequest, ConsumeNext, FinishRender, Deliver, WorkerEnds, WorkerKeeps,
           ReplayInv
  <1>2. CASE window.pc \in {"load", "refused"}
    BY <1>2 DEF ReplayWorker, TakeRequest, ConsumeNext, FinishRender, Deliver, WorkerEnds,
                ReplayInv, Untouched
  <1>3. CASE window.pc = "open"
    <2>1. ~WorkerEnds
      BY <1>3 DEF WorkerEnds, ReplayInv, Opened
    <2> QED BY <1>3, <2>1, TakeRequestKeeps, ConsumeNextKeeps, FinishRenderKeeps, DeliverKeeps
            DEF ReplayWorker
  <1>4. CASE window.pc \in {"closing", "closed"}
    <2>1. Leaving /\ WorkerShape(worker) /\ window \in Windows
      BY <1>1, <1>4 DEF ReplayInv, ReplayTypes
    <2>2. WorkerShape(worker')
      BY <2>1 DEF ReplayWorker, TakeRequest, ConsumeNext, FinishRender, Deliver, WorkerEnds, Fails,
                  WorkerShape
    <2>3. requests' \in {requests, <<>>}
      BY DEF ReplayWorker, TakeRequest, ConsumeNext, FinishRender, Deliver, WorkerEnds
    <2>4. results' = results \/ \E r : results' = <<r>>
      BY DEF ReplayWorker, TakeRequest, ConsumeNext, FinishRender, Deliver, WorkerEnds
    <2>5. Len(requests') <= 1
      BY <2>1, <2>3, NoElement DEF Leaving
    <2>6. Len(results') <= 1
      <3>1. CASE results' = results
        BY <2>1, <3>1 DEF Leaving
      <3>2. CASE \E r : results' = <<r>>
        <4>1. Len(results') = 1
          BY <3>2, OneElement
        <4> QED BY <4>1
      <3> QED BY <2>4, <3>1, <3>2
    <2>7. worker.pc # "ended"
      BY DEF ReplayWorker, TakeRequest, ConsumeNext, FinishRender, Deliver, WorkerEnds
    <2> QED BY <1>1, <1>4, <2>1, <2>2, <2>5, <2>6, <2>7, LeavingKeeps DEF Leaving
  <1> QED BY <1>1, <1>2, <1>3, <1>4 DEF ReplayTypes, Windows

LEMMA ReplayKeeps == ReplayInv /\ [ReplayNext]_replayVars => ReplayInv'
  <1> SUFFICES ASSUME ReplayInv, [ReplayNext]_replayVars PROVE ReplayInv'
    OBVIOUS
  <1>1. CASE UNCHANGED replayVars
    <2>1. UNCHANGED <<recording, replaced, window, clock, requests, results, cancelled, worker, source>>
      BY <1>1 DEF replayVars
    <2>2. ReplayTypes /\ window \in Windows /\ window' = window
      BY <2>1 DEF ReplayInv, ReplayTypes
    <2>3. CASE window.pc \in {"load", "refused"}
      <3>1. (window \in Windows)'
        BY <2>1, <2>2, RecordingKept DEF Windows
      <3>2. ReplayTypes' /\ Untouched'
        BY <2>1, <2>2, <2>3, <3>1 DEF ReplayInv, ReplayTypes, Untouched, WorkerShape
      <3> QED BY <2>2, <2>3, <3>2 DEF ReplayInv
    <2>4. CASE window.pc = "open"
      <3>1. Ask(clock) /\ QtKeeps /\ Begins(clock, clock)
        BY <2>1 DEF Ask, Submitted, Asks, QtKeeps, Begins
      <3> QED BY <2>2, <2>4, <3>1, AskKeeps, OpenedIs DEF Opened
    <2>5. CASE window.pc \in {"closing", "closed"}
      <3>1. Leaving /\ WorkerShape(worker)
        BY <2>2, <2>5 DEF ReplayInv, ReplayTypes
      <3> QED BY <2>1, <2>2, <2>5, <3>1, LeavingKeeps DEF Leaving, WorkerShape
    <2> QED BY <2>2, <2>3, <2>4, <2>5 DEF Windows
  <1>2. CASE PollFrame
    BY <1>2, PollFirstKeeps, PollNextKeeps
  <1>3. CASE ReplayNext /\ ~PollFrame
    BY <1>3, OpenReplayKeeps, PlaybackKeeps, CloseWindowKeeps, StepFrameKeeps, SeekFrameKeeps,
       PollErrorKeeps, WorkerJoinedKeeps, WorkerKeepsInv, ReplaceFileKeeps
       DEF ReplayNext, ReplaySlots
  <1> QED BY <1>1, <1>2, <1>3

-----------------------------------------------------------------------------
(* The parts of the property. *)
LEMMA AccountedFor == ASSUME ReplayInv PROVE RequestsAccounted
  <1> SUFFICES ASSUME window.pc = "open"
               PROVE  \/ UnderWay = <<>>
                      \/ UnderWay = <<Initial>> /\ window.initial
                      \/ UnderWay = <<clock.inFlight>>
                      \/ UnderWay = <<Initial, clock.inFlight>> /\ window.initial
    BY DEF RequestsAccounted
  <1> DEFINE r == Head(results).req
             w == worker.req
             q == Head(requests)
  <1>1. Queued /\ clock.inFlight # Initial
    BY OpenedIs, InitialIs DEF Opened, ClockStands
  <1>2. /\ results # <<>> => Expected(r)
        /\ requests # <<>> => Expected(q)
        /\ Busy => Expected(w)
    BY <1>1, OneElement DEF Queued
  <1>3. \A x : Expected(x) => (x = Initial /\ window.initial) \/ x = clock.inFlight
    BY DEF Expected
  <1>4. UnderWay = (IF results # <<>> THEN <<r>> ELSE <<>>)
                     \o (IF Busy THEN <<w>> ELSE <<>>) \o (IF requests # <<>> THEN <<q>> ELSE <<>>)
    BY DEF UnderWay, Busy
  <1>5. /\ Busy /\ requests # <<>> => w = Initial /\ q = clock.inFlight
        /\ Busy /\ results # <<>> => r = Initial /\ w = clock.inFlight
        /\ requests # <<>> /\ results # <<>> => r = Initial /\ q = clock.inFlight
    BY <1>1 DEF Queued
  <1> HIDE DEF r, w, q
  <1>6. \A x : <<x>> \o <<>> = <<x>> /\ <<>> \o <<x>> = <<x>>
    OBVIOUS
  <1>7. \A x, y : <<x>> \o <<y>> = <<x, y>>
    BY TwoElements
  <1>8. <<>> \o <<>> = <<>>
    OBVIOUS
  <1>9. CASE results # <<>>
    <2>1. CASE Busy
      <3>1. requests = <<>> /\ r = Initial /\ w = clock.inFlight /\ window.initial
        BY <1>1, <1>2, <1>3, <1>5, <1>9, <2>1
      <3>2. UnderWay = (<<r>> \o <<w>>) \o <<>>
        BY <1>4, <1>9, <2>1, <3>1, Zenon
      <3>3. (<<r>> \o <<w>>) \o <<>> = <<r, w>>
        BY TwoElements
      <3> QED BY <3>1, <3>2, <3>3
    <2>2. CASE ~Busy
      <3>1. UnderWay = (<<r>> \o <<>>) \o (IF requests # <<>> THEN <<q>> ELSE <<>>)
        BY <1>4, <1>9, <2>2, Zenon
      <3>2. CASE requests = <<>>
        BY <1>2, <1>3, <1>6, <1>9, <3>1, <3>2
      <3>3. CASE requests # <<>>
        <4>1. UnderWay = <<r, q>>
          BY <1>6, <1>7, <3>1, <3>3
        <4> QED BY <1>1, <1>2, <1>3, <1>5, <1>9, <3>3, <4>1
      <3> QED BY <3>2, <3>3
    <2> QED BY <2>1, <2>2
  <1>10. CASE results = <<>>
    <2>1. CASE Busy
      <3>1. UnderWay = (<<>> \o <<w>>) \o (IF requests # <<>> THEN <<q>> ELSE <<>>)
        BY <1>4, <1>10, <2>1, Zenon
      <3>2. CASE requests = <<>>
        BY <1>2, <1>3, <1>6, <2>1, <3>1, <3>2
      <3>3. CASE requests # <<>>
        <4>1. UnderWay = <<w, q>>
          BY <1>6, <1>7, <3>1, <3>3
        <4> QED BY <1>1, <1>2, <1>3, <1>5, <2>1, <3>3, <4>1
      <3> QED BY <3>2, <3>3
    <2>2. CASE ~Busy
      <3>1. UnderWay = (<<>> \o <<>>) \o (IF requests # <<>> THEN <<q>> ELSE <<>>)
        BY <1>4, <1>10, <2>2, Zenon
      <3> QED BY <1>2, <1>3, <1>6, <1>8, <3>1
    <2> QED BY <2>1, <2>2
  <1> QED BY <1>9, <1>10

LEMMA TypesFollow == ASSUME ReplayInv PROVE ReplayTypeOK
  <1>1. ReplayTypes
    BY DEF ReplayInv
  <1>2. window.pc \in {"load", "refused", "open", "closing", "closed"}
    BY <1>1 DEF ReplayTypes, Windows
  <1>3. Len(requests) <= 1 /\ Len(results) <= 1
    <2>1. CASE window.pc \in {"load", "refused"}
      BY <2>1, NoElement DEF ReplayInv, Untouched
    <2>2. CASE window.pc = "open"
      BY <2>2, QueueLengths DEF ReplayInv, Opened
    <2>3. CASE window.pc \in {"closing", "closed"}
      BY <2>3 DEF ReplayInv, Leaving
    <2> QED BY <1>2, <2>1, <2>2, <2>3
  <1>4. ASSUME FrameCount > 0 PROVE clock \in ClockRecords
    <2>1. CASE window.pc \in {"load", "refused"}
      <3>1. FrameCount \in Nat
        BY <1>1, RecordingsAssumption, LenProperties DEF ReplayTypes, FrameCount, V2Topics
      <3>2. 0 \in 0..LastFrame
        BY <1>4, <3>1 DEF LastFrame
      <3>3. NewClock \in ClockRecords
        BY <3>2 DEF NewClock, ClockRecords
      <3> QED BY <2>1, <3>3 DEF ReplayInv, Untouched
    <2>2. CASE window.pc \in {"open", "closing", "closed"}
      BY <2>2 DEF ReplayInv, Opened, Leaving, ClockStands
    <2> QED BY <1>2, <2>1, <2>2
  <1> QED BY <1>1, <1>3, <1>4 DEF ReplayTypeOK, ReplayTypes, Windows, ClockRecords

LEMMA SoundFollows == ReplayInv => ReplaySound
  <1> SUFFICES ASSUME ReplayInv PROVE ReplaySound
    OBVIOUS
  <1>1. window.pc \in {"load", "refused", "open", "closing", "closed"}
    BY DEF ReplayInv, ReplayTypes, Windows
  <1>2. CASE window.pc \in {"load", "refused"}
    <2>1. Untouched
      BY <1>2 DEF ReplayInv
    <2>2. ShownIsCurrent
      BY <2>1 DEF Untouched, ShownIsCurrent, NewClock
    <2>3. ShownIsPrefix /\ ReplayedIsIndexed
      BY <1>2, <2>1 DEF Untouched, ShownIsPrefix, ReplayedIsIndexed
    <2> QED BY <2>2, <2>3, TypesFollow, AccountedFor DEF ReplaySound
  <1>3. CASE window.pc \in {"open", "closing", "closed"}
    <2>1. ClockStands(clock) /\ ShownStands /\ Indexed(recording) /\ Gapless(recording)
      BY <1>3 DEF ReplayInv, Opened, Leaving
    <2>2. window.pc = "closed" => worker.pc = "ended"
      BY DEF ReplayInv, Leaving
    <2>3. ShownIsCurrent
      BY <2>1 DEF ShownStands, FrameOf, ShownIsCurrent, ClockStands
    <2>4. ShownIsPrefix
      BY <2>1 DEF ShownStands, FrameOf, ShownIsPrefix
    <2>5. ReplayedIsIndexed
      BY <2>1, <2>2 DEF ShownStands, ReplayedIsIndexed
    <2> QED BY <2>3, <2>4, <2>5, TypesFollow, AccountedFor DEF ReplaySound
  <1> QED BY <1>1, <1>2, <1>3

(* The replay as its user sees it, whatever is sought, stepped and played  *)
(* in which order and whenever the file is replaced: the window shows the  *)
(* map of its clock's frame as the recording alone determines it, the      *)
(* clock meets only results it waits for, playing skips no frame, and the  *)
(* source is closed under no render.                                       *)
THEOREM TheMapIsThatOfItsFrame == ReplaySpec => []ReplaySound
  <1>1. ReplaySpec => []ReplayInv
    BY ReplayStarts, ReplayKeeps, PTL DEF ReplaySpec
  <1> QED BY <1>1, SoundFollows, PTL

-----------------------------------------------------------------------------
(* The mapping session.  Simulator and peer count the same periods: as     *)
(* long as nothing went wrong from outside, what is under way is what one  *)
(* has published and the other has not taken yet.                          *)
GolfAnswers == [t : Nat, speed : Nat, ok : BOOLEAN]
GolfEnds == {"none", "ok", "failed", "killed"}
GolfResults == {"none", "clean", "faulted"}
SimuRecords ==
    [pc : {"none", "boot", "peers", "waiting", "step", "answer", "safety", "report", "dead"},
     tick : Nat, fault : BOOLEAN, latest : Nat, speed : Nat, applied : Nat,
     monitor : BOOLEAN, quiet : Nat, ready : BOOLEAN, result : GolfResults, exit : GolfEnds]
PeerRecords ==
    [pc : {"none", "peers", "waiting", "drive", "dead"}, fault : BOOLEAN, wheel : Nat, rtk : Nat,
     imu : Nat, pending : Nat, moving : BOOLEAN, speed : Nat, zeroSince : Nat, quiet : Nat,
     finished : BOOLEAN, answered : Seq(GolfAnswers), ready : BOOLEAN, result : GolfResults,
     exit : GolfEnds]
RecdRecords == [pc : {"none", "run", "dead"}, counts : [GolfTopics -> Nat], exit : GolfEnds]
WireRecords ==
    [wheel : Seq([t : Nat, moving : BOOLEAN]), rtk : Seq(Nat), imu : Seq(Nat),
     command : Seq([t : Nat, speed : Nat]), mishaps : Nat]
OrchRecords ==
    [pc : {"preflight", "spawn", "ready", "run", "validate", "metrics", "export", "replay", "done",
           "fault", "grace", "kill", "failed", "refused"},
     start : BOOLEAN, fault : BOOLEAN, accepted : BOOLEAN]

GolfTypes ==
    /\ orch \in OrchRecords /\ simu \in SimuRecords /\ golfPeer \in PeerRecords
    /\ recd \in RecdRecords /\ wires \in WireRecords

(* Every wheel state that was taken is answered, but for a pending one.    *)
PeerStands(p) ==
    /\ \A k \in 1..Len(p.answered) : /\ p.answered[k].t = k
                                     /\ ~p.answered[k].ok => p.answered[k].speed = 0
    /\ p.pending = 0 => Len(p.answered) = p.wheel
    /\ p.pending # 0 => p.pending = p.wheel /\ Len(p.answered) = p.wheel - 1

(* The poses published so far. *)
NotStarted == simu.pc \in {"none", "boot", "peers", "waiting"}
Published ==
    IF NotStarted THEN 0
    ELSE IF simu.pc = "answer" THEN (simu.tick - 1) \div PosePeriod + 1
    ELSE simu.tick \div PosePeriod + 1

(* What is under way on a pose topic continues what the peer has counted.  *)
PosesUnderWay(queue, counted) ==
    /\ counted + Len(queue) = Published
    /\ \A k \in 1..Len(queue) : queue[k] \div PosePeriod = counted + k - 1

WheelsUnderWay ==
    /\ golfPeer.wheel + Len(wires.wheel) = simu.tick
    /\ \A k \in 1..Len(wires.wheel) : wires.wheel[k].t = golfPeer.wheel + k

CommandsUnderWay ==
    /\ simu.latest + Len(wires.command) = Len(golfPeer.answered)
    /\ \A k \in 1..Len(wires.command) : wires.command[k].t = simu.latest + k

SimuWaits ==
    /\ NotStarted => simu.tick = 0
    /\ simu.pc = "answer" => simu.tick > 0 /\ simu.tick <= simu.latest + 1
    /\ simu.pc # "answer" => simu.latest = simu.tick

LockStep ==
    wires.mishaps = 0 /\ simu.pc # "dead" =>
        /\ WheelsUnderWay /\ CommandsUnderWay /\ SimuWaits
        /\ PosesUnderWay(wires.rtk, golfPeer.rtk) /\ PosesUnderWay(wires.imu, golfPeer.imu)
        /\ golfPeer.pending # 0 => NeedsPose(golfPeer, golfPeer.pending)

(* How far the orchestrator is says how far the others are.                *)
JudgedPcs == {"metrics", "export", "replay", "done"}
SimuEnded == /\ simu.exit # "none" => simu.pc = "dead"
             /\ simu.result = "clean" => simu.pc = "dead" /\ ~simu.fault
PeerEnded == /\ golfPeer.exit # "none" => golfPeer.pc = "dead"
             /\ golfPeer.result = "clean" => golfPeer.pc = "dead" /\ ~golfPeer.fault
RecdEnded == /\ recd.exit # "none" => recd.pc = "dead"
             /\ recd.exit = "ok" => recd.counts = ExpectedCounts
SessionStands ==
    /\ SimuEnded /\ PeerEnded /\ RecdEnded
    /\ orch.pc \in {"preflight", "refused"} => simu.pc = "none" /\ golfPeer.pc = "none" /\ recd.pc = "none"
    /\ orch.pc = "spawn" => golfPeer.pc = "none"
    /\ orch.pc \in {"validate"} \cup JudgedPcs =>
          simu.pc = "dead" /\ golfPeer.pc = "dead" /\ recd.pc = "dead"
    /\ orch.pc \in JudgedPcs => recd.counts = ExpectedCounts /\ ~simu.fault /\ ~golfPeer.fault
    /\ orch.accepted => orch.pc = "done"
    /\ orch.pc = "failed" => ~GolfAlive(simu) /\ ~GolfAlive(golfPeer) /\ ~GolfAlive(recd)

GolfInv == GolfTypes /\ PeerStands(golfPeer) /\ LockStep /\ SessionStands
-----------------------------------------------------------------------------
(* Division by a period. *)
LEMMA DivFacts ==
  ASSUME NEW a \in Nat, NEW b \in Nat \ {0}
  PROVE  /\ a \div b \in Nat /\ a % b \in 0..(b - 1)
         /\ a = b * (a \div b) + (a % b)
  OBVIOUS

LEMMA DivUnique ==
  ASSUME NEW b \in Nat \ {0}, NEW q \in Nat, NEW p \in Nat, NEW r \in 0..(b - 1), NEW s \in 0..(b - 1),
         b * q + r = b * p + s
  PROVE  q = p
  <1>1. ASSUME NEW x \in Nat, NEW y \in Nat, x < y PROVE b * y >= b * x + b
    <2>1. PICK d \in Nat : y = x + 1 + d
      <3>1. y - x - 1 \in Nat /\ y = x + 1 + (y - x - 1)
        BY <1>1
      <3> QED BY <3>1
    <2>2. b * y = b * x + b + b * d
      BY <2>1
    <2>3. b * d >= 0 /\ b * d \in Int /\ b * x \in Int
      OBVIOUS
    <2> QED BY <2>2, <2>3
  <1>2. b * q \in Int /\ b * p \in Int
    OBVIOUS
  <1>3. ~(q < p)
    BY <1>1, <1>2
  <1>4. ~(p < q)
    BY <1>1, <1>2
  <1> QED BY <1>3, <1>4

(* One period later.                                                       *)
LEMMA DivStep ==
  ASSUME NEW t \in Nat \ {0}, NEW b \in Nat \ {0}
  PROVE  /\ (t - 1) \div b \in Nat /\ b * ((t - 1) \div b) <= t /\ t - b * ((t - 1) \div b) <= b
         /\ t % b = 0 => t \div b = (t - 1) \div b + 1
         /\ t % b # 0 => t \div b = (t - 1) \div b
  <1> DEFINE u == t - 1  q == (t - 1) \div b  r == (t - 1) % b
  <1>1. u \in Nat /\ t = u + 1
    OBVIOUS
  <1>2. q \in Nat /\ r \in 0..(b - 1) /\ u = b * q + r
    BY <1>1, DivFacts
  <1>3. t \div b \in Nat /\ t % b \in 0..(b - 1) /\ t = b * (t \div b) + (t % b)
    BY DivFacts
  <1>4. b * q \in Int
    BY <1>2
  <1>5. CASE r + 1 < b
    <2> DEFINE s == r + 1
    <2>1. s \in 0..(b - 1) /\ t = b * q + s /\ s # 0
      BY <1>1, <1>2, <1>4, <1>5
    <2>2. t \div b = q
      <3> DEFINE p == t \div b  m == t % b
      <3>1. p \in Nat /\ m \in 0..(b - 1) /\ b * p + m = b * q + s
        BY <1>3, <2>1
      <3> HIDE DEF p, m, s, q
      <3>2. p = q
        BY <1>2, <2>1, <3>1, DivUnique
      <3> QED BY <3>2 DEF p
    <2>3. t % b # 0
      <3> DEFINE m == t % b
      <3>1. t = b * q + m /\ m \in Int
        BY <1>3, <2>2
      <3> HIDE DEF m, q
      <3>2. m = s
        BY <1>4, <2>1, <3>1
      <3> QED BY <2>1, <3>2 DEF m
    <2> QED BY <1>1, <1>2, <1>4, <2>2, <2>3
  <1>6. CASE r + 1 = b
    <2>1. b * (q + 1) = b * q + b
      BY <1>2
    <2>2. t = b * (q + 1) + 0
      BY <1>1, <1>2, <1>4, <1>6, <2>1
    <2>3. t \div b = q + 1
      <3> DEFINE p == t \div b  m == t % b  w == q + 1
      <3>1. p \in Nat /\ m \in 0..(b - 1) /\ b * p + m = b * w + 0 /\ w \in Nat /\ 0 \in 0..(b - 1)
        BY <1>2, <1>3, <2>2
      <3> HIDE DEF p, m, q, w
      <3>2. p = w
        BY <3>1, DivUnique
      <3> QED BY <3>2 DEF p, w
    <2>4. t % b = 0
      <3> DEFINE m == t % b
      <3>1. t = b * (q + 1) + m /\ m \in Int /\ b * (q + 1) \in Int
        BY <1>2, <1>3, <2>3
      <3> HIDE DEF m, q
      <3>2. m = 0
        BY <2>2, <3>1
      <3> QED BY <3>2 DEF m
    <2> QED BY <1>1, <1>2, <1>4, <1>6, <2>3, <2>4
  <1> QED BY <1>2, <1>5, <1>6

-----------------------------------------------------------------------------
(* The peer's operators. *)
LEMMA GolfConstants ==
  /\ PosePeriod \in Nat \ {0} /\ RouteEnd \in Nat \ {0} /\ TopSpeed \in Nat \ {0}
  /\ ZeroTail \in Nat \ {0} /\ QuietStates \in Nat \ {0}
  BY GolfAssumption

(* What a step of the answering part leaves alone. *)
SamePeer(q, p) ==
    /\ q.pc = p.pc /\ q.wheel = p.wheel /\ q.rtk = p.rtk /\ q.imu = p.imu
    /\ q.ready = p.ready /\ q.result = p.result /\ q.exit = p.exit

LEMMA LatchFacts ==
  ASSUME NEW p \in PeerRecords, NEW bad \in BOOLEAN
  PROVE  /\ Latch(p, bad) \in PeerRecords /\ SamePeer(Latch(p, bad), p)
         /\ Latch(p, bad).pending = p.pending /\ Latch(p, bad).answered = p.answered
         /\ Latch(p, bad).fault = (p.fault \/ bad)
  BY DEF Latch, PeerRecords, SamePeer

LEMMA NeedsPoseType == ASSUME NEW p, NEW t PROVE NeedsPose(p, t) \in BOOLEAN
  BY DEF NeedsPose

LEMMA MaybeFinishFacts ==
  ASSUME NEW p \in PeerRecords
  PROVE  /\ MaybeFinish(p) \in PeerRecords /\ SamePeer(MaybeFinish(p), p)
         /\ MaybeFinish(p).pending = p.pending /\ MaybeFinish(p).answered = p.answered
         /\ MaybeFinish(p).fault = p.fault
  <1>1. CASE p.fault \/ p.zeroSince = 0
    BY <1>1 DEF MaybeFinish, SamePeer
  <1>2. CASE ~(p.fault \/ p.zeroSince = 0)
    <2> DEFINE done == /\ p.wheel >= Finish
                       /\ LatestPose(p) * PosePeriod >= Finish
                       /\ p.wheel - p.zeroSince >= ZeroTail
    <2>1. MaybeFinish(p) = [p EXCEPT !.finished = done] /\ done \in BOOLEAN
      BY <1>2 DEF MaybeFinish
    <2> HIDE DEF done
    <2> QED BY <2>1 DEF PeerRecords, SamePeer
  <1> QED BY <1>1, <1>2

LEMMA CompletionFacts ==
  ASSUME NEW p \in PeerRecords, NEW t \in Nat, NEW speed \in Nat
  PROVE  /\ Completion(p, t, speed) \in PeerRecords /\ SamePeer(Completion(p, t, speed), p)
         /\ Completion(p, t, speed).pending = p.pending
         /\ Completion(p, t, speed).answered = p.answered
         /\ Completion(p, t, speed).fault = p.fault
  <1>1. CASE p.fault
    <2> DEFINE n == IF p.moving THEN 0 ELSE p.quiet + 1
               fin == n >= QuietStates
    <2>1. Completion(p, t, speed) = [p EXCEPT !.quiet = n, !.finished = fin]
      BY <1>1 DEF Completion
    <2>2. n \in Nat /\ fin \in BOOLEAN
      BY DEF PeerRecords
    <2> HIDE DEF n, fin
    <2> QED BY <2>1, <2>2 DEF PeerRecords, SamePeer
  <1>2. CASE ~p.fault /\ t < RouteEnd
    BY <1>2 DEF Completion, SamePeer
  <1>3. CASE ~p.fault /\ ~(t < RouteEnd)
    <2> DEFINE z == IF speed # 0 THEN 0 ELSE IF p.zeroSince = 0 THEN t ELSE p.zeroSince
               q == [p EXCEPT !.zeroSince = z]
    <2>1. Completion(p, t, speed) = MaybeFinish(q)
      BY <1>3 DEF Completion
    <2>2. z \in Nat
      BY DEF PeerRecords
    <2>3. q \in PeerRecords /\ SamePeer(q, p) /\ q.pending = p.pending /\ q.answered = p.answered
          /\ q.fault = p.fault
      <3> HIDE DEF z
      <3> QED BY <2>2 DEF PeerRecords, SamePeer
    <2> HIDE DEF q
    <2> QED BY <2>1, <2>3, MaybeFinishFacts DEF SamePeer
  <1> QED BY <1>1, <1>2, <1>3

LEMMA SpeedFacts ==
  ASSUME NEW p \in PeerRecords, NEW t \in Nat
  PROVE  CommandSpeeds(p, t) \in Nat /\ (p.fault => CommandSpeeds(p, t) = 0)
  BY GolfConstants DEF CommandSpeeds, TowardZero, FollowRoute, PeerRecords

(* An answer is added. *)
LEMMA PublishFacts ==
  ASSUME NEW p \in PeerRecords, NEW t \in Nat
  PROVE  /\ PublishCommand(p, t) \in PeerRecords /\ SamePeer(PublishCommand(p, t), p)
         /\ PublishCommand(p, t).pending = p.pending
         /\ Len(PublishCommand(p, t).answered) = Len(p.answered) + 1
         /\ \A k \in 1..Len(p.answered) : PublishCommand(p, t).answered[k] = p.answered[k]
         /\ PublishCommand(p, t).answered[Len(p.answered) + 1].t = t
         /\ ~PublishCommand(p, t).answered[Len(p.answered) + 1].ok =>
               PublishCommand(p, t).answered[Len(p.answered) + 1].speed = 0
  <1> DEFINE stale == t <= RouteEnd /\ t - PoseAt(p, t) > PosePeriod
             q == Latch(p, stale)
             speed == CommandSpeeds(q, t)
             a == [t |-> t, speed |-> speed, ok |-> ~q.fault]
             sent == Append(q.answered, a)
             h == [q EXCEPT !.answered = sent, !.speed = speed]
  <1>1. q \in PeerRecords /\ SamePeer(q, p) /\ q.pending = p.pending /\ q.answered = p.answered
    <2>1. stale \in BOOLEAN
      OBVIOUS
    <2> HIDE DEF stale
    <2> QED BY <2>1, LatchFacts
  <1>2. speed \in Nat /\ (q.fault => speed = 0) /\ q.fault \in BOOLEAN
    <2> HIDE DEF q
    <2>1. q.fault \in BOOLEAN
      BY <1>1 DEF PeerRecords
    <2> QED BY <1>1, <2>1, SpeedFacts
  <1>3. PublishCommand(p, t) = Completion(h, t, speed)
    BY DEF PublishCommand
  <1> HIDE DEF q, speed
  <1>4. a \in GolfAnswers /\ a.t = t /\ (~a.ok => a.speed = 0)
    BY <1>2 DEF GolfAnswers
  <1> HIDE DEF a
  <1>5. p.answered \in Seq(GolfAnswers)
    BY DEF PeerRecords
  <1>6. /\ sent \in Seq(GolfAnswers) /\ Len(sent) = Len(p.answered) + 1
        /\ \A k \in 1..Len(p.answered) : sent[k] = p.answered[k]
        /\ sent[Len(p.answered) + 1] = a
    BY <1>1, <1>4, <1>5
  <1> HIDE DEF sent
  <1>7. h \in PeerRecords /\ SamePeer(h, p) /\ h.pending = p.pending /\ h.answered = sent
    BY <1>1, <1>2, <1>6 DEF PeerRecords, SamePeer
  <1> HIDE DEF h
  <1>8. /\ PublishCommand(p, t) \in PeerRecords /\ SamePeer(PublishCommand(p, t), h)
        /\ PublishCommand(p, t).pending = h.pending /\ PublishCommand(p, t).answered = h.answered
    BY SMTT(30), <1>2, <1>3, <1>7, CompletionFacts
  <1> QED BY <1>4, <1>6, <1>7, <1>8 DEF SamePeer

(* The answer to the next wheel state keeps the count. *)
LEMMA PublishStands ==
  ASSUME NEW p \in PeerRecords, NEW t \in Nat, Len(p.answered) = t - 1,
         \A k \in 1..Len(p.answered) : /\ p.answered[k].t = k
                                       /\ ~p.answered[k].ok => p.answered[k].speed = 0
  PROVE  /\ Len(PublishCommand(p, t).answered) = t
         /\ \A k \in 1..Len(PublishCommand(p, t).answered) :
               /\ PublishCommand(p, t).answered[k].t = k
               /\ ~PublishCommand(p, t).answered[k].ok => PublishCommand(p, t).answered[k].speed = 0
  <1> DEFINE q == PublishCommand(p, t)
  <1>1. /\ Len(q.answered) = Len(p.answered) + 1
        /\ \A k \in 1..Len(p.answered) : q.answered[k] = p.answered[k]
        /\ q.answered[Len(p.answered) + 1].t = t
        /\ ~q.answered[Len(p.answered) + 1].ok => q.answered[Len(p.answered) + 1].speed = 0
    BY PublishFacts
  <1> HIDE DEF q
  <1>2. p.answered \in Seq(GolfAnswers)
    BY DEF PeerRecords
  <1>3. Len(p.answered) \in Nat
    BY <1>2
  <1>4. ASSUME NEW k \in 1..Len(q.answered)
        PROVE  q.answered[k].t = k /\ (~q.answered[k].ok => q.answered[k].speed = 0)
    <2>1. CASE k \in 1..Len(p.answered)
      BY <1>1, <2>1
    <2>2. CASE k = Len(p.answered) + 1
      BY <1>1, <1>3, <2>2
    <2> QED BY <1>1, <1>3, <2>1, <2>2
  <1>5. Len(q.answered) = t
    BY <1>1, <1>3
  <1> QED BY <1>4, <1>5 DEF q

LEMMA DispatchFacts ==
  ASSUME NEW p \in PeerRecords, PeerStands(p)
  PROVE  /\ Dispatch(p) \in PeerRecords /\ SamePeer(Dispatch(p), p) /\ PeerStands(Dispatch(p))
         /\ Len(p.answered) <= Len(Dispatch(p).answered)
         /\ p.fault => Dispatch(p).pending = 0
         /\ Dispatch(p).pending # 0 => Dispatch(p) = p /\ NeedsPose(p, p.pending)
  <1>1. p.answered \in Seq(GolfAnswers) /\ p.pending \in Nat /\ p.wheel \in Nat
        /\ Len(p.answered) \in Nat
    <2>1. p.answered \in Seq(GolfAnswers) /\ p.pending \in Nat /\ p.wheel \in Nat
      BY DEF PeerRecords
    <2> QED BY <2>1
  <1>2. CASE p.pending = 0 \/ NeedsPose(p, p.pending)
    <2>1. Dispatch(p) = p
      BY <1>2 DEF Dispatch
    <2>2. p.fault => p.pending = 0
      BY <1>2 DEF NeedsPose
    <2> QED BY <1>1, <1>2, <2>1, <2>2 DEF SamePeer
  <1>3. CASE ~(p.pending = 0 \/ NeedsPose(p, p.pending))
    <2> DEFINE h == [p EXCEPT !.pending = 0]
               q == PublishCommand(h, p.pending)
    <2>1. h \in PeerRecords /\ SamePeer(h, p) /\ h.pending = 0 /\ h.answered = p.answered
      BY DEF PeerRecords, SamePeer
    <2>2. Dispatch(p) = q
      BY <1>3 DEF Dispatch
    <2> HIDE DEF h
    <2>3. q \in PeerRecords /\ SamePeer(q, h) /\ q.pending = 0
      BY <1>1, <2>1, PublishFacts
    <2>4. p.pending = p.wheel /\ Len(h.answered) = p.pending - 1
      BY <1>1, <1>3, <2>1 DEF PeerStands
    <2>5. /\ Len(q.answered) = p.pending
          /\ \A k \in 1..Len(q.answered) : /\ q.answered[k].t = k
                                           /\ ~q.answered[k].ok => q.answered[k].speed = 0
      <3>1. \A k \in 1..Len(h.answered) : /\ h.answered[k].t = k
                                          /\ ~h.answered[k].ok => h.answered[k].speed = 0
        BY <2>1 DEF PeerStands
      <3> QED BY <1>1, <2>1, <2>4, <3>1, PublishStands
    <2> HIDE DEF q
    <2>6. SamePeer(q, p)
      BY <2>1, <2>3 DEF SamePeer
    <2>7. PeerStands(q)
      BY <2>3, <2>4, <2>5, <2>6 DEF PeerStands, SamePeer
    <2>8. Len(p.answered) <= Len(q.answered)
      BY <1>1, <2>1, <2>4, <2>5
    <2> QED BY <2>2, <2>3, <2>6, <2>7, <2>8
  <1> QED BY <1>2, <1>3

(* What the peer sends continues what it had sent. *)
LEMMA SendsFacts ==
  ASSUME NEW left \in WireRecords, recd \in RecdRecords,
         golfPeer \in PeerRecords, golfPeer' \in PeerRecords, PeerStands(golfPeer)', 
         Len(golfPeer.answered) <= Len(golfPeer'.answered), Sends(left)
  PROVE  /\ wires' \in WireRecords /\ recd' \in RecdRecords
         /\ wires'.wheel = left.wheel /\ wires'.rtk = left.rtk /\ wires'.imu = left.imu
         /\ wires'.mishaps = left.mishaps
         /\ Len(wires'.command) = Len(left.command) + (Len(golfPeer'.answered) - Len(golfPeer.answered))
         /\ \A k \in 1..Len(left.command) : wires'.command[k] = left.command[k]
         /\ \A k \in (Len(left.command) + 1)..Len(wires'.command) :
               wires'.command[k].t = Len(golfPeer.answered) + (k - Len(left.command))
         /\ recd'.pc = recd.pc /\ recd'.exit = recd.exit
         /\ recd.pc # "run" => recd' = recd
  <1> DEFINE m == Len(golfPeer.answered)
             n == Len(golfPeer'.answered)
             news == SubSeq(golfPeer'.answered, m + 1, n)
             sent == [k \in 1..Len(news) |-> [t |-> news[k].t, speed |-> news[k].speed]]
  <1>1. golfPeer.answered \in Seq(GolfAnswers) /\ golfPeer'.answered \in Seq(GolfAnswers)
    BY DEF PeerRecords
  <1>2. m \in Nat /\ n \in Nat /\ m <= n
    BY <1>1
  <1>3. news \in Seq(GolfAnswers) /\ Len(news) = n - m
        /\ \A k \in 1..(n - m) : news[k] = golfPeer'.answered[m + k]
    <2>1. \A k \in (m + 1)..n : golfPeer'.answered[k] \in GolfAnswers
      BY <1>1, <1>2
    <2>2. /\ news \in Seq(GolfAnswers) /\ Len(news) = IF m + 1 <= n THEN n - (m + 1) + 1 ELSE 0
          /\ \A k \in 1..n - (m + 1) + 1 : news[k] = golfPeer'.answered[(m + 1) + k - 1]
      <3> DEFINE a == golfPeer'.answered  from == m + 1
      <3>1. a \in Seq(GolfAnswers) /\ from \in 1..(Len(a) + 1) /\ n \in from - 1 .. Len(a)
        BY <1>1, <1>2
      <3> HIDE DEF a, from
      <3>2. /\ SubSeq(a, from, n) \in Seq(GolfAnswers)
            /\ Len(SubSeq(a, from, n)) = IF from <= n THEN n - from + 1 ELSE 0
            /\ \A k \in 1..n - from + 1 : SubSeq(a, from, n)[k] = a[from + k - 1]
        <4>1. \A i \in from..n : a[i] \in GolfAnswers
          BY <1>2, <3>1
        <4> QED BY <1>2, <3>1, <4>1, SubSeqProperties
      <3> QED BY <3>2 DEF a, from
    <2> HIDE DEF news, m, n
    <2>3. Len(news) = n - m /\ n - (m + 1) + 1 = n - m
      BY <1>2, <2>2
    <2>4. ASSUME NEW k \in 1..(n - m) PROVE news[k] = golfPeer'.answered[m + k]
      <3>1. (m + 1) + k - 1 = m + k
        BY <1>2
      <3> QED BY <2>2, <2>3, <3>1
    <2> QED BY <2>2, <2>3, <2>4
  <1>4. \A k \in 1..n : golfPeer'.answered[k].t = k
    BY DEF PeerStands
  <1> HIDE DEF news
  <1>5. ASSUME NEW k \in 1..(n - m) PROVE news[k] \in GolfAnswers /\ news[k].t = m + k
    <2>1. k \in 1..Len(news) /\ m + k \in 1..n
      BY <1>2, <1>3
    <2>2. news[k] = golfPeer'.answered[m + k] /\ news[k] \in GolfAnswers
      BY <1>3, <2>1
    <2> QED BY <1>4, <2>1, <2>2
  <1>6. sent \in Seq([t : Nat, speed : Nat]) /\ Len(sent) = n - m
        /\ \A k \in 1..(n - m) : sent[k].t = m + k
    <2>1. \A k \in 1..Len(news) : [t |-> news[k].t, speed |-> news[k].speed] \in [t : Nat, speed : Nat]
      BY <1>3, <1>5 DEF GolfAnswers
    <2>2. Len(news) \in Nat
      BY <1>3
    <2>3. sent \in [1..Len(news) -> [t : Nat, speed : Nat]]
      BY <2>1
    <2>4. sent \in Seq([t : Nat, speed : Nat]) /\ Len(sent) = Len(news)
      BY <2>2, <2>3
    <2> QED BY <1>3, <1>5, <2>4
  <1>7. /\ wires' = [left EXCEPT !.command = @ \o sent]
        /\ recd' = IF recd.pc = "run" THEN [recd EXCEPT !.counts["command"] = @ + Len(sent)] ELSE recd
    BY DEF Sends, NewAnswers, news
  <1> HIDE DEF sent, m, n
  <1>8. left.command \in Seq([t : Nat, speed : Nat])
    BY DEF WireRecords
  <1> DEFINE cs == left.command \o sent
  <1> DEFINE R == [t : Nat, speed : Nat]  l == left.command
  <1>9. /\ cs \in Seq([t : Nat, speed : Nat]) /\ Len(cs) = Len(left.command) + (n - m)
        /\ \A k \in 1..Len(left.command) : cs[k] = left.command[k]
        /\ \A k \in (Len(left.command) + 1)..Len(cs) : cs[k].t = m + (k - Len(left.command))
    <2>1. cs \in Seq([t : Nat, speed : Nat]) /\ Len(cs) = Len(left.command) + Len(sent)
          /\ \A k \in 1..Len(cs) : cs[k] = IF k <= Len(left.command) THEN left.command[k]
                                           ELSE sent[k - Len(left.command)]
      <3>1. l \in Seq(R) /\ sent \in Seq(R)
        BY <1>6, <1>8
      <3> HIDE DEF l, R
      <3>2. /\ l \o sent \in Seq(R) /\ Len(l \o sent) = Len(l) + Len(sent)
            /\ \A k \in 1..Len(l) + Len(sent) :
                  (l \o sent)[k] = IF k <= Len(l) THEN l[k] ELSE sent[k - Len(l)]
        BY <3>1, ConcatProperties
      <3> QED BY <3>2 DEF l, R
    <2>2. Len(left.command) \in Nat
      BY <1>8
    <2>3. ASSUME NEW k \in (Len(left.command) + 1)..Len(cs)
          PROVE  cs[k].t = m + (k - Len(left.command))
      <3>1. k \in 1..Len(cs) /\ ~(k <= Len(left.command)) /\ k - Len(left.command) \in 1..(n - m)
        BY <1>2, <1>6, <2>1, <2>2
      <3>2. cs[k] = sent[k - Len(left.command)]
        BY <2>1, <3>1
      <3> DEFINE j == k - Len(left.command)
      <3>3. j \in 1..(n - m) /\ cs[k] = sent[j]
        BY <3>1, <3>2
      <3> HIDE DEF j, cs
      <3>4. cs[k].t = m + j
        BY <1>6, <3>3
      <3> QED BY <3>4 DEF j
    <2> HIDE DEF cs
    <2>4. Len(cs) = Len(left.command) + (n - m)
      BY <1>6, <2>1
    <2>5. \A k \in 1..Len(left.command) : cs[k] = left.command[k]
      <3> SUFFICES ASSUME NEW k \in 1..Len(left.command) PROVE cs[k] = left.command[k]
        OBVIOUS
      <3>1. k \in 1..Len(cs) /\ k <= Len(left.command)
        BY <1>2, <2>2, <2>4
      <3> QED BY <2>1, <3>1
    <2> QED BY <2>1, <2>3, <2>4, <2>5
  <1> HIDE DEF cs
  <1>10. /\ wires' \in WireRecords /\ wires'.wheel = left.wheel /\ wires'.rtk = left.rtk
         /\ wires'.imu = left.imu /\ wires'.mishaps = left.mishaps /\ wires'.command = cs
    <2>1. wires' = [left EXCEPT !.command = cs]
      BY <1>7 DEF cs
    <2> QED BY <1>9, <2>1 DEF WireRecords
  <1>11. recd' \in RecdRecords /\ recd'.pc = recd.pc /\ recd'.exit = recd.exit
         /\ (recd.pc # "run" => recd' = recd)
    <2> DEFINE c == [recd.counts EXCEPT !["command"] = @ + Len(sent)]
    <2>1. Len(sent) \in Nat
      BY <1>6
    <2>2. c \in [GolfTopics -> Nat]
      BY <2>1 DEF RecdRecords, GolfTopics
    <2>3. recd' = IF recd.pc = "run" THEN [recd EXCEPT !.counts = c] ELSE recd
      BY <1>7
    <2> HIDE DEF c
    <2> QED BY <2>2, <2>3 DEF RecdRecords
  <1> QED BY <1>9, <1>10, <1>11 DEF m, n

-----------------------------------------------------------------------------
(* Steps that touch nothing of the lock-step.                              *)
LockRests ==
    /\ wires' = wires
    /\ simu'.tick = simu.tick /\ simu'.latest = simu.latest
    /\ simu'.pc # "dead" => /\ simu.pc # "dead"
                            /\ (simu'.pc = "answer") = (simu.pc = "answer")
                            /\ NotStarted' = NotStarted
    /\ golfPeer'.wheel = golfPeer.wheel /\ golfPeer'.rtk = golfPeer.rtk
    /\ golfPeer'.imu = golfPeer.imu /\ golfPeer'.pending = golfPeer.pending
    /\ golfPeer'.fault = golfPeer.fault /\ golfPeer'.answered = golfPeer.answered

(* Whether a pose is missing depends on the poses alone, and on the fault. *)
LEMMA NeedsPoseSame ==
  ASSUME NEW p, NEW q, NEW t, p.fault = q.fault, LatestPose(p) = LatestPose(q)
  PROVE  NeedsPose(p, t) = NeedsPose(q, t)
  <1>1. PoseAt(p, t) = PoseAt(q, t)
    BY DEF PoseAt
  <1> QED BY <1>1 DEF NeedsPose

LEMMA LockKeeps == LockStep /\ LockRests => LockStep'
  <1> SUFFICES ASSUME LockStep, LockRests, wires.mishaps' = 0, simu'.pc # "dead"
               PROVE  /\ WheelsUnderWay' /\ CommandsUnderWay' /\ SimuWaits'
                      /\ PosesUnderWay(wires.rtk, golfPeer.rtk)'
                      /\ PosesUnderWay(wires.imu, golfPeer.imu)'
                      /\ golfPeer'.pending # 0 => NeedsPose(golfPeer', golfPeer'.pending)
    BY DEF LockStep
  <1>1. /\ WheelsUnderWay /\ CommandsUnderWay /\ SimuWaits
        /\ PosesUnderWay(wires.rtk, golfPeer.rtk) /\ PosesUnderWay(wires.imu, golfPeer.imu)
        /\ golfPeer.pending # 0 => NeedsPose(golfPeer, golfPeer.pending)
    BY DEF LockStep, LockRests
  <1>2. Published' = Published
    BY DEF Published, LockRests
  <1>3. WheelsUnderWay' /\ CommandsUnderWay'
    BY <1>1 DEF WheelsUnderWay, CommandsUnderWay, LockRests
  <1>4. SimuWaits'
    BY <1>1 DEF SimuWaits, LockRests
  <1>5. PosesUnderWay(wires.rtk, golfPeer.rtk)' /\ PosesUnderWay(wires.imu, golfPeer.imu)'
    BY <1>1, <1>2 DEF PosesUnderWay, LockRests
  <1>6. golfPeer'.pending # 0 => NeedsPose(golfPeer', golfPeer'.pending)
    <2>1. LatestPose(golfPeer') = LatestPose(golfPeer) /\ golfPeer'.fault = golfPeer.fault
      BY DEF LatestPose, LockRests
    <2>2. NeedsPose(golfPeer', golfPeer'.pending) = NeedsPose(golfPeer, golfPeer.pending)
      BY <2>1, NeedsPoseSame DEF LockRests
    <2> QED BY <1>1, <2>2 DEF LockRests
  <1> QED BY <1>3, <1>4, <1>5, <1>6

LEMMA GolfTypesApply ==
  ASSUME GolfTypes
  PROVE  /\ orch \in OrchRecords /\ simu \in SimuRecords /\ golfPeer \in PeerRecords
         /\ recd \in RecdRecords /\ wires \in WireRecords /\ wires.mishaps \in Nat
  BY DEF GolfTypes, WireRecords

LEMMA MishapFacts ==
  ASSUME NEW w \in WireRecords, NEW happens \in BOOLEAN
  PROVE  /\ Mishap(w, happens) \in WireRecords
         /\ Mishap(w, happens).wheel = w.wheel /\ Mishap(w, happens).rtk = w.rtk
         /\ Mishap(w, happens).imu = w.imu /\ Mishap(w, happens).command = w.command
         /\ (happens => Mishap(w, happens).mishaps # 0) /\ (~happens => Mishap(w, happens) = w)
  <1> DEFINE n == IF happens THEN w.mishaps + 1 ELSE w.mishaps
  <1>1. n \in Nat /\ (happens => n # 0) /\ (~happens => n = w.mishaps)
    BY DEF WireRecords
  <1>2. Mishap(w, happens) = [w EXCEPT !.mishaps = n]
    BY DEF Mishap
  <1> HIDE DEF n
  <1> QED BY <1>1, <1>2 DEF WireRecords

(* Once something has gone wrong from outside, the lock-step is off. *)
LEMMA NoLockStep == ASSUME wires'.mishaps # 0 PROVE LockStep'
  BY DEF LockStep

LEMMA GolfInitially == GolfInit => GolfInv
  <1> SUFFICES ASSUME GolfInit PROVE GolfInv
    OBVIOUS
  <1>1. GolfTypes
    BY DEF GolfInit, GolfTypes, OrchRecords, SimuRecords, PeerRecords, RecdRecords, WireRecords,
         GolfEnds, GolfResults
  <1>2. PeerStands(golfPeer)
    BY DEF GolfInit, PeerStands
  <1>3. LockStep
    <2>1. Published = 0
      BY DEF GolfInit, Published, NotStarted
    <2> QED BY <2>1 DEF GolfInit, LockStep, WheelsUnderWay, CommandsUnderWay, SimuWaits, PosesUnderWay,
               NotStarted
  <1>4. SessionStands
    BY DEF GolfInit, SessionStands, SimuEnded, PeerEnded, RecdEnded, JudgedPcs
  <1> QED BY <1>1, <1>2, <1>3, <1>4 DEF GolfInv

(* The orchestrator's steps up to the judgement. *)
LEMMA OrchRests ==
  ASSUME GolfInv, UNCHANGED <<simu, golfPeer, recd, wires>>, orch' \in OrchRecords, SessionStands'
  PROVE  GolfInv'
  <1>1. LockRests
    BY DEF LockRests, NotStarted
  <1>2. LockStep'
    BY <1>1, LockKeeps DEF GolfInv
  <1>3. GolfTypes' /\ PeerStands(golfPeer)'
    BY DEF GolfInv, GolfTypes, PeerStands
  <1> QED BY <1>2, <1>3 DEF GolfInv

LEMMA OrchestratorKeeps ==
  ASSUME GolfInv,
         \/ \E ok \in BOOLEAN : Preflight(ok) \/ WaitReady(~ok) \/ Metrics(ok) \/ ExportLidar(ok) \/ Replay(ok)
         \/ WaitCompletion \/ Validate \/ PublishFault \/ EndGrace
  PROVE  GolfInv'
  <1>1. orch \in OrchRecords
    BY DEF GolfInv, GolfTypes
  <1>2. UNCHANGED <<simu, golfPeer, recd, wires>>
    BY DEF Preflight, WaitReady, Metrics, ExportLidar, Judge, Replay, WaitCompletion, Validate,
         PublishFault, EndGrace
  <1>3. CASE \E ok \in BOOLEAN : Preflight(ok) \/ WaitReady(~ok)
    <2>1. /\ orch' \in OrchRecords /\ orch'.accepted = orch.accepted
          /\ orch.pc \in {"preflight", "ready"}
          /\ orch'.pc \in {"spawn", "refused", "fault", "run"}
          /\ orch'.pc \in {"refused", "spawn"} => orch.pc = "preflight"
      BY <1>1, <1>3 DEF Preflight, WaitReady, OrchGoes, OrchRecords
    <2>2. SessionStands'
      BY <1>2, <2>1 DEF GolfInv, SessionStands, SimuEnded, PeerEnded, RecdEnded, JudgedPcs, GolfAlive
    <2> QED BY <1>2, <2>1, <2>2, OrchRests
  <1>4. CASE \E ok \in BOOLEAN : Metrics(ok) \/ ExportLidar(ok) \/ Replay(ok)
    <2>1. /\ orch' \in OrchRecords /\ orch.pc \in JudgedPcs \ {"done"}
          /\ orch'.pc \in JudgedPcs \cup {"fault"}
          /\ orch'.accepted => orch.accepted \/ orch'.pc = "done"
      BY ZenonT(60), <1>1, <1>4 DEF Metrics, ExportLidar, Judge, Replay, OrchGoes, OrchRecords, JudgedPcs
    <2>2. SessionStands'
      BY <1>2, <2>1 DEF GolfInv, SessionStands, SimuEnded, PeerEnded, RecdEnded, JudgedPcs, GolfAlive
    <2> QED BY <1>2, <2>1, <2>2, OrchRests
  <1>5. CASE WaitCompletion
    <2>1. /\ orch' \in OrchRecords /\ orch'.accepted = orch.accepted /\ orch.pc = "run"
          /\ orch'.pc = "fault" \/ (orch'.pc = "validate" /\ Exits = {"ok"})
      BY <1>1, <1>5 DEF WaitCompletion, OrchGoes, OrchRecords
    <2>2. Exits = {"ok"} => simu.pc = "dead" /\ golfPeer.pc = "dead" /\ recd.pc = "dead"
      BY DEF Exits, GolfInv, SessionStands, SimuEnded, PeerEnded, RecdEnded
    <2>3. SessionStands'
      BY <1>2, <2>1, <2>2 DEF GolfInv, SessionStands, SimuEnded, PeerEnded, RecdEnded, JudgedPcs, GolfAlive
    <2> QED BY <1>2, <2>1, <2>3, OrchRests
  <1>6. CASE Validate
    <2>1. /\ orch' \in OrchRecords /\ orch'.accepted = orch.accepted /\ orch.pc = "validate"
          /\ \/ orch'.pc = "fault"
             \/ orch'.pc = "metrics" /\ recd.counts = ExpectedCounts
                  /\ simu.result = "clean" /\ golfPeer.result = "clean"
      BY <1>1, <1>6 DEF Validate, OrchGoes, OrchRecords, SimulatorHolds, CommandHolds, IndexHolds
    <2>2. SessionStands'
      BY <1>2, <2>1 DEF GolfInv, SessionStands, SimuEnded, PeerEnded, RecdEnded, JudgedPcs, GolfAlive
    <2> QED BY <1>2, <2>1, <2>2, OrchRests
  <1>7. CASE PublishFault \/ EndGrace
    <2>1. /\ orch' \in OrchRecords /\ orch'.accepted = orch.accepted /\ orch.pc \in {"fault", "grace"}
          /\ orch'.pc \in {"grace", "kill"}
      BY <1>1, <1>7 DEF PublishFault, EndGrace, OrchGoes, OrchRecords
    <2>2. SessionStands'
      BY <1>2, <2>1 DEF GolfInv, SessionStands, SimuEnded, PeerEnded, RecdEnded, JudgedPcs, GolfAlive
    <2> QED BY <1>2, <2>1, <2>2, OrchRests
  <1> QED BY <1>3, <1>4, <1>5, <1>6, <1>7

(* Processes that start, end or are ended. *)
LEMMA ProcessRests ==
  ASSUME GolfInv, GolfTypes', SessionStands', UNCHANGED <<wires>>,
         simu'.tick = simu.tick, simu'.latest = simu.latest,
         simu'.pc # "dead" => /\ simu.pc # "dead" /\ (simu'.pc = "answer") = (simu.pc = "answer")
                              /\ NotStarted' = NotStarted,
         golfPeer'.wheel = golfPeer.wheel, golfPeer'.rtk = golfPeer.rtk, golfPeer'.imu = golfPeer.imu,
         golfPeer'.pending = golfPeer.pending, golfPeer'.fault = golfPeer.fault,
         golfPeer'.answered = golfPeer.answered
  PROVE  GolfInv'
  <1>1. LockRests
    BY DEF LockRests
  <1>2. LockStep'
    BY <1>1, LockKeeps DEF GolfInv
  <1>3. PeerStands(golfPeer)'
    BY DEF GolfInv, PeerStands
  <1> QED BY <1>2, <1>3 DEF GolfInv

LEMMA StopGroupsKeeps == GolfInv /\ StopGroups => GolfInv'
  <1> SUFFICES ASSUME GolfInv, StopGroups PROVE GolfInv'
    OBVIOUS
  <1>1. /\ orch \in OrchRecords /\ simu \in SimuRecords /\ golfPeer \in PeerRecords
        /\ recd \in RecdRecords /\ wires \in WireRecords
    BY GolfTypesApply DEF GolfInv
  <1>2. orch.pc = "kill" /\ wires' = wires
    BY DEF StopGroups
  <1>3. SessionStands
    BY DEF GolfInv
  <1>4. CASE GolfAlive(golfPeer)
    <2>1. golfPeer' = [golfPeer EXCEPT !.pc = "dead", !.exit = "killed"] /\ UNCHANGED <<orch, simu, recd>>
      BY <1>4 DEF StopGroups
    <2>2. /\ golfPeer' \in PeerRecords /\ golfPeer'.pc = "dead" /\ golfPeer'.result = golfPeer.result
          /\ golfPeer'.wheel = golfPeer.wheel /\ golfPeer'.rtk = golfPeer.rtk
          /\ golfPeer'.imu = golfPeer.imu /\ golfPeer'.pending = golfPeer.pending
          /\ golfPeer'.fault = golfPeer.fault /\ golfPeer'.answered = golfPeer.answered
      BY <1>1, <2>1 DEF PeerRecords, GolfEnds
    <2>3. SessionStands'
      BY <1>2, <1>3, <2>1, <2>2 DEF SessionStands, SimuEnded, PeerEnded, RecdEnded, JudgedPcs
    <2>4. NotStarted' = NotStarted
      BY <2>1 DEF NotStarted
    <2> QED BY <1>1, <1>2, <2>1, <2>2, <2>3, <2>4, ProcessRests DEF GolfTypes
  <1>5. CASE ~GolfAlive(golfPeer) /\ GolfAlive(simu)
    <2>1. simu' = [simu EXCEPT !.pc = "dead", !.exit = "killed"] /\ UNCHANGED <<orch, golfPeer, recd>>
      BY <1>5 DEF StopGroups, SimuExits
    <2>2. /\ simu' \in SimuRecords /\ simu'.pc = "dead" /\ simu'.result = simu.result
          /\ simu'.tick = simu.tick /\ simu'.latest = simu.latest /\ simu'.fault = simu.fault
      BY <1>1, <2>1 DEF SimuRecords, GolfEnds
    <2>3. SessionStands'
      BY <1>2, <1>3, <2>1, <2>2 DEF SessionStands, SimuEnded, PeerEnded, RecdEnded, JudgedPcs
    <2> QED BY <1>1, <1>2, <2>1, <2>2, <2>3, ProcessRests DEF GolfTypes
  <1>6. CASE ~GolfAlive(golfPeer) /\ ~GolfAlive(simu) /\ GolfAlive(recd)
    <2>1. recd' = [recd EXCEPT !.pc = "dead", !.exit = "killed"] /\ UNCHANGED <<orch, golfPeer, simu>>
      BY <1>6 DEF StopGroups
    <2>2. /\ recd' \in RecdRecords /\ recd'.pc = "dead" /\ recd'.exit = "killed"
          /\ recd'.counts = recd.counts
      BY <1>1, <2>1 DEF RecdRecords, GolfEnds
    <2>3. SessionStands'
      BY <1>2, <1>3, <2>1, <2>2 DEF SessionStands, SimuEnded, PeerEnded, RecdEnded, JudgedPcs
    <2>4. NotStarted' = NotStarted
      BY <2>1 DEF NotStarted
    <2> QED BY <1>1, <1>2, <2>1, <2>2, <2>3, <2>4, ProcessRests DEF GolfTypes
  <1>7. CASE ~GolfAlive(golfPeer) /\ ~GolfAlive(simu) /\ ~GolfAlive(recd)
    <2>1. orch' = [orch EXCEPT !.pc = "failed"] /\ UNCHANGED <<simu, golfPeer, recd>>
      BY <1>7 DEF StopGroups, OrchGoes
    <2>2. orch' \in OrchRecords /\ orch'.pc = "failed" /\ orch'.accepted = orch.accepted
      BY <1>1, <2>1 DEF OrchRecords
    <2>3. SessionStands'
      BY <1>2, <1>3, <1>7, <2>1, <2>2 DEF SessionStands, SimuEnded, PeerEnded, RecdEnded, JudgedPcs, GolfAlive
    <2> QED BY <1>2, <2>1, <2>2, <2>3, OrchRests
  <1> QED BY <1>4, <1>5, <1>6, <1>7

(* Losses, stalls and crashes: the lock-step is off. *)
LEMMA MishapsKeep ==
  ASSUME GolfInv,
         \/ \E topic \in {"wheel", "rtk", "imu", "command"} : LoseMessage(topic)
         \/ Stall \/ Crash
  PROVE  GolfInv'
  <1>1. /\ orch \in OrchRecords /\ simu \in SimuRecords /\ golfPeer \in PeerRecords
        /\ recd \in RecdRecords /\ wires \in WireRecords
    BY GolfTypesApply DEF GolfInv
  <1>2. /\ Mishap(wires, TRUE) \in WireRecords /\ Mishap(wires, TRUE).mishaps # 0
        /\ Mishap(wires, TRUE).wheel = wires.wheel /\ Mishap(wires, TRUE).rtk = wires.rtk
        /\ Mishap(wires, TRUE).imu = wires.imu /\ Mishap(wires, TRUE).command = wires.command
    BY <1>1, MishapFacts
  <1>3. ASSUME wires' \in WireRecords, wires'.mishaps # 0, UNCHANGED <<orch, simu, golfPeer, recd>>
        PROVE  GolfInv'
    <2>1. GolfTypes' /\ PeerStands(golfPeer)' /\ SessionStands'
      BY <1>1, <1>3 DEF GolfInv, GolfTypes, PeerStands, SessionStands, SimuEnded, PeerEnded, RecdEnded,
           GolfAlive
    <2> QED BY <1>3, <2>1, NoLockStep DEF GolfInv
  <1>4. CASE Stall
    BY <1>2, <1>3, <1>4 DEF Stall
  <1>5. ASSUME NEW topic \in {"wheel", "rtk", "imu", "command"}, LoseMessage(topic) PROVE GolfInv'
    <2> DEFINE m == Mishap(wires, TRUE)
    <2>1. wires' = [m EXCEPT ![topic] = Tail(@)] /\ wires[topic] # <<>>
          /\ UNCHANGED <<orch, simu, golfPeer, recd>>
      BY <1>5 DEF LoseMessage
    <2>2. m \in WireRecords /\ m.mishaps # 0 /\ m[topic] # <<>>
      BY <1>2, <2>1
    <2> HIDE DEF m
    <2>3. wires' \in WireRecords /\ wires'.mishaps # 0
      <3>1. CASE topic = "wheel"
        <4> DEFINE rest == Tail(m.wheel)
        <4>1. wires' = [m EXCEPT !.wheel = rest] /\ m.wheel # <<>>
          BY <2>1, <2>2, <3>1
        <4>2. m.wheel \in Seq([t : Nat, moving : BOOLEAN])
          BY <2>2 DEF WireRecords
        <4>3. rest \in Seq([t : Nat, moving : BOOLEAN])
          BY <4>1, <4>2
        <4> HIDE DEF rest
        <4> QED BY <2>2, <4>1, <4>3 DEF WireRecords
      <3>2. CASE topic = "rtk"
        <4> DEFINE rest == Tail(m.rtk)
        <4>1. wires' = [m EXCEPT !.rtk = rest] /\ m.rtk # <<>>
          BY <2>1, <2>2, <3>2
        <4>2. m.rtk \in Seq(Nat)
          BY <2>2 DEF WireRecords
        <4>3. rest \in Seq(Nat)
          BY <4>1, <4>2
        <4> HIDE DEF rest
        <4> QED BY <2>2, <4>1, <4>3 DEF WireRecords
      <3>3. CASE topic = "imu"
        <4> DEFINE rest == Tail(m.imu)
        <4>1. wires' = [m EXCEPT !.imu = rest] /\ m.imu # <<>>
          BY <2>1, <2>2, <3>3
        <4>2. m.imu \in Seq(Nat)
          BY <2>2 DEF WireRecords
        <4>3. rest \in Seq(Nat)
          BY <4>1, <4>2
        <4> HIDE DEF rest
        <4> QED BY <2>2, <4>1, <4>3 DEF WireRecords
      <3>4. CASE topic = "command"
        <4> DEFINE rest == Tail(m.command)
        <4>1. wires' = [m EXCEPT !.command = rest] /\ m.command # <<>>
          BY <2>1, <2>2, <3>4
        <4>2. m.command \in Seq([t : Nat, speed : Nat])
          BY <2>2 DEF WireRecords
        <4>3. rest \in Seq([t : Nat, speed : Nat])
          BY <4>1, <4>2
        <4> HIDE DEF rest
        <4> QED BY <2>2, <4>1, <4>3 DEF WireRecords
      <3> QED BY <1>5, <3>1, <3>2, <3>3, <3>4
    <2> QED BY <1>3, <2>1, <2>3
  <1>6. CASE Crash
    <2>1. wires' = Mishap(wires, TRUE) /\ orch' = orch
      BY <1>6 DEF Crash
    <2>2. wires' \in WireRecords /\ LockStep'
      BY <1>2, <2>1, NoLockStep
    <2>3. SessionStands
      BY DEF GolfInv
    <2>4. CASE simu.pc \notin {"none", "dead"} /\ SimuExits("killed") /\ UNCHANGED <<golfPeer, recd>>
      <3>1. simu' \in SimuRecords /\ simu'.pc = "dead" /\ simu'.result = simu.result
            /\ simu'.fault = simu.fault
        BY <1>1, <2>4 DEF SimuExits, SimuRecords, GolfEnds
      <3>2. SessionStands'
        BY <2>1, <2>3, <2>4, <3>1 DEF SessionStands, SimuEnded, PeerEnded, RecdEnded, JudgedPcs, GolfAlive
      <3> QED BY <1>1, <2>1, <2>2, <2>4, <3>1, <3>2 DEF GolfInv, GolfTypes, PeerStands
    <2>5. CASE /\ golfPeer.pc \notin {"none", "dead"}
               /\ golfPeer' = [golfPeer EXCEPT !.pc = "dead", !.exit = "killed"]
               /\ UNCHANGED <<simu, recd>>
      <3>1. /\ golfPeer' \in PeerRecords /\ golfPeer'.pc = "dead" /\ golfPeer'.result = golfPeer.result
            /\ golfPeer'.wheel = golfPeer.wheel /\ golfPeer'.pending = golfPeer.pending
            /\ golfPeer'.fault = golfPeer.fault /\ golfPeer'.answered = golfPeer.answered
        BY <1>1, <2>5 DEF PeerRecords, GolfEnds
      <3>2. SessionStands'
        BY <2>1, <2>3, <2>5, <3>1 DEF SessionStands, SimuEnded, PeerEnded, RecdEnded, JudgedPcs, GolfAlive
      <3>3. PeerStands(golfPeer)'
        BY <3>1 DEF GolfInv, PeerStands
      <3> QED BY <1>1, <2>1, <2>2, <2>5, <3>1, <3>2, <3>3 DEF GolfInv, GolfTypes
    <2>6. CASE /\ recd.pc = "run" /\ recd' = [recd EXCEPT !.pc = "dead", !.exit = "killed"]
               /\ UNCHANGED <<simu, golfPeer>>
      <3>1. recd' \in RecdRecords /\ recd'.pc = "dead" /\ recd'.exit = "killed"
        BY <1>1, <2>6 DEF RecdRecords, GolfEnds
      <3>2. SessionStands'
        BY <2>1, <2>3, <2>6, <3>1 DEF SessionStands, SimuEnded, PeerEnded, RecdEnded, JudgedPcs, GolfAlive
      <3> QED BY <1>1, <2>1, <2>2, <2>6, <3>1, <3>2 DEF GolfInv, GolfTypes, PeerStands
    <2> QED BY <1>6, <2>4, <2>5, <2>6 DEF Crash
  <1> QED BY <1>4, <1>5, <1>6

(* The processes are started; what does not start is a fault. *)
LEMMA SpawnKeeps == ASSUME GolfInv, NEW ok \in BOOLEAN, Spawn(ok) PROVE GolfInv'
  <1>1. /\ orch \in OrchRecords /\ simu \in SimuRecords /\ golfPeer \in PeerRecords
        /\ recd \in RecdRecords /\ wires \in WireRecords
    BY GolfTypesApply DEF GolfInv
  <1>2. orch.pc = "spawn" /\ SessionStands
    BY DEF GolfInv, Spawn
  <1>3. CASE ~ok
    <2>1. /\ wires' = Mishap(wires, TRUE) /\ orch' = [orch EXCEPT !.pc = "fault"]
          /\ UNCHANGED <<simu, golfPeer, recd>>
      BY <1>3 DEF Spawn, OrchGoes
    <2>2. wires' \in WireRecords /\ LockStep'
      BY <1>1, <2>1, MishapFacts, NoLockStep
    <2>3. orch' \in OrchRecords /\ orch'.pc = "fault" /\ orch'.accepted = orch.accepted
      BY <1>1, <2>1 DEF OrchRecords
    <2>4. SessionStands'
      BY <1>2, <2>1, <2>3 DEF SessionStands, SimuEnded, PeerEnded, RecdEnded, JudgedPcs, GolfAlive
    <2> QED BY <1>1, <2>1, <2>2, <2>3, <2>4 DEF GolfInv, GolfTypes, PeerStands
  <1>4. ok => wires' = wires
    BY <1>1, MishapFacts DEF Spawn
  <1>5. CASE ok /\ recd.pc = "none"
    <2>1. recd' = [recd EXCEPT !.pc = "run"] /\ UNCHANGED <<orch, simu, golfPeer, wires>>
      BY <1>4, <1>5 DEF Spawn
    <2>2. /\ recd' \in RecdRecords /\ recd'.pc = "run" /\ recd'.exit = recd.exit
      BY <1>1, <2>1 DEF RecdRecords
    <2>3. SessionStands'
      BY <1>2, <1>5, <2>1, <2>2 DEF SessionStands, SimuEnded, PeerEnded, RecdEnded, JudgedPcs, GolfAlive
    <2>4. NotStarted' = NotStarted
      BY <2>1 DEF NotStarted
    <2> QED BY <1>1, <2>1, <2>2, <2>3, <2>4, ProcessRests DEF GolfTypes
  <1>6. CASE ok /\ recd.pc # "none" /\ simu.pc = "none"
    <2>1. simu' = [simu EXCEPT !.pc = "boot"] /\ UNCHANGED <<orch, recd, golfPeer, wires>>
      BY <1>4, <1>6 DEF Spawn
    <2>2. /\ simu' \in SimuRecords /\ simu'.pc = "boot" /\ simu'.exit = simu.exit
          /\ simu'.result = simu.result /\ simu'.tick = simu.tick /\ simu'.latest = simu.latest
          /\ simu'.fault = simu.fault
      BY <1>1, <2>1 DEF SimuRecords
    <2>3. SessionStands'
      BY <1>2, <1>6, <2>1, <2>2 DEF SessionStands, SimuEnded, PeerEnded, RecdEnded, JudgedPcs, GolfAlive
    <2>4. NotStarted' = NotStarted
      BY <1>6, <2>2 DEF NotStarted
    <2> QED BY <1>1, <1>6, <2>1, <2>2, <2>3, <2>4, ProcessRests DEF GolfTypes
  <1>7. CASE ok /\ recd.pc # "none" /\ simu.pc # "none"
    <2>1. /\ golfPeer' = [golfPeer EXCEPT !.pc = "peers"] /\ orch' = [orch EXCEPT !.pc = "ready"]
          /\ UNCHANGED <<simu, recd, wires>>
      BY <1>4, <1>7 DEF Spawn, OrchGoes
    <2>2. /\ golfPeer' \in PeerRecords /\ golfPeer'.pc = "peers" /\ golfPeer'.result = golfPeer.result
          /\ golfPeer'.exit = golfPeer.exit
          /\ golfPeer'.wheel = golfPeer.wheel /\ golfPeer'.rtk = golfPeer.rtk
          /\ golfPeer'.imu = golfPeer.imu /\ golfPeer'.pending = golfPeer.pending
          /\ golfPeer'.fault = golfPeer.fault /\ golfPeer'.answered = golfPeer.answered
          /\ orch' \in OrchRecords /\ orch'.pc = "ready" /\ orch'.accepted = orch.accepted
      BY <1>1, <2>1 DEF PeerRecords, OrchRecords
    <2>3. SessionStands'
      BY <1>2, <1>7, <2>1, <2>2 DEF SessionStands, SimuEnded, PeerEnded, RecdEnded, JudgedPcs, GolfAlive
    <2>4. NotStarted' = NotStarted
      BY <2>1 DEF NotStarted
    <2> QED BY <1>1, <2>1, <2>2, <2>3, <2>4, ProcessRests DEF GolfTypes
  <1> QED BY <1>3, <1>5, <1>6, <1>7

(* The peer's and the recorder's own steps. *)
LEMMA PeerEndsKeep ==
  ASSUME GolfInv, GolfPeerReady \/ PeerStarts \/ PeerTimesOut \/ GolfPeerReports
  PROVE  GolfInv'
  <1>1. /\ orch \in OrchRecords /\ simu \in SimuRecords /\ golfPeer \in PeerRecords
        /\ recd \in RecdRecords /\ wires \in WireRecords
    BY GolfTypesApply DEF GolfInv
  <1>2. UNCHANGED <<orch, simu, recd, wires>> /\ SessionStands
    BY DEF GolfInv, GolfPeerReady, PeerStarts, PeerTimesOut, GolfPeerReports
  <1>3. /\ golfPeer' \in PeerRecords /\ golfPeer.pc \in {"peers", "waiting", "drive"}
        /\ golfPeer'.pc \in {"waiting", "drive", "dead"}
        /\ golfPeer'.wheel = golfPeer.wheel /\ golfPeer'.rtk = golfPeer.rtk
        /\ golfPeer'.imu = golfPeer.imu /\ golfPeer'.pending = golfPeer.pending
        /\ golfPeer'.fault = golfPeer.fault /\ golfPeer'.answered = golfPeer.answered
        /\ golfPeer'.exit # golfPeer.exit => golfPeer'.pc = "dead"
        /\ golfPeer'.result = golfPeer.result \/ (golfPeer'.pc = "dead"
                                                    /\ (golfPeer'.result = "clean" => ~golfPeer.fault))
    <2>1. CASE GolfPeerReady
      BY <1>1, <2>1 DEF GolfPeerReady, PeerRecords
    <2>2. CASE PeerStarts
      BY <1>1, <2>2 DEF PeerStarts, PeerRecords
    <2>3. CASE PeerTimesOut
      BY <1>1, <2>3 DEF PeerTimesOut, PeerRecords, GolfEnds
    <2>4. CASE GolfPeerReports
      <3> DEFINE r == IF golfPeer.fault THEN "faulted" ELSE "clean"
                 e == IF golfPeer.fault THEN "failed" ELSE "ok"
      <3>1. golfPeer' = [golfPeer EXCEPT !.pc = "dead", !.result = r, !.exit = e] /\ golfPeer.pc = "drive"
        BY <2>4 DEF GolfPeerReports
      <3>2. r \in GolfResults /\ e \in GolfEnds /\ (r = "clean" => ~golfPeer.fault)
        BY DEF GolfResults, GolfEnds
      <3> HIDE DEF r, e
      <3> QED BY <1>1, <3>1, <3>2 DEF PeerRecords
    <2> QED BY <2>1, <2>2, <2>3, <2>4
  <1>4. SessionStands'
    <2>1. PeerEnded'
      BY <1>2, <1>3 DEF SessionStands, PeerEnded
    <2>2. SimuEnded' /\ RecdEnded'
      BY <1>2 DEF SessionStands, SimuEnded, RecdEnded
    <2> QED BY <1>2, <1>3, <2>1, <2>2 DEF SessionStands, JudgedPcs, GolfAlive
  <1>5. NotStarted' = NotStarted
    BY <1>2 DEF NotStarted
  <1> QED BY <1>1, <1>2, <1>3, <1>4, <1>5, ProcessRests DEF GolfTypes

LEMMA RecorderEndKeeps == ASSUME GolfInv, NEW late \in BOOLEAN, GolfRecorderEnds(late) PROVE GolfInv'
  <1>1. /\ orch \in OrchRecords /\ simu \in SimuRecords /\ golfPeer \in PeerRecords
        /\ recd \in RecdRecords /\ wires \in WireRecords
    BY GolfTypesApply DEF GolfInv
  <1>2. UNCHANGED <<orch, simu, golfPeer, wires>> /\ SessionStands /\ recd.pc = "run"
    BY DEF GolfInv, GolfRecorderEnds
  <1> DEFINE e == IF recd.counts = ExpectedCounts THEN "ok" ELSE "failed"
  <1>3. recd' = [recd EXCEPT !.pc = "dead", !.exit = e]
        /\ e \in GolfEnds /\ (e = "ok" => recd.counts = ExpectedCounts)
    BY DEF GolfRecorderEnds, GolfEnds
  <1> HIDE DEF e
  <1>4. /\ recd' \in RecdRecords /\ recd'.pc = "dead" /\ recd'.counts = recd.counts
        /\ recd'.exit = "ok" => recd.counts = ExpectedCounts
    BY <1>1, <1>3 DEF RecdRecords
  <1>5. SessionStands'
    BY <1>2, <1>4 DEF SessionStands, SimuEnded, PeerEnded, RecdEnded, JudgedPcs, GolfAlive
  <1>6. NotStarted' = NotStarted
    BY <1>2 DEF NotStarted
  <1> QED BY <1>1, <1>2, <1>4, <1>5, <1>6, ProcessRests DEF GolfTypes

(* The recorder's copy. *)
LEMMA RecordFacts ==
  ASSUME recd \in RecdRecords, NEW topics, Record(topics)
  PROVE  /\ recd' \in RecdRecords /\ recd'.pc = recd.pc /\ recd'.exit = recd.exit
         /\ recd.pc # "run" => recd' = recd
  <1> DEFINE c == [t \in GolfTopics |-> IF t \in topics THEN recd.counts[t] + 1 ELSE recd.counts[t]]
  <1>1. c \in [GolfTopics -> Nat]
    BY DEF RecdRecords
  <1>2. recd' = IF recd.pc = "run" THEN [recd EXCEPT !.counts = c] ELSE recd
    BY DEF Record
  <1> HIDE DEF c
  <1> QED BY <1>1, <1>2 DEF RecdRecords

(* The simulator runs on. *)
LEMMA SimuRests ==
  ASSUME GolfInv, simu.pc \notin {"none", "dead"}, simu'.pc # "none", simu' \in SimuRecords,
         simu'.exit # simu.exit => simu'.pc = "dead",
         simu'.result = simu.result \/ (simu'.pc = "dead" /\ (simu'.result = "clean" => ~simu'.fault)),
         wires' \in WireRecords, UNCHANGED <<orch, golfPeer>>,
         recd' \in RecdRecords, recd'.pc = recd.pc, recd'.exit = recd.exit,
         recd.pc # "run" => recd' = recd, LockStep'
  PROVE  GolfInv'
  <1>1. SessionStands
    BY DEF GolfInv
  <1>2. SimuEnded'
    BY <1>1 DEF SessionStands, SimuEnded
  <1>3. PeerEnded' /\ RecdEnded'
    BY <1>1 DEF SessionStands, PeerEnded, RecdEnded
  <1>4. SessionStands'
    BY <1>1, <1>2, <1>3 DEF SessionStands, JudgedPcs, GolfAlive, RecdEnded
  <1>5. GolfTypes' /\ PeerStands(golfPeer)'
    BY DEF GolfInv, GolfTypes, PeerStands
  <1> QED BY <1>4, <1>5 DEF GolfInv

LEMMA SimuSmallSteps ==
  ASSUME GolfInv,
         SimuBoot \/ SimuReady \/ SimuTimesOut \/ SimuReports
  PROVE  GolfInv'
  <1>1. /\ orch \in OrchRecords /\ simu \in SimuRecords /\ golfPeer \in PeerRecords
        /\ recd \in RecdRecords /\ wires \in WireRecords /\ LockStep
    BY GolfTypesApply DEF GolfInv
  <1>2. UNCHANGED <<orch, golfPeer, recd, wires>>
    BY DEF SimuBoot, SimuReady, SimuTimesOut, SimuReports
  <1>3. CASE SimuBoot \/ SimuReady
    <2>1. /\ simu' \in SimuRecords /\ simu.pc \in {"boot", "peers"} /\ simu'.pc \in {"peers", "waiting"}
          /\ simu'.exit = simu.exit /\ simu'.result = simu.result
          /\ simu'.tick = simu.tick /\ simu'.latest = simu.latest
      BY <1>1, <1>3 DEF SimuBoot, SimuReady, SimuRecords
    <2>2. LockRests
      BY <1>2, <2>1 DEF LockRests, NotStarted
    <2>3. LockStep'
      BY <1>1, <2>2, LockKeeps
    <2> QED BY <1>1, <1>2, <2>1, <2>3, SimuRests
  <1>4. CASE SimuTimesOut \/ SimuReports
    <2>1. /\ simu' \in SimuRecords /\ simu.pc \notin {"none", "dead"} /\ simu'.pc = "dead"
          /\ simu'.result = simu.result \/ (simu'.result = "clean" => ~simu'.fault)
      <3>1. CASE SimuTimesOut
        BY <1>1, <3>1 DEF SimuTimesOut, SimuExits, SimuRecords, GolfEnds
      <3>2. CASE SimuReports
        <4> DEFINE r == IF simu.fault THEN "faulted" ELSE "clean"
                   e == IF simu.fault THEN "failed" ELSE "ok"
        <4>1. simu' = [simu EXCEPT !.pc = "dead", !.result = r, !.exit = e] /\ simu.pc = "report"
          BY <3>2 DEF SimuReports
        <4>2. r \in GolfResults /\ e \in GolfEnds /\ (r = "clean" => ~simu.fault)
          BY DEF GolfResults, GolfEnds
        <4> HIDE DEF r, e
        <4> QED BY <1>1, <4>1, <4>2 DEF SimuRecords
      <3> QED BY <1>4, <3>1, <3>2
    <2>2. LockStep'
      BY <2>1 DEF LockStep
    <2> QED BY <1>1, <1>2, <2>1, <2>2, SimuRests
  <1> QED BY <1>3, <1>4

LEMMA SafetyKeeps == ASSUME GolfInv, NEW trouble \in BOOLEAN, SimuSafety(trouble) PROVE GolfInv'
  <1>1. /\ orch \in OrchRecords /\ simu \in SimuRecords /\ golfPeer \in PeerRecords
        /\ recd \in RecdRecords /\ wires \in WireRecords /\ LockStep
    BY GolfTypesApply DEF GolfInv
  <1> DEFINE f == simu.fault \/ trouble
             m == Monitored(trouble)
             q == QuietFor(trouble)
             c == IF simu.tick = Duration \/ Settled(trouble) THEN "report" ELSE "step"
  <1>2. /\ simu' = [simu EXCEPT !.fault = f, !.monitor = m, !.quiet = q, !.pc = c] /\ simu.pc = "safety"
        /\ wires' = Mishap(wires, trouble) /\ UNCHANGED <<orch, golfPeer, recd>>
    BY DEF SimuSafety
  <1>3. f \in BOOLEAN /\ c \in {"report", "step"} /\ m \in BOOLEAN /\ q \in Nat
    <2>1. simu.fault \in BOOLEAN /\ simu.monitor \in BOOLEAN /\ simu.quiet \in Nat
      BY <1>1 DEF SimuRecords
    <2>2. m \in BOOLEAN
      BY <2>1 DEF Monitored
    <2>3. q \in Nat
      BY <2>1 DEF QuietFor
    <2> QED BY <2>1, <2>2, <2>3
  <1> HIDE DEF f, m, q, c
  <1>4. /\ simu' \in SimuRecords /\ simu'.pc \in {"report", "step"} /\ simu'.exit = simu.exit
        /\ simu'.result = simu.result /\ simu'.tick = simu.tick /\ simu'.latest = simu.latest
    BY <1>1, <1>2, <1>3 DEF SimuRecords
  <1>5. wires' \in WireRecords /\ (wires'.mishaps = 0 => wires' = wires)
    BY <1>1, <1>2, MishapFacts
  <1>6. LockStep'
    <2>1. CASE wires' = wires
      <3>1. LockRests
        BY <1>2, <1>4, <2>1 DEF LockRests, NotStarted
      <3> QED BY <1>1, <3>1, LockKeeps
    <2>2. CASE wires'.mishaps # 0
      BY <2>2, NoLockStep
    <2> QED BY <1>5, <2>1, <2>2
  <1> QED BY <1>1, <1>2, <1>4, <1>5, <1>6, SimuRests

LEMMA ZeroDiv == 0 \div PosePeriod = 0
  <1>1. PosePeriod \in Nat \ {0}
    BY GolfConstants
  <1> QED BY <1>1

(* The counts at a lock-step. *)
LEMMA LockFacts ==
  ASSUME GolfInv, wires.mishaps = 0, simu.pc # "dead"
  PROVE  /\ WheelsUnderWay /\ CommandsUnderWay /\ SimuWaits
         /\ PosesUnderWay(wires.rtk, golfPeer.rtk) /\ PosesUnderWay(wires.imu, golfPeer.imu)
         /\ golfPeer.pending # 0 => NeedsPose(golfPeer, golfPeer.pending)
         /\ Len(golfPeer.answered) <= golfPeer.wheel /\ golfPeer.wheel <= simu.tick
         /\ simu.latest + Len(wires.command) <= simu.tick
  <1>1. /\ WheelsUnderWay /\ CommandsUnderWay /\ SimuWaits
        /\ PosesUnderWay(wires.rtk, golfPeer.rtk) /\ PosesUnderWay(wires.imu, golfPeer.imu)
        /\ golfPeer.pending # 0 => NeedsPose(golfPeer, golfPeer.pending)
    BY DEF GolfInv, LockStep
  <1>2. /\ golfPeer.wheel \in Nat /\ golfPeer.pending \in Nat /\ Len(golfPeer.answered) \in Nat
        /\ Len(wires.wheel) \in Nat /\ Len(wires.command) \in Nat /\ simu.latest \in Nat
        /\ simu.tick \in Nat
    <2>1. /\ golfPeer.answered \in Seq(GolfAnswers) /\ golfPeer.wheel \in Nat
          /\ golfPeer.pending \in Nat /\ simu.latest \in Nat /\ simu.tick \in Nat
          /\ wires.command \in Seq([t : Nat, speed : Nat])
          /\ wires.wheel \in Seq([t : Nat, moving : BOOLEAN])
      BY DEF GolfInv, GolfTypes, PeerRecords, SimuRecords, WireRecords
    <2> QED BY <2>1
  <1>3. Len(golfPeer.answered) <= golfPeer.wheel
    BY <1>2 DEF GolfInv, PeerStands
  <1>4. golfPeer.wheel <= simu.tick
    BY <1>1, <1>2 DEF WheelsUnderWay
  <1>5. simu.latest + Len(wires.command) <= simu.tick
    BY <1>1, <1>2, <1>3, <1>4 DEF CommandsUnderWay
  <1> QED BY <1>1, <1>3, <1>4, <1>5

(* A pose goes out when its turn has come. *)
LEMMA PoseSent ==
  ASSUME NEW queue \in Seq(Nat), NEW counted \in Nat, NEW n \in Nat, NEW v \in Nat,
         counted + Len(queue) = n, v \div PosePeriod = n,
         \A k \in 1..Len(queue) : queue[k] \div PosePeriod = counted + k - 1
  PROVE  /\ Append(queue, v) \in Seq(Nat) /\ counted + Len(Append(queue, v)) = n + 1
         /\ \A k \in 1..Len(Append(queue, v)) : Append(queue, v)[k] \div PosePeriod = counted + k - 1
  <1> DEFINE a == Append(queue, v)
  <1>1. /\ a \in Seq(Nat) /\ Len(a) = Len(queue) + 1 /\ a[Len(queue) + 1] = v
        /\ \A k \in 1..Len(queue) : a[k] = queue[k]
    BY AppendProperties
  <1>2. Len(queue) \in Nat
    OBVIOUS
  <1> HIDE DEF a
  <1>3. ASSUME NEW k \in 1..Len(a) PROVE a[k] \div PosePeriod = counted + k - 1
    <2>1. CASE k \in 1..Len(queue)
      BY <1>1, <2>1
    <2>2. CASE k = Len(queue) + 1
      <3>1. a[k] = v /\ counted + k - 1 = n
        BY <1>1, <1>2, <2>2
      <3> QED BY <3>1
    <2> QED BY <1>1, <1>2, <1>3, <2>1, <2>2
  <1>4. counted + Len(a) = n + 1
    BY <1>1, <1>2
  <1> QED BY <1>1, <1>3, <1>4 DEF a

LEMMA SimuStartsKeeps == GolfInv /\ SimuStarts => GolfInv'
  <1> SUFFICES ASSUME GolfInv, SimuStarts PROVE GolfInv'
    OBVIOUS
  <1>1. /\ orch \in OrchRecords /\ simu \in SimuRecords /\ golfPeer \in PeerRecords
        /\ recd \in RecdRecords /\ wires \in WireRecords /\ LockStep
    BY GolfTypesApply DEF GolfInv
  <1> DEFINE rtk == Append(wires.rtk, 0)  imu == Append(wires.imu, 0)
  <1>2. /\ simu' = [simu EXCEPT !.pc = "step"] /\ simu.pc = "waiting"
        /\ wires' = [wires EXCEPT !.rtk = rtk, !.imu = imu] /\ Record({"rtk", "imu"})
        /\ UNCHANGED <<orch, golfPeer>>
    BY DEF SimuStarts
  <1>3. wires.rtk \in Seq(Nat) /\ wires.imu \in Seq(Nat) /\ golfPeer.rtk \in Nat /\ golfPeer.imu \in Nat
    BY <1>1 DEF WireRecords, PeerRecords
  <1>4. rtk \in Seq(Nat) /\ imu \in Seq(Nat)
    BY <1>3
  <1>5. /\ simu' \in SimuRecords /\ simu'.pc = "step" /\ simu'.exit = simu.exit
        /\ simu'.result = simu.result /\ simu'.tick = simu.tick /\ simu'.latest = simu.latest
    BY <1>1, <1>2 DEF SimuRecords
  <1>6. /\ wires' \in WireRecords /\ wires'.rtk = rtk /\ wires'.imu = imu
        /\ wires'.wheel = wires.wheel /\ wires'.command = wires.command /\ wires'.mishaps = wires.mishaps
    <2> HIDE DEF rtk, imu
    <2> QED BY <1>1, <1>2, <1>4 DEF WireRecords
  <1>7. LockStep'
    <2> SUFFICES ASSUME wires.mishaps = 0
                 PROVE  /\ WheelsUnderWay' /\ CommandsUnderWay' /\ SimuWaits'
                        /\ PosesUnderWay(wires.rtk, golfPeer.rtk)'
                        /\ PosesUnderWay(wires.imu, golfPeer.imu)'
                        /\ (golfPeer.pending # 0 => NeedsPose(golfPeer, golfPeer.pending))'
      BY <1>6 DEF LockStep
    <2>1. /\ WheelsUnderWay /\ CommandsUnderWay /\ SimuWaits
          /\ PosesUnderWay(wires.rtk, golfPeer.rtk) /\ PosesUnderWay(wires.imu, golfPeer.imu)
          /\ golfPeer.pending # 0 => NeedsPose(golfPeer, golfPeer.pending)
      BY <1>2, LockFacts
    <2>2. Published = 0 /\ simu.tick = 0 /\ simu.latest = 0
      BY <1>2, <2>1 DEF Published, NotStarted, SimuWaits
    <2>3. Published' = 1
      <3>1. ~NotStarted' /\ simu'.pc # "answer" /\ simu'.tick = 0
        BY <1>5, <2>2 DEF NotStarted
      <3> QED BY <3>1, ZeroDiv DEF Published
    <2>4. PosesUnderWay(wires.rtk, golfPeer.rtk)'
      <3>1. golfPeer.rtk + Len(wires.rtk) = 0
            /\ \A k \in 1..Len(wires.rtk) : wires.rtk[k] \div PosePeriod = golfPeer.rtk + k - 1
        BY <2>1, <2>2 DEF PosesUnderWay
      <3>2. /\ golfPeer.rtk + Len(rtk) = 1
            /\ \A k \in 1..Len(rtk) : rtk[k] \div PosePeriod = golfPeer.rtk + k - 1
        BY <1>3, <3>1, ZeroDiv, PoseSent
      <3> QED BY <1>2, <1>6, <2>3, <3>2 DEF PosesUnderWay
    <2>5. PosesUnderWay(wires.imu, golfPeer.imu)'
      <3>1. golfPeer.imu + Len(wires.imu) = 0
            /\ \A k \in 1..Len(wires.imu) : wires.imu[k] \div PosePeriod = golfPeer.imu + k - 1
        BY <2>1, <2>2 DEF PosesUnderWay
      <3>2. /\ golfPeer.imu + Len(imu) = 1
            /\ \A k \in 1..Len(imu) : imu[k] \div PosePeriod = golfPeer.imu + k - 1
        BY <1>3, <3>1, ZeroDiv, PoseSent
      <3> QED BY <1>2, <1>6, <2>3, <3>2 DEF PosesUnderWay
    <2>6. WheelsUnderWay' /\ CommandsUnderWay'
      BY <1>2, <1>5, <1>6, <2>1 DEF WheelsUnderWay, CommandsUnderWay
    <2>7. SimuWaits'
      BY <1>5, <2>2 DEF SimuWaits, NotStarted
    <2> QED BY <1>2, <2>1, <2>4, <2>5, <2>6, <2>7
  <1>8. /\ recd' \in RecdRecords /\ recd'.pc = recd.pc /\ recd'.exit = recd.exit
        /\ recd.pc # "run" => recd' = recd
    BY <1>1, <1>2, RecordFacts
  <1> QED BY <1>1, <1>2, <1>5, <1>6, <1>7, <1>8, SimuRests

LEMMA SimuStepKeeps == GolfInv /\ SimuStep => GolfInv'
  <1> SUFFICES ASSUME GolfInv, SimuStep PROVE GolfInv'
    OBVIOUS
  <1>1. /\ orch \in OrchRecords /\ simu \in SimuRecords /\ golfPeer \in PeerRecords
        /\ recd \in RecdRecords /\ wires \in WireRecords /\ LockStep
    BY GolfTypesApply DEF GolfInv
  <1> DEFINE msg == [t |-> simu.tick + 1, moving |-> Applied # 0]
             wheel == Append(wires.wheel, msg)
             n == simu.tick + 1
             f == simu.fault \/ orch.fault
             app == Applied
  <1>2. /\ simu' = [simu EXCEPT !.pc = "answer", !.tick = n, !.fault = f, !.applied = app]
        /\ simu.pc = "step" /\ wires' = [wires EXCEPT !.wheel = wheel] /\ Record({"wheel"})
        /\ UNCHANGED <<orch, golfPeer>>
    BY DEF SimuStep
  <1>3. n \in Nat /\ n = simu.tick + 1 /\ simu.tick \in Nat /\ f \in BOOLEAN /\ app \in Nat
        /\ simu.latest \in Nat
    BY <1>1 DEF SimuRecords, OrchRecords, Applied
  <1>4. wires.wheel \in Seq([t : Nat, moving : BOOLEAN]) /\ msg \in [t : Nat, moving : BOOLEAN]
        /\ msg.t = n
    BY <1>1, <1>3 DEF WireRecords
  <1> HIDE DEF msg, n, f, app
  <1>5. /\ wheel \in Seq([t : Nat, moving : BOOLEAN]) /\ Len(wheel) = Len(wires.wheel) + 1
        /\ \A k \in 1..Len(wires.wheel) : wheel[k] = wires.wheel[k]
        /\ wheel[Len(wires.wheel) + 1] = msg /\ Len(wires.wheel) \in Nat
    BY <1>4, AppendProperties
  <1> HIDE DEF wheel
  <1>6. /\ simu' \in SimuRecords /\ simu'.pc = "answer" /\ simu'.exit = simu.exit
        /\ simu'.result = simu.result /\ simu'.tick = n /\ simu'.latest = simu.latest
    BY <1>1, <1>2, <1>3 DEF SimuRecords
  <1>7. /\ wires' \in WireRecords /\ wires'.rtk = wires.rtk /\ wires'.imu = wires.imu
        /\ wires'.wheel = wheel /\ wires'.command = wires.command /\ wires'.mishaps = wires.mishaps
    BY <1>1, <1>2, <1>5 DEF WireRecords
  <1>8. LockStep'
    <2> SUFFICES ASSUME wires.mishaps = 0
                 PROVE  /\ WheelsUnderWay' /\ CommandsUnderWay' /\ SimuWaits'
                        /\ PosesUnderWay(wires.rtk, golfPeer.rtk)'
                        /\ PosesUnderWay(wires.imu, golfPeer.imu)'
                        /\ (golfPeer.pending # 0 => NeedsPose(golfPeer, golfPeer.pending))'
      BY <1>7 DEF LockStep
    <2>1. /\ WheelsUnderWay /\ CommandsUnderWay /\ SimuWaits
          /\ PosesUnderWay(wires.rtk, golfPeer.rtk) /\ PosesUnderWay(wires.imu, golfPeer.imu)
          /\ golfPeer.pending # 0 => NeedsPose(golfPeer, golfPeer.pending)
      BY <1>2, LockFacts
    <2>2. simu.latest = simu.tick
      BY <1>2, <2>1 DEF SimuWaits
    <2>3. Published' = Published
      <3>1. n - 1 = simu.tick
        BY <1>3
      <3> QED BY <1>2, <1>6, <3>1 DEF Published, NotStarted
    <2>4. PosesUnderWay(wires.rtk, golfPeer.rtk)' /\ PosesUnderWay(wires.imu, golfPeer.imu)'
      BY <1>2, <1>7, <2>1, <2>3 DEF PosesUnderWay
    <2>5. WheelsUnderWay'
      <3>1. golfPeer.wheel \in Nat
        BY <1>1 DEF PeerRecords
      <3>2. golfPeer.wheel + Len(wheel) = n
        BY <1>3, <1>5, <2>1, <3>1 DEF WheelsUnderWay
      <3>3. ASSUME NEW k \in 1..Len(wheel) PROVE wheel[k].t = golfPeer.wheel + k
        <4>1. CASE k \in 1..Len(wires.wheel)
          BY <1>5, <2>1, <4>1 DEF WheelsUnderWay
        <4>2. CASE k = Len(wires.wheel) + 1
          BY <1>4, <1>5, <3>2, <4>2
        <4> QED BY <1>5, <4>1, <4>2
      <3> QED BY <1>2, <1>6, <1>7, <3>2, <3>3 DEF WheelsUnderWay
    <2>6. CommandsUnderWay'
      BY <1>2, <1>6, <1>7, <2>1 DEF CommandsUnderWay
    <2>7. SimuWaits'
      BY <1>3, <1>6, <2>2 DEF SimuWaits, NotStarted
    <2> QED BY <1>2, <2>1, <2>4, <2>5, <2>6, <2>7
  <1>9. /\ recd' \in RecdRecords /\ recd'.pc = recd.pc /\ recd'.exit = recd.exit
        /\ recd.pc # "run" => recd' = recd
    BY <1>1, <1>2, RecordFacts
  <1> QED BY <1>1, <1>2, <1>6, <1>7, <1>8, <1>9, SimuRests

(* A step of the simulator that changes where it is and no count of the    *)
(* lock-step, but for poses that go out.                                   *)
LEMMA SimuAnsweredKeeps == GolfInv /\ SimuAnswered => GolfInv'
  <1> SUFFICES ASSUME GolfInv, SimuAnswered PROVE GolfInv'
    OBVIOUS
  <1>1. /\ orch \in OrchRecords /\ simu \in SimuRecords /\ golfPeer \in PeerRecords
        /\ recd \in RecdRecords /\ wires \in WireRecords /\ LockStep
    BY GolfTypesApply DEF GolfInv
  <1>2. simu.pc = "answer" /\ simu.latest >= simu.tick /\ UNCHANGED <<orch, golfPeer>>
        /\ simu.tick \in Nat /\ simu.latest \in Nat
    BY <1>1 DEF SimuAnswered, SimuRecords
  <1>3. CASE simu.latest > simu.tick
    <2>1. simu' = [simu EXCEPT !.pc = "dead", !.exit = "failed"] /\ wires' = wires /\ recd' = recd
      BY <1>3 DEF SimuAnswered, SimuExits
    <2>2. /\ simu' \in SimuRecords /\ simu'.pc = "dead" /\ simu'.result = simu.result
      BY <1>1, <2>1 DEF SimuRecords, GolfEnds
    <2>3. LockStep'
      BY <2>2 DEF LockStep
    <2> QED BY <1>1, <1>2, <2>1, <2>2, <2>3, SimuRests
  <1>4. CASE ~(simu.latest > simu.tick)
    <2>1. /\ simu' = [simu EXCEPT !.pc = "safety"]
          /\ IF simu.tick % PosePeriod # 0 THEN wires' = wires /\ recd' = recd
             ELSE /\ wires' = [wires EXCEPT !.rtk = Append(@, simu.tick), !.imu = Append(@, simu.tick)]
                  /\ Record({"lidar", "rtk", "imu"})
      BY <1>4 DEF SimuAnswered
    <2>2. /\ simu' \in SimuRecords /\ simu'.pc = "safety" /\ simu'.exit = simu.exit
          /\ simu'.result = simu.result /\ simu'.tick = simu.tick /\ simu'.latest = simu.latest
      BY <1>1, <2>1 DEF SimuRecords
    <2>3. simu.latest = simu.tick
      BY <1>2, <1>4
    <2>4. wires.rtk \in Seq(Nat) /\ wires.imu \in Seq(Nat) /\ golfPeer.rtk \in Nat /\ golfPeer.imu \in Nat
      BY <1>1 DEF WireRecords, PeerRecords
    <2>5. CASE simu.tick % PosePeriod # 0
      <3>1. wires' = wires /\ recd' = recd
        BY <2>1, <2>5
      <3>2. LockStep'
        <4> SUFFICES ASSUME wires.mishaps = 0
                     PROVE  /\ WheelsUnderWay' /\ CommandsUnderWay' /\ SimuWaits'
                            /\ PosesUnderWay(wires.rtk, golfPeer.rtk)'
                            /\ PosesUnderWay(wires.imu, golfPeer.imu)'
                            /\ (golfPeer.pending # 0 => NeedsPose(golfPeer, golfPeer.pending))'
          BY <3>1 DEF LockStep
        <4>1. /\ WheelsUnderWay /\ CommandsUnderWay /\ SimuWaits
              /\ PosesUnderWay(wires.rtk, golfPeer.rtk) /\ PosesUnderWay(wires.imu, golfPeer.imu)
              /\ golfPeer.pending # 0 => NeedsPose(golfPeer, golfPeer.pending)
          BY <1>2, LockFacts
        <4>2. Published' = Published
          <5>1. simu.tick \in Nat \ {0}
            BY <1>2, <4>1 DEF SimuWaits
          <5>2. simu.tick \div PosePeriod = (simu.tick - 1) \div PosePeriod
            BY <5>1, <2>5, GolfConstants, DivStep
          <5> QED BY <1>2, <2>2, <5>2 DEF Published, NotStarted
        <4>3. PosesUnderWay(wires.rtk, golfPeer.rtk)' /\ PosesUnderWay(wires.imu, golfPeer.imu)'
          BY <1>2, <3>1, <4>1, <4>2 DEF PosesUnderWay
        <4>4. WheelsUnderWay' /\ CommandsUnderWay'
          BY <1>2, <2>2, <3>1, <4>1 DEF WheelsUnderWay, CommandsUnderWay
        <4>5. SimuWaits'
          BY <2>2, <2>3 DEF SimuWaits, NotStarted
        <4> QED BY <1>2, <4>1, <4>3, <4>4, <4>5
      <3> QED BY <1>1, <1>2, <2>2, <3>1, <3>2, SimuRests
    <2>6. CASE simu.tick % PosePeriod = 0
      <3> DEFINE rtk == Append(wires.rtk, simu.tick)  imu == Append(wires.imu, simu.tick)
      <3>1. wires' = [wires EXCEPT !.rtk = rtk, !.imu = imu] /\ Record({"lidar", "rtk", "imu"})
        BY <2>1, <2>6
      <3>2. rtk \in Seq(Nat) /\ imu \in Seq(Nat)
        BY <1>2, <2>4
      <3>3. /\ wires' \in WireRecords /\ wires'.rtk = rtk /\ wires'.imu = imu
            /\ wires'.wheel = wires.wheel /\ wires'.command = wires.command
            /\ wires'.mishaps = wires.mishaps
        <4> HIDE DEF rtk, imu
        <4> QED BY <1>1, <3>1, <3>2 DEF WireRecords
      <3>4. LockStep'
        <4> SUFFICES ASSUME wires.mishaps = 0
                     PROVE  /\ WheelsUnderWay' /\ CommandsUnderWay' /\ SimuWaits'
                            /\ PosesUnderWay(wires.rtk, golfPeer.rtk)'
                            /\ PosesUnderWay(wires.imu, golfPeer.imu)'
                            /\ (golfPeer.pending # 0 => NeedsPose(golfPeer, golfPeer.pending))'
          BY <3>3 DEF LockStep
        <4>1. /\ WheelsUnderWay /\ CommandsUnderWay /\ SimuWaits
              /\ PosesUnderWay(wires.rtk, golfPeer.rtk) /\ PosesUnderWay(wires.imu, golfPeer.imu)
              /\ golfPeer.pending # 0 => NeedsPose(golfPeer, golfPeer.pending)
          BY <1>2, LockFacts
        <4> DEFINE n == Published  v == simu.tick
        <4>2. Published' = n + 1 /\ v \div PosePeriod = n /\ n \in Nat
          <5>1. simu.tick \in Nat \ {0}
            BY <1>2, <4>1 DEF SimuWaits
          <5>2. /\ simu.tick \div PosePeriod = (simu.tick - 1) \div PosePeriod + 1
                /\ (simu.tick - 1) \div PosePeriod \in Nat
            BY <5>1, <2>6, GolfConstants, DivStep
          <5>3. n = (simu.tick - 1) \div PosePeriod + 1
            BY <1>2 DEF Published, NotStarted
          <5>4. Published' = simu.tick \div PosePeriod + 1
            BY <1>2, <2>2 DEF Published, NotStarted
          <5> HIDE DEF n
          <5> QED BY <5>2, <5>3, <5>4
        <4> HIDE DEF n, v
        <4>3. PosesUnderWay(wires.rtk, golfPeer.rtk)'
          <5>1. golfPeer.rtk + Len(wires.rtk) = n
                /\ \A k \in 1..Len(wires.rtk) : wires.rtk[k] \div PosePeriod = golfPeer.rtk + k - 1
            BY <4>1 DEF PosesUnderWay, n
          <5>2. /\ golfPeer.rtk + Len(Append(wires.rtk, v)) = n + 1
                /\ \A k \in 1..Len(Append(wires.rtk, v)) :
                      Append(wires.rtk, v)[k] \div PosePeriod = golfPeer.rtk + k - 1
            <6> DEFINE q == wires.rtk  c == golfPeer.rtk
            <6>1. v \in Nat /\ q \in Seq(Nat) /\ c \in Nat /\ c + Len(q) = n
                  /\ \A k \in 1..Len(q) : q[k] \div PosePeriod = c + k - 1
              BY <1>2, <2>4, <5>1 DEF v
            <6> HIDE DEF q, c
            <6>2. /\ c + Len(Append(q, v)) = n + 1
                  /\ \A k \in 1..Len(Append(q, v)) : Append(q, v)[k] \div PosePeriod = c + k - 1
              BY <4>2, <6>1, PoseSent
            <6> QED BY <6>2 DEF q, c
          <5> QED BY <1>2, <3>3, <4>2, <5>2 DEF PosesUnderWay, v
        <4>4. PosesUnderWay(wires.imu, golfPeer.imu)'
          <5>1. golfPeer.imu + Len(wires.imu) = n
                /\ \A k \in 1..Len(wires.imu) : wires.imu[k] \div PosePeriod = golfPeer.imu + k - 1
            BY <4>1 DEF PosesUnderWay, n
          <5>2. /\ golfPeer.imu + Len(Append(wires.imu, v)) = n + 1
                /\ \A k \in 1..Len(Append(wires.imu, v)) :
                      Append(wires.imu, v)[k] \div PosePeriod = golfPeer.imu + k - 1
            <6> DEFINE q == wires.imu  c == golfPeer.imu
            <6>1. v \in Nat /\ q \in Seq(Nat) /\ c \in Nat /\ c + Len(q) = n
                  /\ \A k \in 1..Len(q) : q[k] \div PosePeriod = c + k - 1
              BY <1>2, <2>4, <5>1 DEF v
            <6> HIDE DEF q, c
            <6>2. /\ c + Len(Append(q, v)) = n + 1
                  /\ \A k \in 1..Len(Append(q, v)) : Append(q, v)[k] \div PosePeriod = c + k - 1
              BY <4>2, <6>1, PoseSent
            <6> QED BY <6>2 DEF q, c
          <5> QED BY <1>2, <3>3, <4>2, <5>2 DEF PosesUnderWay, v
        <4>5. WheelsUnderWay' /\ CommandsUnderWay'
          BY <1>2, <2>2, <3>3, <4>1 DEF WheelsUnderWay, CommandsUnderWay
        <4>6. SimuWaits'
          BY <2>2, <2>3 DEF SimuWaits, NotStarted
        <4> QED BY <1>2, <4>1, <4>3, <4>4, <4>5, <4>6
      <3>5. /\ recd' \in RecdRecords /\ recd'.pc = recd.pc /\ recd'.exit = recd.exit
            /\ recd.pc # "run" => recd' = recd
        BY <1>1, <3>1, RecordFacts
      <3> QED BY <1>1, <1>2, <2>2, <3>3, <3>4, <3>5, SimuRests
    <2> QED BY <2>5, <2>6
  <1> QED BY <1>3, <1>4

(* A queue without its first message. *)
LEMMA QueueTail ==
  ASSUME NEW S, NEW queue \in Seq(S), queue # <<>>
  PROVE  /\ Tail(queue) \in Seq(S) /\ Len(Tail(queue)) = Len(queue) - 1 /\ Head(queue) = queue[1]
         /\ Head(queue) \in S /\ Len(queue) \in Nat \ {0}
         /\ \A k \in 1..Len(Tail(queue)) : Tail(queue)[k] = queue[k + 1]
  BY HeadTailProperties

LEMMA AcceptCommandKeeps == GolfInv /\ AcceptCommand => GolfInv'
  <1> SUFFICES ASSUME GolfInv, AcceptCommand PROVE GolfInv'
    OBVIOUS
  <1>1. /\ orch \in OrchRecords /\ simu \in SimuRecords /\ golfPeer \in PeerRecords
        /\ recd \in RecdRecords /\ wires \in WireRecords /\ LockStep
    BY GolfTypesApply DEF GolfInv
  <1> DEFINE R == [t : Nat, speed : Nat]  queue == wires.command  rest == Tail(wires.command)
             t == Head(wires.command).t  speed == Head(wires.command).speed
  <1>2. /\ wires' = [wires EXCEPT !.command = rest] /\ UNCHANGED <<orch, golfPeer, recd>>
        /\ simu' = IF simu.pc = "dead" THEN simu ELSE [simu EXCEPT !.latest = t, !.speed = speed]
        /\ queue # <<>>
    BY DEF AcceptCommand
  <1>3. /\ rest \in Seq(R) /\ Len(rest) = Len(queue) - 1 /\ Head(queue) = queue[1]
        /\ Head(queue) \in R /\ Len(queue) \in Nat \ {0}
        /\ \A k \in 1..Len(rest) : rest[k] = queue[k + 1]
    <2>1. queue \in Seq(R)
      BY <1>1 DEF WireRecords
    <2> HIDE DEF R
    <2> QED BY <1>2, <2>1, QueueTail
  <1>4. t \in Nat /\ speed \in Nat /\ t = queue[1].t
    BY <1>3
  <1> HIDE DEF t, speed, rest
  <1>5. /\ simu' \in SimuRecords /\ simu'.pc = simu.pc /\ simu'.exit = simu.exit
        /\ simu'.result = simu.result /\ simu'.tick = simu.tick /\ simu'.fault = simu.fault
        /\ (simu.pc # "dead" => simu'.latest = t)
    BY <1>1, <1>2, <1>4 DEF SimuRecords
  <1>6. /\ wires' \in WireRecords /\ wires'.rtk = wires.rtk /\ wires'.imu = wires.imu
        /\ wires'.wheel = wires.wheel /\ wires'.command = rest /\ wires'.mishaps = wires.mishaps
    BY <1>1, <1>2, <1>3 DEF WireRecords
  <1>7. SessionStands'
    BY <1>2, <1>5 DEF GolfInv, SessionStands, SimuEnded, PeerEnded, RecdEnded, JudgedPcs, GolfAlive
  <1>8. LockStep'
    <2> SUFFICES ASSUME wires.mishaps = 0, simu.pc # "dead"
                 PROVE  /\ WheelsUnderWay' /\ CommandsUnderWay' /\ SimuWaits'
                        /\ PosesUnderWay(wires.rtk, golfPeer.rtk)'
                        /\ PosesUnderWay(wires.imu, golfPeer.imu)'
                        /\ (golfPeer.pending # 0 => NeedsPose(golfPeer, golfPeer.pending))'
      BY <1>5, <1>6 DEF LockStep
    <2>1. /\ WheelsUnderWay /\ CommandsUnderWay /\ SimuWaits
          /\ PosesUnderWay(wires.rtk, golfPeer.rtk) /\ PosesUnderWay(wires.imu, golfPeer.imu)
          /\ golfPeer.pending # 0 => NeedsPose(golfPeer, golfPeer.pending)
          /\ simu.latest + Len(wires.command) <= simu.tick
      BY LockFacts
    <2>2. simu.latest \in Nat /\ simu.tick \in Nat
      BY <1>1 DEF SimuRecords
    <2>3. t = simu.latest + 1 /\ simu.latest < simu.tick
      BY <1>3, <1>4, <2>1, <2>2 DEF CommandsUnderWay
    <2>4. simu.pc = "answer" /\ simu.tick > 0 /\ simu.tick <= simu.latest + 1
      BY <2>1, <2>2, <2>3 DEF SimuWaits
    <2>5. Published' = Published
      BY <1>5 DEF Published, NotStarted
    <2>6. PosesUnderWay(wires.rtk, golfPeer.rtk)' /\ PosesUnderWay(wires.imu, golfPeer.imu)'
      BY <1>2, <1>6, <2>1, <2>5 DEF PosesUnderWay
    <2>7. WheelsUnderWay'
      BY <1>2, <1>5, <1>6, <2>1 DEF WheelsUnderWay
    <2>8. CommandsUnderWay'
      <3> HIDE DEF queue
      <3>0. Len(rest) = Len(queue) - 1 /\ Len(queue) \in Nat /\ simu.latest + Len(queue) = Len(golfPeer.answered)
        BY <1>3, <2>1 DEF CommandsUnderWay, queue
      <3>1. t + Len(rest) = Len(golfPeer.answered)
        BY <2>2, <2>3, <3>0
      <3>2. ASSUME NEW k \in 1..Len(rest) PROVE rest[k].t = t + k
        <4>1. rest[k] = queue[k + 1] /\ k + 1 \in 1..Len(queue)
          <5>1. rest[k] = queue[k + 1]
            BY <1>3
          <5> QED BY <3>0, <5>1
        <4>2. queue[k + 1].t = simu.latest + (k + 1)
          BY <2>1, <4>1 DEF CommandsUnderWay, queue
        <4> QED BY SMTT(30), <2>2, <2>3, <4>1, <4>2
      <3> QED BY <1>2, <1>5, <1>6, <3>1, <3>2 DEF CommandsUnderWay
    <2>9. SimuWaits'
      BY <1>5, <2>2, <2>3, <2>4 DEF SimuWaits, NotStarted
    <2> QED BY <1>2, <2>1, <2>6, <2>7, <2>8, <2>9
  <1> QED BY <1>1, <1>2, <1>5, <1>6, <1>7, <1>8 DEF GolfInv, GolfTypes

(* A message is taken from a pose topic. *)
LEMMA PoseTaken ==
  ASSUME NEW queue \in Seq(Nat), NEW counted \in Nat, NEW n \in Nat, queue # <<>>,
         counted + Len(queue) = n,
         \A k \in 1..Len(queue) : queue[k] \div PosePeriod = counted + k - 1
  PROVE  /\ Tail(queue) \in Seq(Nat) /\ Head(queue) \div PosePeriod = counted
         /\ (counted + 1) + Len(Tail(queue)) = n
         /\ \A k \in 1..Len(Tail(queue)) : Tail(queue)[k] \div PosePeriod = (counted + 1) + k - 1
  <1> DEFINE rest == Tail(queue)
  <1>1. /\ rest \in Seq(Nat) /\ Len(rest) = Len(queue) - 1 /\ Head(queue) = queue[1]
        /\ Len(queue) \in Nat \ {0} /\ \A k \in 1..Len(rest) : rest[k] = queue[k + 1]
    BY QueueTail
  <1> HIDE DEF rest
  <1>2. Head(queue) \div PosePeriod = counted
    <2>1. 1 \in 1..Len(queue) /\ counted + 1 - 1 = counted
      BY <1>1
    <2> QED BY <1>1, <2>1
  <1>3. ASSUME NEW k \in 1..Len(rest) PROVE rest[k] \div PosePeriod = (counted + 1) + k - 1
    <2>1. rest[k] = queue[k + 1] /\ k + 1 \in 1..Len(queue)
      BY <1>1
    <2>2. counted + (k + 1) - 1 = (counted + 1) + k - 1
      OBVIOUS
    <2> QED BY <2>1, <2>2
  <1>4. (counted + 1) + Len(rest) = n
    <2> DEFINE m == Len(queue)  r == Len(rest)
    <2>1. m \in Nat /\ r = m - 1 /\ counted + m = n
      BY <1>1
    <2> HIDE DEF m, r
    <2>2. (counted + 1) + r = n
      BY <2>1
    <2> QED BY <2>2 DEF r
  <1> QED BY <1>1, <1>2, <1>3, <1>4 DEF rest

(* A step of the answering part of the peer. *)
LEMMA PeerSendsKeeps ==
  ASSUME GolfInv, NEW left \in WireRecords, left.command = wires.command, Sends(left),
         golfPeer.pc \notin {"none", "dead"}, golfPeer' \in PeerRecords, PeerStands(golfPeer)',
         golfPeer'.pc = golfPeer.pc, golfPeer'.result = golfPeer.result, golfPeer'.exit = golfPeer.exit,
         Len(golfPeer.answered) <= Len(golfPeer'.answered), UNCHANGED <<orch, simu>>,
         left.mishaps = 0 /\ simu.pc # "dead" =>
            /\ wires.mishaps = 0 /\ golfPeer'.wheel + Len(left.wheel) = simu.tick
            /\ \A k \in 1..Len(left.wheel) : left.wheel[k].t = golfPeer'.wheel + k
            /\ PosesUnderWay(left.rtk, golfPeer'.rtk) /\ PosesUnderWay(left.imu, golfPeer'.imu)
            /\ golfPeer'.pending # 0 => NeedsPose(golfPeer', golfPeer'.pending)
  PROVE  GolfInv'
  <1>1. /\ orch \in OrchRecords /\ simu \in SimuRecords /\ golfPeer \in PeerRecords
        /\ recd \in RecdRecords /\ wires \in WireRecords /\ LockStep
    BY GolfTypesApply DEF GolfInv
  <1>2. /\ wires' \in WireRecords /\ recd' \in RecdRecords
        /\ wires'.wheel = left.wheel /\ wires'.rtk = left.rtk /\ wires'.imu = left.imu
        /\ wires'.mishaps = left.mishaps
        /\ Len(wires'.command) = Len(left.command) + (Len(golfPeer'.answered) - Len(golfPeer.answered))
        /\ \A k \in 1..Len(left.command) : wires'.command[k] = left.command[k]
        /\ \A k \in (Len(left.command) + 1)..Len(wires'.command) :
              wires'.command[k].t = Len(golfPeer.answered) + (k - Len(left.command))
        /\ recd'.pc = recd.pc /\ recd'.exit = recd.exit
        /\ recd.pc # "run" => recd' = recd
    BY <1>1, SendsFacts
  <1>3. SessionStands'
    <2>1. SessionStands
      BY DEF GolfInv
    <2> QED BY <1>2, <2>1 DEF SessionStands, SimuEnded, PeerEnded, RecdEnded, JudgedPcs, GolfAlive
  <1>4. LockStep'
    <2> SUFFICES ASSUME left.mishaps = 0, simu.pc # "dead"
                 PROVE  /\ WheelsUnderWay' /\ CommandsUnderWay' /\ SimuWaits'
                        /\ PosesUnderWay(wires.rtk, golfPeer.rtk)'
                        /\ PosesUnderWay(wires.imu, golfPeer.imu)'
                        /\ (golfPeer.pending # 0 => NeedsPose(golfPeer, golfPeer.pending))'
      BY <1>2 DEF LockStep
    <2>1. /\ CommandsUnderWay /\ SimuWaits
      BY LockFacts
    <2>2. Published' = Published
      BY DEF Published, NotStarted
    <2>3. PosesUnderWay(wires.rtk, golfPeer.rtk)' /\ PosesUnderWay(wires.imu, golfPeer.imu)'
      BY <1>2, <2>2 DEF PosesUnderWay
    <2>4. WheelsUnderWay'
      BY <1>2 DEF WheelsUnderWay
    <2>5. SimuWaits'
      BY <2>1 DEF SimuWaits, NotStarted
    <2>6. CommandsUnderWay'
      <3> DEFINE m == Len(golfPeer.answered)  n == Len(golfPeer'.answered)
                 c == Len(wires.command)  d == Len(wires'.command)  l == simu.latest
      <3>1. /\ d = c + (n - m) /\ l + c = m
            /\ \A k \in 1..c : wires'.command[k].t = l + k
            /\ \A k \in (c + 1)..d : wires'.command[k].t = m + (k - c)
        BY ZenonT(60), <1>2, <2>1 DEF CommandsUnderWay
      <3>2. m \in Nat /\ n \in Nat /\ c \in Nat /\ d \in Nat /\ l \in Nat
        <4>1. /\ golfPeer.answered \in Seq(GolfAnswers) /\ golfPeer'.answered \in Seq(GolfAnswers)
              /\ wires.command \in Seq([t : Nat, speed : Nat]) /\ simu.latest \in Nat
              /\ wires'.command \in Seq([t : Nat, speed : Nat])
          BY <1>1, <1>2 DEF PeerRecords, WireRecords, SimuRecords
        <4> QED BY <4>1
      <3> HIDE DEF m, n, c, d, l
      <3>3. l + d = n
        <4>1. d = c + (n - m) /\ l + c = m
          BY <3>1
        <4> QED BY <3>2, <4>1
      <3>4. ASSUME NEW k \in 1..d PROVE wires'.command[k].t = l + k
        <4>1. CASE k <= c
          BY <3>1, <3>2, <4>1
        <4>2. CASE ~(k <= c)
          <5>1. k \in (c + 1)..d /\ m + (k - c) = l + k
            BY <3>1, <3>2, <4>2
          <5> QED BY <3>1, <5>1
        <4> QED BY <4>1, <4>2
      <3> QED BY <3>3, <3>4 DEF CommandsUnderWay, n, d, l
    <2> QED BY <2>3, <2>4, <2>5, <2>6
  <1> QED BY <1>1, <1>2, <1>3, <1>4 DEF GolfInv, GolfTypes

LEMMA ServicePendingKeeps ==
  ASSUME GolfInv, NEW late \in BOOLEAN, ServicePending(late)
  PROVE  GolfInv'
  <1>1. /\ orch \in OrchRecords /\ simu \in SimuRecords /\ golfPeer \in PeerRecords
        /\ recd \in RecdRecords /\ wires \in WireRecords /\ LockStep /\ PeerStands(golfPeer)
    BY GolfTypesApply DEF GolfInv
  <1> DEFINE bad == orch.fault \/ (late /\ golfPeer.pending # 0 /\ NeedsPose(golfPeer, golfPeer.pending))
             p == Latch(golfPeer, bad)
             left == wires
  <1>2. bad \in BOOLEAN
    BY <1>1, NeedsPoseType DEF OrchRecords
  <1>3. /\ golfPeer' = Dispatch(p) /\ Sends(wires) /\ UNCHANGED <<orch, simu>> /\ golfPeer.pc = "drive"
    BY DEF ServicePending
  <1> HIDE DEF bad
  <1>4. /\ p \in PeerRecords /\ SamePeer(p, golfPeer) /\ p.pending = golfPeer.pending
        /\ p.answered = golfPeer.answered
    BY <1>1, <1>2, LatchFacts
  <1> HIDE DEF p
  <1>5. PeerStands(p)
    BY <1>1, <1>4 DEF PeerStands, SamePeer
  <1>6. /\ golfPeer' \in PeerRecords /\ SamePeer(golfPeer', p) /\ PeerStands(golfPeer)'
        /\ Len(p.answered) <= Len(golfPeer'.answered)
        /\ golfPeer'.pending # 0 => golfPeer' = p /\ NeedsPose(p, p.pending)
    <2>1. /\ Dispatch(p) \in PeerRecords /\ SamePeer(Dispatch(p), p) /\ PeerStands(Dispatch(p))
          /\ Len(p.answered) <= Len(Dispatch(p).answered)
          /\ Dispatch(p).pending # 0 => Dispatch(p) = p /\ NeedsPose(p, p.pending)
      BY <1>4, <1>5, DispatchFacts
    <2>2. PeerStands(golfPeer')
      BY <1>3, <2>1
    <2> QED BY <1>3, <2>1, <2>2 DEF PeerStands
  <1>7. golfPeer'.pending # 0 => NeedsPose(golfPeer', golfPeer'.pending)
    BY <1>6
  <1>8. ASSUME wires.mishaps = 0, simu.pc # "dead"
        PROVE  /\ golfPeer'.wheel + Len(wires.wheel) = simu.tick
               /\ \A k \in 1..Len(wires.wheel) : wires.wheel[k].t = golfPeer'.wheel + k
               /\ PosesUnderWay(wires.rtk, golfPeer'.rtk) /\ PosesUnderWay(wires.imu, golfPeer'.imu)
    <2>1. golfPeer'.wheel = golfPeer.wheel /\ golfPeer'.rtk = golfPeer.rtk /\ golfPeer'.imu = golfPeer.imu
      BY <1>4, <1>6 DEF SamePeer
    <2>2. WheelsUnderWay /\ PosesUnderWay(wires.rtk, golfPeer.rtk) /\ PosesUnderWay(wires.imu, golfPeer.imu)
      BY <1>8, LockFacts
    <2> QED BY <2>1, <2>2 DEF WheelsUnderWay
  <1> QED BY <1>1, <1>3, <1>4, <1>6, <1>7, <1>8, PeerSendsKeeps DEF SamePeer

(* One pose topic, whichever it is. *)
LEMMA PoseStepKeeps ==
  ASSUME GolfInv, NEW counted, NEW k, NEW left, PeerUp, Sends(left), UNCHANGED <<orch, simu>>,
         counted \in PeerRecords, left \in WireRecords,
         counted.pc = golfPeer.pc, counted.result = golfPeer.result, counted.exit = golfPeer.exit,
         counted.wheel = golfPeer.wheel, counted.pending = golfPeer.pending,
         counted.answered = golfPeer.answered, counted.fault = golfPeer.fault,
         left.command = wires.command, left.wheel = wires.wheel, left.mishaps = wires.mishaps,
         golfPeer' = Latch(golfPeer, TRUE)
            \/ golfPeer' = IF LatestPose(counted) = LatestPose(golfPeer) THEN counted
                           ELSE MaybeFinish(Dispatch(counted)),
         wires.mishaps = 0 /\ simu.pc # "dead" =>
            /\ golfPeer' = IF LatestPose(counted) = LatestPose(golfPeer) THEN counted
                           ELSE MaybeFinish(Dispatch(counted))
            /\ PosesUnderWay(left.rtk, counted.rtk) /\ PosesUnderWay(left.imu, counted.imu)
  PROVE  GolfInv'
  <1>1. /\ orch \in OrchRecords /\ simu \in SimuRecords /\ golfPeer \in PeerRecords
        /\ recd \in RecdRecords /\ wires \in WireRecords /\ LockStep /\ PeerStands(golfPeer)
    BY GolfTypesApply DEF GolfInv
  <1>2. golfPeer.pc \notin {"none", "dead"}
    BY DEF PeerUp
  <1>3. PeerStands(counted)
    BY <1>1 DEF PeerStands
  <1>4. Len(golfPeer.answered) \in Nat
    <2>1. golfPeer.answered \in Seq(GolfAnswers)
      BY <1>1 DEF PeerRecords
    <2> QED BY <2>1
  <1> DEFINE Goes(q) ==
        /\ q \in PeerRecords /\ PeerStands(q) /\ q.pc = golfPeer.pc /\ q.result = golfPeer.result
        /\ q.exit = golfPeer.exit /\ q.wheel = golfPeer.wheel
        /\ Len(golfPeer.answered) <= Len(q.answered)
      Waits(q) == /\ q.rtk = counted.rtk /\ q.imu = counted.imu
                  /\ q.pending # 0 => NeedsPose(q, q.pending)
  <1>5. Goes(Latch(golfPeer, TRUE))
    <2> DEFINE q == Latch(golfPeer, TRUE)
    <2>1. q \in PeerRecords /\ SamePeer(q, golfPeer) /\ q.pending = golfPeer.pending
          /\ q.answered = golfPeer.answered
      BY <1>1, LatchFacts
    <2> HIDE DEF q
    <2>2. Goes(q)
      BY <1>1, <1>4, <2>1 DEF SamePeer, PeerStands
    <2> QED BY <2>2 DEF q
  <1>6. ASSUME LatestPose(counted) = LatestPose(golfPeer)
        PROVE Goes(golfPeer') /\ (wires.mishaps = 0 /\ simu.pc # "dead" => Waits(golfPeer'))
    <2>1. Goes(counted)
      BY <1>3, <1>4
    <2>2. Goes(golfPeer')
      BY <1>5, <1>6, <2>1
    <2>3. ASSUME wires.mishaps = 0, simu.pc # "dead" PROVE Waits(golfPeer')
      <3>1. golfPeer' = counted
        BY <1>6, <2>3
      <3>2. golfPeer.pending # 0 => NeedsPose(golfPeer, golfPeer.pending)
        BY <2>3, LockFacts
      <3>3. NeedsPose(counted, golfPeer.pending) = NeedsPose(golfPeer, golfPeer.pending)
        BY <1>6, NeedsPoseSame
      <3>4. Waits(counted)
        BY <3>2, <3>3
      <3> QED BY <3>1, <3>4
    <2> QED BY <2>2, <2>3
  <1>7. ASSUME LatestPose(counted) # LatestPose(golfPeer)
        PROVE Goes(golfPeer') /\ (wires.mishaps = 0 /\ simu.pc # "dead" => Waits(golfPeer'))
    <2> DEFINE d == Dispatch(counted)  q == MaybeFinish(d)
    <2>1. /\ d \in PeerRecords /\ SamePeer(d, counted) /\ PeerStands(d)
          /\ Len(counted.answered) <= Len(d.answered)
          /\ d.pending # 0 => d = counted /\ NeedsPose(counted, counted.pending)
      BY <1>3, DispatchFacts
    <2> HIDE DEF d
    <2>2. /\ q \in PeerRecords /\ SamePeer(q, d) /\ q.pending = d.pending /\ q.answered = d.answered
          /\ q.fault = d.fault
      BY <2>1, MaybeFinishFacts
    <2>3. golfPeer' = q \/ golfPeer' = Latch(golfPeer, TRUE)
      BY <1>7 DEF d
    <2>4. wires.mishaps = 0 /\ simu.pc # "dead" => golfPeer' = q
      BY <1>7 DEF d
    <2> HIDE DEF q
    <2>5. PeerStands(q)
      BY <2>1, <2>2 DEF PeerStands, SamePeer
    <2>6. Goes(q)
      BY <2>1, <2>2, <2>5 DEF SamePeer
    <2>7. Waits(q)
      <3>1. LatestPose(q) = LatestPose(d)
        BY <2>2 DEF LatestPose, SamePeer
      <3>2. NeedsPose(q, q.pending) = NeedsPose(d, q.pending)
        BY <2>2, <3>1, NeedsPoseSame
      <3> QED BY <2>1, <2>2, <3>2 DEF SamePeer
    <2> QED BY <1>5, <2>3, <2>4, <2>6, <2>7
  <1>8. Goes(golfPeer') /\ (wires.mishaps = 0 /\ simu.pc # "dead" => Waits(golfPeer'))
    BY <1>6, <1>7
  <1>9. wires.mishaps = 0 /\ simu.pc # "dead" => WheelsUnderWay
    BY LockFacts
  <1>10. PeerStands(golfPeer)'
    BY <1>8 DEF PeerStands
  <1>11. ASSUME left.mishaps = 0, simu.pc # "dead"
         PROVE  /\ wires.mishaps = 0 /\ golfPeer'.wheel + Len(left.wheel) = simu.tick
                /\ \A j \in 1..Len(left.wheel) : left.wheel[j].t = golfPeer'.wheel + j
                /\ PosesUnderWay(left.rtk, golfPeer'.rtk) /\ PosesUnderWay(left.imu, golfPeer'.imu)
                /\ golfPeer'.pending # 0 => NeedsPose(golfPeer', golfPeer'.pending)
    BY <1>8, <1>9, <1>11 DEF WheelsUnderWay
  <1>12. /\ golfPeer' \in PeerRecords /\ golfPeer'.pc = golfPeer.pc
         /\ golfPeer'.result = golfPeer.result /\ golfPeer'.exit = golfPeer.exit
         /\ Len(golfPeer.answered) <= Len(golfPeer'.answered)
    BY <1>8
  <1> HIDE DEF Goes, Waits
  <1> QED BY <1>2, <1>10, <1>11, <1>12, PeerSendsKeeps

LEMMA OnPoseKeeps ==
  ASSUME GolfInv, NEW topic \in {"rtk", "imu"}, OnPose(topic)
  PROVE  GolfInv'
  <1>1. /\ orch \in OrchRecords /\ simu \in SimuRecords /\ golfPeer \in PeerRecords
        /\ recd \in RecdRecords /\ wires \in WireRecords /\ LockStep
    BY GolfTypesApply DEF GolfInv
  <1> DEFINE k == Head(wires[topic]) \div PosePeriod
             counted == [golfPeer EXCEPT ![topic] = k + 1]
             left == [wires EXCEPT ![topic] = Tail(@)]
  <1>2. /\ PeerUp /\ wires[topic] # <<>> /\ Sends(left) /\ UNCHANGED <<orch, simu>>
        /\ golfPeer' = IF k # golfPeer[topic] THEN Latch(golfPeer, TRUE)
                       ELSE IF LatestPose(counted) = LatestPose(golfPeer) THEN counted
                       ELSE MaybeFinish(Dispatch(counted))
    BY DEF OnPose
  <1>3. /\ wires.rtk \in Seq(Nat) /\ wires.imu \in Seq(Nat) /\ golfPeer.rtk \in Nat /\ golfPeer.imu \in Nat
    BY <1>1 DEF WireRecords, PeerRecords
  <1>4. k \in Nat /\ Tail(wires[topic]) \in Seq(Nat)
    <2>1. wires[topic] \in Seq(Nat)
      BY <1>3
    <2>2. Head(wires[topic]) \in Nat /\ Tail(wires[topic]) \in Seq(Nat)
      BY <1>2, <2>1, QueueTail
    <2> HIDE DEF left, counted
    <2>3. ASSUME NEW h \in Nat PROVE h \div PosePeriod \in Nat
      BY GolfConstants, DivFacts
    <2> QED BY <2>2, <2>3
  <1>5. wires.mishaps = 0 /\ simu.pc # "dead" =>
           PosesUnderWay(wires.rtk, golfPeer.rtk) /\ PosesUnderWay(wires.imu, golfPeer.imu)
           /\ Published \in Nat
    <2>1. wires.mishaps = 0 /\ simu.pc # "dead" =>
             PosesUnderWay(wires.rtk, golfPeer.rtk) /\ PosesUnderWay(wires.imu, golfPeer.imu)
      BY LockFacts
    <2>2. golfPeer.rtk + Len(wires.rtk) \in Nat
      BY <1>3
    <2> QED BY <2>1, <2>2 DEF PosesUnderWay
  <1>6. CASE topic = "rtk"
    <2>1. /\ counted = [golfPeer EXCEPT !.rtk = k + 1] /\ left = [wires EXCEPT !.rtk = Tail(wires.rtk)]
          /\ k = Head(wires.rtk) \div PosePeriod /\ wires.rtk # <<>> /\ golfPeer[topic] = golfPeer.rtk
      BY <1>2, <1>6
    <2>2. Tail(wires.rtk) \in Seq(Nat)
      BY <1>4, <1>6
    <2>3. ASSUME wires.mishaps = 0, simu.pc # "dead"
          PROVE  /\ k = golfPeer.rtk /\ PosesUnderWay(Tail(wires.rtk), golfPeer.rtk + 1)
                 /\ PosesUnderWay(wires.imu, golfPeer.imu)
      <3> DEFINE q == wires.rtk  c == golfPeer.rtk  n == Published
      <3>1. /\ q \in Seq(Nat) /\ c \in Nat /\ n \in Nat /\ q # <<>> /\ c + Len(q) = n
            /\ \A j \in 1..Len(q) : q[j] \div PosePeriod = c + j - 1
        BY <1>3, <1>5, <2>1, <2>3 DEF PosesUnderWay
      <3> HIDE DEF q, c, n
      <3>2. /\ Head(q) \div PosePeriod = c /\ (c + 1) + Len(Tail(q)) = n
            /\ \A j \in 1..Len(Tail(q)) : Tail(q)[j] \div PosePeriod = (c + 1) + j - 1
        BY <3>1, PoseTaken
      <3> QED BY <1>5, <2>1, <2>3, <3>2 DEF PosesUnderWay, q, c, n
    <2> HIDE DEF k
    <2>4. /\ counted \in PeerRecords /\ counted.pc = golfPeer.pc /\ counted.result = golfPeer.result
          /\ counted.exit = golfPeer.exit /\ counted.wheel = golfPeer.wheel
          /\ counted.pending = golfPeer.pending /\ counted.answered = golfPeer.answered
          /\ counted.fault = golfPeer.fault /\ counted.rtk = k + 1 /\ counted.imu = golfPeer.imu
      <3> DEFINE m == k + 1
      <3>1. m \in Nat
        BY <1>4
      <3>2. counted = [golfPeer EXCEPT !.rtk = m]
        BY <2>1
      <3> HIDE DEF counted, m
      <3>3. /\ counted \in PeerRecords /\ counted.pc = golfPeer.pc /\ counted.result = golfPeer.result
            /\ counted.exit = golfPeer.exit /\ counted.wheel = golfPeer.wheel
            /\ counted.pending = golfPeer.pending /\ counted.answered = golfPeer.answered
            /\ counted.fault = golfPeer.fault /\ counted.rtk = m /\ counted.imu = golfPeer.imu
        BY <1>1, <3>1, <3>2 DEF PeerRecords
      <3> QED BY <3>3 DEF m
    <2>5. /\ left \in WireRecords /\ left.rtk = Tail(wires.rtk) /\ left.imu = wires.imu
          /\ left.wheel = wires.wheel /\ left.command = wires.command /\ left.mishaps = wires.mishaps
      <3> HIDE DEF left
      <3> QED BY <1>1, <2>1, <2>2 DEF WireRecords
    <2> HIDE DEF counted, left
    <2> QED BY ZenonT(60), <1>2, <2>1, <2>3, <2>4, <2>5, PoseStepKeeps
  <1>7. CASE topic = "imu"
    <2>1. /\ counted = [golfPeer EXCEPT !.imu = k + 1] /\ left = [wires EXCEPT !.imu = Tail(wires.imu)]
          /\ k = Head(wires.imu) \div PosePeriod /\ wires.imu # <<>> /\ golfPeer[topic] = golfPeer.imu
      BY <1>2, <1>7
    <2>2. Tail(wires.imu) \in Seq(Nat)
      BY <1>4, <1>7
    <2>3. ASSUME wires.mishaps = 0, simu.pc # "dead"
          PROVE  /\ k = golfPeer.imu /\ PosesUnderWay(Tail(wires.imu), golfPeer.imu + 1)
                 /\ PosesUnderWay(wires.rtk, golfPeer.rtk)
      <3> DEFINE q == wires.imu  c == golfPeer.imu  n == Published
      <3>1. /\ q \in Seq(Nat) /\ c \in Nat /\ n \in Nat /\ q # <<>> /\ c + Len(q) = n
            /\ \A j \in 1..Len(q) : q[j] \div PosePeriod = c + j - 1
        BY <1>3, <1>5, <2>1, <2>3 DEF PosesUnderWay
      <3> HIDE DEF q, c, n
      <3>2. /\ Head(q) \div PosePeriod = c /\ (c + 1) + Len(Tail(q)) = n
            /\ \A j \in 1..Len(Tail(q)) : Tail(q)[j] \div PosePeriod = (c + 1) + j - 1
        BY <3>1, PoseTaken
      <3> QED BY <1>5, <2>1, <2>3, <3>2 DEF PosesUnderWay, q, c, n
    <2> HIDE DEF k
    <2>4. /\ counted \in PeerRecords /\ counted.pc = golfPeer.pc /\ counted.result = golfPeer.result
          /\ counted.exit = golfPeer.exit /\ counted.wheel = golfPeer.wheel
          /\ counted.pending = golfPeer.pending /\ counted.answered = golfPeer.answered
          /\ counted.fault = golfPeer.fault /\ counted.imu = k + 1 /\ counted.rtk = golfPeer.rtk
      <3> DEFINE m == k + 1
      <3>1. m \in Nat
        BY <1>4
      <3>2. counted = [golfPeer EXCEPT !.imu = m]
        BY <2>1
      <3> HIDE DEF counted, m
      <3>3. /\ counted \in PeerRecords /\ counted.pc = golfPeer.pc /\ counted.result = golfPeer.result
            /\ counted.exit = golfPeer.exit /\ counted.wheel = golfPeer.wheel
            /\ counted.pending = golfPeer.pending /\ counted.answered = golfPeer.answered
            /\ counted.fault = golfPeer.fault /\ counted.imu = m /\ counted.rtk = golfPeer.rtk
        BY <1>1, <3>1, <3>2 DEF PeerRecords
      <3> QED BY <3>3 DEF m
    <2>5. /\ left \in WireRecords /\ left.imu = Tail(wires.imu) /\ left.rtk = wires.rtk
          /\ left.wheel = wires.wheel /\ left.command = wires.command /\ left.mishaps = wires.mishaps
      <3> HIDE DEF left
      <3> QED BY <1>1, <2>1, <2>2 DEF WireRecords
    <2> HIDE DEF counted, left
    <2> QED BY <1>2, <2>1, <2>3, <2>4, <2>5, PoseStepKeeps
  <1> QED BY <1>6, <1>7

(* A wheel state is taken: ignored, answered, or left pending. *)
LEMMA OnWheelKeeps == ASSUME GolfInv, NEW lag \in BOOLEAN, OnWheel(lag) PROVE GolfInv'
  <1>1. /\ orch \in OrchRecords /\ simu \in SimuRecords /\ golfPeer \in PeerRecords
        /\ recd \in RecdRecords /\ wires \in WireRecords /\ LockStep /\ PeerStands(golfPeer)
    BY GolfTypesApply DEF GolfInv
  <1> DEFINE W == [t : Nat, moving : BOOLEAN]  queue == wires.wheel  rest == Tail(wires.wheel)
             msg == Head(wires.wheel)  t == Head(wires.wheel).t  moving == Head(wires.wheel).moving
             seen == Accepted(msg, lag)  left == [Mishap(wires, lag) EXCEPT !.wheel = Tail(@)]
  <1>2. /\ PeerUp /\ queue # <<>> /\ Sends(left) /\ UNCHANGED <<orch, simu>>
        /\ golfPeer' = IF t # golfPeer.wheel + 1 THEN Latch(golfPeer, TRUE)
                       ELSE IF golfPeer.pending # 0
                       THEN PublishCommand(Dispatch(Latch(seen, TRUE)), t)
                       ELSE IF NeedsPose(seen, t) THEN [seen EXCEPT !.pending = t]
                       ELSE PublishCommand(seen, t)
    BY DEF OnWheel
  <1>3. /\ rest \in Seq(W) /\ Len(rest) = Len(queue) - 1 /\ msg = queue[1] /\ msg \in W
        /\ Len(queue) \in Nat \ {0} /\ \A k \in 1..Len(rest) : rest[k] = queue[k + 1]
    <2>1. queue \in Seq(W)
      BY <1>1 DEF WireRecords
    <2> HIDE DEF W
    <2> QED BY <1>2, <2>1, QueueTail
  <1>4. t \in Nat /\ moving \in BOOLEAN /\ t = queue[1].t
    BY <1>3
  <1>5. /\ left \in WireRecords /\ left.wheel = rest /\ left.rtk = wires.rtk /\ left.imu = wires.imu
        /\ left.command = wires.command /\ (left.mishaps = 0 => wires.mishaps = 0)
    <2> DEFINE m == Mishap(wires, lag)
    <2>1. /\ m \in WireRecords /\ m.wheel = wires.wheel /\ m.rtk = wires.rtk /\ m.imu = wires.imu
          /\ m.command = wires.command /\ (m.mishaps = 0 => wires.mishaps = 0)
      BY <1>1, MishapFacts
    <2> HIDE DEF m
    <2>2. left = [m EXCEPT !.wheel = rest]
      BY <2>1 DEF m
    <2> HIDE DEF rest, left
    <2> QED BY <1>3, <2>1, <2>2 DEF WireRecords
  <1>6. /\ seen \in PeerRecords /\ seen.wheel = t /\ seen.pc = golfPeer.pc /\ seen.exit = golfPeer.exit
        /\ seen.result = golfPeer.result /\ seen.rtk = golfPeer.rtk /\ seen.imu = golfPeer.imu
        /\ seen.pending = golfPeer.pending /\ seen.answered = golfPeer.answered
    <2> DEFINE f == golfPeer.fault \/ lag
    <2>1. seen = [golfPeer EXCEPT !.wheel = t, !.moving = moving, !.fault = f]
      BY DEF Accepted
    <2>2. f \in BOOLEAN
      BY <1>1 DEF PeerRecords
    <2> HIDE DEF f, t, moving, seen
    <2> QED BY <1>1, <1>4, <2>1, <2>2 DEF PeerRecords
  <1> HIDE DEF t, moving, msg, seen, left, rest
  <1>7. /\ golfPeer.answered \in Seq(GolfAnswers) /\ golfPeer.wheel \in Nat /\ golfPeer.pending \in Nat
        /\ Len(golfPeer.answered) \in Nat
    <2>1. golfPeer.answered \in Seq(GolfAnswers) /\ golfPeer.wheel \in Nat /\ golfPeer.pending \in Nat
      BY <1>1 DEF PeerRecords
    <2> QED BY <2>1
  <1>8. ASSUME wires.mishaps = 0, simu.pc # "dead"
        PROVE  /\ t = golfPeer.wheel + 1 /\ t + Len(rest) = simu.tick
               /\ \A k \in 1..Len(rest) : rest[k].t = t + k
               /\ PosesUnderWay(wires.rtk, golfPeer.rtk) /\ PosesUnderWay(wires.imu, golfPeer.imu)
    <2>1. /\ WheelsUnderWay /\ PosesUnderWay(wires.rtk, golfPeer.rtk)
          /\ PosesUnderWay(wires.imu, golfPeer.imu)
      BY <1>8, LockFacts
    <2>2. t = golfPeer.wheel + 1
      <3>1. 1 \in 1..Len(queue)
        <4>1. Len(queue) \in Nat \ {0}
          BY <1>3
        <4> QED BY <4>1
      <3> QED BY <1>4, <2>1, <3>1 DEF WheelsUnderWay
    <2>3. t + Len(rest) = simu.tick
      <3> DEFINE m == Len(queue)  r == Len(rest)
      <3>1. m \in Nat /\ r = m - 1 /\ golfPeer.wheel + m = simu.tick
        BY <1>3, <2>1 DEF WheelsUnderWay
      <3> HIDE DEF m, r
      <3>2. t + r = simu.tick
        BY <1>7, <2>2, <3>1
      <3> QED BY <3>2 DEF r
    <2>4. ASSUME NEW k \in 1..Len(rest) PROVE rest[k].t = t + k
      <3>1. rest[k] = queue[k + 1] /\ k + 1 \in 1..Len(queue)
        <4>1. Len(rest) = Len(queue) - 1 /\ Len(queue) \in Nat \ {0} /\ rest[k] = queue[k + 1]
          BY <1>3
        <4> DEFINE m == Len(queue)
        <4>2. m \in Nat /\ k \in 1..(m - 1)
          BY <4>1
        <4> HIDE DEF m
        <4>3. k + 1 \in 1..m
          BY <4>2
        <4> QED BY <4>1, <4>3 DEF m
      <3>2. queue[k + 1].t = golfPeer.wheel + (k + 1)
        BY <2>1, <3>1 DEF WheelsUnderWay
      <3>3. rest[k].t = golfPeer.wheel + (k + 1)
        BY <3>1, <3>2
      <3> DEFINE w == golfPeer.wheel  r == rest[k].t
      <3>4. w \in Nat /\ t = w + 1 /\ r = w + (k + 1)
        BY <1>7, <2>2, <3>3
      <3> HIDE DEF w, r
      <3>5. r = t + k
        BY <3>4
      <3> QED BY <3>5 DEF r
    <2> QED BY <2>1, <2>2, <2>3, <2>4
  <1>9. CASE t # golfPeer.wheel + 1
    <2> DEFINE q == Latch(golfPeer, TRUE)
    <2>1. q \in PeerRecords /\ SamePeer(q, golfPeer) /\ q.pending = golfPeer.pending
          /\ q.answered = golfPeer.answered /\ golfPeer' = q
      BY <1>1, <1>2, <1>9, LatchFacts
    <2> HIDE DEF q
    <2>2. PeerStands(golfPeer)'
      BY <1>1, <2>1 DEF PeerStands, SamePeer
    <2>3. ASSUME left.mishaps = 0, simu.pc # "dead" PROVE FALSE
      BY <1>5, <1>8, <1>9, <2>3
    <2>4. /\ golfPeer'.pc = golfPeer.pc /\ golfPeer'.result = golfPeer.result
          /\ golfPeer'.exit = golfPeer.exit /\ Len(golfPeer.answered) <= Len(golfPeer'.answered)
      BY <1>7, <2>1 DEF SamePeer
    <2>5. golfPeer.pc \notin {"none", "dead"}
      BY <1>2 DEF PeerUp
    <2> QED BY <1>2, <1>5, <2>1, <2>2, <2>3, <2>4, <2>5, PeerSendsKeeps
  <1>10. ASSUME t = golfPeer.wheel + 1, golfPeer' \in PeerRecords, SamePeer(golfPeer', seen),
                PeerStands(golfPeer)', Len(golfPeer.answered) <= Len(golfPeer'.answered),
                golfPeer'.pending # 0 => NeedsPose(golfPeer', golfPeer'.pending)
         PROVE  GolfInv'
    <2>1. /\ golfPeer'.pc = golfPeer.pc /\ golfPeer'.result = golfPeer.result
          /\ golfPeer'.exit = golfPeer.exit /\ golfPeer'.wheel = t
          /\ golfPeer'.rtk = golfPeer.rtk /\ golfPeer'.imu = golfPeer.imu
      BY <1>6, <1>10 DEF SamePeer
    <2>2. ASSUME left.mishaps = 0, simu.pc # "dead"
          PROVE  /\ wires.mishaps = 0 /\ golfPeer'.wheel + Len(left.wheel) = simu.tick
                 /\ \A k \in 1..Len(left.wheel) : left.wheel[k].t = golfPeer'.wheel + k
                 /\ PosesUnderWay(left.rtk, golfPeer'.rtk) /\ PosesUnderWay(left.imu, golfPeer'.imu)
      BY <1>5, <1>8, <2>1, <2>2
    <2> QED BY <1>2, <1>5, <1>10, <2>1, <2>2, PeerSendsKeeps DEF PeerUp
  <1>11. CASE t = golfPeer.wheel + 1 /\ golfPeer.pending # 0
    <2> DEFINE a == Latch(seen, TRUE)  h == [a EXCEPT !.pending = 0]
               d == PublishCommand(h, a.pending)  q == PublishCommand(d, t)
    <2>1. /\ a \in PeerRecords /\ SamePeer(a, seen) /\ a.pending = golfPeer.pending
          /\ a.answered = golfPeer.answered /\ a.fault
      BY <1>6, LatchFacts
    <2>2. golfPeer' = PublishCommand(Dispatch(a), t)
      BY <1>2, <1>11
    <2> HIDE DEF a
    <2>3. Dispatch(a) = d
      BY <1>11, <2>1 DEF Dispatch, NeedsPose
    <2>4. h \in PeerRecords /\ SamePeer(h, a) /\ h.pending = 0 /\ h.answered = golfPeer.answered
      BY <2>1 DEF PeerRecords, SamePeer
    <2> HIDE DEF h
    <2>5. /\ golfPeer.pending = golfPeer.wheel /\ Len(h.answered) = golfPeer.pending - 1
          /\ \A k \in 1..Len(h.answered) : /\ h.answered[k].t = k
                                           /\ ~h.answered[k].ok => h.answered[k].speed = 0
      BY <1>1, <1>11, <2>4 DEF PeerStands
    <2>6. d \in PeerRecords /\ SamePeer(d, h) /\ d.pending = 0
      BY <1>7, <2>1, <2>4, PublishFacts
    <2>7. /\ Len(d.answered) = golfPeer.pending
          /\ \A k \in 1..Len(d.answered) : /\ d.answered[k].t = k
                                           /\ ~d.answered[k].ok => d.answered[k].speed = 0
      BY SMTT(30), <1>7, <2>1, <2>4, <2>5, PublishStands
    <2>8. golfPeer' = q
      BY <2>2, <2>3
    <2> HIDE DEF d
    <2>9. q \in PeerRecords /\ SamePeer(q, d) /\ q.pending = 0
      BY <1>4, <2>6, PublishFacts
    <2>10. /\ Len(q.answered) = t
           /\ \A k \in 1..Len(q.answered) : /\ q.answered[k].t = k
                                            /\ ~q.answered[k].ok => q.answered[k].speed = 0
      <3>1. Len(d.answered) = t - 1
        BY <1>7, <1>11, <2>5, <2>7
      <3> QED BY <1>4, <2>6, <2>7, <3>1, PublishStands
    <2> HIDE DEF q
    <2>11. SamePeer(q, seen) /\ q.wheel = t
      BY <1>6, <2>1, <2>4, <2>6, <2>9 DEF SamePeer
    <2>12. PeerStands(golfPeer)'
      BY <2>8, <2>9, <2>10, <2>11 DEF PeerStands
    <2>13. Len(golfPeer.answered) <= Len(golfPeer'.answered)
      BY <1>7, <1>11, <2>4, <2>5, <2>8, <2>10
    <2> QED BY <1>10, <1>11, <2>8, <2>9, <2>11, <2>12, <2>13
  <1>12. CASE t = golfPeer.wheel + 1 /\ golfPeer.pending = 0 /\ NeedsPose(seen, t)
    <2>1. golfPeer' = [seen EXCEPT !.pending = t]
      BY <1>2, <1>12
    <2>2. /\ golfPeer' \in PeerRecords /\ SamePeer(golfPeer', seen) /\ golfPeer'.pending = t
          /\ golfPeer'.answered = golfPeer.answered /\ golfPeer'.fault = seen.fault
      BY <1>4, <1>6, <2>1 DEF PeerRecords, SamePeer
    <2>3. Len(golfPeer.answered) = t - 1 /\ t # 0
      BY <1>1, <1>7, <1>12 DEF PeerStands
    <2>4. PeerStands(golfPeer)'
      BY <1>1, <1>6, <2>2, <2>3 DEF PeerStands, SamePeer
    <2>5. NeedsPose(golfPeer', golfPeer'.pending)
      <3>1. LatestPose(golfPeer') = LatestPose(seen)
        BY <2>2 DEF LatestPose, SamePeer
      <3>2. NeedsPose(golfPeer', t) = NeedsPose(seen, t)
        BY <2>2, <3>1, NeedsPoseSame
      <3> QED BY <1>12, <2>2, <3>2
    <2> QED BY <1>7, <1>10, <1>12, <2>2, <2>4, <2>5
  <1>13. CASE t = golfPeer.wheel + 1 /\ golfPeer.pending = 0 /\ ~NeedsPose(seen, t)
    <2> DEFINE q == PublishCommand(seen, t)
    <2>1. golfPeer' = q
      BY <1>2, <1>13
    <2>2. q \in PeerRecords /\ SamePeer(q, seen) /\ q.pending = 0
      BY <1>4, <1>6, <1>13, PublishFacts
    <2>3. Len(golfPeer.answered) = t - 1
      BY <1>1, <1>7, <1>13 DEF PeerStands
    <2>4. /\ Len(q.answered) = t
          /\ \A k \in 1..Len(q.answered) : /\ q.answered[k].t = k
                                           /\ ~q.answered[k].ok => q.answered[k].speed = 0
      <3>1. /\ Len(seen.answered) = t - 1
            /\ \A k \in 1..Len(seen.answered) : /\ seen.answered[k].t = k
                                                /\ ~seen.answered[k].ok => seen.answered[k].speed = 0
        BY <1>1, <1>6, <2>3 DEF PeerStands
      <3> QED BY <1>4, <1>6, <3>1, PublishStands
    <2> HIDE DEF q
    <2>5. PeerStands(golfPeer)'
      BY <1>6, <2>1, <2>2, <2>4 DEF PeerStands, SamePeer
    <2>6. Len(golfPeer.answered) <= Len(golfPeer'.answered)
      BY <1>4, <2>1, <2>3, <2>4
    <2> QED BY <1>10, <1>13, <2>1, <2>2, <2>5, <2>6
  <1> QED BY <1>9, <1>11, <1>12, <1>13

(* A pose that has been published and counted is recent enough for the     *)
(* wheel state of the same period.                                         *)
LEMMA RecentPose ==
  ASSUME NEW p, NEW t \in Nat \ {0}, p.rtk = (t - 1) \div PosePeriod + 1,
         p.imu = (t - 1) \div PosePeriod + 1
  PROVE  ~NeedsPose(p, t)
  <1> DEFINE l == (t - 1) \div PosePeriod
             kept == {k \in 0..l : k > l - 4 /\ k * PosePeriod <= t}
  <1>1. l \in Nat /\ PosePeriod * l <= t /\ t - PosePeriod * l <= PosePeriod /\ PosePeriod \in Nat
    BY GolfConstants, DivStep
  <1>2. LatestPose(p) = l
    <2> HIDE DEF l
    <2>1. p.rtk = l + 1 /\ p.imu = l + 1
      BY DEF l
    <2> QED BY <1>1, <2>1 DEF LatestPose
  <1> HIDE DEF l
  <1>3. l \in kept
    <2>1. l * PosePeriod = PosePeriod * l
      BY <1>1
    <2> QED BY <1>1, <2>1
  <1>4. \A j \in kept : j <= l
    BY <1>1
  <1>5. (CHOOSE k \in kept : \A j \in kept : j <= k) = l
    <2> DEFINE c == CHOOSE k \in kept : \A j \in kept : j <= k
    <2>1. c \in kept /\ \A j \in kept : j <= c
      BY <1>3, <1>4
    <2>2. c <= l /\ l <= c /\ c \in Int
      BY <1>1, <1>3, <1>4, <2>1
    <2> HIDE DEF c
    <2>3. c = l
      BY <1>1, <2>2
    <2> QED BY <2>3 DEF c
  <1>6. PoseAt(p, t) = PosePeriod * l
    BY <1>2, <1>3, <1>5 DEF PoseAt
  <1> QED BY <1>1, <1>6 DEF NeedsPose

LEMMA GolfInvSuffices == GolfInv => MappingSound
  <1> SUFFICES ASSUME GolfInv PROVE MappingSound
    OBVIOUS
  <1>1. /\ orch \in OrchRecords /\ simu \in SimuRecords /\ golfPeer \in PeerRecords
        /\ recd \in RecdRecords /\ wires \in WireRecords /\ LockStep
    BY GolfTypesApply DEF GolfInv
  <1>2. OneAnswerPerState
    BY DEF GolfInv, PeerStands, OneAnswerPerState
  <1>3. NoLockstepDeadlock
    <2> SUFFICES ASSUME wires.mishaps = 0, golfPeer.pending # 0, simu.pc = "answer",
                        wires.rtk = <<>>, wires.imu = <<>>, wires.command = <<>>
                 PROVE  FALSE
      BY DEF NoLockstepDeadlock
    <2> DEFINE t == simu.tick  l == (simu.tick - 1) \div PosePeriod
    <2>1. /\ WheelsUnderWay /\ CommandsUnderWay /\ SimuWaits
          /\ PosesUnderWay(wires.rtk, golfPeer.rtk) /\ PosesUnderWay(wires.imu, golfPeer.imu)
          /\ NeedsPose(golfPeer, golfPeer.pending)
          /\ golfPeer.wheel <= t
      BY LockFacts
    <2>2. /\ golfPeer.pending = golfPeer.wheel /\ Len(golfPeer.answered) = golfPeer.wheel - 1
      BY DEF GolfInv, PeerStands
    <2>3. /\ golfPeer.wheel \in Nat /\ simu.latest \in Nat /\ t \in Nat /\ golfPeer.rtk \in Nat
          /\ golfPeer.imu \in Nat
      BY <1>1 DEF PeerRecords, SimuRecords
    <2>4. simu.latest = golfPeer.wheel - 1
      BY <2>1, <2>2, <2>3 DEF CommandsUnderWay
    <2>5. golfPeer.pending = t /\ t # 0
      BY <2>1, <2>2, <2>3, <2>4 DEF SimuWaits
    <2>6. golfPeer.rtk = l + 1 /\ golfPeer.imu = l + 1
      <3>1. Published = l + 1
        BY DEF Published, NotStarted
      <3> HIDE DEF l
      <3>2. golfPeer.rtk + 0 = l + 1 /\ golfPeer.imu + 0 = l + 1
        BY <2>1, <3>1 DEF PosesUnderWay
      <3> QED BY <2>3, <3>2
    <2>7. ~NeedsPose(golfPeer, t)
      <3>1. t \in Nat \ {0}
        BY <2>3, <2>5
      <3> QED BY <2>6, <3>1, RecentPose
    <2> QED BY <2>1, <2>5, <2>7
  <1>4. AcceptedIsComplete
    BY DEF GolfInv, SessionStands, JudgedPcs, AcceptedIsComplete, GolfAlive
  <1> QED BY <1>2, <1>3, <1>4 DEF MappingSound

LEMMA GolfStep == GolfInv /\ [GolfNext]_golfVars => GolfInv'
  <1> SUFFICES ASSUME GolfInv, [GolfNext]_golfVars PROVE GolfInv'
    OBVIOUS
  <1>1. CASE Simulator
    BY <1>1, SimuSmallSteps, SimuStartsKeeps, SimuStepKeeps, AcceptCommandKeeps, SimuAnsweredKeeps,
       SafetyKeeps DEF Simulator
  <1>2. CASE CommandPeer
    BY <1>2, OnWheelKeeps, ServicePendingKeeps, OnPoseKeeps, PeerEndsKeep DEF CommandPeer
  <1>3. CASE GolfRecorder
    BY <1>3, RecorderEndKeeps DEF GolfRecorder
  <1>4. CASE Orchestrator
    <2>1. CASE \E ok \in BOOLEAN : Spawn(ok)
      BY <2>1, SpawnKeeps
    <2>2. CASE StopGroups
      BY <2>2, StopGroupsKeeps
    <2>3. CASE \/ \E ok \in BOOLEAN : Preflight(ok) \/ WaitReady(~ok) \/ Metrics(ok) \/ ExportLidar(ok) \/ Replay(ok)
               \/ WaitCompletion \/ Validate \/ PublishFault \/ EndGrace
      BY <2>3, OrchestratorKeeps
    <2> QED BY <1>4, <2>1, <2>2, <2>3 DEF Orchestrator
  <1>5. CASE Crash \/ Stall \/ \E topic \in {"wheel", "rtk", "imu", "command"} : LoseMessage(topic)
    BY <1>5, MishapsKeep
  <1>6. CASE UNCHANGED golfVars
    <2>1. UNCHANGED <<orch, simu, golfPeer, recd, wires>>
      BY <1>6 DEF golfVars
    <2>2. orch \in OrchRecords /\ SessionStands
      BY GolfTypesApply DEF GolfInv
    <2>3. orch' \in OrchRecords /\ SessionStands'
      BY <2>1, <2>2 DEF SessionStands, SimuEnded, PeerEnded, RecdEnded, JudgedPcs, GolfAlive
    <2> QED BY <2>1, <2>3, OrchRests
  <1> QED BY <1>1, <1>2, <1>3, <1>4, <1>5, <1>6 DEF GolfNext

(* The session is sound: every wheel state is answered once, in order, and *)
(* with no speed after a fault; nobody waits for a message that was taken  *)
(* as long as nothing went wrong from outside, however long the route is   *)
(* and however the callbacks come; and what is accepted is whole, with     *)
(* nothing left running.                                                   *)
THEOREM TheMappingIsSound == GolfSpec => []MappingSound
  <1>1. GolfInit /\ [][GolfNext]_golfVars => []GolfInv
    BY GolfInitially, GolfStep, PTL
  <1>2. GolfSpec => GolfInit /\ [][GolfNext]_golfVars
    BY DEF GolfSpec
  <1> QED BY <1>1, <1>2, GolfInvSuffices, PTL
=============================================================================
