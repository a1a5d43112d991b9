---------------------------- MODULE DashboardView ----------------------------
(***************************************************************************)
(* The live v2 view of the manual dashboard: the raw eCAL observer and the *)
(* receiver (interfaces/v2/dashboard_receiver.py), the snapshot store      *)
(* (dashboard_snapshot.py), the widget with its background renderer        *)
(* (dashboard_adapter.py).                                                 *)
(*                                                                         *)
(* Five threads: the eCAL callbacks fill queues of length one, the         *)
(* observer's worker checks the metadata, the receiver's worker decodes    *)
(* and writes, the GUI thread reads, the renderer builds images.  A        *)
(* message is <<world generation, sequence>>; the three sensors of one     *)
(* sample carry the same time stamp, here the sequence.                    *)
(***************************************************************************)
EXTENDS Integers, Sequences, FiniteSets, SequencesExt

CONSTANTS
    Sensors,         \* the topics that make up one sample; holds "lidar"
    MaxWorld,        \* bound on world rebuilds
    MaxSeq,          \* bound on messages of a topic in a world
    MaxKept,         \* samples the receiver keeps for matching
    History,         \* frames in the time window of the workbench
    MaxEdits         \* bound on what the user does to the workbench

ASSUME ViewAssumption == IsFiniteSet(Sensors) /\ History \in Nat

ViewTopics == Sensors \cup {"wheel"}
NoMsg == <<0, 0>>
NoTopic == [t \in ViewTopics |-> NoMsg]

VARIABLES
    viewBus,             \* the publishing simulator: world and sequences
    raw,             \* V2DashboardRawObserverTransport: _pending, closed
    rx,              \* V2DashboardEcalReceiver
    stores,          \* the snapshot stores, in the order of their creation
    gui,             \* V2DashboardWidget, and where the GUI thread is
    render              \* the renderer's task

viewVars == <<viewBus, raw, rx, stores, gui, render>>

EmptyStore == [world |-> 0, wheel |-> 0, lidar |-> 0]
NoRender == [state |-> "none", current |-> FALSE, frame |-> NoMsg, mode |-> "all"]
ViewInit ==
    /\ viewBus = [world |-> 1, seq |-> [t \in ViewTopics |-> 0]]
    /\ raw = [queue |-> NoTopic, closed |-> FALSE]
    /\ rx = [queue |-> NoTopic, work |-> <<>>, pc |-> "idle", world |-> 0,
             last |-> [t \in ViewTopics |-> 0], samples |-> {}, store |-> 1,
             cloud |-> NoMsg, closed |-> FALSE]
    /\ stores = <<EmptyStore>>
    /\ gui = [pc |-> "idle", ref |-> 0, world |-> 0, frames |-> <<>>, last |-> NoMsg,
              snap |-> EmptyStore, open |-> FALSE, pending |-> FALSE, cool |-> FALSE,
              failed |-> FALSE, mode |-> "all", edits |-> 0,
              canvas |-> [frame |-> NoMsg, mode |-> "all"], down |-> FALSE]
    /\ render = NoRender

-----------------------------------------------------------------------------
(* The simulator publishes a sample of all sensors, or the wheel state; a  *)
(* rebuilt world starts the sequences again.  The observer's callbacks     *)
(* copy the messages over unread ones; what is published after its end     *)
(* reaches nobody.                                                         *)
Publish(topics) ==
    /\ \A t \in topics : viewBus.seq[t] < MaxSeq
    /\ ~raw.closed
    /\ viewBus' = [viewBus EXCEPT !.seq = [t \in ViewTopics |-> IF t \in topics THEN @[t] + 1 ELSE @[t]]]
    /\ raw' = [raw EXCEPT !.queue = [t \in ViewTopics |->
                                       IF t \in topics THEN <<viewBus.world, viewBus.seq[t] + 1>> ELSE @[t]]]
    /\ UNCHANGED <<rx, stores, gui, render>>

Rebuild ==
    /\ viewBus.world < MaxWorld /\ ~raw.closed
    /\ viewBus' = [world |-> viewBus.world + 1, seq |-> [t \in ViewTopics |-> 0]]
    /\ UNCHANGED <<raw, rx, stores, gui, render>>

-----------------------------------------------------------------------------
(* process_pending of the observer takes what is queued in one go; a frame *)
(* goes on to the receiver's queue, where it replaces an unread one,       *)
(* unless its metadata is incomplete or contradicts the contract (any      *)
(* topic may be refused; one that splits a sample is enough).              *)
ObserverWorks(refused) ==
    /\ ~raw.closed /\ raw.queue # NoTopic
    /\ raw' = [raw EXCEPT !.queue = NoTopic]
    /\ rx' = IF rx.closed THEN rx
             ELSE [rx EXCEPT !.queue = [t \in ViewTopics |->
                        IF raw.queue[t] = NoMsg \/ t = refused THEN rx.queue[t] ELSE raw.queue[t]]]
    /\ UNCHANGED <<viewBus, stores, gui, render>>

-----------------------------------------------------------------------------
(* The receiver's worker: one step for every write another thread sees.    *)
Batch(queue) == SetToSeq({<<t, queue[t]>> : t \in {u \in ViewTopics : queue[u] # NoMsg}})
ReceiverTakes ==
    /\ rx.pc = "idle" /\ rx.work = <<>> /\ ~rx.closed /\ rx.queue # NoTopic
    /\ rx' = [rx EXCEPT !.work = Batch(rx.queue), !.queue = NoTopic]
    /\ UNCHANGED <<viewBus, raw, stores, gui, render>>

RxTopic == Head(rx.work)[1]
RxMsg == Head(rx.work)[2]
Refused == [rx EXCEPT !.work = Tail(@)]

(* _validate_monotonic: a message of an older world, or one that does not  *)
(* advance its topic, is refused; a newer world begins a store of its own. *)
Validate ==
    /\ rx.pc = "idle" /\ rx.work # <<>>
    /\ LET w == RxMsg[1]
           next == [rx EXCEPT !.pc = "valid", !.world = w, !.last[RxTopic] = RxMsg[2]]
       IN  IF rx.world \in {0, w}
           THEN /\ rx' = IF RxMsg[2] <= rx.last[RxTopic] THEN Refused ELSE next
                /\ stores' = stores
           ELSE IF w < rx.world THEN rx' = Refused /\ stores' = stores
           ELSE /\ rx' = [next EXCEPT !.pc = "switched", !.samples = {},
                                      !.last = [t \in ViewTopics |-> IF t = RxTopic THEN RxMsg[2] ELSE 0],
                                      !.store = @ + 1]
                /\ stores' = Append(stores, EmptyStore)
    /\ UNCHANGED <<viewBus, raw, gui, render>>

(* Mutant: the cloud of the old world stays with the receiver. *)
DropOldCloudNever ==
    /\ rx.pc = "switched"
    /\ rx' = [rx EXCEPT !.pc = "valid"]
    /\ UNCHANGED <<viewBus, raw, stores, gui, render>>

(* The point cloud of the old world is dropped, in a step of its own. *)
DropOldCloud ==
    /\ rx.pc = "switched"
    /\ rx' = [rx EXCEPT !.pc = "valid", !.cloud = NoMsg]
    /\ UNCHANGED <<viewBus, raw, stores, gui, render>>

(* update_wheel_state *)
RecordWheel ==
    /\ rx.pc = "valid" /\ RxTopic \notin Sensors
    /\ stores' = [stores EXCEPT ![rx.store] = [@ EXCEPT !.world = RxMsg[1], !.wheel = RxMsg[2]]]
    /\ rx' = [rx EXCEPT !.pc = "idle", !.work = Tail(@)]
    /\ UNCHANGED <<viewBus, raw, gui, render>>

(* _record_sensor: the message joins its sample, the oldest samples go;    *)
(* a whole sample is written as one.                                       *)
ViewStamps(samples) == {s[2] : s \in samples}
Joined ==
    LET all == rx.samples \cup {<<RxTopic, RxMsg[2]>>}
        kept == {n \in ViewStamps(all) : Cardinality({k \in ViewStamps(all) : k > n}) < MaxKept}
    IN  {s \in all : s[2] \in kept}
Whole(n, samples) == \A t \in Sensors : <<t, n>> \in samples
RecordSensor ==
    /\ rx.pc = "valid" /\ RxTopic \in Sensors
    /\ IF Whole(RxMsg[2], Joined)
       THEN /\ stores' = [stores EXCEPT ![rx.store] = [@ EXCEPT !.world = RxMsg[1], !.lidar = RxMsg[2]]]
            /\ rx' = [rx EXCEPT !.pc = "cloud", !.samples = Joined]
       ELSE /\ stores' = stores
            /\ rx' = [rx EXCEPT !.pc = "idle", !.work = Tail(@), !.samples = Joined]
    /\ UNCHANGED <<viewBus, raw, gui, render>>

(* _publish_cloud_frame *)
PublishCloud ==
    /\ rx.pc = "cloud"
    /\ rx' = [rx EXCEPT !.pc = "idle", !.work = Tail(@), !.cloud = RxMsg,
                        !.samples = {s \in @ : s[2] # RxMsg[2]}]
    /\ UNCHANGED <<viewBus, raw, stores, gui, render>>

-----------------------------------------------------------------------------
(* The renderer.  A task is current while the render generation is still   *)
(* the one it was submitted with.                                          *)
(* _cloud_render_data: the input of an image is fixed when it is submitted. *)
Submitted(g) == [state |-> "running", current |-> TRUE, frame |-> g.last, mode |-> g.mode]
Overtaken(j) == [j EXCEPT !.current = FALSE]

(* _render_cloud: one task at a time; new input supersedes a running one,  *)
(* and what comes within 100 ms of the last task is not drawn at all.      *)
RenderCloud(g, j, force) ==
    IF g.failed \/ ~g.open THEN <<g, j>>
    ELSE IF j.state # "none" THEN <<[g EXCEPT !.pending = TRUE], Overtaken(j)>>
    ELSE IF ~force /\ g.cool THEN <<g, j>>
    ELSE <<[g EXCEPT !.cool = TRUE], Submitted(g)>>

Renders(g, j, force) ==
    LET next == RenderCloud(g, j, force) IN gui' = next[1] /\ render' = next[2]

BuildImage(ok) ==
    /\ render.state = "running"
    /\ render' = [render EXCEPT !.state = IF ok THEN "done" ELSE "raised"]
    /\ UNCHANGED <<viewBus, raw, rx, stores, gui>>

Cooled ==
    /\ gui.cool
    /\ gui' = [gui EXCEPT !.cool = FALSE]
    /\ UNCHANGED <<viewBus, raw, rx, stores, render>>

(* _collect_cloud_render, on the widget's timer. *)
CollectRender ==
    /\ gui.pc = "idle" /\ ~gui.down /\ render.state \in {"done", "raised"}
    /\ LET g == [gui EXCEPT !.pending = FALSE,
                            !.failed = @ \/ render.state = "raised",
                            !.canvas = IF render.state = "done" /\ render.current /\ gui.open
                                       THEN [frame |-> render.frame, mode |-> render.mode] ELSE @]
       IN  IF gui.pending THEN Renders(g, NoRender, TRUE) ELSE gui' = g /\ render' = NoRender
    /\ UNCHANGED <<viewBus, raw, rx, stores>>

-----------------------------------------------------------------------------
(* The GUI thread: _refresh_v2_dashboard_from_receiver in three reads.     *)
GuiIdle == gui.pc = "idle" /\ ~gui.down
GrabStore ==
    /\ GuiIdle /\ ~rx.closed
    /\ gui' = [gui EXCEPT !.pc = "refresh", !.ref = rx.store]
    /\ UNCHANGED <<viewBus, raw, rx, stores, render>>

(* A widget that moves to another world forgets its frames. *)
InWorld(g, w) ==
    IF g.world = w THEN g
    ELSE [g EXCEPT !.world = w, !.frames = <<>>, !.last = NoMsg]

TaskInWorld(g, j, w) == IF g.world = w THEN j ELSE Overtaken(j)

(* refresh_from_store and update_snapshot *)
RefreshFromStore ==
    /\ gui.pc = "refresh"
    /\ LET s == stores[gui.ref]
           g == [gui EXCEPT !.pc = "cloud", !.ref = 0]
       IN  IF s.world = 0 \/ s = gui.snap THEN gui' = g /\ render' = render
           ELSE /\ gui' = [InWorld(g, s.world) EXCEPT !.snap = s]
                /\ render' = TaskInWorld(gui, render, s.world)
    /\ UNCHANGED <<viewBus, raw, rx, stores>>

(* update_cloud_frame *)
Windowed(frames) == IF Len(frames) > History THEN Tail(frames) ELSE frames
UpdateCloud ==
    /\ gui.pc = "cloud"
    /\ LET f == rx.cloud
           g == [InWorld(gui, f[1]) EXCEPT !.pc = "idle"]
           j == TaskInWorld(gui, render, f[1])
           kept == [g EXCEPT !.last = f, !.frames = Windowed(Append(@, f))]
       IN  IF f = NoMsg THEN gui' = [gui EXCEPT !.pc = "idle"] /\ render' = render
           ELSE IF g.last = f THEN gui' = g /\ render' = j
           ELSE Renders(kept, j, FALSE)
    /\ UNCHANGED <<viewBus, raw, rx, stores>>

-----------------------------------------------------------------------------
(* The user. *)
Edit(g) == [g EXCEPT !.edits = @ + 1]
CanEdit == GuiIdle /\ gui.edits < MaxEdits

(* _set_cloud_workbench_open: opening also closes the circuit breaker. *)
ToggleWorkbench ==
    /\ CanEdit
    /\ IF gui.open THEN gui' = [Edit(gui) EXCEPT !.open = FALSE] /\ render' = render
       ELSE Renders([Edit(gui) EXCEPT !.open = TRUE, !.failed = FALSE], render, TRUE)
    /\ UNCHANGED <<viewBus, raw, rx, stores>>

(* _change_cloud_display_mode: not a forced render. *)
ChangeMode ==
    /\ CanEdit
    /\ LET mode == IF gui.mode = "all" THEN "current" ELSE "all"
       IN  Renders([Edit(gui) EXCEPT !.mode = mode], render, FALSE)
    /\ UNCHANGED <<viewBus, raw, rx, stores>>

(* Point size and camera force a render. *)
ChangeView ==
    /\ CanEdit
    /\ Renders(Edit(gui), render, TRUE)
    /\ UNCHANGED <<viewBus, raw, rx, stores>>

(* The end of run_manual_demo: receiver, observer, then the widget, whose  *)
(* executor drops its task and whose timer stops.                          *)
CloseReceiver ==
    /\ gui.pc = "idle" /\ ~rx.closed
    /\ rx' = [rx EXCEPT !.closed = TRUE, !.queue = NoTopic]
    /\ UNCHANGED <<viewBus, raw, stores, gui, render>>

CloseObserver ==
    /\ gui.pc = "idle" /\ rx.closed /\ ~raw.closed
    /\ raw' = [queue |-> NoTopic, closed |-> TRUE]
    /\ UNCHANGED <<viewBus, rx, stores, gui, render>>

Shutdown ==
    /\ GuiIdle /\ raw.closed
    /\ gui' = [gui EXCEPT !.down = TRUE]
    /\ UNCHANGED <<viewBus, raw, rx, stores, render>>

-----------------------------------------------------------------------------
ObserverWorker == \E refused \in {"none", "imu"} : ObserverWorks(refused)
ReceiverWorker ==
    ReceiverTakes \/ Validate \/ DropOldCloud \/ RecordWheel \/ RecordSensor \/ PublishCloud
GuiThread == GrabStore \/ RefreshFromStore \/ UpdateCloud \/ CollectRender
User == ToggleWorkbench \/ ChangeMode \/ ChangeView

ViewNext ==
    \/ \E topics \in {Sensors, {"wheel"}} : Publish(topics)
    \/ Rebuild \/ ObserverWorker \/ ReceiverWorker \/ GuiThread \/ User
    \/ (\E ok \in BOOLEAN : BuildImage(ok)) \/ Cooled
    \/ CloseReceiver \/ CloseObserver \/ Shutdown

ViewSpec == ViewInit /\ [][ViewNext]_viewVars

-----------------------------------------------------------------------------
(* What is on the screen is of one world: the frames of the workbench      *)
(* belong to the world of the widget, whichever of the snapshot and the    *)
(* point cloud the GUI thread reads first.                                 *)
OneWorldOnScreen ==
    /\ \A k \in 1..Len(gui.frames) : gui.frames[k][1] = gui.world
    /\ gui.last # NoMsg => gui.last[1] = gui.world

(* No snapshot is ahead of the widget: it is told of a world before it     *)
(* reads anything of it.                                                   *)
SnapshotNotAhead == gui.snap.world <= gui.world

(* A new image is one of the newest frame in the chosen mode: a task that  *)
(* was overtaken by a frame, a world or an edit is never shown; and the    *)
(* widget never returns to an earlier world.                               *)
ScreenMovesForward ==
    [][ /\ gui'.canvas # gui.canvas => gui'.canvas = [frame |-> gui.last, mode |-> gui.mode]
        /\ gui'.world >= gui.world ]_viewVars

(* The screen shows one world, and only newer things than before. *)
ScreenIsCoherent == [](OneWorldOnScreen /\ SnapshotNotAhead) /\ ScreenMovesForward
=============================================================================
