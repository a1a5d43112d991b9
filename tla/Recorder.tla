------------------------------ MODULE Recorder ------------------------------
(***************************************************************************)
(* The C++ recorder process: the eCAL callbacks of the five topics, the    *)
(* interactive window that opens and closes on sensor boundaries, the      *)
(* bounded queue between callbacks and the writer, the main loop that      *)
(* drains the queue, and the atomic publication of the MCAP file and of    *)
(* the result document.                                                    *)
(*                                                                         *)
(* A frame is <<topic, stamp>>; its sequence number is its stamp, because  *)
(* every publisher numbers its frames in time order.  The bus delivers a   *)
(* topic in order, may lose frames and may repeat the last one.  A         *)
(* callback holds receipt_mutex from Observe to its last Enqueue and the   *)
(* main loop never takes it, so the two interleave between enqueues.       *)
(* The wall clock is a choice: the deadline, or 250 ms without a command,  *)
(* may pass at any iteration.                                              *)
(***************************************************************************)
EXTENDS Integers, Sequences, FiniteSets, SequencesExt

CONSTANTS
  SensorTopics,        \* the topics whose stamps make a boundary
  MaxStamp,            \* bound: the stamps of a topic are 1 .. MaxStamp[topic]
  QueueCapacity,       \* RecorderQueue's capacity (4096 in RunRecorder)
  MaxPendingSensors,   \* kMaximumPendingSensorBoundaries
  MaxPendingWheels,    \* kMaximumPendingWheelStates
  MaxFrames,           \* bound: frames delivered under each plan
  MaxRepeats,          \* bound: frames the bus repeats
  MaxLateFrames,       \* bound: frames delivered once a fault is latched
  Plans                \* the windows started: "interactive", "fixed"

ASSUME RecorderAssumption ==
  /\ SensorTopics # {} /\ SensorTopics \cap {"command", "wheel"} = {}
  /\ MaxStamp \in [{"command", "wheel"} \cup SensorTopics -> Nat \ {0}] /\ QueueCapacity \in Nat \ {0}
  /\ MaxPendingSensors \in Nat \ {0} /\ MaxPendingWheels \in Nat \ {0}
  /\ MaxFrames \in [Plans -> Nat] /\ MaxRepeats \in Nat /\ MaxLateFrames \in Nat
  /\ Plans \subseteq {"interactive", "fixed"}

VARIABLES
  window,    \* InteractiveRecorderWindow
  session,   \* RecorderSession with its queue
  callback,  \* what the callback holding receipt_mutex still has to enqueue
  receipts,  \* per topic next_sequence; rejected, faulted, the last command
  main,      \* RunRecorder: where it is and the frame popped by DrainOne
  mcap,      \* the MCAP segment on disk
  result,    \* the result document's segment on disk
  bus,       \* external: the last stamp delivered on each topic
  trace      \* history: frames received, committed by the window, accepted

recVars == <<window, session, callback, receipts, main, mcap, result, bus, trace>>

Interactive == main.plan = "interactive"
Topics == {"command", "wheel"} \cup SensorTopics
Stamps == UNION {1 .. MaxStamp[t] : t \in Topics}
FrameOf(topic, stamp) == <<topic, stamp>>
TopicOf(frame) == frame[1]
StampOf(frame) == frame[2]

(***************************************************************************)
(* AtomicSegment: a temporary file that is synced, closed and renamed.     *)
(* "sealed" says the MCAP footer, or the whole document, is in the file;   *)
(* "entry" is the directory entry; "durable" says the entry survives a     *)
(* power cut.                                                              *)
(***************************************************************************)
NewSegment == [entry |-> "temporary", frames |-> <<>>, sealed |-> FALSE, durable |-> FALSE, clean |-> FALSE]
NoSegment == [NewSegment EXCEPT !.entry = "none"]
Renamed(segment) == [segment EXCEPT !.entry = "final"]
Synced(segment) == [segment EXCEPT !.durable = TRUE]
Unlinked(segment) == [segment EXCEPT !.entry = "none"]

(* AtomicSegment::~AtomicSegment: an unfinished segment loses its temporary name. *)
Discarded(segment) == IF segment.entry = "temporary" THEN Unlinked(segment) ELSE segment

(***************************************************************************)
(* InteractiveRecorderWindow.                                              *)
(***************************************************************************)
RecInit ==
  /\ window = [state |-> "AwaitingStart", last |-> 0, sensors |-> [s \in Stamps |-> <<>>], wheels |-> {}]
  /\ session = [state |-> "Recording", queue |-> <<>>, finalizing |-> FALSE]
  /\ callback = [busy |-> FALSE, batch |-> <<>>]
  /\ receipts = [next |-> [t \in Topics |-> 0], accepted |-> [t \in Topics |-> 0],
                 rejected |-> FALSE, faulted |-> FALSE, command |-> FALSE]
  /\ \E plan \in Plans : main = [plan |-> plan, at |-> "poll", held |-> <<>>, exit |-> "running"]
  /\ mcap = NewSegment
  /\ result = NoSegment
  /\ bus = [last |-> [t \in Topics |-> 0], frames |-> 0, late |-> 0, repeats |-> 0]
  /\ trace = [received |-> {}, committed |-> <<>>, accepted |-> <<>>]

NoBoundaries == [s \in Stamps |-> <<>>]
SafeStopped == [window EXCEPT !.state = "SafeStopRequired", !.sensors = NoBoundaries, !.wheels = {}]

OpenBoundaries(w) == {s \in Stamps : w.sensors[s] # <<>>}
IsComplete(w, stamp) == ToSet(w.sensors[stamp]) = SensorTopics

(* Mutant of CommitThrough: only the complete boundary itself is committed. *)
CommitBoundaryOnly(w, stamp) ==
  [frames |-> [i \in DOMAIN w.sensors[stamp] |-> FrameOf(w.sensors[stamp][i], stamp)],
   window |-> [w EXCEPT !.sensors = [s \in Stamps |-> IF s <= stamp THEN <<>> ELSE @[s]],
                        !.wheels = {t \in @ : t > stamp},
                        !.last = stamp]]

InOrder(S) ==
  CHOOSE q \in [1 .. Cardinality(S) -> S] : \A i, j \in DOMAIN q : i < j => q[i] < q[j]

(* CommitThroughLocked: every pending boundary up to stamp in stamp order, each *)
(* in arrival order, then the wheel states up to stamp; and the window after it.*)
CommitThrough(w, stamp) ==
  LET boundary(s) == [i \in DOMAIN w.sensors[s] |-> FrameOf(w.sensors[s][i], s)]
      wheels == InOrder({t \in w.wheels : t <= stamp})
  IN  [frames |-> FlattenSeq([s \in 1 .. stamp |-> boundary(s)])
                    \o [i \in DOMAIN wheels |-> FrameOf("wheel", wheels[i])],
       window |-> [state |-> w.state,
                   last |-> stamp,
                   sensors |-> [s \in Stamps |-> IF s <= stamp THEN <<>> ELSE w.sensors[s]],
                   wheels |-> {t \in w.wheels : t > stamp}]]

Nothing(w) == [frames |-> <<>>, window |-> w]

(* Observe for the two high-rate topics, inside an authorised window. *)
ObserveHighRate(topic, stamp) ==
  CASE window.state = "AwaitingStartBoundary" -> Nothing(window)
    [] window.state # "AwaitingStartBoundary" /\ topic = "command" ->
         [frames |-> <<FrameOf(topic, stamp)>>, window |-> window]
    [] window.state # "AwaitingStartBoundary" /\ topic = "wheel" ->
         Nothing(CASE stamp <= window.last -> window                  \* dropped and counted
                   [] stamp > window.last /\ (stamp \in window.wheels
                        \/ Cardinality(window.wheels) >= MaxPendingWheels) -> SafeStopped
                   [] OTHER -> [window EXCEPT !.wheels = @ \cup {stamp}])

(* AddLocked: a late or repeated sensor frame, or too many open boundaries, is a safe stop. *)
AddIsRefused(topic, stamp) ==
  \/ stamp <= window.last
  \/ topic \in ToSet(window.sensors[stamp])
  \/ Cardinality(OpenBoundaries(window) \cup {stamp}) > MaxPendingSensors

AfterBoundary(state) ==
  CASE state = "AwaitingStartBoundary" -> "Recording"
    [] state = "AwaitingFinalBoundary" -> "ReadyToFinalize"
    [] OTHER -> state

(* Observe for a sensor topic: the first complete boundary, if there is one, is *)
(* committed; what lies before the very first one was never authorised.        *)
ObserveSensor(topic, stamp) ==
  LET added == [window EXCEPT !.sensors[stamp] = Append(window.sensors[stamp], topic)]
      complete == {s \in OpenBoundaries(added) : IsComplete(added, s)}
      boundary == Min(complete)
      opened == IF window.last = 0
                THEN [added EXCEPT !.sensors = [s \in Stamps |-> IF s < boundary THEN <<>> ELSE @[s]]]
                ELSE added
      commit == CommitThrough(opened, boundary)
  IN  CASE AddIsRefused(topic, stamp) -> Nothing(SafeStopped)
        [] ~AddIsRefused(topic, stamp) /\ complete = {} -> Nothing(added)
        [] OTHER -> [frames |-> commit.frames, window |-> [commit.window EXCEPT !.state = AfterBoundary(@)]]

(* InteractiveRecorderWindow::Observe *)
Observe(topic, stamp) ==
  CASE window.state \in {"AwaitingStart", "ReadyToFinalize", "SafeStopRequired"} -> Nothing(window)
    [] OTHER -> IF topic \in SensorTopics THEN ObserveSensor(topic, stamp)
                ELSE ObserveHighRate(topic, stamp)

Latch(r) == [r EXCEPT !.faulted = TRUE]
Reject(r) == [r EXCEPT !.faulted = TRUE, !.rejected = TRUE]

(***************************************************************************)
(* The receive callback.  Subscribed: main is inside the scope that owns   *)
(* the subscribers.                                                        *)
(***************************************************************************)
Subscribed == main.exit = "running" /\ main.at \notin {"write_result", "destroy"}

(* The bus hands a frame to the callback of its topic: the next one, a later *)
(* one when frames were lost, or the last one again.                         *)
Deliver(topic, stamp) ==
  /\ stamp >= bus.last[topic] /\ stamp > 0
  /\ stamp = bus.last[topic] => bus.repeats < MaxRepeats
  /\ bus.frames < MaxFrames[main.plan]
  /\ receipts.faulted => bus.late < MaxLateFrames
  /\ bus' = [last |-> [bus.last EXCEPT ![topic] = stamp],
             frames |-> bus.frames + 1,
             late |-> bus.late + (IF receipts.faulted THEN 1 ELSE 0),
             repeats |-> bus.repeats + (IF stamp = bus.last[topic] THEN 1 ELSE 0)]

(* A frame whose buffer, metadata, payload or identity is refused. *)
RefuseFrame ==
  /\ Subscribed /\ ~receipts.rejected
  /\ receipts' = Reject(receipts)
  /\ UNCHANGED <<window, session, callback, main, mcap, result, bus, trace>>

(* A valid frame takes receipt_mutex and goes through the window. *)
ReceiveFrame(topic, stamp) ==
  LET seen == IF Interactive THEN Observe(topic, stamp)
              ELSE [frames |-> <<FrameOf(topic, stamp)>>, window |-> window]
      stopped == Interactive /\ seen.window.state = "SafeStopRequired"
  IN  /\ Subscribed /\ ~callback.busy
      /\ Deliver(topic, stamp)
      /\ window' = seen.window
      /\ receipts' = LET r == [receipts EXCEPT !.command = @ \/ topic = "command"]
                     IN  IF stopped THEN Latch(r) ELSE r
      /\ callback' = [busy |-> ~stopped /\ seen.frames # <<>>, batch |-> IF stopped THEN <<>> ELSE seen.frames]
      /\ trace' = [trace EXCEPT
                     !.received = IF window.state \in {"AwaitingStart", "ReadyToFinalize"} THEN @
                                  ELSE @ \cup {FrameOf(topic, stamp)},
                     !.committed = @ \o seen.frames]
      /\ UNCHANGED <<session, main, mcap, result>>

(* The sequence test of one committed frame. *)
SequenceIsBroken(frame) ==
  LET next == receipts.next[TopicOf(frame)]
  IN  next # 0 /\ (StampOf(frame) < next \/ (~Interactive /\ StampOf(frame) # next))

EndCallback == callback' = [busy |-> FALSE, batch |-> <<>>]

(* RecorderSession::Enqueue for the next frame of the batch. *)
EnqueueFrame ==
  LET frame == Head(callback.batch)
      topic == TopicOf(frame)
      closed == session.state # "Recording" \/ session.finalizing
      full == Len(session.queue) = QueueCapacity
  IN  /\ callback.busy
      /\ \/ /\ SequenceIsBroken(frame)
            /\ receipts' = Reject(receipts)
            /\ EndCallback
            /\ UNCHANGED <<session, trace>>
         \/ /\ ~SequenceIsBroken(frame) /\ (closed \/ full)
            /\ receipts' = Latch(receipts)
            /\ session' = IF closed THEN session ELSE [session EXCEPT !.state = "SafeStopRequired"]
            /\ EndCallback
            /\ UNCHANGED trace
         \/ /\ ~SequenceIsBroken(frame) /\ ~closed /\ ~full
            /\ session' = [session EXCEPT !.queue = Append(@, frame)]
            /\ receipts' = [receipts EXCEPT !.next[topic] = StampOf(frame) + 1,
                                            !.accepted[topic] = @ + 1]
            /\ trace' = [trace EXCEPT !.accepted = Append(@, frame)]
            /\ callback' = [busy |-> Len(callback.batch) > 1, batch |-> Tail(callback.batch)]
      /\ UNCHANGED <<window, main, mcap, result, bus>>

(***************************************************************************)
(* RunRecorder's main loop.                                                *)
(***************************************************************************)
Goto(place) == main' = [main EXCEPT !.at = place]

(* One iteration begins: the deadline and the fault are tested, then the     *)
(* control socket delivers at most one start, stop or invalid message.       *)
PollControl(event) ==
  /\ main.at = "poll" /\ ~receipts.faulted
  /\ event # "none" => Interactive
  /\ LET granted == \/ event = "start" /\ window.state = "AwaitingStart"
                    \/ event = "stop" /\ window.state = "Recording"
     IN  /\ window' = IF ~granted THEN window
                      ELSE [window EXCEPT !.state = IF event = "start" THEN "AwaitingStartBoundary"
                                                    ELSE "AwaitingFinalBoundary"]
         /\ receipts' = IF event = "none" \/ granted THEN receipts ELSE Latch(receipts)
  /\ Goto("drain")
  /\ UNCHANGED <<session, callback, mcap, result, bus, trace>>

(* The loop ends on a fault or at the deadline, and the session is abandoned. *)
LoopEnds ==
  /\ main.at = "poll"
  /\ receipts' = Latch(receipts)
  /\ Goto("unwind")
  /\ UNCHANGED <<window, session, callback, mcap, result, bus, trace>>

(* RecorderSession::DrainOne, first half: pop under the lock. *)
DrainPop ==
  /\ main.at \in {"drain", "final_drain"}
  /\ IF session.state = "Recording" /\ ~session.finalizing /\ session.queue # <<>>
     THEN /\ session' = [session EXCEPT !.queue = Tail(@)]
          /\ main' = [main EXCEPT !.at = IF @ = "drain" THEN "write" ELSE "final_write",
                                  !.held = <<Head(session.queue)>>]
     ELSE Goto(IF main.at = "drain" THEN "check" ELSE "seal_check") /\ UNCHANGED session
  /\ UNCHANGED <<window, callback, receipts, mcap, result, bus, trace>>

(* DrainOne, second half: the write happens outside the lock and may fail. *)
DrainWrite(ok) ==
  /\ main.at \in {"write", "final_write"}
  /\ mcap' = IF ok THEN [mcap EXCEPT !.frames = @ \o main.held] ELSE mcap
  /\ session' = IF ok THEN session ELSE [session EXCEPT !.state = "SafeStopRequired"]
  /\ main' = [main EXCEPT !.held = <<>>,
                          !.at = IF @ = "write" THEN IF ok THEN "drain" ELSE "check"
                                 ELSE IF ok THEN "final_drain" ELSE "seal_check"]
  /\ UNCHANGED <<window, callback, receipts, result, bus, trace>>

(* The end of an iteration: a lost command, an unusable session or window, and *)
(* the exact counts of a fixed window decide between going on and finishing.   *)
CommandLost(silent) ==
  /\ Interactive /\ window.state \in {"Recording", "AwaitingFinalBoundary"}
  /\ silent \/ ~receipts.command

FixedWindow == [t \in Topics |-> 1]        \* plan.expected_counts

Completed ==
  IF Interactive THEN window.state = "ReadyToFinalize"
  ELSE receipts.accepted = FixedWindow /\ ~receipts.rejected

CheckProgress(silent) ==
  /\ main.at = "check"
  /\ LET faulted == \/ receipts.faulted \/ session.state # "Recording"
                    \/ CommandLost(silent)
                    \/ Interactive /\ (window.state = "SafeStopRequired" \/ receipts.rejected)
                    \/ ~Interactive /\ \E t \in Topics : receipts.accepted[t] > FixedWindow[t]
     IN  /\ receipts' = IF faulted THEN Latch(receipts) ELSE receipts
         /\ window' = IF CommandLost(silent) THEN SafeStopped ELSE window
         /\ Goto(IF faulted THEN "unwind" ELSE IF Completed THEN "final_drain" ELSE "poll")
  /\ UNCHANGED <<session, callback, mcap, result, bus, trace>>

(* Mutant of SealCheck: the queue is not looked at again under the lock. *)
SealCheckUncounted ==
  /\ main.at = "seal_check"
  /\ session' = [session EXCEPT !.finalizing = TRUE] /\ Goto("seal")
  /\ UNCHANGED <<window, callback, receipts, mcap, result, bus, trace>>

(* RecorderSession::Finalize, after its drain: no frame may be left. *)
SealCheck ==
  /\ main.at = "seal_check"
  /\ IF session.state = "Recording" /\ session.queue = <<>>
     THEN session' = [session EXCEPT !.finalizing = TRUE] /\ Goto("seal") /\ UNCHANGED receipts
     ELSE receipts' = Latch(receipts) /\ Goto("unwind") /\ UNCHANGED session
  /\ UNCHANGED <<window, callback, mcap, result, bus, trace>>

FinalizeFails ==
  /\ session' = [session EXCEPT !.state = "SafeStopRequired"]
  /\ receipts' = Latch(receipts)
  /\ Goto("unwind")

(* McapSessionWriter::Finalize: the footer, then AtomicSegment::Finalize up to *)
(* the rename; each call may fail and leaves the temporary file behind.        *)
SealMcap(ok) ==
  /\ main.at = "seal"
  /\ IF ok THEN mcap' = [mcap EXCEPT !.sealed = TRUE] /\ Goto("rename") /\ UNCHANGED <<session, receipts>>
     ELSE FinalizeFails /\ UNCHANGED mcap
  /\ UNCHANGED <<window, callback, result, bus, trace>>

RenameMcap(ok) ==
  /\ main.at = "rename"
  /\ IF ok THEN mcap' = Renamed(mcap) /\ Goto("sync_directory") /\ UNCHANGED <<session, receipts>>
     ELSE FinalizeFails /\ UNCHANGED mcap
  /\ UNCHANGED <<window, callback, result, bus, trace>>

(* The directory sync; when it fails the final name is taken back. *)
SyncDirectory(ok) ==
  /\ main.at = "sync_directory"
  /\ IF ok
     THEN /\ mcap' = Synced(mcap)
          /\ session' = [session EXCEPT !.state = "Finalized"]
          /\ Goto("unwind") /\ UNCHANGED receipts
     ELSE mcap' = Unlinked(mcap) /\ FinalizeFails
  /\ UNCHANGED <<window, callback, result, bus, trace>>

(* Leaving the subscribers' scope waits for the running callback (eCAL), and *)
(* the result document is begun: clean only when the session was finalised.  *)
Unsubscribe ==
  /\ main.at = "unwind" /\ ~callback.busy
  /\ result' = [NewSegment EXCEPT !.clean = session.state = "Finalized"]
  /\ Goto("write_result")
  /\ UNCHANGED <<window, session, callback, receipts, mcap, bus, trace>>

(* WriteNewResult through another AtomicSegment.  A clean document that could  *)
(* not be published is retried once as a failure document; a failure document *)
(* that could not be published is given up.                                   *)
WriteSessionResult(outcome) ==
  /\ main.at = "write_result"
  /\ \/ /\ outcome = "rename" /\ result.entry = "temporary"
        /\ result' = [Renamed(result) EXCEPT !.sealed = TRUE] /\ UNCHANGED main
     \/ /\ outcome = "sync" /\ result.entry = "final"
        /\ result' = Synced(result) /\ Goto("destroy")
     \/ /\ outcome = "fail"
        /\ IF result.clean THEN result' = NewSegment /\ UNCHANGED main
           ELSE result' = NoSegment /\ Goto("destroy")
  /\ UNCHANGED <<window, session, callback, receipts, mcap, bus, trace>>

(* The locals of RunRecorder are destroyed and the process exits. *)
Exit ==
  /\ main.at = "destroy"
  /\ mcap' = Discarded(mcap)
  /\ main' = [main EXCEPT !.exit = IF result.clean /\ result.durable THEN "zero" ELSE "nonzero"]
  /\ UNCHANGED <<window, session, callback, receipts, result, bus, trace>>

(* The process is killed and its memory is gone; with the power, a directory *)
(* entry that was not synced may be gone as well.                            *)
Crash(power) ==
  LET after(segment) == IF power /\ segment.entry = "final" /\ ~segment.durable
                        THEN {segment, Unlinked(segment)} ELSE {segment}
  IN  /\ main.exit = "running"
      /\ mcap' \in after(mcap) /\ result' \in after(result)
      /\ main' = [main EXCEPT !.exit = "killed", !.at = "poll", !.held = <<>>]
      /\ window' = SafeStopped /\ EndCallback
      /\ session' = [state |-> "SafeStopRequired", queue |-> <<>>, finalizing |-> FALSE]
      /\ UNCHANGED <<receipts, bus, trace>>

RecordingLoop ==
  \/ \E event \in {"none", "start", "stop", "invalid"} : PollControl(event)
  \/ LoopEnds
  \/ DrainPop
  \/ \E ok \in BOOLEAN : DrainWrite(ok)
  \/ \E silent \in BOOLEAN : CheckProgress(silent)
  \/ SealCheck
  \/ \E ok \in BOOLEAN : SealMcap(ok) \/ RenameMcap(ok) \/ SyncDirectory(ok)
  \/ Unsubscribe
  \/ \E outcome \in {"rename", "sync", "fail"} : WriteSessionResult(outcome)
  \/ Exit

RecNext ==
  \/ RefuseFrame
  \/ \E topic \in Topics : \E stamp \in 1 .. MaxStamp[topic] : ReceiveFrame(topic, stamp)
  \/ main.exit = "running" /\ EnqueueFrame
  \/ main.exit = "running" /\ RecordingLoop
  \/ \E power \in BOOLEAN : Crash(power)

RecSpec == RecInit /\ [][RecNext]_recVars

(***************************************************************************)
(* Properties.                                                             *)
(***************************************************************************)
(* A capture that carries its final name, whatever crash or failed call came *)
(* before or after the rename, is a closed MCAP file with exactly the frames *)
(* the callbacks were told were accepted, in that order; and a clean result *)
(* document only ever stands beside such a capture whose directory entry is *)
(* durable (RecorderSession::Finalize, AtomicSegment::Finalize, RunRecorder). *)
PublishedCaptureIsWhole ==
  /\ mcap.entry = "final" => mcap.sealed /\ mcap.frames = trace.accepted
  /\ result.entry = "final" /\ result.clean => mcap.entry = "final" /\ mcap.durable

OfSensor(frame) == TopicOf(frame) \in SensorTopics

(* Between its first and its last committed boundary the interactive window *)
(* loses no sensor frame it was shown, commits none twice and keeps the stamps *)
(* of every topic in order; wheel states that arrive after their boundary are *)
(* the only frames it drops (InteractiveRecorderWindow::Observe).          *)
WindowIsLossless ==
  Interactive /\ window.state # "SafeStopRequired" =>
    LET log == trace.committed
    IN  /\ \A f \in trace.received, g \in ToSet(log) :
             OfSensor(f) /\ OfSensor(g) /\ StampOf(g) <= StampOf(f) /\ StampOf(f) <= window.last
               => f \in ToSet(log)
        /\ \A i, j \in DOMAIN log :
             i < j /\ TopicOf(log[i]) = TopicOf(log[j]) /\ TopicOf(log[i]) # "command"
               => StampOf(log[i]) < StampOf(log[j])

(* The recorder keeps what it was shown, and publishes nothing less. *)
RecordingSound == PublishedCaptureIsWhole /\ WindowIsLossless
=============================================================================
