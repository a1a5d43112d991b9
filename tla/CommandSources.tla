--------------------------- MODULE CommandSources ---------------------------
(***************************************************************************)
(* The sources of wheel targets (slope_sim/serial_rc.py, manual_control.py *)
(* and the calls of main.py and manual_demo.py): the RC worker thread with *)
(* its frame gate, the GUI loop with the keyboard tracker, and the renewer *)
(* thread share one CommandSourceArbiter, whose lock makes each of its     *)
(* methods one step.  A target is reduced to who set it and whether it     *)
(* moves the robot.  Time advances in ticks; the RC worker and the GUI are *)
(* faster than a tick, except for the worker's read.                       *)
(***************************************************************************)
EXTENDS Integers, FiniteSets

CONSTANTS NoSource,
          RcTimeout,       \* timeout_sec of RcCommandGate, in ticks
          RecoveryFrames,  \* recovery_frames
          ReadTime,        \* longest read of the serial port, in ticks
          Grace            \* release_grace_sec, in ticks

ASSUME SourceBounds == /\ RcTimeout \in Nat \ {0} /\ RecoveryFrames \in Nat \ {0}
                       /\ ReadTime \in Nat /\ Grace \in Nat \ {0}
                       /\ NoSource \notin Int \cup {"keyboard", "rc"}

VARIABLES
    arbiter,   \* selected source, mailbox, reported failure, renewer's stop event
    client,    \* the Command client works
    sent,      \* the last target the client took
    rcGate,    \* RcCommandGate: fresh frames, filter and its output
    rcWorker,  \* SerialRcWorker: pc, time in read, candidate command, stop event
    silence,   \* ticks since the time stamp of the last frame; NoSource before it
    guiLoop,       \* the GUI loop: pc, source asked for, the keyboard's command
    tracker,   \* KeyboardEventTracker for one direction key
    key        \* the real key: down, its events, time since a release was read

sourceVars == <<arbiter, client, sent, rcGate, rcWorker, silence, guiLoop, tracker, key>>

Sources == {"keyboard", "rc"}

Zero == [by |-> NoSource, moving |-> FALSE]

TargetOf(source, moving) == IF moving THEN [by |-> source, moving |-> TRUE] ELSE Zero

Recoverable == {"waiting_frame", "recovering_frames", "frame_timeout"}

Candidate(moving, active, reason) == [moving |-> moving, active |-> active, reason |-> reason]

ZeroCommand(reason) == Candidate(FALSE, FALSE, reason)

SourcesInit ==
    /\ \E renewing \in BOOLEAN :
         arbiter = [active |-> NoSource, failure |-> "none", latest |-> Zero,
                    renewing |-> renewing, stop |-> FALSE]
    /\ client = "up"
    /\ sent = Zero
    /\ rcGate = [fresh |-> RecoveryFrames, filter |-> "new", out |-> FALSE,
                 last |-> ZeroCommand("waiting_frame")]
    /\ rcWorker = [pc |-> "loop", inRead |-> 0, cmd |-> ZeroCommand("waiting_frame"),
                   stop |-> FALSE]
    /\ silence = NoSource
    /\ guiLoop = [pc |-> "frame", want |-> "keyboard", moving |-> FALSE]
    /\ tracker = [held |-> FALSE, pending |-> FALSE, since |-> 0]
    /\ key = [down |-> FALSE, event |-> "none", quiet |-> Grace]

-----------------------------------------------------------------------------
(* The arbiter.  A send that fails withdraws the selection and raises.     *)

SendOk(a, target) == client = "up" /\ sent' = target /\ arbiter' = a

SendFails(a) == /\ client = "down"
                /\ arbiter' = [a EXCEPT !.active = NoSource, !.failure = "ipc_interrupted"]
                /\ UNCHANGED sent

(* Mutant: the mailbox keeps the former source's target. *)
SelectSourceKeepingTarget(source) ==
    \/ SendOk([arbiter EXCEPT !.active = source, !.failure = "none"], Zero)
    \/ SendFails(arbiter)

(* select_source: zero first, then the new source owns the mailbox.        *)
SelectSource(source) ==
    LET zeroed == [arbiter EXCEPT !.latest = Zero]
    IN  \/ SendOk([zeroed EXCEPT !.active = source, !.failure = "none"], Zero)
        \/ SendFails(zeroed)

(* _publish_or_store_target: with a renewer the target only waits in the   *)
(* mailbox.                                                                *)
PublishOrStore(a, target) ==
    LET stored == [a EXCEPT !.latest = target]
    IN  IF a.renewing THEN arbiter' = stored /\ UNCHANGED sent
        ELSE SendOk(stored, target) \/ SendFails(stored)

Revoke(reason) ==
    LET zeroed == [arbiter EXCEPT !.latest = Zero, !.active = NoSource, !.failure = reason]
    IN  SendOk(zeroed, Zero)
        \/ (SendFails(zeroed) /\ arbiter'.failure = "ipc_interrupted")

(* submit_rc: a pause of the link stops the robot once and keeps the       *)
(* selection, a fault takes it away.                                       *)
SubmitRc(cmd) ==
    CASE arbiter.active # "rc" -> UNCHANGED <<arbiter, sent>>
      [] arbiter.active = "rc" /\ cmd.active ->
             PublishOrStore([arbiter EXCEPT !.failure = "none"], TargetOf("rc", cmd.moving))
      [] arbiter.active = "rc" /\ ~cmd.active /\ cmd.reason \in Recoverable ->
             LET paused == [arbiter EXCEPT !.latest = Zero, !.failure = cmd.reason]
             IN  IF arbiter.failure # cmd.reason
                 THEN SendOk(paused, Zero) \/ SendFails(paused)
                 ELSE arbiter' = paused /\ UNCHANGED sent
      [] OTHER -> Revoke(cmd.reason)

(* renew_once by the renewer thread, which ends with its first failure.    *)
RenewOnce ==
    /\ arbiter.renewing
    /\ ~arbiter.stop
    /\ \/ SendOk(arbiter, arbiter.latest)
       \/ SendFails([arbiter EXCEPT !.stop = TRUE])
    /\ UNCHANGED <<client, rcGate, rcWorker, silence, guiLoop, tracker, key>>

ClientFails ==
    /\ client = "up"
    /\ client' = "down"
    /\ UNCHANGED <<arbiter, sent, rcGate, rcWorker, silence, guiLoop, tracker, key>>

-----------------------------------------------------------------------------
(* The RC worker.                                                          *)

(* _StickAxisFilter.update: after a fault the first frame gives zero, then *)
(* the rate limit lets the output follow sooner or later.                  *)
Filtered(g, moving) ==
    CASE g.filter = "new" -> {moving}
      [] g.filter = "zeroed" -> {FALSE}
      [] OTHER -> {g.out, moving}

(* RcCommandGate.observe *)
Observed(g, out) ==
    LET fresh == IF g.fresh < RecoveryFrames THEN g.fresh + 1 ELSE g.fresh
        cmd   == IF fresh < RecoveryFrames THEN ZeroCommand("recovering_frames")
                 ELSE Candidate(out, TRUE, "active")
    IN  [fresh |-> fresh, filter |-> "run", out |-> out, last |-> cmd]

(* RcCommandGate.fault and the expiry in decision. *)
Stopped(g, reason) == [fresh |-> 0, filter |-> "zeroed", out |-> FALSE,
                       last |-> ZeroCommand(reason)]

(* RcCommandGate.decision at the time the read began. *)
Decision(g, age) == IF age # NoSource /\ age >= RcTimeout THEN Stopped(g, "frame_timeout")
                    ELSE g

RcBeginRead ==
    /\ rcWorker.pc = "loop"
    /\ rcWorker' = IF rcWorker.stop THEN [rcWorker EXCEPT !.pc = "exited"]
                   ELSE [rcWorker EXCEPT !.pc = "read", !.inRead = 0]
    /\ UNCHANGED <<arbiter, client, sent, rcGate, silence, guiLoop, tracker, key>>

Processed(g) ==
    /\ rcGate' = g
    /\ rcWorker' = [rcWorker EXCEPT !.pc = "sink", !.cmd = g.last, !.inRead = 0]

(* process_once up to the hand-over: a frame, a discarded frame or an      *)
(* error, or nothing, which is the watchdog's case.                        *)
RcRead ==
    /\ rcWorker.pc = "read"
    /\ \/ /\ ~rcWorker.stop
          /\ \E moving \in BOOLEAN : \E out \in Filtered(rcGate, moving) :
               Processed(Observed(rcGate, out))
          /\ silence' = rcWorker.inRead
       \/ /\ Processed(Decision(rcGate, IF silence = NoSource THEN NoSource
                                        ELSE silence - rcWorker.inRead))
          /\ UNCHANGED silence
       \/ /\ \E reason \in {"parser_desynchronized", "serial_read_failed"} :
               Processed(Stopped(rcGate, reason))
          /\ UNCHANGED silence
    /\ UNCHANGED <<arbiter, client, sent, guiLoop, tracker, key>>

(* The command goes to submit_rc after the worker's lock is released; if   *)
(* the client is broken the gate is stopped and nothing more is sent.      *)
RcSink ==
    /\ rcWorker.pc = "sink"
    /\ SubmitRc(rcWorker.cmd)
    /\ rcGate' = IF arbiter'.failure = "ipc_interrupted" /\ arbiter.active = "rc"
                 THEN Stopped(rcGate, "ipc_interrupted") ELSE rcGate
    /\ rcWorker' = [rcWorker EXCEPT !.pc = "loop", !.cmd = ZeroCommand("waiting_frame")]
    /\ UNCHANGED <<client, silence, guiLoop, tracker, key>>

-----------------------------------------------------------------------------
(* The GUI loop and the keyboard.                                          *)

KeyPress ==
    /\ ~key.down
    /\ guiLoop.pc = "frame"
    /\ key' = [key EXCEPT !.down = TRUE, !.event = "pressed", !.quiet = 0]
    /\ UNCHANGED <<arbiter, client, sent, rcGate, rcWorker, silence, guiLoop, tracker>>

KeyRelease ==
    /\ key.down
    /\ guiLoop.pc = "frame"
    /\ key' = [key EXCEPT !.down = FALSE, !.event = "released"]
    /\ UNCHANGED <<arbiter, client, sent, rcGate, rcWorker, silence, guiLoop, tracker>>

(* What the GUI reports: while a key is held, X11's repetition shows a     *)
(* release now and then; a real release is reported once.                  *)
KeyEvents == CASE key.event = "pressed" -> {"down"}
               [] key.down /\ key.event # "pressed" -> {"down", "released"}
               [] OTHER -> {key.event}

(* KeyboardEventTracker.command: a release takes effect after the grace.   *)
Tracked(event) ==
    LET noted == CASE event = "down" -> [held |-> TRUE, pending |-> FALSE, since |-> 0]
                   [] event = "released" /\ tracker.held ->
                          [held |-> TRUE, pending |-> TRUE, since |-> 0]
                   [] OTHER -> tracker
    IN  IF noted.pending /\ noted.since >= Grace
        THEN [held |-> FALSE, pending |-> FALSE, since |-> 0] ELSE noted

(* One frame reads the keyboard and the wanted source, then looks at the   *)
(* arbiter: _renew_v2_command_target.                                      *)
GuiFrame ==
    /\ guiLoop.pc = "frame"
    /\ \E event \in KeyEvents, want \in Sources :
         /\ tracker' = Tracked(event)
         /\ key' = IF key.down THEN [key EXCEPT !.event = event, !.quiet = 0]
                   ELSE [key EXCEPT !.event = "none",
                                    !.quiet = IF key.event = "released" THEN 0 ELSE @]
         /\ guiLoop' = [guiLoop EXCEPT !.want = want, !.moving = tracker'.held,
                               !.pc = IF arbiter.active # want THEN "select"
                                      ELSE IF want = "keyboard" THEN "submit" ELSE "frame"]
    /\ UNCHANGED <<arbiter, client, sent, rcGate, rcWorker, silence>>

GuiRaises == guiLoop' = [guiLoop EXCEPT !.pc = "closeWorker"]

GuiSelect ==
    /\ guiLoop.pc = "select"
    /\ SelectSource(guiLoop.want)
    /\ IF client = "down" THEN GuiRaises
       ELSE guiLoop' = [guiLoop EXCEPT !.pc = IF guiLoop.want = "keyboard" THEN "submit" ELSE "frame"]
    /\ UNCHANGED <<client, rcGate, rcWorker, silence, tracker, key>>

(* submit_keyboard *)
GuiSubmit ==
    /\ guiLoop.pc = "submit"
    /\ IF arbiter.active = "keyboard"
       THEN /\ PublishOrStore(arbiter, TargetOf("keyboard", guiLoop.moving))
            /\ IF client = "down" /\ ~arbiter.renewing THEN GuiRaises
               ELSE guiLoop' = [guiLoop EXCEPT !.pc = "frame"]
       ELSE guiLoop' = [guiLoop EXCEPT !.pc = "frame"] /\ UNCHANGED <<arbiter, sent>>
    /\ UNCHANGED <<client, rcGate, rcWorker, silence, tracker, key>>

GuiEnds ==
    /\ guiLoop.pc = "frame"
    /\ GuiRaises
    /\ UNCHANGED <<arbiter, client, sent, rcGate, rcWorker, silence, tracker, key>>

(* SerialRcWorker.close: stop event, a fault for the arbiter, then join.   *)
CloseWorker ==
    /\ guiLoop.pc = "closeWorker"
    /\ rcGate' = Stopped(rcGate, "worker_closed")
    /\ SubmitRc(ZeroCommand("worker_closed"))
    /\ rcWorker' = [rcWorker EXCEPT !.stop = TRUE]
    /\ guiLoop' = [guiLoop EXCEPT !.pc = "joinWorker"]
    /\ UNCHANGED <<client, silence, tracker, key>>

(* The join is bounded: the worker may outlive it. *)
JoinWorker ==
    /\ guiLoop.pc = "joinWorker"
    /\ guiLoop' = [guiLoop EXCEPT !.pc = "stopRenewer"]
    /\ UNCHANGED <<arbiter, client, sent, rcGate, rcWorker, silence, tracker, key>>

(* CommandSourceArbiter.close, which returns at once after the renewer     *)
(* ended by itself.                                                        *)
StopRenewer ==
    /\ guiLoop.pc = "stopRenewer"
    /\ guiLoop' = [guiLoop EXCEPT !.pc = IF arbiter.stop THEN "done" ELSE "lastZero"]
    /\ arbiter' = [arbiter EXCEPT !.stop = TRUE]
    /\ UNCHANGED <<client, sent, rcGate, rcWorker, silence, tracker, key>>

LastZero ==
    /\ guiLoop.pc = "lastZero"
    /\ LET closed == [arbiter EXCEPT !.latest = Zero, !.active = NoSource]
       IN  SendOk(closed, Zero) \/ SendFails(closed)
    /\ guiLoop' = [guiLoop EXCEPT !.pc = "done"]
    /\ UNCHANGED <<client, rcGate, rcWorker, silence, tracker, key>>

-----------------------------------------------------------------------------
(* A tick passes while every thread sleeps or reads.  Under X11's          *)
(* repetition a held key is reported again before the grace is over.       *)
SourceTick ==
    /\ rcWorker.pc \in {"read", "exited"}
    /\ guiLoop.pc \in {"frame", "done"}
    /\ rcWorker.pc = "read" => rcWorker.inRead < ReadTime
    /\ key.down /\ key.event = "released" => tracker.since + 1 < Grace
    /\ rcWorker' = IF rcWorker.pc = "read" THEN [rcWorker EXCEPT !.inRead = @ + 1] ELSE rcWorker
    /\ silence' = IF silence = NoSource \/ silence > RcTimeout + 2 * ReadTime THEN silence
                  ELSE silence + 1
    /\ tracker' = IF tracker.pending /\ tracker.since < Grace
                  THEN [tracker EXCEPT !.since = @ + 1] ELSE tracker
    /\ key' = IF ~key.down /\ key.event = "none" /\ key.quiet < Grace
              THEN [key EXCEPT !.quiet = @ + 1] ELSE key
    /\ UNCHANGED <<arbiter, client, sent, rcGate, guiLoop>>

RcStep == RcBeginRead \/ RcRead \/ RcSink

GuiClosing == GuiSelect \/ GuiSubmit \/ CloseWorker \/ JoinWorker \/ StopRenewer \/ LastZero

SourcesNext == \/ RcStep \/ RenewOnce \/ ClientFails
               \/ KeyPress \/ KeyRelease \/ GuiFrame \/ GuiEnds \/ GuiClosing
               \/ SourceTick

SourcesSpec == SourcesInit /\ [][SourcesNext]_sourceVars

-----------------------------------------------------------------------------
(* What moves the robot was set by the source that is selected, on every   *)
(* interleaving of GUI, RC worker, renewer and closing; a working client   *)
(* that has no selected source, or was closed, holds a zero target.        *)
OnlySelectedSourceMoves ==
    client = "up" =>
        /\ sent.moving => sent.by = arbiter.active
        /\ arbiter.latest.moving => arbiter.latest.by = arbiter.active
        /\ guiLoop.pc = "done" => ~sent.moving

(* A silent RC link stops the robot: no RC target is older than the        *)
(* time-out and two reads, one that begins just before the time-out, whose *)
(* decision still stands, and the next one.                                *)
RcSilenceStops ==
    client = "up" /\ sent.moving /\ sent.by = "rc"
        => silence # NoSource /\ silence < RcTimeout + 2 * ReadTime

(* The keyboard tracker: a key that was let go stops within the grace      *)
(* after the release was read, and repetition never interrupts a held key. *)
ReleasedKeyStops ==
    guiLoop.pc \in {"select", "submit"} =>
        /\ guiLoop.moving => key.down \/ key.quiet < Grace
        /\ ~guiLoop.moving => ~key.down

(* The robot moves only for an input that is selected, present and recent. *)
OnlyLiveInputMoves == OnlySelectedSourceMoves /\ RcSilenceStops /\ ReleasedKeyStops
=============================================================================
