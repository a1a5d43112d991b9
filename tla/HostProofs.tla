----------------------------- MODULE HostProofs -----------------------------
(***************************************************************************)
(* Proofs about components around the simulation: the Command session, the *)
(* command sources and the installation of releases, for any number of     *)
(* threads, runs and steps.  The invariant of the installers says what a   *)
(* staging directory contains at every step of the installer and of its    *)
(* setup program, and that a child left behind works in a directory nobody *)
(* takes up again.                                                         *)
(***************************************************************************)
EXTENDS RunSimSession, CommandSources, ReleaseInstall, TLAPS

-----------------------------------------------------------------------------
(* The Command session.  A message that a stop has overtaken carries an    *)
(* epoch of the past.                                                      *)
SessionStates == {"launching", "ready", "active", "safe_stop", "stopping", "closed"}
SessionRecords == [state : SessionStates, target : BOOLEAN, epoch : Nat, token : BOOLEAN]
Messages == [kind : {"none", "target", "status", "stop"}, epoch : Nat, token : BOOLEAN]
USE DEF SessionRecords, Messages

SessionTypes ==
    /\ sess \in SessionRecords
    /\ receiving \in [Receivers -> Messages]
    /\ cut \in [Receivers -> BOOLEAN]

StoppedHoldsNothing == sess.target => sess.state \notin Final \cup {"safe_stop"}

OvertakenIsOld ==
    \A r \in Receivers : receiving[r].kind # "none" =>
        /\ receiving[r].epoch <= sess.epoch
        /\ cut[r] => receiving[r].epoch < sess.epoch

SessionInv == SessionTypes /\ StoppedHoldsNothing /\ OvertakenIsOld

LEMMA SafeStopIs ==
  ASSUME SessionTypes, NEW state \in {"safe_stop", "stopping", "closed"}
  PROVE  /\ SafeStop(sess, state) \in SessionRecords
         /\ SafeStop(sess, state).target = FALSE
         /\ SafeStop(sess, state).epoch = sess.epoch + 1
  <1> DEFINE next == IF \/ state = "safe_stop" /\ sess.state \in Final
                        \/ state = "stopping" /\ sess.state = "closed" THEN sess.state ELSE state
  <1>1. SafeStop(sess, state) = [state |-> next, target |-> FALSE, epoch |-> sess.epoch + 1,
                                 token |-> sess.token]
    <2>1. SafeStop(sess, state) = [sess EXCEPT !.epoch = sess.epoch + 1, !.target = FALSE, !.state = next]
      BY DEF SafeStop, SessionTypes
    <2>2. sess = [state |-> sess.state, target |-> sess.target, epoch |-> sess.epoch,
                  token |-> sess.token]
      BY DEF SessionTypes
    <2> HIDE DEF next
    <2> QED BY <2>1, <2>2
  <1>2. next \in SessionStates /\ sess.epoch + 1 \in Nat /\ sess.token \in BOOLEAN
    <2>1. next \in SessionStates
      BY DEF SessionTypes, SessionStates
    <2>2. sess.epoch + 1 \in Nat
      BY DEF SessionTypes
    <2>3. sess.token \in BOOLEAN
      BY DEF SessionTypes
    <2> QED BY <2>1, <2>2, <2>3
  <1> HIDE DEF next
  <1> QED BY <1>1, <1>2

(* A stop advances the epoch behind every message that is being read. *)
LEMMA InterruptKeeps ==
  ASSUME SessionInv, NEW s, Interrupt(s),
         s \in SessionRecords,
         s.target = FALSE, s.epoch = sess.epoch + 1,
         receiving' \in [Receivers -> Messages],
         \A r \in Receivers : receiving'[r] = receiving[r] \/ receiving'[r].kind = "none"
  PROVE  SessionInv'
  <1>1. SessionTypes'
    BY DEF Interrupt, SessionInv, SessionTypes
  <1>2. StoppedHoldsNothing'
    BY DEF Interrupt, StoppedHoldsNothing
  <1>3. OvertakenIsOld'
    <2> SUFFICES ASSUME NEW r \in Receivers, receiving'[r].kind # "none"
                 PROVE  receiving'[r].epoch < sess'.epoch
      BY DEF OvertakenIsOld, Interrupt, SessionInv, SessionTypes
    <2>1. receiving'[r] = receiving[r] /\ receiving[r].epoch \in Nat /\ sess.epoch \in Nat
      BY DEF SessionInv, SessionTypes
    <2>2. receiving[r].epoch <= sess.epoch
      BY <2>1 DEF SessionInv, OvertakenIsOld
    <2> QED BY <2>1, <2>2 DEF Interrupt
  <1> QED BY <1>1, <1>2, <1>3 DEF SessionInv

LEMMA EndMessageIs ==
  ASSUME SessionTypes, NEW r \in Receivers, EndMessage(r)
  PROVE  /\ receiving' \in [Receivers -> Messages]
         /\ \A q \in Receivers : receiving'[q] = receiving[q] \/ receiving'[q].kind = "none"
  BY DEF SessionTypes, EndMessage, IdleMessage

LEMMA SessionStarts == SessionInit => SessionInv
  BY DEF SessionInit, SessionInv, SessionTypes, SessionStates, IdleMessage, StoppedHoldsNothing,
         OvertakenIsOld

LEMMA SessionKeeps == SessionInv /\ [SessionNext]_sessionVars => SessionInv'
  <1> SUFFICES ASSUME SessionInv, [SessionNext]_sessionVars PROVE SessionInv'
    OBVIOUS
  <1>0. SessionTypes /\ StoppedHoldsNothing /\ OvertakenIsOld
    BY DEF SessionInv
  <1>1. ASSUME NEW r \in Receivers, BeginMessage(r) PROVE SessionInv'
    <2>1. PICK kind \in {"target", "status", "stop"} :
            receiving' = [receiving EXCEPT ![r] = [kind |-> kind, epoch |-> sess.epoch,
                                                   token |-> sess.token]]
      BY <1>1 DEF BeginMessage
    <2>2. sess' = sess /\ cut' = [cut EXCEPT ![r] = FALSE]
      BY <1>1 DEF BeginMessage
    <2> QED BY <1>0, <2>1, <2>2 DEF SessionInv, SessionTypes, StoppedHoldsNothing, OvertakenIsOld
  <1>2. ASSUME NEW r \in Receivers, RefuseMessage(r) PROVE SessionInv'
    BY <1>0, <1>2, EndMessageIs DEF RefuseMessage, SessionInv, SessionTypes, StoppedHoldsNothing,
          OvertakenIsOld
  <1>3. ASSUME NEW r \in Receivers, AcceptTarget(r) PROVE SessionInv'
    <2>1. /\ sess' \in SessionRecords
          /\ sess'.epoch = sess.epoch
      BY <1>0, <1>3 DEF AcceptTarget, SessionTypes, SessionStates
    <2>2. StoppedHoldsNothing'
      BY <1>0, <1>3 DEF AcceptTarget, SessionTypes, StoppedHoldsNothing, Final
    <2> QED BY <1>0, <1>3, <2>1, <2>2, EndMessageIs DEF AcceptTarget, SessionInv, SessionTypes,
                  OvertakenIsOld
  <1>4. ASSUME NEW r \in Receivers, AcceptStatus(r) PROVE SessionInv'
    <2>0. EndMessage(r)
      BY <1>4 DEF AcceptStatus
    <2>1. ASSUME NEW state \in {"launching", "ready", "active"},
                 sess' = IF sess.state \in Final THEN sess ELSE [sess EXCEPT !.state = state],
                 UNCHANGED cut
          PROVE  SessionInv'
      <3>1. /\ sess' \in SessionRecords
            /\ sess'.epoch = sess.epoch
        BY <1>0, <2>1 DEF SessionTypes, SessionStates
      <3>2. StoppedHoldsNothing'
        BY <1>0, <2>1 DEF SessionTypes, StoppedHoldsNothing, Final
      <3> QED BY <1>0, <2>0, <2>1, <3>1, <3>2, EndMessageIs DEF SessionInv, SessionTypes, OvertakenIsOld
    <2>2. CASE UNCHANGED <<sess, cut>>
      BY <1>0, <2>0, <2>2, EndMessageIs DEF SessionInv, SessionTypes, StoppedHoldsNothing,
            OvertakenIsOld
    <2>3. ASSUME NEW state \in {"safe_stop", "stopping", "closed"}, Interrupt(SafeStop(sess, state))
          PROVE  SessionInv'
      BY <1>0, <2>0, <2>3, EndMessageIs, SafeStopIs, InterruptKeeps
    <2> QED BY <1>4, <2>1, <2>2, <2>3 DEF AcceptStatus
  <1>5. ASSUME NEW r \in Receivers, AcceptStop(r) PROVE SessionInv'
    BY <1>0, <1>5, EndMessageIs, SafeStopIs, InterruptKeeps DEF AcceptStop
  <1>6. CASE LocalStop \/ ExpireTarget
    <2>1. Interrupt(SafeStop(sess, "safe_stop")) /\ UNCHANGED receiving
      BY <1>6 DEF LocalStop, ExpireTarget
    <2> QED BY <1>0, <2>1, SafeStopIs, InterruptKeeps DEF SessionTypes
  <1>7. CASE CloseSession
    <2> DEFINE s == [SafeStop(sess, "closed") EXCEPT !.token = FALSE]
    <2>1. /\ s \in SessionRecords
          /\ s.target = FALSE /\ s.epoch = sess.epoch + 1
      BY <1>0, SafeStopIs
    <2>2. Interrupt(s) /\ UNCHANGED receiving
      BY <1>7 DEF CloseSession
    <2> QED BY <1>0, <2>1, <2>2, InterruptKeeps DEF SessionTypes
  <1>8. CASE UNCHANGED sessionVars
    BY <1>0, <1>8 DEF sessionVars, SessionInv, SessionTypes, StoppedHoldsNothing, OvertakenIsOld
  <1> QED BY <1>1, <1>2, <1>3, <1>4, <1>5, <1>6, <1>7, <1>8 DEF SessionNext

(* However many receivers decode messages without the lock, a stopped      *)
(* session holds no target and a message that a stop has overtaken does    *)
(* not set one.                                                            *)
THEOREM StopIsFinalForOldMessages == SessionSpec => StopRevokesTarget
  <1> DEFINE Safe == /\ sess'.target => sess'.state \notin Final \cup {"safe_stop"}
                     /\ \A r \in Receivers :
                          receiving[r].kind = "target" /\ receiving'[r].kind = "none" /\ cut[r]
                             => ~sess'.target \/ sess.target
  <1>1. SessionInv /\ SessionInv' /\ [SessionNext]_sessionVars => [Safe]_sessionVars
    <2> SUFFICES ASSUME SessionInv, SessionInv', SessionNext PROVE Safe
      OBVIOUS
    <2>1. sess'.target => sess'.state \notin Final \cup {"safe_stop"}
      BY DEF SessionInv, StoppedHoldsNothing
    <2>2. ASSUME NEW r \in Receivers, receiving[r].kind = "target", receiving'[r].kind = "none",
                 cut[r], sess'.target
          PROVE  sess.target
      <3>1. receiving[r].epoch < sess.epoch /\ receiving[r].epoch \in Nat /\ sess.epoch \in Nat
        BY <2>2 DEF SessionInv, OvertakenIsOld, SessionTypes
      <3>2. SessionTypes
        BY DEF SessionInv
      <3>3. \A state \in {"safe_stop", "stopping", "closed"} : SafeStop(sess, state).target = FALSE
        BY <3>2, SafeStopIs
      <3>4. [SafeStop(sess, "closed") EXCEPT !.token = FALSE].target = FALSE
        BY <3>2, SafeStopIs
      <3>5. ASSUME NEW q \in Receivers, AcceptTarget(q) PROVE sess.target
        <4>1. CASE q = r
          BY <2>2, <3>1, <3>5, <4>1 DEF AcceptTarget
        <4>2. CASE q # r
          BY <2>2, <3>2, <3>5, <4>2 DEF AcceptTarget, EndMessage, SessionTypes
        <4> QED BY <4>1, <4>2
      <3>6. ASSUME NEW q \in Receivers,
                   BeginMessage(q) \/ RefuseMessage(q) \/ AcceptStatus(q) \/ AcceptStop(q)
            PROVE  sess.target
        BY <2>2, <3>2, <3>3, <3>6 DEF BeginMessage, RefuseMessage, AcceptStatus, AcceptStop, Interrupt,
              SessionTypes
      <3>7. CASE LocalStop \/ ExpireTarget \/ CloseSession
        BY <2>2, <3>3, <3>4, <3>7 DEF LocalStop, ExpireTarget, CloseSession, Interrupt
      <3> QED BY <3>5, <3>6, <3>7 DEF SessionNext
    <2> QED BY <2>1, <2>2
  <1> QED BY <1>1, SessionStarts, SessionKeeps, PTL DEF SessionSpec, StopRevokesTarget

-----------------------------------------------------------------------------
(* The command sources. *)
Owners == Sources \cup {NoSource}
Targets == {Zero} \cup [by : Sources, moving : {TRUE}]
Reasons == Recoverable \cup {"none", "active", "ipc_interrupted", "parser_desynchronized",
                             "serial_read_failed", "worker_closed"}
Candidates == [moving : BOOLEAN, active : BOOLEAN, reason : Reasons]

Arbiters == [active : Owners, failure : Reasons, latest : Targets, renewing : BOOLEAN,
             stop : BOOLEAN]
GuiLoops == [pc : {"frame", "select", "submit", "closeWorker", "joinWorker", "stopRenewer",
                   "lastZero", "done"}, want : Sources, moving : BOOLEAN]
Keys == [down : BOOLEAN, event : {"none", "pressed", "down", "released"}, quiet : Nat]
USE DEF Arbiters, GuiLoops, Keys

ArbiterTypes ==
    /\ arbiter \in Arbiters
    /\ client \in {"up", "down"}
    /\ sent \in Targets
    /\ guiLoop \in GuiLoops

RcTypes ==
    /\ rcGate \in [fresh : Nat, filter : {"new", "zeroed", "run"}, out : BOOLEAN, last : Candidates]
    /\ rcWorker \in [pc : {"loop", "read", "sink", "exited"}, inRead : Nat, cmd : Candidates,
                     stop : BOOLEAN]
    /\ silence \in Nat \cup {NoSource}

KeyTypes ==
    /\ tracker \in [held : BOOLEAN, pending : BOOLEAN, since : Nat]
    /\ key \in Keys

(* Nothing moves but for the selected source; a pause of the link has      *)
(* stopped it.                                                             *)
SelectedMoves ==
    client = "up" =>
        /\ sent.moving => sent.by = arbiter.active
        /\ arbiter.latest.moving => arbiter.latest.by = arbiter.active
        /\ arbiter.active = "rc" /\ arbiter.failure \in Recoverable =>
               ~sent.moving /\ ~arbiter.latest.moving

(* Closing takes the selection from the RC worker first and from everyone  *)
(* after the renewer has been stopped.                                     *)
ClosingOrder ==
    /\ rcWorker.stop <=> guiLoop.pc \in {"joinWorker", "stopRenewer", "lastZero", "done"}
    /\ rcWorker.pc = "exited" => rcWorker.stop
    /\ rcWorker.stop /\ client = "up" => arbiter.active # "rc"
    /\ guiLoop.pc \in {"lastZero", "done"} => arbiter.stop
    /\ arbiter.stop /\ guiLoop.pc \notin {"lastZero", "done"} => client = "down"
    /\ guiLoop.pc = "done" /\ client = "up" =>
           arbiter.active = NoSource /\ ~sent.moving /\ ~arbiter.latest.moving

RcMoves == \/ sent.moving /\ sent.by = "rc"
           \/ arbiter.latest.moving /\ arbiter.latest.by = "rc"

SilentFor(n) == silence # NoSource /\ silence < n

(* How old the frame behind an RC target can be at each place of the       *)
(* worker's loop.                                                          *)
RcIsRecent ==
    /\ rcGate.last.active => silence # NoSource
    /\ rcWorker.inRead <= ReadTime
    /\ rcWorker.pc = "sink" /\ rcWorker.cmd.active => SilentFor(RcTimeout + ReadTime)
    /\ client = "up" /\ RcMoves =>
         /\ rcWorker.pc = "loop" => SilentFor(RcTimeout + ReadTime)
         /\ rcWorker.pc = "read" => SilentFor(RcTimeout + ReadTime + rcWorker.inRead)
         /\ rcWorker.pc = "sink" => SilentFor(RcTimeout + 2 * ReadTime)

KeyIsTracked ==
    /\ key.down /\ key.event # "pressed" => tracker.held
    /\ ~key.down => key.event \in {"none", "released"}
    /\ ~key.down /\ key.event = "none" /\ tracker.held =>
           tracker.pending /\ key.quiet <= tracker.since
    /\ key.down => key.quiet = 0

SourcesInv == /\ ArbiterTypes /\ RcTypes /\ KeyTypes
              /\ SelectedMoves /\ ClosingOrder /\ RcIsRecent
              /\ KeyIsTracked /\ ReleasedKeyStops

LEMMA ZeroIs == Zero \in Targets /\ Zero.moving = FALSE /\ NoSource \in Owners /\ NoSource # "rc"
  BY SourceBounds DEF Zero, Targets, Owners

LEMMA TargetIs ==
  ASSUME NEW source \in Sources, NEW moving \in BOOLEAN
  PROVE  /\ TargetOf(source, moving) \in Targets
         /\ TargetOf(source, moving).moving => TargetOf(source, moving).by = source
  BY ZeroIs DEF TargetOf, Targets

LEMMA SendFailsIs ==
  ASSUME NEW a \in Arbiters,
         SendFails(a), ArbiterTypes
  PROVE  /\ arbiter' \in Arbiters
         /\ arbiter'.stop = a.stop /\ client = "down" /\ sent' = sent /\ sent' \in Targets
  BY ZeroIs DEF SendFails, Reasons, ArbiterTypes

(* select_source leaves a zero target, or the client is broken. *)
LEMMA SelectSourceDoes ==
  ASSUME ArbiterTypes, NEW source \in Sources, SelectSource(source)
  PROVE  /\ arbiter' \in Arbiters
         /\ sent' \in Targets /\ arbiter'.stop = arbiter.stop
         /\ client = "up" => /\ arbiter'.active = source /\ arbiter'.failure = "none"
                             /\ arbiter'.latest = Zero /\ sent' = Zero
  <1> DEFINE zeroed == [arbiter EXCEPT !.latest = Zero]
  <1>1. /\ zeroed \in Arbiters
        /\ zeroed.stop = arbiter.stop /\ zeroed.latest = Zero
    BY ZeroIs DEF ArbiterTypes
  <1>2. CASE SendFails(zeroed)
    BY <1>1, <1>2, SendFailsIs
  <1>3. CASE SendOk([zeroed EXCEPT !.active = source, !.failure = "none"], Zero)
    BY <1>1, <1>3, ZeroIs DEF SendOk, Owners, Reasons
  <1> QED BY <1>2, <1>3 DEF SelectSource

LEMMA PublishDoes ==
  ASSUME ArbiterTypes, NEW t \in Targets,
         NEW a \in Arbiters,
         PublishOrStore(a, t)
  PROVE  /\ arbiter' \in Arbiters
         /\ sent' \in Targets /\ arbiter'.stop = a.stop
         /\ client = "up" => /\ arbiter'.active = a.active /\ arbiter'.failure = a.failure
                             /\ arbiter'.latest = t /\ sent' \in {sent, t}
  <1> DEFINE stored == [a EXCEPT !.latest = t]
  <1>1. /\ stored \in Arbiters
        /\ stored.stop = a.stop /\ stored.latest = t /\ stored.active = a.active
        /\ stored.failure = a.failure
    OBVIOUS
  <1>2. CASE SendFails(stored)
    BY <1>1, <1>2, SendFailsIs
  <1>3. CASE SendOk(stored, t)
    BY <1>1, <1>3 DEF SendOk
  <1>4. CASE arbiter' = stored /\ UNCHANGED sent
    BY <1>1, <1>4 DEF ArbiterTypes
  <1> QED BY <1>2, <1>3, <1>4 DEF PublishOrStore

(* submit_rc: an active command of the selected link is published; any     *)
(* other stops the robot, and a fault also takes the selection away.       *)
LEMMA SubmitRcDoes ==
  ASSUME ArbiterTypes, SelectedMoves, NEW cmd \in Candidates, SubmitRc(cmd)
  PROVE  /\ arbiter' \in Arbiters
         /\ sent' \in Targets /\ arbiter'.stop = arbiter.stop
         /\ arbiter.active # "rc" => arbiter' = arbiter /\ sent' = sent
         /\ client = "up" /\ arbiter.active = "rc" /\ cmd.active =>
              /\ arbiter'.active = "rc" /\ arbiter'.failure = "none"
              /\ arbiter'.latest.moving => arbiter'.latest.by = "rc"
              /\ sent'.moving => sent'.by = "rc"
         /\ client = "up" /\ arbiter.active = "rc" /\ ~cmd.active =>
              /\ ~arbiter'.latest.moving /\ ~sent'.moving
              /\ cmd.reason \notin Recoverable => arbiter'.active # "rc"
  <1>1. CASE arbiter.active # "rc"
    BY <1>1 DEF SubmitRc, ArbiterTypes
  <1>2. CASE arbiter.active = "rc" /\ cmd.active
    <2> DEFINE a == [arbiter EXCEPT !.failure = "none"]
    <2>1. /\ a \in Arbiters
          /\ a.active = arbiter.active /\ a.failure = "none" /\ a.stop = arbiter.stop
      BY DEF ArbiterTypes, Reasons
    <2>2. PublishOrStore(a, TargetOf("rc", cmd.moving))
      BY <1>2 DEF SubmitRc
    <2>3. /\ TargetOf("rc", cmd.moving) \in Targets
          /\ TargetOf("rc", cmd.moving).moving => TargetOf("rc", cmd.moving).by = "rc"
      BY TargetIs DEF Sources, Candidates
    <2> HIDE DEF a
    <2> QED BY <1>2, <2>1, <2>2, <2>3, PublishDoes DEF SelectedMoves
  <1>3. CASE arbiter.active = "rc" /\ ~cmd.active /\ cmd.reason \in Recoverable
    <2> DEFINE paused == [arbiter EXCEPT !.latest = Zero, !.failure = cmd.reason]
    <2>1. /\ paused \in Arbiters
          /\ paused.latest = Zero /\ paused.stop = arbiter.stop
      BY ZeroIs DEF ArbiterTypes, Candidates
    <2>2. IF arbiter.failure # cmd.reason THEN SendOk(paused, Zero) \/ SendFails(paused)
          ELSE arbiter' = paused /\ UNCHANGED sent
      BY <1>3 DEF SubmitRc
    <2> HIDE DEF paused
    <2>3. CASE SendFails(paused)
      BY <1>3, <2>1, <2>3, SendFailsIs
    <2>4. CASE SendOk(paused, Zero)
      BY <1>3, <2>1, <2>4, ZeroIs DEF SendOk
    <2>5. CASE arbiter.failure = cmd.reason /\ arbiter' = paused /\ UNCHANGED sent
      BY <1>3, <2>1, <2>5, ZeroIs DEF SelectedMoves, ArbiterTypes
    <2> QED BY <2>2, <2>3, <2>4, <2>5
  <1>4. CASE arbiter.active = "rc" /\ ~cmd.active /\ cmd.reason \notin Recoverable
    <2> DEFINE zeroed == [arbiter EXCEPT !.latest = Zero, !.active = NoSource, !.failure = cmd.reason]
    <2>1. /\ zeroed \in Arbiters
          /\ zeroed.latest = Zero /\ zeroed.stop = arbiter.stop /\ zeroed.active = NoSource
      BY ZeroIs DEF ArbiterTypes, Candidates
    <2>2. SendOk(zeroed, Zero) \/ SendFails(zeroed)
      BY <1>4 DEF SubmitRc, Revoke
    <2> HIDE DEF zeroed
    <2>3. CASE SendFails(zeroed)
      BY <1>4, <2>1, <2>3, SendFailsIs
    <2>4. CASE SendOk(zeroed, Zero)
      BY <1>4, <2>1, <2>4, ZeroIs DEF SendOk
    <2> QED BY <2>2, <2>3, <2>4
  <1> QED BY <1>1, <1>2, <1>3, <1>4 DEF Candidates

Gates == [fresh : Nat, filter : {"new", "zeroed", "run"}, out : BOOLEAN, last : Candidates]
USE DEF Gates

LEMMA StoppedIs ==
  ASSUME NEW g, NEW reason \in Reasons
  PROVE  /\ ZeroCommand(reason) \in Candidates /\ ~ZeroCommand(reason).active
         /\ ZeroCommand(reason).reason = reason
         /\ Stopped(g, reason) \in Gates /\ ~Stopped(g, reason).last.active
         /\ Stopped(g, reason).last \in Candidates
  BY DEF Stopped, ZeroCommand, Candidate, Candidates

LEMMA ObservedIs ==
  ASSUME NEW g \in Gates, NEW out \in BOOLEAN
  PROVE  Observed(g, out) \in Gates /\ Observed(g, out).last \in Candidates
  <1> DEFINE fresh == IF g.fresh < RecoveryFrames THEN g.fresh + 1 ELSE g.fresh
             cmd == IF fresh < RecoveryFrames THEN ZeroCommand("recovering_frames")
                    ELSE Candidate(out, TRUE, "active")
  <1>1. fresh \in Nat
    BY SourceBounds
  <1>2. cmd \in Candidates
    BY StoppedIs DEF Reasons, Recoverable, Candidate, Candidates
  <1>3. Observed(g, out) = [fresh |-> fresh, filter |-> "run", out |-> out, last |-> cmd]
    BY DEF Observed
  <1> HIDE DEF fresh, cmd
  <1> QED BY <1>1, <1>2, <1>3

LEMMA SourcesStart == SourcesInit => SourcesInv
  <1> SUFFICES ASSUME SourcesInit PROVE SourcesInv
    OBVIOUS
  <1>1. ZeroCommand("waiting_frame") \in Candidates /\ ~ZeroCommand("waiting_frame").active
    BY StoppedIs DEF Reasons, Recoverable
  <1>2. ArbiterTypes
    BY ZeroIs DEF SourcesInit, ArbiterTypes, Reasons, Sources
  <1>3. RcTypes /\ KeyTypes
    BY <1>1, SourceBounds DEF SourcesInit, RcTypes, KeyTypes
  <1>4. SelectedMoves /\ ClosingOrder
    BY ZeroIs DEF SourcesInit, SelectedMoves, ClosingOrder
  <1>5. RcIsRecent /\ KeyIsTracked /\ ReleasedKeyStops
    BY <1>1, ZeroIs, SourceBounds DEF SourcesInit, RcIsRecent, RcMoves, KeyIsTracked, ReleasedKeyStops
  <1> QED BY <1>2, <1>3, <1>4, <1>5 DEF SourcesInv

-----------------------------------------------------------------------------
(* The RC worker. *)
LEMMA RcBeginReadKeeps == ASSUME SourcesInv, RcBeginRead PROVE SourcesInv'
  <1>0. /\ UNCHANGED <<arbiter, client, sent, rcGate, silence, guiLoop, tracker, key>>
        /\ ArbiterTypes /\ RcTypes /\ KeyTypes /\ SelectedMoves /\ ClosingOrder /\ RcIsRecent
        /\ KeyIsTracked /\ ReleasedKeyStops
    BY DEF RcBeginRead, SourcesInv
  <1>1. ArbiterTypes' /\ KeyTypes' /\ SelectedMoves' /\ KeyIsTracked' /\ ReleasedKeyStops'
    BY <1>0 DEF ArbiterTypes, KeyTypes, SelectedMoves, KeyIsTracked, ReleasedKeyStops
  <1>2. CASE rcWorker.stop
    <2>1. rcWorker.pc = "loop" /\ rcWorker' = [rcWorker EXCEPT !.pc = "exited"]
      BY <1>2 DEF RcBeginRead
    <2>2. RcTypes'
      BY <1>0, <2>1 DEF RcTypes
    <2>3. ClosingOrder'
      BY <1>0, <1>2, <2>1 DEF RcTypes, ClosingOrder
    <2>4. RcIsRecent'
      BY <1>0, <2>1 DEF RcTypes, RcIsRecent, RcMoves, SilentFor
    <2> QED BY <1>1, <2>2, <2>3, <2>4 DEF SourcesInv
  <1>3. CASE ~rcWorker.stop
    <2>1. rcWorker.pc = "loop" /\ rcWorker' = [rcWorker EXCEPT !.pc = "read", !.inRead = 0]
      BY <1>3 DEF RcBeginRead
    <2>2. RcTypes'
      BY <1>0, <2>1 DEF RcTypes
    <2>3. ClosingOrder'
      BY <1>0, <1>3, <2>1 DEF RcTypes, ClosingOrder
    <2>4. RcIsRecent'
      BY <1>0, <2>1, SourceBounds DEF RcTypes, RcIsRecent, RcMoves, SilentFor
    <2> QED BY <1>1, <2>2, <2>3, <2>4 DEF SourcesInv
  <1> QED BY <1>2, <1>3

(* What the worker hands over is active only behind a recent frame. *)
LEMMA ProcessedKeeps ==
  ASSUME SourcesInv, NEW g \in Gates, g.last \in Candidates, Processed(g), rcWorker.pc = "read",
         UNCHANGED <<arbiter, client, sent, guiLoop, tracker, key>>,
         silence' \in {silence, rcWorker.inRead},
         g.last.active => silence' # NoSource /\ silence' < RcTimeout + ReadTime
  PROVE  SourcesInv'
  <1>0. /\ ArbiterTypes /\ RcTypes /\ KeyTypes /\ SelectedMoves /\ ClosingOrder /\ RcIsRecent
        /\ KeyIsTracked /\ ReleasedKeyStops
    BY DEF SourcesInv
  <1>1. ArbiterTypes' /\ KeyTypes' /\ SelectedMoves' /\ KeyIsTracked' /\ ReleasedKeyStops'
    BY <1>0 DEF ArbiterTypes, KeyTypes, SelectedMoves, KeyIsTracked, ReleasedKeyStops
  <1>2. rcGate' = g /\ rcWorker' = [rcWorker EXCEPT !.pc = "sink", !.cmd = g.last, !.inRead = 0]
    BY DEF Processed
  <1>3. RcTypes'
    BY <1>0, <1>2 DEF RcTypes
  <1>4. ClosingOrder'
    BY <1>0, <1>2 DEF RcTypes, ClosingOrder
  <1>5. rcWorker'.pc = "sink" /\ rcWorker'.cmd = g.last /\ rcWorker'.inRead = 0
    BY <1>0, <1>2 DEF RcTypes
  <1>6. ASSUME client = "up", RcMoves PROVE silence' # NoSource /\ silence' < RcTimeout + 2 * ReadTime
    BY <1>0, <1>6, SourceBounds DEF RcTypes, RcIsRecent, SilentFor
  <1>7. RcIsRecent'
    BY <1>0, <1>2, <1>5, <1>6, SourceBounds DEF RcIsRecent, SilentFor, RcMoves
  <1> QED BY <1>1, <1>3, <1>4, <1>7 DEF SourcesInv

LEMMA RcReadKeeps == ASSUME SourcesInv, RcRead PROVE SourcesInv'
  <1>0. /\ UNCHANGED <<arbiter, client, sent, guiLoop, tracker, key>> /\ rcWorker.pc = "read"
        /\ RcTypes /\ RcIsRecent
    BY DEF RcRead, SourcesInv
  <1>1. rcGate \in Gates /\ rcGate.last \in Candidates /\ rcWorker.inRead \in Nat
    BY <1>0 DEF RcTypes
  <1>2. ASSUME NEW moving \in BOOLEAN, NEW out \in Filtered(rcGate, moving),
               Processed(Observed(rcGate, out)), silence' = rcWorker.inRead
        PROVE  SourcesInv'
    <2>1. out \in BOOLEAN
      BY <1>1, <1>2 DEF Filtered
    <2>2. silence' # NoSource /\ silence' < RcTimeout + ReadTime
      BY <1>0, <1>1, <1>2, SourceBounds DEF RcIsRecent
    <2> QED BY <1>0, <1>1, <1>2, <2>1, <2>2, ObservedIs, ProcessedKeeps
  <1>3. ASSUME NEW reason \in {"parser_desynchronized", "serial_read_failed"},
               Processed(Stopped(rcGate, reason)), UNCHANGED silence
        PROVE  SourcesInv'
    BY <1>0, <1>3, StoppedIs, ProcessedKeeps DEF Reasons
  <1>4. ASSUME Processed(Decision(rcGate, IF silence = NoSource THEN NoSource
                                          ELSE silence - rcWorker.inRead)), UNCHANGED silence
        PROVE  SourcesInv'
    <2> DEFINE age == IF silence = NoSource THEN NoSource ELSE silence - rcWorker.inRead
    <2>1. CASE age # NoSource /\ age >= RcTimeout
      <3>1. Decision(rcGate, age) = Stopped(rcGate, "frame_timeout")
        BY <2>1 DEF Decision
      <3> QED BY <1>0, <1>4, <3>1, StoppedIs, ProcessedKeeps DEF Reasons, Recoverable
    <2>2. CASE ~(age # NoSource /\ age >= RcTimeout)
      <3>1. Decision(rcGate, age) = rcGate
        BY <2>2 DEF Decision
      <3>2. ASSUME rcGate.last.active PROVE silence # NoSource /\ silence < RcTimeout + ReadTime
        BY <1>0, <1>1, <2>2, <3>2, SourceBounds DEF RcTypes, RcIsRecent
      <3> QED BY <1>0, <1>1, <1>4, <3>1, <3>2, ProcessedKeeps
    <2> QED BY <2>1, <2>2
  <1> QED BY <1>2, <1>3, <1>4 DEF RcRead

LEMMA RcSinkKeeps == ASSUME SourcesInv, RcSink PROVE SourcesInv'
  <1>0. /\ UNCHANGED <<client, silence, guiLoop, tracker, key>> /\ rcWorker.pc = "sink"
        /\ ArbiterTypes /\ RcTypes /\ KeyTypes /\ SelectedMoves /\ ClosingOrder /\ RcIsRecent
        /\ KeyIsTracked /\ ReleasedKeyStops
    BY DEF RcSink, SourcesInv
  <1>1. SubmitRc(rcWorker.cmd) /\ rcWorker.cmd \in Candidates
    BY <1>0 DEF RcSink, RcTypes
  <1>2. /\ arbiter' \in Arbiters /\ sent' \in Targets /\ arbiter'.stop = arbiter.stop
        /\ arbiter.active # "rc" => arbiter' = arbiter /\ sent' = sent
        /\ client = "up" /\ arbiter.active = "rc" /\ rcWorker.cmd.active =>
              /\ arbiter'.active = "rc" /\ arbiter'.failure = "none"
              /\ arbiter'.latest.moving => arbiter'.latest.by = "rc"
              /\ sent'.moving => sent'.by = "rc"
        /\ client = "up" /\ arbiter.active = "rc" /\ ~rcWorker.cmd.active =>
              ~arbiter'.latest.moving /\ ~sent'.moving
    BY <1>0, <1>1, SubmitRcDoes
  <1>3. /\ rcGate' \in Gates /\ (rcGate'.last.active => rcGate.last.active)
        /\ rcWorker' = [rcWorker EXCEPT !.pc = "loop", !.cmd = ZeroCommand("waiting_frame")]
    <2>1. rcGate' \in {rcGate, Stopped(rcGate, "ipc_interrupted")}
      BY DEF RcSink
    <2>2. /\ Stopped(rcGate, "ipc_interrupted") \in Gates
          /\ ~Stopped(rcGate, "ipc_interrupted").last.active
      BY StoppedIs DEF Reasons
    <2>3. rcWorker' = [rcWorker EXCEPT !.pc = "loop", !.cmd = ZeroCommand("waiting_frame")]
      BY DEF RcSink
    <2>4. rcGate \in Gates
      BY <1>0 DEF RcTypes
    <2> QED BY <2>1, <2>2, <2>3, <2>4
  <1>4. /\ rcWorker'.pc = "loop" /\ rcWorker'.stop = rcWorker.stop
        /\ rcWorker'.inRead = rcWorker.inRead
    BY <1>0, <1>3 DEF RcTypes
  <1>5. ArbiterTypes' /\ KeyTypes' /\ KeyIsTracked' /\ ReleasedKeyStops'
    BY <1>0, <1>2 DEF ArbiterTypes, KeyTypes, KeyIsTracked, ReleasedKeyStops
  <1>6. RcTypes'
    BY <1>0, <1>3, StoppedIs DEF RcTypes, Reasons, Recoverable
  <1>7. SelectedMoves'
    BY <1>0, <1>2 DEF SelectedMoves, Recoverable
  <1>8. ClosingOrder'
    BY <1>0, <1>2, <1>4 DEF ClosingOrder
  <1>9. ASSUME client = "up", RcMoves' PROVE SilentFor(RcTimeout + ReadTime)
    <2>1. CASE arbiter.active # "rc"
      BY <1>0, <1>2, <1>9, <2>1 DEF RcMoves, SelectedMoves
    <2>2. CASE arbiter.active = "rc"
      BY <1>0, <1>2, <1>9, <2>2 DEF RcMoves, RcIsRecent
    <2> QED BY <2>1, <2>2
  <1>10. RcIsRecent'
    BY <1>0, <1>3, <1>4, <1>9 DEF RcIsRecent, SilentFor
  <1> QED BY <1>5, <1>6, <1>7, <1>8, <1>10 DEF SourcesInv

-----------------------------------------------------------------------------
(* The renewer and the client. *)
LEMMA RenewOnceKeeps == ASSUME SourcesInv, RenewOnce PROVE SourcesInv'
  <1>0. /\ UNCHANGED <<client, rcGate, rcWorker, silence, guiLoop, tracker, key>> /\ ~arbiter.stop
        /\ ArbiterTypes /\ RcTypes /\ KeyTypes /\ SelectedMoves /\ ClosingOrder /\ RcIsRecent
        /\ KeyIsTracked /\ ReleasedKeyStops
    BY DEF RenewOnce, SourcesInv
  <1>1. RcTypes' /\ KeyTypes' /\ KeyIsTracked' /\ ReleasedKeyStops'
    BY <1>0 DEF RcTypes, KeyTypes, KeyIsTracked, ReleasedKeyStops
  <1>2. CASE SendOk(arbiter, arbiter.latest)
    <2>1. client = "up" /\ sent' = arbiter.latest /\ arbiter' = arbiter
      BY <1>2 DEF SendOk
    <2>2. ArbiterTypes' /\ SelectedMoves' /\ ClosingOrder'
      BY <1>0, <2>1 DEF ArbiterTypes, SelectedMoves, ClosingOrder
    <2>3. RcIsRecent'
      BY <1>0, <2>1 DEF RcIsRecent, RcMoves, SilentFor
    <2> QED BY <1>1, <2>2, <2>3 DEF SourcesInv
  <1>3. CASE SendFails([arbiter EXCEPT !.stop = TRUE])
    <2> DEFINE a == [arbiter EXCEPT !.stop = TRUE]
    <2>1. a \in Arbiters /\ a.stop = TRUE
      BY <1>0 DEF ArbiterTypes
    <2>2. arbiter' \in Arbiters /\ arbiter'.stop = TRUE /\ client = "down" /\ sent' = sent
      BY <1>0, <1>3, <2>1, SendFailsIs
    <2>3. ArbiterTypes' /\ SelectedMoves' /\ ClosingOrder'
      BY <1>0, <2>2 DEF ArbiterTypes, SelectedMoves, ClosingOrder
    <2>4. RcIsRecent'
      BY <1>0, <2>2 DEF RcIsRecent, SilentFor
    <2> QED BY <1>1, <2>3, <2>4 DEF SourcesInv
  <1> QED BY <1>2, <1>3 DEF RenewOnce

LEMMA ClientFailsKeeps == ASSUME SourcesInv, ClientFails PROVE SourcesInv'
  <1>0. /\ UNCHANGED <<arbiter, sent, rcGate, rcWorker, silence, guiLoop, tracker, key>>
        /\ client' = "down"
        /\ ArbiterTypes /\ RcTypes /\ KeyTypes /\ SelectedMoves /\ ClosingOrder /\ RcIsRecent
        /\ KeyIsTracked /\ ReleasedKeyStops
    BY DEF ClientFails, SourcesInv
  <1>1. ArbiterTypes' /\ RcTypes' /\ KeyTypes' /\ KeyIsTracked' /\ ReleasedKeyStops'
    BY <1>0 DEF ArbiterTypes, RcTypes, KeyTypes, KeyIsTracked, ReleasedKeyStops
  <1>2. SelectedMoves' /\ ClosingOrder'
    BY <1>0 DEF SelectedMoves, ClosingOrder
  <1>3. RcIsRecent'
    BY <1>0 DEF RcIsRecent, SilentFor
  <1> QED BY <1>1, <1>2, <1>3 DEF SourcesInv

-----------------------------------------------------------------------------
(* The keyboard. *)
LEMMA KeyKeeps == ASSUME SourcesInv, KeyPress \/ KeyRelease PROVE SourcesInv'
  <1>0. /\ UNCHANGED <<arbiter, client, sent, rcGate, rcWorker, silence, guiLoop, tracker>>
        /\ guiLoop.pc = "frame"
        /\ ArbiterTypes /\ RcTypes /\ KeyTypes /\ SelectedMoves /\ ClosingOrder /\ RcIsRecent
        /\ KeyIsTracked
    BY DEF KeyPress, KeyRelease, SourcesInv
  <1>1. ArbiterTypes' /\ RcTypes' /\ SelectedMoves' /\ ClosingOrder'
    BY <1>0 DEF ArbiterTypes, RcTypes, SelectedMoves, ClosingOrder
  <1>2. RcIsRecent'
    BY <1>0 DEF RcIsRecent, SilentFor, RcMoves
  <1>3. KeyTypes' /\ KeyIsTracked'
    <2>1. CASE KeyPress
      BY <1>0, <2>1 DEF KeyPress, KeyTypes, KeyIsTracked
    <2>2. CASE KeyRelease
      BY <1>0, <2>2 DEF KeyRelease, KeyTypes, KeyIsTracked
    <2> QED BY <2>1, <2>2, <1>0 DEF KeyPress, KeyRelease
  <1>4. ReleasedKeyStops'
    BY <1>0 DEF ReleasedKeyStops
  <1> QED BY <1>1, <1>2, <1>3, <1>4 DEF SourcesInv

LEMMA KeyIs ==
  ASSUME NEW event \in {"none", "pressed", "down", "released"}, NEW down \in BOOLEAN, NEW quiet \in Nat
  PROVE  [down |-> down, event |-> event, quiet |-> quiet] \in Keys
  OBVIOUS

(* One reading of the keyboard: a key that is down is held, and a key that *)
(* is not was let go less than the grace ago if it still counts as held.   *)
LEMMA TrackedIs ==
  ASSUME KeyTypes, KeyIsTracked, NEW event \in KeyEvents, tracker' = Tracked(event),
         key' = IF key.down THEN [key EXCEPT !.event = event, !.quiet = 0]
                ELSE [key EXCEPT !.event = "none",
                                 !.quiet = IF key.event = "released" THEN 0 ELSE @]
  PROVE  /\ KeyTypes' /\ KeyIsTracked'
         /\ tracker'.held => key'.down \/ key'.quiet < Grace
         /\ ~tracker'.held => ~key'.down
  <1>1. CASE key.down
    <2>1. event \in {"down", "released"} /\ (key.event = "pressed" => event = "down")
      BY <1>1 DEF KeyEvents, KeyTypes
    <2>2. key' = [key EXCEPT !.event = event, !.quiet = 0]
      BY <1>1
    <2>3. tracker' \in [held : BOOLEAN, pending : BOOLEAN, since : Nat] /\ tracker'.held
      <3>1. CASE event = "down"
        BY <3>1 DEF Tracked
      <3>2. CASE event = "released"
        <4>1. tracker.held
          BY <1>1, <2>1, <3>2 DEF KeyIsTracked
        <4>2. tracker' = [held |-> TRUE, pending |-> TRUE, since |-> 0]
          BY <3>2, <4>1, SourceBounds DEF Tracked
        <4> QED BY <4>2
      <3> QED BY <2>1, <3>1, <3>2
    <2>4. KeyTypes' /\ key'.down /\ key'.quiet = 0
      <3>1. key \in Keys
        BY DEF KeyTypes
      <3>2. key' \in Keys
        <4>1. key.down = TRUE
          BY <1>1, <3>1
        <4>2. key' = [down |-> TRUE, event |-> event, quiet |-> 0]
          BY <2>2, <3>1, <4>1
        <4>3. event \in {"none", "pressed", "down", "released"} /\ TRUE \in BOOLEAN /\ 0 \in Nat
          BY <2>1
        <4>4. [down |-> TRUE, event |-> event, quiet |-> 0]
                \in Keys
          BY <4>3, KeyIs, Zenon
        <4> QED BY <4>2, <4>4, Zenon
      <3>3. key'.down = key.down /\ key'.quiet = 0
        BY <2>2, <3>1
      <3> QED BY <1>1, <2>3, <3>2, <3>3 DEF KeyTypes
    <2> QED BY <2>3, <2>4 DEF KeyIsTracked
  <1>2. CASE ~key.down
    <2>1. event = key.event /\ key.event \in {"none", "released"}
      BY <1>2 DEF KeyEvents, KeyTypes, KeyIsTracked
    <2>2. /\ key'.down = FALSE /\ key'.event = "none" /\ key'.quiet \in Nat
          /\ key'.quiet = IF key.event = "released" THEN 0 ELSE key.quiet
          /\ key' \in Keys
      BY <1>2 DEF KeyTypes
    <2>3. CASE key.event = "released" /\ tracker.held
      <3>1. tracker' = [held |-> TRUE, pending |-> TRUE, since |-> 0]
        BY <2>1, <2>3, SourceBounds DEF Tracked
      <3> QED BY <2>2, <2>3, <3>1, SourceBounds DEF KeyTypes, KeyIsTracked
    <2>4. CASE key.event = "released" /\ ~tracker.held
      <3>1. tracker' \in {tracker, [held |-> FALSE, pending |-> FALSE, since |-> 0]}
        BY <2>1, <2>4 DEF Tracked
      <3>2. ~tracker'.held /\ tracker' \in [held : BOOLEAN, pending : BOOLEAN, since : Nat]
        <4>1. CASE tracker' = tracker
          BY <2>4, <4>1 DEF KeyTypes
        <4>2. CASE tracker' = [held |-> FALSE, pending |-> FALSE, since |-> 0]
          BY <4>2
        <4> QED BY <3>1, <4>1, <4>2
      <3> QED BY <2>2, <3>2 DEF KeyTypes, KeyIsTracked
    <2>5. CASE key.event = "none"
      <3>1. tracker' = IF tracker.pending /\ tracker.since >= Grace
                       THEN [held |-> FALSE, pending |-> FALSE, since |-> 0] ELSE tracker
        BY <2>1, <2>5 DEF Tracked
      <3>2. CASE tracker.pending /\ tracker.since >= Grace
        BY <2>2, <3>1, <3>2 DEF KeyTypes, KeyIsTracked
      <3>3. CASE ~(tracker.pending /\ tracker.since >= Grace)
        <4>1. tracker' = tracker /\ key'.quiet = key.quiet
          BY <2>2, <2>5, <3>1, <3>3
        <4>2. KeyTypes' /\ KeyIsTracked'
          BY <1>2, <2>2, <2>5, <4>1 DEF KeyTypes, KeyIsTracked
        <4>3. ASSUME tracker.held PROVE key.quiet < Grace
          BY <1>2, <2>5, <3>3, <4>3, SourceBounds DEF KeyTypes, KeyIsTracked
        <4> QED BY <2>2, <4>1, <4>2, <4>3
      <3> QED BY <3>2, <3>3
    <2> QED BY <2>1, <2>3, <2>4, <2>5
  <1> QED BY <1>1, <1>2

LEMMA GuiFrameKeeps == ASSUME SourcesInv, GuiFrame PROVE SourcesInv'
  <1>0. /\ UNCHANGED <<arbiter, client, sent, rcGate, rcWorker, silence>> /\ guiLoop.pc = "frame"
        /\ ArbiterTypes /\ RcTypes /\ KeyTypes /\ SelectedMoves /\ ClosingOrder /\ RcIsRecent
        /\ KeyIsTracked
    BY DEF GuiFrame, SourcesInv
  <1>1. PICK event \in KeyEvents, want \in Sources :
         /\ tracker' = Tracked(event)
         /\ key' = IF key.down THEN [key EXCEPT !.event = event, !.quiet = 0]
                   ELSE [key EXCEPT !.event = "none",
                                    !.quiet = IF key.event = "released" THEN 0 ELSE @]
         /\ guiLoop' = [guiLoop EXCEPT !.want = want, !.moving = tracker'.held,
                               !.pc = IF arbiter.active # want THEN "select"
                                      ELSE IF want = "keyboard" THEN "submit" ELSE "frame"]
    BY DEF GuiFrame
  <1>2. /\ KeyTypes' /\ KeyIsTracked'
        /\ tracker'.held => key'.down \/ key'.quiet < Grace
        /\ ~tracker'.held => ~key'.down
    BY <1>0, <1>1, TrackedIs
  <1>3. /\ guiLoop'.pc \in {"frame", "select", "submit"} /\ guiLoop'.moving = tracker'.held
        /\ guiLoop'.want = want
    BY <1>0, <1>1 DEF ArbiterTypes
  <1>4. ArbiterTypes'
    <2>1. tracker'.held \in BOOLEAN
      BY <1>2 DEF KeyTypes
    <2> QED BY <1>0, <1>1, <2>1 DEF ArbiterTypes
  <1>5. RcTypes' /\ SelectedMoves' /\ ClosingOrder'
    BY <1>0, <1>3 DEF RcTypes, SelectedMoves, ClosingOrder
  <1>6. RcIsRecent'
    BY <1>0 DEF RcIsRecent, SilentFor, RcMoves
  <1>7. ReleasedKeyStops'
    BY <1>2, <1>3 DEF ReleasedKeyStops
  <1> QED BY <1>2, <1>4, <1>5, <1>6, <1>7 DEF SourcesInv

-----------------------------------------------------------------------------
(* The GUI loop and the closing. *)
LEMMA GuiSelectKeeps == ASSUME SourcesInv, GuiSelect PROVE SourcesInv'
  <1>0. /\ UNCHANGED <<client, rcGate, rcWorker, silence, tracker, key>> /\ guiLoop.pc = "select"
        /\ ArbiterTypes /\ RcTypes /\ KeyTypes /\ SelectedMoves /\ ClosingOrder /\ RcIsRecent
        /\ KeyIsTracked /\ ReleasedKeyStops
    BY DEF GuiSelect, SourcesInv
  <1>1. SelectSource(guiLoop.want) /\ guiLoop.want \in Sources
    BY <1>0 DEF GuiSelect, ArbiterTypes
  <1>2. /\ arbiter' \in Arbiters /\ sent' \in Targets /\ arbiter'.stop = arbiter.stop
        /\ client = "up" => arbiter'.failure = "none" /\ arbiter'.latest = Zero /\ sent' = Zero
    BY <1>0, <1>1, SelectSourceDoes
  <1>3. \E pc \in {"closeWorker", "submit", "frame"} : guiLoop' = [guiLoop EXCEPT !.pc = pc]
    BY DEF GuiSelect, GuiRaises
  <1>4. /\ guiLoop' \in GuiLoops
        /\ guiLoop'.moving = guiLoop.moving /\ guiLoop'.pc \in {"closeWorker", "submit", "frame"}
    BY <1>0, <1>3 DEF ArbiterTypes
  <1>5. ArbiterTypes' /\ RcTypes' /\ KeyTypes' /\ KeyIsTracked'
    BY <1>0, <1>2, <1>4 DEF ArbiterTypes, RcTypes, KeyTypes, KeyIsTracked
  <1>6. SelectedMoves'
    BY <1>0, <1>2, ZeroIs DEF SelectedMoves, Recoverable
  <1>7. ClosingOrder'
    BY <1>0, <1>2, <1>4 DEF ClosingOrder
  <1>8. RcIsRecent'
    BY <1>0, <1>2, ZeroIs DEF RcIsRecent, RcMoves, SilentFor
  <1>9. ReleasedKeyStops'
    BY <1>0, <1>4 DEF ReleasedKeyStops
  <1> QED BY <1>5, <1>6, <1>7, <1>8, <1>9 DEF SourcesInv

LEMMA GuiSubmitKeeps == ASSUME SourcesInv, GuiSubmit PROVE SourcesInv'
  <1>0. /\ UNCHANGED <<client, rcGate, rcWorker, silence, tracker, key>> /\ guiLoop.pc = "submit"
        /\ ArbiterTypes /\ RcTypes /\ KeyTypes /\ SelectedMoves /\ ClosingOrder /\ RcIsRecent
        /\ KeyIsTracked /\ ReleasedKeyStops
    BY DEF GuiSubmit, SourcesInv
  <1>1. \E pc \in {"closeWorker", "frame"} : guiLoop' = [guiLoop EXCEPT !.pc = pc]
    BY DEF GuiSubmit, GuiRaises
  <1>2. /\ guiLoop' \in GuiLoops
        /\ guiLoop'.pc \in {"closeWorker", "frame"}
    BY <1>0, <1>1 DEF ArbiterTypes
  <1>3. RcTypes' /\ KeyTypes' /\ KeyIsTracked' /\ ReleasedKeyStops'
    BY <1>0, <1>2 DEF RcTypes, KeyTypes, KeyIsTracked, ReleasedKeyStops
  <1>4. CASE arbiter.active # "keyboard"
    <2>1. UNCHANGED <<arbiter, sent>>
      BY <1>4 DEF GuiSubmit
    <2>2. ArbiterTypes' /\ SelectedMoves' /\ ClosingOrder'
      BY <1>0, <1>2, <2>1 DEF ArbiterTypes, SelectedMoves, ClosingOrder
    <2>3. RcIsRecent'
      BY <1>0, <2>1 DEF RcIsRecent, RcMoves, SilentFor
    <2> QED BY <1>3, <2>2, <2>3 DEF SourcesInv
  <1>5. CASE arbiter.active = "keyboard"
    <2> DEFINE t == TargetOf("keyboard", guiLoop.moving)
    <2>1. PublishOrStore(arbiter, t) /\ arbiter \in Arbiters /\ guiLoop.moving \in BOOLEAN
      BY <1>0, <1>5 DEF GuiSubmit, ArbiterTypes
    <2>2. t \in Targets /\ (t.moving => t.by = "keyboard")
      BY <2>1, TargetIs DEF Sources
    <2> HIDE DEF t
    <2>3. /\ arbiter' \in Arbiters /\ sent' \in Targets /\ arbiter'.stop = arbiter.stop
          /\ client = "up" => /\ arbiter'.active = "keyboard" /\ arbiter'.latest = t
                              /\ sent' \in {sent, t}
      BY <1>0, <1>5, <2>1, <2>2, PublishDoes
    <2>4. ArbiterTypes' /\ ClosingOrder'
      BY <1>0, <1>2, <2>3 DEF ArbiterTypes, ClosingOrder
    <2>5. SelectedMoves'
      BY <1>0, <1>5, <2>2, <2>3 DEF SelectedMoves
    <2>6. client = "up" => ~RcMoves'
      BY <1>0, <1>5, <2>2, <2>3 DEF SelectedMoves, RcMoves
    <2>7. RcIsRecent'
      BY <1>0, <2>6 DEF RcIsRecent, SilentFor
    <2> QED BY <1>3, <2>4, <2>5, <2>7 DEF SourcesInv
  <1> QED BY <1>4, <1>5

LEMMA GuiEndsKeeps == ASSUME SourcesInv, GuiEnds \/ JoinWorker PROVE SourcesInv'
  <1>0. /\ UNCHANGED <<arbiter, client, sent, rcGate, rcWorker, silence, tracker, key>>
        /\ ArbiterTypes /\ RcTypes /\ KeyTypes /\ SelectedMoves /\ ClosingOrder /\ RcIsRecent
        /\ KeyIsTracked /\ ReleasedKeyStops
    BY DEF GuiEnds, JoinWorker, SourcesInv
  <1>1. \/ guiLoop.pc = "frame" /\ guiLoop' = [guiLoop EXCEPT !.pc = "closeWorker"]
        \/ guiLoop.pc = "joinWorker" /\ guiLoop' = [guiLoop EXCEPT !.pc = "stopRenewer"]
    BY DEF GuiEnds, JoinWorker, GuiRaises
  <1>2. /\ guiLoop' \in GuiLoops
        /\ \/ guiLoop.pc = "frame" /\ guiLoop'.pc = "closeWorker"
           \/ guiLoop.pc = "joinWorker" /\ guiLoop'.pc = "stopRenewer"
    BY <1>0, <1>1 DEF ArbiterTypes
  <1>3. ArbiterTypes' /\ RcTypes' /\ KeyTypes' /\ SelectedMoves' /\ KeyIsTracked' /\ ReleasedKeyStops'
    BY <1>0, <1>2 DEF ArbiterTypes, RcTypes, KeyTypes, SelectedMoves, KeyIsTracked, ReleasedKeyStops
  <1>4. ClosingOrder'
    BY <1>0, <1>2 DEF ClosingOrder
  <1>5. RcIsRecent'
    BY <1>0 DEF RcIsRecent, RcMoves, SilentFor
  <1> QED BY <1>3, <1>4, <1>5 DEF SourcesInv

LEMMA CloseWorkerKeeps == ASSUME SourcesInv, CloseWorker PROVE SourcesInv'
  <1>0. /\ UNCHANGED <<client, silence, tracker, key>> /\ guiLoop.pc = "closeWorker"
        /\ ArbiterTypes /\ RcTypes /\ KeyTypes /\ SelectedMoves /\ ClosingOrder /\ RcIsRecent
        /\ KeyIsTracked /\ ReleasedKeyStops
    BY DEF CloseWorker, SourcesInv
  <1> DEFINE cmd == ZeroCommand("worker_closed")
  <1>1. /\ cmd \in Candidates /\ ~cmd.active /\ cmd.reason \notin Recoverable /\ SubmitRc(cmd)
        /\ rcGate' \in Gates /\ ~rcGate'.last.active
    BY StoppedIs DEF CloseWorker, Reasons, Recoverable
  <1> HIDE DEF cmd
  <1>2. /\ arbiter' \in Arbiters /\ sent' \in Targets /\ arbiter'.stop = arbiter.stop
        /\ arbiter.active # "rc" => arbiter' = arbiter /\ sent' = sent
        /\ client = "up" /\ arbiter.active = "rc" =>
             ~arbiter'.latest.moving /\ ~sent'.moving /\ arbiter'.active # "rc"
    BY <1>0, <1>1, SubmitRcDoes
  <1>3. /\ rcWorker' = [rcWorker EXCEPT !.stop = TRUE]
        /\ guiLoop' = [guiLoop EXCEPT !.pc = "joinWorker"]
    BY DEF CloseWorker
  <1>4. /\ rcWorker'.pc = rcWorker.pc /\ rcWorker'.cmd = rcWorker.cmd /\ rcWorker'.stop
        /\ rcWorker'.inRead = rcWorker.inRead /\ guiLoop'.pc = "joinWorker"
    BY <1>0, <1>3 DEF RcTypes, ArbiterTypes
  <1>5. ArbiterTypes' /\ RcTypes' /\ KeyTypes' /\ KeyIsTracked' /\ ReleasedKeyStops'
    BY <1>0, <1>1, <1>2, <1>3, <1>4 DEF ArbiterTypes, RcTypes, KeyTypes, KeyIsTracked, ReleasedKeyStops
  <1>6. SelectedMoves' /\ ClosingOrder'
    BY <1>0, <1>2, <1>4 DEF SelectedMoves, ClosingOrder
  <1>7. client = "up" => ~RcMoves'
    BY <1>0, <1>2 DEF SelectedMoves, RcMoves
  <1>8. RcIsRecent'
    BY <1>0, <1>1, <1>4, <1>7 DEF RcIsRecent, SilentFor
  <1> QED BY <1>5, <1>6, <1>8 DEF SourcesInv

LEMMA StopRenewerKeeps == ASSUME SourcesInv, StopRenewer PROVE SourcesInv'
  <1>0. /\ UNCHANGED <<client, sent, rcGate, rcWorker, silence, tracker, key>>
        /\ guiLoop.pc = "stopRenewer"
        /\ ArbiterTypes /\ RcTypes /\ KeyTypes /\ SelectedMoves /\ ClosingOrder /\ RcIsRecent
        /\ KeyIsTracked /\ ReleasedKeyStops
    BY DEF StopRenewer, SourcesInv
  <1>1. /\ arbiter' = [arbiter EXCEPT !.stop = TRUE]
        /\ guiLoop' = [guiLoop EXCEPT !.pc = IF arbiter.stop THEN "done" ELSE "lastZero"]
    BY DEF StopRenewer
  <1>2. /\ guiLoop'.pc = IF arbiter.stop THEN "done" ELSE "lastZero"
        /\ arbiter'.stop /\ arbiter'.active = arbiter.active /\ arbiter'.latest = arbiter.latest
        /\ arbiter'.failure = arbiter.failure
    BY <1>0, <1>1 DEF ArbiterTypes
  <1>3. ArbiterTypes' /\ RcTypes' /\ KeyTypes'
    <2>1. guiLoop' \in GuiLoops
      BY <1>0, <1>1 DEF ArbiterTypes
    <2>2. arbiter' \in Arbiters
      BY <1>0, <1>1 DEF ArbiterTypes
    <2> QED BY <1>0, <2>1, <2>2 DEF ArbiterTypes, RcTypes, KeyTypes
  <1>4. SelectedMoves' /\ ClosingOrder' /\ KeyIsTracked' /\ ReleasedKeyStops'
    BY <1>0, <1>2 DEF SelectedMoves, ClosingOrder, KeyIsTracked, ReleasedKeyStops
  <1>5. RcIsRecent'
    BY <1>0, <1>2 DEF RcIsRecent, RcMoves, SilentFor
  <1> QED BY <1>3, <1>4, <1>5 DEF SourcesInv

LEMMA LastZeroKeeps == ASSUME SourcesInv, LastZero PROVE SourcesInv'
  <1>0. /\ UNCHANGED <<client, rcGate, rcWorker, silence, tracker, key>> /\ guiLoop.pc = "lastZero"
        /\ ArbiterTypes /\ RcTypes /\ KeyTypes /\ SelectedMoves /\ ClosingOrder /\ RcIsRecent
        /\ KeyIsTracked /\ ReleasedKeyStops
    BY DEF LastZero, SourcesInv
  <1> DEFINE closed == [arbiter EXCEPT !.latest = Zero, !.active = NoSource]
  <1>1. /\ closed \in Arbiters /\ closed.stop = arbiter.stop /\ closed.latest = Zero
        /\ closed.active = NoSource
    BY <1>0, ZeroIs DEF ArbiterTypes
  <1>2. /\ SendOk(closed, Zero) \/ SendFails(closed)
        /\ guiLoop' = [guiLoop EXCEPT !.pc = "done"]
    BY DEF LastZero
  <1> HIDE DEF closed
  <1>3. /\ arbiter' \in Arbiters /\ sent' \in Targets /\ arbiter'.stop = arbiter.stop
        /\ client = "up" => arbiter'.active = NoSource /\ ~arbiter'.latest.moving /\ ~sent'.moving
    <2>1. CASE SendFails(closed)
      BY <1>0, <1>1, <2>1, SendFailsIs
    <2>2. CASE SendOk(closed, Zero)
      BY <1>1, <2>2, ZeroIs DEF SendOk
    <2> QED BY <1>2, <2>1, <2>2
  <1>4. ArbiterTypes' /\ RcTypes' /\ KeyTypes' /\ guiLoop'.pc = "done"
    BY <1>0, <1>2, <1>3 DEF ArbiterTypes, RcTypes, KeyTypes
  <1>5. SelectedMoves' /\ ClosingOrder' /\ KeyIsTracked' /\ ReleasedKeyStops'
    BY <1>0, <1>3, <1>4, ZeroIs DEF SelectedMoves, ClosingOrder, KeyIsTracked, ReleasedKeyStops
  <1>6. RcIsRecent'
    BY <1>0, <1>3 DEF RcIsRecent, RcMoves, SilentFor
  <1> QED BY <1>4, <1>5, <1>6 DEF SourcesInv

-----------------------------------------------------------------------------
(* Time. *)
LEMMA SourceTickKeeps == ASSUME SourcesInv, SourceTick PROVE SourcesInv'
  <1>0. /\ UNCHANGED <<arbiter, client, sent, rcGate, guiLoop>>
        /\ guiLoop.pc \in {"frame", "done"} /\ rcWorker.pc \in {"read", "exited"}
        /\ ArbiterTypes /\ RcTypes /\ KeyTypes /\ SelectedMoves /\ ClosingOrder /\ RcIsRecent
        /\ KeyIsTracked
    BY DEF SourceTick, SourcesInv
  <1>1. ArbiterTypes' /\ SelectedMoves' /\ ReleasedKeyStops'
    BY <1>0 DEF ArbiterTypes, SelectedMoves, ReleasedKeyStops
  <1>2. /\ silence' = IF silence = NoSource \/ silence > RcTimeout + 2 * ReadTime THEN silence
                      ELSE silence + 1
        /\ silence' \in Nat \cup {NoSource} /\ (silence' = NoSource <=> silence = NoSource)
    BY <1>0, SourceBounds DEF SourceTick, RcTypes
  <1>3. ASSUME rcWorker.pc = "read" PROVE RcTypes' /\ ClosingOrder' /\ RcIsRecent'
    <2>1. rcWorker' = [rcWorker EXCEPT !.inRead = @ + 1] /\ rcWorker.inRead < ReadTime
      BY <1>3 DEF SourceTick
    <2>2. /\ rcWorker'.pc = "read" /\ rcWorker'.stop = rcWorker.stop
          /\ rcWorker'.inRead = rcWorker.inRead + 1 /\ rcWorker.inRead \in Nat
      BY <1>0, <1>3, <2>1 DEF RcTypes
    <2>3. RcTypes'
      BY <1>0, <1>2, <2>1 DEF RcTypes
    <2>4. ClosingOrder'
      BY <1>0, <2>2 DEF ClosingOrder
    <2>5. ASSUME client = "up", RcMoves
          PROVE  silence' # NoSource /\ silence' < RcTimeout + ReadTime + rcWorker'.inRead
      BY <1>0, <1>2, <1>3, <2>1, <2>2, <2>5, SourceBounds DEF RcTypes, RcIsRecent, SilentFor
    <2>6. RcIsRecent'
      BY <1>0, <1>2, <2>1, <2>2, <2>5, SourceBounds DEF RcIsRecent, RcMoves, SilentFor
    <2> QED BY <2>3, <2>4, <2>6
  <1>4. ASSUME rcWorker.pc = "exited" PROVE RcTypes' /\ ClosingOrder' /\ RcIsRecent'
    <2>1. rcWorker' = rcWorker
      BY <1>4 DEF SourceTick
    <2>2. RcTypes' /\ ClosingOrder'
      BY <1>0, <1>2, <2>1 DEF RcTypes, ClosingOrder
    <2>3. RcIsRecent'
      BY <1>0, <1>2, <1>4, <2>1 DEF RcIsRecent
    <2> QED BY <2>2, <2>3
  <1>5. KeyTypes' /\ KeyIsTracked'
    <2>1. /\ tracker' = IF tracker.pending /\ tracker.since < Grace
                        THEN [tracker EXCEPT !.since = @ + 1] ELSE tracker
          /\ key' = IF ~key.down /\ key.event = "none" /\ key.quiet < Grace
                    THEN [key EXCEPT !.quiet = @ + 1] ELSE key
      BY DEF SourceTick
    <2>2. /\ tracker' \in [held : BOOLEAN, pending : BOOLEAN, since : Nat]
          /\ tracker'.held = tracker.held /\ tracker'.pending = tracker.pending
          /\ tracker'.since = IF tracker.pending /\ tracker.since < Grace THEN tracker.since + 1
                              ELSE tracker.since
      BY <1>0, <2>1 DEF KeyTypes
    <2>3. /\ key' \in Keys
          /\ key'.down = key.down /\ key'.event = key.event
          /\ key'.quiet = IF ~key.down /\ key.event = "none" /\ key.quiet < Grace
                          THEN key.quiet + 1 ELSE key.quiet
      BY <1>0, <2>1 DEF KeyTypes
    <2>4. ASSUME ~key.down, key.event = "none", tracker.held
          PROVE  tracker.pending /\ key'.quiet <= tracker'.since
      BY <1>0, <2>2, <2>3, <2>4, SourceBounds DEF KeyTypes, KeyIsTracked
    <2> QED BY <1>0, <2>2, <2>3, <2>4 DEF KeyTypes, KeyIsTracked
  <1> QED BY <1>0, <1>1, <1>3, <1>4, <1>5 DEF SourcesInv

(* What moves the robot belongs to the selected source; an RC target is    *)
(* never older than the time-out and two reads; a released key stops       *)
(* within the grace: for every time-out, read time, grace and number of    *)
(* recovery frames.                                                        *)
THEOREM TheRobotFollowsLiveInput == SourcesSpec => []OnlyLiveInputMoves
  <1>1. SourcesInv /\ [SourcesNext]_sourceVars => SourcesInv'
    <2> SUFFICES ASSUME SourcesInv, [SourcesNext]_sourceVars PROVE SourcesInv'
      OBVIOUS
    <2>1. CASE UNCHANGED sourceVars
      BY <2>1 DEF sourceVars, SourcesInv, ArbiterTypes, RcTypes, KeyTypes, SelectedMoves, ClosingOrder,
            RcIsRecent, RcMoves, SilentFor, KeyIsTracked, ReleasedKeyStops
    <2>2. CASE SourcesNext
      BY <2>2, RcBeginReadKeeps, RcReadKeeps, RcSinkKeeps, RenewOnceKeeps, ClientFailsKeeps, KeyKeeps,
         GuiFrameKeeps, GuiSelectKeeps, GuiSubmitKeeps, GuiEndsKeeps, CloseWorkerKeeps,
         StopRenewerKeeps, LastZeroKeeps, SourceTickKeeps
         DEF SourcesNext, RcStep, GuiClosing
    <2> QED BY <2>1, <2>2
  <1>2. SourcesInv => OnlyLiveInputMoves
    <2> SUFFICES ASSUME SourcesInv PROVE OnlySelectedSourceMoves /\ RcSilenceStops
      BY DEF OnlyLiveInputMoves, SourcesInv
    <2>0. ArbiterTypes /\ RcTypes /\ SelectedMoves /\ ClosingOrder /\ RcIsRecent
      BY DEF SourcesInv
    <2>1. OnlySelectedSourceMoves
      BY <2>0 DEF OnlySelectedSourceMoves, SelectedMoves, ClosingOrder
    <2>2. ASSUME client = "up", sent.moving, sent.by = "rc"
          PROVE  silence # NoSource /\ silence < RcTimeout + 2 * ReadTime
      <3>1. rcWorker.pc # "exited"
        BY <2>0, <2>2 DEF SelectedMoves, ClosingOrder
      <3> QED BY <2>0, <2>2, <3>1, SourceBounds DEF RcTypes, RcIsRecent, RcMoves, SilentFor
    <2> QED BY <2>1, <2>2 DEF RcSilenceStops
  <1> QED BY <1>1, <1>2, SourcesStart, PTL DEF SourcesSpec
-----------------------------------------------------------------------------
(* The installer.  What a release has while its setup is at step k.        *)
HasPrefix(m) == m.deps \cap {"abseil", "protobuf"} # {}
Linked(m, k) == k <= 16 /\ ((k > 2 /\ "micromamba" \in m.deps) \/ (k > 11 /\ HasPrefix(m)))
PartsAt(m, ros, k) ==
    Expected(m, ros) \cup {"index"}
    \cup (IF k > 2 /\ "micromamba" \in m.deps THEN {"runtime"} ELSE {})
    \cup (IF Linked(m, k) THEN {"links"} ELSE {})
    \cup (IF k > 9 THEN {"tools"} ELSE {})
    \cup (IF k > 9 /\ ros THEN {"bridge"} ELSE {})
    \cup (IF k > 10 /\ "ecalDeb" \in m.deps THEN {"yaml"} ELSE {})
    \cup (IF k > 11 /\ HasPrefix(m) THEN {"libs"} ELSE {})
    \cup (IF k > 12 /\ ros THEN {"bridgeLauncher"} ELSE {})
    \cup (IF k > 13 /\ "runSim" \in m.tree THEN {"bin/runSim"} ELSE {})
    \cup (IF k > 14 /\ "viewer" \in m.deps THEN {"viewerTree"} ELSE {})
    \cup (IF k > 17 THEN {"result"} ELSE {})

(* What its build tree has, as far as a later step asks for it. *)
BuildAt(b, m, k) ==
    /\ k \in 4..15 => /\ ("abseil" \in b) <=> ("abseil" \in m.deps)
                      /\ ("protobuf" \in b) <=> ("protobuf" \in m.deps)
    /\ "yaml" \in b => "ecalDeb" \in m.deps
    /\ k \in 8..15 /\ "ecalDeb" \in m.deps => {"ecal", "yaml"} \subseteq b
    /\ k <= 3 => b \subseteq {"runner"}
    /\ k <= 5 => "prefix" \notin b
    /\ k = 6 => ("prefix" \in b <=> "abseil" \in m.deps)
    /\ k \in 7..15 => ("prefix" \in b <=> HasPrefix(m))
    /\ k > 15 => b = {}

IsDir(d) ==
    /\ d = [exists |-> d.exists, files |-> d.files, build |-> d.build,
            table |-> d.table, state |-> d.state]
    /\ d.exists \in BOOLEAN

SetupAt(d, m, ros, k) ==
    /\ IsDir(d) /\ d.exists
    /\ d.files = PartsAt(m, ros, k)
    /\ BuildAt(d.build, m, k)

LEMMA NamesApart ==
  ASSUME NEW m \in RunFiles, NEW ros \in BOOLEAN
  PROVE  /\ Expected(m, ros) \cap OwnParts = {}
         /\ \A x \in ToolArchives : x \in Expected(m, ros) <=> x \in m.deps
         /\ "runSim" \in Expected(m, ros) <=> "runSim" \in m.tree
         /\ "locks" \in Expected(m, ros)
  BY ManifestsAssumption DEF RunFiles, Buildable, Expected, Payload, Deps, ToolArchives, OwnParts

LEMMA PutsIs ==
  ASSUME NEW d, IsDir(d), NEW f
  PROVE  /\ IsDir(Puts(d, f)) /\ Puts(d, f).exists = d.exists
         /\ Puts(d, f).files = d.files \cup f /\ Puts(d, f).build = d.build
  <1>1. Puts(d, f) = [exists |-> d.exists, files |-> d.files \cup f, build |-> d.build,
                      table |-> d.table, state |-> d.state]
    BY SMTT(30) DEF IsDir, Puts
  <1> QED BY <1>1 DEF IsDir

LEMMA BuildsIs ==
  ASSUME NEW d, IsDir(d), NEW b
  PROVE  /\ IsDir(Builds(d, b)) /\ Builds(d, b).exists = d.exists
         /\ Builds(d, b).files = d.files /\ Builds(d, b).build = d.build \cup b
  <1>1. Builds(d, b) = [exists |-> d.exists, files |-> d.files, build |-> d.build \cup b,
                        table |-> d.table, state |-> d.state]
    BY DEF IsDir, Builds
  <1> QED BY <1>1 DEF IsDir

LEMMA Step1 ==
  ASSUME NEW m \in RunFiles, NEW ros \in BOOLEAN, NEW d, SetupAt(d, m, ros, 1), LoadLocked(d).exists
  PROVE  SetupAt(LoadLocked(d), m, ros, 2)
  BY NamesApart, PutsIs, BuildsIs
     DEF LoadLocked, SetupAt, PartsAt, BuildAt, HasPrefix, Linked, OwnParts, ToolArchives, NoDir

LEMMA Step2 ==
  ASSUME NEW m \in RunFiles, NEW ros \in BOOLEAN, NEW d, SetupAt(d, m, ros, 2), CreateRuntime(d).exists
  PROVE  SetupAt(CreateRuntime(d), m, ros, 3)
  <1>1. /\ "micromamba" \in d.files <=> "micromamba" \in m.deps
        /\ "locks" \in d.files /\ "runtime" \notin d.files
    BY NamesApart DEF SetupAt, PartsAt, Linked, OwnParts, ToolArchives
  <1>2. CASE "micromamba" \notin m.deps
    BY <1>1, <1>2 DEF CreateRuntime, SetupAt, PartsAt, BuildAt, Linked
  <1>3. CASE "micromamba" \in m.deps
    <2>1. CreateRuntime(d) = Builds(Puts(d, {"runtime", "links"}), {"runner"})
      BY <1>1, <1>3 DEF CreateRuntime
    <2>2. /\ CreateRuntime(d).files = d.files \cup {"runtime", "links"}
          /\ CreateRuntime(d).build = d.build \cup {"runner"}
          /\ IsDir(CreateRuntime(d)) /\ CreateRuntime(d).exists
      <3> DEFINE e == Puts(d, {"runtime", "links"})
      <3>1. /\ IsDir(e) /\ e.exists = d.exists
            /\ e.files = d.files \cup {"runtime", "links"} /\ e.build = d.build
        BY PutsIs DEF SetupAt
      <3> HIDE DEF e
      <3>2. CreateRuntime(d) = Builds(e, {"runner"})
        BY <2>1 DEF e
      <3>3. /\ IsDir(Builds(e, {"runner"})) /\ Builds(e, {"runner"}).exists = e.exists
            /\ Builds(e, {"runner"}).files = e.files
            /\ Builds(e, {"runner"}).build = e.build \cup {"runner"}
        BY <3>1, BuildsIs
      <3>4. d.exists
        BY DEF SetupAt
      <3> HIDE DEF SetupAt
      <3> QED BY <3>1, <3>2, <3>3, <3>4
    <2> QED BY <1>3, <2>2 DEF SetupAt, PartsAt, BuildAt, Linked
  <1> QED BY <1>2, <1>3

LEMMA Step3 ==
  ASSUME NEW m \in RunFiles, NEW ros \in BOOLEAN, NEW d, SetupAt(d, m, ros, 3), ExtractArchives(d).exists
  PROVE  SetupAt(ExtractArchives(d), m, ros, 4)
  BY NamesApart, PutsIs, BuildsIs
     DEF ExtractArchives, SetupAt, PartsAt, BuildAt, HasPrefix, Linked, OwnParts, ToolArchives, NoDir

LEMMA Step4 ==
  ASSUME NEW m \in RunFiles, NEW ros \in BOOLEAN, NEW d, SetupAt(d, m, ros, 4), LivoxSource(d, ros).exists
  PROVE  SetupAt(LivoxSource(d, ros), m, ros, 5)
  BY NamesApart, PutsIs, BuildsIs
     DEF LivoxSource, SetupAt, PartsAt, BuildAt, HasPrefix, Linked, OwnParts, ToolArchives, NoDir

LEMMA Step5 ==
  ASSUME NEW m \in RunFiles, NEW ros \in BOOLEAN, NEW d, SetupAt(d, m, ros, 5), BuildAbseil(d).exists
  PROVE  SetupAt(BuildAbseil(d), m, ros, 6)
  BY NamesApart, PutsIs, BuildsIs
     DEF BuildAbseil, SetupAt, PartsAt, BuildAt, HasPrefix, Linked, OwnParts, ToolArchives, NoDir

LEMMA Step6 ==
  ASSUME NEW m \in RunFiles, NEW ros \in BOOLEAN, NEW d, SetupAt(d, m, ros, 6), BuildProtobuf(d).exists
  PROVE  SetupAt(BuildProtobuf(d), m, ros, 7)
  BY NamesApart, PutsIs, BuildsIs
     DEF BuildProtobuf, SetupAt, PartsAt, BuildAt, HasPrefix, Linked, OwnParts, ToolArchives, NoDir

LEMMA Step7 ==
  ASSUME NEW m \in RunFiles, NEW ros \in BOOLEAN, NEW d, SetupAt(d, m, ros, 7), InstallEcalDeb(d).exists
  PROVE  SetupAt(InstallEcalDeb(d), m, ros, 8)
  BY NamesApart, PutsIs, BuildsIs
     DEF InstallEcalDeb, SetupAt, PartsAt, BuildAt, HasPrefix, Linked, OwnParts, ToolArchives, NoDir

LEMMA Step8 ==
  ASSUME NEW m \in RunFiles, NEW ros \in BOOLEAN, NEW d, SetupAt(d, m, ros, 8), BuildEcal(d).exists
  PROVE  SetupAt(BuildEcal(d), m, ros, 9)
  BY NamesApart, PutsIs, BuildsIs
     DEF BuildEcal, SetupAt, PartsAt, BuildAt, HasPrefix, Linked, OwnParts, ToolArchives, NoDir

LEMMA Step9 ==
  ASSUME NEW m \in RunFiles, NEW ros \in BOOLEAN, NEW d, SetupAt(d, m, ros, 9), InstallTools(d, ros).exists
  PROVE  SetupAt(InstallTools(d, ros), m, ros, 10)
  BY NamesApart, PutsIs, BuildsIs
     DEF InstallTools, SetupAt, PartsAt, BuildAt, HasPrefix, Linked, OwnParts, ToolArchives, NoDir

LEMMA Step10 ==
  ASSUME NEW m \in RunFiles, NEW ros \in BOOLEAN, NEW d, SetupAt(d, m, ros, 10), InstallEcalConfig(d).exists
  PROVE  SetupAt(InstallEcalConfig(d), m, ros, 11)
  BY NamesApart, PutsIs, BuildsIs
     DEF InstallEcalConfig, SetupAt, PartsAt, BuildAt, HasPrefix, Linked, OwnParts, ToolArchives, NoDir

LEMMA Step11 ==
  ASSUME NEW m \in RunFiles, NEW ros \in BOOLEAN, NEW d, SetupAt(d, m, ros, 11), CopyLibraries(d).exists
  PROVE  SetupAt(CopyLibraries(d), m, ros, 12)
  BY NamesApart, PutsIs, BuildsIs
     DEF CopyLibraries, SetupAt, PartsAt, BuildAt, HasPrefix, Linked, OwnParts, ToolArchives, NoDir

LEMMA Step12 ==
  ASSUME NEW m \in RunFiles, NEW ros \in BOOLEAN, NEW d, SetupAt(d, m, ros, 12), InstallBridgeLauncher(d, ros).exists
  PROVE  SetupAt(InstallBridgeLauncher(d, ros), m, ros, 13)
  BY NamesApart, PutsIs, BuildsIs
     DEF InstallBridgeLauncher, SetupAt, PartsAt, BuildAt, HasPrefix, Linked, OwnParts, ToolArchives, NoDir

LEMMA Step13 ==
  ASSUME NEW m \in RunFiles, NEW ros \in BOOLEAN, NEW d, SetupAt(d, m, ros, 13), InstallRunSim(d).exists
  PROVE  SetupAt(InstallRunSim(d), m, ros, 14)
  BY NamesApart, PutsIs, BuildsIs
     DEF InstallRunSim, SetupAt, PartsAt, BuildAt, HasPrefix, Linked, OwnParts, ToolArchives, NoDir

LEMMA Step14 ==
  ASSUME NEW m \in RunFiles, NEW ros \in BOOLEAN, NEW d, SetupAt(d, m, ros, 14), InstallViewer(d).exists
  PROVE  SetupAt(InstallViewer(d), m, ros, 15)
  BY NamesApart, PutsIs, BuildsIs
     DEF InstallViewer, SetupAt, PartsAt, BuildAt, HasPrefix, Linked, OwnParts, ToolArchives, NoDir

LEMMA Step15 ==
  ASSUME NEW m \in RunFiles, NEW ros \in BOOLEAN, NEW d, SetupAt(d, m, ros, 15), RemoveBuild(d).exists
  PROVE  SetupAt(RemoveBuild(d), m, ros, 16)
  <1> DEFINE n == RemoveBuild(d)
  <1>1. n = [exists |-> d.exists, files |-> d.files, build |-> {},
             table |-> d.table, state |-> d.state]
    <2>1. IsDir(d)
      BY DEF SetupAt
    <2> QED BY <2>1 DEF RemoveBuild, IsDir
  <1>2. IsDir(n) /\ n.exists /\ n.files = d.files /\ n.build = {}
    BY <1>1 DEF SetupAt, IsDir
  <1> HIDE DEF n
  <1>3. SetupAt(n, m, ros, 16)
    BY <1>2, NamesApart DEF SetupAt, PartsAt, BuildAt, HasPrefix, Linked, OwnParts
  <1> QED BY <1>3 DEF n

LEMMA Step16 ==
  ASSUME NEW m \in RunFiles, NEW ros \in BOOLEAN, NEW d, SetupAt(d, m, ros, 16), MaterializeLinks(d).exists
  PROVE  SetupAt(MaterializeLinks(d), m, ros, 17)
  <1> DEFINE n == MaterializeLinks(d)
  <1>1. n = [exists |-> d.exists, files |-> d.files \ {"links"}, build |-> d.build,
             table |-> d.table, state |-> d.state]
    <2>1. IsDir(d)
      BY DEF SetupAt
    <2> QED BY <2>1 DEF MaterializeLinks, IsDir
  <1>2. IsDir(n) /\ n.exists /\ n.files = d.files \ {"links"} /\ n.build = d.build
    BY <1>1 DEF SetupAt, IsDir
  <1> HIDE DEF n
  <1>3. SetupAt(n, m, ros, 17)
    BY <1>2, NamesApart DEF SetupAt, PartsAt, BuildAt, HasPrefix, Linked, OwnParts
  <1> QED BY <1>3 DEF n

LEMMA Step17 ==
  ASSUME NEW m \in RunFiles, NEW ros \in BOOLEAN, NEW d, SetupAt(d, m, ros, 17), WriteResult(d).exists
  PROVE  SetupAt(WriteResult(d), m, ros, 18)
  BY NamesApart, PutsIs, BuildsIs
     DEF WriteResult, SetupAt, PartsAt, BuildAt, HasPrefix, Linked, OwnParts, ToolArchives, NoDir
LEMMA StepKeeps ==
  ASSUME NEW m \in RunFiles, NEW ros \in BOOLEAN, NEW k \in 1..17, NEW d,
         SetupAt(d, m, ros, k), Setup(SetupSteps[k], d, ros).exists
  PROVE  SetupAt(Setup(SetupSteps[k], d, ros), m, ros, k + 1)
  <1>1. k = 1 \/ k = 2 \/ k = 3 \/ k = 4 \/ k = 5 \/ k = 6 \/ k = 7 \/ k = 8 \/ k = 9 \/ k = 10
        \/ k = 11 \/ k = 12 \/ k = 13 \/ k = 14 \/ k = 15 \/ k = 16 \/ k = 17
    OBVIOUS
  <1>2. CASE k = 1
    <2>1. SetupSteps[k] = "load" /\ Setup("load", d, ros) = LoadLocked(d)
      BY <1>2 DEF SetupSteps, Setup
    <2> QED BY <1>2, <2>1, Step1
  <1>3. CASE k = 2
    <2>1. SetupSteps[k] = "runtime" /\ Setup("runtime", d, ros) = CreateRuntime(d)
      BY <1>3 DEF SetupSteps, Setup
    <2> QED BY <1>3, <2>1, Step2
  <1>4. CASE k = 3
    <2>1. SetupSteps[k] = "archives" /\ Setup("archives", d, ros) = ExtractArchives(d)
      BY <1>4 DEF SetupSteps, Setup
    <2> QED BY <1>4, <2>1, Step3
  <1>5. CASE k = 4
    <2>1. SetupSteps[k] = "livox" /\ Setup("livox", d, ros) = LivoxSource(d, ros)
      BY <1>5 DEF SetupSteps, Setup
    <2> QED BY <1>5, <2>1, Step4
  <1>6. CASE k = 5
    <2>1. SetupSteps[k] = "abseil" /\ Setup("abseil", d, ros) = BuildAbseil(d)
      BY <1>6 DEF SetupSteps, Setup
    <2> QED BY <1>6, <2>1, Step5
  <1>7. CASE k = 6
    <2>1. SetupSteps[k] = "protobuf" /\ Setup("protobuf", d, ros) = BuildProtobuf(d)
      BY <1>7 DEF SetupSteps, Setup
    <2> QED BY <1>7, <2>1, Step6
  <1>8. CASE k = 7
    <2>1. SetupSteps[k] = "ecalDeb" /\ Setup("ecalDeb", d, ros) = InstallEcalDeb(d)
      BY <1>8 DEF SetupSteps, Setup
    <2> QED BY <1>8, <2>1, Step7
  <1>9. CASE k = 8
    <2>1. SetupSteps[k] = "ecal" /\ Setup("ecal", d, ros) = BuildEcal(d)
      BY <1>9 DEF SetupSteps, Setup
    <2> QED BY <1>9, <2>1, Step8
  <1>10. CASE k = 9
    <2>1. SetupSteps[k] = "tools" /\ Setup("tools", d, ros) = InstallTools(d, ros)
      BY <1>10 DEF SetupSteps, Setup
    <2> QED BY <1>10, <2>1, Step9
  <1>11. CASE k = 10
    <2>1. SetupSteps[k] = "config" /\ Setup("config", d, ros) = InstallEcalConfig(d)
      BY <1>11 DEF SetupSteps, Setup
    <2> QED BY <1>11, <2>1, Step10
  <1>12. CASE k = 11
    <2>1. SetupSteps[k] = "libraries" /\ Setup("libraries", d, ros) = CopyLibraries(d)
      BY <1>12 DEF SetupSteps, Setup
    <2> QED BY <1>12, <2>1, Step11
  <1>13. CASE k = 12
    <2>1. SetupSteps[k] = "bridge" /\ Setup("bridge", d, ros) = InstallBridgeLauncher(d, ros)
      BY <1>13 DEF SetupSteps, Setup
    <2> QED BY <1>13, <2>1, Step12
  <1>14. CASE k = 13
    <2>1. SetupSteps[k] = "runSim" /\ Setup("runSim", d, ros) = InstallRunSim(d)
      BY <1>14 DEF SetupSteps, Setup
    <2> QED BY <1>14, <2>1, Step13
  <1>15. CASE k = 14
    <2>1. SetupSteps[k] = "viewer" /\ Setup("viewer", d, ros) = InstallViewer(d)
      BY <1>15 DEF SetupSteps, Setup
    <2> QED BY <1>15, <2>1, Step14
  <1>16. CASE k = 15
    <2>1. SetupSteps[k] = "clean" /\ Setup("clean", d, ros) = RemoveBuild(d)
      BY <1>16 DEF SetupSteps, Setup
    <2> QED BY <1>16, <2>1, Step15
  <1>17. CASE k = 16
    <2>1. SetupSteps[k] = "links" /\ Setup("links", d, ros) = MaterializeLinks(d)
      BY <1>17 DEF SetupSteps, Setup
    <2> QED BY <1>17, <2>1, Step16
  <1>18. CASE k = 17
    <2>1. SetupSteps[k] = "result" /\ Setup("result", d, ros) = WriteResult(d)
      BY <1>18 DEF SetupSteps, Setup
    <2> QED BY <1>18, <2>1, Step17
  <1> QED BY <1>1, <1>2, <1>3, <1>4, <1>5, <1>6, <1>7, <1>8, <1>9, <1>10, <1>11, <1>12, <1>13, <1>14, <1>15, <1>16, <1>17, <1>18

-----------------------------------------------------------------------------
(* The steps of an installer at which it works in its staging directory.   *)
Building == {"extract", "tools", "download", "index", "doctor", "freeze", "state", "publish"}
Holding == Building \cup {"check", "stage", "setup", "link", "activate", "command", "abort"}

Parted(d, files) == IsDir(d) /\ d.exists /\ d.files = files /\ d.build = {}

WorkIs(x, d) ==
    CASE x.pc = "extract"  -> Parted(d, {})
      [] x.pc = "tools"    -> Parted(d, Payload(x.run.tree))
      [] x.pc = "download" -> /\ Parted(d, d.files)
                              /\ Payload(x.run.tree) \subseteq d.files
                              /\ d.files \subseteq Expected(x.run, x.ros)
      [] x.pc = "index"    -> Parted(d, Expected(x.run, x.ros))
      [] x.pc = "doctor"   -> Parted(d, Expected(x.run, x.ros) \cup {"index"})
      [] x.pc = "freeze"   -> Parted(d, ReleaseParts(x.run, x.ros))
      [] x.pc = "state"    -> Parted(d, ReleaseParts(x.run, x.ros)) /\ d.table = d.files
      [] x.pc = "publish"  -> /\ Parted(d, ReleaseParts(x.run, x.ros)) /\ d.table = d.files
                              /\ d.state = Identity(x.run, x.ros) \o <<d.table>>
      [] OTHER -> TRUE

SetupIs(x, d, c) ==
    /\ c.ros = x.ros /\ x.run.setup
    /\ \/ c.exit = "none" /\ c.step # 0 /\ SetupAt(d, x.run, x.ros, c.step)
       \/ c.exit = "ok" /\ c.step = 0 /\ SetupAt(d, x.run, x.ros, 18)
       \/ c.exit = "failed" /\ c.step = 0

InstallerIs(x) ==
    /\ x = [pc |-> x.pc, run |-> x.run, ros |-> x.ros, tries |-> x.tries]
    /\ x.pc \in Holding \cup {"none", "lock"}
    /\ x.pc # "none" => x.run \in RunFiles /\ x.ros \in BOOLEAN
ChildIs(c) ==
    /\ c = [step |-> c.step, ros |-> c.ros, exit |-> c.exit]
    /\ c.step \in 0..17

RelTypes ==
    /\ inst = [p \in Pids |-> inst[p]] /\ \A p \in Pids : InstallerIs(inst[p])
    /\ staging = [w \in Places |-> staging[w]] /\ \A w \in Places : IsDir(staging[w])
    /\ child = [w \in Places |-> child[w]] /\ \A w \in Places : ChildIs(child[w])
    /\ releases = [v \in Versions |-> releases[v]] /\ \A v \in Versions : IsDir(releases[v])
    /\ current # 0 => current \in Versions

(* The results aside, a release is what its installer published. *)
Finished(d, m, ros) ==
    /\ d.files \ {"results"} = ReleaseParts(m, ros) /\ d.build = {}
    /\ d.table = ReleaseParts(m, ros) /\ d.state = Identity(m, ros) \o <<d.table>>

Released(v) == \E m \in RunFiles, ros \in BOOLEAN : m.version = v /\ Finished(releases[v], m, ros)

(* Only the holder of the lock works.  A child that outlives its installer *)
(* keeps its directory, or its version is installed already: nobody makes  *)
(* a directory of that name again.                                         *)
HolderWorks == \A p \in Pids : inst[p].pc \in Holding => lock = p
VersionOf(p) == inst[p].run.version
OrphansApart ==
    /\ \A v \in Versions, p \in Pids :
          child[<<v, p>>].step # 0 => staging[<<v, p>>].exists \/ releases[v].exists
    /\ \A p \in Pids : inst[p].pc = "stage" => ~releases[VersionOf(p)].exists
    /\ \A p \in Pids : inst[p].pc \in Building => child[Place(p)].step = 0
    /\ \A p \in Pids : inst[p].pc = "abort" =>
          child[Place(p)].step = 0 \/ releases[VersionOf(p)].exists
StagesSound == \A p \in Pids :
    /\ inst[p].pc # "none" => WorkIs(inst[p], Dir(p))
    /\ inst[p].pc = "setup" => SetupIs(inst[p], Dir(p), child[Place(p)])
ReleasesSound ==
    /\ \A v \in Versions : releases[v].exists => Released(v)
    /\ \A p \in Pids : inst[p].pc \in {"check", "link", "activate"} => releases[VersionOf(p)].exists
    /\ current # 0 => releases[current].exists

RelInv == RelTypes /\ HolderWorks /\ OrphansApart /\ StagesSound /\ ReleasesSound

LEMMA PartsDone ==
  ASSUME NEW m \in RunFiles, NEW ros \in BOOLEAN
  PROVE  /\ m.setup => PartsAt(m, ros, 18) = ReleaseParts(m, ros)
         /\ ~m.setup => Expected(m, ros) \cup {"index"} = ReleaseParts(m, ros)
         /\ "links" \notin ReleaseParts(m, ros) /\ "results" \notin ReleaseParts(m, ros)
         /\ Expected(m, ros) \subseteq ReleaseParts(m, ros)
  BY NamesApart DEF PartsAt, ReleaseParts, HasPrefix, Linked, OwnParts

LEMMA DirsApart ==
  ASSUME RelTypes, NEW p \in Pids, NEW q \in Pids,
         inst[p].pc # "none", inst[q].pc # "none"
  PROVE  /\ Place(p) \in Places /\ VersionOf(p) \in Versions
         /\ p # q => Place(p) # Place(q)
  BY DEF RelTypes, Place, Places, VersionOf, InstallerIs, RunFiles, Versions

(* A step of the holder of the lock, in its own directory. *)
LEMMA HolderKeeps ==
  ASSUME RelInv, NEW p \in Pids, inst[p].pc \in Holding,
         NEW i, NEW d, NEW c,
         inst' = [inst EXCEPT ![p] = i], InstallerIs(i), i.pc \in Holding,
         i.run = inst[p].run, i.ros = inst[p].ros,
         staging' = [staging EXCEPT ![Place(p)] = d], IsDir(d),
         child' = [child EXCEPT ![Place(p)] = c], ChildIs(c),
         UNCHANGED <<lock, releases, current>>,
         c.step # 0 => d.exists \/ releases[VersionOf(p)].exists,
         i.pc = "stage" => ~releases[VersionOf(p)].exists,
         i.pc \in Building => c.step = 0,
         i.pc = "abort" => c.step = 0 \/ releases[VersionOf(p)].exists,
         i.pc \in {"check", "link", "activate"} => releases[VersionOf(p)].exists,
         WorkIs(i, d), i.pc = "setup" => SetupIs(i, d, c)
  PROVE  RelInv'
  <1> DEFINE w == Place(p)
  <1>1. w \in Places /\ VersionOf(p) \in Versions /\ w = <<VersionOf(p), p>>
    BY DirsApart DEF RelInv, Holding, Building, Place, VersionOf
  <1>2. /\ inst'[p] = i /\ \A q \in Pids : q # p => inst'[q] = inst[q]
        /\ staging'[w] = d /\ \A x \in Places : x # w => staging'[x] = staging[x]
        /\ child'[w] = c /\ \A x \in Places : x # w => child'[x] = child[x]
    BY <1>1 DEF RelInv, RelTypes
  <1>3. \A q \in Pids : Place(q)' = Place(q) /\ VersionOf(q)' = VersionOf(q)
    BY <1>2 DEF Place, VersionOf
  <1>4. \A q \in Pids : q # p /\ inst[q].pc # "none" =>
          /\ Place(q) \in Places /\ Place(q) # w
          /\ staging'[Place(q)] = staging[Place(q)] /\ child'[Place(q)] = child[Place(q)]
    <2> TAKE q \in Pids
    <2> HAVE q # p /\ inst[q].pc # "none"
    <2>1. Place(q) \in Places /\ Place(q) # w
      BY DirsApart DEF RelInv, Holding, Building
    <2> QED BY <2>1, <1>2
  <1> HIDE DEF w
  <1>5. RelTypes'
    <2>1. inst' = [q \in Pids |-> inst'[q]]
      BY DEF RelInv, RelTypes
    <2>2. staging' = [x \in Places |-> staging'[x]] /\ child' = [x \in Places |-> child'[x]]
      BY DEF RelInv, RelTypes
    <2>3. \A q \in Pids : InstallerIs(inst'[q])
      BY <1>2 DEF RelInv, RelTypes
    <2>4. \A x \in Places : IsDir(staging'[x]) /\ ChildIs(child'[x])
      BY <1>2 DEF RelInv, RelTypes
    <2>5. releases' = [v \in Versions |-> releases'[v]] /\ \A v \in Versions : IsDir(releases'[v])
      BY DEF RelInv, RelTypes
    <2>6. current' # 0 => current' \in Versions
      BY DEF RelInv, RelTypes
    <2> QED BY <2>1, <2>2, <2>3, <2>4, <2>5, <2>6 DEF RelTypes
  <1>6. HolderWorks'
    BY <1>2 DEF RelInv, HolderWorks
  <1>7. OrphansApart'
    <2>1. \A v \in Versions, q \in Pids :
             child'[<<v, q>>].step # 0 => staging'[<<v, q>>].exists \/ releases[v].exists
      <3> TAKE v \in Versions, q \in Pids
      <3>1. <<v, q>> \in Places
        BY DEF Places
      <3>2. <<v, q>> = w => v = VersionOf(p)
        BY <1>1
      <3> QED BY <1>2, <3>1, <3>2 DEF RelInv, OrphansApart
    <2>2. \A q \in Pids : inst'[q].pc = "stage" => ~releases[VersionOf(q)].exists
      BY <1>2 DEF RelInv, OrphansApart
    <2>3. \A q \in Pids : inst'[q].pc \in Building => child'[Place(q)].step = 0
      <3> TAKE q \in Pids
      <3>1. CASE q = p
        BY <1>2, <3>1 DEF w
      <3>2. CASE q # p
        BY <1>2, <1>4, <3>2 DEF RelInv, OrphansApart, Building
      <3> QED BY <3>1, <3>2
    <2>4. \A q \in Pids : inst'[q].pc = "abort" =>
             child'[Place(q)].step = 0 \/ releases[VersionOf(q)].exists
      <3> TAKE q \in Pids
      <3>1. CASE q = p
        BY <1>2, <3>1 DEF w
      <3>2. CASE q # p
        BY <1>2, <1>4, <3>2 DEF RelInv, OrphansApart
      <3> QED BY <3>1, <3>2
    <2> QED BY <2>1, <2>2, <2>3, <2>4, <1>3 DEF OrphansApart
  <1>8. StagesSound'
    <2> SUFFICES ASSUME NEW q \in Pids
                 PROVE  /\ inst'[q].pc # "none" => WorkIs(inst'[q], staging'[Place(q)])
                        /\ inst'[q].pc = "setup" =>
                              SetupIs(inst'[q], staging'[Place(q)], child'[Place(q)])
      BY <1>3 DEF StagesSound, Dir
    <2>1. CASE q = p
      BY <1>2, <2>1 DEF w
    <2>2. CASE q # p
      BY <1>2, <1>4, <2>2 DEF RelInv, StagesSound, Dir
    <2> QED BY <2>1, <2>2
  <1>9. ReleasesSound'
    <2>1. \A v \in Versions : releases'[v].exists => Released(v)'
      BY DEF RelInv, ReleasesSound, Released
    <2>2. \A q \in Pids : inst'[q].pc \in {"check", "link", "activate"} => releases[VersionOf(q)].exists
      BY <1>2 DEF RelInv, ReleasesSound
    <2>3. current' # 0 => releases'[current'].exists
      BY DEF RelInv, ReleasesSound
    <2> QED BY <2>1, <2>2, <2>3, <1>3 DEF ReleasesSound
  <1> QED BY <1>5, <1>6, <1>7, <1>8, <1>9 DEF RelInv

LEMMA Untouched ==
  ASSUME RelTypes, NEW w \in Places
  PROVE  /\ staging = [staging EXCEPT ![w] = staging[w]] /\ child = [child EXCEPT ![w] = child[w]]
         /\ IsDir(staging[w]) /\ ChildIs(child[w])
  BY DEF RelTypes

LEMMA GoesIs ==
  ASSUME RelTypes, NEW p \in Pids, NEW to \in Holding, inst[p].pc # "none"
  PROVE  /\ [inst EXCEPT ![p].pc = to] = [inst EXCEPT ![p] = [inst[p] EXCEPT !.pc = to]]
         /\ InstallerIs([inst[p] EXCEPT !.pc = to])
         /\ [inst[p] EXCEPT !.pc = to].pc = to
         /\ [inst[p] EXCEPT !.pc = to].run = inst[p].run
         /\ [inst[p] EXCEPT !.pc = to].ros = inst[p].ros
  <1>1. InstallerIs(inst[p])
    BY DEF RelTypes
  <1>2. [inst[p] EXCEPT !.pc = to] = [pc |-> to, run |-> inst[p].run, ros |-> inst[p].ros,
                                      tries |-> inst[p].tries]
    BY <1>1 DEF InstallerIs
  <1> QED BY <1>1, <1>2 DEF InstallerIs, RelTypes

(* The steps that only go on, and those that change only the directory. *)
LEMMA MovesOn ==
  ASSUME RelInv, NEW p \in Pids, inst[p].pc \in Holding, NEW to \in Holding,
         Goes(p, to), UNCHANGED <<lock, staging, child, releases, current>>,
         to = "stage" => ~releases[VersionOf(p)].exists,
         to \in Building => child[Place(p)].step = 0,
         to = "abort" => child[Place(p)].step = 0 \/ releases[VersionOf(p)].exists,
         to \in {"check", "link", "activate"} => releases[VersionOf(p)].exists,
         WorkIs([inst[p] EXCEPT !.pc = to], Dir(p)), to # "setup"
  PROVE  RelInv'
  <1> DEFINE i == [inst[p] EXCEPT !.pc = to]
             d == staging[Place(p)]
             c == child[Place(p)]
  <1>1. inst[p].pc # "none" /\ RelTypes
    BY DEF Holding, Building, RelInv
  <1>2. /\ inst' = [inst EXCEPT ![p] = i] /\ InstallerIs(i)
        /\ i.pc = to /\ i.run = inst[p].run /\ i.ros = inst[p].ros
    BY <1>1, GoesIs DEF Goes
  <1>3. Place(p) \in Places /\ VersionOf(p) \in Versions /\ Place(p) = <<VersionOf(p), p>>
    BY <1>1, DirsApart DEF Place, VersionOf
  <1>4. /\ staging' = [staging EXCEPT ![Place(p)] = d] /\ child' = [child EXCEPT ![Place(p)] = c]
        /\ IsDir(d) /\ ChildIs(c)
    BY <1>1, <1>3, Untouched
  <1>5. c.step # 0 => d.exists \/ releases[VersionOf(p)].exists
    BY <1>3 DEF RelInv, OrphansApart
  <1>6. WorkIs(i, d)
    BY DEF Dir
  <1> HIDE DEF i, d
  <1> QED BY <1>2, <1>4, <1>5, <1>6, HolderKeeps

LEMMA Worked ==
  ASSUME RelInv, NEW p \in Pids, inst[p].pc \in Building,
         NEW to \in Building \cup {"abort"}, NEW d, Keeps(p, to, d), IsDir(d),
         WorkIs([inst[p] EXCEPT !.pc = to], d)
  PROVE  RelInv'
  <1> DEFINE i == [inst[p] EXCEPT !.pc = to]
             c == child[Place(p)]
  <1>1. inst[p].pc # "none" /\ RelTypes /\ inst[p].pc \in Holding /\ to \in Holding
    BY DEF Holding, Building, RelInv
  <1>2. /\ inst' = [inst EXCEPT ![p] = i] /\ InstallerIs(i)
        /\ i.pc = to /\ i.run = inst[p].run /\ i.ros = inst[p].ros
    BY <1>1, GoesIs DEF Goes, Keeps
  <1>3. Place(p) \in Places
    BY <1>1, DirsApart
  <1>4. /\ staging' = [staging EXCEPT ![Place(p)] = d] /\ child' = [child EXCEPT ![Place(p)] = c]
        /\ ChildIs(c) /\ UNCHANGED <<lock, releases, current>>
    BY <1>1, <1>3, Untouched DEF Keeps
  <1>5. c.step = 0
    BY DEF RelInv, OrphansApart
  <1>6. to \notin {"stage", "check", "link", "activate", "setup"}
    BY DEF Building
  <1>7. WorkIs(i, d)
    OBVIOUS
  <1> HIDE DEF i, c
  <1> QED BY <1>1, <1>2, <1>4, <1>5, <1>6, <1>7, HolderKeeps

(* The end of an installer, which may take its directory along. *)
LEMMA EndKeeps ==
  ASSUME RelInv, NEW p \in Pids, inst[p].pc # "none", Ends(p),
         NEW d, staging' = [staging EXCEPT ![Place(p)] = d], IsDir(d),
         child[Place(p)].step # 0 => d.exists \/ releases[VersionOf(p)].exists,
         UNCHANGED <<child, releases, current>>
  PROVE  RelInv'
  <1> DEFINE w == Place(p)
  <1>1. w \in Places /\ VersionOf(p) \in Versions /\ w = <<VersionOf(p), p>>
    BY DirsApart DEF RelInv, Place, VersionOf
  <1>2. /\ inst'[p] = Idle /\ \A q \in Pids : q # p => inst'[q] = inst[q]
        /\ staging'[w] = d /\ \A x \in Places : x # w => staging'[x] = staging[x]
    BY <1>1 DEF RelInv, RelTypes, Ends
  <1>3. Idle.pc = "none"
    BY DEF Idle
  <1>4. \A q \in Pids : q # p => /\ Place(q)' = Place(q) /\ VersionOf(q)' = VersionOf(q)
                                 /\ inst[q].pc # "none" => staging'[Place(q)] = staging[Place(q)]
    <2> SUFFICES ASSUME NEW q \in Pids, q # p
                 PROVE  /\ Place(q)' = Place(q) /\ VersionOf(q)' = VersionOf(q)
                        /\ inst[q].pc # "none" => staging'[Place(q)] = staging[Place(q)]
      OBVIOUS
    <2>1. Place(q)' = Place(q) /\ VersionOf(q)' = VersionOf(q)
      BY <1>2 DEF Place, VersionOf
    <2>2. inst[q].pc # "none" => Place(q) \in Places /\ Place(q) # w
      BY DirsApart DEF RelInv
    <2> QED BY <2>1, <2>2, <1>2
  <1> HIDE DEF w
  <1>5. RelTypes'
    <2>1. InstallerIs(Idle)
      BY DEF InstallerIs, Idle
    <2>2. inst' = [q \in Pids |-> inst'[q]] /\ \A q \in Pids : InstallerIs(inst'[q])
      BY <1>2, <2>1 DEF RelInv, RelTypes, Ends
    <2>3. staging' = [x \in Places |-> staging'[x]] /\ \A x \in Places : IsDir(staging'[x])
      BY <1>2 DEF RelInv, RelTypes
    <2> QED BY <2>2, <2>3 DEF RelTypes, RelInv
  <1>6. HolderWorks'
    BY <1>2, <1>3 DEF RelInv, HolderWorks, Ends, Holding, Building
  <1>7. OrphansApart'
    <2>1. \A v \in Versions, q \in Pids :
             child[<<v, q>>].step # 0 => staging'[<<v, q>>].exists \/ releases[v].exists
      <3> TAKE v \in Versions, q \in Pids
      <3>1. <<v, q>> \in Places
        BY DEF Places
      <3>2. <<v, q>> = w => v = VersionOf(p)
        BY <1>1
      <3> QED BY <1>2, <3>1, <3>2 DEF RelInv, OrphansApart, w
    <2>2. \A q \in Pids : inst'[q].pc = "stage" => ~releases[VersionOf(q)'].exists
      BY <1>2, <1>3, <1>4 DEF RelInv, OrphansApart
    <2>3. \A q \in Pids : inst'[q].pc \in Building => child[Place(q)'].step = 0
      BY <1>2, <1>3, <1>4 DEF RelInv, OrphansApart, Building
    <2>4. \A q \in Pids : inst'[q].pc = "abort" =>
             child[Place(q)'].step = 0 \/ releases[VersionOf(q)'].exists
      BY <1>2, <1>3, <1>4 DEF RelInv, OrphansApart
    <2> QED BY <2>1, <2>2, <2>3, <2>4 DEF OrphansApart
  <1>8. StagesSound'
    <2> SUFFICES ASSUME NEW q \in Pids
                 PROVE  /\ inst'[q].pc # "none" => WorkIs(inst'[q], staging'[Place(q)'])
                        /\ inst'[q].pc = "setup" =>
                              SetupIs(inst'[q], staging'[Place(q)'], child[Place(q)'])
      BY DEF StagesSound, Dir
    <2>1. CASE q = p
      BY <1>2, <1>3, <2>1
    <2>2. CASE q # p
      BY <1>2, <1>4, <2>2 DEF RelInv, StagesSound, Dir
    <2> QED BY <2>1, <2>2
  <1>9. ReleasesSound'
    <2>1. \A v \in Versions : releases'[v].exists => Released(v)'
      BY DEF RelInv, ReleasesSound, Released
    <2>2. \A q \in Pids : inst'[q].pc \in {"check", "link", "activate"} => releases[VersionOf(q)'].exists
      BY <1>2, <1>3, <1>4 DEF RelInv, ReleasesSound
    <2>3. current' # 0 => releases'[current'].exists
      BY DEF RelInv, ReleasesSound
    <2> QED BY <2>1, <2>2, <2>3 DEF ReleasesSound
  <1> QED BY <1>5, <1>6, <1>7, <1>8, <1>9 DEF RelInv

LEMMA EndsAlone ==
  ASSUME RelInv, NEW p \in Pids, inst[p].pc # "none", Ends(p),
         UNCHANGED <<staging, child, releases, current>>
  PROVE  RelInv'
  <1> DEFINE d == staging[Place(p)]
  <1>1. Place(p) \in Places /\ VersionOf(p) \in Versions /\ Place(p) = <<VersionOf(p), p>>
    BY DirsApart DEF RelInv, Place, VersionOf
  <1>2. staging' = [staging EXCEPT ![Place(p)] = d] /\ IsDir(d)
    BY <1>1, Untouched DEF RelInv
  <1>3. child[Place(p)].step # 0 => d.exists \/ releases[VersionOf(p)].exists
    BY <1>1 DEF RelInv, OrphansApart
  <1> HIDE DEF d
  <1> QED BY <1>2, <1>3, EndKeeps

(* A record that only goes on to another step. *)
LEMMA AtNext ==
  ASSUME RelTypes, NEW p \in Pids, NEW to \in Holding, inst[p].pc # "none", NEW d
  PROVE  /\ to \notin Building => WorkIs([inst[p] EXCEPT !.pc = to], d)
         /\ to = "extract" => (WorkIs([inst[p] EXCEPT !.pc = to], d) <=> Parted(d, {}))
         /\ to = "tools" => (WorkIs([inst[p] EXCEPT !.pc = to], d) <=> Parted(d, Payload(inst[p].run.tree)))
         /\ to = "download" => (WorkIs([inst[p] EXCEPT !.pc = to], d) <=>
               /\ Parted(d, d.files) /\ Payload(inst[p].run.tree) \subseteq d.files
               /\ d.files \subseteq Expected(inst[p].run, inst[p].ros))
         /\ to = "index" => (WorkIs([inst[p] EXCEPT !.pc = to], d) <=>
               Parted(d, Expected(inst[p].run, inst[p].ros)))
         /\ to = "doctor" => (WorkIs([inst[p] EXCEPT !.pc = to], d) <=>
               Parted(d, Expected(inst[p].run, inst[p].ros) \cup {"index"}))
         /\ to = "freeze" => (WorkIs([inst[p] EXCEPT !.pc = to], d) <=>
               Parted(d, ReleaseParts(inst[p].run, inst[p].ros)))
         /\ to = "state" => (WorkIs([inst[p] EXCEPT !.pc = to], d) <=>
               Parted(d, ReleaseParts(inst[p].run, inst[p].ros)) /\ d.table = d.files)
         /\ to = "publish" => (WorkIs([inst[p] EXCEPT !.pc = to], d) <=>
               /\ Parted(d, ReleaseParts(inst[p].run, inst[p].ros)) /\ d.table = d.files
               /\ d.state = Identity(inst[p].run, inst[p].ros) \o <<d.table>>)
  <1> DEFINE i == [inst[p] EXCEPT !.pc = to]
  <1>1. i.pc = to /\ i.run = inst[p].run /\ i.ros = inst[p].ros
    BY GoesIs
  <1> HIDE DEF i
  <1>2. to \notin Building => WorkIs(i, d)
    BY <1>1 DEF WorkIs, Building
  <1>3. /\ to = "extract" => (WorkIs(i, d) <=> Parted(d, {}))
        /\ to = "tools" => (WorkIs(i, d) <=> Parted(d, Payload(inst[p].run.tree)))
        /\ to = "download" => (WorkIs(i, d) <=>
               /\ Parted(d, d.files) /\ Payload(inst[p].run.tree) \subseteq d.files
               /\ d.files \subseteq Expected(inst[p].run, inst[p].ros))
        /\ to = "index" => (WorkIs(i, d) <=> Parted(d, Expected(inst[p].run, inst[p].ros)))
    BY <1>1 DEF WorkIs
  <1>4. /\ to = "doctor" => (WorkIs(i, d) <=> Parted(d, Expected(inst[p].run, inst[p].ros) \cup {"index"}))
        /\ to = "freeze" => (WorkIs(i, d) <=> Parted(d, ReleaseParts(inst[p].run, inst[p].ros)))
        /\ to = "state" => (WorkIs(i, d) <=>
               Parted(d, ReleaseParts(inst[p].run, inst[p].ros)) /\ d.table = d.files)
        /\ to = "publish" => (WorkIs(i, d) <=>
               /\ Parted(d, ReleaseParts(inst[p].run, inst[p].ros)) /\ d.table = d.files
               /\ d.state = Identity(inst[p].run, inst[p].ros) \o <<d.table>>)
    BY <1>1 DEF WorkIs
  <1> QED BY <1>2, <1>3, <1>4 DEF i

(* What the invariant says of an installer at work. *)
LEMMA AtWork ==
  ASSUME RelInv, NEW p \in Pids, inst[p].pc \in Holding
  PROVE  /\ inst[p].run \in RunFiles /\ inst[p].ros \in BOOLEAN
         /\ inst[p].pc # "none" /\ RelTypes /\ lock = p
         /\ Place(p) \in Places /\ VersionOf(p) \in Versions /\ Place(p) = <<VersionOf(p), p>>
         /\ WorkIs(inst[p], Dir(p)) /\ IsDir(Dir(p))
         /\ inst[p].pc \in Building => child[Place(p)].step = 0
  <1>1. inst[p].pc # "none" /\ RelTypes
    BY DEF Holding, Building, RelInv
  <1>2. inst[p].run \in RunFiles /\ inst[p].ros \in BOOLEAN /\ lock = p
    BY <1>1 DEF RelInv, RelTypes, InstallerIs, HolderWorks
  <1>3. Place(p) \in Places /\ VersionOf(p) \in Versions /\ Place(p) = <<VersionOf(p), p>>
    BY <1>1, DirsApart DEF Place, VersionOf
  <1>4. WorkIs(inst[p], Dir(p)) /\ IsDir(Dir(p))
    BY <1>1, <1>3 DEF RelInv, StagesSound, RelTypes, Dir
  <1>5. inst[p].pc \in Building => child[Place(p)].step = 0
    BY DEF RelInv, OrphansApart
  <1> QED BY <1>1, <1>2, <1>3, <1>4, <1>5

LEMMA StartKeeps ==
  ASSUME RelInv, NEW p \in Pids, NEW m \in RunFiles, NEW ros \in BOOLEAN, Start(p, m, ros)
  PROVE  RelInv'
  <1> DEFINE i == [pc |-> "lock", run |-> m, ros |-> ros, tries |-> 0]
  <1>1. inst' = [inst EXCEPT ![p] = i] /\ UNCHANGED <<lock, staging, child, releases, current>>
    BY DEF Start
  <1>2. i.pc = "lock" /\ InstallerIs(i) /\ \A d : WorkIs(i, d)
    BY DEF InstallerIs, WorkIs
  <1>3. inst'[p] = i /\ \A q \in Pids : q # p => inst'[q] = inst[q]
    BY <1>1 DEF RelInv, RelTypes
  <1>4. \A q \in Pids : q # p => Place(q)' = Place(q) /\ VersionOf(q)' = VersionOf(q)
    BY <1>3 DEF Place, VersionOf
  <1> HIDE DEF i
  <1>5. inst' = [q \in Pids |-> inst'[q]] /\ \A q \in Pids : InstallerIs(inst'[q])
    BY <1>1, <1>2, <1>3 DEF RelInv, RelTypes
  <1>6. RelTypes'
    BY <1>1, <1>5 DEF RelInv, RelTypes
  <1>7. HolderWorks'
    BY <1>1, <1>2, <1>3 DEF RelInv, HolderWorks, Holding, Building
  <1>8. OrphansApart'
    <2>1. \A v \in Versions, q \in Pids :
             child'[<<v, q>>].step # 0 => staging'[<<v, q>>].exists \/ releases'[v].exists
      BY <1>1 DEF RelInv, OrphansApart
    <2>2. \A q \in Pids : inst'[q].pc = "stage" => ~releases'[VersionOf(q)'].exists
      BY <1>1, <1>2, <1>3, <1>4 DEF RelInv, OrphansApart
    <2>3. \A q \in Pids : inst'[q].pc \in Building => child'[Place(q)'].step = 0
      BY <1>1, <1>2, <1>3, <1>4 DEF RelInv, OrphansApart, Building
    <2>4. \A q \in Pids : inst'[q].pc = "abort" =>
             child'[Place(q)'].step = 0 \/ releases'[VersionOf(q)'].exists
      BY <1>1, <1>2, <1>3, <1>4 DEF RelInv, OrphansApart
    <2> QED BY <2>1, <2>2, <2>3, <2>4 DEF OrphansApart
  <1>9. StagesSound'
    <2> SUFFICES ASSUME NEW q \in Pids
                 PROVE  /\ inst'[q].pc # "none" => WorkIs(inst'[q], staging'[Place(q)'])
                        /\ inst'[q].pc = "setup" =>
                              SetupIs(inst'[q], staging'[Place(q)'], child'[Place(q)'])
      BY DEF StagesSound, Dir
    <2>1. CASE q = p
      BY <1>2, <1>3, <2>1
    <2>2. CASE q # p
      BY <1>1, <1>3, <1>4, <2>2 DEF RelInv, StagesSound, Dir
    <2> QED BY <2>1, <2>2
  <1>10. ReleasesSound'
    <2>1. \A v \in Versions : releases'[v].exists => Released(v)'
      BY <1>1 DEF RelInv, ReleasesSound, Released
    <2>2. \A q \in Pids : inst'[q].pc \in {"check", "link", "activate"} => releases'[VersionOf(q)'].exists
      BY <1>1, <1>2, <1>3, <1>4 DEF RelInv, ReleasesSound
    <2>3. current' # 0 => releases'[current'].exists
      BY <1>1 DEF RelInv, ReleasesSound
    <2> QED BY <2>1, <2>2, <2>3 DEF ReleasesSound
  <1> QED BY <1>6, <1>7, <1>8, <1>9, <1>10 DEF RelInv

LEMMA ExtractKeeps ==
  ASSUME RelInv, NEW p \in Pids, ExtractPayload(p)
  PROVE  RelInv'
  <1> DEFINE d == Puts(Dir(p), Payload(inst[p].run.tree))
  <1>1. inst[p].pc = "extract" /\ Keeps(p, "tools", d)
    BY DEF ExtractPayload, At
  <1>2. inst[p].pc \in Building /\ inst[p].pc \in Holding
    BY <1>1 DEF Building, Holding
  <1>3. Parted(Dir(p), {})
    BY <1>1, <1>2, AtWork DEF WorkIs
  <1>4. IsDir(d) /\ d.exists /\ d.files = Payload(inst[p].run.tree) /\ d.build = {}
    <2>1. IsDir(Dir(p)) /\ Dir(p).exists /\ Dir(p).files = {} /\ Dir(p).build = {}
      BY <1>3 DEF Parted
    <2>2. IsDir(d) /\ d.exists = Dir(p).exists
      BY <2>1, PutsIs
    <2>3. d.files = Dir(p).files \cup Payload(inst[p].run.tree) /\ d.build = Dir(p).build
      BY <2>1, PutsIs
    <2> QED BY <2>1, <2>2, <2>3
  <1> HIDE DEF d
  <1>5. WorkIs([inst[p] EXCEPT !.pc = "tools"], d)
    <2>1. Parted(d, Payload(inst[p].run.tree))
      BY <1>3, <1>4 DEF Parted
    <2>2. "tools" \in Holding /\ inst[p].pc # "none" /\ RelTypes
      BY <1>2, AtWork DEF Holding, Building
    <2> QED BY <2>1, <2>2, AtNext
  <1> QED BY <1>1, <1>2, <1>4, <1>5, Worked DEF Building

LEMMA BootstrapToolsKeeps ==
  ASSUME RelInv, NEW p \in Pids, NEW ok \in BOOLEAN, BootstrapTools(p, ok)
  PROVE  RelInv'
  <1> DEFINE d == Dir(p)
             m == inst[p].run
             to == IF ok /\ "locks" \in Dir(p).files THEN "download" ELSE "abort"
  <1>1. inst[p].pc = "tools" /\ Keeps(p, to, d)
    BY DEF BootstrapTools, At
  <1>2. inst[p].pc \in Building /\ inst[p].pc \in Holding
    BY <1>1 DEF Building, Holding
  <1>3. Parted(d, Payload(m.tree))
    BY <1>1, <1>2, AtWork DEF WorkIs
  <1>4. to \in {"download", "abort"}
    OBVIOUS
  <1> HIDE DEF to, d
  <1>5. WorkIs([inst[p] EXCEPT !.pc = to], d)
    <2>1. CASE to = "download"
      <3>1. /\ Parted(d, d.files) /\ Payload(inst[p].run.tree) \subseteq d.files
            /\ d.files \subseteq Expected(inst[p].run, inst[p].ros)
        BY <1>3 DEF Parted, Expected
      <3>2. to \in Holding /\ inst[p].pc # "none" /\ RelTypes
        BY <1>2, <2>1, AtWork DEF Holding, Building
      <3> QED BY <2>1, <3>1, <3>2, AtNext
    <2>2. CASE to = "abort"
      BY <1>2, <2>2, AtWork, AtNext DEF Holding, Building
    <2> QED BY <1>4, <2>1, <2>2
  <1>6. to \in Building \cup {"abort"} /\ IsDir(d)
    BY <1>3, <1>4 DEF Building, Parted
  <1> QED BY <1>1, <1>2, <1>5, <1>6, Worked

LEMMA BootstrapRosKeeps ==
  ASSUME RelInv, NEW p \in Pids, NEW ok \in BOOLEAN, BootstrapRos(p, ok)
  PROVE  RelInv'
  <1> DEFINE d == Dir(p)
             m == inst[p].run
             to == IF (inst[p].ros /\ "rosSource" \in Dir(p).files) /\ ~ok THEN "abort" ELSE "index"
  <1>1. inst[p].pc = "download" /\ Missing(p) = {} /\ Keeps(p, to, d)
    BY DEF BootstrapRos, At
  <1>2. inst[p].pc \in Building /\ inst[p].pc \in Holding
    BY <1>1 DEF Building, Holding
  <1>3. /\ Parted(d, d.files) /\ Payload(m.tree) \subseteq d.files
        /\ d.files \subseteq Expected(m, inst[p].ros)
    BY <1>1, <1>2, AtWork DEF WorkIs
  <1>4. to \in {"index", "abort"}
    OBVIOUS
  <1>7. d.files = Expected(m, inst[p].ros)
    BY <1>1, <1>3 DEF Missing, Expected
  <1> HIDE DEF to, d
  <1>5. WorkIs([inst[p] EXCEPT !.pc = to], d)
    <2>1. CASE to = "index"
      <3>1. Parted(d, Expected(inst[p].run, inst[p].ros))
        BY <1>3, <1>7 DEF Parted
      <3>2. to \in Holding /\ inst[p].pc # "none" /\ RelTypes
        BY <1>2, <2>1, AtWork DEF Holding, Building
      <3> QED BY <2>1, <3>1, <3>2, AtNext
    <2>2. CASE to = "abort"
      BY <1>2, <2>2, AtWork, AtNext DEF Holding, Building
    <2> QED BY <1>4, <2>1, <2>2
  <1>6. to \in Building \cup {"abort"} /\ IsDir(d)
    BY <1>3, <1>4 DEF Building, Parted
  <1> QED BY <1>1, <1>2, <1>5, <1>6, Worked

LEMMA WriteIndexKeeps ==
  ASSUME RelInv, NEW p \in Pids, WriteIndex(p)
  PROVE  RelInv'
  <1> DEFINE d == Puts(Dir(p), {"index"})
  <1>1. inst[p].pc = "index" /\ Keeps(p, "doctor", d)
    BY DEF WriteIndex, At
  <1>2. inst[p].pc \in Building /\ inst[p].pc \in Holding
    BY <1>1 DEF Building, Holding
  <1>3. Parted(Dir(p), Expected(inst[p].run, inst[p].ros))
    BY <1>1, <1>2, AtWork DEF WorkIs
  <1>4. /\ IsDir(d) /\ d.exists /\ d.build = {}
        /\ d.files = Expected(inst[p].run, inst[p].ros) \cup {"index"}
    BY <1>3, PutsIs DEF Parted
  <1> HIDE DEF d
  <1>5. WorkIs([inst[p] EXCEPT !.pc = "doctor"], d)
    <2>1. Parted(d, Expected(inst[p].run, inst[p].ros) \cup {"index"})
      BY <1>3, <1>4 DEF Parted
    <2>2. "doctor" \in Holding /\ inst[p].pc # "none" /\ RelTypes
      BY <1>2, AtWork DEF Holding, Building
    <2> QED BY <2>1, <2>2, AtNext
  <1> QED BY <1>1, <1>2, <1>4, <1>5, Worked DEF Building

LEMMA FreezeKeeps ==
  ASSUME RelInv, NEW p \in Pids, Freeze(p)
  PROVE  RelInv'
  <1> DEFINE o == Dir(p)
             d == [o EXCEPT !.table = ReleaseFiles(o)]
             parts == ReleaseParts(inst[p].run, inst[p].ros)
  <1>1. inst[p].pc = "freeze"
    BY DEF Freeze, At
  <1>2. inst[p].pc \in Building /\ inst[p].pc \in Holding
    BY <1>1 DEF Building, Holding
  <1>3. Parted(o, parts)
    BY <1>1, <1>2, AtWork DEF WorkIs
  <1>4. "links" \notin o.files
    BY <1>2, <1>3, AtWork, PartsDone DEF Parted
  <1>5. Keeps(p, "state", d)
    BY <1>4 DEF Freeze
  <1> HIDE DEF o
  <1>6. d = [exists |-> o.exists, files |-> o.files, build |-> o.build,
             table |-> ReleaseFiles(o), state |-> o.state]
    <2>1. IsDir(o)
      BY <1>3 DEF Parted
    <2> QED BY <2>1 DEF IsDir
  <1>7. IsDir(d) /\ d.exists /\ d.files = parts /\ d.build = {} /\ d.table = d.files
    BY <1>3, <1>6 DEF Parted, IsDir, ReleaseFiles
  <1> HIDE DEF d
  <1>8. WorkIs([inst[p] EXCEPT !.pc = "state"], d)
    <2>1. Parted(d, parts) /\ d.table = d.files
      BY <1>7 DEF Parted
    <2>2. "state" \in Holding /\ inst[p].pc # "none" /\ RelTypes
      BY <1>2, AtWork DEF Holding, Building
    <2> HIDE DEF parts
    <2> QED BY <2>1, <2>2, AtNext DEF parts
  <1> QED BY <1>2, <1>5, <1>7, <1>8, Worked DEF Building

LEMMA WriteStateKeeps ==
  ASSUME RelInv, NEW p \in Pids, WriteState(p)
  PROVE  RelInv'
  <1> DEFINE o == Dir(p)
             s == Identity(inst[p].run, inst[p].ros) \o <<o.table>>
             d == [o EXCEPT !.state = s]
             parts == ReleaseParts(inst[p].run, inst[p].ros)
  <1>1. inst[p].pc = "state" /\ Keeps(p, "publish", d)
    BY DEF WriteState, At
  <1>2. inst[p].pc \in Building /\ inst[p].pc \in Holding
    BY <1>1 DEF Building, Holding
  <1>3. Parted(o, parts) /\ o.table = o.files
    BY <1>1, <1>2, AtWork DEF WorkIs
  <1>4. s = Identity(inst[p].run, inst[p].ros) \o <<o.table>>
    OBVIOUS
  <1> HIDE DEF o, s
  <1>6. d = [exists |-> o.exists, files |-> o.files, build |-> o.build,
             table |-> o.table, state |-> s]
    <2>1. IsDir(o)
      BY <1>3 DEF Parted
    <2> QED BY <2>1 DEF IsDir
  <1>7. /\ IsDir(d) /\ d.exists /\ d.files = parts /\ d.build = {} /\ d.table = d.files
        /\ d.state = s /\ d.table = o.table
    BY <1>3, <1>6 DEF Parted, IsDir
  <1> HIDE DEF d
  <1>8. d.state = Identity(inst[p].run, inst[p].ros) \o <<d.table>>
    BY <1>4, <1>7
  <1>9. WorkIs([inst[p] EXCEPT !.pc = "publish"], d)
    <2>1. Parted(d, parts) /\ d.table = d.files
      BY <1>7 DEF Parted
    <2>2. "publish" \in Holding
      BY DEF Holding, Building
    <2>3. inst[p].pc # "none" /\ RelTypes
      BY <1>2, AtWork
    <2> HIDE DEF parts
    <2> QED BY <1>8, <2>1, <2>2, <2>3, AtNext DEF parts
  <1> QED BY <1>1, <1>2, <1>7, <1>9, Worked DEF Building

LEMMA TwoFields ==
  ASSUME NEW x, NEW k, NEW to, InstallerIs(x)
  PROVE [x EXCEPT !.tries = k, !.pc = to] = [pc |-> to, run |-> x.run, ros |-> x.ros, tries |-> k]
  <1> DEFINE y == [x EXCEPT !.tries = k]
  <1>1. x = [pc |-> x.pc, run |-> x.run, ros |-> x.ros, tries |-> x.tries]
    BY DEF InstallerIs
  <1>2. y = [pc |-> x.pc, run |-> x.run, ros |-> x.ros, tries |-> k]
    BY <1>1
  <1>3. [x EXCEPT !.tries = k, !.pc = to] = [y EXCEPT !.pc = to]
    OBVIOUS
  <1> HIDE DEF y
  <1> QED BY <1>2, <1>3

LEMMA DownloadKeeps ==
  ASSUME RelInv, NEW p \in Pids, NEW outcome \in {"good", "broken", "wrong"}, Download(p, outcome)
  PROVE  RelInv'
  <1> DEFINE w == Place(p)
             x == CHOOSE f \in Missing(p) : TRUE
             more == inst[p].tries + 1
             o == Dir(p)
             m == inst[p].run
             ros == inst[p].ros
  <1>1. inst[p].pc = "download" /\ Missing(p) # {}
    BY DEF Download, At
  <1>2. inst[p].pc \in Building /\ inst[p].pc \in Holding
    BY <1>1 DEF Building, Holding
  <1>3. /\ Parted(o, o.files) /\ Payload(m.tree) \subseteq o.files
        /\ o.files \subseteq Expected(m, ros)
    BY <1>1, <1>2, AtWork DEF WorkIs
  <1>4. /\ w \in Places /\ RelTypes /\ inst[p].pc # "none" /\ child[w].step = 0
        /\ m \in RunFiles /\ ros \in BOOLEAN
    BY <1>2, AtWork
  <1>5. x \in Expected(m, ros)
    BY <1>1 DEF Missing, Expected
  <1>6. /\ IsDir(Puts(o, {x})) /\ Puts(o, {x}).exists
        /\ Puts(o, {x}).files = o.files \cup {x} /\ Puts(o, {x}).build = {}
    <2>1. IsDir(o) /\ o.exists /\ o.build = {}
      BY <1>3 DEF Parted
    <2>2. /\ IsDir(Puts(o, {x})) /\ Puts(o, {x}).exists = o.exists
          /\ Puts(o, {x}).files = o.files \cup {x} /\ Puts(o, {x}).build = o.build
      BY <2>1, PutsIs
    <2> QED BY <2>1, <2>2
  <1>7. UNCHANGED <<lock, child, releases, current>> /\ child' = [child EXCEPT ![w] = child[w]]
    BY <1>4, Untouched DEF Download
  <1>8. \A k : InstallerIs([inst[p] EXCEPT !.tries = k])
        /\ [inst[p] EXCEPT !.tries = k].pc = inst[p].pc
        /\ [inst[p] EXCEPT !.tries = k].run = m /\ [inst[p] EXCEPT !.tries = k].ros = ros
    <2> TAKE k
    <2>1. InstallerIs(inst[p])
      BY <1>4 DEF RelTypes
    <2>2. [inst[p] EXCEPT !.tries = k] = [pc |-> inst[p].pc, run |-> inst[p].run,
                                          ros |-> inst[p].ros, tries |-> k]
      BY <2>1 DEF InstallerIs
    <2> QED BY <2>1, <2>2 DEF InstallerIs
  <1>9. \A k : InstallerIs([inst[p] EXCEPT !.tries = k, !.pc = "abort"])
        /\ [inst[p] EXCEPT !.tries = k, !.pc = "abort"].pc = "abort"
        /\ [inst[p] EXCEPT !.tries = k, !.pc = "abort"].run = m
        /\ [inst[p] EXCEPT !.tries = k, !.pc = "abort"].ros = ros
    <2> TAKE k
    <2>1. InstallerIs(inst[p])
      BY <1>4 DEF RelTypes
    <2>2. [inst[p] EXCEPT !.tries = k, !.pc = "abort"] =
             [pc |-> "abort", run |-> inst[p].run, ros |-> inst[p].ros, tries |-> k]
      BY <2>1, TwoFields
    <2>3. "abort" \in Holding
      BY DEF Holding
    <2>4. inst[p].run \in RunFiles /\ inst[p].ros \in BOOLEAN
      BY <1>4
    <2> DEFINE y == [inst[p] EXCEPT !.tries = k, !.pc = "abort"]
    <2>5. /\ y = [pc |-> y.pc, run |-> y.run, ros |-> y.ros, tries |-> y.tries]
          /\ y.pc = "abort" /\ y.run = inst[p].run /\ y.ros = inst[p].ros
      <3> HIDE DEF y
      <3> QED BY <2>2 DEF y
    <2> HIDE DEF y
    <2>6. InstallerIs(y)
      BY <2>3, <2>4, <2>5 DEF InstallerIs
    <2> QED BY <2>5, <2>6 DEF y
  <1>10. \E i, d :
           /\ inst' = [inst EXCEPT ![p] = i] /\ InstallerIs(i)
           /\ i.pc \in {"download", "abort"} /\ i.run = m /\ i.ros = ros
           /\ staging' = [staging EXCEPT ![w] = d] /\ IsDir(d)
           /\ Parted(d, d.files) /\ Payload(m.tree) \subseteq d.files
           /\ d.files \subseteq Expected(m, ros)
    <2>1. CASE outcome = "good"
      <3> DEFINE i == [inst[p] EXCEPT !.tries = 0]
                 d == Puts(o, {x})
      <3>1. inst' = [inst EXCEPT ![p] = i]
        BY <1>4, <2>1 DEF Download, RelTypes
      <3>2. staging' = [staging EXCEPT ![w] = d]
        BY <2>1, <1>4 DEF Download, RelTypes, Dir
      <3>3. InstallerIs(i) /\ i.pc = "download" /\ i.run = m /\ i.ros = ros
        BY <1>1, <1>8
      <3>4. Parted(d, d.files) /\ Payload(m.tree) \subseteq d.files /\ d.files \subseteq Expected(m, ros)
        BY <1>3, <1>5, <1>6 DEF Parted
      <3> HIDE DEF i, d
      <3> QED BY <3>1, <3>2, <3>3, <3>4 DEF Parted
    <2>2. CASE outcome # "good"
      <3>1. staging' = [staging EXCEPT ![w] = o]
        BY <2>2, <1>4, Untouched DEF Download, Dir
      <3>2. \E k : \/ inst' = [inst EXCEPT ![p] = [inst[p] EXCEPT !.tries = k]]
                   \/ inst' = [inst EXCEPT ![p] = [inst[p] EXCEPT !.tries = k, !.pc = "abort"]]
        <4>1. CASE outcome = "wrong"
          BY <4>1, <1>4 DEF Download, RelTypes
        <4>2. CASE outcome = "broken"
          <5>1. CASE more = MaxTries
            <6>1. inst' = [inst EXCEPT ![p] = [inst[p] EXCEPT !.tries = 0, !.pc = "abort"]]
              BY <4>2, <5>1 DEF Download
            <6> QED BY <6>1
          <5>2. CASE more # MaxTries
            <6>1. inst' = [inst EXCEPT ![p] = [inst[p] EXCEPT !.tries = more]]
              BY <4>2, <5>2 DEF Download
            <6> HIDE DEF more
            <6> QED BY <6>1
          <5> QED BY <5>1, <5>2
        <4> QED BY <2>2, <4>1, <4>2
      <3>3. PICK k : \/ inst' = [inst EXCEPT ![p] = [inst[p] EXCEPT !.tries = k]]
                     \/ inst' = [inst EXCEPT ![p] = [inst[p] EXCEPT !.tries = k, !.pc = "abort"]]
        BY <3>2
      <3>4. \E i : /\ inst' = [inst EXCEPT ![p] = i] /\ InstallerIs(i)
                   /\ i.pc \in {"download", "abort"} /\ i.run = m /\ i.ros = ros
        <4>1. CASE inst' = [inst EXCEPT ![p] = [inst[p] EXCEPT !.tries = k]]
          <5> DEFINE i == [inst[p] EXCEPT !.tries = k]
          <5>1. InstallerIs(i) /\ i.pc = "download" /\ i.run = m /\ i.ros = ros
            BY <1>1, <1>8
          <5>2. inst' = [inst EXCEPT ![p] = i]
            BY <4>1
          <5> HIDE DEF i, m, ros
          <5> QED BY <5>1, <5>2
        <4>2. CASE inst' = [inst EXCEPT ![p] = [inst[p] EXCEPT !.tries = k, !.pc = "abort"]]
          <5> DEFINE i == [inst[p] EXCEPT !.tries = k, !.pc = "abort"]
          <5>1. InstallerIs(i) /\ i.pc = "abort" /\ i.run = m /\ i.ros = ros
            BY <1>9
          <5>2. inst' = [inst EXCEPT ![p] = i]
            BY <4>2
          <5> HIDE DEF i, m, ros
          <5> QED BY <5>1, <5>2
        <4> QED BY <3>3, <4>1, <4>2
      <3> HIDE DEF o, m, ros
      <3> QED BY <3>1, <3>4, <1>3 DEF Parted
    <2> QED BY <2>1, <2>2
  <1>11. PICK i, d :
           /\ inst' = [inst EXCEPT ![p] = i] /\ InstallerIs(i)
           /\ i.pc \in {"download", "abort"} /\ i.run = m /\ i.ros = ros
           /\ staging' = [staging EXCEPT ![w] = d] /\ IsDir(d)
           /\ Parted(d, d.files) /\ Payload(m.tree) \subseteq d.files
           /\ d.files \subseteq Expected(m, ros)
    BY <1>10
  <1>12. WorkIs(i, d)
    BY <1>11 DEF WorkIs
  <1>13. i.pc \in Holding /\ i.pc \notin {"stage", "check", "link", "activate", "setup"}
    BY <1>11 DEF Holding, Building
  <1>14. ChildIs(child[w])
    BY <1>4 DEF RelTypes
  <1> QED BY <1>2, <1>4, <1>7, <1>11, <1>12, <1>13, <1>14, HolderKeeps

LEMMA RunSetupKeeps ==
  ASSUME RelInv, NEW p \in Pids, RunSetup(p)
  PROVE  RelInv'
  <1> DEFINE w == Place(p)
             o == Dir(p)
             m == inst[p].run
             ros == inst[p].ros
             c == [step |-> 1, ros |-> inst[p].ros, exit |-> "none"]
             i == [inst[p] EXCEPT !.pc = "setup"]
  <1>1. inst[p].pc = "doctor" /\ UNCHANGED <<lock, staging, releases, current>>
    BY DEF RunSetup, At
  <1>2. inst[p].pc \in Building /\ inst[p].pc \in Holding
    BY <1>1 DEF Building, Holding
  <1>3. Parted(o, Expected(m, ros) \cup {"index"})
    BY <1>1, <1>2, AtWork DEF WorkIs
  <1>4. /\ w \in Places /\ RelTypes /\ inst[p].pc # "none" /\ child[w].step = 0
        /\ m \in RunFiles /\ ros \in BOOLEAN
    BY <1>2, AtWork
  <1>5. Expected(m, ros) \subseteq o.files
    BY <1>3 DEF Parted
  <1>6. CASE ~m.setup
    <2>1. Goes(p, "freeze") /\ UNCHANGED child
      BY <1>5, <1>6 DEF RunSetup
    <2>2. Parted(o, ReleaseParts(m, ros))
      BY <1>3, <1>4, <1>6, PartsDone
    <2>3. "freeze" \in Holding /\ "freeze" \in Building
      BY DEF Holding, Building
    <2>4. WorkIs([inst[p] EXCEPT !.pc = "freeze"], o)
      BY <1>4, <2>2, <2>3, AtNext
    <2> QED BY <1>1, <1>2, <1>4, <2>1, <2>3, <2>4, MovesOn
  <1>7. CASE m.setup
    <2>1. Goes(p, "setup") /\ child' = [child EXCEPT ![w] = c]
      BY <1>5, <1>7 DEF RunSetup
    <2>2. "setup" \in Holding /\ "setup" \notin Building
      BY DEF Holding, Building
    <2>3. /\ inst' = [inst EXCEPT ![p] = i] /\ InstallerIs(i)
          /\ i.pc = "setup" /\ i.run = m /\ i.ros = ros
      BY <1>4, <2>1, <2>2, GoesIs DEF Goes
    <2>4. staging' = [staging EXCEPT ![w] = o] /\ IsDir(o)
      BY <1>1, <1>4, Untouched DEF Dir
    <2>5. c.ros = ros /\ c.exit = "none" /\ c.step = 1 /\ ChildIs(c)
      BY DEF ChildIs
    <2>6. SetupAt(o, m, ros, 1)
      BY <1>3 DEF Parted, SetupAt, PartsAt, BuildAt, Linked
    <2>7. o.exists
      BY <1>3 DEF Parted
    <2> HIDE DEF i, c, o
    <2>8. WorkIs(i, o)
      BY <2>3 DEF WorkIs
    <2>9. SetupIs(i, o, c)
      BY <2>3, <2>5, <2>6, <1>7 DEF SetupIs
    <2> QED BY <1>1, <1>2, <2>1, <2>2, <2>3, <2>4, <2>5, <2>7, <2>8, <2>9, HolderKeeps
  <1> QED BY <1>6, <1>7

LEMMA WaitSetupKeeps ==
  ASSUME RelInv, NEW p \in Pids, WaitSetup(p)
  PROVE  RelInv'
  <1> DEFINE w == Place(p)
             o == Dir(p)
             m == inst[p].run
             ros == inst[p].ros
             c == [child[w] EXCEPT !.exit = "none"]
             to == IF child[w].exit = "ok" THEN "freeze" ELSE "abort"
             i == [inst[p] EXCEPT !.pc = to]
  <1>1. /\ inst[p].pc = "setup" /\ child[w].exit # "none" /\ Goes(p, to)
        /\ UNCHANGED <<lock, staging, releases, current>>
        /\ child' = [child EXCEPT ![w].exit = "none"]
    BY DEF WaitSetup, At
  <1>2. inst[p].pc \in Holding
    BY <1>1 DEF Holding
  <1>3. SetupIs(inst[p], o, child[w])
    BY <1>1 DEF RelInv, StagesSound, Dir
  <1>4. /\ w \in Places /\ RelTypes /\ inst[p].pc # "none"
        /\ m \in RunFiles /\ ros \in BOOLEAN
    BY <1>2, AtWork
  <1>5. child[w].step = 0 /\ m.setup
    BY <1>1, <1>3 DEF SetupIs
  <1>6. child' = [child EXCEPT ![w] = c] /\ ChildIs(c) /\ c.step = 0
    <2>1. ChildIs(child[w])
      BY <1>4 DEF RelTypes
    <2>2. c = [step |-> child[w].step, ros |-> child[w].ros, exit |-> "none"]
      BY <2>1 DEF ChildIs
    <2>3. child' = [child EXCEPT ![w] = c]
      BY <1>1
    <2> QED BY <1>5, <2>2, <2>3 DEF ChildIs
  <1>7. to \in {"freeze", "abort"} /\ to \in Holding
    BY DEF Holding, Building
  <1>8. to = "freeze" => Parted(o, ReleaseParts(m, ros))
    <2>1. ASSUME to = "freeze"
          PROVE  SetupAt(o, m, ros, 18)
      BY <1>1, <1>3, <2>1 DEF SetupIs
    <2>2. ASSUME SetupAt(o, m, ros, 18)
          PROVE  Parted(o, ReleaseParts(m, ros))
      BY <1>4, <1>5, <2>2, PartsDone DEF Parted, SetupAt, BuildAt
    <2> QED BY <2>1, <2>2
  <1>9. staging' = [staging EXCEPT ![w] = o] /\ IsDir(o)
    BY <1>1, <1>4, Untouched DEF Dir
  <1> HIDE DEF to, o, c
  <1>10. /\ inst' = [inst EXCEPT ![p] = i] /\ InstallerIs(i)
         /\ i.pc = to /\ i.run = m /\ i.ros = ros
    BY <1>1, <1>4, <1>7, GoesIs DEF Goes
  <1>11. WorkIs(i, o)
    BY <1>4, <1>7, <1>8, AtNext DEF Building
  <1> HIDE DEF i
  <1> QED BY <1>1, <1>2, <1>6, <1>7, <1>9, <1>10, <1>11, HolderKeeps

LEMMA TakeLockKeeps ==
  ASSUME RelInv, NEW p \in Pids, TakeLock(p)
  PROVE  RelInv'
  <1>1. inst[p].pc = "lock" /\ UNCHANGED <<staging, child, releases, current>>
    BY DEF TakeLock, At
  <1>2. CASE lock # NoPid
    BY <1>1, <1>2, EndsAlone DEF TakeLock
  <1>3. CASE lock = NoPid
    <2> DEFINE to == IF releases[VersionOf(p)].exists THEN "check" ELSE "stage"
               i == [inst[p] EXCEPT !.pc = to]
    <2>1. lock' = p /\ Goes(p, to)
      BY <1>3 DEF TakeLock, VersionOf
    <2>2. \A q \in Pids : inst[q].pc \notin Holding
      BY <1>3, NoPidAssumption DEF RelInv, HolderWorks
    <2>3. /\ to \in Holding /\ to \notin Building \cup {"abort", "link", "activate", "setup"}
          /\ to = "stage" => ~releases[VersionOf(p)].exists
          /\ to = "check" => releases[VersionOf(p)].exists
      BY DEF Holding, Building
    <2>4. RelTypes /\ inst[p].pc # "none"
      BY <1>1 DEF RelInv
    <2>5. /\ inst' = [inst EXCEPT ![p] = i] /\ InstallerIs(i)
          /\ i.pc = to /\ i.run = inst[p].run /\ i.ros = inst[p].ros
      BY <2>1, <2>3, <2>4, GoesIs DEF Goes
    <2> HIDE DEF to, i
    <2>6. inst'[p] = i /\ \A q \in Pids : q # p => inst'[q] = inst[q]
      BY <2>4, <2>5 DEF RelTypes
    <2>7. \A q \in Pids : Place(q)' = Place(q) /\ VersionOf(q)' = VersionOf(q)
      BY <2>5, <2>6 DEF Place, VersionOf
    <2>8. RelTypes'
      <3>1. inst' = [q \in Pids |-> inst'[q]] /\ \A q \in Pids : InstallerIs(inst'[q])
        BY <2>4, <2>5, <2>6 DEF RelTypes
      <3> QED BY <1>1, <2>4, <3>1 DEF RelTypes
    <2>9. HolderWorks'
      BY <2>1, <2>2, <2>6 DEF HolderWorks
    <2>10. OrphansApart'
      <3>1. \A v \in Versions, q \in Pids :
               child'[<<v, q>>].step # 0 => staging'[<<v, q>>].exists \/ releases'[v].exists
        BY <1>1 DEF RelInv, OrphansApart
      <3>2. \A q \in Pids : inst'[q].pc = "stage" => ~releases'[VersionOf(q)'].exists
        BY <1>1, <2>3, <2>5, <2>6, <2>7 DEF RelInv, OrphansApart
      <3>3. \A q \in Pids : inst'[q].pc \in Building => child'[Place(q)'].step = 0
        BY <1>1, <2>3, <2>5, <2>6, <2>7 DEF RelInv, OrphansApart
      <3>4. \A q \in Pids : inst'[q].pc = "abort" =>
               child'[Place(q)'].step = 0 \/ releases'[VersionOf(q)'].exists
        BY <1>1, <2>3, <2>5, <2>6, <2>7 DEF RelInv, OrphansApart
      <3> QED BY <3>1, <3>2, <3>3, <3>4 DEF OrphansApart
    <2>11. StagesSound'
      <3> SUFFICES ASSUME NEW q \in Pids
                   PROVE  /\ inst'[q].pc # "none" => WorkIs(inst'[q], staging'[Place(q)'])
                          /\ inst'[q].pc = "setup" =>
                                SetupIs(inst'[q], staging'[Place(q)'], child'[Place(q)'])
        BY DEF StagesSound, Dir
      <3>1. CASE q = p
        <4>1. inst'[q].pc = to
          BY <2>5, <2>6, <3>1
        <4> QED BY <4>1, <2>3 DEF WorkIs, Building
      <3>2. CASE q # p
        BY <1>1, <2>6, <2>7, <3>2 DEF RelInv, StagesSound, Dir
      <3> QED BY <3>1, <3>2
    <2>12. ReleasesSound'
      <3>1. \A v \in Versions : releases'[v].exists => Released(v)'
        BY <1>1 DEF RelInv, ReleasesSound, Released
      <3>2. \A q \in Pids : inst'[q].pc \in {"check", "link", "activate"} => releases'[VersionOf(q)'].exists
        BY <1>1, <2>3, <2>5, <2>6, <2>7 DEF RelInv, ReleasesSound
      <3>3. current' # 0 => releases'[current'].exists
        BY <1>1 DEF RelInv, ReleasesSound
      <3> QED BY <3>1, <3>2, <3>3 DEF ReleasesSound
    <2> QED BY <2>8, <2>9, <2>10, <2>11, <2>12 DEF RelInv
  <1> QED BY <1>2, <1>3

(* A version that the check accepts is there. *)
LEMMA CheckInstalledKeeps ==
  ASSUME RelInv, NEW p \in Pids, CheckInstalled(p)
  PROVE  RelInv'
  <1>1. inst[p].pc = "check" /\ UNCHANGED <<staging, child, releases, current>>
    BY DEF CheckInstalled, At
  <1>2. inst[p].pc \in Holding
    BY <1>1 DEF Holding
  <1>3. inst[p].pc # "none" /\ RelTypes /\ lock = p
    BY <1>2, AtWork
  <1>4. CASE ~Complete(releases[inst[p].run.version], inst[p].run, inst[p].ros)
    BY <1>1, <1>3, <1>4, EndsAlone DEF CheckInstalled
  <1>5. CASE Complete(releases[inst[p].run.version], inst[p].run, inst[p].ros)
    <2>1. Goes(p, "link") /\ lock' = lock
      BY <1>5 DEF CheckInstalled
    <2>2. "link" \in Holding /\ "link" \notin Building
      BY DEF Holding, Building
    <2>3. WorkIs([inst[p] EXCEPT !.pc = "link"], Dir(p))
      BY <1>3, <2>2, AtNext
    <2>4. releases[VersionOf(p)].exists
      BY <1>1, <1>3 DEF RelInv, ReleasesSound
    <2> QED BY <1>1, <1>2, <2>1, <2>2, <2>3, <2>4, MovesOn
  <1> QED BY <1>4, <1>5

LEMMA NewlyThere ==
  ASSUME NEW x, IsDir(x)
  PROVE  [x EXCEPT !.exists = TRUE] = [exists |-> TRUE, files |-> x.files, build |-> x.build,
                                       table |-> x.table, state |-> x.state]
  <1>1. ASSUME NEW t
        PROVE  [x EXCEPT !.exists = t] = [exists |-> t, files |-> x.files, build |-> x.build,
                                          table |-> x.table, state |-> x.state]
    BY DEF IsDir
  <1> QED BY <1>1

LEMMA MakeStagingKeeps ==
  ASSUME RelInv, NEW p \in Pids, MakeStaging(p)
  PROVE  RelInv'
  <1> DEFINE w == Place(p)
             i == [inst[p] EXCEPT !.pc = "extract"]
             c == child[w]
  <1>1. inst[p].pc = "stage" /\ UNCHANGED <<child, releases, current>>
    BY DEF MakeStaging, At
  <1>2. inst[p].pc \in Holding
    BY <1>1 DEF Holding
  <1>3. /\ inst[p].pc # "none" /\ RelTypes
        /\ w \in Places /\ VersionOf(p) \in Versions /\ w = <<VersionOf(p), p>>
    BY <1>2, AtWork
  <1>4. CASE Dir(p).exists
    BY <1>1, <1>3, <1>4, EndsAlone DEF MakeStaging
  <1>5. CASE ~Dir(p).exists
    <2>1. Goes(p, "extract") /\ lock' = lock /\ staging' = [staging EXCEPT ![w] = NewDir]
      BY <1>5 DEF MakeStaging
    <2>2. ~releases[VersionOf(p)].exists
      BY <1>1 DEF RelInv, OrphansApart
    <2>3. c.step = 0
      BY <1>3, <1>5, <2>2 DEF RelInv, OrphansApart, Dir
    <2>4. "extract" \in Holding /\ "extract" \in Building
      BY DEF Holding, Building
    <2>5. /\ inst' = [inst EXCEPT ![p] = i] /\ InstallerIs(i)
          /\ i.pc = "extract" /\ i.run = inst[p].run /\ i.ros = inst[p].ros
      BY <1>3, <2>1, <2>4, GoesIs DEF Goes
    <2>6. NewDir = [exists |-> TRUE, files |-> {}, build |-> {}, table |-> {}, state |-> <<>>]
      <3>1. IsDir(NoDir)
        BY DEF IsDir, NoDir
      <3>2. NewDir = [exists |-> TRUE, files |-> NoDir.files, build |-> NoDir.build,
                      table |-> NoDir.table, state |-> NoDir.state]
        <4>1. NewDir = [NoDir EXCEPT !.exists = TRUE]
          BY DEF NewDir
        <4> QED BY <3>1, <4>1, NewlyThere
      <3>3. NoDir.files = {} /\ NoDir.build = {} /\ NoDir.table = {} /\ NoDir.state = <<>>
        BY DEF NoDir
      <3> QED BY <3>2, <3>3
    <2>7. IsDir(NewDir) /\ Parted(NewDir, {})
      BY <2>6 DEF IsDir, Parted
    <2>8. child' = [child EXCEPT ![w] = c] /\ ChildIs(c)
      BY <1>1, <1>3, Untouched
    <2> HIDE DEF i, c
    <2>9. WorkIs(i, NewDir)
      BY <2>5, <2>7 DEF WorkIs
    <2> QED BY <1>1, <1>2, <2>1, <2>3, <2>4, <2>5, <2>7, <2>8, <2>9, HolderKeeps
  <1> QED BY <1>4, <1>5

(* A finished directory becomes the release of its version. *)
LEMMA PublishKeeps ==
  ASSUME RelInv, NEW p \in Pids, PublishRelease(p)
  PROVE  RelInv'
  <1> DEFINE w == Place(p)
             v == VersionOf(p)
             o == Dir(p)
             m == inst[p].run
             ros == inst[p].ros
             i == [inst[p] EXCEPT !.pc = "link"]
             c == child[w]
  <1>1. /\ inst[p].pc = "publish" /\ UNCHANGED <<lock, child, current>> /\ Goes(p, "link")
        /\ releases' = [releases EXCEPT ![v] = o] /\ staging' = [staging EXCEPT ![w] = NoDir]
    BY DEF PublishRelease, At, VersionOf
  <1>2. inst[p].pc \in Building /\ inst[p].pc \in Holding
    BY <1>1 DEF Building, Holding
  <1>3. /\ inst[p].pc # "none" /\ RelTypes /\ lock = p /\ m \in RunFiles /\ ros \in BOOLEAN
        /\ w \in Places /\ v \in Versions /\ w = <<v, p>> /\ c.step = 0
    BY <1>2, AtWork
  <1>4. /\ Parted(o, ReleaseParts(m, ros)) /\ o.table = o.files
        /\ o.state = Identity(m, ros) \o <<o.table>>
    BY <1>1, <1>2, AtWork DEF WorkIs
  <1>5. Finished(o, m, ros)
    <2>1. o.files = ReleaseParts(m, ros) /\ o.build = {} /\ o.table = ReleaseParts(m, ros)
      BY <1>4 DEF Parted
    <2>2. "results" \notin ReleaseParts(m, ros)
      BY <1>3, PartsDone
    <2>3. o.files \ {"results"} = ReleaseParts(m, ros)
      BY <2>1, <2>2
    <2> QED BY <1>4, <2>1, <2>3 DEF Finished
  <1>6. /\ inst' = [inst EXCEPT ![p] = i] /\ InstallerIs(i)
        /\ i.pc = "link" /\ i.run = m /\ i.ros = ros
    BY <1>1, <1>3, GoesIs DEF Goes, Holding
  <1>7. m.version = v /\ IsDir(o) /\ o.exists /\ IsDir(NoDir)
    BY <1>4 DEF VersionOf, Parted, IsDir, NoDir
  <1> HIDE DEF i, o
  <1>8. /\ inst'[p] = i /\ \A q \in Pids : q # p => inst'[q] = inst[q]
        /\ releases'[v] = o /\ \A u \in Versions : u # v => releases'[u] = releases[u]
        /\ staging'[w] = NoDir /\ \A x \in Places : x # w => staging'[x] = staging[x]
    BY <1>1, <1>3, <1>6 DEF RelTypes
  <1>9. \A q \in Pids : Place(q)' = Place(q) /\ VersionOf(q)' = VersionOf(q)
    BY <1>6, <1>8 DEF Place, VersionOf
  <1>10. \A q \in Pids : q # p => inst[q].pc \notin Holding
    BY <1>3 DEF RelInv, HolderWorks
  <1>11. \A u \in Versions : releases[u].exists => releases'[u].exists
    BY <1>7, <1>8
  <1> HIDE DEF w, v
  <1>12. RelTypes'
    <2>1. inst' = [q \in Pids |-> inst'[q]] /\ \A q \in Pids : InstallerIs(inst'[q])
      BY <1>3, <1>6, <1>8 DEF RelTypes
    <2>2. staging' = [x \in Places |-> staging'[x]] /\ \A x \in Places : IsDir(staging'[x])
      BY <1>1, <1>3, <1>7, <1>8 DEF RelTypes
    <2>3. releases' = [u \in Versions |-> releases'[u]] /\ \A u \in Versions : IsDir(releases'[u])
      BY <1>1, <1>3, <1>7, <1>8 DEF RelTypes
    <2> QED BY <1>1, <1>3, <2>1, <2>2, <2>3 DEF RelTypes
  <1>13. HolderWorks'
    BY <1>1, <1>3, <1>8, <1>10 DEF HolderWorks
  <1>14. OrphansApart'
    <2>1. \A u \in Versions, q \in Pids :
             child'[<<u, q>>].step # 0 => staging'[<<u, q>>].exists \/ releases'[u].exists
      <3> TAKE u \in Versions, q \in Pids
      <3>1. <<u, q>> \in Places
        BY DEF Places
      <3>2. <<u, q>> = w => u = v
        BY <1>3
      <3> QED BY <1>1, <1>7, <1>8, <1>11, <3>1, <3>2 DEF RelInv, OrphansApart
    <2>2. \A q \in Pids : inst'[q].pc \notin {"stage", "abort"} \cup Building
      <3> TAKE q \in Pids
      <3>1. CASE q = p
        BY <1>6, <1>8, <3>1 DEF Building
      <3>2. CASE q # p
        BY <1>8, <1>10, <3>2 DEF Holding
      <3> QED BY <3>1, <3>2
    <2> QED BY <2>1, <2>2 DEF OrphansApart
  <1>15. StagesSound'
    <2> SUFFICES ASSUME NEW q \in Pids
                 PROVE  /\ inst'[q].pc # "none" => WorkIs(inst'[q], staging'[Place(q)'])
                        /\ inst'[q].pc # "setup"
      BY DEF StagesSound, Dir
    <2>1. CASE q = p
      BY <1>6, <1>8, <2>1 DEF WorkIs
    <2>2. CASE q # p
      <3>1. inst'[q].pc \notin Holding
        BY <1>8, <1>10, <2>2
      <3> QED BY <3>1 DEF WorkIs, Holding, Building
    <2> QED BY <2>1, <2>2
  <1>16. ReleasesSound'
    <2>1. \A u \in Versions : releases'[u].exists => Released(u)'
      <3> SUFFICES ASSUME NEW u \in Versions, releases'[u].exists
                   PROVE  \E n \in RunFiles, r \in BOOLEAN :
                             n.version = u /\ Finished(releases'[u], n, r)
        BY DEF Released
      <3>1. CASE u = v
        BY <1>3, <1>5, <1>7, <1>8, <3>1
      <3>2. CASE u # v
        BY <1>8, <3>2 DEF RelInv, ReleasesSound, Released
      <3> QED BY <3>1, <3>2
    <2>2. \A q \in Pids : inst'[q].pc \in {"check", "link", "activate"} => releases'[VersionOf(q)'].exists
      <3> SUFFICES ASSUME NEW q \in Pids, inst'[q].pc \in {"check", "link", "activate"}
                   PROVE  releases'[VersionOf(q)].exists
        BY <1>9
      <3>1. q = p
        BY <1>8, <1>10 DEF Holding
      <3> QED BY <3>1, <1>7, <1>8 DEF v
    <2>3. current' # 0 => releases'[current'].exists
      BY <1>1, <1>3, <1>11 DEF RelInv, ReleasesSound, RelTypes
    <2> QED BY <2>1, <2>2, <2>3 DEF ReleasesSound
  <1> QED BY <1>12, <1>13, <1>14, <1>15, <1>16 DEF RelInv

LEMMA MakeLinkKeeps ==
  ASSUME RelInv, NEW p \in Pids, MakeLink(p)
  PROVE  RelInv'
  <1> DEFINE to == IF p \in temps THEN "abort" ELSE "activate"
  <1>1. /\ inst[p].pc = "link" /\ Goes(p, to)
        /\ UNCHANGED <<lock, staging, child, releases, current>>
    BY DEF MakeLink, At
  <1>2. inst[p].pc \in Holding
    BY <1>1 DEF Holding
  <1>3. inst[p].pc # "none" /\ RelTypes /\ lock = p /\ releases[VersionOf(p)].exists
    BY <1>1, <1>2, AtWork DEF RelInv, ReleasesSound
  <1>4. to \in Holding /\ to \notin Building \cup {"stage", "setup"}
    BY DEF Holding, Building
  <1> HIDE DEF to
  <1>5. WorkIs([inst[p] EXCEPT !.pc = to], Dir(p))
    BY <1>3, <1>4, AtNext
  <1> QED BY <1>1, <1>2, <1>3, <1>4, <1>5, MovesOn

LEMMA ActivateKeeps ==
  ASSUME RelInv, NEW p \in Pids, Activate(p)
  PROVE  RelInv'
  <1> DEFINE i == [inst[p] EXCEPT !.pc = "command"]
  <1>1. /\ inst[p].pc = "activate" /\ Goes(p, "command") /\ current' = VersionOf(p)
        /\ UNCHANGED <<lock, staging, child, releases>>
    BY DEF Activate, At, VersionOf
  <1>2. inst[p].pc \in Holding
    BY <1>1 DEF Holding
  <1>3. /\ inst[p].pc # "none" /\ RelTypes /\ VersionOf(p) \in Versions
        /\ releases[VersionOf(p)].exists
    BY <1>1, <1>2, AtWork DEF RelInv, ReleasesSound
  <1>4. /\ inst' = [inst EXCEPT ![p] = i] /\ InstallerIs(i)
        /\ i.pc = "command" /\ i.run = inst[p].run /\ i.ros = inst[p].ros
    BY <1>1, <1>3, GoesIs DEF Goes, Holding
  <1> HIDE DEF i
  <1>5. inst'[p] = i /\ \A q \in Pids : q # p => inst'[q] = inst[q]
    BY <1>3, <1>4 DEF RelTypes
  <1>6. \A q \in Pids : Place(q)' = Place(q) /\ VersionOf(q)' = VersionOf(q)
    BY <1>4, <1>5 DEF Place, VersionOf
  <1>7. RelTypes'
    <2>1. inst' = [q \in Pids |-> inst'[q]] /\ \A q \in Pids : InstallerIs(inst'[q])
      BY <1>3, <1>4, <1>5 DEF RelTypes
    <2> QED BY <1>1, <1>3, <2>1 DEF RelTypes
  <1>8. HolderWorks'
    BY <1>1, <1>2, <1>5 DEF RelInv, HolderWorks
  <1>9. OrphansApart'
    <2>1. \A q \in Pids : inst'[q].pc \in {"stage", "abort"} \cup Building => inst'[q] = inst[q]
      BY <1>4, <1>5 DEF Building
    <2>2. \A v \in Versions, q \in Pids :
             child'[<<v, q>>].step # 0 => staging'[<<v, q>>].exists \/ releases'[v].exists
      BY <1>1 DEF RelInv, OrphansApart
    <2>3. \A q \in Pids : inst'[q].pc = "stage" => ~releases'[VersionOf(q)'].exists
      BY <1>1, <1>6, <2>1 DEF RelInv, OrphansApart
    <2>4. \A q \in Pids : inst'[q].pc \in Building => child'[Place(q)'].step = 0
      BY <1>1, <1>6, <2>1 DEF RelInv, OrphansApart
    <2>5. \A q \in Pids : inst'[q].pc = "abort" =>
             child'[Place(q)'].step = 0 \/ releases'[VersionOf(q)'].exists
      BY <1>1, <1>6, <2>1 DEF RelInv, OrphansApart
    <2> QED BY <2>2, <2>3, <2>4, <2>5 DEF OrphansApart
  <1>10. StagesSound'
    <2> SUFFICES ASSUME NEW q \in Pids
                 PROVE  /\ inst'[q].pc # "none" => WorkIs(inst'[q], staging'[Place(q)'])
                        /\ inst'[q].pc = "setup" =>
                              SetupIs(inst'[q], staging'[Place(q)'], child'[Place(q)'])
      BY DEF StagesSound, Dir
    <2>1. CASE q = p
      BY <1>4, <1>5, <2>1 DEF WorkIs
    <2>2. CASE q # p
      BY <1>1, <1>5, <1>6, <2>2 DEF RelInv, StagesSound, Dir
    <2> QED BY <2>1, <2>2
  <1>11. ReleasesSound'
    <2>1. \A v \in Versions : releases'[v].exists => Released(v)'
      BY <1>1 DEF RelInv, ReleasesSound, Released
    <2>2. \A q \in Pids : inst'[q].pc \in {"check", "link", "activate"} => releases'[VersionOf(q)'].exists
      BY <1>1, <1>4, <1>5, <1>6 DEF RelInv, ReleasesSound
    <2> QED BY <1>1, <1>3, <2>1, <2>2 DEF ReleasesSound
  <1> QED BY <1>7, <1>8, <1>9, <1>10, <1>11 DEF RelInv

LEMMA InstallAbortsKeeps ==
  ASSUME RelInv, NEW p \in Pids, InstallAborts(p)
  PROVE  RelInv'
  <1>1. /\ inst[p].pc = "abort" /\ Ends(p) /\ staging' = [staging EXCEPT ![Place(p)] = NoDir]
        /\ UNCHANGED <<child, releases, current>>
    BY DEF InstallAborts, At
  <1>2. child[Place(p)].step # 0 => NoDir.exists \/ releases[VersionOf(p)].exists
    BY <1>1 DEF RelInv, OrphansApart
  <1>3. IsDir(NoDir)
    BY DEF IsDir, NoDir
  <1> QED BY <1>1, <1>2, <1>3, EndKeeps

LEMMA ChildFields ==
  ASSUME NEW x, ChildIs(x), NEW s, NEW e
  PROVE  [x EXCEPT !.step = s, !.exit = e] = [step |-> s, ros |-> x.ros, exit |-> e]
  <1> DEFINE y == [x EXCEPT !.step = s]
  <1>1. x = [step |-> x.step, ros |-> x.ros, exit |-> x.exit]
    BY DEF ChildIs
  <1>2. y = [step |-> s, ros |-> x.ros, exit |-> x.exit]
    BY <1>1
  <1>3. [x EXCEPT !.step = s, !.exit = e] = [y EXCEPT !.exit = e]
    OBVIOUS
  <1> HIDE DEF y
  <1> QED BY <1>2, <1>3

LEMMA RemovedIs ==
  ASSUME NEW d, IsDir(d)
  PROVE  IsDir(RemoveBuild(d)) /\ RemoveBuild(d).exists = d.exists
  <1>1. RemoveBuild(d) = [exists |-> d.exists, files |-> d.files, build |-> {},
                          table |-> d.table, state |-> d.state]
    BY DEF RemoveBuild, IsDir
  <1> QED BY <1>1 DEF IsDir

(* Whatever a setup step finds, it leaves a directory. *)
LEMMA SetupIsDir ==
  ASSUME NEW d, IsDir(d), NEW ros, NEW k \in 1..17
  PROVE  IsDir(Setup(SetupSteps[k], d, ros))
  <1>1. \A e, f : IsDir(e) => IsDir(Puts(e, f)) /\ IsDir(Builds(e, f))
    BY PutsIs, BuildsIs
  <1>2. IsDir(NoDir) /\ IsDir(RemoveBuild(d))
    BY RemovedIs DEF IsDir, NoDir
  <1>3. IsDir(MaterializeLinks(d))
    <2>1. MaterializeLinks(d) = [exists |-> d.exists, files |-> d.files \ {"links"},
                                 build |-> d.build, table |-> d.table, state |-> d.state]
      BY DEF MaterializeLinks, IsDir
    <2> QED BY <2>1 DEF IsDir
  <1>4. IsDir(LoadLocked(d)) /\ IsDir(CreateRuntime(d)) /\ IsDir(ExtractArchives(d))
    BY <1>1, <1>2 DEF LoadLocked, CreateRuntime, ExtractArchives
  <1>5. IsDir(LivoxSource(d, ros)) /\ IsDir(BuildAbseil(d)) /\ IsDir(BuildProtobuf(d))
    BY <1>1, <1>2 DEF LivoxSource, BuildAbseil, BuildProtobuf
  <1>6. IsDir(InstallEcalDeb(d)) /\ IsDir(BuildEcal(d)) /\ IsDir(InstallTools(d, ros))
    BY <1>1, <1>2 DEF InstallEcalDeb, BuildEcal, InstallTools
  <1>7. IsDir(InstallEcalConfig(d)) /\ IsDir(CopyLibraries(d)) /\ IsDir(InstallBridgeLauncher(d, ros))
    BY <1>1, <1>2 DEF InstallEcalConfig, CopyLibraries, InstallBridgeLauncher
  <1>8. IsDir(InstallRunSim(d)) /\ IsDir(InstallViewer(d)) /\ IsDir(WriteResult(d))
    BY <1>1, <1>2 DEF InstallRunSim, InstallViewer, WriteResult
  <1>9. \A i \in 1..17 : SetupSteps[i] \in {"load", "runtime", "archives", "livox", "abseil", "protobuf",
          "ecalDeb", "ecal", "tools", "config", "libraries", "bridge", "runSim", "viewer",
          "clean", "links", "result"}
    BY DEF SetupSteps
  <1>10. PICK step \in {"load", "runtime", "archives", "livox", "abseil", "protobuf",
          "ecalDeb", "ecal", "tools", "config", "libraries", "bridge", "runSim", "viewer",
          "clean", "links", "result"} : SetupSteps[k] = step
    BY <1>9
  <1> QED BY <1>2, <1>3, <1>4, <1>5, <1>6, <1>7, <1>8, <1>10 DEF Setup

(* A setup step changes the directory of its child only: that of an        *)
(* installer that waits for it, or one that nobody works in.               *)
LEMMA SetupStepKeeps ==
  ASSUME RelInv, NEW w \in Places, NEW ok \in BOOLEAN, SetupStep(w, ok)
  PROVE  RelInv'
  <1> DEFINE o == staging[w]
             k == child[w].step
             ros == child[w].ros
             n == IF ok /\ o.exists THEN Setup(SetupSteps[k], o, ros) ELSE NoDir
  <1>1. /\ k \in 1..Len(SetupSteps)
        /\ UNCHANGED <<inst, lock, releases, current>>
    BY DEF SetupStep
  <1>2. Len(SetupSteps) = 17
    BY DEF SetupSteps
  <1>3. RelTypes /\ IsDir(o) /\ ChildIs(child[w])
    BY DEF RelInv, RelTypes
  <1>4. \E d, c :
          /\ staging' = [staging EXCEPT ![w] = d] /\ child' = [child EXCEPT ![w] = c]
          /\ c.ros = ros /\ c.step \in 0..17 /\ ChildIs(c)
          /\ \/ /\ ok /\ o.exists /\ n.exists /\ d = n
                /\ c.step = (IF k = 17 THEN 0 ELSE k + 1) /\ c.exit = (IF k = 17 THEN "ok" ELSE "none")
             \/ d = RemoveBuild(o) /\ c.step = 0 /\ c.exit = "failed"
    <2>1. CASE n.exists
      <3> DEFINE s == IF k = 17 THEN 0 ELSE k + 1
                 e == IF k = 17 THEN "ok" ELSE "none"
                 c == [step |-> s, ros |-> ros, exit |-> e]
      <3>1. ok /\ o.exists
        BY <2>1 DEF NoDir
      <3>2. staging' = [staging EXCEPT ![w] = n]
        BY <2>1, <1>2 DEF SetupStep
      <3>3. child' = [child EXCEPT ![w] = [child[w] EXCEPT !.step = s, !.exit = e]]
        BY <2>1, <1>2 DEF SetupStep
      <3>4. s \in 0..17
        BY <1>1, <1>2
      <3>5. [child[w] EXCEPT !.step = s, !.exit = e] = c
        <4> HIDE DEF s, e
        <4> QED BY <1>3, ChildFields
      <3>6. c.ros = ros /\ c.step = s /\ c.exit = e /\ ChildIs(c)
        <4> HIDE DEF s, e
        <4> QED BY <3>4 DEF ChildIs
      <3> HIDE DEF n, c
      <3> QED BY <2>1, <3>1, <3>2, <3>3, <3>5, <3>6, <3>4
    <2>2. CASE ~n.exists
      <3> DEFINE c == [step |-> 0, ros |-> ros, exit |-> "failed"]
      <3>1. staging' = [staging EXCEPT ![w] = RemoveBuild(o)]
        BY <2>2 DEF SetupStep
      <3>2. child' = [child EXCEPT ![w] = [child[w] EXCEPT !.step = 0, !.exit = "failed"]]
        BY <2>2 DEF SetupStep
      <3>3. [child[w] EXCEPT !.step = 0, !.exit = "failed"] = c
        BY <1>3, ChildFields
      <3>4. c.ros = ros /\ c.step = 0 /\ c.exit = "failed" /\ ChildIs(c)
        BY DEF ChildIs
      <3>5. c.step \in 0..17
        BY <3>4
      <3>6. child' = [child EXCEPT ![w] = c]
        BY <3>2, <3>3
      <3> HIDE DEF n, c, o, k, ros
      <3> QED BY <3>1, <3>4, <3>5, <3>6
    <2> QED BY <2>1, <2>2
  <1>5. PICK d, c :
          /\ staging' = [staging EXCEPT ![w] = d] /\ child' = [child EXCEPT ![w] = c]
          /\ c.ros = ros /\ c.step \in 0..17 /\ ChildIs(c)
          /\ \/ /\ ok /\ o.exists /\ n.exists /\ d = n
                /\ c.step = (IF k = 17 THEN 0 ELSE k + 1) /\ c.exit = (IF k = 17 THEN "ok" ELSE "none")
             \/ d = RemoveBuild(o) /\ c.step = 0 /\ c.exit = "failed"
    BY <1>4
  <1>6. IsDir(d) /\ d.exists = o.exists
    <2>1. CASE d = RemoveBuild(o)
      BY <2>1, <1>3, RemovedIs
    <2>2. CASE d # RemoveBuild(o)
      <3>1. d = Setup(SetupSteps[k], o, ros) /\ d.exists /\ o.exists
        BY <1>5, <2>2
      <3>2. k \in 1..17
        BY <1>1, <1>2
      <3>3. IsDir(d)
        BY <1>3, <3>1, <3>2, SetupIsDir
      <3>4. o.exists = TRUE /\ d.exists = TRUE
        BY <3>1, <3>3, <1>3 DEF IsDir
      <3> QED BY <3>3, <3>4
    <2> QED BY <2>1, <2>2
  <1> HIDE DEF n, o, k, ros
  <1>7. /\ staging'[w] = d /\ \A x \in Places : x # w => staging'[x] = staging[x]
        /\ child'[w] = c /\ \A x \in Places : x # w => child'[x] = child[x]
    BY <1>3, <1>5 DEF RelTypes
  <1>8. \A q \in Pids : Place(q)' = Place(q) /\ VersionOf(q)' = VersionOf(q)
    BY <1>1 DEF Place, VersionOf
  <1>9. \A q \in Pids : inst[q].pc # "none" => Place(q) \in Places
    BY <1>3, DirsApart
  <1>10. \A q \in Pids : inst[q].pc # "none" /\ Place(q) = w => inst[q].pc \notin Building
    BY <1>1 DEF RelInv, OrphansApart, k
  <1>11. RelTypes'
    <2>1. staging' = [x \in Places |-> staging'[x]] /\ \A x \in Places : IsDir(staging'[x])
      BY <1>3, <1>5, <1>6, <1>7 DEF RelTypes
    <2>2. child' = [x \in Places |-> child'[x]] /\ \A x \in Places : ChildIs(child'[x])
      BY <1>3, <1>5, <1>7 DEF RelTypes
    <2> QED BY <1>1, <1>3, <2>1, <2>2 DEF RelTypes
  <1>12. HolderWorks'
    BY <1>1 DEF RelInv, HolderWorks
  <1>13. OrphansApart'
    <2>1. \A v \in Versions, q \in Pids :
             child'[<<v, q>>].step # 0 => staging'[<<v, q>>].exists \/ releases'[v].exists
      <3> TAKE v \in Versions, q \in Pids
      <3>1. <<v, q>> \in Places
        BY DEF Places
      <3>2. CASE <<v, q>> = w
        <4>1. child[w].step # 0
          BY <1>1 DEF k
        <4>2. o.exists \/ releases[v].exists
          BY <3>2, <4>1 DEF RelInv, OrphansApart, o
        <4> QED BY <1>1, <1>6, <1>7, <3>2, <4>2
      <3>3. CASE <<v, q>> # w
        BY <1>1, <1>7, <3>1, <3>3 DEF RelInv, OrphansApart
      <3> QED BY <3>2, <3>3
    <2>2. \A q \in Pids : inst'[q].pc = "stage" => ~releases'[VersionOf(q)'].exists
      BY <1>1, <1>8 DEF RelInv, OrphansApart
    <2>3. \A q \in Pids : inst'[q].pc \in Building => child'[Place(q)'].step = 0
      <3> SUFFICES ASSUME NEW q \in Pids, inst[q].pc \in Building
                   PROVE  child'[Place(q)].step = 0
        BY <1>1, <1>8
      <3>1. inst[q].pc # "none"
        BY DEF Building
      <3> QED BY <3>1, <1>7, <1>9, <1>10 DEF RelInv, OrphansApart
    <2>4. \A q \in Pids : inst'[q].pc = "abort" =>
             child'[Place(q)'].step = 0 \/ releases'[VersionOf(q)'].exists
      <3> SUFFICES ASSUME NEW q \in Pids, inst[q].pc = "abort"
                   PROVE  child'[Place(q)].step = 0 \/ releases[VersionOf(q)].exists
        BY <1>1, <1>8
      <3>1. child[Place(q)].step = 0 \/ releases[VersionOf(q)].exists
        BY DEF RelInv, OrphansApart
      <3>2. CASE Place(q) = w
        BY <1>1, <3>1, <3>2 DEF k
      <3>3. CASE Place(q) # w
        BY <1>7, <1>9, <3>1, <3>3
      <3> QED BY <3>2, <3>3
    <2> QED BY <2>1, <2>2, <2>3, <2>4 DEF OrphansApart
  <1>14. StagesSound'
    <2> SUFFICES ASSUME NEW q \in Pids
                 PROVE  /\ inst[q].pc # "none" => WorkIs(inst[q], staging'[Place(q)])
                        /\ inst[q].pc = "setup" =>
                              SetupIs(inst[q], staging'[Place(q)], child'[Place(q)])
      BY <1>1, <1>8 DEF StagesSound, Dir
    <2>1. CASE inst[q].pc = "none" \/ Place(q) # w
      BY <1>7, <1>9, <2>1 DEF RelInv, StagesSound, Dir
    <2>2. CASE inst[q].pc # "none" /\ Place(q) = w
      <3>1. inst[q].pc \notin Building
        BY <1>10, <2>2
      <3>2. WorkIs(inst[q], staging'[Place(q)])
        BY <3>1 DEF WorkIs, Building
      <3>3. ASSUME inst[q].pc = "setup"
            PROVE  SetupIs(inst[q], d, c)
        <4> DEFINE m == inst[q].run
        <4>1. SetupIs(inst[q], o, child[w])
          BY <2>2, <3>3 DEF RelInv, StagesSound, Dir, o
        <4>2. ros = inst[q].ros /\ m.setup /\ SetupAt(o, m, ros, k)
          BY <1>1, <4>1 DEF SetupIs, k, ros
        <4>3. m \in RunFiles /\ ros \in BOOLEAN
          BY <3>3, <4>2, AtWork DEF Holding
        <4>4. CASE d = RemoveBuild(o) /\ c.step = 0 /\ c.exit = "failed"
          BY <1>5, <4>2, <4>4 DEF SetupIs
        <4>5. CASE /\ ok /\ o.exists /\ n.exists /\ d = n
                   /\ c.step = (IF k = 17 THEN 0 ELSE k + 1)
                   /\ c.exit = (IF k = 17 THEN "ok" ELSE "none")
          <5>1. d = Setup(SetupSteps[k], o, ros) /\ d.exists /\ k \in 1..17
            BY <1>1, <1>2, <4>5 DEF n
          <5>2. SetupAt(d, m, ros, k + 1)
            BY <4>2, <4>3, <5>1, StepKeeps
          <5>3. CASE k = 17
            BY <1>5, <4>2, <4>5, <5>2, <5>3 DEF SetupIs
          <5>4. CASE k # 17
            <6>1. c.exit = "none" /\ c.step = k + 1 /\ c.step # 0
              BY <4>5, <5>1, <5>4
            <6> QED BY <1>5, <4>2, <5>2, <6>1 DEF SetupIs
          <5> QED BY <5>3, <5>4
        <4> QED BY <1>5, <4>4, <4>5
      <3> QED BY <1>7, <2>2, <3>2, <3>3
    <2> QED BY <2>1, <2>2
  <1>15. ReleasesSound'
    <2>1. \A v \in Versions : releases'[v].exists => Released(v)'
      BY <1>1 DEF RelInv, ReleasesSound, Released
    <2>2. \A q \in Pids : inst'[q].pc \in {"check", "link", "activate"} => releases'[VersionOf(q)'].exists
      BY <1>1, <1>8 DEF RelInv, ReleasesSound
    <2> QED BY <1>1, <2>1, <2>2 DEF RelInv, ReleasesSound
  <1> QED BY <1>11, <1>12, <1>13, <1>14, <1>15 DEF RelInv

LEMMA StartProgramKeeps ==
  ASSUME RelInv, StartProgram
  PROVE  RelInv'
  <1> DEFINE d == releases[current]
             n == Puts(d, {"results"})
  <1>1. /\ current # 0 /\ releases' = [releases EXCEPT ![current] = n]
        /\ UNCHANGED <<inst, lock, staging, child, current>>
    BY DEF StartProgram
  <1>2. RelTypes /\ current \in Versions /\ d.exists /\ IsDir(d)
    BY <1>1 DEF RelInv, ReleasesSound, RelTypes
  <1>3. n = [exists |-> d.exists, files |-> d.files \cup {"results"}, build |-> d.build,
             table |-> d.table, state |-> d.state]
    <2>1. IsDir(d)
      BY <1>2
    <2> HIDE DEF d
    <2> QED BY <2>1 DEF IsDir, Puts
  <1>4. /\ IsDir(n) /\ n.exists = d.exists /\ n.files = d.files \cup {"results"}
        /\ n.build = d.build /\ n.table = d.table /\ n.state = d.state
    <2>1. d.exists \in BOOLEAN
      BY <1>2 DEF IsDir
    <2> HIDE DEF d, n
    <2> QED BY <2>1, <1>3 DEF IsDir
  <1> HIDE DEF n
  <1>5. releases'[current] = n /\ \A v \in Versions : v # current => releases'[v] = releases[v]
    BY <1>1, <1>2 DEF RelTypes
  <1>6. \A v \in Versions : releases'[v].exists = releases[v].exists
    BY <1>4, <1>5
  <1>7. \A q \in Pids : Place(q)' = Place(q) /\ VersionOf(q)' = VersionOf(q) /\ Dir(q)' = Dir(q)
    BY <1>1 DEF Place, VersionOf, Dir
  <1>8. \A q \in Pids : inst[q].pc # "none" => VersionOf(q) \in Versions
    BY <1>2, DirsApart
  <1>9. RelTypes'
    <2>1. releases' = [v \in Versions |-> releases'[v]] /\ \A v \in Versions : IsDir(releases'[v])
      BY <1>1, <1>2, <1>4, <1>5 DEF RelTypes
    <2> QED BY <1>1, <1>2, <2>1 DEF RelTypes
  <1>10. HolderWorks' /\ StagesSound'
    BY <1>1, <1>7 DEF RelInv, HolderWorks, StagesSound
  <1>11. OrphansApart'
    <2>1. \A v \in Versions, q \in Pids :
             child'[<<v, q>>].step # 0 => staging'[<<v, q>>].exists \/ releases'[v].exists
      BY <1>1, <1>6 DEF RelInv, OrphansApart
    <2>2. \A q \in Pids : inst'[q].pc = "stage" => ~releases'[VersionOf(q)'].exists
      BY <1>1, <1>6, <1>7, <1>8 DEF RelInv, OrphansApart
    <2>3. \A q \in Pids : inst'[q].pc \in Building => child'[Place(q)'].step = 0
      BY <1>1, <1>7 DEF RelInv, OrphansApart
    <2>4. \A q \in Pids : inst'[q].pc = "abort" =>
             child'[Place(q)'].step = 0 \/ releases'[VersionOf(q)'].exists
      BY <1>1, <1>6, <1>7, <1>8 DEF RelInv, OrphansApart
    <2> QED BY <2>1, <2>2, <2>3, <2>4 DEF OrphansApart
  <1>12. ReleasesSound'
    <2>1. \A v \in Versions : releases'[v].exists => Released(v)'
      <3> SUFFICES ASSUME NEW v \in Versions, releases[v].exists
                   PROVE  \E m \in RunFiles, ros \in BOOLEAN :
                             m.version = v /\ Finished(releases'[v], m, ros)
        BY <1>6 DEF Released
      <3>1. PICK m \in RunFiles, ros \in BOOLEAN : m.version = v /\ Finished(releases[v], m, ros)
        BY DEF RelInv, ReleasesSound, Released
      <3>2. CASE v = current
        <4>1. n.files \ {"results"} = d.files \ {"results"}
          BY <1>4
        <4>2. Finished(d, m, ros)
          BY <3>1, <3>2
        <4>3. Finished(n, m, ros)
          BY <1>4, <4>1, <4>2 DEF Finished
        <4> QED BY <1>5, <3>1, <3>2, <4>3
      <3>3. CASE v # current
        BY <1>5, <3>1, <3>3
      <3> QED BY <3>2, <3>3
    <2>2. \A q \in Pids : inst'[q].pc \in {"check", "link", "activate"} => releases'[VersionOf(q)'].exists
      BY <1>1, <1>6, <1>7, <1>8 DEF RelInv, ReleasesSound
    <2>3. current' # 0 => releases'[current'].exists
      BY <1>1, <1>2, <1>6
    <2> QED BY <2>1, <2>2, <2>3 DEF ReleasesSound
  <1> QED BY <1>9, <1>10, <1>11, <1>12 DEF RelInv

LEMMA RelInitInv == RelInit => RelInv
  <1> SUFFICES ASSUME RelInit PROVE RelInv
    OBVIOUS
  <1>1. /\ inst = [p \in Pids |-> Idle] /\ staging = [w \in Places |-> NoDir]
        /\ child = [w \in Places |-> [step |-> 0, ros |-> FALSE, exit |-> "none"]]
        /\ releases = [v \in Versions |-> NoDir] /\ current = 0
    BY DEF RelInit
  <1>2. IsDir(NoDir) /\ ~NoDir.exists /\ InstallerIs(Idle) /\ Idle.pc = "none"
    BY DEF IsDir, NoDir, InstallerIs, Idle
  <1>3. \A w \in Places : child[w].step = 0 /\ ChildIs(child[w])
    BY <1>1 DEF ChildIs
  <1>4. RelTypes
    BY <1>1, <1>2, <1>3 DEF RelTypes
  <1>5. \A p \in Pids : inst[p].pc = "none"
    BY <1>1, <1>2
  <1>6. OrphansApart
    <2>1. \A v \in Versions, p \in Pids : child[<<v, p>>].step = 0
      BY <1>3 DEF Places
    <2> QED BY <1>5, <2>1 DEF OrphansApart, Building
  <1>7. ReleasesSound
    BY <1>1, <1>2, <1>5 DEF ReleasesSound
  <1> QED BY <1>4, <1>5, <1>6, <1>7 DEF RelInv, HolderWorks, StagesSound, Holding, Building

LEMMA RelNextInv ==
  ASSUME RelInv, [RelNext]_relVars
  PROVE  RelInv'
  <1>1. CASE UNCHANGED relVars
    <2>1. /\ inst' = inst /\ lock' = lock /\ staging' = staging /\ child' = child
          /\ releases' = releases /\ current' = current
      BY <1>1 DEF relVars
    <2>2. \A p \in Pids : VersionOf(p)' = VersionOf(p) /\ Place(p)' = Place(p) /\ Dir(p)' = Dir(p)
      BY <2>1 DEF VersionOf, Place, Dir
    <2>3. RelTypes' /\ HolderWorks'
      BY <2>1 DEF RelInv, RelTypes, HolderWorks
    <2>4. OrphansApart'
      BY <2>1, <2>2 DEF RelInv, OrphansApart
    <2>5. StagesSound'
      BY <2>1, <2>2 DEF RelInv, StagesSound
    <2>6. ReleasesSound'
      BY <2>1, <2>2 DEF RelInv, ReleasesSound, Released
    <2> QED BY <2>3, <2>4, <2>5, <2>6 DEF RelInv
  <1>2. ASSUME NEW p \in Pids, NEW m \in RunFiles, NEW ros \in BOOLEAN, Start(p, m, ros)
        PROVE  RelInv'
    BY <1>2, StartKeeps
  <1>3. ASSUME NEW p \in Pids, Install(p)
        PROVE  RelInv'
    <2>1. CASE TakeLock(p) \/ CheckInstalled(p) \/ MakeStaging(p)
      BY <2>1, TakeLockKeeps, CheckInstalledKeeps, MakeStagingKeeps
    <2>2. CASE ExtractPayload(p) \/ WriteIndex(p) \/ RunSetup(p) \/ WaitSetup(p)
      BY <2>2, ExtractKeeps, WriteIndexKeeps, RunSetupKeeps, WaitSetupKeeps
    <2>3. CASE \E ok \in BOOLEAN : BootstrapTools(p, ok) \/ BootstrapRos(p, ok)
      BY <2>3, BootstrapToolsKeeps, BootstrapRosKeeps
    <2>4. CASE \E o \in {"good", "broken", "wrong"} : Download(p, o)
      BY <2>4, DownloadKeeps
    <2>5. CASE Freeze(p) \/ WriteState(p) \/ PublishRelease(p)
      BY <2>5, FreezeKeeps, WriteStateKeeps, PublishKeeps
    <2>6. CASE MakeLink(p) \/ Activate(p) \/ InstallAborts(p)
      BY <2>6, MakeLinkKeeps, ActivateKeeps, InstallAbortsKeeps
    <2>7. CASE PublishCommand(p)
      <3>1. inst[p].pc # "none" /\ Ends(p) /\ UNCHANGED <<staging, child, releases, current>>
        BY <2>7 DEF PublishCommand, At
      <3> QED BY <3>1, EndsAlone
    <2> QED BY <1>3, <2>1, <2>2, <2>3, <2>4, <2>5, <2>6, <2>7 DEF Install
  <1>4. ASSUME NEW p \in Pids, KillInstaller(p)
        PROVE  RelInv'
    <2>1. inst[p].pc # "none" /\ Ends(p) /\ UNCHANGED <<staging, child, releases, current>>
      BY <1>4 DEF KillInstaller, At
    <2> QED BY <2>1, EndsAlone
  <1>5. ASSUME NEW w \in Places, NEW ok \in BOOLEAN, SetupStep(w, ok)
        PROVE  RelInv'
    BY <1>5, SetupStepKeeps
  <1>6. CASE StartProgram
    BY <1>6, StartProgramKeeps
  <1> QED BY <1>1, <1>2, <1>3, <1>4, <1>5, <1>6 DEF RelNext

LEMMA RelInvMeans == RelInv => ReleasesAreWhole
  <1> SUFFICES ASSUME RelInv PROVE ReleasesAreWhole
    OBVIOUS
  <1>1. ASSUME NEW v \in Versions, releases[v].exists
        PROVE  \E m \in RunFiles, ros \in BOOLEAN :
                 /\ m.version = v /\ Complete([releases[v] EXCEPT !.files = @ \ {"results"}], m, ros)
                 /\ [releases[v] EXCEPT !.files = @ \ {"results"}].files = ReleaseParts(m, ros)
                 /\ [releases[v] EXCEPT !.files = @ \ {"results"}].build = {}
    <2> DEFINE r == releases[v]
               d == [r EXCEPT !.files = @ \ {"results"}]
    <2>1. PICK m \in RunFiles, ros \in BOOLEAN : m.version = v /\ Finished(r, m, ros)
      BY <1>1 DEF RelInv, ReleasesSound, Released
    <2>2. IsDir(r)
      BY DEF RelInv, RelTypes
    <2> HIDE DEF r
    <2>3. d = [exists |-> r.exists, files |-> r.files \ {"results"}, build |-> r.build,
               table |-> r.table, state |-> r.state]
      BY <2>2 DEF IsDir
    <2>4. d.files = r.files \ {"results"} /\ d.build = r.build /\ d.table = r.table /\ d.state = r.state
      BY <2>3
    <2> HIDE DEF d
    <2>5. /\ d.files = ReleaseParts(m, ros) /\ d.build = {} /\ d.table = ReleaseParts(m, ros)
          /\ d.state = Identity(m, ros) \o <<d.table>>
      BY <2>1, <2>4 DEF Finished
    <2>6. Complete(d, m, ros)
      BY <2>5, PartsDone DEF Complete, ReleaseFiles
    <2> QED BY <2>1, <2>5, <2>6 DEF d, r
  <1>2. current # 0 => releases[current].exists
    BY DEF RelInv, ReleasesSound
  <1> QED BY <1>1, <1>2 DEF ReleasesAreWhole

(* However many installers run, end or are killed, and whatever children   *)
(* they leave behind: a directory under releases/ is a finished release of *)
(* a run file, and `current` names one.                                    *)
THEOREM PublishedReleasesAreWhole == RelSpec => []ReleasesAreWhole
  <1>1. RelInit => RelInv
    BY RelInitInv
  <1>2. RelInv /\ [RelNext]_relVars => RelInv'
    BY RelNextInv
  <1>3. RelInv => ReleasesAreWhole
    BY RelInvMeans
  <1> QED BY <1>1, <1>2, <1>3, PTL DEF RelSpec
=============================================================================
