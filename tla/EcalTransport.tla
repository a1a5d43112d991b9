--------------------------- MODULE EcalTransport ----------------------------
(***************************************************************************)
(* The eCAL transport (slope_sim/interfaces/ecal_transport.py): one worker *)
(* per published topic that sends the latest message, deliveries to the    *)
(* subscriber (directly, or through a latest-frame slot and a receive      *)
(* worker when the wire is raw), discovery polls with revisions, and the   *)
(* quiesce and close protocol.  eCAL itself is external: a send ends well, *)
(* fails, or kills its worker; counts show the peer as it is at that time. *)
(***************************************************************************)
EXTENDS Integers, Sequences, FiniteSets, SequencesExt

CONSTANTS TrNone,
          TrTopics,   \* published topics
          TrQueue,    \* queue_size
          Pollers,    \* threads that poll discovery
          Budgets     \* publishes, receives, polls and peer changes of a run

ASSUME TransportBounds == TrQueue \in Nat \ {0} /\ TrNone \notin Nat

VARIABLES
    raw,       \* the subscribed topic uses the raw wire
    tr,        \* the fields under the transport's condition
    lane,      \* publisher lanes: worker, wake-up, message claimed, send started
    pend,      \* topics with a latest message that waits, oldest first
    quality,   \* state of each topic: active, degraded or error
    stats,     \* messages accepted, sent, failed, dropped
    rx,        \* receive slot, worker and the delivery in progress
    gate,      \* holder of the delivery gate
    polls,     \* the polls in progress
    mail,      \* generation of the command the consumer holds
    remote,    \* the peer exists
    closer,    \* the caller of quiesce and close
    cleaner,   \* the one who cleans up
    budget

trVars == <<raw, tr, lane, pend, quality, stats, rx, gate, polls, mail, remote, closer,
            cleaner, budget>>

Command == "command"

Stopping == {"quiescing", "quiesced", "closing", "closed"}

IdlePoll == [pc |-> "idle", rev |-> 0, seen |-> FALSE]

IdleRx == [pc |-> "idle", gen |-> 0, result |-> "none"]

TrInit ==
    /\ raw \in BOOLEAN
    /\ tr = [state |-> "waiting_peer", gen |-> 0, peer |-> FALSE, known |-> FALSE,
             verified |-> FALSE, next |-> 0, applied |-> -1, deferred |-> TrNone,
             stop |-> FALSE, quiesce |-> FALSE, fatal |-> FALSE, claimed |-> FALSE,
             res |-> "open", subscribed |-> TRUE]
    /\ lane = [t \in TrTopics |-> [pc |-> "wait", wake |-> FALSE, claimed |-> FALSE,
                                   started |-> FALSE]]
    /\ pend = <<>>
    /\ quality = [t \in TrTopics \cup {Command} |-> "active"]
    /\ stats = [accepted |-> 0, sent |-> 0, failed |-> 0, dropped |-> 0]
    /\ rx = [slot |-> FALSE, arriving |-> FALSE, exited |-> ~raw, d |-> IdleRx]
    /\ gate = TrNone
    /\ polls = [p \in Pollers |-> IdlePoll]
    /\ mail = TrNone
    /\ remote \in BOOLEAN
    /\ closer = "idle"
    /\ cleaner = [pc |-> "none", by |-> TrNone]
    /\ budget \in Budgets

TrStopped == tr.state \in Stopping

Spend(what) == budget[what] > 0 /\ budget' = [budget EXCEPT ![what] = @ - 1]

(* A quality fault shows in the topic and, before close, in the transport. *)
Fault(r, s) == IF TrStopped THEN r ELSE [r EXCEPT !.state = s]

-----------------------------------------------------------------------------
(* Publishing.                                                             *)

(* publish: handed to the idle lane, or it replaces the topic's waiting    *)
(* message, or the oldest one of a full queue; what is replaced is counted.*)
TrPublish(t) ==
    /\ ~TrStopped
    /\ ~tr.fatal
    /\ Spend("publish")
    /\ LET waiting  == \E i \in DOMAIN pend : pend[i] = t
           replaced == CASE ~lane[t].claimed -> TrNone
                         [] lane[t].claimed /\ waiting -> t
                         [] lane[t].claimed /\ ~waiting /\ Len(pend) >= TrQueue -> Head(pend)
                         [] OTHER -> TrNone
       IN  /\ lane' = [lane EXCEPT ![t].wake = TRUE, ![t].claimed = TRUE]
           /\ pend' = IF lane[t].claimed
                      THEN Append(SelectSeq(pend, LAMBDA x : x # replaced), t) ELSE pend
           /\ IF replaced = TrNone
              THEN /\ stats' = [stats EXCEPT !.accepted = @ + 1]
                   /\ UNCHANGED <<tr, quality>>
              ELSE /\ stats' = [stats EXCEPT !.accepted = @ + 1, !.dropped = @ + 1]
                   /\ tr' = [tr EXCEPT !.state = "degraded"]
                   /\ quality' = [quality EXCEPT ![replaced] = "degraded"]
    /\ UNCHANGED <<raw, rx, gate, polls, mail, remote, closer, cleaner>>

LaneWake(t) ==
    /\ lane[t].pc = "wait"
    /\ lane[t].wake
    /\ lane' = [lane EXCEPT ![t].wake = FALSE, ![t].pc = "claim"]
    /\ UNCHANGED <<raw, tr, pend, quality, stats, rx, gate, polls, mail, remote, closer,
                   cleaner, budget>>

(* _claim_next_send_locked *)
LaneClaim(t) ==
    /\ lane[t].pc = "claim"
    /\ LET waiting == \E i \in DOMAIN pend : pend[i] = t
       IN  CASE tr.stop \/ TrStopped ->
                    lane' = [lane EXCEPT ![t].pc = "exit"] /\ UNCHANGED pend
             [] ~(tr.stop \/ TrStopped) /\ ~lane[t].claimed /\ ~waiting ->
                    lane' = [lane EXCEPT ![t].pc = "wait"] /\ UNCHANGED pend
             [] OTHER ->
                    /\ lane' = [lane EXCEPT ![t].pc = "sending", ![t].claimed = TRUE,
                                            ![t].started = TRUE]
                    /\ pend' = IF lane[t].claimed THEN pend
                               ELSE SelectSeq(pend, LAMBDA x : x # t)
    /\ UNCHANGED <<raw, tr, quality, stats, rx, gate, polls, mail, remote, closer, cleaner,
                   budget>>

(* _complete_claimed_send_locked: the topic's latest message moves up.     *)
TrCompleted(t) ==
    LET waiting == \E i \in DOMAIN pend : pend[i] = t
    IN  /\ lane' = [lane EXCEPT ![t].started = FALSE, ![t].claimed = waiting,
                                ![t].pc = IF waiting THEN "claim" ELSE "wait"]
        /\ pend' = SelectSeq(pend, LAMBDA x : x # t)

LaneSent(t) ==
    /\ lane[t].pc = "sending"
    /\ TrCompleted(t)
    /\ stats' = [stats EXCEPT !.sent = @ + 1]
    /\ quality' = IF TrStopped THEN quality ELSE [quality EXCEPT ![t] = "active"]
    /\ tr' = IF /\ tr.state = "degraded"
                /\ pend' = <<>>
                /\ \A u \in TrTopics : ~lane'[u].claimed
                /\ \A u \in DOMAIN quality : quality'[u] = "active"
             THEN [tr EXCEPT !.state = IF tr.peer THEN "active" ELSE "waiting_peer"]
             ELSE tr
    /\ UNCHANGED <<raw, rx, gate, polls, mail, remote, closer, cleaner, budget>>

LaneSendFails(t) ==
    /\ lane[t].pc = "sending"
    /\ TrCompleted(t)
    /\ stats' = [stats EXCEPT !.failed = @ + 1]
    /\ quality' = [quality EXCEPT ![t] = "error"]
    /\ tr' = Fault(tr, "error")
    /\ UNCHANGED <<raw, rx, gate, polls, mail, remote, closer, cleaner, budget>>

(* A worker that dies stops the whole transport; its message stays claimed.*)
LaneDies(t) ==
    /\ lane[t].pc = "sending"
    /\ lane' = [u \in TrTopics |->
                  IF u = t THEN [lane[u] EXCEPT !.started = FALSE, !.pc = "exit", !.wake = TRUE]
                           ELSE [lane[u] EXCEPT !.wake = TRUE]]
    /\ quality' = [quality EXCEPT ![t] = "error"]
    /\ tr' = [Fault(tr, "error") EXCEPT !.fatal = TRUE, !.stop = TRUE]
    /\ UNCHANGED <<raw, pend, stats, rx, gate, polls, mail, remote, closer, cleaner, budget>>

(* _reclaim_unsent_locked: whatever no native send has begun is dropped.   *)
ReclaimUnsent(l) ==
    LET unsent == {t \in TrTopics : l[t].claimed /\ ~l[t].started}
    IN  /\ stats' = [stats EXCEPT !.dropped = @ + Len(pend) + Cardinality(unsent)]
        /\ pend' = <<>>
        /\ lane' = [t \in TrTopics |-> [l[t] EXCEPT !.claimed = l[t].started]]

AllExited(l) == rx.exited /\ \A t \in TrTopics : l[t].pc = "exited"

(* _run_deferred_cleanup_if_safe: the first safe thread cleans up when the *)
(* thread for it could not be started.                                     *)
TakesCleanup == tr.state = "closing" /\ ~tr.claimed

LaneExit(t) ==
    /\ lane[t].pc = "exit"
    /\ LET l == [lane EXCEPT ![t].pc = "exited"]
           done == tr.quiesce /\ AllExited(l) /\ tr.state = "quiescing"
       IN  /\ IF tr.quiesce THEN ReclaimUnsent(l)
              ELSE lane' = l /\ UNCHANGED <<stats, pend>>
           /\ tr' = [tr EXCEPT !.state = IF done THEN "quiesced" ELSE @,
                               !.claimed = @ \/ TakesCleanup]
    /\ cleaner' = IF TakesCleanup THEN [pc |-> "join", by |-> t] ELSE cleaner
    /\ UNCHANGED <<raw, quality, rx, gate, polls, mail, remote, closer, budget>>

-----------------------------------------------------------------------------
(* Receiving.                                                              *)

(* The native callback of a raw topic registers, then fills the slot.      *)
RawEnter ==
    /\ raw
    /\ remote
    /\ ~TrStopped
    /\ tr.subscribed
    /\ ~rx.arriving
    /\ Spend("receive")
    /\ rx' = [rx EXCEPT !.arriving = TRUE]
    /\ UNCHANGED <<raw, tr, lane, pend, quality, stats, gate, polls, mail, remote, closer,
                   cleaner>>

RawStore ==
    /\ rx.arriving
    /\ rx' = [rx EXCEPT !.arriving = FALSE, !.slot = @ \/ ~TrStopped]
    /\ IF rx.slot /\ ~TrStopped
       THEN /\ tr' = [tr EXCEPT !.state = "degraded"]
            /\ quality' = [quality EXCEPT ![Command] = "degraded"]
       ELSE UNCHANGED <<tr, quality>>
    /\ UNCHANGED <<raw, lane, pend, stats, gate, polls, mail, remote, closer, cleaner, budget>>

(* The receive worker takes the slot; it captures the generation inside    *)
(* the gate.  A typed topic is delivered by the native callback, which     *)
(* captures it before.                                                     *)
Receive ==
    /\ rx.d.pc = "idle"
    /\ ~TrStopped
    /\ IF raw
       THEN /\ ~rx.exited
            /\ rx.slot
            /\ rx' = [rx EXCEPT !.slot = FALSE, !.d = [IdleRx EXCEPT !.pc = "raw"]]
            /\ UNCHANGED budget
       ELSE /\ remote
            /\ Spend("receive")
            /\ rx' = [rx EXCEPT !.d = [IdleRx EXCEPT !.pc = "gate", !.gen = tr.gen]]
    /\ UNCHANGED <<raw, tr, lane, pend, quality, stats, gate, polls, mail, remote, closer,
                   cleaner>>

(* _process_raw_payload: only a verified peer's well-formed frame goes on. *)
ProcessRaw ==
    /\ rx.d.pc = "raw"
    /\ gate = TrNone
    /\ \/ /\ ~TrStopped
          /\ tr.verified
          /\ gate' = "delivery"
          /\ rx' = [rx EXCEPT !.d.pc = "call", !.d.gen = tr.gen]
          /\ UNCHANGED <<tr, quality>>
       \/ /\ ~TrStopped
          /\ tr.verified
          /\ rx' = [rx EXCEPT !.d = IdleRx]
          /\ tr' = Fault(tr, "error")
          /\ quality' = [quality EXCEPT ![Command] = "error"]
          /\ UNCHANGED gate
       \/ /\ TrStopped \/ ~tr.verified
          /\ rx' = [rx EXCEPT !.d = IdleRx]
          /\ UNCHANGED <<tr, quality, gate>>
    /\ UNCHANGED <<raw, lane, pend, stats, polls, mail, remote, closer, cleaner, budget>>

EnterGate ==
    /\ rx.d.pc = "gate"
    /\ gate = TrNone
    /\ gate' = "delivery"
    /\ rx' = [rx EXCEPT !.d.pc = "call"]
    /\ UNCHANGED <<raw, tr, lane, pend, quality, stats, polls, mail, remote, closer, cleaner,
                   budget>>

DeliveryCurrent == ~TrStopped /\ rx.d.gen = tr.gen

(* Mutant: a delivery that waited at the gate calls up whatever happened.  *)
CallConsumerAlways ==
    /\ rx.d.pc = "call"
    /\ rx' = [rx EXCEPT !.d.pc = "callback"]
    /\ UNCHANGED <<raw, tr, lane, pend, quality, stats, gate, polls, mail, remote, closer,
                   cleaner, budget>>

(* An outdated delivery ends before the consumer is called. *)
CallConsumer ==
    /\ rx.d.pc = "call"
    /\ rx' = [rx EXCEPT !.d.pc = IF DeliveryCurrent /\ tr.subscribed THEN "callback"
                                 ELSE "settle"]
    /\ UNCHANGED <<raw, tr, lane, pend, quality, stats, gate, polls, mail, remote, closer,
                   cleaner, budget>>

(* The consumer takes the command, refuses it or raises.                   *)
ConsumerReturns ==
    /\ rx.d.pc = "callback"
    /\ \E result \in {"accepted", "rejected", "raised"} :
         /\ rx' = [rx EXCEPT !.d.pc = "settle",
                             !.d.result = IF DeliveryCurrent THEN result ELSE "none"]
         /\ mail' = IF result = "accepted" THEN rx.d.gen ELSE mail
         /\ tr' = IF DeliveryCurrent /\ result = "raised" THEN [tr EXCEPT !.state = "error"]
                  ELSE tr
    /\ UNCHANGED <<raw, lane, pend, quality, stats, gate, polls, remote, closer, cleaner,
                   budget>>

AllActive == \A t \in DOMAIN quality : quality[t] = "active"

(* _apply_peer_state_locked; health faults stay visible in the state.      *)
Lifecycle(r, s) == IF AllActive THEN [r EXCEPT !.state = s] ELSE r

(* _apply_discovery_observation_locked: the fields after an observation,   *)
(* and whether the consumer is told that the peer is gone.                 *)
Observe(r, rev, seen, proto) ==
    LET s == [r EXCEPT !.applied = rev, !.known = TRUE, !.peer = seen,
                       !.verified = proto = "verified"]
        new == CASE ~r.known -> Lifecycle(s, IF seen THEN "waiting_peer" ELSE "disconnected")
                 [] r.known /\ seen /\ ~r.peer -> Lifecycle(s, "waiting_peer")
                 [] r.known /\ ~seen /\ r.peer ->
                        Lifecycle([s EXCEPT !.gen = @ + 1], "disconnected")
                 [] OTHER -> s
    IN  [tr |-> IF proto = "conflict" THEN [new EXCEPT !.state = "error"] ELSE new,
         lost |-> r.known /\ ~seen /\ r.peer /\ proto # "conflict"]

Unchanged(r) == [tr |-> r, lost |-> FALSE]

Protocols(seen) == IF ~seen THEN {"waiting"}
                   ELSE IF raw THEN {"pending", "verified", "conflict"} ELSE {"verified"}

(* The result counts only in its own generation; then an observation the   *)
(* consumer's own poll left behind is applied, and the gate opens.         *)
Settle ==
    /\ rx.d.pc = "settle"
    /\ gate' = TrNone
    /\ rx' = [rx EXCEPT !.d = IdleRx]
    /\ LET seen == [tr EXCEPT !.known = TRUE, !.peer = TRUE,
                              !.verified = IF tr.peer THEN @ ELSE FALSE,
                              !.state = CASE rx.d.result = "accepted" -> "active"
                                          [] rx.d.result # "accepted" /\ @ = "disconnected" ->
                                                 "waiting_peer"
                                          [] OTHER -> @]
           base == IF DeliveryCurrent THEN seen ELSE tr
           late == tr.deferred
       IN  \E proto \in IF late = TrNone THEN {"none"} ELSE Protocols(late.seen) :
             LET out == IF ~TrStopped /\ late # TrNone /\ late.rev > tr.applied
                        THEN Observe(base, late.rev, late.seen, proto) ELSE Unchanged(base)
             IN  /\ tr' = [out.tr EXCEPT !.deferred = TrNone]
                 /\ mail' = IF out.lost THEN TrNone ELSE mail
    /\ UNCHANGED <<raw, lane, pend, quality, stats, polls, remote, closer, cleaner, budget>>

ReceiveWorkerExit ==
    /\ raw
    /\ ~rx.exited
    /\ TrStopped
    /\ rx.d.pc = "idle"
    /\ rx' = [rx EXCEPT !.exited = TRUE]
    /\ tr' = [tr EXCEPT !.state = IF /\ @ = "quiescing"
                                     /\ \A t \in TrTopics : lane[t].pc = "exited"
                                  THEN "quiesced" ELSE @,
                        !.claimed = @ \/ TakesCleanup]
    /\ cleaner' = IF TakesCleanup THEN [pc |-> "join", by |-> Command] ELSE cleaner
    /\ UNCHANGED <<raw, lane, pend, quality, stats, gate, polls, mail, remote, closer, budget>>

-----------------------------------------------------------------------------
(* Discovery.                                                              *)

RemoteChanges ==
    /\ Spend("flips")
    /\ remote' = ~remote
    /\ UNCHANGED <<raw, tr, lane, pend, quality, stats, rx, gate, polls, mail, closer, cleaner>>

(* The native counts are read one poll at a time, outside the condition.   *)
PollBegin(p) ==
    /\ polls[p].pc = "idle"
    /\ ~TrStopped
    /\ ~tr.fatal
    /\ \A o \in Pollers : polls[o].pc # "count"
    /\ Spend("polls")
    /\ polls' = [polls EXCEPT ![p] = [pc |-> "count", rev |-> tr.next, seen |-> FALSE]]
    /\ tr' = [tr EXCEPT !.next = @ + 1]
    /\ UNCHANGED <<raw, lane, pend, quality, stats, rx, gate, mail, remote, closer, cleaner>>

PollCount(p) ==
    /\ polls[p].pc = "count"
    /\ \/ /\ polls' = [polls EXCEPT ![p].pc = "apply", ![p].seen = remote]
          /\ UNCHANGED tr
       \/ /\ polls' = [polls EXCEPT ![p] = IdlePoll]
          /\ tr' = Fault(tr, "error")
    /\ UNCHANGED <<raw, lane, pend, quality, stats, rx, gate, mail, remote, closer, cleaner,
                   budget>>

(* A poll from inside the consumer's callback leaves its observation for   *)
(* the end of the delivery.                                                *)
PollInCallback ==
    /\ rx.d.pc = "callback"
    /\ ~TrStopped
    /\ ~tr.fatal
    /\ \A o \in Pollers : polls[o].pc # "count"
    /\ Spend("polls")
    /\ tr' = [tr EXCEPT !.next = @ + 1, !.deferred = [rev |-> tr.next, seen |-> remote]]
    /\ UNCHANGED <<raw, lane, pend, quality, stats, rx, gate, polls, mail, remote, closer,
                   cleaner>>

(* Applied and announced inside the delivery gate, newest revision wins.   *)
PollApply(p) ==
    /\ polls[p].pc = "apply"
    /\ gate = TrNone
    /\ polls' = [polls EXCEPT ![p] = IdlePoll]
    /\ \E proto \in Protocols(polls[p].seen) :
         LET out == IF TrStopped \/ polls[p].rev <= tr.applied THEN Unchanged(tr)
                    ELSE Observe(tr, polls[p].rev, polls[p].seen, proto)
         IN  tr' = out.tr /\ mail' = IF out.lost THEN TrNone ELSE mail
    /\ UNCHANGED <<raw, lane, pend, quality, stats, rx, gate, remote, closer, cleaner, budget>>

-----------------------------------------------------------------------------
(* Quiesce and close.                                                      *)

(* _begin_quiesce_locked, then the state called next; an external close    *)
(* claims the clean-up in the same step.                                   *)
BeginQuiesce(next, claims) ==
    /\ tr' = [tr EXCEPT !.state = next, !.quiesce = TRUE, !.peer = FALSE,
                        !.deferred = TrNone, !.gen = IF tr.quiesce THEN @ ELSE @ + 1,
                        !.subscribed = FALSE, !.stop = TRUE,
                        !.claimed = @ \/ claims]
    /\ LET l == [t \in TrTopics |-> [lane[t] EXCEPT !.wake = TRUE]]
       IN  IF tr.quiesce THEN UNCHANGED <<stats, pend, lane>> ELSE ReclaimUnsent(l)
    /\ rx' = [rx EXCEPT !.slot = FALSE]

(* The runtime first quiesces and takes the last snapshot, then closes.    *)
Quiesce ==
    /\ closer = "idle"
    /\ ~TrStopped
    /\ BeginQuiesce("quiescing", FALSE)
    /\ closer' = "quiescing"
    /\ UNCHANGED <<raw, quality, gate, polls, mail, remote, cleaner, budget>>

InFlight == rx.d.pc # "idle" \/ rx.arriving \/ \E p \in Pollers : polls[p].pc # "idle"

QuiesceDone ==
    /\ closer = "quiescing"
    /\ AllExited(lane)
    /\ ~InFlight
    /\ tr' = [tr EXCEPT !.state = IF @ = "quiescing" THEN "quiesced" ELSE @]
    /\ closer' = "close"
    /\ UNCHANGED <<raw, lane, pend, quality, stats, rx, gate, polls, mail, remote, cleaner,
                   budget>>

(* close from outside: clean up, or wait for the one who does.             *)
TrClose ==
    /\ closer \in {"idle", "close"}
    /\ closer' = "waiting"
    /\ IF tr.state \in {"closing", "closed"}
       THEN /\ tr' = [tr EXCEPT !.claimed = TRUE]
            /\ cleaner' = IF tr.claimed \/ tr.state = "closed" THEN cleaner
                          ELSE [pc |-> "join", by |-> TrNone]
            /\ UNCHANGED <<stats, pend, lane, rx>>
       ELSE /\ BeginQuiesce("closing", TRUE)
            /\ cleaner' = [pc |-> "join", by |-> TrNone]
    /\ UNCHANGED <<raw, quality, gate, polls, mail, remote, budget>>

(* close from inside the consumer: a thread cleans up; if it cannot be     *)
(* started, that is left to the first worker that ends.                    *)
CloseInCallback ==
    /\ rx.d.pc = "callback"
    /\ tr.state \notin {"closing", "closed"}
    /\ BeginQuiesce("closing", FALSE)
    /\ \E started \in BOOLEAN :
         cleaner' = IF started THEN [pc |-> "claim", by |-> TrNone] ELSE cleaner
    /\ UNCHANGED <<raw, quality, gate, polls, mail, remote, closer, budget>>

(* _claim_and_cleanup: one owner. *)
CleanupClaim ==
    /\ cleaner.pc = "claim"
    /\ ~tr.claimed
    /\ tr' = [tr EXCEPT !.claimed = TRUE]
    /\ cleaner' = [cleaner EXCEPT !.pc = "join"]
    /\ UNCHANGED <<raw, lane, pend, quality, stats, rx, gate, polls, mail, remote, closer,
                   budget>>

(* All workers joined, discovery and raw callbacks out: subscribers close. *)
CleanupSubscribers ==
    /\ cleaner.pc = "join"
    /\ AllExited(lane)
    /\ \A p \in Pollers : polls[p].pc = "idle"
    /\ ~rx.arriving
    /\ tr' = [tr EXCEPT !.res = "subscribersClosed"]
    /\ cleaner' = [cleaner EXCEPT !.pc = "deliveries"]
    /\ UNCHANGED <<raw, lane, pend, quality, stats, rx, gate, polls, mail, remote, closer,
                   budget>>

(* The last delivery is out: publishers and participant close.             *)
CleanupPublishers ==
    /\ cleaner.pc = "deliveries"
    /\ rx.d.pc = "idle"
    /\ tr' = [tr EXCEPT !.res = "closed", !.state = "closed"]
    /\ cleaner' = [cleaner EXCEPT !.pc = "done"]
    /\ UNCHANGED <<raw, lane, pend, quality, stats, rx, gate, polls, mail, remote, closer,
                   budget>>

CloseReturns ==
    /\ closer = "waiting"
    /\ tr.state = "closed"
    /\ closer' = "closed"
    /\ UNCHANGED <<raw, tr, lane, pend, quality, stats, rx, gate, polls, mail, remote, cleaner,
                   budget>>

-----------------------------------------------------------------------------
LaneStep(t) == LaneWake(t) \/ LaneClaim(t) \/ LaneSent(t) \/ LaneSendFails(t) \/ LaneDies(t)
                   \/ LaneExit(t)

ReceiveStep == RawStore \/ ProcessRaw \/ EnterGate \/ CallConsumer \/ ConsumerReturns
                   \/ Settle \/ ReceiveWorkerExit

PollStep(p) == PollCount(p) \/ PollApply(p)

CloseStep == QuiesceDone \/ CleanupClaim \/ CleanupSubscribers \/ CleanupPublishers
                 \/ CloseReturns \/ (closer = "close" /\ TrClose)

TrNext == \/ \E t \in TrTopics : TrPublish(t) \/ LaneStep(t)
          \/ RawEnter \/ Receive \/ ReceiveStep
          \/ RemoteChanges
          \/ \E p \in Pollers : PollBegin(p) \/ PollStep(p)
          \/ PollInCallback \/ CloseInCallback
          \/ Quiesce \/ TrClose \/ CloseStep

(* Every thread runs; nothing forces a call to be made.  Native sends,     *)
(* counts and the consumer return.                                         *)
TrFairness ==
    /\ \A t \in TrTopics : WF_trVars(LaneStep(t))
    /\ WF_trVars(ReceiveStep)
    /\ \A p \in Pollers : WF_trVars(PollStep(p))
    /\ WF_trVars(CloseStep)

TrSpec == TrInit /\ [][TrNext]_trVars /\ TrFairness

-----------------------------------------------------------------------------
(* Every message publish accepted is sent, failed, counted as dropped, or  *)
(* still held for its lane, exactly once; a closed transport holds none.   *)
SentOrCounted ==
    LET held == Len(pend) + Cardinality({t \in TrTopics : lane[t].claimed})
    IN  /\ stats.accepted = stats.sent + stats.failed + stats.dropped + held
        /\ tr.state = "closed" => held = 0

(* The consumer holds no command of a generation that a lost peer ended,   *)
(* and none is being delivered to it: the gate orders deliveries and edges.*)
NoCommandAcrossEdge ==
    ~TrStopped =>
        /\ mail # TrNone => mail = tr.gen
        /\ rx.d.pc = "callback" => rx.d.gen = tr.gen

(* Nothing uses a native resource that has been closed: no lane sends, no  *)
(* poll counts, no raw callback runs.                                      *)
NoUseAfterClose ==
    /\ tr.res # "open" => /\ \A p \in Pollers : polls[p].pc # "count"
                          /\ ~rx.arriving
                          /\ AllExited(lane)
    /\ tr.res = "closed" => rx.d.pc = "idle"

(* A discovery result never replaces that of a later poll.                 *)
NewestObservationWins == [][tr'.applied >= tr.applied]_trVars

(* Cleaning up, once claimed, ends, and a caller of close that waits       *)
(* returns, also when close was first called from inside a callback and    *)
(* when workers died before.                                               *)
TrCloseEnds == /\ tr.claimed ~> tr.state = "closed"
               /\ closer = "waiting" ~> closer = "closed"

(* The transport as its callers rely on it, through lost peers, dying      *)
(* lanes and every order of polls, callbacks and closing.                  *)
TransportKeepsItsWord ==
    /\ [](SentOrCounted /\ NoCommandAcrossEdge /\ NoUseAfterClose)
    /\ NewestObservationWins
    /\ TrCloseEnds
=============================================================================
