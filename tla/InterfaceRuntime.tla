-------------------------- MODULE InterfaceRuntime --------------------------
(***************************************************************************)
(* The v1 interface runtime (slope_sim/interfaces/runtime.py): one runtime *)
(* object shared by the physics thread ("loop"), the thread that rebuilds  *)
(* the world ("owner"), the thread that closes the runtime ("closer") and  *)
(* the transport's receive callbacks.  One step of a thread is one section *)
(* under the runtime's condition, or one call made outside it: what a      *)
(* section read may be old when the call it was read for is made.          *)
(***************************************************************************)
EXTENDS Integers, Sequences

CONSTANTS None,
          MaxGen,      \* bound on the lifecycle generation
          MaxWorld,    \* bound on the worlds built
          MaxToken,    \* bound on the subscription attempts
          MaxService,  \* bound on the LiDAR services started
          MaxCmd,      \* bound on the commands received
          Plans,       \* the sets of calls a host is made of
          DueSets      \* the sets of topics that fall due together

ASSUME RuntimeBounds ==
    /\ {MaxGen, MaxWorld, MaxToken, MaxService, MaxCmd} \subseteq Nat \ {0}
    /\ None \notin Nat
    /\ DueSets \subseteq SUBSET {"wheel", "lidar", "sensor"}

VARIABLES
    plan,      \* the calls this host makes besides the physics steps and close
    mode,      \* "local" (no peer, no LiDAR service) or "ecal"
    rt,        \* the runtime's fields, guarded by its condition
    mb,        \* the current mailbox object: identity, generation, command
    subs,      \* tokens of the subscriptions open in the transport
    svcs,      \* LiDAR services ever started: state, generation, job in flight
               \* (one of the present generation, stale, or overtaken: of the
               \* present generation by its stamp, its input of an earlier one)
    retired,   \* services the runtime still has to close
    latest,    \* payloads kept for the dashboard: topic and generation
    moving,    \* the bound robot's wheels turn
    cb,        \* the receive callback
    th,        \* the three threads
    host,      \* how far the host's scene transaction is
    deleted,   \* worlds the host has removed
    cmds       \* commands received so far

vars == <<plan, mode, rt, mb, subs, svcs, retired, latest, moving, cb, th, host, deleted, cmds>>

Thread == {"loop", "owner", "closer"}

Rest == [pc |-> "idle", gen |-> 0, pgen |-> 0, world |-> 0, topic |-> "none", todo |-> {},
         next |-> "idle", sub |-> None, svc |-> None, err |-> FALSE]

CallbackRest == [pc |-> "idle", token |-> None, mb |-> 0, mgen |-> 0, gen |-> 0, ok |-> FALSE]

Fresh(id) == [id |-> id, gen |-> 0, cmd |-> None]

Init ==
    /\ plan \in Plans
    /\ mode \in {"local", "ecal"}
    /\ rt = [state |-> "open", gen |-> 0, accepting |-> TRUE, ready |-> TRUE,
             paused |-> FALSE, token |-> 0, nextToken |-> 1, sub |-> 0, world |-> 0,
             svc |-> IF mode = "ecal" THEN 0 ELSE None, prepSvc |-> None,
             pausedSvc |-> None, fenced |-> FALSE, fence |-> None,
             preparing |-> FALSE, rebinding |-> FALSE, lidarCand |-> FALSE,
             prepared |-> FALSE, parked |-> FALSE,
             ops |-> 0, pubs |-> 0, peer |-> "waiting", seen |-> FALSE,
             twist |-> FALSE]
    /\ mb = Fresh(0)
    /\ subs = {0}
    /\ svcs = IF mode = "ecal" THEN <<[st |-> "ready", gen |-> 0, job |-> "none"]>> ELSE <<>>
    /\ retired = {}
    /\ latest = {}
    /\ moving = FALSE
    /\ cb = CallbackRest
    /\ th = [t \in Thread |-> Rest]
    /\ host = "none"
    /\ deleted = {}
    /\ cmds = 0

-----------------------------------------------------------------------------
(* Shared fragments.                                                       *)

Go(t, p) == th' = [th EXCEPT ![t].pc = p]

(* A service is known by its number, counted from 0. *)
Svc(s) == svcs[s + 1]

Stale(j) == IF j = "none" THEN "none" ELSE "stale"

SvcPaused(v) == IF v.st = "ready" THEN [v EXCEPT !.st = "suspended", !.job = Stale(@)] ELSE v

SvcResumed(v) == IF v.st = "suspended" THEN [v EXCEPT !.st = "ready"] ELSE v

SvcInvalidated(v, g) == IF v.gen = g THEN v ELSE [v EXCEPT !.gen = g, !.job = Stale(@)]

SvcIdle(v) == v.job = "none"

(* What a poll that finds an answer does to a service, and whether it      *)
(* returns a frame; one that finds none changes nothing.                   *)
Pollable(v) == v.job # "none" /\ v.st \notin {"failed", "closed"}

PollOutcomes(v) == {<<[v EXCEPT !.job = "none"], v.job # "stale">>,
                    <<[v EXCEPT !.st = "failed"], FALSE>>}

Publishable(g, t) ==
    IF t = "closer"
    THEN rt.state = "closing" /\ ~rt.paused /\ rt.gen = g
    ELSE rt.state = "open" /\ rt.ready /\ ~rt.paused /\ rt.gen = g

CanCommitPublish(g, t) ==
    IF t = "closer"
    THEN rt.state = "closing" /\ rt.gen = g
    ELSE rt.state = "open" /\ rt.ready /\ rt.gen = g

Cleared(m) == [m EXCEPT !.gen = @ + 1, !.cmd = None]

(* _begin_new_command_epoch_locked *)
NewEpoch(r) == [r EXCEPT !.seen = FALSE,
                         !.peer = IF mode = "ecal" /\ @ # "disconnected" THEN "waiting" ELSE @]

-----------------------------------------------------------------------------
(* Receiving a command: three sections around the decode and the mailbox.  *)

Deliver ==
    /\ cb.pc = "idle"
    /\ mode = "ecal"
    /\ cmds < MaxCmd
    /\ \E k \in subs : cb' = [cb EXCEPT !.pc = "entered", !.token = k]
    /\ cmds' = cmds + 1
    /\ UNCHANGED <<plan, mode, rt, mb, subs, svcs, retired, latest, moving, th, host, deleted>>

CallbackCurrent == rt.state = "open" /\ rt.accepting /\ cb.token = rt.token

Ingress ==
    /\ cb.pc = "entered"
    /\ cb' = IF CallbackCurrent
             THEN [cb EXCEPT !.pc = "decoded", !.mb = mb.id, !.mgen = mb.gen, !.gen = rt.gen]
             ELSE CallbackRest
    /\ UNCHANGED <<plan, mode, rt, mb, subs, svcs, retired, latest, moving, th, host, deleted, cmds>>

(* Mutant: the mailbox takes the command whatever generation was captured. *)
AcceptAnyGeneration ==
    /\ cb.pc = "decoded"
    /\ cb' = [cb EXCEPT !.pc = "accepted", !.ok = TRUE]
    /\ mb' = [mb EXCEPT !.cmd = [token |-> cb.token, gen |-> cb.gen]]
    /\ UNCHANGED <<plan, mode, rt, subs, svcs, retired, latest, moving, th, host, deleted, cmds>>

(* mailbox.accept on the captured object and generation; a payload that    *)
(* does not decode or validate is refused.                                 *)
Accept ==
    /\ cb.pc = "decoded"
    /\ \E valid \in BOOLEAN :
         LET ok == valid /\ mb.id = cb.mb /\ mb.gen = cb.mgen
         IN  /\ cb' = [cb EXCEPT !.pc = "accepted", !.ok = ok]
             /\ mb' = IF ok THEN [mb EXCEPT !.cmd = [token |-> cb.token, gen |-> cb.gen]] ELSE mb
    /\ UNCHANGED <<plan, mode, rt, subs, svcs, retired, latest, moving, th, host, deleted, cmds>>

StillCurrent == CallbackCurrent /\ rt.gen = cb.gen /\ mb.id = cb.mb

Account ==
    /\ cb.pc = "accepted"
    /\ cb' = CallbackRest
    /\ IF StillCurrent /\ cb.ok
       THEN /\ latest' = {p \in latest : p.topic # "command"}
                             \cup {[topic |-> "command", gen |-> cb.gen]}
            /\ rt' = [rt EXCEPT !.seen = TRUE,
                                !.peer = IF mode = "ecal" /\ @ = "waiting" THEN "active" ELSE @]
       ELSE UNCHANGED <<latest, rt>>
    /\ UNCHANGED <<plan, mode, mb, subs, svcs, retired, moving, th, host, deleted, cmds>>

Callback == Deliver \/ Ingress \/ Accept \/ Account

-----------------------------------------------------------------------------
(* Publishing: admitted under the condition, sent outside it, committed    *)
(* and released under it again.  A local command loops back through the    *)
(* callback before publish returns.                                        *)

PublishAdmit(t) ==
    /\ th[t].pc = "publish"
    /\ IF Publishable(th[t].pgen, t)
       THEN /\ rt' = [rt EXCEPT !.pubs = @ + 1]
            /\ Go(t, IF th[t].topic = "command" THEN "send" ELSE "sent")
       ELSE /\ Go(t, th[t].next)
            /\ UNCHANGED rt
    /\ UNCHANGED <<plan, mode, mb, subs, svcs, retired, latest, moving, cb, host, deleted, cmds>>

(* LocalTransport.publish calls the subscriptions open at this moment; of  *)
(* two (a rebind's) at most one holds the active token.                    *)
PublishSend(t) ==
    /\ th[t].pc = "send"
    /\ cb.pc = "idle"
    /\ IF subs = {} THEN UNCHANGED cb
       ELSE \E k \in subs : cb' = [cb EXCEPT !.pc = "entered", !.token = k]
    /\ Go(t, "sent")
    /\ UNCHANGED <<plan, mode, rt, mb, subs, svcs, retired, latest, moving, host, deleted, cmds>>

PublishCommit(t) ==
    /\ th[t].pc = "sent"
    /\ th[t].topic = "command" => cb.pc = "idle"
    /\ rt' = [rt EXCEPT !.pubs = @ - 1]
    /\ \E ok \in BOOLEAN :
         latest' = IF ok /\ CanCommitPublish(th[t].pgen, t) /\ th[t].topic # "command"
                   THEN {p \in latest : p.topic # th[t].topic}
                            \cup {[topic |-> th[t].topic, gen |-> th[t].pgen]}
                   ELSE latest
    /\ th' = [th EXCEPT ![t].pc = th[t].next, ![t].topic = "none", ![t].pgen = 0,
                        ![t].next = "idle"]
    /\ UNCHANGED <<plan, mode, mb, subs, svcs, retired, moving, cb, host, deleted, cmds>>

Publish(t) == PublishAdmit(t) \/ PublishSend(t) \/ PublishCommit(t)

-----------------------------------------------------------------------------
(* The physics thread.                                                     *)

Polling(t) == rt.svc # None /\ (rt.state = "open" \/ (t = "closer" /\ rt.state = "closing"))

(* _poll_lidar_service: the service is taken under the condition and       *)
(* polled outside it; a frame is published under the generation it bears.  *)
PollTake(t, after) ==
    LET own == IF t = "closer" THEN th[t] ELSE Rest
    IN  th' = [th EXCEPT ![t] = IF Polling(t)
                                THEN [own EXCEPT !.pc = "polling", !.svc = rt.svc, !.next = after]
                                ELSE [own EXCEPT !.pc = after]]

(* The loop goes on without an answer.  Who waits for the service polls on *)
(* until one is there; its turns without one are left out.                 *)
PollCall(t) ==
    /\ th[t].pc = "polling"
    /\ LET v    == Svc(th[t].svc)
           done == [th[t] EXCEPT !.svc = IF t = "closer" THEN @ ELSE None]
       IN  \/ /\ Pollable(v)
              /\ \E out \in PollOutcomes(v) :
                   /\ svcs' = [svcs EXCEPT ![th[t].svc + 1] = out[1]]
                   /\ th' = [th EXCEPT ![t] =
                        IF out[2] THEN [done EXCEPT !.pc = "publish", !.topic = "lidar", !.pgen = v.gen]
                        ELSE [done EXCEPT !.pc = th[t].next, !.next = "idle"]]
           \/ /\ t = "loop" \/ ~Pollable(v)
              /\ th' = [th EXCEPT ![t] = [done EXCEPT !.pc = th[t].next, !.next = "idle"]]
              /\ UNCHANGED svcs
    /\ UNCHANGED <<plan, mode, rt, mb, subs, retired, latest, moving, cb, host, deleted, cmds>>

(* Every hook polls the service: before_physics_step first of all,         *)
(* after_physics_step when its batch is over.                              *)
PollLidar ==
    /\ \/ /\ th["loop"].pc = "idle"
          /\ rt.state = "open"
          /\ PollTake("loop", "admit")
       \/ /\ th["loop"].pc = "sensors"
          /\ th["loop"].todo = {}
          /\ PollTake("loop", "idle")
    /\ UNCHANGED <<plan, mode, rt, mb, subs, svcs, retired, latest, moving, cb, host, deleted, cmds>>

(* submit_local_twist *)
SubmitLocalTwist ==
    /\ mode = "local"
    /\ rt.state = "open"
    /\ rt.accepting
    /\ ~rt.twist
    /\ rt' = [rt EXCEPT !.twist = TRUE]
    /\ UNCHANGED <<plan, mode, mb, subs, svcs, retired, latest, moving, cb, th, host, deleted, cmds>>

(* before_physics_step captures the generation. *)
BeforeCapture ==
    /\ th["loop"].pc = "admit"
    /\ th' = [th EXCEPT !["loop"] =
                 IF rt.state # "open" \/ rt.paused \/ ~rt.ready THEN Rest
                 ELSE [Rest EXCEPT !.gen = rt.gen,
                                   !.pc = IF mode = "local" THEN "twist" ELSE "drive"]]
    /\ UNCHANGED <<plan, mode, rt, mb, subs, svcs, retired, latest, moving, cb, host, deleted, cmds>>

(* In local mode the held twist is published as a command first. *)
LocalCommand ==
    /\ th["loop"].pc = "twist"
    /\ IF rt.state = "open" /\ ~rt.paused /\ rt.ready /\ rt.twist /\ cmds < MaxCmd
       THEN /\ cmds' = cmds + 1
            /\ th' = [th EXCEPT !["loop"].pc = "publish", !["loop"].pgen = th["loop"].gen,
                                !["loop"].topic = "command", !["loop"].next = "drive"]
       ELSE Go("loop", "drive") /\ UNCHANGED cmds
    /\ UNCHANGED <<plan, mode, rt, mb, subs, svcs, retired, latest, moving, cb, host, deleted>>

(* The mailbox's decision reaches the robot; a command may have timed out. *)
Drive ==
    /\ th["loop"].pc = "drive"
    /\ th' = [th EXCEPT !["loop"] = Rest]
    /\ IF rt.state # "open" \/ rt.paused \/ ~rt.ready \/ rt.gen # th["loop"].gen
       THEN UNCHANGED moving
       ELSE \E late \in BOOLEAN : moving' = (mb.cmd # None /\ ~late)
    /\ UNCHANGED <<plan, mode, rt, mb, subs, svcs, retired, latest, cb, host, deleted, cmds>>

(* The topics of a physics step are handled in this order. *)
FirstOf(todo) == CASE "wheel" \in todo -> "wheel"
                   [] "lidar" \in todo -> "lidar"
                   [] OTHER -> "sensor"

(* after_physics_step: clock and schedulers advance, the due topics are    *)
(* those whose period ended (the schedulers decide).                       *)
AfterStep ==
    /\ th["loop"].pc = "idle"
    /\ rt.state = "open"
    /\ ~rt.paused
    /\ rt.ready
    /\ \E due \in DueSets :
         th' = [th EXCEPT !["loop"] = [Rest EXCEPT !.pc = "wheels", !.gen = rt.gen, !.todo = due]]
    /\ UNCHANGED <<plan, mode, rt, mb, subs, svcs, retired, latest, moving, cb, host, deleted, cmds>>

Section(topic) == IF topic = "wheel" THEN "wheels" ELSE "sensors"

(* The loop between two topics of its batch. *)
Between(p, todo, svc) ==
    [Rest EXCEPT !.pc = p, !.gen = th["loop"].gen, !.todo = todo,
                 !.svc = IF todo = {} THEN None ELSE svc]

(* The wheel states are out; the service of the batch is taken here, once. *)
TakeSensors ==
    /\ th["loop"].pc = "wheels"
    /\ "wheel" \notin th["loop"].todo
    /\ LET todo == IF Publishable(th["loop"].gen, "loop") THEN th["loop"].todo ELSE {}
       IN  th' = [th EXCEPT !["loop"] = Between("sensors", todo, rt.svc)]
    /\ UNCHANGED <<plan, mode, rt, mb, subs, svcs, retired, latest, moving, cb, host, deleted, cmds>>

(* A topic's read is registered as a world operation, or the batch ends.   *)
BeginRead ==
    /\ th["loop"].todo # {}
    /\ LET batch   == th["loop"]
           topic   == FirstOf(batch.todo)
           current == Publishable(batch.gen, "loop")
           skip    == topic = "lidar" /\ batch.svc # None /\ rt.fenced
           left    == IF current \/ topic = "wheel" THEN batch.todo \ {topic} ELSE {}
       IN  /\ batch.pc = Section(topic)
           /\ IF current /\ ~skip
              THEN /\ rt' = [rt EXCEPT !.ops = @ + 1]
                   /\ th' = [th EXCEPT !["loop"] = [batch EXCEPT !.pc = "reading", !.topic = topic,
                                                        !.world = rt.world, !.todo = left]]
              ELSE /\ th' = [th EXCEPT !["loop"] = Between(@.pc, left, @.svc)]
                   /\ UNCHANGED rt
    /\ UNCHANGED <<plan, mode, mb, subs, svcs, retired, latest, moving, cb, host, deleted, cmds>>

(* Mutant: a read that fails is never released. *)
FinishReadLeaking ==
    /\ th["loop"].pc = "reading"
    /\ \E ok \in BOOLEAN :
         /\ rt' = IF ok THEN [rt EXCEPT !.ops = @ - 1] ELSE rt
         /\ th' = [th EXCEPT !["loop"] = Between(Section(@.topic), @.todo, @.svc)]
    /\ UNCHANGED <<plan, mode, mb, subs, svcs, retired, latest, moving, cb, host, deleted, cmds>>

(* The robot or the sensors are read outside the condition. *)
FinishRead ==
    /\ th["loop"].pc = "reading"
    /\ rt' = [rt EXCEPT !.ops = @ - 1]
    /\ LET batch  == th["loop"]
           leave  == Between(Section(batch.topic), batch.todo, batch.svc)
       IN  \/ th' = [th EXCEPT !["loop"] = leave]
           \/ /\ batch.topic = "lidar"
              /\ batch.svc # None
              /\ th' = [th EXCEPT !["loop"].pc = "capture", !["loop"].world = 0]
           \/ /\ batch.topic # "lidar" \/ batch.svc = None
              /\ th' = [th EXCEPT !["loop"] = [leave EXCEPT !.pc = "publish", !.topic = batch.topic,
                                                   !.pgen = batch.gen, !.next = leave.pc]]
    /\ UNCHANGED <<plan, mode, mb, subs, svcs, retired, latest, moving, cb, host, deleted, cmds>>

(* The read is released; the frozen input is checked once more.            *)
CaptureCheck ==
    /\ th["loop"].pc = "capture"
    /\ LET batch   == th["loop"]
           current == Publishable(batch.gen, "loop")
       IN  th' = [th EXCEPT !["loop"] =
                    IF current /\ ~rt.fenced THEN [batch EXCEPT !.pc = "capturing"]
                    ELSE Between("sensors", IF current THEN batch.todo ELSE {}, batch.svc)]
    /\ UNCHANGED <<plan, mode, rt, mb, subs, svcs, retired, latest, moving, cb, host, deleted, cmds>>

(* service.capture, outside the condition, on the service of the batch: it *)
(* stamps the generation it has now, whatever the batch's was.  A capture  *)
(* that has to wait for the job in flight is left to LidarScanService.     *)
Capture ==
    /\ th["loop"].pc = "capturing"
    /\ LET batch == th["loop"]
           v     == Svc(batch.svc)
       IN  /\ svcs' = IF v.st = "ready" /\ SvcIdle(v)
                      THEN [svcs EXCEPT ![batch.svc + 1].job =
                               IF v.gen = batch.gen THEN "fresh" ELSE "overtaken"]
                      ELSE svcs
           /\ th' = [th EXCEPT !["loop"] = Between("sensors", batch.todo, batch.svc)]
    /\ UNCHANGED <<plan, mode, rt, mb, subs, retired, latest, moving, cb, host, deleted, cmds>>

Loop == \/ PollLidar \/ PollCall("loop") \/ SubmitLocalTwist
        \/ BeforeCapture \/ LocalCommand \/ Drive
        \/ AfterStep \/ TakeSensors \/ BeginRead \/ FinishRead
        \/ CaptureCheck \/ Capture \/ Publish("loop")

-----------------------------------------------------------------------------
(* The rebuilding thread: pause, resume, the peer's discovery edges, and   *)
(* the two-phase world rebuild.                                            *)

OwnerIdle == th["owner"].pc = "idle" /\ rt.state = "open"

Pause ==
    /\ "pause" \in plan
    /\ OwnerIdle
    /\ ~rt.paused
    /\ LET owns == rt.svc # None /\ Svc(rt.svc).st = "ready"
       IN  /\ rt' = [rt EXCEPT !.paused = TRUE, !.pausedSvc = IF owns THEN rt.svc ELSE None]
           /\ svcs' = IF owns THEN [svcs EXCEPT ![rt.svc + 1] = SvcPaused(@)] ELSE svcs
    /\ UNCHANGED <<plan, mode, mb, subs, retired, latest, moving, cb, th, host, deleted, cmds>>

Resume ==
    /\ OwnerIdle
    /\ rt.paused
    /\ svcs' = IF rt.pausedSvc # None /\ rt.pausedSvc = rt.svc
               THEN [svcs EXCEPT ![rt.svc + 1] = SvcResumed(@)] ELSE svcs
    /\ rt' = [rt EXCEPT !.paused = FALSE, !.pausedSvc = None]
    /\ UNCHANGED <<plan, mode, mb, subs, retired, latest, moving, cb, th, host, deleted, cmds>>

(* handle_peer_state: the command peer disappears. *)
PeerLost ==
    /\ "peer" \in plan
    /\ OwnerIdle
    /\ mode = "ecal"
    /\ rt.peer # "disconnected"
    /\ rt.gen < MaxGen
    /\ rt' = [rt EXCEPT !.gen = @ + 1, !.seen = FALSE, !.peer = "disconnected", !.twist = FALSE]
    /\ svcs' = [svcs EXCEPT ![rt.svc + 1] = SvcInvalidated(@, rt.gen + 1)]
    /\ mb' = Cleared(mb)
    /\ latest' = {}
    /\ UNCHANGED <<plan, mode, subs, retired, moving, cb, th, host, deleted, cmds>>

(* handle_peer_state: the peer is seen again; active needs a new command.  *)
PeerSeen ==
    /\ "peer" \in plan
    /\ OwnerIdle
    /\ mode = "ecal"
    /\ \E active \in BOOLEAN :
         /\ rt.peer = "disconnected" => ~active
         /\ rt' = [rt EXCEPT !.peer = IF active /\ rt.seen THEN "active" ELSE "waiting",
                             !.seen = @ /\ rt.peer # "disconnected"]
    /\ rt' # rt
    /\ UNCHANGED <<plan, mode, mb, subs, svcs, retired, latest, moving, cb, th, host, deleted, cmds>>

(* begin_sensor_fence: no new capture, then what was captured drains.  A   *)
(* call that gives up after 250 ms leaves the fence in place and nobody    *)
(* with a handle to complete it.                                           *)
BeginFence ==
    /\ "fence" \in plan
    /\ OwnerIdle
    /\ rt.svc # None
    /\ rt.fence = None
    /\ rt' = [rt EXCEPT !.fenced = TRUE,
                        !.fence = [svc |-> rt.svc, ready |-> FALSE, given |-> FALSE]]
    /\ Go("owner", "fence_snapshot")
    /\ UNCHANGED <<plan, mode, mb, subs, svcs, retired, latest, moving, cb, host, deleted, cmds>>

FenceSnapshot ==
    /\ th["owner"].pc = "fence_snapshot"
    /\ LET v == Svc(rt.fence.svc)
       IN  th' = [th EXCEPT !["owner"].pc = "fence_claim",
                            !["owner"].todo = {f \in {"ready", "busy"} :
                                                  IF f = "ready" THEN v.st = "ready" ELSE ~SvcIdle(v)}]
    /\ UNCHANGED <<plan, mode, rt, mb, subs, svcs, retired, latest, moving, cb, host, deleted, cmds>>

FenceClaim ==
    /\ th["owner"].pc = "fence_claim"
    /\ LET busy == "busy" \in th["owner"].todo
       IN  IF rt.state = "open"
           THEN /\ rt' = [rt EXCEPT !.fence.ready = "ready" \in th["owner"].todo,
                                    !.fence.given = ~busy]
                /\ th' = [th EXCEPT !["owner"] = [Rest EXCEPT !.pc = IF busy THEN "fencing" ELSE "idle"]]
           ELSE th' = [th EXCEPT !["owner"] = Rest] /\ UNCHANGED rt
    /\ UNCHANGED <<plan, mode, mb, subs, svcs, retired, latest, moving, cb, host, deleted, cmds>>

FencePoll ==
    /\ th["owner"].pc = "fencing"
    /\ PollTake("owner", "fence_look")
    /\ UNCHANGED <<plan, mode, rt, mb, subs, svcs, retired, latest, moving, cb, host, deleted, cmds>>

FenceLook ==
    /\ th["owner"].pc = "fence_look"
    /\ LET v == Svc(rt.fence.svc)
       IN  /\ SvcIdle(v) \/ (Pollable(v) /\ Polling("owner"))
           /\ th' = [th EXCEPT !["owner"] = [Rest EXCEPT !.pc = IF SvcIdle(v) THEN "idle" ELSE "fencing"]]
           /\ rt' = [rt EXCEPT !.fence.given = SvcIdle(v)]
    /\ UNCHANGED <<plan, mode, mb, subs, svcs, retired, latest, moving, cb, host, deleted, cmds>>

FenceExpire ==
    /\ th["owner"].pc \in {"fence_snapshot", "fence_look"}
    /\ th' = [th EXCEPT !["owner"] = Rest]
    /\ UNCHANGED <<plan, mode, rt, mb, subs, svcs, retired, latest, moving, cb, host, deleted, cmds>>

CompleteFence ==
    /\ OwnerIdle
    /\ rt.fence # None
    /\ rt.fence.given
    /\ \E resume \in BOOLEAN :
         rt' = [rt EXCEPT !.fence = None,
                          !.fenced = @ /\ ~(resume /\ rt.fence.ready /\ rt.svc = rt.fence.svc)]
    /\ UNCHANGED <<plan, mode, mb, subs, svcs, retired, latest, moving, cb, th, host, deleted, cmds>>

(* prepare_world_rebuild, first section: ingress and reads are closed.     *)
Prepare ==
    /\ "rebuild" \in plan
    /\ OwnerIdle
    /\ host = "none"
    /\ rt.ready
    /\ rt.gen < MaxGen
    /\ rt' = [rt EXCEPT !.preparing = TRUE, !.prepared = FALSE, !.parked = FALSE,
                        !.accepting = FALSE, !.ready = FALSE, !.token = None, !.sub = None,
                        !.fenced = @ \/ rt.svc # None, !.prepSvc = rt.svc]
    /\ th' = [th EXCEPT !["owner"] = [Rest EXCEPT !.pc = IF rt.svc = None THEN "quiesce" ELSE "drain",
                                                  !.sub = rt.sub]]
    /\ UNCHANGED <<plan, mode, mb, subs, svcs, retired, latest, moving, cb, host, deleted, cmds>>

(* The service is paused and its job awaited for at most 250 ms.           *)
PrepareDrain ==
    /\ th["owner"].pc = "drain"
    /\ svcs' = [svcs EXCEPT ![rt.prepSvc + 1] = SvcPaused(@)]
    /\ Go("owner", "drain_look")
    /\ UNCHANGED <<plan, mode, rt, mb, subs, retired, latest, moving, cb, host, deleted, cmds>>

PrepareLook ==
    /\ th["owner"].pc = "drain_look"
    /\ LET v == Svc(rt.prepSvc)
       IN  /\ SvcIdle(v) \/ Pollable(v)
           /\ Go("owner", IF SvcIdle(v) THEN "quiesce" ELSE "drain_poll")
    /\ UNCHANGED <<plan, mode, rt, mb, subs, svcs, retired, latest, moving, cb, host, deleted, cmds>>

PreparePoll ==
    /\ th["owner"].pc = "drain_poll"
    /\ LET v == Svc(rt.prepSvc)
       IN  IF Pollable(v)
           THEN \E out \in PollOutcomes(v) : svcs' = [svcs EXCEPT ![rt.prepSvc + 1] = out[1]]
           ELSE UNCHANGED svcs
    /\ Go("owner", "drain_look")
    /\ UNCHANGED <<plan, mode, rt, mb, subs, retired, latest, moving, cb, host, deleted, cmds>>

PrepareExpire ==
    /\ th["owner"].pc = "drain_look"
    /\ th' = [th EXCEPT !["owner"].pc = "quiesce", !["owner"].err = TRUE]
    /\ UNCHANGED <<plan, mode, rt, mb, subs, svcs, retired, latest, moving, cb, host, deleted, cmds>>

(* Reads and publishes in flight leave, then the generation moves.         *)
PrepareQuiesce ==
    /\ th["owner"].pc = "quiesce"
    /\ rt.ops = 0
    /\ rt.pubs = 0
    /\ rt' = NewEpoch([rt EXCEPT !.gen = @ + 1, !.twist = FALSE])
    /\ svcs' = IF rt.prepSvc = None THEN svcs
               ELSE [svcs EXCEPT ![rt.prepSvc + 1] = SvcInvalidated(@, rt.gen + 1)]
    /\ mb' = Cleared(mb)
    /\ latest' = {}
    /\ Go("owner", "unsubscribe")
    /\ UNCHANGED <<plan, mode, subs, retired, moving, cb, host, deleted, cmds>>

(* subscription.close: LocalTransport waits until the callback is out,     *)
(* EcalTransport only stops further deliveries.                            *)
Unsubscribe(t, after) ==
    /\ th[t].sub # None /\ mode = "local" => cb.token # th[t].sub
    /\ subs' = subs \ {th[t].sub}
    /\ th' = [th EXCEPT ![t].pc = after, ![t].sub = None]

PrepareUnsubscribe ==
    /\ th["owner"].pc = "unsubscribe"
    /\ Unsubscribe("owner", "park")
    /\ UNCHANGED <<plan, mode, rt, mb, svcs, retired, latest, moving, cb, host, deleted, cmds>>

(* The old robot is stopped; the call may fail. *)
PreparePark ==
    /\ th["owner"].pc = "park"
    /\ \E parked \in BOOLEAN :
         /\ moving' = (moving /\ ~parked)
         /\ th' = [th EXCEPT !["owner"].pc = "prepared",
                             !["owner"].todo = IF parked THEN {"parked"} ELSE {}]
    /\ UNCHANGED <<plan, mode, rt, mb, subs, svcs, retired, latest, cb, host, deleted, cmds>>

PrepareEnd ==
    /\ th["owner"].pc = "prepared"
    /\ LET parked == "parked" \in th["owner"].todo
       IN  /\ rt' = [rt EXCEPT !.preparing = FALSE, !.prepared = TRUE, !.parked = parked]
           /\ host' = IF parked /\ ~th["owner"].err THEN "prepared" ELSE "failed"
    /\ th' = [th EXCEPT !["owner"] = Rest]
    /\ UNCHANGED <<plan, mode, mb, subs, svcs, retired, latest, moving, cb, deleted, cmds>>

(* The host removes the old world (coordinator.py). *)
DeleteWorld ==
    /\ host = "prepared"
    /\ th["owner"].pc = "idle"
    /\ host' = "deleted"
    /\ deleted' = deleted \cup {rt.world}
    /\ moving' = FALSE
    /\ UNCHANGED <<plan, mode, rt, mb, subs, svcs, retired, latest, cb, th, cmds>>

(* The fields abort and commit write once a fresh subscription is in place.*)
Restored(k) ==
    NewEpoch([rt EXCEPT !.sub = k, !.token = k, !.accepting = TRUE,
                        !.ready = TRUE, !.prepared = FALSE, !.parked = FALSE,
                        !.fenced = FALSE, !.pausedSvc = None, !.prepSvc = None])

Faulted == [rt EXCEPT !.state = "faulted", !.accepting = FALSE, !.ready = FALSE,
                      !.prepared = FALSE, !.sub = None, !.token = None]

(* _subscribe_wheel_command: a fresh token is taken, then the transport is *)
(* asked, which refuses once it is closed and may fail before.             *)
TakeToken ==
    /\ th["owner"].pc = "token"
    /\ rt' = [rt EXCEPT !.nextToken = @ + 1]
    /\ th' = [th EXCEPT !["owner"].pc = "subscribe", !["owner"].sub = rt.nextToken]
    /\ UNCHANGED <<plan, mode, mb, subs, svcs, retired, latest, moving, cb, host, deleted, cmds>>

Unsubscribed(next) == CASE next = "swap"  -> "undo"
                        [] next = "abort" -> "abort_close"
                        [] OTHER          -> "idle"

Subscribe ==
    /\ th["owner"].pc = "subscribe"
    /\ \/ /\ rt.state # "closed"
          /\ subs' = subs \cup {th["owner"].sub}
          /\ th' = [th EXCEPT !["owner"].pc = th["owner"].next, !["owner"].next = "idle"]
       \/ /\ th' = [th EXCEPT !["owner"].pc = Unsubscribed(th["owner"].next),
                               !["owner"].next = "idle", !["owner"].sub = None]
          /\ UNCHANGED subs
    /\ UNCHANGED <<plan, mode, rt, mb, svcs, retired, latest, moving, cb, host, deleted, cmds>>

(* abort_world_rebuild.  The reservation that keeps a second owner out is  *)
(* not modelled: there is one.                                             *)
Abort ==
    /\ OwnerIdle
    /\ host \in {"prepared", "failed"}
    /\ rt.prepared
    /\ rt.nextToken <= MaxToken
    /\ th' = [th EXCEPT !["owner"] = [Rest EXCEPT !.pc = IF rt.prepSvc = None THEN "token" ELSE "abort_look",
                                                  !.gen = rt.gen, !.next = "abort"]]
    /\ UNCHANGED <<plan, mode, rt, mb, subs, svcs, retired, latest, moving, cb, host, deleted, cmds>>

(* Only an idle, suspended service can be taken back; if it is not, the    *)
(* call is refused and the runtime stays prepared.                         *)
Reusable(v, g) == v.gen = g /\ v.st = "suspended" /\ SvcIdle(v)

AbortLook ==
    /\ th["owner"].pc = "abort_look"
    /\ IF Reusable(Svc(rt.prepSvc), th["owner"].gen)
       THEN Go("owner", "token") /\ UNCHANGED host
       ELSE th' = [th EXCEPT !["owner"] = Rest] /\ host' = "failed"
    /\ UNCHANGED <<plan, mode, rt, mb, subs, svcs, retired, latest, moving, cb, deleted, cmds>>

AbortSwap ==
    /\ th["owner"].pc = "abort"
    /\ rt.state = "open"
    /\ rt' = Restored(th["owner"].sub)
    /\ svcs' = IF rt.prepSvc = None THEN svcs
               ELSE [svcs EXCEPT ![rt.prepSvc + 1] = SvcResumed(@)]
    /\ mb' = Fresh(mb.id + 1)
    /\ latest' = {}
    /\ host' = "none"
    /\ th' = [th EXCEPT !["owner"] = Rest]
    /\ UNCHANGED <<plan, mode, subs, retired, moving, cb, deleted, cmds>>

(* The runtime was closed meanwhile: the new subscription goes again.      *)
AbortLost ==
    /\ th["owner"].pc = "abort"
    /\ rt.state # "open"
    /\ Go("owner", "abort_close")
    /\ UNCHANGED <<plan, mode, rt, mb, subs, svcs, retired, latest, moving, cb, host, deleted, cmds>>

AbortClose ==
    /\ th["owner"].pc = "abort_close"
    /\ Unsubscribe("owner", "abort_fault")
    /\ UNCHANGED <<plan, mode, rt, mb, svcs, retired, latest, moving, cb, host, deleted, cmds>>

(* The failed abort faults a runtime that is still prepared.               *)
AbortFail ==
    /\ th["owner"].pc = "abort_fault"
    /\ th' = [th EXCEPT !["owner"] = Rest]
    /\ host' = "none"
    /\ IF rt.state = "open"
       THEN rt' = Faulted /\ mb' = Cleared(mb) /\ latest' = {}
       ELSE UNCHANGED <<rt, mb, latest>>
    /\ UNCHANGED <<plan, mode, subs, svcs, retired, moving, cb, deleted, cmds>>

(* fault_world_rebuild *)
Fault ==
    /\ OwnerIdle
    /\ host \in {"failed", "deleted"}
    /\ rt.prepared
    /\ rt' = [Faulted EXCEPT !.twist = FALSE]
    /\ mb' = Cleared(mb)
    /\ latest' = {}
    /\ host' = "none"
    /\ UNCHANGED <<plan, mode, subs, svcs, retired, moving, cb, th, deleted, cmds>>

(* commit_world_rebuild *)
Commit ==
    /\ OwnerIdle
    /\ host = "deleted"
    /\ rt.prepared
    /\ rt.world < MaxWorld
    /\ rt.nextToken <= MaxToken
    /\ th' = [th EXCEPT !["owner"] = [Rest EXCEPT !.pc = IF rt.prepSvc = None THEN "token" ELSE "candidate",
                                                  !.gen = rt.gen, !.next = "swap"]]
    /\ UNCHANGED <<plan, mode, rt, mb, subs, svcs, retired, latest, moving, cb, host, deleted, cmds>>

(* The old service is reused when the document is the same and the service *)
(* still idle.                                                             *)
CommitReuse ==
    /\ th["owner"].pc = "candidate"
    /\ th' = [th EXCEPT !["owner"].pc = IF Reusable(Svc(rt.prepSvc), th["owner"].gen) THEN "token" ELSE "release",
                        !["owner"].svc = rt.prepSvc]
    /\ UNCHANGED <<plan, mode, rt, mb, subs, svcs, retired, latest, moving, cb, host, deleted, cmds>>

(* Another document needs another service. *)
CommitReplace ==
    /\ th["owner"].pc = "candidate"
    /\ Len(svcs) < MaxService
    /\ rt' = [rt EXCEPT !.lidarCand = (rt.state = "open")]
    /\ Go("owner", IF rt.state = "open" THEN "factory" ELSE "release")
    /\ UNCHANGED <<plan, mode, mb, subs, svcs, retired, latest, moving, cb, host, deleted, cmds>>

(* The factory starts a service for the new document; it may fail, or the  *)
(* service, which nobody else knows yet, may not come up ready.            *)
CommitFactory ==
    /\ th["owner"].pc = "factory"
    /\ \/ /\ Go("owner", "release")
          /\ UNCHANGED svcs
       \/ \E up \in BOOLEAN :
            /\ svcs' = Append(svcs, [st |-> IF up THEN "ready" ELSE "failed",
                                     gen |-> th["owner"].gen, job |-> "none"])
            /\ th' = [th EXCEPT !["owner"].pc = IF up THEN "token" ELSE "register",
                                !["owner"].svc = Len(svcs)]
    /\ UNCHANGED <<plan, mode, rt, mb, subs, retired, latest, moving, cb, host, deleted, cmds>>

Replaces == rt.prepSvc # None /\ th["owner"].svc # rt.prepSvc

(* The new world is published in one section.                              *)
CommitSwap ==
    /\ th["owner"].pc = "swap"
    /\ rt.state = "open"
    /\ rt' = [Restored(th["owner"].sub) EXCEPT !.world = @ + 1, !.svc = th["owner"].svc]
    /\ svcs' = IF rt.prepSvc = None \/ Replaces THEN svcs
               ELSE [svcs EXCEPT ![rt.prepSvc + 1] = SvcResumed(@)]
    /\ retired' = IF Replaces THEN retired \cup {rt.prepSvc} ELSE retired
    /\ mb' = Fresh(mb.id + 1)
    /\ latest' = {}
    /\ host' = "none"
    /\ moving' = FALSE
    /\ th' = [th EXCEPT !["owner"].pc = IF Replaces THEN "cleanup" ELSE "release",
                        !["owner"].svc = rt.prepSvc, !["owner"].sub = None]
    /\ UNCHANGED <<plan, mode, subs, cb, deleted, cmds>>

(* The runtime was closed meanwhile. *)
CommitLost ==
    /\ th["owner"].pc = "swap"
    /\ rt.state # "open"
    /\ Go("owner", "undo")
    /\ UNCHANGED <<plan, mode, rt, mb, subs, svcs, retired, latest, moving, cb, host, deleted, cmds>>

(* A failed commit closes its subscription and retires its own service.    *)
CommitUndo ==
    /\ th["owner"].pc = "undo"
    /\ Unsubscribe("owner", IF Replaces THEN "register" ELSE "release")
    /\ UNCHANGED <<plan, mode, rt, mb, svcs, retired, latest, moving, cb, host, deleted, cmds>>

CommitRegister ==
    /\ th["owner"].pc = "register"
    /\ retired' = retired \cup {th["owner"].svc}
    /\ Go("owner", "cleanup")
    /\ UNCHANGED <<plan, mode, rt, mb, subs, svcs, latest, moving, cb, host, deleted, cmds>>

(* _cleanup_retired_lidar_service: closed and forgotten, or kept for close.*)
(* It claims the service first, so nobody else can act on it meanwhile.    *)
CleanupRetired(s) ==
    \/ /\ SvcIdle(Svc(s))
       /\ svcs' = [svcs EXCEPT ![s + 1].st = "closed"]
       /\ retired' = retired \ {s}
    \/ UNCHANGED <<svcs, retired>>

CommitCleanup ==
    /\ th["owner"].pc = "cleanup"
    /\ IF th["owner"].svc \in retired
       THEN CleanupRetired(th["owner"].svc)
       ELSE UNCHANGED <<svcs, retired>>
    /\ Go("owner", "release")
    /\ UNCHANGED <<plan, mode, rt, mb, subs, latest, moving, cb, host, deleted, cmds>>

CommitRelease ==
    /\ th["owner"].pc = "release"
    /\ rt' = [rt EXCEPT !.lidarCand = FALSE]
    /\ th' = [th EXCEPT !["owner"] = Rest]
    /\ UNCHANGED <<plan, mode, mb, subs, svcs, retired, latest, moving, cb, host, deleted, cmds>>

(* rebind_robot, the wheel-only exchange (no LiDAR service): the candidate *)
(* subscription first, then a section that waits for the reads in flight.  *)
Rebind ==
    /\ "rebind" \in plan
    /\ OwnerIdle
    /\ rt.svc = None
    /\ host = "none"
    /\ rt.ready
    /\ rt.world < MaxWorld
    /\ rt.gen < MaxGen
    /\ rt.nextToken <= MaxToken
    /\ th' = [th EXCEPT !["owner"] = [Rest EXCEPT !.pc = "token", !.next = "rebind"]]
    /\ UNCHANGED <<plan, mode, rt, mb, subs, svcs, retired, latest, moving, cb, host, deleted, cmds>>

RebindClaim ==
    /\ th["owner"].pc = "rebind"
    /\ rt' = IF rt.state = "open"
             THEN [rt EXCEPT !.rebinding = TRUE, !.accepting = FALSE, !.token = None,
                             !.ready = FALSE]
             ELSE rt
    /\ Go("owner", IF rt.state = "open" THEN "rebindWait" ELSE "drop")
    /\ UNCHANGED <<plan, mode, mb, subs, svcs, retired, latest, moving, cb, host, deleted, cmds>>

(* The old robot is stopped and everything exchanged; a stop that fails    *)
(* puts the old binding back.  The host removes the old robot afterwards.  *)
RebindSwap ==
    /\ th["owner"].pc = "rebindWait"
    /\ rt.ops = 0
    /\ \/ /\ moving' = FALSE
          /\ mb' = Fresh(mb.id + 1)
          /\ latest' = {}
          /\ deleted' = deleted \cup {rt.world}
          /\ rt' = NewEpoch([rt EXCEPT !.rebinding = FALSE, !.gen = @ + 1, !.world = @ + 1,
                                       !.twist = FALSE,
                                       !.sub = th["owner"].sub, !.token = th["owner"].sub,
                                       !.accepting = TRUE, !.ready = TRUE])
          /\ th' = [th EXCEPT !["owner"].pc = "drop", !["owner"].sub = rt.sub]
       \/ /\ rt' = [rt EXCEPT !.rebinding = FALSE, !.accepting = TRUE, !.token = rt.sub,
                               !.ready = TRUE]
          /\ Go("owner", "drop")
          /\ UNCHANGED <<moving, mb, latest, deleted>>
    /\ UNCHANGED <<plan, mode, subs, svcs, retired, cb, host, cmds>>

(* The subscription left over, old or candidate, is closed.                *)
RebindDrop ==
    /\ th["owner"].pc = "drop"
    /\ Unsubscribe("owner", "idle")
    /\ UNCHANGED <<plan, mode, rt, mb, svcs, retired, latest, moving, cb, host, deleted, cmds>>

Owner == \/ Pause \/ Resume \/ PeerLost \/ PeerSeen
         \/ BeginFence \/ FenceSnapshot \/ FenceClaim \/ FencePoll \/ FenceLook \/ FenceExpire
         \/ CompleteFence \/ PollCall("owner") \/ Publish("owner")
         \/ Prepare \/ PrepareDrain \/ PrepareLook \/ PreparePoll \/ PrepareExpire
         \/ PrepareQuiesce \/ PrepareUnsubscribe \/ PreparePark \/ PrepareEnd
         \/ DeleteWorld \/ TakeToken \/ Subscribe
         \/ Abort \/ AbortLook \/ AbortSwap \/ AbortLost \/ AbortClose \/ AbortFail \/ Fault
         \/ Commit \/ CommitReuse \/ CommitReplace \/ CommitFactory \/ CommitSwap \/ CommitLost
         \/ CommitUndo \/ CommitRegister \/ CommitCleanup \/ CommitRelease
         \/ Rebind \/ RebindClaim \/ RebindSwap \/ RebindDrop

-----------------------------------------------------------------------------
(* Closing, step by step.                                                  *)

(* close, first section.  todo holds "skip" when prepare already stopped   *)
(* the robot, which may be gone by now.                                    *)
Close ==
    /\ th["closer"].pc = "idle"
    /\ rt.state \in {"open", "faulted"}
    /\ ~rt.preparing
    /\ ~rt.rebinding
    /\ ~rt.lidarCand
    /\ rt' = [rt EXCEPT !.state = "closing", !.accepting = FALSE, !.token = None,
                        !.fenced = @ \/ rt.svc # None, !.ready = FALSE]
    /\ th' = [th EXCEPT !["closer"] = [Rest EXCEPT !.pc = "wait", !.gen = rt.gen, !.svc = rt.svc,
                        !.todo = IF ~rt.ready /\ rt.parked THEN {"skip"} ELSE {}]]
    /\ UNCHANGED <<plan, mode, mb, subs, svcs, retired, latest, moving, cb, host, deleted, cmds>>

(* The reads in flight leave before anything is taken down.                *)
CloseWait ==
    /\ th["closer"].pc = "wait"
    /\ rt.ops = 0
    /\ mb' = Cleared(mb)
    /\ latest' = {}
    /\ rt' = [rt EXCEPT !.sub = None]
    /\ th' = [th EXCEPT !["closer"].pc = "stop_commands", !["closer"].sub = rt.sub]
    /\ UNCHANGED <<plan, mode, subs, svcs, retired, moving, cb, host, deleted, cmds>>

CloseStopCommands ==
    /\ th["closer"].pc = "stop_commands"
    /\ Unsubscribe("closer", "safe_stop")
    /\ UNCHANGED <<plan, mode, rt, mb, svcs, retired, latest, moving, cb, host, deleted, cmds>>

Failing(t, failed, after) == th' = [th EXCEPT ![t].pc = after, ![t].err = @ \/ failed]

CloseSafeStop ==
    /\ th["closer"].pc = "safe_stop"
    /\ IF "skip" \in th["closer"].todo
       THEN Go("closer", "drain") /\ UNCHANGED moving
       ELSE \E failed \in BOOLEAN :
              /\ Failing("closer", failed, "drain")
              /\ moving' = (moving /\ failed)
    /\ UNCHANGED <<plan, mode, rt, mb, subs, svcs, retired, latest, cb, host, deleted, cmds>>

(* The active service takes no more captures.                              *)
CloseBeginDraining ==
    /\ th["closer"].pc = "drain"
    /\ IF th["closer"].svc = None
       THEN Go("closer", "list") /\ UNCHANGED svcs
       ELSE /\ Go("closer", "inspect")
            /\ svcs' = [svcs EXCEPT ![th["closer"].svc + 1].st =
                           IF @ \in {"ready", "suspended"} THEN "draining" ELSE @]
    /\ UNCHANGED <<plan, mode, rt, mb, subs, retired, latest, moving, cb, host, deleted, cmds>>

(* What it captured is still published, for at most 250 ms.  A service     *)
(* that had failed before close is no error of close.                      *)
CloseLook ==
    /\ th["closer"].pc \in {"inspect", "draining"}
    /\ LET v == Svc(th["closer"].svc)
       IN  th' = [th EXCEPT !["closer"].todo = IF th["closer"].pc = "inspect"
                                               THEN IF v.st = "failed" THEN {"failed"} ELSE {}
                                               ELSE @,
                            !["closer"].pc = CASE v.st = "failed" -> "force"
                                               [] v.st # "failed" /\ SvcIdle(v) -> "join"
                                               [] OTHER -> "drain_poll"]
    /\ UNCHANGED <<plan, mode, rt, mb, subs, svcs, retired, latest, moving, cb, host, deleted, cmds>>

ClosePoll ==
    /\ th["closer"].pc = "drain_poll"
    /\ PollTake("closer", "draining")
    /\ UNCHANGED <<plan, mode, rt, mb, subs, svcs, retired, latest, moving, cb, host, deleted, cmds>>

CloseExpire ==
    /\ th["closer"].pc = "draining"
    /\ ~SvcIdle(Svc(th["closer"].svc))
    /\ Go("closer", "force")
    /\ UNCHANGED <<plan, mode, rt, mb, subs, svcs, retired, latest, moving, cb, host, deleted, cmds>>

(* close_idle: the drained service is joined, or refuses. *)
CloseJoin ==
    /\ th["closer"].pc = "join"
    /\ \/ /\ svcs' = [svcs EXCEPT ![th["closer"].svc + 1].st = "closed"]
          /\ Go("closer", "forget")
       \/ Go("closer", "force") /\ UNCHANGED svcs
    /\ UNCHANGED <<plan, mode, rt, mb, subs, retired, latest, moving, cb, host, deleted, cmds>>

(* Late, failed or refusing to join: it is killed, which may fail too.     *)
CloseForce ==
    /\ th["closer"].pc = "force"
    /\ \E killed \in BOOLEAN :
         /\ svcs' = IF killed
                    THEN [svcs EXCEPT ![th["closer"].svc + 1].st = "closed",
                                      ![th["closer"].svc + 1].job = "none"]
                    ELSE svcs
         /\ Failing("closer", ~killed \/ "failed" \notin th["closer"].todo, "forget")
    /\ UNCHANGED <<plan, mode, rt, mb, subs, retired, latest, moving, cb, host, deleted, cmds>>

CloseForget ==
    /\ th["closer"].pc = "forget"
    /\ rt' = [rt EXCEPT !.svc = None]
    /\ Go("closer", "list")
    /\ UNCHANGED <<plan, mode, mb, subs, svcs, retired, latest, moving, cb, host, deleted, cmds>>

(* Every retired service gets its last try.                                *)
CloseList ==
    /\ th["closer"].pc = "list"
    /\ th' = [th EXCEPT !["closer"].todo = retired, !["closer"].svc = None,
                        !["closer"].pc = IF retired = {} THEN "invalidate" ELSE "retired"]
    /\ UNCHANGED <<plan, mode, rt, mb, subs, svcs, retired, latest, moving, cb, host, deleted, cmds>>

CloseRetired ==
    /\ th["closer"].pc = "retired"
    /\ \E s \in th["closer"].todo :
         /\ IF s \in retired THEN CleanupRetired(s) ELSE UNCHANGED <<svcs, retired>>
         /\ th' = [th EXCEPT !["closer"].todo = @ \ {s},
                             !["closer"].err = @ \/ s \in retired',
                             !["closer"].pc = IF th["closer"].todo = {s} THEN "invalidate" ELSE "retired"]
    /\ UNCHANGED <<plan, mode, rt, mb, subs, latest, moving, cb, host, deleted, cmds>>

(* Only now does the closing generation end.                               *)
CloseInvalidate ==
    /\ th["closer"].pc = "invalidate"
    /\ rt' = [rt EXCEPT !.gen = IF @ = th["closer"].gen THEN @ + 1 ELSE @, !.ready = FALSE]
    /\ latest' = {}
    /\ Go("closer", "transport")
    /\ UNCHANGED <<plan, mode, mb, subs, svcs, retired, moving, cb, host, deleted, cmds>>

(* quiesce_transport, close_log, close_transport, close_sensors; transport *)
(* close waits for callbacks and drops every subscription.                 *)
CloseTransport ==
    /\ th["closer"].pc = "transport"
    /\ cb.pc = "idle"
    /\ subs' = {}
    /\ \E failed \in BOOLEAN : Failing("closer", failed, "end")
    /\ UNCHANGED <<plan, mode, rt, mb, svcs, retired, latest, moving, cb, host, deleted, cmds>>

CloseEnd ==
    /\ th["closer"].pc = "end"
    /\ rt' = [rt EXCEPT !.state = "closed"]
    /\ Go("closer", "closed")
    /\ UNCHANGED <<plan, mode, mb, subs, svcs, retired, latest, moving, cb, host, deleted, cmds>>

Closer == \/ Close \/ CloseWait \/ CloseStopCommands \/ CloseSafeStop \/ CloseBeginDraining
          \/ CloseLook \/ ClosePoll \/ CloseExpire \/ CloseJoin \/ CloseForce \/ CloseForget
          \/ CloseList \/ CloseRetired \/ CloseInvalidate \/ CloseTransport \/ CloseEnd
          \/ PollCall("closer") \/ Publish("closer")

Next == Callback \/ Loop \/ Owner \/ Closer

(* Every thread keeps running; nothing forces a thread to begin a call.    *)
Busy(t) == th[t].pc \notin {"idle", "closed"}

Fairness ==
    /\ WF_vars(Ingress \/ Accept \/ Account)
    /\ WF_vars(Busy("loop") /\ Loop)
    /\ WF_vars(Busy("owner") /\ Owner)
    /\ WF_vars(Busy("closer") /\ Closer)

Spec == Init /\ [][Next]_vars

FairSpec == Spec /\ Fairness

-----------------------------------------------------------------------------
(* A command held in the mailbox was captured under the runtime's present  *)
(* lifecycle generation: no prepare, rebind, disconnect or close leaves one*)
(* behind, whatever the callback had already captured.                     *)
HeldCommandIsCurrent == mb.cmd # None => mb.cmd.gen = rt.gen

(* Nobody reads the robot or the sensors of a world the host has removed,  *)
(* and close does not stop a robot that is gone.                           *)
NoUseAfterDelete ==
    /\ th["loop"].pc = "reading" => th["loop"].world \notin deleted
    /\ th["closer"].pc = "safe_stop" /\ "skip" \notin th["closer"].todo =>
           rt.world \notin deleted

(* Between prepare and its outcome nothing reads the world, nothing is     *)
(* being published and a robot that was stopped stays stopped.             *)
PreparedIsQuiet ==
    rt.prepared /\ rt.state = "open" =>
        rt.ops = 0 /\ rt.pubs = 0 /\ (rt.parked => ~moving)

(* The dashboard never holds a payload of an older generation; the         *)
(* generation of a scan is the one its service stamped on it.              *)
DashboardIsCurrent == \A p \in latest : p.gen = rt.gen

(* A LiDAR service that runs is one the runtime will still close: active,  *)
(* retired, or being installed by the commit in progress.  Once closed, it *)
(* has closed them all or reported an error.                               *)
NoServiceLost ==
    /\ \A s \in 0..(Len(svcs) - 1) :
          \/ Svc(s).st = "closed"
          \/ s \in retired \cup {rt.svc}
          \/ s = th["owner"].svc /\ rt.lidarCand
          \/ th["closer"].err
    /\ rt.state = "closed" => retired = {} \/ th["closer"].err

(* What does not hold, and no run claims: a scan in flight was read in the *)
(* generation its service stamped on it.  A whole prepare and a commit or  *)
(* abort that takes the same service back fit between CaptureCheck and     *)
(* Capture, when they run on a thread of their own.                        *)
ScansAreOfTheirGeneration ==
    \A s \in 0..(Len(svcs) - 1) : Svc(s).job # "overtaken"

(* The peer counts as active only when a command was accepted since the    *)
(* last reconnect, rebuild or rebind.                                      *)
ActiveNeedsCommand ==
    mode = "ecal" /\ rt.state = "open" /\ rt.peer = "active" => rt.seen

(* However callbacks, the loop, the owner of the world and close meet: no  *)
(* command, payload, world or service outlives the generation it is        *)
(* accepted under.                                                         *)
RuntimeSound ==
    /\ HeldCommandIsCurrent /\ NoUseAfterDelete /\ PreparedIsQuiet
    /\ DashboardIsCurrent /\ NoServiceLost /\ ActiveNeedsCommand

(* A close that has begun ends.                                            *)
CloseCompletes == rt.state = "closing" ~> rt.state = "closed"
=============================================================================
