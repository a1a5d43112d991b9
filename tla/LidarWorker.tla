----------------------------- MODULE LidarWorker -----------------------------
(***************************************************************************)
(* slope_sim/lidar_worker.py: how the LiDAR worker processes come up, and  *)
(* how each of them keeps a copy of the obstacles.                         *)
(*                                                                         *)
(* `start` is start_lidar_worker in the parent: one worker (Stage 3), or   *)
(* two shards and a coordinator (Stage 4), each with a pipe back and one   *)
(* bounded wait for the Ready of the outermost.  `proc` is the children;   *)
(* a child may hang, fail in a phase of its bootstrap, or die at any time. *)
(* `mirror` is the PyBullet world of one running child: every scan request *)
(* carries all obstacles, and _reconcile_obstacles first makes the bodies  *)
(* of the child the requested ones; each PyBullet call in it may fail.     *)
(* The protocol of the running coordinator is Stage4LidarCoordinator.      *)
(***************************************************************************)
EXTENDS Naturals, Sequences, FiniteSets, FiniteSetsExt, SequencesExt

CONSTANTS
    Ids,         \* logical obstacle ids
    Shapes,      \* mode and geometry: a body of another shape is another body
    Places,      \* positions a kept body is moved to
    Rays,        \* rays of a sweep, dealt to the shards in turn
    MaxScans,     \* bound on scan requests
    MaxFailures  \* bound on failing calls and dying children

ASSUME WorkerAssumption == {Rays, MaxScans, MaxFailures} \subseteq Nat /\ Ids \subseteq Nat

VARIABLES start, proc, mirror, failures
workerVars == <<start, proc, mirror, failures>>

Procs == {"worker", "shard0", "shard1", "coordinator"}
ShardProcs == <<"shard0", "shard1">>
Order(profile) == IF profile = "stage3" THEN <<"worker">> ELSE ShardProcs \o <<"coordinator">>
Outermost == Last(Order(start.profile))
Mirrored == Order(start.profile)[1]

(* The phases of _bootstrap_live_worker and of the shard's own prewarm. *)
Phases(p) ==
    CASE p = "worker" -> <<"world_build", "front_preflight", "rear_preflight">>
      [] p \in Range(ShardProcs) -> <<"world_build", "center_preflight">>
      [] p = "coordinator" -> <<>>

(* _stage4_realtime_shard_assignments: even and odd rays. *)
Assigned(p) == {ray \in 0 .. Rays - 1 : ray % 2 = IF p = "shard0" THEN 0 ELSE 1}

NoProc == [state |-> "none", phase |-> 1, said |-> <<>>, got |-> <<>>]
NoTarget == <<>>
Quiet == [pc |-> "idle", bodies |-> {}, records |-> <<>>, bound |-> {}, target |-> NoTarget,
          kept |-> {}, todo |-> {}, made |-> <<>>, next |-> 1, jobs |-> 0]

WorkerInit ==
    /\ \E profile \in {"stage3", "stage4"} :
        start = [profile |-> profile, pc |-> "spawn", at |-> 1, reap |-> <<>>, error |-> "none"]
    /\ proc = [p \in Procs |-> NoProc]
    /\ mirror = Quiet
    /\ failures = 0

Bad(bad) == failures' = (IF bad THEN failures + 1 ELSE failures) /\ failures' <= MaxFailures
Runs(p) == proc[p].state \in {"building", "running"}
Says(p, message) == [proc EXCEPT ![p].said = Append(@, message)]
Exits(p) == [proc EXCEPT ![p].state = "exited"]

-----------------------------------------------------------------------------
(* The children. *)

(* One phase; a failure is sent, the DIRECT client closed, the child left. *)
Bootstrap(p, ok) ==
    /\ proc[p].state = "building" /\ proc[p].phase <= Len(Phases(p))
    /\ Bad(~ok)
    /\ proc' = IF ok THEN [proc EXCEPT ![p].phase = @ + 1]
               ELSE [proc EXCEPT ![p].state = "exited",
                                 ![p].said = Append(@, [kind |-> "failure", values |-> <<>>])]
    /\ UNCHANGED <<start, mirror>>

(* _stage4_shard_values: of the assigned rays those that hit, in order. *)
ShardValues(p) == {SetToSortSeq(hits, <) : hits \in SUBSET Assigned(p)}

(* All phases passed: Ready; a shard adds what its prewarm scan hit.       *)
SayReady(p, values) ==
    /\ proc[p].state = "building" /\ p # "coordinator" /\ proc[p].phase > Len(Phases(p))
    /\ LET ready == [kind |-> "ready", values |-> <<>>]
           prewarm == [kind |-> "prewarm", values |-> values]
       IN  proc' = [proc EXCEPT ![p].state = "running",
                                ![p].said = @ \o IF p = "worker" THEN <<ready>> ELSE <<ready, prewarm>>]
    /\ UNCHANGED <<start, mirror, failures>>

(* A child is killed or crashes; what it said before stays in the pipe. *)
Die(p) ==
    /\ Runs(p) /\ Bad(TRUE)
    /\ proc' = Exits(p)
    /\ mirror' = IF start.pc = "handle" /\ p = Mirrored THEN Quiet ELSE mirror
    /\ UNCHANGED start

(* _merge_stage4_shard_indexed_values: two sorted runs, one sweep. *)
Merge(a, b) ==
    LET m[i \in 0 .. Len(a), j \in 0 .. Len(b)] ==
            IF i = 0 THEN SubSeq(b, 1, j)
            ELSE IF j = 0 THEN SubSeq(a, 1, i)
            ELSE IF a[i] > b[j] THEN Append(m[i - 1, j], a[i])
            ELSE Append(m[i, j - 1], b[j])
    IN  m[Len(a), Len(b)]

(* The coordinator reads Ready of both, checks them, then both prewarms.   *)
CoordinatorReads ==
    /\ proc["coordinator"].state = "building" /\ Len(proc["coordinator"].got) < 4
    /\ LET got == proc["coordinator"].got
           from == ShardProcs[(Len(got) % 2) + 1]
           said == proc[from].said
           next == Append(got, Head(said))
           bad == Len(next) = 2 /\ \E i \in 1 .. 2 : next[i].kind # "ready"
       IN  \/ /\ said # <<>>
              /\ proc' = [proc EXCEPT ![from].said = Tail(@),
                                      !["coordinator"].got = next,
                                      !["coordinator"].state = IF bad THEN "exited" ELSE @]
           \/ /\ said = <<>> /\ proc[from].state = "exited"
              /\ proc' = Exits("coordinator")
    /\ UNCHANGED <<start, mirror, failures>>

(* _require_stage4_indexed_values: rising rays of the shard itself. *)
Indexed(p, values) ==
    /\ Range(values) \subseteq Assigned(p)
    /\ \A i \in 1 .. Len(values) - 1 : values[i] < values[i + 1]

(* _stage4_prewarm_payload_from_shards: of the right shards, in the right  *)
(* order, and one merged payload; then the outer Ready.                    *)
CoordinatorReady ==
    /\ proc["coordinator"].state = "building" /\ Len(proc["coordinator"].got) = 4
    /\ LET got == proc["coordinator"].got
           sweep == [kind |-> "ready", values |-> Merge(got[3].values, got[4].values)]
       IN  proc' = IF \A i \in 1 .. 2 : got[i + 2].kind = "prewarm" /\ Indexed(ShardProcs[i], got[i + 2].values)
                   THEN [proc EXCEPT !["coordinator"].state = "running",
                                     !["coordinator"].said = Append(@, sweep)]
                   ELSE Exits("coordinator")
    /\ UNCHANGED <<start, mirror, failures>>

-----------------------------------------------------------------------------
(* The parent. *)

(* Mutant: only the process that failed to come up is reaped. *)
OwnedOutermost == IF Runs(Outermost) THEN <<Outermost>> ELSE <<>>

(* What a failed start has to reap: shards last to first, then the rest. *)
Owned == LET started == SelectSeq(Order(start.profile), LAMBDA p : proc[p].state # "none")
         IN  Reverse(SelectSeq(started, LAMBDA p : p # "coordinator"))
                \o SelectSeq(started, LAMBDA p : p = "coordinator")

(* process.start, and the wait once all are started. *)
SpawnChild(ok) ==
    /\ start.pc = "spawn" /\ Bad(~ok)
    /\ LET p == Order(start.profile)[start.at]
           all == start.at = Len(Order(start.profile))
       IN  /\ proc' = IF ok THEN [proc EXCEPT ![p].state = "building"] ELSE proc
           /\ start' = IF ok THEN [start EXCEPT !.at = @ + 1, !.pc = IF all THEN "wait" ELSE @]
                       ELSE [start EXCEPT !.pc = "reap", !.reap = Owned, !.error = "worker_start_failed"]
    /\ UNCHANGED mirror

GiveUp(error) == start' = [start EXCEPT !.pc = "reap", !.reap = Owned, !.error = error]

(* The obstacles of the scene document, built by the child itself. *)
BuiltMirror(target) ==
    LET record(id) == [body |-> id, spec |-> target[id]]
    IN  [Quiet EXCEPT !.records = [id \in DOMAIN target |-> record(id)],
                      !.bodies = {record(id) : id \in DOMAIN target},
                      !.bound = {record(id).body : id \in DOMAIN target},
                      !.next = Max({0} \cup DOMAIN target) + 1]

Specs == [shape : Shapes, place : Places]
Targets == UNION {[ids -> Specs] : ids \in {s \in SUBSET Ids : IsFiniteSet(s)}}

(* receive_worker_startup_envelope: one envelope, or none in time. *)
ReceiveReady(built) ==
    /\ start.pc = "wait" /\ proc[Outermost].said # <<>>
    /\ LET envelope == Head(proc[Outermost].said)
       IN  /\ proc' = [proc EXCEPT ![Outermost].said = Tail(@), ![Outermost].got = <<>>]
           /\ IF envelope.kind = "ready"
              THEN start' = [start EXCEPT !.pc = "handle"] /\ mirror' = BuiltMirror(built)
              ELSE GiveUp("startup_failed") /\ UNCHANGED mirror
    /\ UNCHANGED failures

(* End of file, or the timeout: whatever the child is doing. *)
ReceiveNothing ==
    /\ start.pc = "wait" /\ proc[Outermost].said = <<>>
    /\ GiveUp("worker_exited")
    /\ UNCHANGED <<proc, mirror, failures>>

(* _reap_owned_process: join, terminate, kill.  *)
Reap ==
    /\ start.pc = "reap" /\ start.reap # <<>>
    /\ LET p == Head(start.reap)
       IN  proc' = [proc EXCEPT ![p].state = "exited", ![p].said = <<>>]
    /\ start' = [start EXCEPT !.reap = Tail(@)]
    /\ UNCHANGED <<mirror, failures>>

Reaped ==
    /\ start.pc = "reap" /\ start.reap = <<>>
    /\ start' = [start EXCEPT !.pc = IF start.error = "none" THEN "closed" ELSE "failed"]
    /\ UNCHANGED <<proc, mirror, failures>>

(* LidarWorkerHandle.force_close *)
ForceClosed ==
    /\ start.pc = "handle"
    /\ start' = [start EXCEPT !.pc = "reap", !.reap = Reverse(Order(start.profile))]
    /\ mirror' = Quiet
    /\ UNCHANGED <<proc, failures>>

-----------------------------------------------------------------------------
(* The mirror of the obstacles in a running child. *)
Working(pc) == start.pc = "handle" /\ Runs(Mirrored) /\ mirror.pc = pc
BodyIds(m) == {b.body : b \in m.bodies}
Without(m, body) == [m EXCEPT !.bodies = {b \in @ : b.body # body}]
Adds(m, spec) == [m EXCEPT !.bodies = @ \cup {[body |-> m.next, spec |-> spec]}, !.next = @ + 1]

(* scene_state_unknown: nothing is known of the world, the child leaves.   *)
Unknown == mirror' = Quiet /\ proc' = Exits(Mirrored)

(* _SceneReconcileError: the world is provably the one before the request. *)
(* The Stage-3 worker reports it and goes on, a shard leaves.              *)
Recovered(m) ==
    IF start.profile = "stage3"
    THEN /\ mirror' = [m EXCEPT !.pc = "idle", !.target = NoTarget, !.kept = {}, !.todo = {}, !.made = <<>>]
         /\ proc' = proc
    ELSE Unknown

Replaced(target) == {id \in DOMAIN target \cap DOMAIN mirror.records :
                       mirror.records[id].spec.shape # target[id].shape}
Created(target) == (DOMAIN target \ DOMAIN mirror.records) \cup Replaced(target)
Removed(target) == (DOMAIN mirror.records \ DOMAIN target) \cup Replaced(target)

(* A request; the bodies of the world are listed before anything changes.  *)
Request(target) ==
    /\ Working("idle") /\ mirror.jobs < MaxScans
    /\ mirror' = [mirror EXCEPT !.pc = "create", !.target = target, !.jobs = @ + 1,
                                !.todo = Created(target), !.kept = BodyIds(mirror)]
    /\ UNCHANGED <<start, proc, failures>>

With(f, id, value) == [i \in DOMAIN f \cup {id} |-> IF i = id THEN value ELSE f[i]]
Goes(m, pc, todo) == [m EXCEPT !.pc = pc, !.todo = todo]

(* The candidates, one by one; one that fails may have left a body. *)
CreateBody(ok, leak) ==
    /\ Working("create") /\ mirror.todo # {} /\ Bad(~ok) /\ (ok => ~leak)
    /\ LET id == Min(mirror.todo)
           spec == mirror.target[id]
           made == [mirror EXCEPT !.made = With(@, id, [body |-> mirror.next, spec |-> spec]),
                                  !.todo = @ \ {id}]
       IN  mirror' = IF ok THEN Adds(made, spec)
                     ELSE Goes(IF leak THEN Adds(mirror, spec) ELSE mirror, "uncreate", {})
    /\ UNCHANGED <<start, proc>>

CandidateBodies == {mirror.made[id].body : id \in DOMAIN mirror.made}

(* Mutant: a failed creation always counts as undone. *)
RestoredUnchecked(left) == TRUE

(* The rollback is believed only when the bodies are the ones of before. *)
Restored(left) == {b.body : b \in left} = mirror.kept

(* The candidates are removed; `stays` is one that could not be. *)
Uncreate(stays) ==
    /\ Working("uncreate") /\ stays \subseteq CandidateBodies /\ Cardinality(stays) <= 1 /\ Bad(stays # {})
    /\ LET left == {b \in mirror.bodies : b.body \notin CandidateBodies \/ b.body \in stays}
       IN  IF stays = {} /\ Restored(left) THEN Recovered([mirror EXCEPT !.bodies = left])
           ELSE Unknown
    /\ UNCHANGED start

CreateDone ==
    /\ Working("create") /\ mirror.todo = {}
    /\ mirror' = Goes(mirror, "remove", Removed(mirror.target))
    /\ UNCHANGED <<start, proc, failures>>

(* The old bodies; a removal that fails may still have removed. *)
RemoveBody(ok, gone) ==
    /\ Working("remove") /\ mirror.todo # {} /\ Bad(~ok) /\ (ok => gone)
    /\ LET id == Min(mirror.todo)
           body == mirror.records[id].body
           m == IF gone THEN Without(mirror, body) ELSE mirror
       IN  mirror' = IF ok THEN Goes(m, "remove", mirror.todo \ {id}) ELSE Goes(m, "unremove", {})
    /\ UNCHANGED <<start, proc>>

(* The candidates go, the removed come back as new bodies, all are bound   *)
(* again; a second failure anywhere here is not recovered.                 *)
Unremove(ok) ==
    /\ Working("unremove") /\ Bad(~ok)
    /\ LET left == {b \in mirror.bodies : b.body \notin CandidateBodies}
           lost == {id \in DOMAIN mirror.records : \A b \in left : b.body # mirror.records[id].body}
           again(id) == [body |-> mirror.next + Cardinality({k \in lost : k < id}),
                         spec |-> mirror.records[id].spec]
           records == [id \in DOMAIN mirror.records |-> IF id \in lost THEN again(id) ELSE mirror.records[id]]
       IN  IF ~ok THEN Unknown
           ELSE Recovered([mirror EXCEPT !.bodies = left \cup {again(id) : id \in lost},
                                         !.records = records,
                                         !.bound = {records[id].body : id \in DOMAIN records},
                                         !.next = @ + Cardinality(lost)])
    /\ UNCHANGED start

RemoveDone ==
    /\ Working("remove") /\ mirror.todo = {}
    /\ mirror' = Goes(mirror, "update", DOMAIN mirror.target \ DOMAIN mirror.made)
    /\ UNCHANGED <<start, proc, failures>>

Moved(bodies, body, spec) == {IF b.body = body THEN [b EXCEPT !.spec = spec] ELSE b : b \in bodies}

(* A kept body goes to the requested place. *)
UpdateBody(ok) ==
    /\ Working("update") /\ mirror.todo # {} /\ Bad(~ok)
    /\ LET id == Min(mirror.todo)
           spec == mirror.target[id]
       IN  IF ~ok THEN Unknown
           ELSE /\ mirror' = [mirror EXCEPT !.todo = @ \ {id}, !.records[id].spec = spec,
                                            !.bodies = Moved(@, mirror.records[id].body, spec)]
                /\ proc' = proc
    /\ UNCHANGED start

(* The sensor backend learns which body is which obstacle. *)
BindScene(ok) ==
    /\ Working("update") /\ mirror.todo = {} /\ Bad(~ok)
    /\ LET records == [id \in DOMAIN mirror.target |->
                         IF id \in DOMAIN mirror.made THEN mirror.made[id] ELSE mirror.records[id]]
       IN  IF ~ok THEN Unknown
           ELSE /\ mirror' = [mirror EXCEPT !.pc = "scan", !.records = records, !.made = <<>>, !.kept = {},
                                            !.bound = {records[id].body : id \in DOMAIN records}]
                /\ proc' = proc
    /\ UNCHANGED start

(* _process_scan_request: the frame, or a failure of this frame only       *)
(* (which ends a shard).                                                   *)
Scan(ok) ==
    /\ Working("scan") /\ Bad(~ok)
    /\ IF ok \/ start.profile = "stage3"
       THEN mirror' = [mirror EXCEPT !.pc = "idle", !.target = NoTarget] /\ proc' = proc
       ELSE Unknown
    /\ UNCHANGED start

-----------------------------------------------------------------------------
WorkerChild ==
    \/ \E p \in Procs : \E ok \in BOOLEAN : Bootstrap(p, ok)
    \/ \E p \in Procs : \E values \in IF p \in Range(ShardProcs) THEN ShardValues(p) ELSE {<<>>} : SayReady(p, values)
    \/ \E p \in Procs : Die(p)
    \/ CoordinatorReads \/ CoordinatorReady
ReceiveEnvelope == ReceiveNothing \/ \E built \in Targets : ReceiveReady(built)
Parent == \/ \E ok \in BOOLEAN : SpawnChild(ok)
          \/ ReceiveEnvelope
          \/ Reap \/ Reaped
Reconcile == \/ \E target \in Targets : Request(target)
             \/ \E ok, leak \in BOOLEAN : CreateBody(ok, leak) \/ RemoveBody(ok, leak)
             \/ \E stays \in SUBSET CandidateBodies : Uncreate(stays)
             \/ \E ok \in BOOLEAN : Unremove(ok) \/ UpdateBody(ok) \/ BindScene(ok) \/ Scan(ok)
             \/ CreateDone \/ RemoveDone
WorkerNext == WorkerChild \/ Parent \/ ForceClosed \/ Reconcile

(* Only the parent is sure to go on: every wait of its has a timeout. *)
WorkerSpec == WorkerInit /\ [][WorkerNext]_workerVars /\ WF_workerVars(Parent)

-----------------------------------------------------------------------------
(* A child scans exactly the obstacles of the request: one body each, of   *)
(* the right shape, in the right place and bound to it, and no other body; *)
(* and between requests its records are its world, also after a request    *)
(* that failed half-way and was rolled back.                               *)
MirrorIsExact ==
    LET exact == {mirror.records[id] : id \in DOMAIN mirror.records}
    IN  mirror.pc \in {"idle", "scan"} =>
          /\ mirror.bodies = exact /\ Cardinality(exact) = Cardinality(DOMAIN mirror.records)
          /\ mirror.bound = BodyIds(mirror)
          /\ mirror.pc = "scan" =>
                mirror.target = [id \in DOMAIN mirror.records |-> mirror.records[id].spec]

(* A start that fails, for whatever reason and whoever failed, leaves no   *)
(* process behind; one that succeeds was prewarmed in every process.       *)
StartIsAllOrNothing ==
    /\ start.pc \in {"failed", "closed"} => \A p \in Procs : ~Runs(p)
    /\ proc[Outermost].state = "running" =>
          \A p \in Range(Order(start.profile)) : proc[p].phase > Len(Phases(p))

(* The sweep the coordinator announces has every ray that hit once, in ray *)
(* order, whichever shard cast it.                                         *)
SweepInRayOrder ==
    \A i \in DOMAIN proc["coordinator"].said :
        LET sweep == proc["coordinator"].said[i].values
        IN  \A j \in 1 .. Len(sweep) - 1 : sweep[j] < sweep[j + 1]

(* start_lidar_worker is all or nothing and always returns, with a handle  *)
(* or an error, even if a child hangs for ever in its bootstrap; so does   *)
(* force_close.                                                            *)
StartReturns ==
    /\ [](StartIsAllOrNothing /\ SweepInRayOrder)
    /\ start.pc \in {"spawn", "wait", "reap"} ~> start.pc \in {"handle", "failed", "closed"}
=============================================================================
