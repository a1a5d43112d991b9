--------------------------- MODULE ObstacleManager ---------------------------
(***************************************************************************)
(* The obstacles of a scene (obstacles.py, ObstacleManager) and the frame  *)
(* loop that drives them (coordinator.py, SimulationCoordinator.step): a   *)
(* batch is planned, previewed, created and published over several frames, *)
(* a scene is cleared over several frames, and any call of Bullet on the   *)
(* way may fail.                                                           *)
(*                                                                         *)
(* A body is its Bullet id; Bullet gives the id of a removed body to a     *)
(* later one.  A record is [body, moving].  Geometry, terrain and the      *)
(* random generator are a choice: a candidate fits or does not, the        *)
(* vehicle overlaps the batch or does not.  An exception that leaves       *)
(* step() ends the run ("down").  Without a runtime (~attached) the        *)
(* manager is also driven directly, as the stage-2 verifier does.          *)
(***************************************************************************)
EXTENDS Integers, FiniteSets, Sequences

CONSTANTS
    BodyIds,       \* ids Bullet may give
    MaxBatch,      \* settings.max_batch_obstacles
    MaxScene,      \* settings.max_scene_obstacles
    BulletFaults   \* the calls that may fail: "create", "remove", "diagnose"

VARIABLES
    formal,        \* _records
    debt,          \* _cleanup_debt_body_ids
    job,           \* _pending, and the locals of restore
    faulted,       \* _fault_reason is not None
    alive,         \* obstacle bodies in the physics world
    frame,         \* where step() is: "start", "advance", "move", "physics", "down"
    bound,         \* bodies the runtime classifies as obstacles
    attached,      \* interface_runtime is not None
    ghost          \* history: leaked and abandoned bodies, a wrong diagnosis

managerVars == <<formal, debt, job, faulted>>
obstacleVars == <<managerVars, alive, frame, bound, attached, ghost>>

NoJob == [op |-> "none", specs |-> <<>>, planned |-> 0, temps |-> {}, cands |-> {},
          made |-> 0, rest |-> {}, checked |-> FALSE]

BodiesOf(rs) == {r.body : r \in rs}
PendingBodyIds == job.temps \cup BodiesOf(job.cands) \cup debt

(* A call fails; bound: a diagnosis no more once it has misled the manager. *)
Faulty(call) == call \in BulletFaults /\ (call = "diagnose" => ~ghost.misled)

ObstacleInit ==
    /\ formal = {} /\ debt = {} /\ job = NoJob /\ faulted = FALSE
    /\ alive = {} /\ frame = "start" /\ bound = {}
    /\ attached \in BOOLEAN
    /\ ghost = [leaked |-> {}, abandoned |-> {}, misled |-> FALSE]

-----------------------------------------------------------------------------
(* _remove_committed_body_strict on each of a set of bodies: those reported *)
(* as failed may be there still, or gone when only the diagnosis failed.    *)
Removals(B) ==
    {r \in [failed : SUBSET B, gone : SUBSET B] :
        /\ B \ r.failed \subseteq r.gone
        /\ r.failed \ r.gone # {} => Faulty("remove")
        /\ r.failed \cap r.gone # {} => Faulty("diagnose")}

(* _create_obstacle_body fails for the id b: nothing was made or it was    *)
(* taken back; it could not be taken back; it could, and the diagnosis     *)
(* still lists it; it was made before the call raised and the diagnosis    *)
(* that would find it failed too.                                          *)
FailedCreations(b) ==
    {c \in [made : SUBSET {b}, residual : SUBSET {b}] :
        /\ Faulty("create")
        /\ c.made = {b} /\ c.residual = {b} => Faulty("remove")
        /\ c.made # c.residual => Faulty("diagnose")}

Free(b) == b \in BodyIds \ alive

Misled(r) == r.failed \cap r.gone # {}

(* split_mixed_obstacle_counts and _modes_for_request; the ratio in halves. *)
MovingCount(count, halves) ==
    LET rounded == (count * halves + 1) \div 2
    IN  IF count >= 2 THEN IF rounded < 1 THEN 1
                           ELSE IF rounded > count - 1 THEN count - 1 ELSE rounded
        ELSE IF rounded > count THEN count ELSE rounded

ModesForRequest(request) ==
    [i \in 1..request.count |->
        CASE request.mode = "static" -> FALSE
          [] request.mode = "moving" -> TRUE
          [] request.mode = "mixed" ->
               i > request.count - MovingCount(request.count, request.halves)]

Requests == [count : 1..(MaxBatch + 1), mode : {"static", "moving"}, halves : {1}]
              \cup [count : 2..MaxBatch, mode : {"mixed"}, halves : 0..2]

-----------------------------------------------------------------------------
(* An exception leaves step(). *)
Raise == frame' = "down"

(* _register_cleanup_body_ids refuses a body that a record owns. *)
Register(new) ==
    /\ debt' = debt \cup new
    /\ IF new \cap BodiesOf(formal) # {} THEN Raise ELSE frame' = "move"

(* _publish_records refuses records that share a body or are in debt. *)
Publishable(rs) ==
    /\ \A r, q \in rs : r.body = q.body => r = q
    /\ BodiesOf(rs) \cap debt = {}

(* _enter_fault: the records are withdrawn; what is still there is owed. *)
EnterFault(owned, living) ==
    LET known == BodiesOf(formal) \cup debt \cup owned
    IN  /\ formal' = {} /\ faulted' = TRUE /\ job' = NoJob
        /\ \/ debt' = known \cap living
           \/ Faulty("diagnose") /\ debt' = known

(* _require_no_pending: debts are settled first; one that is left, or a    *)
(* faulted manager, refuses the call.  BodiesOwnedOnce shows that its      *)
(* test for records in debt never fires.                                   *)
Gate(r) ==
    /\ r \in Removals(debt)
    /\ debt' = r.failed
    /\ alive' = alive \ r.gone

Admitted(r) == r.failed = {} /\ ~faulted

Note(r) == ghost' = [ghost EXCEPT !.misled = @ \/ Misled(r)]

-----------------------------------------------------------------------------
(* step() with an empty queue. *)
IdleFrame ==
    /\ frame = "start" /\ job = NoJob
    /\ frame' = "move"
    /\ UNCHANGED <<managerVars, alive, bound, attached, ghost>>

(* _start_next_action with an add: begin_add and _initialize_add_planning. *)
BeginAdd(request) ==
    /\ frame = "start" /\ job = NoJob
    /\ \E r \in Removals(debt) :
        /\ Gate(r) /\ Note(r)
        /\ IF Admitted(r)
           THEN IF request.count > MaxBatch \/ Cardinality(formal) + request.count > MaxScene
                THEN frame' = "move" /\ job' = job
                ELSE /\ frame' = "advance"
                     /\ job' = [NoJob EXCEPT !.op = "add", !.specs = ModesForRequest(request)]
           ELSE Raise /\ job' = job
    /\ UNCHANGED <<formal, faulted, bound, attached>>

(* The next frame of an operation that is under way. *)
NextFrame ==
    /\ frame = "start" /\ job.op \in {"add", "clear"}
    /\ frame' = "advance"
    /\ job' = [job EXCEPT !.checked = FALSE]
    /\ UNCHANGED <<formal, debt, faulted, alive, bound, attached, ghost>>

(* A unit of work is done; the soft budget may be used up. *)
Unit == frame' \in {"advance", "move"}

(* A batch that failed: its bodies are removed, or owed. *)
AbandonBatch(B, residual, living) ==
    \E r \in Removals(B) :
        /\ alive' = living \ r.gone
        /\ Register(residual \cup r.failed)
        /\ job' = NoJob
        /\ Note(r)
        /\ UNCHANGED <<formal, faulted, bound, attached>>

(* A sampled candidate: it keeps clear of the borders, the spawn point,    *)
(* the vehicle and the obstacles there are, or it does not.                *)
CandidateFits == BOOLEAN

(* The attempts to place the next obstacle: one fits, or they are used up  *)
(* and the batch is given up.                                              *)
PlanOne ==
    /\ frame = "advance" /\ job.op = "add"
    /\ job.planned < Len(job.specs)
    /\ \E fits \in CandidateFits :
          IF fits THEN job' = [job EXCEPT !.planned = @ + 1] /\ Unit
                  ELSE job' = NoJob /\ frame' = "move"
    /\ UNCHANGED <<formal, debt, faulted, alive, bound, attached, ghost>>

Planned == job.planned = Len(job.specs)
Previewed == Planned /\ job.made >= Len(job.specs)
Made == job.made - Len(job.specs)

(* A temporary body without collision shows where an obstacle will be. *)
CreateTemporary(b) ==
    /\ frame = "advance" /\ job.op = "add"
    /\ Planned /\ ~Previewed /\ Free(b)
    /\ \/ /\ job' = [job EXCEPT !.temps = @ \cup {b}, !.made = @ + 1]
          /\ alive' = alive \cup {b}
          /\ Unit
          /\ UNCHANGED <<formal, debt, faulted, bound, attached, ghost>>
       \/ \E c \in FailedCreations(b) :
            /\ c.residual = c.made
            /\ AbandonBatch(job.temps, c.residual, alive \cup c.made)

(* Bullet made the body before it raised, and it cannot be found. *)
LeakBody(b) ==
    /\ frame = "advance" /\ job.op = "add"
    /\ Planned /\ Free(b) /\ (Previewed => job.checked)
    /\ Made < Len(job.specs)
    /\ \E c \in FailedCreations(b) :
        /\ c.residual # c.made
        /\ \E r \in Removals(job.temps \cup BodiesOf(job.cands)) :
            /\ alive' = (alive \cup c.made) \ r.gone
            /\ Register(c.residual \cup r.failed)
            /\ ghost' = [ghost EXCEPT !.leaked = @ \cup c.made,
                                      !.misled = @ \/ Misled(r) \/ c.residual # {}]
        /\ job' = NoJob
    /\ UNCHANGED <<formal, faulted, bound, attached>>

(* In every slice after the preview the vehicle may be where the batch     *)
(* will be: the temporary bodies are removed and the batch is given up.    *)
VehicleInTheWay ==
    /\ frame = "advance" /\ job.op = "add"
    /\ Previewed /\ ~job.checked
    /\ \E r \in Removals(job.temps) :
        /\ alive' = alive \ r.gone
        /\ Register(r.failed)
        /\ ghost' = [ghost EXCEPT !.abandoned = @ \cup BodiesOf(job.cands),
                                  !.misled = @ \/ Misled(r)]
    /\ job' = NoJob
    /\ UNCHANGED <<formal, faulted, bound, attached>>

VehicleOutOfTheWay ==
    /\ frame = "advance" /\ job.op = "add"
    /\ Previewed /\ ~job.checked
    /\ job' = [job EXCEPT !.checked = TRUE]
    /\ UNCHANGED <<formal, debt, faulted, alive, frame, bound, attached, ghost>>

(* The bodies with collision. *)
CreateCandidate(b) ==
    /\ frame = "advance" /\ job.op = "add"
    /\ job.checked /\ Made < Len(job.specs) /\ Free(b)
    /\ \/ /\ job' = [job EXCEPT !.cands = @ \cup {[body |-> b, moving |-> job.specs[Made + 1]]},
                                !.made = @ + 1]
          /\ alive' = alive \cup {b}
          /\ Unit
          /\ UNCHANGED <<formal, debt, faulted, bound, attached, ghost>>
       \/ \E c \in FailedCreations(b) :
            /\ c.residual = c.made
            /\ AbandonBatch(job.temps \cup BodiesOf(job.cands), c.residual, alive \cup c.made)

(* One temporary body is removed; a failure takes the whole batch back. *)
RemoveTemporary(b) ==
    /\ frame = "advance" /\ job.op = "add"
    /\ job.checked /\ Made = Len(job.specs) /\ b \in job.temps
    /\ \E r \in Removals({b}) :
        IF r.failed = {}
        THEN /\ job' = [job EXCEPT !.temps = @ \ {b}]
             /\ alive' = alive \ r.gone
             /\ Unit
             /\ UNCHANGED <<formal, debt, faulted, bound, attached, ghost>>
        ELSE \E q \in Removals((job.temps \ {b}) \cup BodiesOf(job.cands)) :
                /\ alive' = alive \ (r.gone \cup q.gone)
                /\ Register(r.failed \cup q.failed)
                /\ job' = NoJob
                /\ ghost' = [ghost EXCEPT !.misled = @ \/ Misled(r) \/ Misled(q)]
                /\ UNCHANGED <<formal, faulted, bound, attached>>

(* Mutant: a batch is published as soon as its bodies exist. *)
PublishBatchEarly ==
    /\ frame = "advance" /\ job.op = "add"
    /\ job.checked /\ Made = Len(job.specs)
    /\ formal' = formal \cup job.cands
    /\ job' = IF job.temps = {} THEN NoJob ELSE job
    /\ frame' = IF job.temps = {} THEN "move" ELSE "advance"
    /\ bound' = IF job.temps = {} THEN BodiesOf(formal') ELSE bound
    /\ UNCHANGED <<debt, faulted, alive, attached, ghost>>

(* The whole batch becomes visible at once, then the coordinator binds it. *)
PublishBatch ==
    /\ frame = "advance" /\ job.op = "add"
    /\ job.checked /\ Made = Len(job.specs) /\ job.temps = {}
    /\ IF Publishable(formal \cup job.cands)
       THEN /\ formal' = formal \cup job.cands
            /\ job' = NoJob
            /\ frame' = "move"
            /\ bound' = BodiesOf(formal')
       ELSE Raise /\ UNCHANGED <<formal, job, bound>>
    /\ UNCHANGED <<debt, faulted, alive, attached, ghost>>

-----------------------------------------------------------------------------
(* delete, and the coordinator's refresh when a record went. *)
Delete(record) ==
    /\ frame = "start" /\ job = NoJob /\ record \in formal
    /\ \E g \in Removals(debt), r \in Removals({record.body}) :
        IF Admitted(g)
        THEN /\ alive' = alive \ (g.gone \cup r.gone)
             /\ debt' = {}
             /\ formal' = IF r.failed = {} THEN formal \ {record} ELSE formal
             /\ bound' = IF r.failed = {} THEN BodiesOf(formal') ELSE bound
             /\ frame' = "move"
             /\ ghost' = [ghost EXCEPT !.misled = @ \/ Misled(g) \/ Misled(r)]
        ELSE /\ r.failed = {}
             /\ Gate(g) /\ Note(g) /\ Raise
             /\ UNCHANGED <<formal, bound>>
    /\ UNCHANGED <<job, faulted, attached>>

BeginClear ==
    /\ frame = "start" /\ job = NoJob
    /\ \E r \in Removals(debt) :
        /\ Gate(r) /\ Note(r)
        /\ IF Admitted(r)
           THEN /\ job' = [NoJob EXCEPT !.op = "clear", !.rest = BodiesOf(formal)]
                /\ frame' = "advance"
           ELSE Raise /\ job' = job
    /\ UNCHANGED <<formal, faulted, bound, attached>>

(* _advance_clear removes one body and its record; a failure ends the clear *)
(* with the rest in place.  When step() goes on, _advance_active_action has *)
(* bound what is left.                                                      *)
ClearOne(b) ==
    /\ frame = "advance" /\ job.op = "clear" /\ b \in job.rest
    /\ \E r \in Removals({b}) :
        /\ alive' = alive \ r.gone
        /\ IF r.failed = {}
           THEN /\ formal' = {x \in formal : x.body # b}
                /\ job' = [job EXCEPT !.rest = @ \ {b}]
                /\ Unit
           ELSE formal' = formal /\ job' = NoJob /\ frame' = "move"
        /\ bound' = IF frame' = "move" THEN BodiesOf(formal') ELSE bound
        /\ Note(r)
    /\ UNCHANGED <<debt, faulted, attached>>

EndClear ==
    /\ frame = "advance" /\ job.op = "clear" /\ job.rest = {}
    /\ job' = NoJob
    /\ frame' = "move"
    /\ bound' = BodiesOf(formal)
    /\ UNCHANGED <<formal, debt, faulted, alive, attached, ghost>>

-----------------------------------------------------------------------------
(* restore replaces the records by those of a list of snapshots; it is     *)
(* called between frames and its exceptions (a gate that refuses, a bad    *)
(* snapshot, old bodies that are missing or cannot be looked for) go to    *)
(* its caller.                                                             *)
BeginRestore(specs) ==
    /\ frame = "start" /\ job = NoJob /\ ~attached
    /\ Len(specs) <= MaxScene
    /\ \E r \in Removals(debt) :
        /\ Note(r)
        /\ alive' = alive \ r.gone
        /\ \/ /\ Admitted(r) /\ BodiesOf(formal) \subseteq alive'
              /\ job' = [NoJob EXCEPT !.op = "restore", !.specs = specs]
              /\ debt' = r.failed
              /\ UNCHANGED <<formal, faulted>>
           \/ /\ Admitted(r)
              /\ BodiesOf(formal) \subseteq alive' => Faulty("diagnose")
              /\ \/ formal' = {} /\ debt' = BodiesOf(formal) \cap alive'
                 \/ Faulty("diagnose") /\ formal' = {} /\ debt' = BodiesOf(formal)
              /\ faulted' = TRUE /\ job' = job
           \/ /\ debt' = r.failed
              /\ UNCHANGED <<formal, faulted, job>>
    /\ UNCHANGED <<frame, bound, attached>>

(* Restore makes all new bodies first. *)
RestoreOne(b) ==
    /\ job.op = "restore"
    /\ job.made < Len(job.specs) /\ Free(b)
    /\ \/ /\ job' = [job EXCEPT !.cands = @ \cup {[body |-> b, moving |-> job.specs[job.made + 1]]},
                                !.made = @ + 1]
          /\ alive' = alive \cup {b}
          /\ UNCHANGED <<debt, ghost>>
       \/ \E c \in FailedCreations(b), r \in Removals(BodiesOf(job.cands)) :
            /\ alive' = (alive \cup c.made) \ r.gone
            /\ debt' = debt \cup c.residual \cup r.failed
            /\ job' = NoJob
            /\ ghost' = [ghost EXCEPT !.leaked = @ \cup (c.made \ c.residual),
                                      !.misled = @ \/ Misled(r) \/ c.residual # c.made]
    /\ UNCHANGED <<formal, faulted, frame, bound, attached>>

(* Then it removes the old ones and publishes the new. *)
CommitRestore ==
    /\ job.op = "restore" /\ job.made = Len(job.specs)
    /\ alive' = alive \ BodiesOf(formal)
    /\ formal' = job.cands
    /\ job' = NoJob
    /\ UNCHANGED <<debt, faulted, frame, bound, attached, ghost>>

(* An old body stays: the new ones are taken back, and the old ones that   *)
(* went are made again.                                                    *)
RollBackRestore ==
    /\ job.op = "restore" /\ job.made = Len(job.specs)
    /\ \E went \in SUBSET BodiesOf(formal), r \in Removals(BodiesOf(job.cands)) :
        \E stays \in BodiesOf(formal) :
            /\ stays \in went => Faulty("diagnose")
            /\ stays \notin went => Faulty("remove")
            /\ alive' = alive \ (went \cup r.gone)
            /\ debt' = debt \cup r.failed
            /\ job' = [NoJob EXCEPT !.op = "rollback", !.rest = went]
            /\ ghost' = [ghost EXCEPT !.misled = @ \/ Misled(r) \/ stays \in went]
    /\ UNCHANGED <<formal, faulted, frame, bound, attached>>

(* An old record gets a new body; a body that is still owed, or one that   *)
(* cannot be made, makes the manager faulty (the bodies the code still     *)
(* makes for the other records would join its debts).                      *)
Remake(old, b) ==
    /\ job.op = "rollback" /\ old \in formal /\ old.body \in job.rest /\ Free(b)
    /\ \/ /\ alive' = alive \cup {b}
          /\ IF b \notin debt
             THEN /\ job' = [job EXCEPT !.rest = @ \ {old.body},
                                        !.cands = @ \cup {[old EXCEPT !.body = b]}]
                  /\ UNCHANGED <<formal, debt, faulted>>
             ELSE EnterFault(BodiesOf(job.cands) \cup {b}, alive')
          /\ ghost' = ghost
       \/ \E c \in FailedCreations(b) :
            /\ alive' = alive \cup c.made
            /\ EnterFault(BodiesOf(job.cands) \cup c.residual, alive')
            /\ ghost' = [ghost EXCEPT !.leaked = @ \cup (c.made \ c.residual),
                                      !.misled = @ \/ c.residual # c.made]
    /\ UNCHANGED <<frame, bound, attached>>

EndRollback ==
    /\ job.op = "rollback"
    /\ \/ /\ job.rest = {}
          /\ formal' = {x \in formal : x.body \in alive /\ x.body \notin BodiesOf(job.cands)}
                         \cup job.cands
          /\ job' = NoJob
          /\ UNCHANGED <<debt, faulted>>
       \/ /\ Faulty("diagnose")
          /\ EnterFault(BodiesOf(job.cands), alive)
    /\ UNCHANGED <<alive, frame, bound, attached, ghost>>

-----------------------------------------------------------------------------
(* update_moving writes the pose of every moving record to its body; the   *)
(* terrain may refuse a pose, Bullet a body that is gone.                  *)
UpdateMoving ==
    /\ frame = "move"
    /\ LET moving == {r \in formal : r.moving}
       IN  \/ BodiesOf(moving) \subseteq alive /\ frame' = "physics"
           \/ moving # {} /\ Raise
    /\ UNCHANGED <<managerVars, alive, bound, attached, ghost>>

StepPhysics ==
    /\ frame = "physics"
    /\ frame' = "start"
    /\ UNCHANGED <<managerVars, alive, bound, attached, ghost>>

ObstacleNext ==
    \/ IdleFrame \/ NextFrame \/ BeginClear \/ EndClear \/ PlanOne
    \/ VehicleInTheWay \/ VehicleOutOfTheWay \/ PublishBatch \/ UpdateMoving \/ StepPhysics
    \/ CommitRestore \/ RollBackRestore \/ EndRollback
    \/ \E request \in Requests : BeginAdd(request)
    \/ \E record \in formal : Delete(record)
    \/ \E b \in BodyIds : \/ CreateTemporary(b) \/ LeakBody(b) \/ CreateCandidate(b)
                          \/ RemoveTemporary(b) \/ ClearOne(b) \/ RestoreOne(b)
                          \/ \E old \in formal : Remake(old, b)
    \/ \E n \in 0..MaxScene : BeginRestore([i \in 1..n |-> i = 1])

ObstacleSpec == ObstacleInit /\ [][ObstacleNext]_obstacleVars

-----------------------------------------------------------------------------
NoDoubleOwnership ==
    /\ BodiesOf(formal) \cap debt = {}
    /\ faulted => formal = {}
    /\ ~ghost.misled /\ job.op # "rollback" =>
          /\ BodiesOf(formal) \subseteq alive
          /\ BodiesOf(formal) \cap (job.temps \cup BodiesOf(job.cands)) = {}
          /\ debt \cap (job.temps \cup BodiesOf(job.cands)) = {}

EveryBodyOwned ==
    alive \subseteq BodiesOf(formal) \cup PendingBodyIds \cup ghost.leaked \cup ghost.abandoned

(* Whatever fails while obstacles are added, cleared or restored:          *)
(*  - a body never belongs to a record and to a debt, a faulted manager    *)
(*    shows no record and, unless a diagnosis failed, the body of every    *)
(*    record exists and is not also one of the batch under way, so that no *)
(*    clean-up can remove an obstacle that is shown;                       *)
(*  - a body that is in the world belongs to a record, to the batch under  *)
(*    way or to the debts, except one that Bullet made while refusing it   *)
(*    and that could not be looked for, and the candidates of a batch      *)
(*    given up because of the vehicle.                                     *)
BodiesOwnedOnce == frame # "down" => NoDoubleOwnership /\ EveryBodyOwned

(* Physics never runs a frame in which the runtime takes a removed body    *)
(* for an obstacle, or a published obstacle for terrain: the bindings      *)
(* follow every frame of a clear, also one that fails half-way.            *)
PhysicsSeesPublished ==
    frame = "physics" /\ attached => bound = BodiesOf(formal)

(* Bullet, the manager and the runtime agree on the obstacles. *)
ObstaclesSound == BodiesOwnedOnce /\ PhysicsSeesPublished
=============================================================================
