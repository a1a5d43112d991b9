----------------------- MODULE Stage4LidarCoordinator -----------------------
(***************************************************************************)
(* The stage-4 LiDAR worker of lidar_worker.py: a coordinator process      *)
(* sends every scan request to two sibling shard processes, merges their   *)
(* halves into one cloud and answers the parent.  A shard that misses the  *)
(* frame's 100 ms budget costs the frame, not the service: the coordinator *)
(* answers with a failure and then reads the late halves out of the pipes. *)
(*                                                                         *)
(* The parent follows the discipline LidarScanService gives it: one job at *)
(* a time, Stop only when idle.  Start-up is over.  The time-out of a      *)
(* frame may happen whenever the awaited half is not there yet.            *)
(***************************************************************************)
EXTENDS Integers, Sequences

CONSTANTS
    MaxJobs,      \* bound on scan requests
    Faults        \* what may go wrong: "fail", "die", "merge"

ASSUME CoordinatorAssumption ==
    /\ MaxJobs \in Nat
    /\ Faults \subseteq {"fail", "die", "merge"}

Shards == 1..2

VARIABLES
    jobs,         \* requests sent so far
    request,      \* request pipe: at most one job
    answers,      \* response pipe to the parent
    stopSent,     \* LidarWorkerStop is in the request pipe
    cpc,          \* coordinator: "recv", "send", "collect", "drain", "ack",
                  \* "leaving" (answered, about to return) or "gone"
    job,          \* the request being worked on
    next,         \* the shard whose turn it is
    parts,        \* halves received for it
    toShard,      \* request pipe of every shard
    fromShard,    \* response pipe of every shard
    shardUp,
    broken        \* history: some shard or the merge has failed

parentVars == <<jobs, stopSent>>
shardVars == <<toShard, fromShard, shardUp>>
vars == <<parentVars, request, answers, cpc, job, next, parts, shardVars, broken>>

Init ==
    /\ jobs = 0
    /\ request = <<>>
    /\ answers = <<>>
    /\ stopSent = FALSE
    /\ cpc = "recv"
    /\ job = 0
    /\ next = 1
    /\ parts = <<>>
    /\ toShard = [s \in Shards |-> <<>>]
    /\ fromShard = [s \in Shards |-> <<>>]
    /\ shardUp = [s \in Shards |-> TRUE]
    /\ broken = FALSE

-----------------------------------------------------------------------------
(* The parent. *)

(* The parent has no job on the way. *)
ParentIdle == request = <<>> /\ answers = <<>> /\ cpc \notin {"send", "collect"}

ParentSend ==
    /\ jobs < MaxJobs
    /\ ~stopSent
    /\ cpc # "gone"
    /\ ParentIdle
    /\ jobs' = jobs + 1
    /\ request' = <<jobs + 1>>
    /\ UNCHANGED <<stopSent, answers, cpc, job, next, parts, shardVars, broken>>

ParentTake ==
    /\ answers # <<>>
    /\ answers' = Tail(answers)
    /\ UNCHANGED <<parentVars, request, cpc, job, next, parts, shardVars, broken>>

(* handle.close sends Stop. *)
ParentStop ==
    /\ ~stopSent
    /\ cpc # "gone"
    /\ ParentIdle
    /\ stopSent' = TRUE
    /\ UNCHANGED <<jobs, request, answers, cpc, job, next, parts, shardVars, broken>>

-----------------------------------------------------------------------------
(* The coordinator: stage4_coordinator_entrypoint. *)

(* Mutant: the halves of the last frame are not cleared. *)
RecvKeepingParts ==
    /\ cpc = "recv"
    /\ request # <<>>
    /\ job' = Head(request)
    /\ request' = <<>>
    /\ cpc' = "send"
    /\ next' = 1
    /\ UNCHANGED <<parentVars, answers, parts, shardVars, broken>>

Recv ==
    /\ cpc = "recv"
    /\ request # <<>>
    /\ job' = Head(request)
    /\ request' = <<>>
    /\ cpc' = "send"
    /\ next' = 1
    /\ parts' = <<>>
    /\ UNCHANGED <<parentVars, answers, shardVars, broken>>

Reply(kind, halves) ==
    answers' = Append(answers, [job |-> job, kind |-> kind, parts |-> halves])

(* Any other exception: the frame fails and the coordinator returns. *)
FailFrame ==
    /\ Reply("failed", <<>>)
    /\ cpc' = "leaving"

SendShard ==
    /\ cpc = "send"
    /\ IF shardUp[next]
       THEN /\ toShard' = [toShard EXCEPT ![next] = Append(@, [kind |-> "scan", job |-> job])]
            /\ next' = IF next = 1 THEN 2 ELSE 1
            /\ cpc' = IF next = 1 THEN "send" ELSE "collect"
            /\ UNCHANGED answers
       ELSE /\ FailFrame
            /\ UNCHANGED <<toShard, next>>
    /\ UNCHANGED <<parentVars, request, job, parts, fromShard, shardUp, broken>>

Arrived(s) == fromShard[s] # <<>>

TakeFrom(s) == fromShard' = [fromShard EXCEPT ![s] = Tail(@)]

(* _reconstruct_stage4_shard_result: the half belongs to this request. *)
IsHalf(msg) == msg.kind = "result" /\ msg.job = job

(* The first half, or both: then they are merged and encoded. *)
CollectHalf ==
    /\ cpc = "collect"
    /\ Arrived(next)
    /\ IsHalf(Head(fromShard[next]))
    /\ TakeFrom(next)
    /\ parts' = Append(parts, Head(fromShard[next]).job)
    /\ \/ /\ next = 1
          /\ next' = 2
          /\ UNCHANGED <<answers, cpc, broken>>
       \/ /\ next = 2
          /\ Reply("frame", parts')
          /\ cpc' = "recv"
          /\ UNCHANGED <<next, broken>>
       \/ /\ next = 2
          /\ "merge" \in Faults
          /\ FailFrame
          /\ broken' = TRUE
          /\ UNCHANGED next
    /\ UNCHANGED <<parentVars, request, job, toShard, shardUp>>

(* Mutant: the end of the pipe is not noticed. *)
CollectBrokenByMessage ==
    /\ cpc = "collect"
    /\ Arrived(next)
    /\ ~IsHalf(Head(fromShard[next]))
    /\ TakeFrom(next)
    /\ FailFrame
    /\ UNCHANGED <<parentVars, request, job, next, parts, toShard, shardUp, broken>>

(* A shard's failure, a half of another request, or the end of the pipe. *)
CollectBroken ==
    /\ cpc = "collect"
    /\ \/ /\ Arrived(next)
          /\ ~IsHalf(Head(fromShard[next]))
          /\ TakeFrom(next)
       \/ /\ ~Arrived(next) /\ ~shardUp[next]
          /\ UNCHANGED fromShard
    /\ FailFrame
    /\ UNCHANGED <<parentVars, request, job, next, parts, toShard, shardUp, broken>>

(* Mutant: the late halves are left in the pipes. *)
TimeoutWithoutDrain ==
    /\ cpc = "collect"
    /\ ~Arrived(next) /\ shardUp[next]
    /\ Reply("failed", <<>>)
    /\ cpc' = "recv"
    /\ UNCHANGED <<parentVars, request, job, next, parts, shardVars, broken>>

(* The budget is over: answer first, then read the late halves. *)
Timeout ==
    /\ cpc = "collect"
    /\ ~Arrived(next) /\ shardUp[next]
    /\ Reply("failed", <<>>)
    /\ cpc' = "drain"
    /\ UNCHANGED <<parentVars, request, job, next, parts, shardVars, broken>>

(* A blocking recv per half that is still missing. *)
DrainHalf ==
    /\ cpc = "drain"
    /\ Arrived(next)
    /\ IsHalf(Head(fromShard[next]))
    /\ TakeFrom(next)
    /\ next' = 2
    /\ cpc' = IF next = 1 THEN "drain" ELSE "recv"
    /\ UNCHANGED <<parentVars, request, answers, job, parts, toShard, shardUp, broken>>

(* Mutant: a frame that timed out is answered a second time. *)
DrainBrokenAnswering ==
    /\ cpc = "drain"
    /\ ~Arrived(next) /\ ~shardUp[next]
    /\ FailFrame
    /\ UNCHANGED <<parentVars, request, job, next, parts, shardVars, broken>>

DrainBroken ==
    /\ cpc = "drain"
    /\ \/ /\ Arrived(next)
          /\ ~IsHalf(Head(fromShard[next]))
          /\ TakeFrom(next)
       \/ /\ ~Arrived(next) /\ ~shardUp[next]
          /\ UNCHANGED fromShard
    /\ cpc' = "leaving"
    /\ UNCHANGED <<parentVars, request, answers, job, next, parts, toShard, shardUp, broken>>

(* Stop: pass it on to the first shard, then the second; a broken pipe     *)
(* raises.                                                                 *)
Stop ==
    /\ cpc = "recv"
    /\ request = <<>>
    /\ stopSent
    /\ toShard' = [s \in Shards |-> IF \A r \in 1..s : shardUp[r]
                                    THEN Append(toShard[s], [kind |-> "stop", job |-> 0])
                                    ELSE toShard[s]]
    /\ cpc' = IF \A s \in Shards : shardUp[s] THEN "ack" ELSE "leaving"
    /\ next' = 1
    /\ UNCHANGED <<parentVars, request, answers, job, parts, fromShard, shardUp, broken>>

(* The Stopped acknowledgements, then the parent's.  Another message, the  *)
(* end of the pipe or the deadline raises.                                 *)
Acknowledge ==
    /\ cpc = "ack"
    /\ \/ /\ Arrived(next)
          /\ Head(fromShard[next]).kind = "stopped"
          /\ TakeFrom(next)
          /\ next' = 2
          /\ IF next = 2
             THEN /\ answers' = Append(answers, [job |-> 0, kind |-> "stopped", parts |-> <<>>])
                  /\ cpc' = "leaving"
             ELSE UNCHANGED <<answers, cpc>>
       \/ /\ Arrived(next) => Head(fromShard[next]).kind # "stopped"
          /\ cpc' = "leaving"
          /\ UNCHANGED <<fromShard, next, answers>>
    /\ UNCHANGED <<parentVars, request, job, parts, toShard, shardUp, broken>>

(* return or raise: the finally block closes every pipe. *)
Leave ==
    /\ cpc = "leaving"
    /\ cpc' = "gone"
    /\ request' = <<>>
    /\ UNCHANGED <<parentVars, answers, job, next, parts, shardVars, broken>>

Coordinator ==
    \/ Recv \/ SendShard \/ CollectHalf \/ CollectBroken \/ Timeout
    \/ DrainHalf \/ DrainBroken \/ Stop \/ Acknowledge \/ Leave

-----------------------------------------------------------------------------
(* A shard: stage4_shard_entrypoint. *)

Say(s, kind, j) == fromShard' = [fromShard EXCEPT ![s] = Append(@, [kind |-> kind, job |-> j])]

ShardScan(s) ==
    /\ shardUp[s]
    /\ toShard[s] # <<>>
    /\ Head(toShard[s]).kind = "scan"
    /\ toShard' = [toShard EXCEPT ![s] = Tail(@)]
    /\ \/ /\ Say(s, "result", Head(toShard[s]).job)
          /\ UNCHANGED <<shardUp, broken>>
       \/ /\ "fail" \in Faults
          /\ Say(s, "failure", Head(toShard[s]).job)
          /\ shardUp' = [shardUp EXCEPT ![s] = FALSE]
          /\ broken' = TRUE
    /\ UNCHANGED <<parentVars, request, answers, cpc, job, next, parts>>

(* Stop, or the end of the request pipe: disconnect and acknowledge. *)
ShardStop(s) ==
    /\ shardUp[s]
    /\ IF toShard[s] = <<>> THEN cpc = "gone" ELSE Head(toShard[s]).kind = "stop"
    /\ toShard' = [toShard EXCEPT ![s] = <<>>]
    /\ Say(s, "stopped", 0)
    /\ shardUp' = [shardUp EXCEPT ![s] = FALSE]
    /\ UNCHANGED <<parentVars, request, answers, cpc, job, next, parts, broken>>

ShardDies(s) ==
    /\ "die" \in Faults
    /\ shardUp[s]
    /\ shardUp' = [shardUp EXCEPT ![s] = FALSE]
    /\ toShard' = [toShard EXCEPT ![s] = <<>>]
    /\ broken' = TRUE
    /\ UNCHANGED <<parentVars, request, answers, cpc, job, next, parts, fromShard>>

Next ==
    \/ ParentSend \/ ParentTake \/ ParentStop
    \/ Coordinator
    \/ \E s \in Shards : ShardScan(s) \/ ShardStop(s) \/ ShardDies(s)

Spec == Init /\ [][Next]_vars

(* Every process keeps running and the parent reads its answers. *)
LiveSpec ==
    /\ Spec
    /\ WF_vars(ParentTake)
    /\ WF_vars(Coordinator)
    /\ \A s \in Shards : WF_vars(ShardScan(s) \/ ShardStop(s))

-----------------------------------------------------------------------------
(* Properties *)

Message == [kind : {"scan", "stop", "result", "failure", "stopped"}, job : 0..MaxJobs]

Answer == [job : 0..MaxJobs, kind : {"frame", "failed", "stopped"}, parts : Seq(1..MaxJobs)]

TypeOK ==
    /\ jobs \in 0..MaxJobs
    /\ request \in Seq(1..MaxJobs) /\ Len(request) <= 1
    /\ answers \in Seq(Answer)
    /\ stopSent \in BOOLEAN
    /\ cpc \in {"recv", "send", "collect", "drain", "ack", "leaving", "gone"}
    /\ job \in 0..MaxJobs
    /\ next \in Shards
    /\ parts \in Seq(1..MaxJobs) /\ Len(parts) <= 2
    /\ toShard \in [Shards -> Seq(Message)]
    /\ fromShard \in [Shards -> Seq(Message)]
    /\ shardUp \in [Shards -> BOOLEAN]
    /\ broken \in BOOLEAN

(* When the coordinator turns to the next request, nothing of an earlier   *)
(* one is left between it and its shards, however late they were.          *)
CleanBetweenFrames ==
    cpc = "recv" => \A s \in Shards :
        /\ shardUp[s] => toShard[s] = <<>>
        /\ fromShard[s] = <<>>

(* A cloud is made of two halves of the scan it answers. *)
NoMixedFrame ==
    \A i \in 1..Len(answers) :
        answers[i].kind = "frame" => answers[i].parts = <<answers[i].job, answers[i].job>>

(* A slow shard never ends the service: the coordinator returns only after *)
(* a Stop or after a shard or the merge has really failed.                 *)
LateIsNotFatal == cpc \in {"leaving", "gone"} => stopSent \/ broken

(* The parent's view of the two pipes; the acknowledgement of a Stop is no *)
(* answer to a request and comes alone.                                    *)
PendingRequests == IF cpc \in {"send", "collect"} THEN <<job>> \o request ELSE request
UnreadAnswers ==
    IF answers # <<>> /\ Head(answers).kind = "stopped" THEN <<>>
    ELSE [i \in 1..Len(answers) |-> [job |-> answers[i].job, kind |-> answers[i].kind]]

Child == INSTANCE LidarChild WITH
    Kinds <- {"frame", "failed"},
    MayExit <- TRUE,
    requests <- PendingRequests,
    responses <- UnreadAnswers,
    childUp <- cpc # "gone"

(* The three processes together are a LidarChild: every request is         *)
(* answered at most once, in order and by name.                            *)
ImplementsLidarChild == Child!ChildSpec

(* Every request is answered or the coordinator ends. *)
EveryRequestSettled ==
    \A j \in 1..MaxJobs :
        request = <<j>> ~> cpc = "gone" \/ (job = j /\ cpc \notin {"send", "collect"})

(* Once the coordinator returns, for whatever reason, no process of the    *)
(* worker stays behind; and a Stop makes it return.                        *)
NoOrphanShard ==
    /\ cpc = "leaving" ~> \A s \in Shards : ~shardUp[s]
    /\ stopSent ~> cpc = "gone"

(* Nobody waits for ever: neither the parent for an answer nor a process   *)
(* of the worker for a message that can no longer come.                    *)
NobodyWaitsForEver == EveryRequestSettled /\ NoOrphanShard
=============================================================================
