----------------------------- MODULE LidarChild -----------------------------
(***************************************************************************)
(* What the parent process may rely on from a LiDAR worker process, as the *)
(* two one-way pipes show it (lidar_worker.py): a child that is up answers *)
(* its requests one by one, in order, each exactly once, and every answer  *)
(* names its job; when the child exits, answers it has already written     *)
(* stay readable and unread requests are lost.                             *)
(***************************************************************************)
EXTENDS Integers, Sequences

CONSTANTS
    Kinds,        \* answers the instance's child may give
    MayExit       \* the instance's child may exit on its own

ASSUME KindsAssumption ==
    /\ Kinds \subseteq {"frame", "failed", "unknown", "invalid"}
    /\ MayExit \in BOOLEAN

VARIABLES
    requests,     \* written to the request pipe, not answered
    responses,    \* written to the response pipe, not read
    childUp       \* the worker process holds its pipe ends

childVars == <<requests, responses, childUp>>

ChildInit ==
    /\ requests = <<>>
    /\ responses = <<>>
    /\ childUp = TRUE

(* channel.send: a pipe whose reader has gone raises instead. *)
ChildSend(job) ==
    /\ childUp
    /\ requests' = Append(requests, job)
    /\ UNCHANGED <<responses, childUp>>

(* channel.recv *)
ChildTake ==
    /\ responses # <<>>
    /\ responses' = Tail(responses)
    /\ UNCHANGED <<requests, childUp>>

ChildAnswer(kind) ==
    /\ childUp
    /\ requests # <<>>
    /\ requests' = Tail(requests)
    /\ responses' = Append(responses, [job |-> Head(requests), kind |-> kind])
    /\ UNCHANGED childUp

ChildExit ==
    /\ MayExit
    /\ childUp
    /\ childUp' = FALSE
    /\ requests' = <<>>
    /\ UNCHANGED responses

(* The parent promises to have at most one job on the way. *)
ParentSends ==
    /\ childUp
    /\ requests = <<>> /\ responses = <<>>
    /\ Len(requests') = 1
    /\ UNCHANGED <<responses, childUp>>

ChildNext ==
    \/ ParentSends
    \/ ChildTake
    \/ \E kind \in Kinds : ChildAnswer(kind)
    \/ ChildExit

ChildSpec == ChildInit /\ [][ChildNext]_childVars
=============================================================================
