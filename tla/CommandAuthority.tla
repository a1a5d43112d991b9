-------------------------- MODULE CommandAuthority --------------------------
(***************************************************************************)
(* Who may drive the robot: at most one publisher of /sim/wheel/command,   *)
(* bound to one (source, source session) while exactly one peer is         *)
(* discovered (slope_sim/interfaces/v2/authority.py).                      *)
(*                                                                         *)
(* The authority owns the right to advance the session's command           *)
(* generation; each operator gives the whole effect of one method on the   *)
(* authority and the session.  Methods that can raise OverflowError have   *)
(* CanAdvance as a guard: the raising path changes nothing here, because   *)
(* the code advances the generation first.                                 *)
(***************************************************************************)
EXTENDS ProtocolSession

CONSTANTS
    Sources,     \* the (source_id, source_session_id) pairs
    NoOwner,
    MaxPeers     \* bound on the peer count discovery reports

ASSUME AuthorityAssumption ==
    /\ NoOwner \notin Sources
    /\ MaxPeers \in Nat

NoSeq == -1      \* _last_sequence is None

VARIABLES
    peerCount,     \* _peer_count
    authState,     \* _state
    owner,         \* _owner
    lastSeq,       \* _last_sequence
    authPrepared   \* _rebuild_prepared

authorityVars == <<peerCount, authState, owner, lastSeq, authPrepared>>

(* _state_for_unowned_peer_count *)
UnownedState(n) ==
    CASE n = 0 -> "WAITING" [] n = 1 -> "CLAIMABLE" [] OTHER -> "CONFLICT"

AuthorityInit ==
    /\ peerCount = 0
    /\ authState = "WAITING"
    /\ owner = NoOwner
    /\ lastSeq = NoSeq
    /\ authPrepared = FALSE

-----------------------------------------------------------------------------
ClearOwner ==
    /\ owner' = NoOwner
    /\ lastSeq' = NoSeq

(* Drop the owner and fall back to the state the peer count n implies. *)
Disown(n) ==
    /\ peerCount' = n
    /\ authState' = UnownedState(n)
    /\ ClearOwner

(* Mutant: only the loss of the peer counts as an edge, not a second peer. *)
PeerEdgeOnLossOnly(n) == peerCount = 1 /\ n = 0

(* The unique peer has left or is no longer unique. *)
PeerEdge(n) == peerCount = 1 /\ n # 1

ObservePeerEdge(n) ==
    /\ PeerEdge(n)
    /\ CanAdvance
    /\ AdvanceCommandGeneration
    /\ Disown(n)
    /\ UNCHANGED <<worldGen, nextSeq, sessPrepared, issued, authPrepared>>

ObservePeerCount(n) ==
    /\ ~PeerEdge(n)
    /\ IF n = 1
       THEN /\ peerCount' = n
            /\ authState' = IF owner # NoOwner THEN "ACTIVE" ELSE "CLAIMABLE"
            /\ UNCHANGED <<owner, lastSeq>>
       ELSE Disown(n)
    /\ UNCHANGED <<sessionVars, authPrepared>>

SuspendProtocol(n) ==
    /\ CanAdvance
    /\ AdvanceCommandGeneration
    /\ Disown(n)
    /\ UNCHANGED <<worldGen, nextSeq, sessPrepared, issued, authPrepared>>

(* Mutant: only the shape and the model are checked, not the generations. *)
AdmissibleByShape(cmd, model) ==
    ~authPrepared /\ peerCount = 1 /\ cmd.ok /\ cmd.model = model

(* accept(): the identity checks, in the order of the code; a command that *)
(* fails one is rejected without any effect.                               *)
Admissible(cmd, model) ==
    /\ ~authPrepared
    /\ peerCount = 1
    /\ cmd.ok                     \* simulation session, descriptor, wheel shape
    /\ cmd.wg = worldGen
    /\ cmd.cg = cmdGen
    /\ cmd.model = model

(* No owner: any sequence number may claim; the mailbox has committed. *)
ClaimOwner(cmd) ==
    /\ owner = NoOwner
    /\ owner' = cmd.src
    /\ lastSeq' = cmd.seq
    /\ authState' = "ACTIVE"
    /\ UNCHANGED <<sessionVars, peerCount, authPrepared>>

(* Mutant: the owner's sequence number is not compared. *)
ContinueOwnerUnordered(cmd) ==
    /\ owner = cmd.src
    /\ lastSeq' = cmd.seq
    /\ UNCHANGED <<sessionVars, peerCount, authState, owner, authPrepared>>

(* The owner advances its sequence; the mailbox has committed. *)
ContinueOwner(cmd) ==
    /\ owner = cmd.src
    /\ cmd.seq > lastSeq
    /\ lastSeq' = cmd.seq
    /\ UNCHANGED <<sessionVars, peerCount, authState, owner, authPrepared>>

OwnerChanged(cmd) == owner # NoOwner /\ owner # cmd.src

(* Mutant: the owner is dropped without starting a new generation. *)
DropOnOwnerChange(cmd) ==
    /\ OwnerChanged(cmd)
    /\ Disown(peerCount)
    /\ UNCHANGED <<sessionVars, authPrepared>>

(* Another source speaks in the current generation: revoke, do not hand over. *)
RevokeOnOwnerChange(cmd) ==
    /\ OwnerChanged(cmd)
    /\ CanAdvance
    /\ AdvanceCommandGeneration
    /\ Disown(peerCount)
    /\ UNCHANGED <<worldGen, nextSeq, sessPrepared, issued, authPrepared>>

AuthorityPrepare ==
    /\ SessionPrepare
    /\ authPrepared' = TRUE
    /\ Disown(peerCount)

AuthorityCommit ==
    /\ SessionCommit
    /\ authPrepared' = FALSE
    /\ Disown(peerCount)

(* abort_world_rebuild and fault_world_rebuild *)
AuthorityEndRebuild ==
    /\ SessionEndRebuild
    /\ authPrepared' = FALSE
    /\ Disown(peerCount)

(* enter_fatal: the generation is exhausted and is not advanced. *)
AuthorityFatal ==
    /\ Disown(0)
    /\ UNCHANGED <<sessionVars, authPrepared>>
=============================================================================
