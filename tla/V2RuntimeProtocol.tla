------------------------- MODULE V2RuntimeProtocol -------------------------
(***************************************************************************)
(* The v2 controller: it joins the session, the authority and the mailbox  *)
(* under one condition lock (slope_sim/interfaces/v2/runtime_protocol.py). *)
(*                                                                         *)
(* Two kinds of actor run against it.  The physics thread refreshes the    *)
(* discovered peers, rebuilds the world, reads decisions, reserves output  *)
(* identities and closes; it releases the lock between the liveness check  *)
(* and the application of a transport snapshot.  A command callback takes  *)
(* the tokens of the moment (Capture), decodes the payload with no lock    *)
(* held, and comes back to commit (Accept); anything may happen between.   *)
(***************************************************************************)
EXTENDS CommandAuthority, WheelCommandMailbox

CONSTANTS
    Models,        \* robot models
    Callbacks,     \* concurrently running ingress callbacks
    Idle,          \* a callback that holds no payload
    MaxCmdSeq,     \* bound on the publishers' sequence numbers
    MaxTime,       \* bound on the clock
    MaxLifecycle   \* bound on the lifecycle generation

ASSUME ProtocolAssumption ==
    /\ MaxCmdSeq \in Nat
    /\ MaxTime \in Nat
    /\ MaxLifecycle \in Nat
    /\ Models # {}

VARIABLES
    lifecycle,     \* _lifecycle_generation
    token,         \* _subscription_token
    verified,      \* _command_protocol_state = "verified"
    closed,        \* _closed
    fatal,         \* _fatal_error is not None
    model,         \* _model
    refreshing,    \* physics thread is between the two locks of refresh_transport
    ingress,       \* per callback: Idle, or the captured tokens and payload
    now,           \* the monotonic clock
    driving        \* the command the last decision gave to the wheels

controllerVars == <<lifecycle, token, verified, closed, fatal, model>>
vars == <<sessionVars, authorityVars, mailboxVars, controllerVars,
          refreshing, ingress, now, driving>>

(* A payload.  ok: simulation session, descriptor and wheel shape match.   *)
(* capGen is history: the command generation when it was captured.         *)
Command == [src : Sources, wg : Nat, cg : Nat, model : Models, ok : BOOLEAN,
            seq : Nat, capGen : Nat]

ASSUME NoCommandAssumption == NoCommand \notin Command

(* What can arrive now.  A publisher learns generations from the simulator, *)
(* so it never carries one that has not been issued.                        *)
Arriving ==
    [src : Sources, wg : 1..worldGen, cg : 1..cmdGen, model : Models,
     ok : BOOLEAN, seq : 0..MaxCmdSeq, capGen : {cmdGen}]

Init ==
    /\ SessionInit
    /\ AuthorityInit
    /\ MailboxInit
    /\ lifecycle = 0
    /\ token = 0
    /\ verified = FALSE
    /\ closed = FALSE
    /\ fatal = FALSE
    /\ model \in Models
    /\ refreshing = FALSE
    /\ ingress = [c \in Callbacks |-> Idle]
    /\ now = 0
    /\ driving = NoCommand

-----------------------------------------------------------------------------
(* Mutant: a fatal error leaves the mailbox as it is. *)
EnterFatalKeepingMailbox(d) ==
    /\ ~CanAdvance
    /\ fatal' = TRUE
    /\ lifecycle' = lifecycle + d + 1
    /\ token' = token + d + 1
    /\ UNCHANGED mailboxVars
    /\ AuthorityFatal

(* _enter_fatal_locked, from a step that has already moved the two tokens   *)
(* by d; a second fatal error changes nothing more.                         *)
EnterFatal(d) ==
    /\ ~CanAdvance
    /\ fatal' = TRUE
    /\ IF fatal
       THEN /\ lifecycle' = lifecycle + d
            /\ token' = token + d
            /\ UNCHANGED <<sessionVars, authorityVars, mailboxVars>>
       ELSE /\ lifecycle' = lifecycle + d + 1
            /\ token' = token + d + 1
            /\ MailboxClear
            /\ AuthorityFatal

(* refresh_transport: the check, then discovery is polled with no lock. *)
RefreshPoll ==
    /\ ~refreshing
    /\ ~closed
    /\ ~fatal
    /\ refreshing' = TRUE
    /\ UNCHANGED <<sessionVars, authorityVars, mailboxVars, controllerVars,
                   ingress, now, driving>>

(* _apply_transport_snapshot with a verified command topic and n peers. *)
ApplyVerified(n) ==
    /\ \/ /\ ObservePeerEdge(n)
          /\ MailboxClear
          /\ verified' = TRUE
          /\ UNCHANGED <<lifecycle, token, fatal>>
       \/ /\ ObservePeerCount(n)
          /\ verified' = TRUE
          /\ UNCHANGED <<mailboxVars, lifecycle, token, fatal>>
       \/ /\ PeerEdge(n)
          /\ EnterFatal(0)
          /\ UNCHANGED verified
    /\ UNCHANGED <<closed, model>>

(* Mutant: losing verification is treated like any other observation. *)
ApplyUnverifiedAsObservation(n) ==
    /\ ObservePeerCount(n)
    /\ verified' = FALSE
    /\ UNCHANGED <<mailboxVars, lifecycle, token, fatal, closed, model>>

(* _apply_unverified_protocol: only leaving "verified" revokes. *)
ApplyUnverified(n) ==
    /\ \/ /\ \/ verified /\ SuspendProtocol(n)
             \/ ~verified /\ ObservePeerEdge(n)
          /\ MailboxClear
          /\ verified' = FALSE
          /\ UNCHANGED <<lifecycle, token, fatal>>
       \/ /\ ~verified
          /\ ObservePeerCount(n)
          /\ verified' = FALSE
          /\ UNCHANGED <<mailboxVars, lifecycle, token, fatal>>
       \/ /\ verified \/ PeerEdge(n)
          /\ EnterFatal(0)
          /\ UNCHANGED verified
    /\ UNCHANGED <<closed, model>>

RefreshApply ==
    /\ refreshing
    /\ refreshing' = FALSE
    /\ \E n \in 0..MaxPeers : ApplyVerified(n) \/ ApplyUnverified(n)
    /\ UNCHANGED <<ingress, now, driving>>

-----------------------------------------------------------------------------
(* capture_ingress, then the payload is decoded outside the lock. *)
Capture(c) ==
    /\ ingress[c] = Idle
    /\ \E cmd \in Arriving :
         ingress' = [ingress EXCEPT ![c] =
                       [life |-> lifecycle, tok |-> token, mb |-> mbGen,
                        cmd |-> cmd, at |-> now]]
    /\ UNCHANGED <<sessionVars, authorityVars, mailboxVars, controllerVars,
                   refreshing, now, driving>>

(* The first check of accept_decoded_command_result. *)
Current(i) ==
    /\ ~closed
    /\ ~fatal
    /\ verified
    /\ i.life = lifecycle
    /\ i.tok = token
    /\ i.mb = mbGen

(* The command is committed to the mailbox and the owner is claimed or continued. *)
AcceptCommit(i) ==
    /\ Current(i)
    /\ Admissible(i.cmd, model)
    /\ MailboxCommits(i.mb, i.at)
    /\ ClaimOwner(i.cmd) \/ ContinueOwner(i.cmd)
    /\ MailboxAccept(i.cmd, i.at)
    /\ UNCHANGED controllerVars

(* Another source in the current generation: revoke, or run out of generations. *)
AcceptRevoke(i) ==
    /\ Current(i)
    /\ Admissible(i.cmd, model)
    /\ OwnerChanged(i.cmd)
    /\ \/ /\ RevokeOnOwnerChange(i.cmd)
          /\ MailboxClear
          /\ UNCHANGED controllerVars
       \/ /\ EnterFatal(0)
          /\ UNCHANGED <<verified, closed, model>>

(* Every other outcome: a rejection, or ValueError from the mailbox. *)
AcceptReject(i) ==
    /\ ~ /\ Current(i)
         /\ Admissible(i.cmd, model)
         /\ \/ OwnerChanged(i.cmd)
            \/ /\ owner = NoOwner \/ i.cmd.seq > lastSeq
               /\ MailboxCommits(i.mb, i.at)
    /\ UNCHANGED <<sessionVars, authorityVars, mailboxVars, controllerVars>>

Accept(c) ==
    /\ ingress[c] # Idle
    /\ AcceptCommit(ingress[c]) \/ AcceptRevoke(ingress[c]) \/ AcceptReject(ingress[c])
    /\ ingress' = [ingress EXCEPT ![c] = Idle]
    /\ UNCHANGED <<refreshing, now, driving>>

-----------------------------------------------------------------------------
(* The tokens move before the authority is asked, so they also move when   *)
(* the rebuild is refused because one is already prepared.                 *)
PrepareWorldRebuild ==
    /\ ~refreshing
    /\ lifecycle < MaxLifecycle
    /\ \/ /\ AuthorityPrepare
          /\ MailboxClear
          /\ lifecycle' = lifecycle + 1
          /\ token' = token + 1
          /\ UNCHANGED fatal
       \/ /\ sessPrepared
          /\ lifecycle' = lifecycle + 1
          /\ token' = token + 1
          /\ UNCHANGED <<sessionVars, authorityVars, mailboxVars, fatal>>
       \/ /\ ~sessPrepared
          /\ EnterFatal(1)
    /\ UNCHANGED <<verified, closed, model, refreshing, ingress, now, driving>>

(* A changed model gets a new mailbox; the tokens do not move. *)
CommitWorldRebuild ==
    /\ ~refreshing
    /\ AuthorityCommit
    /\ \E m \in Models :
         /\ model' = m
         /\ IF m # model THEN MailboxNew ELSE UNCHANGED mailboxVars
    /\ UNCHANGED <<lifecycle, token, verified, closed, fatal,
                   refreshing, ingress, now, driving>>

(* abort_world_rebuild and fault_world_rebuild *)
EndWorldRebuild ==
    /\ ~refreshing
    /\ AuthorityEndRebuild
    /\ token' = token + 1
    /\ UNCHANGED <<mailboxVars, lifecycle, verified, closed, fatal, model,
                   refreshing, ingress, now, driving>>

ReserveOutputs ==
    /\ ~refreshing
    /\ ~closed
    /\ ~fatal
    /\ \E f \in Frames : ReserveOutput(f)
    /\ UNCHANGED <<authorityVars, mailboxVars, controllerVars,
                   refreshing, ingress, now, driving>>

(* The first close; later ones return at once. *)
Close ==
    /\ ~refreshing
    /\ ~closed
    /\ closed' = TRUE
    /\ \/ /\ SuspendProtocol(0)
          /\ MailboxClear
          /\ lifecycle' = lifecycle + 1
          /\ token' = token + 1
          /\ UNCHANGED fatal
       \/ EnterFatal(1)
    /\ UNCHANGED <<verified, model, refreshing, ingress, now, driving>>

-----------------------------------------------------------------------------
(* mailbox.decision with the time the physics loop sampled earlier. *)
Decide(t) ==
    /\ ~refreshing
    /\ MailboxDecision(t)
    /\ driving' = DecisionCommand(t)
    /\ UNCHANGED <<sessionVars, authorityVars, controllerVars,
                   refreshing, ingress, now>>

Tick ==
    /\ now < MaxTime
    /\ now' = now + 1
    /\ UNCHANGED <<sessionVars, authorityVars, mailboxVars, controllerVars,
                   refreshing, ingress, driving>>

Next ==
    \/ RefreshPoll
    \/ RefreshApply
    \/ \E c \in Callbacks : Capture(c)
    \/ \E c \in Callbacks : Accept(c)
    \/ PrepareWorldRebuild
    \/ CommitWorldRebuild
    \/ EndWorldRebuild
    \/ ReserveOutputs
    \/ Close
    \/ \E t \in 0..now : Decide(t)
    \/ Tick

Spec == Init /\ [][Next]_vars

-----------------------------------------------------------------------------
(* Properties *)

Ingress == [life : Nat, tok : Nat, mb : Nat, cmd : Command, at : Nat]

FlagsOK ==
    /\ sessPrepared \in BOOLEAN
    /\ authPrepared \in BOOLEAN
    /\ verified \in BOOLEAN
    /\ closed \in BOOLEAN
    /\ fatal \in BOOLEAN
    /\ refreshing \in BOOLEAN

DataOK ==
    /\ worldGen \in 1..GenMax
    /\ cmdGen \in 1..GenMax
    /\ nextSeq \in [Topics -> 0..(SeqMax + 1)]
    /\ issued \subseteq Topics \X Nat \X Nat
    /\ peerCount \in 0..MaxPeers
    /\ authState \in {"WAITING", "CLAIMABLE", "ACTIVE", "CONFLICT"}
    /\ owner \in Sources \cup {NoOwner}
    /\ lastSeq \in Nat \cup {NoSeq}
    /\ mbGen \in Nat
    /\ latest \in Command \cup {NoCommand}
    /\ lastValid \in Nat \cup {Never}
    /\ acceptTime \in Nat \cup {Never}
    /\ queryTime \in Nat \cup {Never}
    /\ mbState \in {"waiting_command", "active", "timed_out", "invalid_command"}
    /\ lifecycle \in Nat
    /\ token \in Nat
    /\ model \in Models
    /\ ingress \in [Callbacks -> Ingress \cup {Idle}]
    /\ now \in Nat
    /\ driving \in Command \cup {NoCommand}

TypeOK == FlagsOK /\ DataOK

(* The four-state table of the command authority: an owner exists exactly  *)
(* in ACTIVE, only with one peer, outside any rebuild and while the        *)
(* protocol is verified and alive; without an owner the state is the one   *)
(* the peer count implies (authority.py, all transitions).                 *)
AuthorityTable ==
    IF owner # NoOwner
    THEN /\ authState = "ACTIVE"
         /\ peerCount = 1
         /\ ~authPrepared
         /\ verified
         /\ ~closed
         /\ ~fatal
    ELSE authState = UnownedState(peerCount)

(* The executable command is always the last one the current owner sent    *)
(* for this world, this command generation and this robot: no revocation,  *)
(* rebuild, model change, close or fatal error leaves an older command in  *)
(* the mailbox, and there is an owner only while its command is there.     *)
MailboxHoldsOwnersCommand ==
    /\ latest = NoCommand <=> owner = NoOwner
    /\ latest # NoCommand =>
         /\ latest.src = owner
         /\ latest.seq = lastSeq
         /\ latest.wg = worldGen
         /\ latest.cg = cmdGen
         /\ latest.model = model

(* A callback that captured its tokens before a revocation never commits   *)
(* after it, although a model change restarts the mailbox generation at 0  *)
(* and a commit does not move the subscription token.                      *)
NoCommitAcrossRevocation == latest # NoCommand => latest.capGen = cmdGen

(* A prepared rebuild has already advanced the command generation past the *)
(* world generation, so the commit can never find the world generation     *)
(* exhausted and leave the transaction half done (session.py, commit).     *)
CommitNeverExhausted == sessPrepared => worldGen < cmdGen /\ authPrepared

(* The next identity a topic gets was never handed out: world generation   *)
(* and sequence identify a frame even though a commit restarts sequences.  *)
NoIdentityReuse ==
    \A t \in Topics : <<t, worldGen, nextSeq[t]>> \notin issued

(* An owner loses or changes its role only together with a new command     *)
(* generation, or when there is none left: one generation, one owner.      *)
RevocationAdvancesGeneration ==
    [][owner # NoOwner /\ owner' # owner => cmdGen' = cmdGen + 1 \/ fatal']_vars

(* What the wheels start to execute is fresh at the sampled time and comes *)
(* from the current generation of a live, verified, unprepared controller. *)
WheelsFollowLiveCommand ==
    [][driving' # driving /\ driving' # NoCommand =>
         /\ driving'.cg = cmdGen
         /\ ~authPrepared /\ verified /\ ~closed /\ ~fatal
         /\ queryTime' < lastValid + Timeout]_vars

(* Within one generation the executed sequence numbers strictly increase:  *)
(* a duplicated or late frame never replaces a newer one.                  *)
SequenceAdvances ==
    [][latest # NoCommand /\ latest' # NoCommand /\ latest' # latest =>
         latest'.seq > latest.seq /\ latest'.src = latest.src]_vars

Safety ==
    INSTANCE CommandSafety WITH
        gen <- cmdGen,
        holder <- owner,
        live <- IF latest = NoCommand THEN 0 ELSE latest.cg,
        ended <- closed \/ fatal,
        None <- NoOwner

(* The controller implements the mechanism-free command promise. *)
ImplementsCommandSafety == Safety!Spec
=============================================================================
