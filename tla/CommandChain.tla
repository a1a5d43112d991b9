---------------------------- MODULE CommandChain ----------------------------
(***************************************************************************)
(* How a manual target reaches the wheels in the runSim v2 process set:    *)
(*                                                                         *)
(*   GUI/physics loop --shared target, pipe--> relay process               *)
(*     --Unix socket--> C++ Command --/sim/wheel/command--> receiver       *)
(*     process --latest frame--> GUI/physics loop --> wheels               *)
(*                                                                         *)
(* (manual_demo.py, runsim_command_client.py, stage4_command.cpp,          *)
(* runsim_command_receiver.py, world_runtime.py.)  A world change gives    *)
(* the simulator a new command generation; the loop then tells Command     *)
(* through the same chain.                                                 *)
(*                                                                         *)
(* Abstractions.  A world generation changes only together with a command  *)
(* generation and Command receives both in one message, so one number      *)
(* stands for the pair.  There is one command source.  Target versions are *)
(* only ever compared with "last observed" and with the cut-off of a       *)
(* generation message; a target is therefore marked fresh and carries the  *)
(* number of generation messages sent before it (its epoch).               *)
(***************************************************************************)
EXTENDS Integers, Sequences

CONSTANTS
    None,         \* no target: a zero motion
    Faults,       \* which disturbances the instance allows
    MaxOps,       \* bound on structural operations and disturbances
    MaxSeq,       \* frame counts from here on are not told apart
    SocketMax     \* bound on messages in the socket

ASSUME ChainAssumption ==
    /\ Faults \subseteq {"commit", "abort", "noop", "peer", "lease", "relay"}
    /\ MaxOps \in Nat
    /\ MaxSeq \in Nat \ {0}
    /\ SocketMax \in Nat \ {0}

Motions == {"zero", "go"}

NoSeq == -1

VARIABLES
    phase,        \* GUI/physics loop: the next part of the frame, or "down"
    cmdGen,       \* the simulator's command generation
    peers,        \* discovered publishers of /sim/wheel/command
    owned,        \* the authority has an owner
    lastSeq,      \* the owner's last accepted sequence
    mailbox,      \* the executable frame's target, None when empty or zero
    driving,      \* what the last decision gave to the wheels
    changed,      \* the last structural result says state_changed
    syncs,        \* generation messages sent so far
    genEpoch,     \* history: value of syncs when cmdGen last advanced
    ops           \* structural operations and disturbances so far

VARIABLES
    shared,       \* target_state: [motion, epoch, fresh]
    pipe,         \* generation messages to the relay
    wake,         \* wake_event
    relayPc,      \* relay loop: "wait", "drain", "target" or "down"
    relayTarget,  \* latest_target, or None
    armed,        \* next_deadline is set
    cutoff        \* generation_cutoff, as the epoch it starts

VARIABLES
    socket,       \* messages from the relay to Command
    template,     \* generation and epoch Command publishes under
    hasTarget,    \* has_target
    leased,       \* the leased target
    frameSeq,     \* frame_sequence
    frame,        \* latest frame in the receiver, or None
    unread        \* payload_version has advanced past the loop's

simVars == <<cmdGen, peers, owned, lastSeq, mailbox, driving, changed, syncs, genEpoch, ops>>
relayVars == <<relayPc, relayTarget, armed, cutoff>>
commandVars == <<template, hasTarget, leased, frameSeq>>
recvVars == <<frame, unread>>
vars == <<phase, simVars, shared, pipe, wake, relayVars, socket, commandVars, recvVars>>

Target == [motion : Motions, epoch : Nat]

Init ==
    /\ phase = "poll"
    /\ cmdGen = 1
    /\ peers = 0
    /\ owned = FALSE
    /\ lastSeq = NoSeq
    /\ mailbox = None
    /\ driving = None
    /\ changed = FALSE
    /\ syncs = 0
    /\ genEpoch = -1
    /\ ops = 0
    /\ shared = [motion |-> "zero", epoch |-> 0, fresh |-> FALSE]
    /\ pipe = <<>>
    /\ wake = FALSE
    /\ relayPc = "wait"
    /\ relayTarget = None
    /\ armed = FALSE
    /\ cutoff = 0
    /\ socket = <<>>
    /\ template = [gen |-> 1, epoch |-> 0]
    /\ hasTarget = FALSE
    /\ leased = None
    /\ frameSeq = 0
    /\ frame = None
    /\ unread = FALSE

Disturb(kind) ==
    /\ kind \in Faults
    /\ ops < MaxOps
    /\ ops' = ops + 1

-----------------------------------------------------------------------------
(* The GUI/physics loop, in the order of one frame. *)

(* The authority loses its owner, the mailbox is cleared. *)
AdvanceGeneration ==
    /\ cmdGen' = cmdGen + 1
    /\ owned' = FALSE
    /\ lastSeq' = NoSeq
    /\ mailbox' = None
    /\ genEpoch' = syncs

(* poll_if_due: Command is discovered, or has vanished from discovery. *)
Poll ==
    /\ phase = "poll"
    /\ phase' = "submit"
    /\ \/ /\ peers' = 1
          /\ UNCHANGED <<cmdGen, owned, lastSeq, mailbox, genEpoch, ops>>
       \/ /\ peers = 1
          /\ Disturb("peer")
          /\ peers' = 0
          /\ AdvanceGeneration
    /\ UNCHANGED <<driving, changed, syncs, shared, pipe, wake, relayVars,
                   socket, commandVars, recvVars>>

(* send_target: the loop submits every frame; a paused frame submits zero  *)
(* and ends here.                                                          *)
Submit ==
    /\ phase = "submit"
    /\ relayPc # "down"
    /\ \E m \in Motions :
         /\ shared' = [motion |-> m, epoch |-> syncs, fresh |-> TRUE]
         /\ phase' \in IF m = "zero" THEN {"decide", "poll"} ELSE {"decide"}
    /\ wake' = TRUE
    /\ UNCHANGED <<simVars, pipe, relayVars, socket, commandVars, recvVars>>

(* Frame counts at the bound stand for every larger one. *)
Advances(seq) == seq > lastSeq \/ seq = MaxSeq

(* accept_command_payload on the one latest frame. *)
Accepts == /\ unread
           /\ peers = 1
           /\ frame.gen = cmdGen
           /\ ~owned \/ Advances(frame.seq)

(* command_decision: take the latest frame, offer it to the authority, and *)
(* ask the mailbox; a command that was not just renewed may be too old.    *)
Decide ==
    /\ phase = "decide"
    /\ phase' = "step"
    /\ unread' = FALSE
    /\ IF Accepts
       THEN /\ owned' = TRUE
            /\ lastSeq' = frame.seq
            /\ mailbox' = frame.target
            /\ driving' = frame.target
       ELSE /\ driving' \in {mailbox, None}
            /\ UNCHANGED <<owned, lastSeq, mailbox>>
    /\ UNCHANGED <<cmdGen, peers, changed, syncs, genEpoch, ops, shared, pipe,
                   wake, relayVars, socket, commandVars, frame>>

(* coordinator.step.  "commit": a rebuild committed (target or rollback).   *)
(* "abort": the generation advanced but the result says nothing changed (a *)
(* refused rebuild; a frame of a clear that deletes and goes on; a clear   *)
(* that fails after some deletions).  "noop": a clear with nothing to      *)
(* delete succeeds.  A rebuild leaves new bodies without a wheel command.  *)
Step ==
    /\ phase = "step"
    /\ phase' = "sync"
    /\ \/ /\ changed' = FALSE
          /\ UNCHANGED <<cmdGen, owned, lastSeq, mailbox, genEpoch, ops, driving>>
       \/ /\ Disturb("commit")
          /\ AdvanceGeneration
          /\ driving' = None
          /\ changed' = TRUE
       \/ /\ Disturb("abort")
          /\ AdvanceGeneration
          /\ changed' = FALSE
          /\ UNCHANGED driving
       \/ /\ Disturb("noop")
          /\ changed' = TRUE
          /\ UNCHANGED <<cmdGen, owned, lastSeq, mailbox, genEpoch, driving>>
    /\ UNCHANGED <<peers, syncs, shared, pipe, wake, relayVars, socket,
                   commandVars, recvVars>>

(* Mutant: a successful change is not reported to Command. *)
SyncForgotten ==
    /\ phase = "sync"
    /\ phase' = "poll"
    /\ UNCHANGED <<simVars, shared, pipe, wake, relayVars, socket, commandVars,
                   recvVars>>

(* _sync_v2_command_generation, only for a result with state_changed. *)
Sync ==
    /\ phase = "sync"
    /\ phase' = "poll"
    /\ IF changed
       THEN /\ relayPc # "down"
            /\ syncs' = syncs + 1
            /\ pipe' = Append(pipe, [gen |-> cmdGen, epoch |-> syncs + 1])
            /\ wake' = TRUE
       ELSE UNCHANGED <<syncs, pipe, wake>>
    /\ UNCHANGED <<cmdGen, peers, owned, lastSeq, mailbox, driving, changed,
                   genEpoch, ops, shared, relayVars, socket, commandVars, recvVars>>

(* _require_running_locked raises: the simulation run ends. *)
RelayLost ==
    /\ relayPc = "down"
    /\ phase = "submit" \/ (phase = "sync" /\ changed)
    /\ phase' = "down"
    /\ driving' = None
    /\ UNCHANGED <<cmdGen, peers, owned, lastSeq, mailbox, changed, syncs, genEpoch,
                   ops, shared, pipe, wake, relayVars, socket, commandVars, recvVars>>

MainNext == Poll \/ Submit \/ Decide \/ Step \/ Sync \/ RelayLost

-----------------------------------------------------------------------------
(* The relay process: _run_command_relay. *)

(* wake_event.wait returns on the event or at the renewal deadline. *)
RelayWake ==
    /\ relayPc = "wait"
    /\ wake \/ armed
    /\ relayPc' = "drain"
    /\ wake' = FALSE
    /\ UNCHANGED <<phase, simVars, shared, pipe, relayTarget, armed, cutoff,
                   socket, commandVars, recvVars>>

(* One generation message: forward it and forget the current target. *)
RelayGeneration ==
    /\ relayPc = "drain"
    /\ pipe # <<>>
    /\ Len(socket) < SocketMax
    /\ socket' = Append(socket, [kind |-> "generation",
                                 gen |-> Head(pipe).gen, epoch |-> Head(pipe).epoch])
    /\ pipe' = Tail(pipe)
    /\ relayTarget' = None
    /\ armed' = FALSE
    /\ cutoff' = Head(pipe).epoch
    /\ UNCHANGED <<phase, simVars, shared, wake, relayPc, commandVars, recvVars>>

(* receiver.poll() finds nothing; a message may still come before the      *)
(* target is read.                                                         *)
RelayDrained ==
    /\ relayPc = "drain"
    /\ pipe = <<>>
    /\ relayPc' = "target"
    /\ UNCHANGED <<phase, simVars, shared, pipe, wake, relayTarget, armed, cutoff,
                   socket, commandVars, recvVars>>

(* Mutant: any unobserved target counts as new. *)
NewTargetIgnoringCutoff == shared.fresh

(* Mutant: the cut-off is compared off by one. *)
NewTargetBeyondCutoff == shared.fresh /\ shared.epoch > cutoff

(* Unobserved, and submitted after the last generation message. *)
NewTarget == shared.fresh /\ shared.epoch >= cutoff

Chosen == IF NewTarget THEN [motion |-> shared.motion, epoch |-> shared.epoch]
          ELSE relayTarget

(* The first target, and every zero target, is sent at once. *)
SendNow == NewTarget /\ (~armed \/ Chosen.motion = "zero")

SendTarget(t) ==
    /\ Len(socket) < SocketMax
    /\ socket' = Append(socket, [kind |-> "target", target |-> t])

(* The target is read, the deadline has not come. *)
RelayObserve ==
    /\ relayPc = "target"
    /\ relayPc' = "wait"
    /\ relayTarget' = Chosen
    /\ shared' = [shared EXCEPT !.fresh = @ /\ ~NewTarget]
    /\ IF SendNow
       THEN SendTarget(Chosen) /\ armed' = TRUE
       ELSE UNCHANGED <<socket, armed>>
    /\ UNCHANGED <<phase, simVars, pipe, wake, cutoff, commandVars, recvVars>>

(* The target is read and the deadline has come: renew. *)
RelayRenew ==
    /\ relayPc = "target"
    /\ armed
    /\ relayPc' = "wait"
    /\ relayTarget' = Chosen
    /\ shared' = [shared EXCEPT !.fresh = @ /\ ~NewTarget]
    /\ SendTarget(Chosen)
    /\ UNCHANGED <<phase, simVars, pipe, wake, armed, cutoff, commandVars, recvVars>>

(* Any exception or a closed pipe: the process closes its socket. *)
RelayFail ==
    /\ relayPc # "down"
    /\ Disturb("relay")
    /\ relayPc' = "down"
    /\ UNCHANGED <<phase, cmdGen, peers, owned, lastSeq, mailbox, driving, changed,
                   syncs, genEpoch, shared, pipe, wake, relayTarget, armed, cutoff,
                   socket, commandVars, recvVars>>

-----------------------------------------------------------------------------
(* C++ Command: RunInteractiveCommand.  Each round reads what the socket    *)
(* has, message by message, and then publishes one frame.                  *)

ReadTarget ==
    /\ socket # <<>>
    /\ Head(socket).kind = "target"
    /\ socket' = Tail(socket)
    /\ leased' = Head(socket).target
    /\ hasTarget' = TRUE
    /\ UNCHANGED <<phase, simVars, shared, pipe, wake, relayVars, template,
                   frameSeq, recvVars>>

(* Mutant: the lease survives the change of generation. *)
ReadGenerationKeepingTarget ==
    /\ socket # <<>>
    /\ Head(socket).kind = "generation"
    /\ socket' = Tail(socket)
    /\ template' = [gen |-> Head(socket).gen, epoch |-> Head(socket).epoch]
    /\ frameSeq' = 0
    /\ UNCHANGED <<phase, simVars, shared, pipe, wake, relayVars, hasTarget, leased,
                   recvVars>>

(* The template, the lease and the frame sequence start again. *)
ReadGeneration ==
    /\ socket # <<>>
    /\ Head(socket).kind = "generation"
    /\ socket' = Tail(socket)
    /\ template' = [gen |-> Head(socket).gen, epoch |-> Head(socket).epoch]
    /\ frameSeq' = 0
    /\ hasTarget' = FALSE
    /\ leased' = None
    /\ UNCHANGED <<phase, simVars, shared, pipe, wake, relayVars, recvVars>>

(* kClosed *)
ReadEof ==
    /\ socket = <<>>
    /\ relayPc = "down"
    /\ hasTarget
    /\ hasTarget' = FALSE
    /\ UNCHANGED <<phase, simVars, shared, pipe, wake, relayVars, socket, template,
                   leased, frameSeq, recvVars>>

(* The lease reaches 100 ms without a renewal. *)
LeaseExpires ==
    /\ hasTarget
    /\ Disturb("lease")
    /\ hasTarget' = FALSE
    /\ UNCHANGED <<phase, cmdGen, peers, owned, lastSeq, mailbox, driving, changed,
                   syncs, genEpoch, shared, pipe, wake, relayVars, socket, template,
                   leased, frameSeq, recvVars>>

(* One frame to /sim/wheel/command; the receiver keeps only the latest. *)
Publish ==
    /\ frame' = [gen |-> template.gen, seq |-> frameSeq,
                 target |-> IF hasTarget /\ leased.motion = "go" THEN leased ELSE None]
    /\ unread' = TRUE
    /\ frameSeq' = IF frameSeq < MaxSeq THEN frameSeq + 1 ELSE frameSeq
    /\ UNCHANGED <<phase, simVars, shared, pipe, wake, relayVars, socket, template,
                   hasTarget, leased>>

-----------------------------------------------------------------------------
RelayNext == \/ RelayWake \/ RelayGeneration \/ RelayDrained \/ RelayObserve
             \/ RelayRenew \/ RelayFail

CommandNext == ReadTarget \/ ReadGeneration \/ ReadEof \/ LeaseExpires \/ Publish

Next == MainNext \/ RelayNext \/ CommandNext

Spec == Init /\ [][Next]_vars

(* Every process keeps running, and the renewal deadline keeps coming. *)
Fairness ==
    /\ WF_vars(MainNext)
    /\ WF_vars(RelayWake \/ RelayGeneration \/ RelayDrained \/ RelayObserve)
    /\ SF_vars(RelayRenew)
    /\ WF_vars(ReadTarget \/ ReadGeneration \/ ReadEof)
    /\ WF_vars(Publish)

LiveSpec == Spec /\ Fairness

-----------------------------------------------------------------------------
(* Properties *)

TypeOK ==
    /\ phase \in {"poll", "submit", "decide", "step", "sync", "down"}
    /\ cmdGen \in 1..(MaxOps + 1)
    /\ peers \in 0..1
    /\ owned \in BOOLEAN
    /\ lastSeq \in 0..MaxSeq \cup {NoSeq}
    /\ mailbox \in Target \cup {None}
    /\ driving \in Target \cup {None}
    /\ changed \in BOOLEAN
    /\ syncs \in 0..MaxOps
    /\ genEpoch \in -1..MaxOps
    /\ ops \in 0..MaxOps
    /\ shared \in [motion : Motions, epoch : Nat, fresh : BOOLEAN]
    /\ pipe \in Seq([gen : Nat, epoch : Nat])
    /\ wake \in BOOLEAN
    /\ relayPc \in {"wait", "drain", "target", "down"}
    /\ relayTarget \in Target \cup {None}
    /\ armed \in BOOLEAN
    /\ cutoff \in 0..MaxOps
    /\ Len(socket) <= SocketMax
    /\ template \in [gen : Nat, epoch : Nat]
    /\ hasTarget \in BOOLEAN
    /\ leased \in Target \cup {None}
    /\ frameSeq \in 0..MaxSeq
    /\ unread \in BOOLEAN

(* Command never holds a target that was submitted before the generation   *)
(* message it publishes under, whatever the relay had observed or had not  *)
(* yet observed when the message overtook it (generation_cutoff).          *)
NoTargetFromBeforeSync == hasTarget => leased.epoch >= template.epoch

(* The wheels execute only targets the operator submitted after the last   *)
(* advance of the command generation: no world change, abort or lost peer  *)
(* lets an older target through the five processes' buffers.               *)
WheelsFollowCurrentWorld ==
    phase = "step" /\ driving # None => driving.epoch > genEpoch

(* A single source controls with strictly increasing sequences: a frame of *)
(* the owner in the current generation is never refused as out of order.   *)
OwnerSequenceIncreases ==
    phase = "decide" /\ unread /\ owned /\ frame.gen = cmdGen =>
        Advances(frame.seq)

(* After the last disturbance, as long as the relay lives and the loop is  *)
(* not paused for good, Command claims the command authority and keeps it. *)
AuthorityReclaimed ==
    <>[](relayPc # "down") /\ []<>(phase = "decide") => <>[]owned

(* The owner's frames are in order, and if the operator finally keeps      *)
(* requesting motion, the wheels move.                                     *)
HeldTargetDrives ==
    /\ [](TypeOK /\ OwnerSequenceIncreases)
    /\ <>[](relayPc # "down" /\ shared.motion = "go") => <>(driving # None)
=============================================================================
