-------------------------- MODULE ProtocolSession --------------------------
(***************************************************************************)
(* The identity of one simulator process on the v2 wire: the world and     *)
(* command generations, the world-rebuild transaction and the sequence     *)
(* numbers of the output topics (slope_sim/interfaces/v2/session.py).      *)
(*                                                                         *)
(* Every method of the class runs under one lock, so each operator below   *)
(* is one atomic effect on the session's variables.  GenMax and SeqMax     *)
(* stand for the uint64 maximum; the OverflowError paths are the guards    *)
(* CanAdvance and Consumed.                                                *)
(***************************************************************************)
EXTENDS Integers, Sequences

CONSTANTS
    Topics,      \* the output topics
    Frames,      \* the topic tuples reserved together, in reservation order
    GenMax,      \* the largest generation
    SeqMax       \* the largest output sequence number

ASSUME SessionAssumption ==
    /\ GenMax \in Nat \ {0}
    /\ SeqMax \in Nat
    /\ Frames \subseteq Seq(Topics)

VARIABLES
    worldGen,      \* _world_generation
    cmdGen,        \* _command_generation
    nextSeq,       \* _next_sequence
    sessPrepared,  \* _rebuild_prepared
    issued         \* history: every <<topic, world generation, sequence>> handed out

sessionVars == <<worldGen, cmdGen, nextSeq, sessPrepared, issued>>

SessionInit ==
    /\ worldGen = 1
    /\ cmdGen = 1
    /\ nextSeq = [t \in Topics |-> 0]
    /\ sessPrepared = FALSE
    /\ issued = {}

-----------------------------------------------------------------------------
(* _advance_command_generation_locked raises OverflowError unless this holds *)
CanAdvance == cmdGen < GenMax

AdvanceCommandGeneration == cmdGen' = cmdGen + 1

(* The topics of frame f that get a sequence number: reservation goes       *)
(* through the tuple in order and stops at the first exhausted topic.       *)
Consumed(f) ==
    {f[i] : i \in {k \in DOMAIN f : \A j \in 1..k : nextSeq[f[j]] <= SeqMax}}

(* Sequence numbers are taken before the sensors are read and are never    *)
(* given back.                                                             *)
ReserveOutput(f) ==
    /\ nextSeq' = [t \in Topics |->
                     IF t \in Consumed(f) THEN nextSeq[t] + 1 ELSE nextSeq[t]]
    /\ issued' = issued \cup {<<t, worldGen, nextSeq[t]>> : t \in Consumed(f)}
    /\ UNCHANGED <<worldGen, cmdGen, sessPrepared>>

SessionPrepare ==
    /\ ~sessPrepared
    /\ CanAdvance
    /\ AdvanceCommandGeneration
    /\ sessPrepared' = TRUE
    /\ UNCHANGED <<worldGen, nextSeq, issued>>

SessionCommit ==
    /\ sessPrepared
    /\ worldGen < GenMax
    /\ worldGen' = worldGen + 1
    /\ nextSeq' = [t \in Topics |-> 0]
    /\ sessPrepared' = FALSE
    /\ UNCHANGED <<cmdGen, issued>>

(* Mutant: an aborted rebuild restarts the sequences like a commit. *)
SessionEndRebuildRestartingSequences ==
    /\ sessPrepared
    /\ sessPrepared' = FALSE
    /\ nextSeq' = [t \in Topics |-> 0]
    /\ UNCHANGED <<worldGen, cmdGen, issued>>

(* abort_world_rebuild and fault_world_rebuild are the same state change: *)
(* the advanced command generation is not restored.                       *)
SessionEndRebuild ==
    /\ sessPrepared
    /\ sessPrepared' = FALSE
    /\ UNCHANGED <<worldGen, cmdGen, nextSeq, issued>>
=============================================================================
