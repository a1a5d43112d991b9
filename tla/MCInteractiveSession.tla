------------------------ MODULE MCInteractiveSession ------------------------
(* An interactive session of which one part runs per behaviour, the others *)
(* resting: the command chain, a capture and its files, the frame loop of  *)
(* the host.                                                               *)
EXTENDS CommandChain, Capture, ManualSession

VARIABLE part

sideVars == <<vars, captureVars, sessVars, part>>

SideInit ==
    /\ part \in {"chain", "capture", "host"}
    /\ Init /\ CaptureInit
    /\ SessInit /\ (part # "host" => run.mode = "plain")

SideNext ==
    \/ part = "chain" /\ Next /\ UNCHANGED <<captureVars, sessVars, part>>
    \/ part = "capture" /\ CaptureNext /\ UNCHANGED <<vars, sessVars, part>>
    \/ part = "host" /\ SessNext /\ UNCHANGED <<vars, captureVars, part>>

(* The fairness of each part, while it is the one that runs. *)
SideFairness ==
    /\ WF_vars(part = "chain" /\ MainNext)
    /\ WF_vars(part = "chain" /\ (RelayWake \/ RelayGeneration \/ RelayDrained \/ RelayObserve))
    /\ SF_vars(part = "chain" /\ RelayRenew)
    /\ WF_vars(part = "chain" /\ (ReadTarget \/ ReadGeneration \/ ReadEof))
    /\ WF_vars(part = "chain" /\ Publish)
    /\ WF_captureVars(part = "capture" /\ LoopStep)
    /\ \A n \in Captures : /\ WF_captureVars(part = "capture" /\ ThreadStep(n))
                           /\ WF_captureVars(part = "capture" /\ ReconstructionEnds(n))
    /\ WF_sessVars(part = "host" /\ Opening)
    /\ WF_sessVars(part = "host" /\ Closing)
    /\ WF_sessVars(part = "host" /\ Frame)

SideSpec == SideInit /\ [][SideNext]_sideVars /\ SideFairness

(* What was begun is settled in the end: a target that is held drives the  *)
(* wheels, and a capture that is being generated is shown as completed or  *)
(* as failed; its name is only ever given to a whole one.                  *)
InteractiveSettles == HeldTargetDrives /\ GeneratingSettles
=============================================================================
