---------------------------- MODULE MCEcalGate ----------------------------
(* The two acceptance gates: the eCAL round trip of the v1 interface, or  *)
(* the v2 runtime.                                                        *)
EXTENDS EcalGate, V2RuntimeGate

VARIABLE part

gatesVars == <<gateVars, v2GateVars, part>>

(* The choices of the one that does not run are made once. *)
GatesInit ==
    /\ part \in {"v1", "v2"}
    /\ GateInit /\ (part # "v1" => calm)
    /\ V2GateInit /\ (part # "v2" => fair /\ judge.mode = "headless" /\ judge.admitted)

GatesNext ==
    /\ UNCHANGED part
    /\ \/ part = "v1" /\ GateNext /\ UNCHANGED v2GateVars
       \/ part = "v2" /\ V2GateNext /\ UNCHANGED gateVars

V1Fairness ==
    /\ WF_gateVars(part = "v1" /\ GateStep)
    /\ WF_gateVars(part = "v1" /\ PeerStep)
    /\ WF_gateVars(part = "v1" /\ SimStep)
    /\ \A e \in Endpoints : WF_gateVars(part = "v1" /\ Discover(e))
    /\ WF_gateVars(part = "v1" /\ DeliverFrame(FALSE))
    /\ SF_gateVars(part = "v1" /\ DeliverCommand)
    /\ WF_gateVars(part = "v1" /\ CommandExpires)
    /\ SF_gateVars(part = "v1" /\ See)
    /\ SF_gateVars(part = "v1" /\ Turn(TRUE, TRUE))
    /\ SF_gateVars(part = "v1" /\ Turn(TRUE, FALSE))

(* Every process and thread of the v2 gate goes on, and what was sent      *)
(* arrives.                                                                *)
V2Fairness ==
    /\ WF_v2GateVars(part = "v2" /\ V2Judge)
    /\ WF_v2GateVars(part = "v2" /\ V2Collector)
    /\ WF_v2GateVars(part = "v2" /\ V2Simulator)
    /\ WF_v2GateVars(part = "v2" /\ SendFrame)
    /\ WF_v2GateVars(part = "v2" /\ V2Watch)
    /\ WF_v2GateVars(part = "v2" /\ V2Qt)
    /\ WF_v2GateVars(part = "v2" /\ Receive("good"))

GatesSpec == GatesInit /\ [][GatesNext]_gatesVars /\ V1Fairness /\ V2Fairness

(* Acknowledgements are true, accepted windows are whole and nobody is     *)
(* left behind, in either gate; and each ends with its verdict.  The gate  *)
(* that does not run stays in its initial state.                           *)
GatesDecide ==
    /\ [](/\ AcksAreTrue /\ WindowIsWhole /\ NoChildLeft
          /\ AcceptedIsWhole /\ StoppedAtClose /\ NobodyLeft)
    /\ part = "v1" => GateEnds
    /\ part = "v2" => V2GateEnds
=============================================================================
