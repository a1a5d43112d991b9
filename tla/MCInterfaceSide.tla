--------------------------- MODULE MCInterfaceSide ---------------------------
(* Three components of the interface layer that run beside each other and  *)
(* share no state, one per behaviour: the start and the end of Command, the *)
(* event log and the transport.                                            *)
EXTENDS RunSimLaunch, InterfaceEventLog, EcalTransport

VARIABLE part

parts == <<launchVars, logVars, trVars, part>>

(* The publishing side alone, a peer that comes and goes under one         *)
(* delivery, two deliveries in a row, and a little of both sides.          *)
Mixes == {[publish |-> 3, receive |-> 0, polls |-> 0, flips |-> 0],
          [publish |-> 0, receive |-> 1, polls |-> 2, flips |-> 1],
          [publish |-> 0, receive |-> 2, polls |-> 1, flips |-> 0],
          [publish |-> 1, receive |-> 1, polls |-> 0, flips |-> 0]}

Init ==
    /\ part \in {"launch", "log", "transport"}
    /\ LaunchInit /\ LogInit /\ TrInit
    /\ part # "transport" => raw /\ remote /\ budget.publish = 3

Next ==
    \/ part = "launch" /\ LaunchNext /\ UNCHANGED <<logVars, trVars, part>>
    \/ part = "log" /\ LogNext /\ UNCHANGED <<launchVars, trVars, part>>
    \/ part = "transport" /\ TrNext /\ UNCHANGED <<launchVars, logVars, part>>

(* The fairness of each component, while it is the one that runs. *)
Fairness ==
    /\ \A s \in Sims : /\ WF_launchVars(part = "launch" /\ OrchestratorStep(s))
                       /\ WF_launchVars(part = "launch" /\ CommandStep(s))
    /\ WF_logVars(part = "log" /\ WriterStep)
    /\ \A t \in Recorders : WF_logVars(part = "log" /\ Recording(t))
    /\ WF_logVars(part = "log" /\ RuntimeClosing)
    /\ WF_logVars(part = "log" /\ HostClosing)
    /\ \A t \in TrTopics : WF_trVars(part = "transport" /\ LaneStep(t))
    /\ WF_trVars(part = "transport" /\ ReceiveStep)
    /\ \A p \in Pollers : WF_trVars(part = "transport" /\ PollStep(p))
    /\ WF_trVars(part = "transport" /\ CloseStep)

Spec == Init /\ [][Next]_parts /\ Fairness
=============================================================================
