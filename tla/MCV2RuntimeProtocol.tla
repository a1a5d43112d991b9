------------------------ MODULE MCV2RuntimeProtocol ------------------------
(* Small instances of the v2 controller: one callback at a time against    *)
(* every operation, or two callbacks of one publisher against the clock:   *)
(* late, reordered and expired commands.                                   *)
EXTENDS V2RuntimeProtocol, TLC

CONSTANTS lidar, rtk, only

VARIABLE part

SensorFrame == {<<lidar, rtk>>}

Operations == INSTANCE V2RuntimeProtocol WITH Callbacks <- {only}, MaxTime <- 0
Clock == INSTANCE V2RuntimeProtocol
    WITH Frames <- {}, GenMax <- 2, MaxPeers <- 1, MaxLifecycle <- 1

(* The publisher against the clock is chosen once and has the robot's      *)
(* model; the generations running out is among the operations.             *)
ProtocolInit ==
    /\ Init
    /\ part \in {"operations"} \cup Sources

OnePublisher ==
    ~fatal /\ \A c \in Callbacks : ingress[c] # Idle => ingress[c].cmd.src = part /\ ingress[c].cmd.model = model

ProtocolNext ==
    /\ UNCHANGED part
    /\ \/ part = "operations" /\ Operations!Next
       \/ part \in Sources /\ Clock!Next /\ model' = model /\ OnePublisher'

ProtocolSpec == ProtocolInit /\ [][ProtocolNext]_<<vars, part>>

(* Sources and models are only compared with each other. *)
Symmetry == Permutations(Sources) \cup Permutations(Models)
=============================================================================
