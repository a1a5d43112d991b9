---------------------------- MODULE MCGolfMapping ----------------------------
(* The golf mapping run, or the replay of a recorded one. *)
EXTENDS GolfMapping, MappingReplay

VARIABLE part

mappingVars == <<golfVars, replayVars, part>>

(* A recording whose scans have the times l and whose poses have the times *)
(* p; voxel "a" is hit first by fixed and then by moving points, voxel "b" *)
(* the other way round.                                                    *)
Stamps(ts) == [i \in 1..Len(ts) |-> [seq |-> ts[i], time |-> ts[i]]]
HitLayers(v, i) ==
    CASE v = "a" -> IF i \in {1, 3} THEN {"fixed"} ELSE {"moving"}
      [] i = 1 -> {"moving"}
      [] i = 3 -> {"fixed", "moving"}
      [] OTHER -> {}
Recorded(l, p) ==
    [valid |-> TRUE,
     msgs |-> [t \in V2Topics |-> IF t = "lidar" THEN Stamps(l) ELSE Stamps(p)],
     hits |-> [i \in 1..Len(l) |-> [v \in Voxels |-> HitLayers(v, i)]]]

(* Whole; with a pose after the last scan; with a scan missing; with a     *)
(* pose missing; with a bad payload; with a topic out of order.            *)
MCRecordings ==
    {Recorded(<<1, 2, 3, 4>>, <<1, 2, 3, 4>>), Recorded(<<1, 2, 3>>, <<1, 2, 3, 4>>),
     Recorded(<<1, 2, 4>>, <<1, 2, 3, 4>>), Recorded(<<1, 2, 3>>, <<1, 3, 4>>),
     [Recorded(<<1, 2>>, <<1, 2>>) EXCEPT !.valid = FALSE],
     [Recorded(<<1, 2>>, <<1, 2>>) EXCEPT !.msgs["wheel"] = Stamps(<<2, 1>>)]}

(* The choices of the one that does not run are made once. *)
MappingInit ==
    /\ part \in {"session", "replay"}
    /\ GolfInit
    /\ ReplayInit /\ (part # "replay" => ~recording.valid)

MappingNext ==
    /\ UNCHANGED part
    /\ \/ part = "session" /\ GolfNext /\ UNCHANGED replayVars
       \/ part = "replay" /\ ReplayNext /\ UNCHANGED golfVars

(* The processes of the run go on; in the replay the worker thread and the *)
(* timer that polls it do, the user may rest.                              *)
MappingFairness ==
    /\ WF_golfVars(part = "session" /\ Simulator)
    /\ WF_golfVars(part = "session" /\ Orchestrator)
    /\ WF_golfVars(part = "session" /\ GolfRecorder)
    /\ WF_golfVars(part = "session" /\ CommandPeer)
    /\ WF_replayVars(part = "replay" /\ ReplayWorker)
    /\ WF_replayVars(part = "replay" /\ ReplaySlots)

MappingSpec == MappingInit /\ [][MappingNext]_mappingVars /\ MappingFairness

(* The orchestrator of a run returns, and a replay shows what was asked    *)
(* for last or says why not.                                               *)
MappingSettles == (part = "session" => SessionEnds) /\ (part = "replay" => ReplaySettles)
=============================================================================
