----------------------------- MODULE MCHostSide -----------------------------
(* Six components around the running simulation that share no state, one   *)
(* per behaviour: the Command session, the Recorder, the obstacles, the    *)
(* dashboard, the installation of releases and the change of scene.        *)
EXTENDS RunSimSession, Recorder, ObstacleManager, DashboardView,
        ReleaseInstall, SceneTransaction

VARIABLE part

hostVars == <<sessionVars, recVars, obstacleVars, viewVars, relVars, transactionVars,
              part>>

(* Recorder: one command, one wheel state, three samples of each sensor:  *)
(* a boundary that stays incomplete may lie between two complete ones.    *)
MCStamps == [t \in Topics |-> IF t \in SensorTopics THEN 3 ELSE 1]
MCFrames == [plan \in Plans |-> IF plan = "fixed" THEN 3 ELSE 5]

(* The choices of a component that does not run are made once. *)
HostInit ==
    /\ part \in {"session", "recorder", "obstacles", "view", "release", "scene"}
    /\ SessionInit
    /\ RecInit /\ (part # "recorder" => main.plan = "fixed")
    /\ ObstacleInit /\ (part # "obstacles" => attached)
    /\ ViewInit
    /\ RelInit /\ (part # "release" => command = "none")
    /\ SceneInit /\ (part # "scene" => target = CHOOSE d \in Docs : TRUE)

SessionRests == UNCHANGED <<sessionVars>>
RecordingRests == UNCHANGED <<recVars, viewVars>>
FilesRest == UNCHANGED <<relVars>>
WorldRests == UNCHANGED <<obstacleVars, transactionVars>>

HostNext ==
    /\ UNCHANGED part
    /\ \/ /\ part = "session" /\ SessionNext
          /\ RecordingRests /\ FilesRest /\ WorldRests
       \/ /\ part = "recorder" /\ RecNext
          /\ SessionRests /\ FilesRest /\ WorldRests /\ UNCHANGED viewVars
       \/ /\ part = "view" /\ ViewNext
          /\ SessionRests /\ FilesRest /\ WorldRests /\ UNCHANGED recVars
       \/ /\ part = "release" /\ RelNext
          /\ SessionRests /\ RecordingRests /\ WorldRests
       \/ /\ part = "obstacles" /\ ObstacleNext
          /\ SessionRests /\ RecordingRests /\ FilesRest /\ UNCHANGED transactionVars
       \/ /\ part = "scene" /\ SceneNext
          /\ SessionRests /\ RecordingRests /\ FilesRest /\ UNCHANGED obstacleVars

HostSpec == HostInit /\ [][HostNext]_hostVars
=============================================================================
