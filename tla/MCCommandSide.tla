---------------------------- MODULE MCCommandSide ----------------------------
(* The way of an operator's command to the wheels, of which one part runs  *)
(* per behaviour, the others resting: the command chain, the command       *)
(* sources, the windows of two simulators on one display, and the          *)
(* acceptance of a drive with one simulator on a display with a window     *)
(* manager.                                                                *)
EXTENDS CommandChain, CommandSources, DriveGate

VARIABLE part

commandSideVars == <<vars, sourceVars, driveVars, part>>

(* A screen without a window manager, and the right one of two monitors    *)
(* with a panel, at twice the pixels.                                      *)
MCDisplays ==
    {[screen |-> Rect(0, 20), qtAvailable |-> Rect(0, 20), workarea |-> {}, monitors |-> {}, quarters |-> 4],
     [screen |-> Rect(20, 20), qtAvailable |-> Rect(22, 18), workarea |-> {Rect(0, 40)},
      monitors |-> {Rect(0, 20), Rect(22, 18)}, quarters |-> 8]}

(* The choices of a part that does not run are made once. *)
CommandSideInit ==
    /\ part \in {"chain", "sources", "windows", "drive"}
    /\ Init
    /\ SourcesInit /\ (part # "sources" => arbiter.renewing)
    /\ DriveInit
    /\ part # "windows" => HasWm /\ \A s \in Sims \ {Child} : SimAt(s, "closed")
    /\ part # "drive" => ~gate.layout /\ ~gate.tabs /\ board.height = FormalMinHeight

CommandSideNext ==
    /\ UNCHANGED part
    /\ \/ part = "chain" /\ Next /\ UNCHANGED <<driveVars, sourceVars>>
       \/ part = "sources" /\ SourcesNext /\ UNCHANGED <<vars, driveVars>>
       \/ part = "windows" /\ WindowNext /\ OpeningStays /\ UNCHANGED <<vars, sourceVars>>
       \/ part = "drive" /\ DriveNext /\ UNCHANGED <<vars, sourceVars>>

CommandSideSpec == CommandSideInit /\ [][CommandSideNext]_commandSideVars
=============================================================================
