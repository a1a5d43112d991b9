---------------------------- MODULE RunSimLaunch -----------------------------
(***************************************************************************)
(* Start and end of the C++ Command under its orchestrator:                *)
(* RunSimV2Command and RunSimCommandSupervisor (runsim_v2_command.py,      *)
(* runsim_command_supervisor.py), the launch record of RunSimSession, the  *)
(* relay process, and the start of RunInteractiveCommand with its instance *)
(* lock and watchdog (stage4_command.cpp, command_instance_lock.cpp).      *)
(* Several orchestrators of one user may start at a time and may be killed.*)
(***************************************************************************)
EXTENDS Integers, FiniteSets

CONSTANTS Sims   \* orchestrators

VARIABLES
    orch,     \* program counter of each orchestrator
    cmd,      \* its Command process
    term,     \* the Command process was sent a signal
    relayed,  \* its relay process
    private,  \* its socket directory exists, its launch record, its socket
    named,    \* whom its launch record names as the orchestrator
    flocked   \* who holds the instance lock

launchVars == <<orch, cmd, term, relayed, private, named, flocked>>

NoFiles == [dir |-> FALSE, record |-> FALSE, socket |-> FALSE]

LaunchInit ==
    /\ orch = [s \in Sims |-> "idle"]
    /\ cmd = [s \in Sims |-> "none"]
    /\ term = [s \in Sims |-> FALSE]
    /\ relayed = [s \in Sims |-> "none"]
    /\ private = [s \in Sims |-> NoFiles]
    /\ named = [s \in Sims |-> "nobody"]
    /\ flocked = {}

Gone == {"dead", "crashed", "spawnFailed"}

LaunchMove(s, pc) == orch' = [orch EXCEPT ![s] = pc]

(* A child that fails before exec never becomes the Command.               *)
CommandAlive(s) == cmd[s] \notin {"none", "unborn", "dead"}

(* getppid: a child whose orchestrator was killed belongs to the reaper.   *)
Parent(s) == IF orch[s] = "crashed" THEN "reaper" ELSE "orchestrator"

-----------------------------------------------------------------------------
(* RunSimCommandSupervisor.launch *)

MakeDirectory(s) ==
    /\ orch[s] = "idle"
    /\ LaunchMove(s, "spawn")
    /\ private' = [private EXCEPT ![s].dir = TRUE]
    /\ UNCHANGED <<cmd, term, relayed, named, flocked>>

(* Popen forks and then waits for the exec of the child, or for the error  *)
(* of its pre-exec function, which no handler around it cleans up after.   *)
Fork(s) ==
    /\ orch[s] = "spawn"
    /\ \/ /\ LaunchMove(s, "popen")
          /\ cmd' = [cmd EXCEPT ![s] = "forked"]
       \/ LaunchMove(s, "spawnFailed") /\ UNCHANGED cmd
    /\ UNCHANGED <<term, relayed, private, named, flocked>>

PopenReturns(s) ==
    /\ orch[s] = "popen"
    /\ cmd[s] \notin {"forked", "published"}
    /\ LaunchMove(s, IF cmd[s] = "unborn" THEN "spawnFailed" ELSE "record")
    /\ UNCHANGED <<cmd, term, relayed, private, named, flocked>>

(* The record is there: attach checks it against the child and the caller. *)
AttachRecord(s) ==
    /\ orch[s] = "record"
    /\ \/ private[s].record /\ LaunchMove(s, "socket")
       \/ LaunchMove(s, "terminate")
    /\ UNCHANGED <<cmd, term, relayed, private, named, flocked>>

(* RunSimV2Command.launch waits for the socket; the Command's exit or five *)
(* seconds end the wait.                                                   *)
SocketAppears(s) ==
    /\ orch[s] = "socket"
    /\ \/ private[s].socket /\ LaunchMove(s, "relay")
       \/ (~private[s].socket) /\ LaunchMove(s, "terminate")
    /\ UNCHANGED <<cmd, term, relayed, private, named, flocked>>

StartRelay(s) ==
    /\ orch[s] = "relay"
    /\ LaunchMove(s, "relayReady")
    /\ relayed' = [relayed EXCEPT ![s] = "starting"]
    /\ UNCHANGED <<cmd, term, private, named, flocked>>

RelayConnects(s) ==
    /\ relayed[s] = "starting"
    /\ relayed' = [relayed EXCEPT ![s] = IF cmd[s] = "listening" THEN "ready" ELSE "dead"]
    /\ UNCHANGED <<orch, cmd, term, private, named, flocked>>

(* RunSimCommandRelayClient.launch: ready, an error report, or the limit.  *)
RelayReported(s) ==
    /\ orch[s] = "relayReady"
    /\ \/ relayed[s] = "ready" /\ LaunchMove(s, "running")
       \/ LaunchMove(s, "closeRelay")
    /\ UNCHANGED <<cmd, term, relayed, private, named, flocked>>

BeginClose(s) ==
    /\ orch[s] = "running"
    /\ LaunchMove(s, "closeRelay")
    /\ UNCHANGED <<cmd, term, relayed, private, named, flocked>>

(* RunSimCommandRelayClient.close: asked, then terminated.                 *)
CloseRelay(s) ==
    /\ orch[s] = "closeRelay"
    /\ LaunchMove(s, "terminate")
    /\ relayed' = [relayed EXCEPT ![s] = "dead"]
    /\ UNCHANGED <<cmd, term, private, named, flocked>>

(* RunSimCommandSupervisor.close: session.close removes its own record,    *)
(* then the process group is signalled unless the Command has exited.      *)
Terminate(s) ==
    /\ orch[s] = "terminate"
    /\ IF CommandAlive(s)
       THEN LaunchMove(s, "wait") /\ term' = [term EXCEPT ![s] = TRUE]
       ELSE LaunchMove(s, "remove") /\ UNCHANGED term
    /\ private' = [private EXCEPT ![s].record = FALSE]
    /\ UNCHANGED <<cmd, relayed, named, flocked>>

(* Terminated, or killed after one second.                                 *)
WaitCommand(s) ==
    /\ orch[s] = "wait"
    /\ ~CommandAlive(s)
    /\ LaunchMove(s, "remove")
    /\ UNCHANGED <<cmd, term, relayed, private, named, flocked>>

RemoveDirectory(s) ==
    /\ orch[s] = "remove"
    /\ LaunchMove(s, "dead")
    /\ private' = [private EXCEPT ![s] = NoFiles]
    /\ UNCHANGED <<cmd, term, relayed, named, flocked>>

(* The orchestrator is killed.  Its daemon relay sees the pipe end; a      *)
(* Command that has armed its watchdog is signalled by the kernel.         *)
Crash(s) ==
    /\ orch[s] \notin Gone
    /\ LaunchMove(s, "crashed")
    /\ term' = [term EXCEPT ![s] = @ \/ cmd[s] \in {"armed", "locked", "listening"}]
    /\ relayed' = [relayed EXCEPT ![s] = IF @ = "none" THEN @ ELSE "dead"]
    /\ UNCHANGED <<cmd, private, named, flocked>>

-----------------------------------------------------------------------------
(* The child before it is the Command: publish_child_record, then exec.    *)

(* The record, written apart and linked whole, names whoever is the parent *)
(* by now.                                                                 *)
PublishRecord(s) ==
    /\ cmd[s] = "forked"
    /\ cmd' = [cmd EXCEPT ![s] = "published"]
    /\ private' = [private EXCEPT ![s].record = TRUE]
    /\ named' = [named EXCEPT ![s] = Parent(s)]
    /\ UNCHANGED <<orch, term, relayed, flocked>>

Exec(s) ==
    /\ cmd[s] = "published"
    /\ cmd' = [cmd EXCEPT ![s] = "exec"]
    /\ UNCHANGED <<orch, term, relayed, private, named, flocked>>

(* The pre-exec function raises, before or after its link, or exec fails.  *)
ExecFails(s) ==
    /\ cmd[s] \in {"forked", "published"}
    /\ cmd' = [cmd EXCEPT ![s] = "unborn"]
    /\ UNCHANGED <<orch, term, relayed, private, named, flocked>>

-----------------------------------------------------------------------------
(* RunInteractiveCommand up to its loop.                                   *)

CommandDies(s) ==
    /\ cmd' = [cmd EXCEPT ![s] = "dead"]
    /\ flocked' = flocked \ {s}

(* A record that is gone, or another PID, ends the Command.                *)
Authenticate(s) ==
    /\ cmd[s] = "exec"
    /\ \/ private[s].record /\ cmd' = [cmd EXCEPT ![s] = "authenticated"] /\ UNCHANGED flocked
       \/ ~private[s].record /\ CommandDies(s)
    /\ UNCHANGED <<orch, term, relayed, private, named>>

(* Mutant: prctl alone, without looking at the parent again. *)
ArmWithoutRecheck(s) ==
    /\ cmd[s] = "authenticated"
    /\ cmd' = [cmd EXCEPT ![s] = "armed"]
    /\ UNCHANGED <<orch, term, relayed, private, named, flocked>>

(* ArmInteractiveOrchestratorWatchdog: the signal of the kernel is that of *)
(* the present parent, which has to be the one that the record names.      *)
ArmWatchdog(s) ==
    /\ cmd[s] = "authenticated"
    /\ IF named[s] = Parent(s) THEN cmd' = [cmd EXCEPT ![s] = "armed"] /\ UNCHANGED flocked
       ELSE CommandDies(s)
    /\ UNCHANGED <<orch, term, relayed, private, named>>

(* CommandInstanceLock: flock without waiting. *)
TakeInstanceLock(s) ==
    /\ cmd[s] = "armed"
    /\ IF flocked = {} THEN /\ cmd' = [cmd EXCEPT ![s] = "locked"]
                            /\ flocked' = {s}
                       ELSE CommandDies(s)
    /\ UNCHANGED <<orch, term, relayed, private, named>>

(* InteractiveSocketServer: bind, chmod and listen in its own directory.   *)
Listen(s) ==
    /\ cmd[s] = "locked"
    /\ IF private[s].dir THEN /\ cmd' = [cmd EXCEPT ![s] = "listening"]
                              /\ private' = [private EXCEPT ![s].socket = TRUE]
                              /\ UNCHANGED flocked
                         ELSE CommandDies(s) /\ UNCHANGED private
    /\ UNCHANGED <<orch, term, relayed, named>>

(* An error of its own, or a signal that was sent. *)
CommandFails(s) ==
    /\ CommandAlive(s) /\ cmd[s] \notin {"forked", "published"}
    /\ ~term[s]
    /\ CommandDies(s)
    /\ private' = [private EXCEPT ![s].socket = FALSE]
    /\ UNCHANGED <<orch, term, relayed, named>>

CommandKilled(s) ==
    /\ CommandAlive(s)
    /\ term[s]
    /\ CommandDies(s)
    /\ UNCHANGED <<orch, term, relayed, private, named>>

-----------------------------------------------------------------------------
OrchestratorStep(s) == \/ MakeDirectory(s) \/ Fork(s) \/ PopenReturns(s)
                       \/ AttachRecord(s) \/ SocketAppears(s)
                       \/ StartRelay(s) \/ RelayReported(s) \/ CloseRelay(s) \/ Terminate(s)
                       \/ WaitCommand(s) \/ RemoveDirectory(s)

CommandStep(s) == \/ PublishRecord(s) \/ Exec(s) \/ Authenticate(s) \/ ArmWatchdog(s)
                  \/ TakeInstanceLock(s) \/ Listen(s) \/ CommandKilled(s)

LaunchNext == \E s \in Sims : \/ OrchestratorStep(s) \/ CommandStep(s) \/ RelayConnects(s)
                              \/ BeginClose(s) \/ Crash(s) \/ ExecFails(s) \/ CommandFails(s)

(* The orchestrators' threads and their Commands are scheduled; a session  *)
(* need not end, nothing need fail and nobody need be killed.              *)
LaunchSpec ==
    /\ LaunchInit /\ [][LaunchNext]_launchVars
    /\ \A s \in Sims : WF_launchVars(OrchestratorStep(s)) /\ WF_launchVars(CommandStep(s))

-----------------------------------------------------------------------------
(* A Command that takes commands is the only one, belongs to a running     *)
(* orchestrator and to the record it was started with.                     *)
OneOwnedCommand ==
    /\ Cardinality({s \in Sims : cmd[s] = "listening"}) <= 1
    /\ \A s \in Sims :
         /\ orch[s] = "running" => relayed[s] # "none" /\ private[s].dir
         /\ orch[s] = "dead" => ~CommandAlive(s) /\ relayed[s] # "ready" /\ private[s] = NoFiles

(* Nothing of it is left: neither the process nor its instance lock.       *)
Ended(s) == ~CommandAlive(s) /\ s \notin flocked

(* One Command at a time, and none whose record names its orchestrator     *)
(* outlives it, however the orchestrator ends and whatever the Command is  *)
(* doing then, so that the instance lock comes free.  The one exception is *)
(* a child that published its record after its orchestrator was killed.    *)
RecordedCommandEnds ==
    /\ []OneOwnedCommand
    /\ \A s \in Sims : orch[s] \in Gone ~> Ended(s) \/ named[s] = "reaper"

(* What the comments of ArmInteractiveOrchestratorWatchdog say, without    *)
(* that exception (stage4_command.cpp:595 and 599): the kernel ends the    *)
(* Command of an orchestrator that is gone, and one that the reaper has    *)
(* taken over is refused, so that no instance lock is left behind.         *)
NoOrphanCommand == \A s \in Sims : orch[s] \in Gone ~> Ended(s)
=============================================================================
