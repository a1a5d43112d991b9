# TLA+ model of the slope simulator

This directory holds a TLA+ development of the repository: models of the
components that carry its control logic, TLC configurations that check them on
small instances, and TLAPS proofs about most of them. It covers the
stage-4 ("v2") runtime that lets one operator drive a simulated robot while the
world is replaced, the LiDAR worker processes, the older v1 interface runtime
with its eCAL transport and log, recording, the dashboards' live view, the windows
on the display, and the programs around them (installer, acceptance gates, mapping
session and replay).

`tlc -config X.cfg M` repeats the run of module M with configuration X,
`tlapm XProofs.tla` a proof.
`PROJECT.json` lists the runs, the source lines of every definition (`map`), the
mutants, the hazards, the findings and the theorems.

## 1. Inventory of the system

The repository is a PyBullet simulation of wheeled robots on slopes, in Python
(`slope_sim/`, `scripts/`) with C++ clients (`cpp/client/`). A manual v2 run
consists of these processes and threads:

    keyboard, serial RC --> arbiter --> GUI/physics loop
    GUI/physics loop --(shared memory, pipe)--> relay process
      --(Unix socket)--> C++ Command --(/sim/wheel/command)--> receiver process
      --(latest frame)--> GUI/physics loop --> wheels
    GUI/physics loop <--(two pipes)--> LiDAR coordinator <--(pipes)--> two shards
    GUI/physics loop --(eCAL topics)--> Recorder, subscribers, dashboard view

| Component | State | Operations | Hard behaviour | What makes it correct |
|---|---|---|---|---|
| Protocol session (`v2/session.py`) | world and command generation, rebuild flag, output sequences | advance, prepare, commit, abort, fault, reserve | exhaustion half way through a transition; sequences restarting | no output identity twice; a commit never fails |
| Command authority (`v2/authority.py`) | peer count, owner, last sequence, state | observe, suspend, accept, prepare, commit, abort | peers come and go, two sources compete | the four-state table; every revocation takes a new generation |
| Wheel mailbox (`interfaces/wheel.py`) | latest command, its times, generation | accept, clear, decision | age at the boundary, time sampled before a late acceptance | no expired or foreign command moves the wheels |
| Controller (`v2/runtime_protocol.py`) | tokens, model, closed, fatal | refresh, ingress, rebuild, reserve, close | discovery and decoding between two lock sections | nothing observed before a revocation takes effect after it |
| Command chain (`v2/runsim_command_*.py`, `cpp/client/stage4_command.cpp`, `manual_demo.py`) | shared target, relay target and cut-off, lease, frame sequence, latest frame | submit, sync, relay loop, Command loop, decision | five asynchronous buffers around a change of generation | no old target gets through; control comes back |
| Command sources (`serial_rc.py`, `manual_control.py`) | selection, last targets, RC gate, held keys | select, submit, renew, frame, key, close | renewer and RC worker against selection; lost key releases | the robot moves only for live input |
| runSim session (`v2/runsim_session.py`) | state, target, lease, epoch | connect, accept, expire, stop | a message decoded across a stop | a stop revokes the target |
| Command launch (`v2/runsim_v2_command.py`, `runsim_command_supervisor.py`, `stage4_command.cpp`) | child before and after exec, launch record, lock, watchdog | fork, publish, exec, connect, terminate | parents die between two steps; two starts at a time | at most one Command; none whose record names its parent survives it |
| LiDAR scan service (`lidar_worker.py`) | job in flight, waiting capture, state, pause epoch | capture, poll, pause, resume, drain, close | jobs cannot be cancelled; child exits at any time | one job on the way, one outcome per capture |
| LiDAR coordinator and shards (`lidar_worker.py`) | current frame, halves, pipes | scan, stop | late, failing and dying shards | no half of one frame in another; lateness is not fatal |
| LiDAR worker start-up and mirror (`lidar_worker.py`) | processes, pipes, obstacle bodies | start, reap, reconcile | children hang or die in bootstrap; half-done roll-backs | start is all or nothing; scans see the requested world |
| Sensor output (`v2/sensor_frames.py`, `v2/simulation_runtime.py`) | samples waiting for their cloud | capture, publish, drain, close | failures during shutdown | no sample lost, no wait for a lost one |
| Scene transaction (`coordinator.py`, `v2/world_runtime.py`) | bodies, world, bindings, worker | rebuild, roll back, add, delete, clear over frames | any call of a long sequence fails | one consistent world after each step and frame |
| Obstacles (`obstacles.py`) | records, pending batch, bodies | add, delete, clear, cancel, step | batches over several frames with failing calls | Bullet, manager and runtime agree |
| Hosts (`manual_demo.py`, `simulation.py`) | what is open, queued requests | open, frame, close | exceptions in clean-up; results frames later | everything released in order; dashboard unlocked |
| v1 runtime (`interfaces/runtime.py`) | state, generations, in-flight counts, LiDAR service | ingress, publish, rebuild, rebind, pause, close | four kinds of threads, sections outside the lock | nothing outlives its generation; close ends |
| eCAL transport (`interfaces/ecal_transport.py`) | lanes, queues, callbacks, revisions | publish, deliver, poll, quiesce, close | callbacks against close, overlapping polls | sent or counted; nothing across an edge |
| Event log (`interfaces/logging.py`) | queue, reservation, writer | submit, reserve, commit, close, read | reservation against close | every record written or counted |
| Recorder (`stage4_recorder.cpp`, `recorder_*.cpp`, `atomic_segment.cpp`, `interactive_recorder_window.cpp`) | window, queue, files | observe, drain, seal, publish | overflow, reordering, crash | a published capture is whole |
| Capture and export (`runsim_v2_recorder.py`, `manual_capture.py`, `stage4_export.cpp`) | buttons, threads, directories | start, stop, export, publish, compress | kill at any step | a final name means a whole capture |
| Live view (`v2/dashboard_*.py`) | queues, store, images | receive, match, snapshot, render | five threads over a change of world | one world on screen, never backwards |
| Installer (`build_stage4_run.py`, `stage4_release_setup.py`) | staging, releases, `current`, lock | install, retry, start | kill, reused process ids, surviving child | published releases are whole |
| eCAL gate (`verify_ecal_roundtrip.py`, `ecal_simulation_runtime.py`, `ecal_roundtrip_peer.py`) | marker files, stages, windows | stage, acknowledge, fence, reap | half-written files, stale discovery, failing process | acknowledgements are true; every run ends |
| Golf mapping (`run_mid360_golf_mapping.py` and its two programs) | lock-step, counts, faults | wheel state, pose, command, stop | overtaking topics, crash of one process | one command per state; no deadlock |
| Mapping replay (`mapping_mcap.py`, `mapping_replay.py`, `mapping_replay_gui.py`) | clock, request and result queue, world map | step, seek, play, render, close | results asked for before a seek; a replaced file | the map shown is that of its frame |
| Windows (`window_layout.py`, `dashboard.py`) | own window, its claim, rectangles | search, claim, place | ids reused, several simulators, borders that come late | the own window only, inside the work area |
| Drive gate (`verify_dashboard_manual_drive.py`) | keys of the display, report file, log | open, walk tabs, drive, judge | a failure with a key held, stale reports | fresh reports judged; no key or child left |
| v2 runtime gate (`verify_stage4_v2_runtime_ecal.py`, `stage4_v2_dashboard.py`) | ready file, processes, Qt thread | start, collect, decide, close | torn file, failing or hanging process | what is accepted was whole; every run ends |
| Robots, sensors, scenes, codecs, charts, MCAP replay client, reference checkouts, other scripts | geometry, drawing, data, files | - | floating point, I/O | not modelled |

`PROJECT.json` lists all components, with the reason for each one left out, and
the hazards with their lines.

## 2. Modules

| Module | Models | Builds on |
|---|---|---|
| `ProtocolSession`, `CommandAuthority`, `WheelCommandMailbox` | the three locked objects; each method an operator | each other |
| `V2RuntimeProtocol` | the controller that joins them | the three above |
| `CommandSafety` | abstract promise of the command path | - |
| `V2RuntimeProtocolProofs` | proofs about the controller | `V2RuntimeProtocol` |
| `CommandChain` | the five processes between operator and wheels | - |
| `CommandChainProofs` | proofs about the chain | `CommandChain` |
| `CommandSources` | keyboard, serial RC, arbiter and renewer | - |
| `RunSimSession`, `RunSimLaunch` | the Command's session; its start and end | - |
| `LidarChild` | abstract worker process as its parent may rely on it | - |
| `LidarScanService` | parent side of the worker | `LidarChild` |
| `V2SensorOutput` | 10 Hz output and shutdown | `LidarScanService` |
| `Stage4LidarCoordinator` | coordinator and shards; implements `LidarChild` | `LidarChild` |
| `LidarWorker` | start-up of the workers, obstacle mirror | - |
| `LidarSideProofs` | proofs about service, sensor output, coordinator and mirror | the four above, through `MCLidarSide` |
| `SceneTransaction` | world replacement across coordinator and runtime | - |
| `ObstacleManager` | obstacle batches over frames | - |
| `WorldProofs` | proofs about both | `SceneTransaction`, `ObstacleManager` |
| `ManualSession` | the hosts: opening, frame loop, release | - |
| `InterfaceRuntime`, `EcalTransport`, `InterfaceEventLog` | the v1 runtime, its transport and log | - |
| `Recorder`, `Capture` | the Recorder process; a capture from button to directory | - |
| `DashboardView` | live view: receiver, store, renderer | - |
| `ViewProofs` | proofs about live view and Recorder | `DashboardView`, `Recorder` |
| `WindowLayout`, `DriveGate` | windows of several simulators on one display; acceptance of a drive | the latter on the former |
| `ReleaseInstall` | installer | - |
| `HostProofs` | proofs about session, command sources and installer | `RunSimSession`, `CommandSources`, `ReleaseInstall` |
| `EcalGate`, `V2RuntimeGate` | the two acceptance gates | - |
| `GolfMapping`, `MappingReplay` | mapping session; replay of its recording | - |
| `MappingProofs` | proofs about both | `MappingReplay`, `GolfMapping` |
| `MCV2RuntimeProtocol`, `MCCommandSide`, `MCInteractiveSession`, `MCLidarSide`, `MCInterfaceSide`, `MCHostSide`, `MCEcalGate`, `MCGolfMapping` | instances for TLC | what they check |

Operators whose comment starts with "Mutant:" are not part of a model. Each is
a plausible error in the operator after it; `PROJECT.json` says which property
it must break.

### The controller (`V2RuntimeProtocol`)

Every method that holds the controller's lock for its whole body is one action.
Two do not. `refresh_transport` checks liveness, polls discovery with the lock
released and applies the result (`RefreshPoll`, `RefreshApply`). A command
callback captures the tokens, decodes without the lock, and commits (`Capture`,
`Accept`); several callbacks may be between the two. `abort_world_rebuild` and
`fault_world_rebuild` have the same effect on this state and share
`EndWorldRebuild`. A payload is a record with source, generations, model and
sequence; `ok` stands for the checks of session, descriptor and shape. A
publisher cannot know a generation that has not been issued. Running out of
generations (`CanAdvance`) is the controller's fatal error. `capGen`, `issued`
and `driving` are history: when a payload was captured, which identities were
handed out, and what the wheels were given.

`CommandSafety` says the same without tokens, peers or mailboxes: control is
granted per generation, a command is executable only under the current
generation, and losing control starts a new generation.

### The command chain and what is in front of it

`CommandChain`. The loop's frame is split where other processes can observe it:
`Poll`, `Submit`, `Decide`, `Step`, `Sync`. The relay wakes, drains its pipe,
reads the shared target and sends or waits; Command reads message by message and
publishes. The receiver keeps one frame. World and command generation are one
number here, since Command receives them together and they only move together
or with the command generation alone. Target versions are compared only with
"observed" and with a cut-off, so a target carries a fresh flag and the number of
generation messages sent before it. Frame counts from `MaxSeq` on are not told
apart. A disturbance (`Faults`) is a committed rebuild, a refused rebuild, a
clear without obstacles, a lost publisher, an expired lease or a dead relay.

`CommandSources`. The arbiter's lock makes each method one step. A target is
reduced to who set it and whether it moves the robot; a tick is the unit of the
RC time-out and of the key-release grace. The byte parser of SBUS and the search
for a serial port are left out.

`RunSimSession` splits `accept_client_message` at the lock it does not hold while
decoding. `RunSimLaunch` follows two orchestrators of one user from fork to
reap. The child runs on its own from the fork: it asks for its parent and publishes
the launch record (`PublishRecord`), then becomes the Command (`Exec`), which
authenticates, arms its watchdog, takes the lock and listens. An orchestrator may be
killed between any two of these steps. `named` is whom the record calls the
orchestrator: the reaper, if the child asked after the kill. `RecordedCommandEnds`
excepts that case, `NoOrphanCommand` is the statement of the code's comments without
the exception, see Findings.

### LiDAR

`LidarScanService` holds one lock through every method, so each is an action;
`poll` is split by outcome. "late" means that 100 ms have passed since the
capture. `LidarChild` is what the service assumes of the child: requests are
answered in order, each once, and answers written before an exit stay readable.
The stage-4 worker of three processes is shown to satisfy it
(`ImplementsLidarChild`), with the parent's discipline (one job at a time, Stop
only when idle) taken from what the scan service is shown to do (`ServiceSound`).
`broken` is history.

`V2SensorOutput` adds the factory's `_pending`, the order poll, capture, poll of
a physics step, and the shutdown: drain, then release worker and controller. The
drain's five seconds are long against a scan, so the time-out happens only when
no answer can come.

`LidarWorker` has the two halves the running protocol leaves out: starting one
worker or two shards and a coordinator, with children that hang, fail in a phase
or die, and `_reconcile_obstacles` with every PyBullet call failing in turn.

### World and hosts

`SceneTransaction`: a world is a number that stands for its robot, manager and
backend; a worker has the document and generation it was started for. Each call
of the transaction that can fail has a failing branch (`Faults`). Clean-up of a
candidate is assumed to succeed; the code ignores its errors. A change of the
obstacles refreshes the runtime (`Refresh`: prepare and commit in one step). An
addition or a deletion does so once; a clear does so in every frame that deleted
something, while its results say "no change" until the last one succeeds
(`ClearFrame`, `ClearPending`). A clear that fails half way keeps the new
generations and reports no change: `ChangeReported` excepts a clear that ended with
an error, and what it means for the operator is in Findings.

`ObstacleManager`: a body is its Bullet id, and ids are used again. Whether a
candidate fits and whether the vehicle is in the way is a choice. An exception
that leaves `step()` ends the run.

`ManualSession`: `run` is what a host has opened and must release; the rest is
the loop with the dashboard's two queues and the coordinator's slices.

### v1 interface

`InterfaceRuntime`: one step is one section under the runtime's condition or one
call outside it, so a check and the call it was made for are two steps: the service
of a batch is taken (`TakeSensors`), the read registered, done and released
(`BeginRead`, `FinishRead`), generation and fence looked at once more
(`CaptureCheck`), and the service called (`Capture`), which stamps the generation it
has by then. In the same way the waits of fence, rebuild and close look at the service
and poll it in separate steps. Threads are the physics loop, the owner of the world, a
closer and the receive callback; `Plans` are the hosts' combinations of calls.

One thing does not hold, and no run claims it: that a scan was read in the generation
it is stamped with (`ScansAreOfTheirGeneration`). Between `CaptureCheck` and `Capture`
there is room for a whole prepare and an abort, or a commit with the same service.
TLC finds that behaviour at once when the formula is added to `InterfaceRuntime.cfg`.
It needs a host that rebuilds on another thread than its physics loop; the one in this
repository calls both from one thread, and no comment or document promises more. The
model keeps the threads apart because the class does.

Status snapshots, rate trackers and log text are left out. `EcalTransport`: a lane per
published topic with its worker; a send ends well, fails or kills its worker;
the raw and the direct delivery; polls with revisions; quiesce and close.
`InterfaceEventLog`: threads submit without waiting, a writer writes in order,
refusals are counted and reported later; runtime and host may both close.

### Recording and view

`Recorder`: a frame is a topic and a stamp. Callbacks interleave with the main
loop between two enqueues; the bus loses and repeats frames; the process may
crash anywhere. `Capture`: a capture is a number whose directory is hidden or
published; the simulation may be killed and restarted over the same root while
its children go on. `DashboardView`: queues of length one between five threads;
a message is a world generation and a sequence.

`WindowLayout` keeps the horizontal axis of the layout arithmetic, in units of the
display, and of the X server the windows with their titles, owners and ids, which
are used again. `DriveGate` follows the drive verification from its start to its
verdict: the search for the window, the walk over the tabs with the reports of
the dashboard, the keys it holds down on the display, and the judgement of the log.

### Programs

`ReleaseInstall`: a directory is its files, its build tree, its file table and
its state. `EcalGate`: files exist before they are whole; discovery
lags; a calm run has no failure. `V2RuntimeGate`: gate, collector, simulator
child, supervisor and Qt thread, each of which may fail, hang or outlive the
others; one topic stands for the four. `GolfMapping`: time in periods of the
wheel state; one lost message, crash, stall or trouble from outside. The simulator
settles, and ends early, only on a fault of its own safety monitor, after
`QuietStates` periods at rest; with the orchestrator's marker alone it goes on at zero
drive to the end of its window or until it is ended.
`MappingReplay`: the slots of the window, the worker thread and the source with
its map; a voxel holds the number of the frame whose point it shows, so a map
can be compared with the recording. A recording is the sequence numbers and times
of its messages; the file may be replaced while it is replayed.

## 3. Runs

Components that share no state are checked in one run when their questions are
alike. Such an MC module has a variable `part` that names, from the initial state
on, the one component that runs; the others rest in an initial state. A fairness
condition of a component is then `WF_x(part = "x" /\ A)`, so each part is under
exactly its own specification, and a property of a resting part holds trivially.

| Run | Instance | Shows |
|---|---|---|
| `protocol` | 1 callback against every operation: 2 sources, 2 models, 3 generations, no clock; or 2 callbacks of 1 publisher against a clock to the time-out of 2 | `AuthorityTable`, `MailboxHoldsOwnersCommand`, `NoCommitAcrossRevocation`, `NoIdentityReuse`, `RevocationAdvancesGeneration`, implementation of `CommandSafety`; late and reordered commands: `WheelsFollowLiveCommand`, `SequenceAdvances`; exhaustion is reached |
| `chain_safety` | chain: all disturbances, 2 of them, socket of 2; command sources: RC time-out and key grace of 2; windows: 2 simulators, 2 ids, 2 displays; drive: 2 tabs, 3 samples, six scales | `NoTargetFromBeforeSync`, `WheelsFollowCurrentWorld`, `OnlyLiveInputMoves`, `DriveSound` |
| `interactive` | chain: rebuilds and leases; 2 captures, 1 kill; 2 requests, 1 exception; with fairness | `AuthorityReclaimed`, `InteractiveSettles` (a held target drives, the owner's sequence is never refused, a capture settles, a final name is whole), `SessionInOrder` |
| `lidar_side` | 3 captures, all answers and exits, 1 pause, 1 new generation; 2 obstacles in 2 shapes and 2 places; 3 requests to the shards; with fairness | `ServiceSound`, `NoSampleForgotten`, `MirrorIsExact`, `NoMixedFrame`, `LateIsNotFatal`, `NoFrameAcrossBarrier`, `EveryDrainEnds` (with the end of every start), `ImplementsLidarChild`, `NobodyWaitsForEver` |
| `interface_runtime` | 1 rebuild or rebind, 1 command, 2 services, four host plans; with fairness | `RuntimeSound`, `CloseCompletes` |
| `interface_side` | 2 orchestrators; 2 recording threads, queue of 2, 4 records; 2 topics, queue of 1, 2 pollers; with fairness | `RecordedCommandEnds`, `LogKeepsItsWord`, `TransportKeepsItsWord` |
| `host_side` | six components; of them the Recorder with 3 samples of 2 sensors, 5 frames, a queue of 2 and a window of 2 open boundaries | `RecordingSound`, `ObstaclesSound`, `ReleasesAreWhole`, `TransactionSound`, `StopRevokesTarget`, `ScreenIsCoherent` |
| `gate` | 2 output topics, all stages; v2 gate headless or with the dashboard; with fairness | `GatesDecide` |
| `golf` | pose every 2 periods, 1 mishap; recordings of up to 4 scans, 2 voxels, 3 requests; with fairness | `MappingSound`, `ReplaySound`, `MappingSettles` |
| `stranded` | 1 lost publisher, refused rebuild or half-failed clear | violated, see Findings |
| `orphan` | 1 orchestrator that may be killed anywhere | violated, see Findings |
| `release_results` | 2 installs and a start | violated, see Findings |

Several properties are conjunctions of named parts, each with its own comment in
its module; for instance `RuntimeSound` has six. A part of `DriveSound`,
`ScalingIsSound`, speaks of constants alone; it is evaluated in the states in
which the drive gate found no display.

Bounds. Two sources and one callback, or one source and two callbacks, give
every pair of conflicting steps on the controller; three generations allow a
revocation, another one and exhaustion. Both are instances of one module, and `part`
chooses between them. Sources and models are only compared with each other, so they
are symmetry sets. In the chain two disturbances include one that falls into the
handling of the other; a deeper socket only delays. Three captures fill both places of the scan service
and get one rejected, or put two behind a barrier that overtook the first. Three
requests to the shards put a late half into the next frame and a Stop behind it.
Two bodies are the least for a partial removal and for the reuse of an id; three
operations let a failed one lie between two others, or a clear of two frames follow
another operation. One rebuild of the v1 runtime is enough for a callback, a payload
or a service of the old generation to meet the new one. Two threads and a queue of two fill the log while a reservation is
open. Two installers of equal or different versions with two process ids include
a reused id. Two output topics tell an isolated peer from all peers gone. Four scans
outlast a moving point, which lives for one period here, and three requests put a
stale result between a seek and the step after it.

Three samples of each sensor put a boundary that stays incomplete between two
complete ones, and close the window of two open boundaries. Two simulators with
two ids let the one take an id that the other has just given up.

Deadlock. Nearly all components end (a shutdown, an installed release, a finished
program, an exhausted counter), so the configurations switch TLC's check off. That
nobody waits for ever is stated as liveness where it can go wrong
(`InteractiveSettles`, `EveryDrainEnds`, `NobodyWaitsForEver`, `CloseCompletes`,
`GatesDecide`, `MappingSettles`) and, for the lock-step of the mapping, as a state
without a message under way (`NoLockstepDeadlock`).

Fairness. A process or thread that can run does run (weak fairness per process):
nothing in these loops waits for a condition another process controls, apart
from the pipes, locks and conditions that are modelled. The relay's renewal is
strongly fair, since its deadline recurs every 20 ms whatever wakes it in
between; in the gate, so are the delivery of a command that the peer repeats, the
runtime's sight of a discovery state that lasts, and the two outcomes of a loop
turn that recur at its rates. No fairness is assumed of the operator, of faults
or of the clock, and a shard or child that is up finishes its scan in finite
time. The replay's worker thread and the slots of its window are weakly fair; its
user is not. A child that hangs in start-up is never assumed to go on; only the parent
is fair there. Nor is a kill ever forced.

### Findings

Three runs are expected to be violated. Each states what a document or comment
says and shows a behaviour of the code that differs.

- `stranded` (`AuthorityReclaimed`): the interactive Command is told of a new
  command generation only after a structural change and never reads
  `WheelState`. The generation also moves when the publisher is lost from
  discovery; when a rebuild is refused after it was prepared (a scan is in
  flight) with `state_changed = False`; and when a clear fails after it has deleted
  an obstacle, which takes new generations and says `state_changed = False` too
  (`coordinator.py:458-476`). After any of them, Command's frames are rejected for
  good. (The run allows all three, the last two as the disturbance "abort"; each alone
  is enough.)
- `orphan` (`NoOrphanCommand`): the orchestrator is killed between the fork of
  Command and the child's `os.getppid()` (`runsim_command_supervisor.py:86`). The
  launch record names the process that took the child over, the comparison in the
  watchdog (`stage4_command.cpp:600`) finds it, and Command waits for a subscriber with
  the instance lock in its hands. Lines 595 and 599 say that this is excluded.
- `release_results` (`StartKeepsRelease`): the launcher points the dashboard's
  metrics into the installed release; the next installation of the same version
  finds a file the manifest does not list and refuses.

Other behaviours met while modelling. The models have them, and the properties
are stated so that they hold with them:

- clearing zero obstacles reports a change (`coordinator.py:471`); Command
  restarts its sequence in the same generation (`stage4_command.cpp:1051`) and
  its frames are refused until it has caught up;
- when the LiDAR worker exits with a scan in flight, the sample is not withdrawn
  (`sensor_frames.py:312`, against the comment at 303); the shutdown waits five
  seconds and skips the release of the rest;
- a rollback commits, so a failed rebuild advances `world_generation`
  (`coordinator.py:719`), which ARCHITECTURE.md:189-190 excludes;
- the list of pending bodies is incomplete for a moment in an obstacle batch
  (`obstacles.py:1757` against the comment at 1512), and a body is leaked when
  both its creation and its removal fail;
- a capture's completed paths name the hidden directory (`manual_demo.py:1056`);
- a Recorder can end with a clean result although frames that arrived after the
  seal were dropped (`stage4_recorder.cpp:664-704`);
- the mapping orchestrator waits without a deadline
  (`run_mid360_golf_mapping.py:395`): when simulator and Recorder are
  done and the peer missed something of the tail, it does not return
  (`StrandedPeer`, the exception in `MappingSettles`);
- the replay's clock keeps its request in flight after an error result, so
  nothing more can be asked for; a step forward asked for between a seek back and
  its result makes the source refuse the jump, and the replay stays there; a
  request that meets the still queued first one is dropped and its refusal
  ignored (`mapping_replay_gui.py:308`);
- the index accepts a recording with a missing scan, which the playback clock
  then refuses;
- the v2 runtime gate rejects a healthy run when it reads the ready file half
  written, and its Qt thread may quit before the last snapshot is drawn;
- an RC frame may still move the robot two read times after the time-out, not
  one: the worker checks the age before a read and the selection after it;
- several structural requests in one batch unlock the dashboard at the first
  result; a serial RC worker stays open when `run_manual_demo` fails before its
  `try`;
- a second queued capture start, an exception of `recorder.stop()`, and a
  Recorder that outlives its 15 s wait are served as written: the last two end
  the simulation or leave the process;
- the eCAL transport is not cleaned up until a later external close when all
  lanes have died, close is called inside a callback and the clean-up thread
  cannot start; the comment at `runtime.py:2626` does not hold for it;
- the drive gate sends key presses without a clean-up (`_send_dashboard_up_key`): an
  interruption between press and release leaves the key down;
- an X window id that is used again while it is still on the list of foreign windows,
  or a foreign window that vanishes during the question for its owner, makes the
  opening of a simulator fail; it never touches the foreign window;
- a failed spawn of Command leaves its temporary directory; a killed installer
  leaves `.staging` and `.current-<pid>` entries.

## 4. Proofs

All theorems hold for every value of the constants that satisfies the modules'
assumptions (bounds are natural numbers, the null values are distinct from the
values). None of the stated properties is inductive by itself; what had to be
added is said below, and each addition was checked by TLC before it was proved.

`V2RuntimeProtocolProofs`. Properties such as `NoCommitAcrossRevocation` are not
inductive: that a callback's payload is old must be known while it is still
held. The inductive invariant is

    IInv == TypeOK /\ RebuildInv /\ IngressInv /\ AuthorityInv

`RebuildInv`: session and authority agree on the rebuild, and a prepared one has
put the command generation ahead of the world generation (hence
`CommitAlwaysPossible`). `IngressInv`: a held payload's generation is at most
the one at its capture, which is at most the present one; so a payload that
matches the present generation was captured in it, whatever the tokens say.
`AuthorityInv`: the table, the mailbox and its capture generation. Each action
either ends with no owner and an empty mailbox (`DisownedInv`), or touches none
of it (`FramedInv`), or is the one commit. From `IInv` follow the invariants,
the action properties (`RevocationsAdvance`, `SequencesAdvance`, `WheelsSafe`,
the last with a small invariant on arrival times) and `Refinement`, the
implementation of `CommandSafety`. `IdentitiesUnique` has an invariant of its
own: identities of the present world are below the next sequence.

`CommandChainProofs`. `TargetsAreYoungerThanTheirGeneration` and
`WheelsNeverFollowAFormerWorld`, for any size of the buffers and any number of
disturbances. The invariant follows a generation message and a target through
all five buffers: the epochs of generation messages grow along pipe, relay,
socket and Command; a target is never behind a generation message younger than
itself (`SocketInv`); and whatever carries the current generation was sent after
it began (`Tagged`, `FrameInv`). The relay's cut-off is what makes the step from
the shared target to the socket keep it.

`LidarSideProofs`, coordinator and shards. The invariant

    IInv == TypeOK /\ PipeInv /\ LifeInv /\ NoMixedFrame

says for each shard exactly what its pipes hold, by the coordinator's position
in the frame: nothing (`Quiet`), or a request, a half, a failure or the silence
of a dead shard (`Owes`). `CleanPipes`, `NoMixing` and `LatenessSurvives` follow;
in particular a half of another frame is never met, so the only way to end is a
Stop or a real failure. `WorkerIsAChild` is the refinement of `LidarChild`: with
`ParentInv`, the parent's discipline (one job on the way, at most one unread
answer, only the acknowledgement after Stop), each step of coordinator and
shards is one step of the abstract child or none. The steps in which a frame is
distributed, collected or cleaned up after a failure are the stutters.

`LidarSideProofs`, scan service. `EveryCaptureHasOneOutcome` is about a log that only
grows. The invariant therefore keeps two sets: captures that can still get an
outcome (`Open`) and captures that can still be reported over budget
(`Unreported`). An event takes its capture out of its set, so it is the only
one. `Overtaken` says what a pause or a new generation has made stale and stays
so; `FramesStayBehindTheBarrier` follows. This is also where the discipline
that `WorkerIsAChild` assumes of its parent comes from (`OneJobOutstanding`).

Sensor output. `NothingIsForgotten`: every accepted sample is waited for, published,
failed or refused (`OutputStands`), and as long as the service has not failed, the
samples waited for are those the service still has (`FactoryMatchesService`). It rests
on the service's invariant, since a sample is withdrawn by the events of its capture.

Obstacle mirror. `ScansExactlyTheRequested`, for any obstacles, shapes and failing
calls: at every step of a request and of its roll-back, the bodies in the child are
those of its records without the removed ones, and the candidates created so far; each
has one body of its own (`MirrorStands`).

`WorldProofs`, scene. `OneWorldAfterEveryOperation`: for every place in the
transaction, and for each frame of a clear, the invariant names the bodies that are in
Bullet and the world to which the runtime is bound (`BodiesOfStep`, `WorkerOfWorld`),
and what the operation has changed since it began (`SinceBegun`); every failing call
leads to a place where it holds. It does not say that every change is reported: a clear
that ends with an error is excepted, as it is in the code.

`WorldProofs`, obstacles. `ObstaclesStaySound`, for any ids, limits and failing
calls. Beyond the property, the invariant (`ObstacleInv`) says that what is under
way is in Bullet, apart from the records and from the debts, and that a batch
begins without debts or a fault (`JobStands`, `RecordsStand`). It needs that
Bullet gives out only free ids. The case split is over the ten failing calls.

`HostProofs`. `StopIsFinalForOldMessages`: a message in decoding that a stop has
overtaken carries an older epoch. `TheRobotFollowsLiveInput`:
`RcIsRecent` bounds, for each place of the RC worker, the age of the frame behind
its target; `KeyIsTracked` does the same for a released key; `ClosingOrder` gives
the order in which closing takes the selection away. The attempt showed that the
bound on RC silence first stated (one read after the time-out) holds only when a
read takes one tick; the model's property now has the right one, two reads.
`PublishedReleasesAreWhole`, for any set of run files and any number of installers
that are killed at any step. `RelInv` says what a staging directory contains, part by
part, at each step of the installer and of its setup program (`StagesSound`), that
an installer between taking the lock and giving it back holds it (`HolderWorks`), and that the children of
a killed installer work in a directory nobody takes up again although its process id
may be reused (`OrphansApart`). It assumes of a release description that names do not
collide: no file of the repository and no download of the lock files is called like
something the install makes (`ManifestsAssumption`).

`MappingProofs`, replay. `TheMapIsThatOfItsFrame`, for recordings of any length, any
voxels and any life of moving points. The map the window shows must be the one
the recording alone determines (`FixedUpTo`, `MovingUpTo`). The invariant says
what the source holds between two requests (`MapOf`): the map of the frame it is
at, with moving points that are not aged yet, because a frame without a pose
after it is passed without ageing them; or it has failed, and gives nothing until
it is rewound. `Queued` places the window's first request and the clock's in
the two queues and the worker's hand, so that no result meets a clock that does
not wait for it. `ClockStands` says that only the next frame is reached without
rebuilding.

`MappingProofs`, lock-step. `TheMappingIsSound`, for any route, pose period, speed and
mishaps. `PeerStands`: the answers are those to the states 1, 2, ... in order, with at
most one pending. `LockStep`: until a mishap, what is under way on each topic continues
what its reader has counted, and simulator and peer never both wait. `SessionStands`:
the orchestrator's place says which processes have ended and how, from which follows
that only a complete session is accepted.

`ViewProofs`, live view. `TheScreenIsCoherent`: the worlds of queue, work, store,
snapshot, cloud and widget are ordered, because the receiver opens a new store and
drops the old cloud before it writes anything of a new world; the sample a store holds
is bounded by the last message of its topic.

`ViewProofs`, Recorder. `TheRecordingIsWhole`: while a session records, the accepted
frames are those written, then the one the main loop holds, then those in the queue,
and the loop's place says what is sealed, named and durable (`CaptureInv`); a crash
takes at most a name that was not durable. For the interactive window `WindowInv` says
that what is pending lies after the last boundary, that the log is in the order of its
stamps per topic and does not pass the boundary, and that every sensor frame shown to
the window is in the log, pending, or older than the first boundary. What a boundary
commits is a concatenation over all stamps up to it; the lemmas about it are proved by
taking the least stamp at which they would fail.

Only model-checked, and why.

- All liveness (`AuthorityReclaimed`, `InteractiveSettles`, `EveryDrainEnds`,
  `NobodyWaitsForEver`, `CloseCompletes`, `MappingSettles`) and the properties that join
  safety with liveness (`RecordedCommandEnds`, `LogKeepsItsWord`, `TransportKeepsItsWord`,
  `GatesDecide`, `SessionInOrder`): fairness and ENABLED are out of the prover's reach.
- `RuntimeSound` is a safety invariant of some eighty actions of four kinds of threads; its
  invariant has not been worked out.
- `DriveSound` rests on the arithmetic of the layout, with division and rounding by the
  scale of a display, for which the bounded instance is the check.

`TypeOK` and `CommitNeverExhausted` of the controller, `TypeOK` and
`CleanBetweenFrames` of the coordinator are proved and not repeated in a run.

## 5. Not modelled

Floating-point computation (kinematics, rays, noise, placement), drawing, message
encoding, file formats, the authentication token's bytes, wall-clock pacing. In
the modelled components: the SBUS parser and port search; the one-shot mode of
the C++ Command; statistics and status snapshots of the v1 runtime, its close
from inside a publish callback, failing `subscription.close`, and a rebind
without LiDAR service beyond its effect; the numeric evidence of the gate, its
reconnect-only and transport-only variants; the vertical axis of the windows and
the pictures the drive gate takes; charts, the
external live viewer and diagnostics; power loss without fsync in the installer;
the viewer import of the installer; errors of `_run_cleanup_actions` in the
stage-4 start, which the code ignores; the reference checkouts, whose script keeps
nothing between two looks at one of them; pose recovery, deskewing and drawing of the replay; the
pacing figures of the v2 gate. The MCAP replay client, the ROS 2 bridge, the subscriber
and the remaining verification scripts drive or convert one message at a time.

## 6. Plan

Done: all modules of section 2 with their runs; the proofs of section 4. Left:

1. `RuntimeSound` of the v1 runtime, with an invariant for each thread's place
   between two sections of the lock;
2. the accounting part of `LogKeepsItsWord`, stated as an invariant of its own;
3. the scripts that drive one message at a time.
