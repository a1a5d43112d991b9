--------------------------- MODULE ReleaseInstall ----------------------------
(***************************************************************************)
(* The single-file installer (scripts/build_stage4_run.py, its embedded    *)
(* program and scripts/stage4_release_setup.py) on one install root.       *)
(*                                                                         *)
(* An installer runs under a lock in a staging directory named after its   *)
(* version and process id, lets a child process build the tools there,     *)
(* freezes the file table, renames the directory to releases/<version> and *)
(* switches `current`.  An installer may be killed between any two steps:  *)
(* the lock goes, staging directory and child stay.  A directory is        *)
(* [files, build, table, state]: what it contains, the temporary build     *)
(* tree in it, the files listed in manifest.json, and install-state.json.  *)
(***************************************************************************)
EXTENDS Naturals, Sequences, FiniteSets

CONSTANTS
    Manifests,       \* the release descriptions given to the builder
    Pids,            \* process ids; one is used again after its end
    MaxInstalls,     \* bound on installer runs
    NoPid

(* The names of what an install makes, and of the downloads whose tools    *)
(* the setup looks for.                                                    *)
OwnParts == {"index", "runtime", "links", "tools", "bridge", "bridgeLauncher", "yaml", "libs",
             "bin/runSim", "viewerTree", "result", "results"}
ToolArchives == {"micromamba", "viewer", "abseil", "protobuf", "ecalDeb"}

(* The repository has no file, and the lock files no download, under a     *)
(* name of the other or of something the install makes; the tools are      *)
(* downloads of every install, not of one with ROS.                        *)
ASSUME ManifestsAssumption ==
    \A m \in Manifests :
        /\ (m.tree \cup m.deps \cup m.rosDeps) \cap OwnParts = {}
        /\ (m.tree \cup m.rosDeps) \cap ToolArchives = {}
        /\ "runSim" \notin m.deps \cup m.rosDeps
ASSUME NoPidAssumption == NoPid \notin Pids

VARIABLES
    inst,            \* the installers: where each is, and what it installs
    lock,            \* .stage4-install.lock
    staging,         \* .staging/<version>-<pid>
    child,           \* the setup process working in a staging directory
    releases,        \* releases/<version>
    current,         \* the `current` link: a version or 0
    temps,           \* .current-<pid> links
    command,         \* <command-dir>/runSim
    installs

relVars == <<inst, lock, staging, child, releases, current, temps, command, installs>>

-----------------------------------------------------------------------------
(* The builder.  The payload is the source tree without tests and caches;  *)
(* a description needs something to install, its setup program in the      *)
(* payload, and no payload file under the name of a download.              *)
Payload(tree) == tree \ {"tests", "cache"}
Buildable(m) ==
    /\ {"main", "locks"} \subseteq m.tree
    /\ m.setup => "setup" \in Payload(m.tree)
    /\ m.deps \cap Payload(m.tree) = {}
    /\ m.deps \cap m.rosDeps = {}
RunFiles == {m \in Manifests : Buildable(m)}

Versions == {m.version : m \in RunFiles}
Deps(m, ros) == m.deps \cup (IF ros THEN m.rosDeps ELSE {})
Expected(m, ros) == Payload(m.tree) \cup Deps(m, ros)

NoDir == [exists |-> FALSE, files |-> {}, build |-> {}, table |-> {}, state |-> <<>>]
NewDir == [NoDir EXCEPT !.exists = TRUE]
Idle == [pc |-> "none", run |-> <<>>, ros |-> FALSE, tries |-> 0]
Places == Versions \X Pids
Place(p) == <<inst[p].run.version, p>>
Dir(p) == staging[Place(p)]

RelInit ==
    /\ inst = [p \in Pids |-> Idle]
    /\ lock = NoPid
    /\ staging = [w \in Places |-> NoDir]
    /\ child = [w \in Places |-> [step |-> 0, ros |-> FALSE, exit |-> "none"]]
    /\ releases = [v \in Versions |-> NoDir]
    /\ current = 0 /\ temps = {}
    /\ command \in {"none", "foreign"}
    /\ installs = 0

-----------------------------------------------------------------------------
(* The setup program.  Every step gives the directory it leaves, or NoDir  *)
(* when it raises; what it needs was either downloaded or built before.    *)
Puts(d, files) == [d EXCEPT !.files = @ \cup files]
Builds(d, parts) == [d EXCEPT !.build = @ \cup parts]

(* The index the installer wrote names every download. *)
LoadLocked(d) == IF "index" \in d.files THEN d ELSE NoDir

(* Micromamba creates the Python runtime, with links inside it; the wheels *)
(* are installed and imported.                                             *)
CreateRuntime(d) ==
    IF "micromamba" \notin d.files THEN d
    ELSE IF "runtime" \in d.files \/ "locks" \notin d.files THEN NoDir
    ELSE Builds(Puts(d, {"runtime", "links"}), {"runner"})
ExtractArchives(d) == Builds(d, {"sources"} \cup (d.files \cap {"abseil", "protobuf", "ecalSource", "mcap", "livox"}))
LivoxSource(d, ros) == IF ros /\ "livox" \notin d.build THEN NoDir ELSE d
BuildAbseil(d) == IF "abseil" \in d.build THEN Builds(d, {"prefix"}) ELSE d
BuildProtobuf(d) == IF "protobuf" \in d.build THEN Builds(d, {"prefix", "protoc"}) ELSE d
InstallEcalDeb(d) ==
    IF "ecalDeb" \notin d.files THEN d
    ELSE IF "prefix" \notin d.build THEN NoDir
    ELSE Builds(d, {"ecal", "yaml"})
BuildEcal(d) ==
    IF "ecal" \in d.build \/ "ecalSource" \notin d.build THEN d
    ELSE IF "prefix" \notin d.build THEN NoDir
    ELSE Builds(d, {"ecal"})
InstallTools(d, ros) == Puts(d, {"tools"} \cup IF ros THEN {"bridge"} ELSE {})
InstallEcalConfig(d) == IF {"ecal", "yaml"} \subseteq d.build THEN Puts(d, {"yaml"}) ELSE d
CopyLibraries(d) == IF "prefix" \in d.build THEN Puts(d, {"libs", "links"}) ELSE d
InstallBridgeLauncher(d, ros) ==
    IF ros /\ "bridge" \in d.files THEN Puts(d, {"bridgeLauncher"}) ELSE d
InstallRunSim(d) ==
    IF "runSim" \notin d.files THEN d
    ELSE IF "bin/runSim" \in d.files THEN NoDir
    ELSE Puts(d, {"bin/runSim"})
InstallViewer(d) ==
    IF "viewer" \notin d.files THEN d
    ELSE IF "viewerTree" \in d.files THEN NoDir
    ELSE Puts(d, {"viewerTree"})

(* The `finally` of build_cpp_tools. *)
RemoveBuild(d) == [d EXCEPT !.build = {}]

MaterializeLinks(d) == [d EXCEPT !.files = @ \ {"links"}]
WriteResult(d) == Puts(d, {"result"})

SetupSteps == <<"load", "runtime", "archives", "livox", "abseil", "protobuf", "ecalDeb", "ecal",
                "tools", "config", "libraries", "bridge", "runSim", "viewer",
                "clean", "links", "result">>
Setup(step, d, ros) ==
    CASE step = "load"      -> LoadLocked(d)
      [] step = "runtime"   -> CreateRuntime(d)
      [] step = "archives"  -> ExtractArchives(d)
      [] step = "livox"     -> LivoxSource(d, ros)
      [] step = "abseil"    -> BuildAbseil(d)
      [] step = "protobuf"  -> BuildProtobuf(d)
      [] step = "ecalDeb"   -> InstallEcalDeb(d)
      [] step = "ecal"      -> BuildEcal(d)
      [] step = "tools"     -> InstallTools(d, ros)
      [] step = "config"    -> InstallEcalConfig(d)
      [] step = "libraries" -> CopyLibraries(d)
      [] step = "bridge"    -> InstallBridgeLauncher(d, ros)
      [] step = "runSim"    -> InstallRunSim(d)
      [] step = "viewer"    -> InstallViewer(d)
      [] step = "clean"     -> RemoveBuild(d)
      [] step = "links"     -> MaterializeLinks(d)
      [] step = "result"    -> WriteResult(d)

(* build_cpp_tools, in the child, one step after the other; a step also    *)
(* raises when the compiler, the network or an archive lets it down, and   *)
(* then the build tree is removed on the way out.  Without its directory   *)
(* every step raises.                                                      *)
SetupStep(w, ok) ==
    /\ child[w].step \in 1..Len(SetupSteps)
    /\ LET name == SetupSteps[child[w].step]
           next == IF ok /\ staging[w].exists THEN Setup(name, staging[w], child[w].ros) ELSE NoDir
           last == child[w].step = Len(SetupSteps)
       IN  IF next.exists
           THEN /\ staging' = [staging EXCEPT ![w] = next]
                /\ child' = [child EXCEPT ![w] = [@ EXCEPT !.step = IF last THEN 0 ELSE child[w].step + 1,
                                                           !.exit = IF last THEN "ok" ELSE "none"]]
           ELSE /\ staging' = [staging EXCEPT ![w] = RemoveBuild(@)]
                /\ child' = [child EXCEPT ![w] = [@ EXCEPT !.step = 0, !.exit = "failed"]]
    /\ UNCHANGED <<inst, lock, releases, current, temps, command, installs>>

-----------------------------------------------------------------------------
At(p, pc) == inst[p].pc = pc
Goes(p, pc) == inst' = [inst EXCEPT ![p].pc = pc]
Keeps(p, pc, d) ==
    /\ Goes(p, pc)
    /\ staging' = [staging EXCEPT ![Place(p)] = d]
    /\ UNCHANGED <<lock, child, releases, current, temps, command, installs>>

(* The end of an installer, by itself or not: the kernel drops the lock.   *)
Ends(p) ==
    /\ inst' = [inst EXCEPT ![p] = Idle]
    /\ lock' = IF lock = p THEN NoPid ELSE lock

(* Started with a run file and the ROS option, which a run file may fix;   *)
(* a command path that belongs to somebody else is refused.                *)
Start(p, m, ros) ==
    /\ At(p, "none") /\ installs < MaxInstalls
    /\ ros \in m.rosChoice /\ command # "foreign"
    /\ inst' = [inst EXCEPT ![p] = [pc |-> "lock", run |-> m, ros |-> ros, tries |-> 0]]
    /\ installs' = installs + 1
    /\ UNCHANGED <<lock, staging, child, releases, current, temps, command>>

TakeLock(p) ==
    /\ At(p, "lock")
    /\ IF lock # NoPid THEN Ends(p)
       ELSE /\ lock' = p
            /\ Goes(p, IF releases[inst[p].run.version].exists THEN "check" ELSE "stage")
    /\ UNCHANGED <<staging, child, releases, current, temps, command, installs>>

(* The file table of a directory; a link in it is an error.                *)
ReleaseFiles(d) == d.files \cup d.build
Identity(m, ros) == <<m.version, m.digest, ros>>
Complete(d, m, ros) ==
    /\ d.state = Identity(m, ros) \o <<d.table>>
    /\ Expected(m, ros) \subseteq d.table
    /\ "links" \notin d.files
    /\ ReleaseFiles(d) = d.table

(* A version that is there already is activated if it is complete, and     *)
(* never touched.                                                          *)
CheckInstalled(p) ==
    /\ At(p, "check")
    /\ IF Complete(releases[inst[p].run.version], inst[p].run, inst[p].ros)
       THEN Goes(p, "link") /\ lock' = lock
       ELSE Ends(p)
    /\ UNCHANGED <<staging, child, releases, current, temps, command, installs>>

(* A staging directory of the same name is an error outside the cleanup.   *)
MakeStaging(p) ==
    /\ At(p, "stage")
    /\ IF Dir(p).exists
       THEN Ends(p) /\ staging' = staging
       ELSE /\ Goes(p, "extract") /\ lock' = lock
            /\ staging' = [staging EXCEPT ![Place(p)] = NewDir]
    /\ UNCHANGED <<child, releases, current, temps, command, installs>>

ExtractPayload(p) ==
    /\ At(p, "extract")
    /\ Keeps(p, "tools", Puts(Dir(p), Payload(inst[p].run.tree)))

(* The compiler and its libraries, with sudo when they are missing.        *)
BootstrapTools(p, ok) ==
    /\ At(p, "tools")
    /\ Keeps(p, IF ok /\ "locks" \in Dir(p).files THEN "download" ELSE "abort", Dir(p))

(* download_locked: three attempts for a broken transfer, none for a wrong *)
(* digest.                                                                 *)
MaxTries == 3
Missing(p) == Deps(inst[p].run, inst[p].ros) \ Dir(p).files
Download(p, outcome) ==
    /\ At(p, "download") /\ Missing(p) # {}
    /\ LET d == CHOOSE x \in Missing(p) : TRUE
           tries == inst[p].tries + 1
       IN  CASE outcome = "good" ->
                  /\ staging' = [staging EXCEPT ![Place(p)] = Puts(@, {d})]
                  /\ inst' = [inst EXCEPT ![p].tries = 0]
             [] outcome = "broken" ->
                  /\ staging' = staging
                  /\ inst' = IF tries = MaxTries
                             THEN [inst EXCEPT ![p] = [@ EXCEPT !.tries = 0, !.pc = "abort"]]
                             ELSE [inst EXCEPT ![p].tries = tries]
             [] outcome = "wrong" ->
                  /\ staging' = staging
                  /\ inst' = [inst EXCEPT ![p] = [@ EXCEPT !.tries = 0, !.pc = "abort"]]
    /\ UNCHANGED <<lock, child, releases, current, temps, command, installs>>

(* Everything is there: the ROS packages, if chosen and locked.            *)
BootstrapRos(p, ok) ==
    /\ At(p, "download") /\ Missing(p) = {}
    /\ LET needed == inst[p].ros /\ "rosSource" \in Dir(p).files
       IN  Keeps(p, IF needed /\ ~ok THEN "abort" ELSE "index", Dir(p))

WriteIndex(p) ==
    /\ At(p, "index")
    /\ Keeps(p, "doctor", Puts(Dir(p), {"index"}))

(* Mutant: the release is frozen while its setup is still at work. *)
RunSetupUnwatched(p) ==
    /\ At(p, "doctor")
    /\ Goes(p, "freeze")
    /\ child' = [child EXCEPT ![Place(p)] = [step |-> 1, ros |-> inst[p].ros, exit |-> "none"]]
    /\ UNCHANGED <<lock, staging, releases, current, temps, command, installs>>

(* verify_expected_files and the start of the setup program. *)
RunSetup(p) ==
    /\ At(p, "doctor")
    /\ IF ~(Expected(inst[p].run, inst[p].ros) \subseteq Dir(p).files)
       THEN Goes(p, "abort") /\ child' = child
       ELSE IF ~inst[p].run.setup THEN Goes(p, "freeze") /\ child' = child
       ELSE /\ Goes(p, "setup")
            /\ child' = [child EXCEPT ![Place(p)] = [step |-> 1, ros |-> inst[p].ros, exit |-> "none"]]
    /\ UNCHANGED <<lock, staging, releases, current, temps, command, installs>>

WaitSetup(p) ==
    /\ At(p, "setup") /\ child[Place(p)].exit # "none"
    /\ Goes(p, IF child[Place(p)].exit = "ok" THEN "freeze" ELSE "abort")
    /\ child' = [child EXCEPT ![Place(p)].exit = "none"]
    /\ UNCHANGED <<lock, staging, releases, current, temps, command, installs>>

(* The table of all files, then manifest.json and install-state.json.      *)
Freeze(p) ==
    /\ At(p, "freeze")
    /\ IF "links" \in Dir(p).files THEN Keeps(p, "abort", Dir(p))
       ELSE Keeps(p, "state", [Dir(p) EXCEPT !.table = ReleaseFiles(Dir(p))])

WriteState(p) ==
    /\ At(p, "state")
    /\ Keeps(p, "publish", [Dir(p) EXCEPT !.state = Identity(inst[p].run, inst[p].ros) \o <<Dir(p).table>>])

(* os.replace(staging, release) *)
PublishRelease(p) ==
    /\ At(p, "publish")
    /\ Goes(p, "link")
    /\ releases' = [releases EXCEPT ![inst[p].run.version] = Dir(p)]
    /\ staging' = [staging EXCEPT ![Place(p)] = NoDir]
    /\ UNCHANGED <<lock, child, current, temps, command, installs>>

(* current_target: a link under a name of this process, moved over the     *)
(* old one; a leftover of a killed process with this id is an error.       *)
MakeLink(p) ==
    /\ At(p, "link")
    /\ IF p \in temps THEN Goes(p, "abort") /\ temps' = temps
       ELSE Goes(p, "activate") /\ temps' = temps \cup {p}
    /\ UNCHANGED <<lock, staging, child, releases, current, command, installs>>

Activate(p) ==
    /\ At(p, "activate")
    /\ current' = inst[p].run.version /\ temps' = temps \ {p}
    /\ Goes(p, "command")
    /\ UNCHANGED <<lock, staging, child, releases, command, installs>>

(* publish_command_target: only over nothing, and only onto a launcher.    *)
PublishCommand(p) ==
    /\ At(p, "command")
    /\ command' = IF command = "none" /\ "bin/runSim" \in releases[current].files
                  THEN "managed" ELSE command
    /\ Ends(p)
    /\ UNCHANGED <<staging, child, releases, current, temps, installs>>

(* Any error inside the transaction removes the staging directory. *)
InstallAborts(p) ==
    /\ At(p, "abort")
    /\ Ends(p)
    /\ staging' = [staging EXCEPT ![Place(p)] = NoDir]
    /\ UNCHANGED <<child, releases, current, temps, command, installs>>

-----------------------------------------------------------------------------
KillInstaller(p) ==
    /\ ~At(p, "none")
    /\ Ends(p)
    /\ UNCHANGED <<staging, child, releases, current, temps, command, installs>>

(* Starting the program from `current`: runSim keeps the interpreter from  *)
(* writing caches and has the results written below the release.           *)
StartProgram ==
    /\ current # 0
    /\ releases' = [releases EXCEPT ![current] = Puts(@, {"results"})]
    /\ UNCHANGED <<inst, lock, staging, child, current, temps, command, installs>>

Install(p) ==
    \/ TakeLock(p) \/ CheckInstalled(p) \/ MakeStaging(p) \/ ExtractPayload(p)
    \/ \E ok \in BOOLEAN : BootstrapTools(p, ok) \/ BootstrapRos(p, ok)
    \/ \E o \in {"good", "broken", "wrong"} : Download(p, o)
    \/ WriteIndex(p) \/ RunSetup(p) \/ WaitSetup(p) \/ Freeze(p) \/ WriteState(p)
    \/ PublishRelease(p) \/ MakeLink(p) \/ Activate(p) \/ PublishCommand(p) \/ InstallAborts(p)

RelNext ==
    \/ \E p \in Pids : \/ \E m \in RunFiles, ros \in BOOLEAN : Start(p, m, ros)
                       \/ Install(p) \/ KillInstaller(p)
    \/ \E w \in Places, ok \in BOOLEAN : SetupStep(w, ok)
    \/ StartProgram

RelSpec == RelInit /\ [][RelNext]_relVars

-----------------------------------------------------------------------------
(* What a release of a run file has to contain once its setup is done.     *)
ReleaseParts(m, ros) ==
    Expected(m, ros) \cup {"index"}
    \cup IF ~m.setup THEN {}
         ELSE {"tools", "result"}
              \cup (IF "runSim" \in m.tree THEN {"bin/runSim"} ELSE {})
              \cup (IF "micromamba" \in m.deps THEN {"runtime"} ELSE {})
              \cup (IF "viewer" \in m.deps THEN {"viewerTree"} ELSE {})
              \cup (IF ros THEN {"bridge", "bridgeLauncher"} ELSE {})
              \cup (IF m.deps \cap {"abseil", "protobuf"} # {} THEN {"libs"} ELSE {})
              \cup (IF "ecalDeb" \in m.deps THEN {"yaml"} ELSE {})

(* Whatever is killed, and whoever installs at the same time, a directory  *)
(* under releases/ is a finished release of some run file: all its parts,  *)
(* no build tree, no link, and the table and state a later run of the same *)
(* installer accepts.  `current` names one of them.                        *)
ReleasesAreWhole ==
    /\ \A v \in Versions : LET d == [releases[v] EXCEPT !.files = @ \ {"results"}] IN
          d.exists => \E m \in RunFiles, ros \in BOOLEAN :
                         /\ m.version = v /\ Complete(d, m, ros)
                         /\ d.files = ReleaseParts(m, ros) /\ d.build = {}
    /\ current # 0 => releases[current].exists

(* Starting the program leaves a release as it was installed, so that the  *)
(* same installer accepts it again.                                        *)
StartKeepsRelease ==
    \A v \in Versions : releases[v].exists => ReleaseFiles(releases[v]) = releases[v].table

-----------------------------------------------------------------------------
(* The releases of the small instances: one with everything, another of    *)
(* the same version, others that lack an archive, the setup program or a   *)
(* file of the tree.                                                       *)
SmallManifests ==
    LET core == [version |-> 1, digest |-> "a", setup |-> TRUE, rosChoice |-> BOOLEAN,
                 tree |-> {"main", "locks", "setup", "runSim", "tests"},
                 deps |-> {"micromamba", "protobuf", "ecalDeb", "viewer"}, rosDeps |-> {"livox", "rosSource"}]
        newer == [version |-> 2, digest |-> "c", setup |-> TRUE, rosChoice |-> {TRUE},
                  tree |-> {"main", "locks", "setup"}, deps |-> {"abseil", "ecalSource"}, rosDeps |-> {"livox"}]
    IN  {core, newer,
         [core EXCEPT !.digest = "b", !.rosChoice = {FALSE}],
         [newer EXCEPT !.version = 3, !.deps = {"ecalSource"}, !.rosDeps = {}],
         [core EXCEPT !.version = 3, !.setup = FALSE, !.deps = {}, !.rosDeps = {}, !.rosChoice = {FALSE}],
         [core EXCEPT !.version = 4, !.tree = {"main", "locks"}]}
=============================================================================
