\* Every disturbance of the chain; two simulators, two windows, two tabs;
\* one session of keyboard or serial RC.
SPECIFICATION CommandSideSpec
CONSTANTS
    None = None
    Faults = {"commit", "abort", "noop", "peer", "lease", "relay"}
    MaxOps = 2
    MaxSeq = 1
    SocketMax = 2
    Sims = {"own", "other"}
    Slots = {1, 2}
    Displays <- MCDisplays
    DashboardMinWidth = 6
    DashboardMinMainWidth = 4
    Border = 1
    Child = "own"
    LastTab = 1
    MaxData = 2
    MaxSamples = 3
    Heights = {599, 600}
    FormalMinHeight = 600
    TitleHeight = 30
    Scales = {4, 5, 6, 7, 8, 10}
    NoSource = NoSource
    RcTimeout = 2
    RecoveryFrames = 2
    ReadTime = 1
    Grace = 2
INVARIANTS
    NoTargetFromBeforeSync
    WheelsFollowCurrentWorld
    DriveSound
    OnlyLiveInputMoves
CHECK_DEADLOCK FALSE
