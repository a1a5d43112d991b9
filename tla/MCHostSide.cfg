\* Every component with the faults its code handles.
SPECIFICATION HostSpec
CONSTANTS
    Receivers = {r1, r2}
    MaxEpoch = 3
    SensorTopics = {"lidar", "rtk"}
    MaxStamp <- MCStamps
    QueueCapacity = 2
    MaxPendingSensors = 2
    MaxPendingWheels = 1
    MaxFrames <- MCFrames
    MaxRepeats = 1
    MaxLateFrames = 1
    Plans = {"interactive", "fixed"}
    BodyIds = {b1, b2, b3, b4}
    MaxBatch = 2
    MaxScene = 2
    BulletFaults = {"create", "remove", "diagnose"}
    Sensors = {"lidar", "imu"}
    MaxWorld = 2
    MaxSeq = 1
    MaxKept = 2
    History = 1
    MaxEdits = 1
    Manifests <- SmallManifests
    Pids = {p1, p2}
    MaxInstalls = 2
    NoPid = NoPid
    Docs = {d1, d2}
    Parts = {robot, ground}
    Faults = {"close", "enumerate", "remove", "diagnose", "build", "worker"}
    MaxOps = 3
INVARIANTS
    RecordingSound
    ObstaclesSound
    ReleasesAreWhole
    TransactionSound
PROPERTIES
    StopRevokesTarget
    ScreenIsCoherent
\* Every component may stop.
CHECK_DEADLOCK FALSE
