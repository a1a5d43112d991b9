\* Every answer, exits, pauses and generation changes, a transport that refuses; two
\* obstacles of two shapes and places, two requests, two failures;
\* late, failing and dying shards.
SPECIFICATION SideSpec
CONSTANTS
    None = None
    Kinds = {"frame", "failed", "unknown", "invalid"}
    MayExit = TRUE
    MaxCaptures = 3
    MaxGen = 1
    MaxEpoch = 1
    MayRefuse = TRUE
    Ids = {1, 2}
    Shapes = {box, ball}
    Places = {here, there}
    Rays = 3
    MaxScans = 2
    MaxFailures = 2
    MaxJobs = 3
    Faults = {"fail", "die", "merge"}
INVARIANTS
    ServiceSound
    NoSampleForgotten
    MirrorIsExact
    NoMixedFrame
    LateIsNotFatal
PROPERTIES
    NoFrameAcrossBarrier
    EveryDrainEnds
    ImplementsLidarChild
    NobodyWaitsForEver
\* The processes end.
CHECK_DEADLOCK FALSE
