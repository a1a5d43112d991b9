\* A route of one pose period, a stop from top speed, a tail; one thing goes wrong.
\* A replay of up to four scans over two voxels, in which up to three frames are asked for.
SPECIFICATION MappingSpec
CONSTANTS
    PosePeriod = 2
    RouteEnd = 2
    TopSpeed = 1
    ZeroTail = 2
    QuietStates = 2
    MaxMishaps = 1
    Recordings <- MCRecordings
    Voxels = {"a", "b"}
    Ttl = 1
    NoRequest = NoRequest
    NoFrame = NoFrame
    NoCache = NoCache
    MaxAsks = 3
INVARIANTS
    MappingSound
    ReplaySound
PROPERTY
    MappingSettles
\* Every process ends.
CHECK_DEADLOCK FALSE
