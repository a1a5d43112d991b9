\* One rebuild or rebind, one command, two subscription attempts, two LiDAR services;
\* a host that rebuilds its world, one that loses its peer and rebinds, one
\* that pauses, one that fences; a wheel state and a point cloud fall due together.
SPECIFICATION FairSpec
CONSTANTS
    None = None
    MaxGen = 1
    MaxWorld = 1
    MaxToken = 2
    MaxService = 2
    MaxCmd = 1
    Plans = {{"rebuild"}, {"peer", "rebind"}, {"pause"}, {"fence"}}
    DueSets = {{"wheel", "lidar"}}
INVARIANT
    RuntimeSound
PROPERTY
    CloseCompletes
\* The runtime is closed in the end.
CHECK_DEADLOCK FALSE
