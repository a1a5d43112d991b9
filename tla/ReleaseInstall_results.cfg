\* Two installers, and starts of the installed release.
SPECIFICATION RelSpec
CONSTANTS
    Manifests <- SmallManifests
    Pids = {p1, p2}
    MaxInstalls = 2
    NoPid = NoPid
INVARIANT
    StartKeepsRelease
\* Nobody has to install.
CHECK_DEADLOCK FALSE
