\* Committed rebuilds and expired leases; two captures and one kill; two structural
\* requests and one fault.
SPECIFICATION SideSpec
CONSTANTS
    None = None
    Faults = {"commit", "lease"}
    MaxOps = 2
    MaxSeq = 1
    SocketMax = 1
    MaxCaptures = 2
    MaxAsks = 2
    MaxRestarts = 1
    MaxRequests = 2
    Slices = 2
    MaxFaults = 1
PROPERTIES
    AuthorityReclaimed
    InteractiveSettles
    SessionInOrder
\* A session ends.
CHECK_DEADLOCK FALSE
