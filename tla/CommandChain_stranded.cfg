\* The publisher vanishes from discovery once, or one rebuild is refused after it was
\* prepared, or one clear fails after it has deleted an obstacle.
SPECIFICATION LiveSpec
CONSTANTS
    None = None
    Faults = {"peer", "abort"}
    MaxOps = 1
    MaxSeq = 1
    SocketMax = 1
PROPERTIES
    AuthorityReclaimed
