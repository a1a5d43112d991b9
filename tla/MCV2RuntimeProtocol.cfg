\* One callback against every operation; or two callbacks of one publisher and the clock.
SPECIFICATION ProtocolSpec
CONSTANTS
    Topics = {lidar, rtk}
    Frames <- SensorFrame
    GenMax = 3
    SeqMax = 0
    Sources = {s1, s2}
    NoOwner = NoOwner
    MaxPeers = 2
    Timeout = 2
    NoCommand = NoCommand
    Models = {m1, m2}
    Callbacks = {c1, c2}
    only = c1
    Idle = Idle
    MaxCmdSeq = 1
    MaxTime = 2
    MaxLifecycle = 2
    lidar = lidar
    rtk = rtk
SYMMETRY Symmetry
CHECK_DEADLOCK FALSE
INVARIANTS
    AuthorityTable
    MailboxHoldsOwnersCommand
    NoCommitAcrossRevocation
    NoIdentityReuse
PROPERTIES
    RevocationAdvancesGeneration
    ImplementsCommandSafety
    WheelsFollowLiveCommand
    SequenceAdvances
