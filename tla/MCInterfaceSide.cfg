\* One orchestrator may be killed, two threads record, two pollers read one subscription;
\* every process and thread is scheduled, failures are never forced.
SPECIFICATION Spec
CONSTANTS
    Sims = {a, b}
    LogNone = LogNone
    Recorders = {t1, t2}
    QueueSize = 2
    MaxRecords = 4
    ReadLimit = 3
    TrNone = TrNone
    TrTopics = {"wheel", "lidar"}
    TrQueue = 1
    Pollers = {p1, p2}
    Budgets <- Mixes
PROPERTIES
    RecordedCommandEnds
    LogKeepsItsWord
    TransportKeepsItsWord
\* Every component ends or is closed.
CHECK_DEADLOCK FALSE
