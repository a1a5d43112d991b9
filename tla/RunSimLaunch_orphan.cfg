\* One orchestrator that may be killed anywhere, also between fork and the child's record.
SPECIFICATION LaunchSpec
CONSTANTS
    Sims = {a}
PROPERTIES
    NoOrphanCommand
\* Every process ends.
CHECK_DEADLOCK FALSE
