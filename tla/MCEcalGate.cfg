\* v1: two output topics, one measured frame. v2: five physics steps, two frames.
SPECIFICATION GatesSpec
CONSTANTS
    Outputs = 2
    MaxFrames = 1
    Steps = 5
    PhysicsHz = 5
    SensorHz = 2
PROPERTY
    GatesDecide
\* The gates end.
CHECK_DEADLOCK FALSE
