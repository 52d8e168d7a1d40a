CONSTANTS
    Starts = {s1, s2}
    Stops = {x1, x2}
    MaxQueue = 1
SPECIFICATION Spec
INVARIANTS
    MonitorSafety
PROPERTIES
    ForwardsCurrentStream
    FailureIsNoticed
    StopCompletes
CHECK_DEADLOCK FALSE
