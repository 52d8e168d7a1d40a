CONSTANTS
    Capacity = 2
    MaxEvents = 4
    Callers = {x1, x2}
SPECIFICATION StreamSpec
INVARIANTS
    StreamInv
PROPERTIES
    OverflowReleases
    StopEndsReading
    ImplementsSignalStream
CHECK_DEADLOCK FALSE
