SPECIFICATION Spec
CONSTANTS
    MaxSessions = 1
    MaxOperations = 1
    MaxBatches = 0
INVARIANT WatchingShownIsTrue
CHECK_DEADLOCK FALSE
