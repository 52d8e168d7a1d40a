SPECIFICATION FairSpec
CONSTANTS
    MaxSessions = 2
    MaxOperations = 2
    MaxBatches = 1
INVARIANTS ServiceInv NotMonitoredWhenDisabled
PROPERTIES OperationsEnd RecoveryIsShown
CHECK_DEADLOCK FALSE
