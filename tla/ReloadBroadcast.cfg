SPECIFICATION FairBroadcastSpec
CONSTANTS
    Sessions = {b1, b2, b3, b4}
    Slow = {b1}
    MaximumConcurrentDeliveries = 2
INVARIANT BroadcastInv
PROPERTIES CancelStopsBroadcast SlowSessionsDelayNobody
CHECK_DEADLOCK FALSE
