SPECIFICATION Spec
CONSTANTS
    Clients = {c1, c2}
    MaximumClients = 2
    Stops = {}
    MaxStarts = 1
INVARIANT SettledCountIsRight
CHECK_DEADLOCK FALSE
