SPECIFICATION FairSpec
CONSTANTS
    Clients = {c1, c2}
    MaximumClients = 1
    Stops = {x1}
    MaxStarts = 2
INVARIANTS ServerInv NewestPublicationIsRight
PROPERTY ClosedIsForgotten
CHECK_DEADLOCK FALSE
