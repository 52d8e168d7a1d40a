CONSTANTS
    Senders = {x1, x2}
    MaxInput = 3
SPECIFICATION SessionSpec
INVARIANTS
    SessionInv
PROPERTIES
    ImplementsBrowserConnection
CHECK_DEADLOCK FALSE
