SPECIFICATION Spec
CONSTANTS
    Projects = {p1, p2}
    Folders = {f1, f2}
    MaxLaunches = 2
    MaxOperations = 3
INVARIANTS StoreInv VerdictIsCurrent ScreenMatchesStore
PROPERTIES SourceNotOverwritten
CHECK_DEADLOCK FALSE
