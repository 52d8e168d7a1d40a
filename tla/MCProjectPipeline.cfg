CONSTANTS
    html = html
    css = css
    js = js
    swp = swp
    Paths <- MCPaths
    Excluded <- MCExcluded
    Stylesheets <- MCStylesheets
    MaximumPathCount = 2
    MaxGeneration = 4
    MaxCancels = 2
SPECIFICATION Spec
INVARIANTS
    BatcherInv
    PipelineInv
PROPERTIES
    BurstSettledWhole
    SettlesAfterQuiet
    PendingEventuallyCleared
    ImplementsReloadDecisions
    BatchEventuallyDone
CHECK_DEADLOCK FALSE
