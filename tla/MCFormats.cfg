CONSTANTS
    RawSize = 6
    BufferSize = 18
    Tasks <- MCTasks
    Scanner <- NewScanner
    FetchTokens <- FetchMoreTokens
    ParserLoad <- Load
    EmitterEmit <- Emit
    EmitterDump <- Dump
    HashOf <- MCHashOf
    JsonTasks <- MCJsonTasks
    MaxChanges = 4
    json_loads <- JsonLoads
    json_dumps <- JsonDumps
SPECIFICATION FormatsSpec
CHECK_DEADLOCK FALSE
INVARIANTS RoundTripInv ReadingIsExact EventsSurvive DocumentsSurvive JsonSurvives
PROPERTY ImplementsEventStream
