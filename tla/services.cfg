SPECIFICATION Spec
CONSTANTS
    User = {u1, u2}
    Shared = sh
    Call = {c1, c2}
    MaxRuns = 2
    MaxCancels = 2
    MaxLines = 1
    MaxStarts = 2
    Row = {r1}
    MaxFaults = 2
    MaxTime = 5
    MaxEvents = 2
    Threshold = 1
    Limit = 1
    Prompt = {p1, p2}
    NoPrompt = NoPrompt
SYMMETRY Symmetry
INVARIANTS
    TypesOK
    
    OwnEvents
    PumpFed
    NoCliLeftBehind
    EndedIsOver
    NeverReused
    ActiveIsStamped
    AnsweredIsDurable
    SplitOnlyByOthers
    RowsKept
    RowsServed
    ForeignKeysOff
    AnalysedOnce
    NothingSkipped
    ShownOnce
PROPERTIES
    PersonalKept
    StopsIdleOnly
    LeavesNothing
\* Every service may come to rest: a host that has gone, calls that are all answered
CHECK_DEADLOCK FALSE
