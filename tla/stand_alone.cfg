SPECIFICATION Spec
CONSTANTS
    Item = {p1, p2}
    None = None
    MAX_PROCESSES = 3
    GRAPH_SIZE = 4
    Desc = {"child", "thread", "answer", "listener"}
    MaxFifos = 2
    Line = {l1, l2}
    MAX_LINES = 2
    NoNote = NoNote
    MaxSeconds = 2
    MaxLines = 2
    FirstYear = 1996
    LastYear = 2104
INVARIANTS
    FindsExactlyCycles
    AnswerNeedsNoWait
    MessagesNeverMix
    FileIsOneText
    QuitSavesAll
    RingsInTime
    MonthIsRight
PROPERTIES
    ImplementsFifo
    Ends
    ImplementsGrantProtocol
    RequestIsServed
    LeavingEnds
    LoopEnds
CHECK_DEADLOCK FALSE
