SPECIFICATION Spec
CONSTANTS
    NoFile = NoFile
    Window = {w1}
    Text = {t1, t2}
    MAX_TODOS = 3
    Faults = TRUE
    Thread = {k1, k2}
    KEEP = 2
    MAX_LOG_SIZE = 3
    Monitor = Monitor
    Header = Header
    Hole = Hole
    MaxTime = 5
    c1 = c1
    c2 = c2
    Child = {c1, c2}
    ram <- MC_ram
    TOTAL = 3
    RING = 3
    SHOWN = 2
    MAX_LOG_LINES = 3
    PAGE_SIZE = 2
INVARIANTS
    FileIsList
    KernelLinesInOrder
    DashboardIsRight
    ReadersShowLines
PROPERTIES
    RotationKeepsNewest
CHECK_DEADLOCK FALSE
