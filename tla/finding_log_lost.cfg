SPECIFICATION Spec
CONSTANTS
    Thread = {k1}
    KEEP = 2
    MAX_LOG_SIZE = 3
    Monitor = Monitor
    Header = Header
    Hole = Hole
    MaxTime = 5
PROPERTIES
    LoggedStays
