SPECIFICATION Spec
CONSTANTS
    NoFile = NoFile
    Window = {w1, w2}
    Text = {t1, t2}
    MAX_TODOS = 3
    Faults = FALSE
INVARIANTS
    AddedStays
