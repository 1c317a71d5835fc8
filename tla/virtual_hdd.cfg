SPECIFICATION Spec
CONSTANTS
    Nil = Nil
    Root = root
    Inode = {root, i1, i2, i3, i4, i5, i6}
    Window = {w1, w2}
    Name <- MC_Name
    Typed <- MC_Typed
    Block = {x, y}
    MaxBlocks = 2
    MaxEndings = 1
    MaxCommands = 2
INVARIANTS
    CopiesAgree
PROPERTIES
    KeepsData
SYMMETRY MC_Symmetry
CHECK_DEADLOCK FALSE
