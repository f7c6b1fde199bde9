SPECIFICATION Spec
CONSTANTS
    Tasks = {p1, p2}
    Loader = loader
    HEAP = 2
    FRAMES = 6
    MaxSpaces = 3
    Values = {5}
SYMMETRY Symmetry
INVARIANTS
    MemoryInv
    NoWritableSharing
PROPERTIES
    Isolation
