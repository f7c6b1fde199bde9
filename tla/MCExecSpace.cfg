SPECIFICATION Spec
CONSTANTS
    Tasks = {p1, p2}
    Loader = loader
    HEAP = 1
    FRAMES = 9
    MaxSpaces = 3
    Values = {5}
INVARIANT OwnSpace
