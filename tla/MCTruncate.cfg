SPECIFICATION Spec
CONSTANTS
    Names = {a}
    BLOCKS = 8
    INODES = 3
    SLOTS = 2
    DIRECT_PTRS = 2
    PTRS = 2
    Offsets = {1}
    Lengths = {7}
    Sizes = {5}
    MaxOps = 5
INVARIANT TruncateFreesUnused
