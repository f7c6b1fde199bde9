SPECIFICATION Spec
CONSTANTS
    Names = {a, b}
    BLOCKS = 6
    INODES = 4
    SLOTS = 2
    DIRECT_PTRS = 2
    PTRS = 1
    Offsets = {1}
    Lengths = {5}
    Sizes = {0, 3}
    MaxOps = 7
INVARIANTS TypeOK BlocksOwnedOnce NoLeak TreeSound ReadBack IndirectNeeded
SYMMETRY NameSymmetry
