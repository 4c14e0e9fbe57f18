SPECIFICATION Spec
CONSTANTS
    Width = 4
    MemBase = 3
    MemSize = 11
    UBootBase = 12
    MaxRegions = 3
    Sizes = {1, 2, 3}
    Aligns = {1, 2, 4}
    MaxAddrs = {0, 9}
    MaxBlocks = 5
INVARIANTS
    Canonical
    
    
    AllocFits
