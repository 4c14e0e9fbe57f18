SPECIFICATION FatSpec
CONSTANTS
    env = env
    img = img
    Files <- MCFiles
    Last = 5
    PartStart = 1
    WinSize = 2
    MaxSize = 3
CONSTRAINT
    Promised
SYMMETRY
    Symmetry
INVARIANTS
    FilesKept
    ChainsApart
