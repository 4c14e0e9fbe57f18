SPECIFICATION Spec
CONSTANTS
    a = a
    b = b
    c = c
    x = x
    y = y
    None = None
    Keys = {a, b, c}
    Values = {x, y}
    Nel = 4
    MaxOom = 1
    HashValue <- MCHashValue
    Scripts <- MCScripts
    VarLists <- MCVarLists
INVARIANTS
    TypeOK
    LookupIsEnv
    ExportIsEnv
PROPERTY
    OthersIntact
