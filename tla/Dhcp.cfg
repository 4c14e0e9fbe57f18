SPECIFICATION Spec
CONSTANTS
    None = None
    Servers = {a, b}
    BootpServers = {o}
    CacheSize = 2
    UlongWords = 1
    MaxId = 8
    MaxInFlight = 3
SYMMETRY ServerSymmetry
INVARIANTS
    AddressGranted
    LateAnswersAccepted
