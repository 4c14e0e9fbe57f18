SPECIFICATION Spec
CONSTANTS
    Devices = {1, 2, 3, 4}
    NoParent = 0
    Parent <- MCParent
    Uclass <- MCUclass
    ReqSeq <- MCReqSeq
    DM_MAX_SEQ = 4
INVARIANTS
    TypeOK
    
    SeqNamesOne
    
    ReentryBounded
PROPERTY
    ParentFirst
