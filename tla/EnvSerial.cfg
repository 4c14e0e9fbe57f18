SPECIFICATION Spec
CONSTANTS
    Envs = {dflt, a, b}
    DefaultEnv = dflt
INVARIANTS
    TypeOK
    LoadsLastSaved
PROPERTIES
    BackupKept
    SaveSticks
    StoreSpec
