\* Short names: what the duplicate check compares is what is stored.
CONSTANTS
    FS_MAX_ENTRIES = 4
    Names = {"a", "b", ".", ".."}
    Data = {"d"}
    StoredName <- Cut16
    TypedName <- Cut15
    WriteText <- Spill
    Length <- TextLength
SPECIFICATION Spec
INVARIANTS TypeOK NoOrphan CwdLive Acyclic PathsReachRoot UniqueNames
PROPERTIES LocalStep
