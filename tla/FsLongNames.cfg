CONSTANTS
    FS_MAX_ENTRIES = 4
    Names = {"n17", "n16", "n15"}
    Data = {"d", "tail"}
    StoredName <- Cut16
    TypedName <- Cut15
    WriteText <- Spill
    Length <- TextLength
SPECIFICATION Spec
INVARIANT UniqueNames
