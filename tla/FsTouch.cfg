CONSTANTS
    FS_MAX_ENTRIES = 4
    Names = {"a","b"}
    Data = {"d", "tail"}
    StoredName <- Cut16
    TypedName <- Cut15
    WriteText <- Spill
    Length <- TextLength
SPECIFICATION Spec
PROPERTY TouchCreatesEmpty
