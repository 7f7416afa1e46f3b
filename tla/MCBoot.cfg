CONSTANTS
    FS_MAX_ENTRIES = 3
    Names = {"a", "b"}
    Data = {"d"}
    Columns = 80
    Rows = 25
    MaxIrq = 5
    Motions <- MCMotions
SPECIFICATION Spec
INVARIANTS TypeOK CwdRooted Aligned OneCursor PwdReturns
PROPERTIES BootsFileSystem RightWay BootEnds
