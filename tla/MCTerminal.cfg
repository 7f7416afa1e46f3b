SPECIFICATION Spec
CONSTANTS
    CMD_BUFFER_SIZE = 3
    HISTORY_MAX = 2
    CharKeys = {"w", "p", " "}
    Shifted <- SameCase
    Columns = 4
    Rows = 2
    PromptLen = 1
    BootRow = 0
    BootText <- EndOfBoot
    MaxRow = 1
    MaxBootCommands = 1
    MaxOutput = 0
INVARIANTS
    TypeOK
    LineOnScreen
    NulTerminated
PROPERTIES
    ImplementsEditor
