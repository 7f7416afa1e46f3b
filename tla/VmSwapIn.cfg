\* The same machine as MCVirtualMemory.cfg.
SPECIFICATION Spec
CONSTANTS
    PAGE_ENTRIES = 2
    FreeStart = 2
    MemPages = 4
    LastPage = 4
    SWAP_MAX_PAGES = 2
    Data = {"zero", "x"}
    Zero = "zero"
INVARIANTS
    LoadedFromSwap
CHECK_DEADLOCK FALSE
