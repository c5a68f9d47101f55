SPECIFICATION Spec
CONSTANTS
    PAGE_TABLE_LEN = 8
    KERNEL_STACK_PAGES = 1
    MEM_INVALID_PAGES = 1
    NumPages = 16
    OrigBrk = 1
    InitPages = 1
    ProgramPages = {3, 8}
    ArgPages = {1}
    MaxPid = 3
    MaxKernelBrk = 2
    MaxStack = 2
    Breaks = {}
    MaxCount = 16
    Ops = {"Fork", "Exec", "Exit", "Grow", "Malloc"}
INVARIANTS
    MemoryTypeOK
    FramesOwned
    OnlyForkLeaks
    OnlyBorrowedShared
    CountDrift
    StackInOnePiece
CHECK_DEADLOCK FALSE
