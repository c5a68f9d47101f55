SPECIFICATION KernelSpec
CONSTANTS
    MaxPid = 3
    MaxDelay = 1
    MaxTransmits = 0
    Status = {0}
    Calls = {"Fork", "Exit", "Trap", "Wait", "Exec", "Grow"}
    PAGE_TABLE_LEN = 8
    KERNEL_STACK_PAGES = 1
    MEM_INVALID_PAGES = 1
    NumPages = 17
    OrigBrk = 1
    InitPages = 1
    ProgramPages = {2}
    ArgPages = {1}
    MaxKernelBrk = 2
    MaxStack = 2
    Breaks = {}
    MaxCount = 10
INVARIANTS
    LiveInOnePlace
    IdleAfterLastExit
    UserMemoryOwned
PROPERTIES
    FamilySpec
    MemorySpec
