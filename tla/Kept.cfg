SPECIFICATION KernelSpec
CONSTANTS
    MaxPid = 2
    MaxDelay = 1
    MaxTransmits = 1
    Status = {0}
    Calls = {"Fork", "Exit", "Delay", "Brk", "TtyWrite", "TtyRead"}
    PAGE_TABLE_LEN = 8
    KERNEL_STACK_PAGES = 1
    MEM_INVALID_PAGES = 1
    NumPages = 16
    OrigBrk = 1
    InitPages = 1
    ProgramPages = {1}
    ArgPages = {1}
    MaxKernelBrk = 2
    MaxStack = 2
    Breaks = {0, 1, 8, 9}
    MaxCount = 10
INVARIANTS
    TablesKept
