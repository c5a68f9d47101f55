SPECIFICATION Spec
CONSTANTS
    PAGE_TABLE_LEN = 8
    KERNEL_STACK_PAGES = 1
    MEM_INVALID_PAGES = 1
    NumPages = 16
    OrigBrk = 1
    InitPages = 1
    ProgramPages = {1}
    ArgPages = {1}
    MaxPid = 2
    MaxKernelBrk = 2
    MaxStack = 3
    Breaks = {0, 1, 2, 9}
    MaxCount = 9
    Ops = {"Fork", "Brk", "Exit", "Exec", "Malloc", "Delay", "Idle"}
INVARIANTS
    TablesApart
CHECK_DEADLOCK FALSE
