SPECIFICATION FairSpec
CONSTANTS
    MaxPid = 3
    MaxDelay = 2
    MaxTransmits = 1
    Status = {0, 7}
    Calls = {"Fork", "Exit", "Trap", "Wait", "Delay", "TtyWrite", "TtyRead"}
INVARIANTS
    TypeOK
    FamilyInv
    NoLostWakeup
    SuspendedAccounted
    IdleInv
PROPERTIES
    ExitOrphansChildren
    DelayEnds
    ReadyBecomesCurrent
