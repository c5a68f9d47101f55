SPECIFICATION Spec
CONSTANTS
    MaxPid = 2
    MaxDelay = 1
    MaxTransmits = 0
    Status = {0}
    Calls = {"Fork"}
INVARIANT CurrentIsCaller
