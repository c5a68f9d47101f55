SPECIFICATION TermSpec
CONSTANTS
    MaxPid = 2
    MaxDelay = 1
    MaxTransmits = 2
    Status = {0}
    Calls = {"Fork", "Exit", "Trap", "Wait", "Delay", "TtyWrite", "TtyRead"}
    Tty = {0, 1}
    MaxLines = 2
INVARIANT SentOnce
