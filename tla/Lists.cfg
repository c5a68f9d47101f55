SPECIFICATION Spec
CONSTANTS
    Proc = {1, 2}
    Item = {1, 2, 3}
INVARIANTS ListsSound ScanEnds
PROPERTY QueuesSpec
CHECK_DEADLOCK FALSE
