SPECIFICATION Spec
CONSTANTS
    MaxPid = 5
    Item = {1, 2, 3, 4}
    ExitStatus = {0}
INVARIANTS
    ChildrenLinked
    WaitsEnd
    ReportedOnce
PROPERTY FamilyListsSpec
CHECK_DEADLOCK FALSE
