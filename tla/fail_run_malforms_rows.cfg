\* A row that a --fail run fails to import, and another --fail run
CONSTANTS
    child = child
    parent = parent
    lone = lone
    NoRow = NoRow
    Row <- ThreeRows
    Target <- ChildOfParent
    Bad = {}
    BadLink = {}
    Hashed <- ThreeRows
    Modes = {"normal", "fail"}
    Flags <- DefaultFlags
    MaxVersion = 1
    MaxFaults = 3
SPECIFICATION Spec
INVARIANT
    FailRunRetriesRows
