\* The source file imported again after one crash; one row is never stored
CONSTANTS
    child = child
    parent = parent
    lone = lone
    NoRow = NoRow
    Row <- ThreeRows
    Target <- ChildOfParent
    Bad = {lone}
    BadLink = {}
    Hashed <- ThreeRows
    Modes = {"normal"}
    Flags <- DefaultFlags
    MaxVersion = 1
    MaxFaults = 1
SPECIFICATION Spec
INVARIANT
    RejectedRowsOnFile
