\* A server that stores all the rows of a call or none of them
CONSTANTS
    N = 5
    Xid <- OwnIds
    Ragged = {3}
    Short = {}
    Bad = {2}
    Ignoring = FALSE
    Modes = {"batch", "single"}
    MaxSerial = 2
    Shapes = {"all", "none"}
    MaxLost = 1
SPECIFICATION FairSpec
INVARIANTS
    OneOutcome
    FailedIsCertain
PROPERTIES
    ImplementsLedger
    Termination
