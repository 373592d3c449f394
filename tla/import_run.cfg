\* Runs of both kinds, an edit and up to two faults, with a row that is never
\* stored or a relation that is never written
CONSTANTS
    child = child
    parent = parent
    lone = lone
    NoRow = NoRow
    Row <- ThreeRows
    Target <- ChildAndLone
    Bad = {lone}
    BadLink = {}
    Hashed = {child}
    Modes = {"normal", "fail"}
    Flags <- AllFlags
    MaxVersion = 2
    MaxFaults = 2
SPECIFICATION PacedSpec
INVARIANTS
    CheckpointIsSound
    FreshRunAddsUp
    LinkingIsSound
PROPERTIES
    RunsConverge
    PacingRecovers
