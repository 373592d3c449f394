\* A run with --skip-existing after one that died between its two passes
CONSTANTS
    Dotted = {"m.a", "m.c"}
    Undotted = {"b"}
    Val = {"1", "2"}
    Before = "2"
    Files <- SmallFiles
    MaxFaults = 1
    MaxEdits = 0
SPECIFICATION Spec
INVARIANT
    RelationsInPlace
