\* Records that have a link of their own, and a file that should add to them
CONSTANTS
    Owner = {1, 2, 3}
    Target = {"t", "u"}
    Asked <- TwoAsk
    Parents <- NoParents
    HasLines = {}
    Plain = {}
    Spaced = {}
    Qualified <- NoQualified
    Worker = 1
    Options <- AddOnly
    MaxRuns = 1
    MaxFaults = 0
SPECIFICATION Spec
INVARIANT
    AddKeepsLinks
