\* Three rows; targets 1 (imported), 2 (known to the server) and 3 (heavy)
CONSTANTS
    N = 3
    Record = {1, 2, 3}
    Target = {1, 2, 3}
    Imported = {1}
    OnServer = {2, 3}
    Files <- SmallFiles
    BatchSize = 2
    Bytes <- OneHeavy
    MaxBytes = 2
    MaxRetries = 1
SPECIFICATION FairSpec
INVARIANTS
    OnlyAskedLinks
    PackedRight
    SuccessIsTrue
    CompleteReport
PROPERTY PassEnds
