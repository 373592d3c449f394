CONSTANTS
    Row <- FiveRows
    Batches <- ThreeBatches
    Sizes = {1}
    MaxConnection = 2
    Limit = 2
    Kinds = {"load", "single", "write"}
    Flaky = {1, 3}
    MaxLost = 1
    File <- FiveLines
    Malformed = {2}
    Weight <- Weights
    BatchSize = 2
    BatchBytes = 3
SPECIFICATION PassSpec
INVARIANTS
    ReturnIsRight
    StoresAreReported
    NoWorkerOutlivesPass
    StreamAddsUp
PROPERTIES
    ImplementsLedger
    PassEnds
