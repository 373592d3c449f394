\* A job killed once between recording a batch and writing it
CONSTANTS
    Record <- ThreeRecords
    Mortal = {}
    BatchSize = 2
    Methods = {"read", "export_data"}
    Streams = {TRUE, FALSE}
    MaxFaults = 1
SPECIFICATION Spec
INVARIANT
    CompletedAreWritten
