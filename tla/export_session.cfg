\* Three records in two batches, one of which may be deleted, and two faults
CONSTANTS
    Record <- ThreeRecords
    Mortal = {3}
    BatchSize = 2
    Methods = {"read", "export_data"}
    Streams = {TRUE, FALSE}
    MaxFaults = 2
SPECIFICATION FairSpec
INVARIANTS
    
    
    SuccessHasFetchedAll
PROPERTY NothingRemains
