\* Two companies and a parameter, jobs for all of them or for one company
CONSTANTS
    Company = {1, 2}
    Param = {3}
    Jobs <- MixedJobs
    MaxRetries = 1
    MaxEdits = 1
    MaxFaults = 2
SPECIFICATION FairSpec
INVARIANTS
    Recoverable
    RestoredIsTrue
PROPERTY SettingsComeBack
