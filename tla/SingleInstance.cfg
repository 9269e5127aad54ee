\* Two runs; everything may fail.
CONSTANTS
    j1 = j1
    j2 = j2
    Jobs <- MCJobs
    Store = Store
    None = None
    Faults <- MCFaults
SPECIFICATION FairSingleSpec
INVARIANTS
    TypeOK
    RunsExclude
    HandleTellsTheTruth
    CheckedDirIsUsed
    SecondCallIsSafe
PROPERTIES
    LockIsFreed
