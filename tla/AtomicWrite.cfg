\* The code retries ten times; two denied attempts are enough to meet a reader
\* that closes in between and one that never does.
CONSTANTS
    Writers = {w1, w2}
    Readers = {r1}
    Old = old
    None = None
    Platforms <- AllPlatforms
    Retries = 2
    WriteFaults <- AllFaults
SPECIFICATION FairSpec
INVARIANTS
    TypeOK
    TargetIsWhole
    AcknowledgedIsDurable
    DescriptorsAreClosed
PROPERTIES
    NoDebris
    CallRunsDown
    KeepsPromise
    CallEnds
