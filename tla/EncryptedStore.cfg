\* All kinds of files and builds; everything may fail but the lock.
CONSTANTS
    t1 = t1
    t2 = t2
    t3 = t3
    p1 = p1
    p2 = p2
    mine = mine
    theirs = theirs
    app = app
    other = other
    a = a
    b = b
    v = v
    surrogate = surrogate
    None = None
    Absent = Absent
    Garbled = Garbled
    Malformed = Malformed
    FAILED = FAILED
    NEWER_VERSION = NEWER_VERSION
    KDF_UNAVAILABLE = KDF_UNAVAILABLE
    Threads <- MCThreads
    Procs = {p1, p2}
    ProcOf <- MCProcOf
    Passes = {mine, theirs}
    PassOf <- MCPassOf
    App = app
    Apps = {app, other}
    Names = {a, b}
    Values = {v, surrogate}
    Encodable = {v}
    RequestsOf <- MCRequestsOf
    Readers = {t2}
    InitBlobs <- MCInitBlobs
    Builds <- MCBuilds
    Faults <- MCFaults
SPECIFICATION EncryptedSpec
INVARIANTS
    TypeOK
    OwnBlobsOpen
    VerdictFits
    ProbedBeforeUse
    ModeReportedOnce
PROPERTIES
    KeepsPromise
