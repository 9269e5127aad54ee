\* Nothing goes wrong but the release of the OS lock, after a set.
CONSTANTS
    t1 = t1
    t2 = t2
    t3 = t3
    p1 = p1
    p2 = p2
    a = a
    b = b
    v = v
    surrogate = surrogate
    None = None
    Absent = Absent
    Malformed = Malformed
    Threads <- MCThreads
    Procs <- MCProcs
    ProcOf <- MCProcOf
    Paths = {x}
    Observed = x
    Locks = {l1, l2}
    OsLockPrimitive = TRUE
    LockFaults <- UnlockFault
    IoFaults <- NoFaults
    Names <- MCNames
    Values <- MCValues
    Encodable <- MCEncodable
    RequestsOf <- SetsOnly
    InitFiles <- WellFormedFiles
SPECIFICATION StoreSpec
INVARIANT
    OnlyNamedOutcomes
