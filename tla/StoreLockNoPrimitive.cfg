\* A platform with neither fcntl nor msvcrt, where nothing else goes wrong.
CONSTANTS
    t1 = t1
    t2 = t2
    t3 = t3
    p1 = p1
    p2 = p2
    None = None
    Threads <- MCThreads
    Procs <- MCProcs
    ProcOf <- MCProcOf
    Paths = {x}
    Locks = {l1, l2}
    OsLockPrimitive = FALSE
    LockFaults <- NoFaults
SPECIFICATION LockSpec
INVARIANT
    StoreExclusion
