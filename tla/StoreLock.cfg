\* One store: threads on different stores share no state. No symmetry: it is
\* not sound for liveness.
CONSTANTS
    t1 = t1
    t2 = t2
    t3 = t3
    p1 = p1
    p2 = p2
    None = None
    Threads <- MCThreads
    Procs <- MCProcs
    ProcOf <- MCProcOf
    Paths = {x}
    Locks = {l1, l2}
    OsLockPrimitive = TRUE
    LockFaults <- AllFaults
SPECIFICATION FairLockSpec
INVARIANTS
    LockTypeOK
    SameProcessExclusion
    StoreExclusion
    RegistryKeepsUsedLocks
    NoStaleOsLock
PROPERTY
    SomeWaiterEnters
