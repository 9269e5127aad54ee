\* The OS lock may be unavailable to some of the writers, who move between
\* two stores from call to call.  With two cells for locks, a process may have
\* to wait until the unused lock of the other store is collected.
CONSTANTS
    t1 = t1
    t2 = t2
    t3 = t3
    p1 = p1
    p2 = p2
    a = a
    b = b
    v = v
    surrogate = surrogate
    None = None
    Absent = Absent
    Malformed = Malformed
    Threads <- OneEach
    Procs <- MCProcs
    ProcOf <- OneEachProcOf
    Paths = {x, y}
    Observed = x
    Locks = {l1, l2}
    OsLockPrimitive = TRUE
    LockFaults <- DegradedFaults
    IoFaults <- MovingFaults
    Names <- MCNames
    Values <- MCValues
    Encodable <- MCEncodable
    RequestsOf <- OneEachRequestsOf
    InitFiles <- NoFiles
SPECIFICATION StoreSpec
SYMMETRY PathSymmetry
PROPERTIES
    NoSilentLostUpdate
