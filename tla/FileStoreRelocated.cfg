\* Nothing fails, but a thread switches the layout while another one writes.
CONSTANTS
    t1 = t1
    t2 = t2
    t3 = t3
    p1 = p1
    p2 = p2
    a = a
    b = b
    v = v
    surrogate = surrogate
    None = None
    Absent = Absent
    Malformed = Malformed
    Threads <- MCThreads
    Procs <- MCProcs
    ProcOf <- MCProcOf
    Paths = {x, y}
    Observed = x
    Locks = {l1, l2, l3, l4}
    OsLockPrimitive = TRUE
    LockFaults <- NoFaults
    IoFaults <- RelocateFault
    Names <- MCNames
    Values <- MCValues
    Encodable <- MCEncodable
    RequestsOf <- MCRequestsOf
    InitFiles <- MCInitFiles
SPECIFICATION StoreSpec
PROPERTY
    NoSilentLostUpdate
