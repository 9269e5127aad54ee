---------------------------- MODULE MCFileStore ----------------------------
(***************************************************************************)
(* Two threads of one process and a third of another one, each with calls  *)
(* of its own: the first and the third write different names, the second   *)
(* removes a name of the first.  One value cannot be encoded.              *)
(***************************************************************************)
EXTENDS FileStore, TLC

CONSTANTS t1, t2, t3, p1, p2, a, b, v, surrogate

MCThreads == {t1, t2, t3}
MCProcs == {p1, p2}
MCProcOf == (t1 :> p1) @@ (t2 :> p1) @@ (t3 :> p2)

MCNames == {a, b}
MCValues == {v, surrogate}
MCEncodable == {v}

SetCall(n, w) == [name |-> n, value |-> w]
UnsetCall(n) == [name |-> n, value |-> None]

MCRequestsOf ==
    (t1 :> {SetCall(a, v)}) @@ (t2 :> {UnsetCall(a)})
        @@ (t3 :> {SetCall(b, v), SetCall(b, surrogate)})

\* No file, a file no writer can save again before b is unset, a file that
\* does not parse.
MCInitFiles == {Absent, (a :> None) @@ (b :> surrogate), Malformed}

NoFiles == {Absent}

\* Files that every thread can write again.
WellFormedFiles == {Absent, (a :> None) @@ (b :> v)}

\* One thread in each process, for the run with two stores.
OneEach == {t1, t3}
OneEachProcOf == (t1 :> p1) @@ (t3 :> p2)
OneEachRequestsOf == (t1 :> {SetCall(a, v)}) @@ (t3 :> {SetCall(b, v)})

\* Calls that always have something to write.
SetsOnly == [t \in MCThreads |-> {SetCall(a, v)}]

\* What can degrade the lock, and what can stop a degraded writer.
DegradedFaults == {"dir", "open", "flock", "print", "interrupt"}

\* What can go wrong while the lock works.
WorkingFaults == {"print", "unlock", "interrupt", "gap", "kill"}

UnlockFault == {"unlock"}

DirFault == {"dir"}

AllIoFaults == IoFaultKinds \ {"configure", "relocate"}

MovingFaults == {"configure"}

RelocateFault == {"relocate"}

NoFaults == {}

LockSymmetry == Permutations(Locks)

\* For a run whose properties say nothing of the observed store.
PathSymmetry == LockSymmetry \cup Permutations(Paths)
=============================================================================
