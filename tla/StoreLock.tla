----------------------------- MODULE StoreLock -----------------------------
(***************************************************************************)
(* exclusive_store_lock (backends/_store.py) and the OS lock primitive it  *)
(* is built on (_oslock.py).                                               *)
(*                                                                         *)
(* A file store serialises its read-modify-write with two locks: a         *)
(* threading.Lock that the threads of one process find in a weak registry, *)
(* keyed by the path of the store, and a blocking OS lock on a sibling     *)
(* .lock file, shared by the processes.  Where the OS lock cannot be had,  *)
(* the store degrades to the thread lock alone and says so on stderr, once *)
(* per store and process.                                                  *)
(*                                                                         *)
(* A thread of the model runs exclusive_store_lock over and over, each     *)
(* time for a store it chooses.  Its phase is the statement it is at.      *)
(***************************************************************************)
CONSTANTS
    Threads,          \* the threads of every process
    Procs,            \* the processes of one user
    ProcOf,           \* the process a thread belongs to
    Paths,            \* the store files, each with a directory of its own
    Locks,            \* heap cells that hold threading.Lock objects
    OsLockPrimitive,  \* whether the platform has fcntl or msvcrt
    LockFaults,       \* what may go wrong, a subset of LockFaultKinds
    None

LockFaultKinds ==
    { "dir",        \* the store's directory cannot be created or chmod-ed
      "open",       \* the lock file cannot be opened
      "flock",      \* the OS refuses the lock (ENOLCK)
      "print",      \* the notice cannot be printed
      "unlock",     \* releasing the OS lock raises
      "interrupt",  \* KeyboardInterrupt at a statement a handler covers
      "gap",        \* KeyboardInterrupt just outside the outer try
      "kill" }      \* a process dies

ASSUME StoreLockAssumption ==
    /\ ProcOf \in [Threads -> Procs]
    /\ OsLockPrimitive \in BOOLEAN
    /\ LockFaults \subseteq LockFaultKinds
    /\ None \notin Threads \cup Locks \cup Paths

VARIABLES
    phase,       \* the statement of exclusive_store_lock a thread is at
    path,        \* the store a thread has asked for
    threadLock,  \* its strong reference to that store's threading.Lock
    owner,       \* the thread that acquired a threading.Lock last
    registry,    \* _thread_lock_by_store_path of each process
    locked,      \* the local variable of that name
    flock,       \* the thread whose open file holds a store's OS lock
    warned,      \* _warned_no_oslock of each process
    announced,   \* stores whose degradation a user of theirs was told of,
                 \* or would have been, had they let the notice finish
    dir          \* what a store's directory is

lockVars == <<phase, path, threadLock, owner, registry, locked, flock,
              warned, announced, dir>>

Phases == {"out", "wait", "open", "flock", "warn", "print", "body",
           "unlock", "release"}

\* The phases between thread_lock.acquire() and thread_lock.release().
Holding == {"open", "flock", "warn", "print", "body", "unlock", "release"}

DirStates == {"absent", "loose", "private"}

ThreadsOf(p) == {t \in Threads : ProcOf[t] = p}

InBody(t) == phase[t] = "body"

(***************************************************************************)
(* State at process start: nothing locked, nothing registered; a store's   *)
(* directory may be missing, or there with any mode.                       *)
(***************************************************************************)
LockInit ==
    /\ phase = [t \in Threads |-> "out"]
    /\ path = [t \in Threads |-> None]
    /\ threadLock = [t \in Threads |-> None]
    /\ owner = [l \in Locks |-> None]
    /\ registry = [p \in Procs |-> [x \in Paths |-> None]]
    /\ locked = [t \in Threads |-> FALSE]
    /\ flock = [x \in Paths |-> None]
    /\ warned = [p \in Procs |-> {}]
    /\ announced = {}
    /\ dir \in [Paths -> DirStates]

\* Cells no thread and no registry refers to: Python may reuse them.
FreshLocks ==
    {l \in Locks : /\ \A t \in Threads : threadLock[t] # l
                   /\ \A p \in Procs, x \in Paths : registry[p][x] # l}

\* _thread_lock_for: the registered lock of the store, or a new one.
Enter(t, x) ==
    /\ phase[t] = "out"
    /\ phase' = [phase EXCEPT ![t] = "wait"]
    /\ path' = [path EXCEPT ![t] = x]
    /\ \/ /\ registry[ProcOf[t]][x] # None
          /\ threadLock' = [threadLock EXCEPT ![t] = registry[ProcOf[t]][x]]
          /\ UNCHANGED <<registry, owner>>
       \/ /\ registry[ProcOf[t]][x] = None
          /\ \E l \in FreshLocks :
                /\ threadLock' = [threadLock EXCEPT ![t] = l]
                /\ registry' = [registry EXCEPT ![ProcOf[t]][x] = l]
                /\ owner' = [owner EXCEPT ![l] = None]
    /\ UNCHANGED <<locked, flock, warned, announced, dir>>

\* thread_lock.acquire() returns.
AcquireThreadLock(t) ==
    /\ phase[t] = "wait"
    /\ owner[threadLock[t]] = None
    /\ owner' = [owner EXCEPT ![threadLock[t]] = t]
    /\ phase' = [phase EXCEPT ![t] = "open"]
    /\ UNCHANGED <<path, threadLock, registry, locked, flock, warned,
                   announced, dir>>

\* What restrict_dir_to_owner can make of a directory: private, or, when an
\* OSError stops it, what it was (a mkdir that succeeded made it private).
Restricted(d) == {"private"} \cup (IF "dir" \in LockFaults THEN {d} ELSE {})

\* restrict_dir_to_owner and the open of the lock file.
OpenLockFile(t) ==
    /\ phase[t] = "open"
    /\ \E d \in Restricted(dir[path[t]]) :
          /\ dir' = [dir EXCEPT ![path[t]] = d]
          /\ \/ /\ d # "absent"
                /\ phase' = [phase EXCEPT ![t] = "flock"]
             \/ /\ d = "absent" \/ "open" \in LockFaults
                /\ phase' = [phase EXCEPT ![t] = "warn"]
    /\ UNCHANGED <<path, threadLock, owner, registry, locked, flock, warned,
                   announced>>

\* Seeded fault: a shared lock in place of LOCK_EX.
TakeSharedLock(t) ==
    /\ phase[t] = "flock"
    /\ flock' = [flock EXCEPT ![path[t]] = t]
    /\ locked' = [locked EXCEPT ![t] = TRUE]
    /\ phase' = [phase EXCEPT ![t] = "body"]
    /\ UNCHANGED <<path, threadLock, owner, registry, warned, announced, dir>>

\* lock_exclusive(handle, blocking=True) returns True: the OS granted the
\* lock, or there is no primitive and nothing is locked.
TakeOsLock(t) ==
    /\ phase[t] = "flock"
    /\ IF OsLockPrimitive
         THEN /\ flock[path[t]] = None
              /\ flock' = [flock EXCEPT ![path[t]] = t]
         ELSE UNCHANGED flock
    /\ locked' = [locked EXCEPT ![t] = TRUE]
    /\ phase' = [phase EXCEPT ![t] = "body"]
    /\ UNCHANGED <<path, threadLock, owner, registry, warned, announced, dir>>

\* Seeded fault: the result of lock_exclusive is not looked at.
IgnoreRefusal(t) ==
    /\ phase[t] = "flock"
    /\ "flock" \in LockFaults
    /\ phase' = [phase EXCEPT ![t] = "body"]
    /\ UNCHANGED <<path, threadLock, owner, registry, locked, flock, warned,
                   announced, dir>>

\* lock_exclusive returns False: flock reported an error.
RefuseOsLock(t) ==
    /\ phase[t] = "flock"
    /\ OsLockPrimitive
    /\ "flock" \in LockFaults
    /\ phase' = [phase EXCEPT ![t] = "warn"]
    /\ UNCHANGED <<path, threadLock, owner, registry, locked, flock, warned,
                   announced, dir>>

\* Seeded fault: the notices are kept per process.
ProcessKey(t) == ProcOf[t]

\* key = str(path).
StoreKey(t) == path[t]

\* Seeded fault: the first degraded write records its notice and skips it.
RecordWithoutPrint(t) ==
    /\ phase[t] = "warn"
    /\ phase' = [phase EXCEPT ![t] = "body"]
    /\ warned' = [warned EXCEPT ![ProcOf[t]] = @ \cup {StoreKey(t)}]
    /\ UNCHANGED <<path, threadLock, owner, registry, locked, flock,
                   announced, dir>>

\* _warn_no_oslock_once up to the end of its critical section.
RecordWarning(t) ==
    /\ phase[t] = "warn"
    /\ IF StoreKey(t) \in warned[ProcOf[t]]
         THEN /\ phase' = [phase EXCEPT ![t] = "body"]
              /\ UNCHANGED warned
         ELSE /\ phase' = [phase EXCEPT ![t] = "print"]
              /\ warned' = [warned EXCEPT ![ProcOf[t]] = @ \cup {StoreKey(t)}]
    /\ UNCHANGED <<path, threadLock, owner, registry, locked, flock,
                   announced, dir>>

\* ... and its print, outside of it.
PrintWarning(t) ==
    /\ phase[t] = "print"
    /\ announced' = announced \cup {path[t]}
    /\ phase' = [phase EXCEPT ![t] = "body"]
    /\ UNCHANGED <<path, threadLock, owner, registry, locked, flock, warned,
                   dir>>

\* The print raises, on a stderr that is closed or full: the exception tells
\* the caller instead, and the body does not run.
PrintFails(t) ==
    /\ phase[t] = "print"
    /\ "print" \in LockFaults
    /\ announced' = announced \cup {path[t]}
    /\ phase' = [phase EXCEPT ![t] = "unlock"]
    /\ UNCHANGED <<path, threadLock, owner, registry, locked, flock, warned,
                   dir>>

\* The body makes a directory that restrict_dir_to_owner could not make
\* (write_bytes_atomic's mkdir): its mode is what the umask leaves.
CreateDir(t, x) ==
    /\ phase[t] = "body"
    /\ dir[x] = "absent"
    /\ \E d \in {"loose", "private"} : dir' = [dir EXCEPT ![x] = d]
    /\ UNCHANGED <<phase, path, threadLock, owner, registry, locked, flock,
                   warned, announced>>

\* The body of the with statement ends, by returning or by raising.
LeaveBody(t) ==
    /\ phase[t] = "body"
    /\ phase' = [phase EXCEPT ![t] = "unlock"]
    /\ UNCHANGED <<path, threadLock, owner, registry, locked, flock, warned,
                   announced, dir>>

\* Seeded fault: an unlock that raises skips the close.
UnlockWithoutClose(t) ==
    /\ phase[t] = "unlock"
    /\ \/ flock' = [x \in Paths |-> IF flock[x] = t THEN None ELSE flock[x]]
       \/ "unlock" \in LockFaults /\ UNCHANGED flock
    /\ locked' = [locked EXCEPT ![t] = FALSE]
    /\ phase' = [phase EXCEPT ![t] = "release"]
    /\ UNCHANGED <<path, threadLock, owner, registry, warned, announced, dir>>

\* The inner finally: unlock, when locked, then close.  Closing the file
\* frees the OS lock even where unlock raises.
Unlock(t) ==
    /\ phase[t] = "unlock"
    /\ flock' = [x \in Paths |-> IF flock[x] = t THEN None ELSE flock[x]]
    /\ locked' = [locked EXCEPT ![t] = FALSE]
    /\ phase' = [phase EXCEPT ![t] = "release"]
    /\ UNCHANGED <<path, threadLock, owner, registry, warned, announced, dir>>

\* The frame of exclusive_store_lock is gone, and its references with it.
Return(t) ==
    /\ phase' = [phase EXCEPT ![t] = "out"]
    /\ path' = [path EXCEPT ![t] = None]
    /\ threadLock' = [threadLock EXCEPT ![t] = None]

\* The outer finally: thread_lock.release().
ReleaseThreadLock(t) ==
    /\ phase[t] = "release"
    /\ owner' = [owner EXCEPT ![threadLock[t]] = None]
    /\ Return(t)
    /\ UNCHANGED <<registry, locked, flock, warned, announced, dir>>

\* Seeded fault: acquire() inside the try, so that the finally releases a
\* lock that another thread holds.
InterruptWaitReleasing(t) ==
    /\ "interrupt" \in LockFaults
    /\ phase[t] = "wait"
    /\ owner' = [owner EXCEPT ![threadLock[t]] = None]
    /\ Return(t)
    /\ UNCHANGED <<registry, locked, flock, warned, announced, dir>>

\* KeyboardInterrupt while waiting for the thread lock: acquire() raises.
InterruptWait(t) ==
    /\ "interrupt" \in LockFaults
    /\ phase[t] = "wait"
    /\ Return(t)
    /\ UNCHANGED <<owner, registry, locked, flock, warned, announced, dir>>

\* KeyboardInterrupt under one of the two try statements: its finally runs.
InterruptHolder(t) ==
    /\ "interrupt" \in LockFaults
    /\ \/ /\ phase[t] = "open"
          /\ phase' = [phase EXCEPT ![t] = "release"]
       \/ /\ phase[t] \in {"flock", "warn", "body"}
          /\ phase' = [phase EXCEPT ![t] = "unlock"]
    /\ UNCHANGED <<path, threadLock, owner, registry, locked, flock, warned,
                   announced, dir>>

\* KeyboardInterrupt in the print of the notice: the user cut it short, and the
\* process never repeats it.  The properties take it for told.
InterruptNotice(t) ==
    /\ "interrupt" \in LockFaults
    /\ phase[t] = "print"
    /\ announced' = announced \cup {path[t]}
    /\ phase' = [phase EXCEPT ![t] = "unlock"]
    /\ UNCHANGED <<path, threadLock, owner, registry, locked, flock, warned,
                   dir>>

\* KeyboardInterrupt after acquire() and before the try, or in the outer
\* finally before release(): the thread lock is never released.
InterruptGap(t) ==
    /\ "gap" \in LockFaults
    /\ phase[t] \in {"open", "release"}
    /\ Return(t)
    /\ UNCHANGED <<owner, registry, locked, flock, warned, announced, dir>>

\* Seeded fault: no strong reference for the duration of the critical section.
CollectInUse(p, x) ==
    /\ registry[p][x] # None
    /\ registry' = [registry EXCEPT ![p][x] = None]
    /\ UNCHANGED <<phase, path, threadLock, owner, locked, flock, warned,
                   announced, dir>>

\* The weak registry drops a lock no thread of the process refers to.
Collect(p, x) ==
    /\ registry[p][x] # None
    /\ \A t \in Threads : threadLock[t] # registry[p][x]
    /\ registry' = [registry EXCEPT ![p][x] = None]
    /\ UNCHANGED <<phase, path, threadLock, owner, locked, flock, warned,
                   announced, dir>>

\* Seeded fault: a lock that the death of its holder does not free.
KillKeepingLock(p) ==
    /\ "kill" \in LockFaults
    /\ phase' = [t \in Threads |-> IF ProcOf[t] = p THEN "out" ELSE phase[t]]
    /\ path' = [t \in Threads |-> IF ProcOf[t] = p THEN None ELSE path[t]]
    /\ threadLock' =
          [t \in Threads |-> IF ProcOf[t] = p THEN None ELSE threadLock[t]]
    /\ locked' = [t \in Threads |-> IF ProcOf[t] = p THEN FALSE ELSE locked[t]]
    /\ registry' = [registry EXCEPT ![p] = [x \in Paths |-> None]]
    /\ warned' = [warned EXCEPT ![p] = {}]
    /\ UNCHANGED <<owner, flock, announced, dir>>

\* A process dies at any statement and is started again: the OS frees its
\* locks, its memory is new.  What it printed stays printed.
Kill(p) ==
    /\ "kill" \in LockFaults
    /\ phase' = [t \in Threads |-> IF ProcOf[t] = p THEN "out" ELSE phase[t]]
    /\ path' = [t \in Threads |-> IF ProcOf[t] = p THEN None ELSE path[t]]
    /\ threadLock' =
          [t \in Threads |-> IF ProcOf[t] = p THEN None ELSE threadLock[t]]
    /\ locked' = [t \in Threads |-> IF ProcOf[t] = p THEN FALSE ELSE locked[t]]
    /\ flock' = [x \in Paths |->
                    IF flock[x] \in ThreadsOf(p) THEN None ELSE flock[x]]
    /\ registry' = [registry EXCEPT ![p] = [x \in Paths |-> None]]
    /\ warned' = [warned EXCEPT ![p] = {}]
    /\ UNCHANGED <<owner, announced, dir>>

\* The steps a thread inside exclusive_store_lock takes of its own accord.
Progress(t) ==
    \/ AcquireThreadLock(t) \/ OpenLockFile(t) \/ TakeOsLock(t)
    \/ RecordWarning(t) \/ PrintWarning(t)
    \/ LeaveBody(t) \/ Unlock(t) \/ ReleaseThreadLock(t)

LockNext ==
    \/ \E t \in Threads :
          \/ \E x \in Paths : Enter(t, x) \/ CreateDir(t, x)
          \/ Progress(t)
          \/ RefuseOsLock(t) \/ PrintFails(t)
          \/ InterruptWait(t) \/ InterruptHolder(t)
          \/ InterruptNotice(t) \/ InterruptGap(t)
    \/ \E p \in Procs : Kill(p) \/ \E x \in Paths : Collect(p, x)

LockSpec == LockInit /\ [][LockNext]_lockVars

\* The scheduler runs every thread that can run.  Neither threading.Lock nor
\* flock is a queue, so nothing stronger is assumed; and nothing makes the OS
\* refuse a lock that is held, so that no waiter counts on a refusal.
FairLockSpec == LockSpec /\ \A t \in Threads : WF_lockVars(Progress(t))

-----------------------------------------------------------------------------
LockTypeOK ==
    /\ phase \in [Threads -> Phases]
    /\ path \in [Threads -> Paths \cup {None}]
    /\ threadLock \in [Threads -> Locks \cup {None}]
    /\ owner \in [Locks -> Threads \cup {None}]
    /\ registry \in [Procs -> [Paths -> Locks \cup {None}]]
    /\ locked \in [Threads -> BOOLEAN]
    /\ flock \in [Paths -> Threads \cup {None}]
    /\ warned \in [Procs -> SUBSET Paths]
    /\ announced \in SUBSET Paths
    /\ dir \in [Paths -> DirStates]

\* Two threads of one process are never in the body for the same store, not
\* even where the OS lock is missing or was refused (_store.py, "the
\* in-process guarantee still holds").
SameProcessExclusion ==
    \A t, u \in Threads :
        t # u /\ ProcOf[t] = ProcOf[u] /\ InBody(t) /\ InBody(u)
            => path[t] # path[u]

\* Any two threads in the body for the same store were warned about: the
\* store's degradation was told before the second one got there (_store.py,
\* "announced once per store on stderr rather than passing silently").
StoreExclusion ==
    \A t, u \in Threads :
        t # u /\ InBody(t) /\ InBody(u) /\ path[t] = path[u]
            => path[t] \in announced

\* The weak registry never loses a lock that a thread waits for or holds: a
\* second lock for the same store would admit a second writer.
RegistryKeepsUsedLocks ==
    \A t \in Threads : phase[t] # "out" =>
        /\ threadLock[t] # None
        /\ registry[ProcOf[t]][path[t]] = threadLock[t]

\* The OS lock of a store is held only by a thread still inside the with
\* statement for that store: no exit, error or death leaves it behind.
NoStaleOsLock ==
    \A x \in Paths : flock[x] # None =>
        path[flock[x]] = x /\ phase[flock[x]] \in {"body", "unlock"}

\* A process dies or a KeyboardInterrupt arrives.
Disturbance ==
    \/ \E p \in Procs : Kill(p)
    \/ \E t \in Threads :
          \/ InterruptWait(t) \/ InterruptHolder(t)
          \/ InterruptNotice(t) \/ InterruptGap(t)

\* A thread is on its way to the body for this store.
Wanted(x) ==
    \E t \in Threads :
        path[t] = x /\ phase[t] \in {"wait", "open", "flock", "warn", "print"}

Entered(x) == \E t \in Threads : path[t] = x /\ InBody(t)

\* A KeyboardInterrupt in the gap left the lock of a waiting thread locked.
Leaked(x) ==
    \E t \in Threads :
        /\ path[t] = x /\ phase[t] = "wait"
        /\ \E u \in Threads :
              /\ owner[threadLock[t]] = u
              /\ phase[u] \notin Holding \/ threadLock[u] # threadLock[t]

\* While threads want a store, some thread gets to its body: neither the
\* two-level lock, nor a degradation on the way, nor what a process that
\* died left behind blocks the writers, unless they are killed or interrupted
\* over and over, or an interrupt fell into the gap.
SomeWaiterEnters ==
    \/ []<><<Disturbance>>_lockVars
    \/ \A x \in Paths : Wanted(x) ~> Entered(x) \/ ~Wanted(x) \/ Leaked(x)
=============================================================================
