-------------------------- MODULE StoreLockProofs --------------------------
(***************************************************************************)
(* Proofs about StoreLock, for any number of processes, threads, stores    *)
(* and lock objects.                                                       *)
(*                                                                         *)
(* None of the safety properties is inductive by itself.  The invariant    *)
(* that is, LockInv, adds what each of the two locks means: a thread past  *)
(* acquire() owns the lock object that the registry shows for its store    *)
(* (RefInv, OwnInv), and a thread that believes it has the OS lock has it  *)
(* (OsInv).  The announcement needs what the warned set stands for         *)
(* (NoticeInv): a recorded store is printed, or its recorder is about to.  *)
(***************************************************************************)
EXTENDS StoreLock, TLAPS

RefInv ==
    \A t \in Threads :
        /\ phase[t] = "out" => threadLock[t] = None
        /\ phase[t] # "out" =>
              /\ path[t] \in Paths
              /\ threadLock[t] \in Locks
              /\ registry[ProcOf[t]][path[t]] = threadLock[t]

OwnInv ==
    \A t \in Threads : phase[t] \in Holding => owner[threadLock[t]] = t

OsInv ==
    /\ NoStaleOsLock
    /\ \A t \in Threads : locked[t] =>
          /\ phase[t] \in {"body", "unlock"}
          /\ OsLockPrimitive => flock[path[t]] = t

NoticeInv ==
    /\ \A t \in Threads : InBody(t) /\ ~locked[t] => path[t] \in announced
    /\ \A p \in Procs : \A x \in warned[p] :
          \/ x \in announced
          \/ \E t \in Threads :
                ProcOf[t] = p /\ path[t] = x /\ phase[t] = "print"

LockInv == LockTypeOK /\ RefInv /\ OwnInv /\ OsInv

-----------------------------------------------------------------------------
(* One case per action: every proof about a step starts from this split.   *)
LEMMA StepCases ==
    ASSUME LockNext
    PROVE  \/ \E t \in Threads, x \in Paths : Enter(t, x)
           \/ \E t \in Threads, x \in Paths : CreateDir(t, x)
           \/ \E t \in Threads : AcquireThreadLock(t)
           \/ \E t \in Threads : OpenLockFile(t)
           \/ \E t \in Threads : TakeOsLock(t)
           \/ \E t \in Threads : RefuseOsLock(t)
           \/ \E t \in Threads : RecordWarning(t)
           \/ \E t \in Threads : PrintWarning(t)
           \/ \E t \in Threads : LeaveBody(t)
           \/ \E t \in Threads : Unlock(t)
           \/ \E t \in Threads : ReleaseThreadLock(t)
           \/ \E t \in Threads : PrintFails(t)
           \/ \E t \in Threads : InterruptWait(t)
           \/ \E t \in Threads : InterruptHolder(t)
           \/ \E t \in Threads : InterruptNotice(t)
           \/ \E t \in Threads : InterruptGap(t)
           \/ \E p \in Procs : Kill(p)
           \/ \E p \in Procs, x \in Paths : Collect(p, x)
  BY DEF LockNext, Progress

(* A step keeps every variable of the lock in its type. *)
LEMMA TypeStep ==
    ASSUME LockTypeOK, RefInv, LockNext
    PROVE  LockTypeOK'
<1> USE StoreLockAssumption DEF LockTypeOK, Phases
<1>1. ASSUME NEW t \in Threads, NEW x \in Paths, Enter(t, x)
      PROVE  LockTypeOK'
  <2>1. /\ ProcOf[t] \in Procs
        /\ registry[ProcOf[t]] \in [Paths -> Locks \cup {None}]
    OBVIOUS
  <2>2. CASE registry[ProcOf[t]][x] # None
    BY <1>1, <2>1, <2>2 DEF Enter
  <2>3. CASE registry[ProcOf[t]][x] = None
    <3>1. PICK l \in Locks :
             /\ threadLock' = [threadLock EXCEPT ![t] = l]
             /\ registry' = [registry EXCEPT ![ProcOf[t]][x] = l]
             /\ owner' = [owner EXCEPT ![l] = None]
      BY <1>1, <2>3 DEF Enter, FreshLocks
    <3>2. registry' \in [Procs -> [Paths -> Locks \cup {None}]]
      BY <2>1, <3>1
    <3> QED
      BY <1>1, <3>1, <3>2 DEF Enter
  <2> QED
    BY <2>2, <2>3
<1>2. ASSUME NEW t \in Threads, AcquireThreadLock(t)
      PROVE  LockTypeOK'
  BY <1>2 DEF AcquireThreadLock
<1>3. ASSUME NEW t \in Threads, OpenLockFile(t)
      PROVE  LockTypeOK'
  <2>1. path[t] \in Paths
    BY <1>3 DEF OpenLockFile, RefInv
  <2>2. dir[path[t]] \in DirStates
    BY <2>1
  <2>3. Restricted(dir[path[t]]) \subseteq DirStates
    BY <2>2 DEF Restricted, DirStates
  <2>4. PICK d \in DirStates : dir' = [dir EXCEPT ![path[t]] = d]
    BY <1>3, <2>3 DEF OpenLockFile
  <2>5. \E s \in Phases : phase' = [phase EXCEPT ![t] = s]
    BY <1>3 DEF OpenLockFile
  <2>6. UNCHANGED <<path, threadLock, owner, registry, locked, flock, warned,
                    announced>>
    BY <1>3 DEF OpenLockFile
  <2>7. dir' \in [Paths -> DirStates]
    BY <2>4
  <2>8. phase' \in [Threads -> Phases]
    BY <2>5
  <2> QED
    BY <2>6, <2>7, <2>8
<1>4. ASSUME NEW t \in Threads, TakeOsLock(t)
      PROVE  LockTypeOK'
  <2>1. path[t] \in Paths
    BY <1>4 DEF TakeOsLock, RefInv
  <2>2. flock' = flock \/ flock' = [flock EXCEPT ![path[t]] = t]
    BY <1>4 DEF TakeOsLock
  <2>3. flock' \in [Paths -> Threads \cup {None}]
    BY <2>1, <2>2
  <2> QED
    BY <1>4, <2>3 DEF TakeOsLock
<1>5. ASSUME NEW t \in Threads, RefuseOsLock(t)
      PROVE  LockTypeOK'
  BY <1>5 DEF RefuseOsLock
<1>6. ASSUME NEW t \in Threads, RecordWarning(t)
      PROVE  LockTypeOK'
  <2>1. path[t] \in Paths
    BY <1>6 DEF RecordWarning, StoreKey, RefInv
  <2>2. warned' \in [Procs -> SUBSET Paths]
    <3>1. warned[ProcOf[t]] \cup {path[t]} \in SUBSET Paths
      BY <2>1
    <3> QED
      BY <1>6, <3>1 DEF RecordWarning, StoreKey
  <2> QED
    BY <1>6, <2>2 DEF RecordWarning, StoreKey
<1>7. ASSUME NEW t \in Threads, PrintWarning(t)
      PROVE  LockTypeOK'
  BY <1>7 DEF PrintWarning, RefInv
<1>8. ASSUME NEW t \in Threads, LeaveBody(t)
      PROVE  LockTypeOK'
  BY <1>8 DEF LeaveBody
<1>9. ASSUME NEW t \in Threads, Unlock(t)
      PROVE  LockTypeOK'
  BY <1>9 DEF Unlock
<1>10. ASSUME NEW t \in Threads, ReleaseThreadLock(t)
       PROVE  LockTypeOK'
  BY <1>10 DEF ReleaseThreadLock, Return
<1>11. ASSUME NEW t \in Threads, PrintFails(t) \/ InterruptNotice(t)
       PROVE  LockTypeOK'
  <2>1. path[t] \in Paths
    BY <1>11 DEF PrintFails, InterruptNotice, RefInv
  <2>2. phase' = [phase EXCEPT ![t] = "unlock"]
    BY <1>11 DEF PrintFails, InterruptNotice
  <2>3. announced' = announced \cup {path[t]}
    BY <1>11 DEF PrintFails, InterruptNotice
  <2>4. UNCHANGED <<path, threadLock, owner, registry, locked, flock, warned,
                    dir>>
    BY <1>11 DEF PrintFails, InterruptNotice
  <2> QED
    BY <2>1, <2>2, <2>3, <2>4
<1>12. ASSUME NEW t \in Threads, InterruptWait(t)
       PROVE  LockTypeOK'
  BY <1>12 DEF InterruptWait, Return
<1>13. ASSUME NEW t \in Threads, InterruptHolder(t)
       PROVE  LockTypeOK'
  BY <1>13 DEF InterruptHolder
<1>14. ASSUME NEW t \in Threads, InterruptGap(t)
       PROVE  LockTypeOK'
  BY <1>14 DEF InterruptGap, Return
<1>15. ASSUME NEW p \in Procs, Kill(p)
       PROVE  LockTypeOK'
  BY <1>15 DEF Kill
<1>16. ASSUME NEW p \in Procs, NEW x \in Paths, Collect(p, x)
       PROVE  LockTypeOK'
  BY <1>16 DEF Collect
<1>17. ASSUME NEW t \in Threads, NEW x \in Paths, CreateDir(t, x)
      PROVE  LockTypeOK'
  BY <1>17 DEF CreateDir, DirStates
<1> QED
  BY <1>17, <1>1, <1>2, <1>3, <1>4, <1>5, <1>6, <1>7, <1>8, <1>9, <1>10, <1>11,
     <1>12, <1>13, <1>14, <1>15, <1>16, StepCases

-----------------------------------------------------------------------------
(* References: a thread inside the with statement and the registry of its  *)
(* process agree on the lock object of the store.  Collect is the action   *)
(* that could break it, and is why the strong reference exists.            *)
LEMMA RefStep ==
    ASSUME LockTypeOK, RefInv, LockNext
    PROVE  RefInv'
<1> USE StoreLockAssumption DEF LockTypeOK, RefInv
<1>1. ASSUME NEW t \in Threads, NEW x \in Paths, Enter(t, x)
      PROVE  RefInv'
  <2>1. CASE registry[ProcOf[t]][x] # None
    <3>1. registry[ProcOf[t]][x] \in Locks
      BY <2>1
    <3> QED
      BY <1>1, <2>1, <3>1 DEF Enter
  <2>2. CASE registry[ProcOf[t]][x] = None
    <3>1. PICK l \in Locks :
             /\ threadLock' = [threadLock EXCEPT ![t] = l]
             /\ registry' = [registry EXCEPT ![ProcOf[t]][x] = l]
      BY <1>1, <2>2 DEF Enter, FreshLocks
    <3>2. \A q \in Procs, y \in Paths :
             registry'[q][y] = IF q = ProcOf[t] /\ y = x
                                 THEN l ELSE registry[q][y]
      BY <3>1
    <3>3. /\ phase' = [phase EXCEPT ![t] = "wait"]
          /\ path' = [path EXCEPT ![t] = x]
      BY <1>1 DEF Enter
    <3>4. \A u \in Threads \ {t} : phase[u] # "out" =>
             ~(ProcOf[u] = ProcOf[t] /\ path[u] = x)
      BY <2>2
    <3> QED
      BY <3>1, <3>2, <3>3, <3>4
  <2> QED
    BY <2>1, <2>2
<1>2. ASSUME NEW t \in Threads,
             \/ AcquireThreadLock(t) \/ OpenLockFile(t) \/ TakeOsLock(t)
             \/ RefuseOsLock(t) \/ RecordWarning(t) \/ PrintWarning(t)
             \/ LeaveBody(t) \/ Unlock(t) \/ PrintFails(t)
             \/ InterruptHolder(t) \/ InterruptNotice(t)
      PROVE  RefInv'
  <2>1. /\ UNCHANGED <<path, threadLock, registry>>
        /\ phase[t] # "out"
        /\ \E s \in Holding : phase' = [phase EXCEPT ![t] = s]
    BY <1>2 DEF AcquireThreadLock, OpenLockFile, TakeOsLock, RefuseOsLock,
                RecordWarning, PrintWarning, LeaveBody, Unlock, PrintFails,
                InterruptHolder, InterruptNotice, Holding
  <2> QED
    BY <2>1 DEF Holding
<1>3. ASSUME NEW t \in Threads,
             ReleaseThreadLock(t) \/ InterruptWait(t) \/ InterruptGap(t)
      PROVE  RefInv'
  <2>1. Return(t) /\ registry' = registry
    BY <1>3 DEF ReleaseThreadLock, InterruptWait, InterruptGap
  <2>2. \A u \in Threads \ {t} : /\ phase'[u] = phase[u]
                                /\ path'[u] = path[u]
                                /\ threadLock'[u] = threadLock[u]
    BY <2>1 DEF Return
  <2>3. phase'[t] = "out" /\ threadLock'[t] = None
    BY <2>1 DEF Return
  <2> QED
    BY <2>1, <2>2, <2>3
<1>4. ASSUME NEW p \in Procs, Kill(p)
      PROVE  RefInv'
  BY <1>4 DEF Kill
<1>5. ASSUME NEW p \in Procs, NEW x \in Paths, Collect(p, x)
      PROVE  RefInv'
  <2>1. \A q \in Procs, y \in Paths :
           registry'[q][y] = IF q = p /\ y = x THEN None ELSE registry[q][y]
    BY <1>5 DEF Collect
  <2>2. \A t \in Threads : phase[t] # "out" => threadLock[t] # registry[p][x]
    BY <1>5 DEF Collect
  <2> QED
    BY <1>5, <2>1, <2>2 DEF Collect
<1>6. ASSUME NEW t \in Threads, NEW x \in Paths, CreateDir(t, x)
      PROVE  RefInv'
  BY <1>6 DEF CreateDir
<1> QED
  BY <1>6, <1>1, <1>2, <1>3, <1>4, <1>5, StepCases

(* Ownership: whoever is past acquire() owns the lock object it refers to, *)
(* even where a KeyboardInterrupt has left other objects locked for good.  *)
LEMMA OwnStep ==
    ASSUME LockTypeOK, RefInv, OwnInv, LockNext
    PROVE  OwnInv'
<1> USE StoreLockAssumption DEF LockTypeOK, OwnInv
<1>1. ASSUME NEW t \in Threads, NEW x \in Paths, Enter(t, x)
      PROVE  OwnInv'
  <2>1. \A u \in Threads :
           phase'[u] \in Holding => u # t /\ phase[u] \in Holding
    BY <1>1 DEF Enter, Holding
  <2>2. \A u \in Threads \ {t} : threadLock'[u] = threadLock[u]
    BY <1>1 DEF Enter
  <2>3. \A u \in Threads \ {t} :
           threadLock[u] \in Locks =>
               owner'[threadLock[u]] = owner[threadLock[u]]
    BY <1>1 DEF Enter, FreshLocks
  <2>4. \A u \in Threads : phase[u] \in Holding => threadLock[u] \in Locks
    BY DEF RefInv, Holding
  <2> QED
    BY <2>1, <2>2, <2>3, <2>4
<1>2. ASSUME NEW t \in Threads, AcquireThreadLock(t)
      PROVE  OwnInv'
  BY <1>2 DEF AcquireThreadLock, RefInv, Holding
<1>3. ASSUME NEW t \in Threads,
             \/ OpenLockFile(t) \/ TakeOsLock(t) \/ RefuseOsLock(t)
             \/ RecordWarning(t) \/ PrintWarning(t) \/ LeaveBody(t)
             \/ Unlock(t) \/ PrintFails(t) \/ InterruptHolder(t)
             \/ InterruptNotice(t)
      PROVE  OwnInv'
  <2>1. /\ UNCHANGED <<threadLock, owner>>
        /\ phase[t] \in Holding
        /\ \E s \in Holding : phase' = [phase EXCEPT ![t] = s]
    BY <1>3 DEF OpenLockFile, TakeOsLock, RefuseOsLock, RecordWarning,
                PrintWarning, LeaveBody, Unlock, PrintFails, InterruptHolder,
                InterruptNotice, Holding
  <2> QED
    BY <2>1
<1>4. ASSUME NEW t \in Threads, ReleaseThreadLock(t)
      PROVE  OwnInv'
  BY <1>4 DEF ReleaseThreadLock, Return, RefInv, Holding
<1>5. ASSUME NEW t \in Threads, InterruptWait(t) \/ InterruptGap(t)
      PROVE  OwnInv'
  <2>1. Return(t) /\ owner' = owner
    BY <1>5 DEF InterruptWait, InterruptGap
  <2>2. \A u \in Threads \ {t} :
           phase'[u] = phase[u] /\ threadLock'[u] = threadLock[u]
    BY <2>1 DEF Return
  <2>3. phase'[t] \notin Holding
    BY <2>1 DEF Return, Holding
  <2> QED
    BY <2>1, <2>2, <2>3
<1>6. ASSUME NEW p \in Procs, Kill(p)
      PROVE  OwnInv'
  BY <1>6 DEF Kill, Holding
<1>7. ASSUME NEW p \in Procs, NEW x \in Paths, Collect(p, x)
      PROVE  OwnInv'
  BY <1>7 DEF Collect
<1>8. ASSUME NEW t \in Threads, NEW x \in Paths, CreateDir(t, x)
      PROVE  OwnInv'
  BY <1>8 DEF CreateDir
<1> QED
  BY <1>8, <1>1, <1>2, <1>3, <1>4, <1>5, <1>6, <1>7, StepCases

(* The OS lock: held only from the body on, by the thread that says so.    *)
LEMMA OsStep ==
    ASSUME LockTypeOK, RefInv, OsInv, LockNext
    PROVE  OsInv'
<1> USE StoreLockAssumption DEF LockTypeOK, OsInv, NoStaleOsLock
<1>1. ASSUME NEW t \in Threads, NEW x \in Paths, Enter(t, x)
      PROVE  OsInv'
  BY <1>1 DEF Enter
<1>2. ASSUME NEW t \in Threads,
             \/ AcquireThreadLock(t) \/ OpenLockFile(t) \/ RefuseOsLock(t)
             \/ RecordWarning(t) \/ PrintWarning(t) \/ PrintFails(t)
             \/ InterruptNotice(t)
      PROVE  OsInv'
  <2>1. /\ UNCHANGED <<path, locked, flock>>
        /\ phase[t] \notin {"body", "unlock"}
        /\ \E s \in Phases : phase' = [phase EXCEPT ![t] = s]
    BY <1>2 DEF AcquireThreadLock, OpenLockFile, RefuseOsLock, RecordWarning,
                PrintWarning, PrintFails, InterruptNotice, Phases
  <2> QED
    BY <2>1
<1>3. ASSUME NEW t \in Threads, TakeOsLock(t)
      PROVE  OsInv'
  <2>1. /\ phase[t] = "flock" /\ path[t] \in Paths /\ ~locked[t]
        /\ phase' = [phase EXCEPT ![t] = "body"]
        /\ locked' = [locked EXCEPT ![t] = TRUE]
        /\ path' = path
    BY <1>3 DEF TakeOsLock, RefInv
  <2>2. CASE OsLockPrimitive
    <3>1. flock[path[t]] = None /\ flock' = [flock EXCEPT ![path[t]] = t]
      BY <1>3, <2>2 DEF TakeOsLock
    <3>2. NoStaleOsLock'
      BY <2>1, <3>1
    <3>3. \A u \in Threads : locked'[u] => flock'[path'[u]] = u
      BY <2>1, <2>2, <3>1
    <3> QED
      BY <2>1, <3>2, <3>3
  <2>3. CASE ~OsLockPrimitive
    BY <1>3, <2>1, <2>3 DEF TakeOsLock
  <2> QED
    BY <2>2, <2>3
<1>4. ASSUME NEW t \in Threads, LeaveBody(t) \/ InterruptHolder(t)
      PROVE  OsInv'
  <2>1. /\ UNCHANGED <<path, locked, flock>>
        /\ \E s \in {"unlock", "release"} : phase' = [phase EXCEPT ![t] = s]
        /\ phase[t] \in {"body", "unlock"} =>
              phase' = [phase EXCEPT ![t] = "unlock"]
    BY <1>4 DEF LeaveBody, InterruptHolder
  <2> QED
    BY <2>1
<1>5. ASSUME NEW t \in Threads, Unlock(t)
      PROVE  OsInv'
  <2>1. /\ path' = path /\ phase' = [phase EXCEPT ![t] = "release"]
        /\ locked' = [locked EXCEPT ![t] = FALSE]
        /\ \A x \in Paths :
              flock'[x] = IF flock[x] = t THEN None ELSE flock[x]
    BY <1>5 DEF Unlock
  <2>2. \A u \in Threads \ {t} : locked[u] => path[u] \in Paths
    BY DEF RefInv
  <2> QED
    BY <2>1, <2>2
<1>6. ASSUME NEW t \in Threads,
             ReleaseThreadLock(t) \/ InterruptWait(t) \/ InterruptGap(t)
      PROVE  OsInv'
  <2>1. /\ UNCHANGED <<locked, flock>>
        /\ phase[t] \notin {"body", "unlock"}
        /\ phase' = [phase EXCEPT ![t] = "out"]
        /\ path' = [path EXCEPT ![t] = None]
    BY <1>6 DEF ReleaseThreadLock, InterruptWait, InterruptGap, Return
  <2> QED
    BY <2>1
<1>7. ASSUME NEW p \in Procs, Kill(p)
      PROVE  OsInv'
  <2>1. \A x \in Paths : flock'[x] =
           IF flock[x] \in Threads /\ ProcOf[flock[x]] = p
             THEN None ELSE flock[x]
    BY <1>7 DEF Kill, ThreadsOf
  <2>2. \A u \in Threads :
           /\ locked'[u] => locked[u] /\ ProcOf[u] # p
           /\ ProcOf[u] # p => path'[u] = path[u] /\ phase'[u] = phase[u]
    BY <1>7 DEF Kill
  <2>3. \A u \in Threads : locked[u] => path[u] \in Paths
    BY DEF RefInv
  <2>4. NoStaleOsLock'
    <3>1. SUFFICES ASSUME NEW x \in Paths, flock'[x] # None
                   PROVE  /\ path'[flock'[x]] = x
                          /\ phase'[flock'[x]] \in {"body", "unlock"}
      OBVIOUS
    <3>2. /\ flock[x] \in Threads /\ ProcOf[flock[x]] # p
          /\ flock'[x] = flock[x]
      BY <2>1, <3>1
    <3> QED
      BY <2>2, <3>2
  <2>5. \A u \in Threads : locked'[u] =>
           /\ phase'[u] \in {"body", "unlock"}
           /\ OsLockPrimitive => flock'[path'[u]] = u
    BY <2>1, <2>2, <2>3
  <2> QED
    BY <2>4, <2>5
<1>8. ASSUME NEW p \in Procs, NEW x \in Paths, Collect(p, x)
      PROVE  OsInv'
  BY <1>8 DEF Collect
<1>9. ASSUME NEW t \in Threads, NEW x \in Paths, CreateDir(t, x)
      PROVE  OsInv'
  BY <1>9 DEF CreateDir
<1> QED
  BY <1>9, <1>1, <1>2, <1>3, <1>4, <1>5, <1>6, <1>7, <1>8, StepCases

(* The notice: a thread in the body without the OS lock was preceded by    *)
(* the print.  That a recorded store is printed before anybody else of the *)
(* process looks at the record needs the thread lock (LockInv).            *)
LEMMA NoticeStep ==
    ASSUME LockInv, LockInv', NoticeInv, LockNext
    PROVE  NoticeInv'
<1> USE StoreLockAssumption DEF LockInv, LockTypeOK, NoticeInv, InBody
<1>1. ASSUME NEW t \in Threads, NEW x \in Paths, Enter(t, x)
      PROVE  NoticeInv'
  BY <1>1 DEF Enter
<1>2. ASSUME NEW t \in Threads,
             \/ AcquireThreadLock(t) \/ OpenLockFile(t) \/ TakeOsLock(t)
             \/ RefuseOsLock(t) \/ LeaveBody(t) \/ InterruptHolder(t)
      PROVE  NoticeInv'
  <2> USE DEF AcquireThreadLock, OpenLockFile, TakeOsLock, RefuseOsLock,
              LeaveBody, InterruptHolder
  <2>1. UNCHANGED <<path, warned, announced>> /\ phase[t] # "print"
    BY <1>2
  <2>2. \E s \in Phases : phase' = [phase EXCEPT ![t] = s]
    BY <1>2 DEF Phases
  <2>3. /\ \A u \in Threads : locked[u] => locked'[u]
        /\ InBody(t)' => locked'[t]
    BY <1>2
  <2> HIDE DEF AcquireThreadLock, OpenLockFile, TakeOsLock, RefuseOsLock,
               LeaveBody, InterruptHolder
  <2> QED
    BY <2>1, <2>2, <2>3
<1>3. ASSUME NEW t \in Threads, RecordWarning(t)
      PROVE  NoticeInv'
  <2>1. phase[t] = "warn" /\ path[t] \in Paths
    BY <1>3 DEF RecordWarning, StoreKey, RefInv
  <2>2. UNCHANGED <<path, locked, announced>>
    BY <1>3 DEF RecordWarning, StoreKey
  <2>3. CASE path[t] \in warned[ProcOf[t]]
    <3>1. phase' = [phase EXCEPT ![t] = "body"] /\ warned' = warned
      <4> HIDE StoreLockAssumption DEF LockTypeOK
      <4> QED
        BY <1>3, <2>3 DEF RecordWarning, StoreKey
    <3>2. \A u \in Threads :
             ProcOf[u] = ProcOf[t] /\ path[u] = path[t] => phase[u] # "print"
      <4>1. SUFFICES ASSUME NEW u \in Threads, ProcOf[u] = ProcOf[t],
                            path[u] = path[t], phase[u] = "print"
                     PROVE  FALSE
        OBVIOUS
      <4>2. threadLock[u] = threadLock[t]
        <5> HIDE StoreLockAssumption DEF LockTypeOK, NoticeInv
        <5>1. RefInv /\ phase[u] # "out" /\ phase[t] # "out"
          BY <2>1, <4>1
        <5>2. /\ registry[ProcOf[u]][path[u]] = threadLock[u]
              /\ registry[ProcOf[t]][path[t]] = threadLock[t]
          BY <5>1 DEF RefInv
        <5> QED
          BY <4>1, <5>2
      <4>3. owner[threadLock[u]] = u /\ owner[threadLock[t]] = t
        BY <2>1, <4>1 DEF OwnInv, Holding
      <4> QED
        BY <2>1, <4>1, <4>2, <4>3
    <3>3. path[t] \in announced
      BY <2>3, <3>2
    <3> QED
      BY <2>1, <2>2, <3>1, <3>3
  <2>4. CASE path[t] \notin warned[ProcOf[t]]
    <3>1. /\ phase' = [phase EXCEPT ![t] = "print"]
          /\ \A q \in Procs : \A y \in warned'[q] :
                y \in warned[q] \/ (q = ProcOf[t] /\ y = path[t])
      BY <1>3, <2>4 DEF RecordWarning, StoreKey
    <3>2. \A u \in Threads \ {t} : phase'[u] = phase[u]
      BY <3>1
    <3>3. phase'[t] = "print"
      BY <3>1
    <3>4. \A u \in Threads : InBody(u)' => InBody(u)
      BY <3>2, <3>3 DEF InBody
    <3>5. \A u \in Threads : phase[u] = "print" => phase'[u] = "print"
      BY <3>2, <3>3
    <3>6. \A u \in Threads :
             InBody(u)' /\ ~locked'[u] => path'[u] \in announced'
      <4> HIDE DEF InBody
      <4> QED
        BY <2>2, <3>4
    <3>7. ASSUME NEW q \in Procs, NEW y \in warned'[q]
          PROVE  \/ y \in announced'
                 \/ \E u \in Threads :
                       ProcOf[u] = q /\ path'[u] = y /\ phase'[u] = "print"
      <4>1. CASE y \in warned[q]
        BY <2>2, <3>5, <4>1
      <4>2. CASE q = ProcOf[t] /\ y = path[t]
        BY <2>2, <3>3, <4>2
      <4> QED
        BY <3>1, <4>1, <4>2
    <3> HIDE DEF InBody
    <3> QED
      BY <3>6, <3>7
  <2> QED
    BY <2>3, <2>4
<1>4. ASSUME NEW t \in Threads, PrintWarning(t)
      PROVE  NoticeInv'
  BY <1>4 DEF PrintWarning
<1>5. ASSUME NEW t \in Threads, Unlock(t)
      PROVE  NoticeInv'
  BY <1>5 DEF Unlock
<1>6. ASSUME NEW t \in Threads, PrintFails(t) \/ InterruptNotice(t)
      PROVE  NoticeInv'
  BY <1>6 DEF PrintFails, InterruptNotice
<1>7. ASSUME NEW t \in Threads,
             ReleaseThreadLock(t) \/ InterruptWait(t) \/ InterruptGap(t)
      PROVE  NoticeInv'
  <2>1. /\ UNCHANGED <<locked, warned, announced>>
        /\ phase[t] # "print"
        /\ phase' = [phase EXCEPT ![t] = "out"]
        /\ \A u \in Threads \ {t} : path'[u] = path[u]
    BY <1>7 DEF ReleaseThreadLock, InterruptWait, InterruptGap, Return
  <2>2. \A u \in Threads :
           phase'[u] # "out" => /\ u # t
                                /\ phase'[u] = phase[u]
                                /\ path'[u] = path[u]
    BY <2>1
  <2>3. \A u \in Threads :
           phase[u] = "print" => phase'[u] = "print" /\ path'[u] = path[u]
    BY <2>1
  <2> QED
    BY <2>1, <2>2, <2>3
<1>8. ASSUME NEW p \in Procs, Kill(p)
      PROVE  NoticeInv'
  BY <1>8 DEF Kill
<1>9. ASSUME NEW p \in Procs, NEW x \in Paths, Collect(p, x)
      PROVE  NoticeInv'
  BY <1>9 DEF Collect
<1>10. ASSUME NEW t \in Threads, NEW x \in Paths, CreateDir(t, x)
      PROVE  NoticeInv'
  BY <1>10 DEF CreateDir
<1> QED
  BY <1>10, <1>1, <1>2, <1>3, <1>4, <1>5, <1>6, <1>7, <1>8, <1>9, StepCases

-----------------------------------------------------------------------------
(* At start nobody is inside, and nothing is held or recorded. *)
LEMMA InitHolds == ASSUME LockInit PROVE LockInv /\ NoticeInv
<1>1. LockTypeOK
  BY DEF LockInit, LockTypeOK, Phases
<1>2. RefInv /\ OwnInv
  BY DEF LockInit, RefInv, OwnInv, Holding
<1>3. OsInv
  BY DEF LockInit, OsInv, NoStaleOsLock
<1>4. NoticeInv
  BY DEF LockInit, NoticeInv, InBody
<1> QED
  BY <1>1, <1>2, <1>3, <1>4 DEF LockInv

(* A step that leaves the lock alone leaves the invariant alone. *)
LEMMA StutterStep == ASSUME LockInv, UNCHANGED lockVars PROVE LockInv'
  BY DEF LockInv, lockVars, LockTypeOK, RefInv, OwnInv, OsInv, NoStaleOsLock

(* The inductive invariant: the references to lock objects, the ownership  *)
(* of both locks, and the notices of degraded stores.                      *)
THEOREM LockInvariant == LockSpec => [](LockInv /\ NoticeInv)
<1>1. LockInit => LockInv /\ NoticeInv
  BY InitHolds
<1>2. (LockInv /\ NoticeInv) /\ [LockNext]_lockVars
         => (LockInv /\ NoticeInv)'
  <2>1. CASE LockNext
    BY <2>1, TypeStep, RefStep, OwnStep, OsStep, NoticeStep DEF LockInv
  <2>2. CASE UNCHANGED lockVars
    BY <2>2, StutterStep DEF NoticeInv, InBody, lockVars
  <2> QED
    BY <2>1, <2>2
<1> QED
  BY <1>1, <1>2, PTL DEF LockSpec

(* Every variable of the lock keeps its type: exclusive_store_lock never   *)
(* indexes the registry, the OS locks or the warned set with a stranger.   *)
THEOREM LockTypeCorrect == LockSpec => []LockTypeOK
<1>1. LockInv => LockTypeOK
  BY DEF LockInv
<1> QED
  BY <1>1, LockInvariant, PTL

(* The in-process guarantee of _store.py: whatever fails, is interrupted   *)
(* or killed, and with or without an OS primitive, two threads of one      *)
(* process are never both in the body for one store.                       *)
LEMMA OwnersExclude == ASSUME LockInv PROVE SameProcessExclusion
  BY DEF LockInv, RefInv, OwnInv, Holding, SameProcessExclusion, InBody

(* The same, of every reachable state. *)
THEOREM ThreadsExclude == LockSpec => []SameProcessExclusion
  BY OwnersExclude, LockInvariant, PTL

(* The weak registry holds on to every lock object in use. *)
THEOREM RegistryHolds == LockSpec => []RegistryKeepsUsedLocks
<1>1. LockInv => RegistryKeepsUsedLocks
  BY StoreLockAssumption DEF LockInv, RefInv, RegistryKeepsUsedLocks
<1> QED
  BY <1>1, LockInvariant, PTL

(* No error, interrupt or death leaves an OS lock behind. *)
THEOREM OsLockIsFreed == LockSpec => []NoStaleOsLock
<1>1. LockInv => NoStaleOsLock
  BY DEF LockInv, OsInv
<1> QED
  BY <1>1, LockInvariant, PTL

(* With a primitive, two threads meet in the body of one store only after  *)
(* its degradation was announced.                                          *)
LEMMA UnannouncedExclude ==
    ASSUME LockInv, NoticeInv, OsLockPrimitive
    PROVE  StoreExclusion
<1>1. SUFFICES ASSUME NEW t \in Threads, NEW u \in Threads, t # u,
                      InBody(t), InBody(u), path[t] = path[u],
                      path[t] \notin announced
               PROVE  FALSE
  BY DEF StoreExclusion
<1>2. locked[t] /\ locked[u]
  BY <1>1 DEF NoticeInv
<1>3. flock[path[t]] = t /\ flock[path[u]] = u
  BY <1>2 DEF LockInv, OsInv
<1> QED
  BY <1>1, <1>3

(* The same, of every reachable state. *)
THEOREM NoSilentSharing ==
    ASSUME OsLockPrimitive
    PROVE  LockSpec => []StoreExclusion
  BY UnannouncedExclude, LockInvariant, PTL
=============================================================================
