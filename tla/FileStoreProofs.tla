-------------------------- MODULE FileStoreProofs --------------------------
(***************************************************************************)
(* Proofs about FileStore, for any programs, stores, names and values.     *)
(*                                                                         *)
(* Every step of FileStore is a step of StoreLock or leaves the lock       *)
(* alone, so that what StoreLockProofs shows of the lock holds of the      *)
(* store.  CallInv says what the local variables of a call hold at each    *)
(* statement, PlaceInv that a call stays with the store it locked.         *)
(***************************************************************************)
EXTENDS FileStore, StoreLockProofs

\* The statements before the body of the with statement.
BeforeBody == {"wait", "open", "flock", "warn", "print"}

\* Between two calls a thread holds nothing.
AtRest(t) ==
    /\ path[t] = None /\ request[t] = None /\ stage[t] = "none"
    /\ ~stored[t] /\ outcome[t] = None

CallInv ==
    \A t \in Threads :
        /\ phase[t] = "out" => AtRest(t)
        /\ phase[t] # "out" => request[t] # None
        /\ phase[t] \in BeforeBody =>
              stage[t] = "load" /\ ~stored[t] /\ outcome[t] = None
        /\ InBody(t) =>
              /\ outcome[t] = None
              /\ stage[t] # "none"
              /\ stored[t] <=> stage[t] = "sync"
              /\ stage[t] # "load" => loaded[t] # None

PlaceInv ==
    \A t \in Threads : phase[t] # "out" => path[t] = place[ProcOf[t]]

StoreInv == LockInv /\ NoticeInv /\ StoreTypeOK /\ CallInv

-----------------------------------------------------------------------------
(* A step of the store is a step of the lock, or does not touch the lock.  *)
LEMMA LockStep ==
    ASSUME StoreTypeOK, [StoreNext]_storeVars
    PROVE  [LockNext]_lockVars
<1>1. CASE UNCHANGED storeVars
  BY <1>1 DEF storeVars
<1>2. ASSUME NEW t \in Threads, NEW r \in RequestsOf[t], CallWrite(t, r)
      PROVE  LockNext
  <2>1. place[ProcOf[t]] \in Paths
    BY StoreLockAssumption DEF StoreTypeOK
  <2> QED
    BY <1>2, <2>1 DEF CallWrite, LockNext
<1>3. ASSUME NEW t \in Threads,
             \/ PrepareLock(t) \/ NoticeFails(t) \/ InterruptCall(t)
             \/ UnlockStore(t) \/ ReturnToCaller(t)
      PROVE  LockNext
  BY <1>3 DEF PrepareLock, NoticeFails, InterruptCall, UnlockStore,
              ReturnToCaller, LockNext, Progress
<1>4. ASSUME NEW t \in Threads,
             \/ LoadFails(t) \/ ModeNoticeFails(t) \/ NothingToUnset(t)
             \/ SerializeFails(t) \/ WriteFails(t) \/ SyncDir(t)
      PROVE  LockNext
  <2>1. LeaveBody(t)
    BY <1>4 DEF LoadFails, ModeNoticeFails, NothingToUnset, SerializeFails,
                WriteFails, SyncDir, FinishBody
  <2> QED
    BY <2>1 DEF LockNext, Progress
<1>5. ASSUME NEW t \in Threads, Load(t) \/ Replace(t)
      PROVE  UNCHANGED lockVars
  BY <1>5 DEF Load, Replace
<1>6. ASSUME NEW t \in Threads, BeginWrite(t)
      PROVE  LockNext \/ UNCHANGED lockVars
  <2>1. Target(t) \in Paths
    BY StoreLockAssumption DEF StoreTypeOK, Target
  <2> QED
    BY <1>6, <2>1 DEF BeginWrite, LockNext
<1>7. ASSUME NEW p \in Procs, KillProcess(p)
      PROVE  LockNext
  BY <1>7 DEF KillProcess, LockNext
<1>8. ASSUME NEW p \in Procs, NEW x \in Paths,
             CollectLock(p, x) \/ Relocate(p, x)
      PROVE  LockNext \/ UNCHANGED lockVars
  BY <1>8 DEF CollectLock, Relocate, LockNext
<1> QED
  BY <1>1, <1>2, <1>3, <1>4, <1>5, <1>6, <1>7, <1>8 DEF StoreNext

(* The invariants of the lock are preserved by the steps of the store.     *)
LEMMA LockInvStep ==
    ASSUME LockInv, NoticeInv, [LockNext]_lockVars
    PROVE  LockInv' /\ NoticeInv'
<1>1. CASE LockNext
  BY <1>1, TypeStep, RefStep, OwnStep, OsStep, NoticeStep DEF LockInv
<1>2. CASE UNCHANGED lockVars
  BY <1>2, StutterStep DEF NoticeInv, InBody, lockVars
<1> QED
  BY <1>1, <1>2
(* A request applied to a map is a map, and so is what a file stands for.  *)
LEMMA ApplyIsMap ==
    ASSUME NEW r \in Requests, NEW f \in Maps \cup {Absent, Malformed}
    PROVE  Content(f) \in Maps /\ Apply(r, Content(f)) \in Maps
<1>1. Content(f) \in Maps
  BY DEF Content, EmptyMap, Maps
<1> QED
  BY <1>1 DEF Apply, Maps, Requests

(* A step keeps every variable of the store in its type. *)
LEMMA StoreTypeStep ==
    ASSUME StoreTypeOK, CallInv, LockTypeOK', StoreNext
    PROVE  StoreTypeOK'
<1> USE StoreLockAssumption, FileStoreAssumption
    DEF StoreTypeOK, Stages, Outcomes
<1>1. ASSUME NEW t \in Threads, NEW r \in RequestsOf[t], CallWrite(t, r)
      PROVE  StoreTypeOK'
  <2>1. r \in Requests
    OBVIOUS
  <2> QED
    BY <1>1, <2>1 DEF CallWrite
<1>2. ASSUME NEW t \in Threads, PrepareLock(t)
      PROVE  StoreTypeOK'
  BY <1>2 DEF PrepareLock, fileVars, callVars
<1>3. ASSUME NEW t \in Threads,
             \/ NoticeFails(t) \/ InterruptCall(t) \/ UnlockStore(t)
             \/ LoadFails(t) \/ ModeNoticeFails(t) \/ NothingToUnset(t)
             \/ SerializeFails(t) \/ WriteFails(t) \/ SyncDir(t)
      PROVE  StoreTypeOK'
  <2>1. UNCHANGED <<file, place, request, stage, loaded>>
    BY <1>3 DEF NoticeFails, InterruptCall, UnlockStore, LoadFails,
                ModeNoticeFails, NothingToUnset, SerializeFails, WriteFails,
                SyncDir
  <2>2. outcome' = outcome
          \/ \E o \in Outcomes : outcome' = [outcome EXCEPT ![t] = o]
    BY <1>3 DEF NoticeFails, InterruptCall, UnlockStore, LoadFails,
                ModeNoticeFails, NothingToUnset, SerializeFails, WriteFails,
                SyncDir, FinishBody
  <2>3. stored' = stored \/ stored' = [stored EXCEPT ![t] = TRUE]
    BY <1>3 DEF NoticeFails, InterruptCall, UnlockStore, LoadFails,
                ModeNoticeFails, NothingToUnset, SerializeFails, WriteFails,
                SyncDir
  <2>4. outcome' \in [Threads -> Outcomes \cup {None}]
    BY <2>2
  <2>5. stored' \in [Threads -> BOOLEAN]
    BY <2>3
  <2> QED
    BY <2>1, <2>4, <2>5
<1>4. ASSUME NEW t \in Threads, Load(t)
      PROVE  StoreTypeOK'
  <2>1. request[t] \in Requests
    BY <1>4 DEF Load, InBody, CallInv
  <2>2. file[Target(t)] \in Maps \cup {Absent, Malformed}
    BY DEF Target
  <2>3. Apply(request[t], Content(file[Target(t)])) \in Maps
    BY <2>1, <2>2, ApplyIsMap
  <2> QED
    BY <1>4, <2>3 DEF Load, lockVars
<1>5. ASSUME NEW t \in Threads, BeginWrite(t)
      PROVE  StoreTypeOK'
  BY <1>5 DEF BeginWrite
<1>6. ASSUME NEW t \in Threads, Replace(t)
      PROVE  StoreTypeOK'
  <2>1. loaded[t] \in Maps
    BY <1>6 DEF Replace, CallInv
  <2>2. Target(t) \in Paths
    BY DEF Target
  <2> QED
    BY <1>6, <2>1, <2>2 DEF Replace, lockVars
<1>7. ASSUME NEW T \in SUBSET Threads, EndCalls(T)
      PROVE  StoreTypeOK'
  BY <1>7 DEF EndCalls
<1>8. ASSUME NEW t \in Threads, ReturnToCaller(t)
      PROVE  StoreTypeOK'
  BY <1>7, <1>8 DEF ReturnToCaller
<1>9. ASSUME NEW p \in Procs, KillProcess(p)
      PROVE  StoreTypeOK'
  BY <1>7, <1>9 DEF KillProcess, ThreadsOf
<1>10. ASSUME NEW p \in Procs, NEW x \in Paths,
              CollectLock(p, x) \/ Relocate(p, x)
       PROVE  StoreTypeOK'
  BY <1>10 DEF CollectLock, Relocate, fileVars, callVars
<1> QED
  BY <1>1, <1>2, <1>3, <1>4, <1>5, <1>6, <1>8, <1>9, <1>10 DEF StoreNext

(* At each statement a call has made the variables what they should be.    *)
LEMMA CallStep ==
    ASSUME StoreTypeOK, CallInv, StoreNext
    PROVE  CallInv'
<1> USE StoreLockAssumption, FileStoreAssumption
    DEF StoreTypeOK, LockTypeOK, CallInv, AtRest, BeforeBody, InBody
<1>1. ASSUME NEW t \in Threads, NEW r \in RequestsOf[t], CallWrite(t, r)
      PROVE  CallInv'
  <2>1. r # None
    OBVIOUS
  <2> QED
    BY <1>1, <2>1 DEF CallWrite, Enter
<1>2. ASSUME NEW t \in Threads, PrepareLock(t)
      PROVE  CallInv'
  <2>1. /\ phase[t] \in BeforeBody
        /\ \E s \in BeforeBody \cup {"body"} :
              phase' = [phase EXCEPT ![t] = s]
        /\ path' = path
    BY <1>2 DEF PrepareLock, AcquireThreadLock, OpenLockFile, TakeOsLock,
                RefuseOsLock, RecordWarning, PrintWarning
  <2>2. UNCHANGED <<request, stage, loaded, stored, outcome>>
    BY <1>2 DEF PrepareLock, fileVars, callVars
  <2> QED
    BY <2>1, <2>2
<1>3. ASSUME NEW t \in Threads,
             \/ NoticeFails(t) \/ InterruptCall(t) \/ UnlockStore(t)
             \/ LoadFails(t) \/ ModeNoticeFails(t) \/ NothingToUnset(t)
             \/ SerializeFails(t) \/ WriteFails(t) \/ SyncDir(t)
      PROVE  CallInv'
  <2>1. /\ UNCHANGED <<path, request, stage, loaded>>
        /\ phase[t] # "out"
        /\ \E s \in {"unlock", "release"} :
              phase' = [phase EXCEPT ![t] = s]
    BY <1>3 DEF NoticeFails, InterruptCall, UnlockStore, LoadFails,
                ModeNoticeFails, NothingToUnset, SerializeFails, WriteFails,
                SyncDir, FinishBody, LeaveBody, PrintFails, InterruptHolder,
                InterruptNotice, Unlock
  <2>2. \A u \in Threads \ {t} :
           stored'[u] = stored[u] /\ outcome'[u] = outcome[u]
    BY <1>3 DEF NoticeFails, InterruptCall, UnlockStore, LoadFails,
                ModeNoticeFails, NothingToUnset, SerializeFails, WriteFails,
                SyncDir, FinishBody
  <2> QED
    BY <2>1, <2>2
<1>4. ASSUME NEW t \in Threads, Load(t)
      PROVE  CallInv'
  <2>1. request[t] \in Requests
    BY <1>4 DEF Load
  <2>2. file[Target(t)] \in Maps \cup {Absent, Malformed}
    BY DEF Target
  <2>3. Apply(request[t], Content(file[Target(t)])) \in Maps
    BY <2>1, <2>2, ApplyIsMap
  <2> HIDE DEF StoreTypeOK, LockTypeOK
  <2>4. /\ loaded \in [Threads -> Maps \cup {None}]
        /\ stage \in [Threads -> Stages]
    BY DEF StoreTypeOK
  <2> QED
    BY <1>4, <2>3, <2>4 DEF Load, lockVars
<1>5. ASSUME NEW t \in Threads, BeginWrite(t)
      PROVE  CallInv'
  <2>1. UNCHANGED <<phase, path>>
    BY <1>5 DEF BeginWrite, CreateDir, lockVars
  <2> QED
    BY <1>5, <2>1 DEF BeginWrite
<1>6. ASSUME NEW t \in Threads, Replace(t)
      PROVE  CallInv'
  BY <1>6 DEF Replace, lockVars
<1>7. ASSUME NEW t \in Threads, ReturnToCaller(t)
      PROVE  CallInv'
  BY <1>7 DEF ReturnToCaller, ReleaseThreadLock, InterruptWait, InterruptGap,
              Return, EndCalls
<1>8. ASSUME NEW p \in Procs, KillProcess(p)
      PROVE  CallInv'
  BY <1>8 DEF KillProcess, Kill, EndCalls, ThreadsOf
<1>9. ASSUME NEW p \in Procs, NEW x \in Paths,
             CollectLock(p, x) \/ Relocate(p, x)
      PROVE  CallInv'
  BY <1>9 DEF CollectLock, Collect, Relocate, lockVars, fileVars, callVars
<1> QED
  BY <1>1, <1>2, <1>3, <1>4, <1>5, <1>6, <1>7, <1>8, <1>9 DEF StoreNext
-----------------------------------------------------------------------------
(* All of it holds at the start. *)
LEMMA StoreInitHolds == ASSUME StoreInit PROVE StoreInv /\ PlaceInv
<1> USE StoreLockAssumption, FileStoreAssumption DEF StoreInit
<1>1. LockInv /\ NoticeInv
  BY InitHolds
<1>2. StoreTypeOK
  BY <1>1 DEF LockInv, StoreTypeOK, Stages
<1>3. CallInv /\ PlaceInv
  BY DEF LockInit, CallInv, AtRest, BeforeBody, InBody, PlaceInv
<1> QED
  BY <1>1, <1>2, <1>3 DEF StoreInv

(* ... and is preserved. *)
LEMMA StoreInvStep ==
    ASSUME StoreInv, [StoreNext]_storeVars
    PROVE  StoreInv'
<1>1. LockInv' /\ NoticeInv'
  BY LockStep, LockInvStep DEF StoreInv
<1>2. CASE StoreNext
  BY <1>1, <1>2, StoreTypeStep, CallStep DEF StoreInv, LockInv
<1>3. CASE UNCHANGED storeVars
  <2>1. StoreTypeOK'
    BY <1>1, <1>3 DEF StoreInv, LockInv, StoreTypeOK, storeVars, fileVars,
                      callVars
  <2>2. CallInv'
    BY <1>3 DEF StoreInv, CallInv, AtRest, InBody, storeVars, lockVars,
                fileVars, callVars
  <2> QED
    BY <1>1, <2>1, <2>2 DEF StoreInv
<1> QED
  BY <1>2, <1>3

(* The inductive invariant of the store. *)
THEOREM StoreInvariant == StoreSpec => []StoreInv
<1>1. StoreInit => StoreInv
  BY StoreInitHolds
<1>2. StoreInv /\ [StoreNext]_storeVars => StoreInv'
  BY StoreInvStep
<1> QED
  BY <1>1, <1>2, PTL DEF StoreSpec

(* The store does to its lock only what exclusive_store_lock does: every   *)
(* property of LockSpec is one of the store's.                             *)
THEOREM StoreImplementsLock == StoreSpec => LockSpec
<1>1. StoreInit => LockInit
  BY DEF StoreInit
<1>2. StoreInv /\ [StoreNext]_storeVars => [LockNext]_lockVars
  BY LockStep DEF StoreInv
<1> QED
  BY <1>1, <1>2, StoreInvariant, PTL DEF StoreSpec, LockSpec

(* Every variable of the store keeps its type. *)
THEOREM StoreTypeCorrect == StoreSpec => []StoreTypeOK
<1>1. StoreInv => StoreTypeOK
  BY DEF StoreInv
<1> QED
  BY <1>1, StoreInvariant, PTL

-----------------------------------------------------------------------------
(* Where nothing changes the path of a store during a call, a call reads   *)
(* and writes the store that it locked.                                    *)
LEMMA PlaceStep ==
    ASSUME "relocate" \notin IoFaults,
           StoreInv, PlaceInv, [StoreNext]_storeVars
    PROVE  PlaceInv'
<1> USE StoreLockAssumption
    DEF StoreInv, LockInv, LockTypeOK, StoreTypeOK, PlaceInv
<1>1. place' = place \/ \E p \in Procs, x \in Paths : Relocate(p, x)
  BY DEF StoreNext, storeVars, fileVars, callVars, CallWrite, PrepareLock,
         NoticeFails, LoadFails, ModeNoticeFails, NothingToUnset, Load,
         SerializeFails, BeginWrite, WriteFails, Replace, SyncDir,
         InterruptCall, UnlockStore, ReturnToCaller, EndCalls, KillProcess,
         CollectLock
<1>2. CASE UNCHANGED storeVars
  BY <1>2 DEF storeVars, lockVars, fileVars
<1>3. ASSUME NEW p \in Procs, NEW x \in Paths, Relocate(p, x)
      PROVE  PlaceInv'
  <2>1. /\ UNCHANGED <<phase, path>> /\ place' = [place EXCEPT ![p] = x]
        /\ \A t \in ThreadsOf(p) : phase[t] = "out"
    BY <1>3 DEF Relocate, BetweenCalls, lockVars
  <2> QED
    BY <2>1 DEF ThreadsOf
<1> SUFFICES ASSUME place' = place PROVE PlaceInv'
  BY <1>1, <1>3
<1>4. ASSUME NEW t \in Threads, NEW r \in RequestsOf[t], CallWrite(t, r)
      PROVE  PlaceInv'
  BY <1>4 DEF CallWrite, Enter
<1>5. ASSUME NEW t \in Threads, phase[t] # "out", path' = path,
             \E s \in Phases : phase' = [phase EXCEPT ![t] = s]
      PROVE  PlaceInv'
  BY <1>5
<1>6. ASSUME NEW t \in Threads,
             \/ PrepareLock(t) \/ NoticeFails(t) \/ InterruptCall(t)
             \/ UnlockStore(t)
      PROVE  PlaceInv'
  <2>1. /\ phase[t] # "out" /\ path' = path
        /\ \E s \in Phases : phase' = [phase EXCEPT ![t] = s]
    BY <1>6 DEF PrepareLock, NoticeFails, InterruptCall, UnlockStore,
                AcquireThreadLock, OpenLockFile, TakeOsLock, RefuseOsLock,
                RecordWarning, PrintWarning, PrintFails, InterruptHolder,
                InterruptNotice, Unlock, Phases
  <2> QED
    BY <1>5, <2>1
<1>7. ASSUME NEW t \in Threads,
             \/ LoadFails(t) \/ ModeNoticeFails(t) \/ NothingToUnset(t)
             \/ SerializeFails(t) \/ WriteFails(t) \/ SyncDir(t)
      PROVE  PlaceInv'
  <2>1. LeaveBody(t)
    BY <1>7 DEF LoadFails, ModeNoticeFails, NothingToUnset, SerializeFails,
                WriteFails, SyncDir, FinishBody
  <2> QED
    BY <1>5, <2>1 DEF LeaveBody, Phases
<1>8. ASSUME NEW t \in Threads, Load(t) \/ BeginWrite(t) \/ Replace(t)
      PROVE  PlaceInv'
  <2>1. UNCHANGED <<phase, path>>
    BY <1>8 DEF Load, BeginWrite, Replace, CreateDir, lockVars
  <2> QED
    BY <2>1
<1>9. ASSUME NEW t \in Threads, ReturnToCaller(t)
      PROVE  PlaceInv'
  BY <1>9 DEF ReturnToCaller, ReleaseThreadLock, InterruptWait,
                    InterruptGap, Return
<1>10. ASSUME NEW p \in Procs, KillProcess(p)
      PROVE  PlaceInv'
  BY <1>10 DEF KillProcess, Kill
<1>11. ASSUME NEW p \in Procs, NEW x \in Paths, CollectLock(p, x)
      PROVE  PlaceInv'
  BY <1>11 DEF CollectLock, Collect
<1> QED
  BY <1>2, <1>4, <1>6, <1>7, <1>8, <1>9, <1>10, <1>11, <1>3 DEF StoreNext

(* A store is announced for good. *)
LEMMA AnnouncedGrows ==
    ASSUME [LockNext]_lockVars
    PROVE  announced \subseteq announced'
<1>1. CASE UNCHANGED lockVars
  BY <1>1 DEF lockVars
<1>2. CASE LockNext
  BY <1>2, StepCases
     DEF Enter, CreateDir, AcquireThreadLock, OpenLockFile, TakeOsLock,
         RefuseOsLock, RecordWarning, PrintWarning, LeaveBody, Unlock,
         ReleaseThreadLock, PrintFails, InterruptWait, InterruptHolder,
         InterruptNotice, InterruptGap, Kill, Collect
<1> QED
  BY <1>1, <1>2

(* A file changes only where a call replaces it. *)
LEMMA FileChange ==
    ASSUME [StoreNext]_storeVars, file' # file
    PROVE  \E t \in Threads : Replace(t)
  BY DEF StoreNext, storeVars, fileVars, callVars, CallWrite, PrepareLock,
         NoticeFails, LoadFails, ModeNoticeFails, NothingToUnset, Load,
         SerializeFails, BeginWrite, WriteFails, SyncDir, InterruptCall,
         UnlockStore, ReturnToCaller, EndCalls, KillProcess, CollectLock,
         Relocate

(* A thread with a map to save was in the body before, and has it from its *)
(* own _load.                                                              *)
LEMMA MapToSave ==
    ASSUME StoreInv, StoreNext, NEW t \in Threads,
           InBody(t)', stage'[t] \in {"save", "write"}
    PROVE  /\ InBody(t) /\ path'[t] = path[t] /\ request'[t] = request[t]
           /\ \/ Load(t)
              \/ /\ stage[t] \in {"save", "write"}
                 /\ loaded'[t] = loaded[t]
<1> USE StoreLockAssumption
    DEF StoreInv, LockInv, LockTypeOK, StoreTypeOK, InBody
<1>1. ASSUME NEW u \in Threads, NEW r \in RequestsOf[u], CallWrite(u, r)
      PROVE  u # t /\ UNCHANGED loaded /\ phase'[t] = phase[t]
                /\ path'[t] = path[t] /\ request'[t] = request[t]
                /\ stage'[t] = stage[t]
  BY <1>1 DEF CallWrite, Enter
<1>2. ASSUME NEW u \in Threads, PrepareLock(u)
      PROVE  u # t /\ phase'[t] = phase[t]
                /\ UNCHANGED <<path, request, stage, loaded>>
  <2>1. /\ phase[u] \in BeforeBody /\ path' = path
        /\ \E s \in Phases : phase' = [phase EXCEPT ![u] = s]
    BY <1>2 DEF PrepareLock, AcquireThreadLock, OpenLockFile, TakeOsLock,
                RefuseOsLock, RecordWarning, PrintWarning, BeforeBody, Phases
  <2>2. UNCHANGED <<request, stage, loaded>>
    BY <1>2 DEF PrepareLock, fileVars, callVars
  <2>3. stage[u] = "load"
    BY <2>1 DEF CallInv
  <2> QED
    BY <2>1, <2>2, <2>3
<1>3. ASSUME NEW u \in Threads,
             \/ NoticeFails(u) \/ InterruptCall(u) \/ UnlockStore(u)
             \/ LoadFails(u) \/ ModeNoticeFails(u) \/ NothingToUnset(u)
             \/ SerializeFails(u) \/ WriteFails(u) \/ SyncDir(u)
      PROVE  u # t /\ phase'[t] = phase[t]
                /\ UNCHANGED <<path, request, stage, loaded>>
  <2>1. /\ UNCHANGED <<path, request, stage, loaded>>
        /\ \E s \in {"unlock", "release"} :
              phase' = [phase EXCEPT ![u] = s]
    BY <1>3 DEF NoticeFails, InterruptCall, UnlockStore, LoadFails,
                ModeNoticeFails, NothingToUnset, SerializeFails, WriteFails,
                SyncDir, FinishBody, LeaveBody, PrintFails, InterruptHolder,
                InterruptNotice, Unlock
  <2> QED
    BY <2>1
<1>4. ASSUME NEW u \in Threads, Load(u)
      PROVE  /\ UNCHANGED <<phase, path, request>>
             /\ u = t \/ (stage'[t] = stage[t] /\ loaded'[t] = loaded[t])
  BY <1>4 DEF Load, lockVars
<1>5. ASSUME NEW u \in Threads, BeginWrite(u) \/ Replace(u)
      PROVE  /\ UNCHANGED <<phase, path, request, loaded>>
             /\ stage[t] \in {"save", "write"}
  BY <1>5 DEF BeginWrite, Replace, CreateDir, lockVars
<1>6. ASSUME NEW T \in SUBSET Threads, EndCalls(T)
      PROVE  /\ t \notin T /\ stage'[t] = stage[t]
             /\ loaded'[t] = loaded[t] /\ request'[t] = request[t]
  BY <1>6 DEF EndCalls
<1>7. ASSUME NEW u \in Threads, ReturnToCaller(u)
      PROVE  /\ phase'[t] = phase[t] /\ path'[t] = path[t]
             /\ stage'[t] = stage[t] /\ loaded'[t] = loaded[t]
             /\ request'[t] = request[t]
  BY <1>6, <1>7 DEF ReturnToCaller, ReleaseThreadLock, InterruptWait,
                    InterruptGap, Return
<1>8. ASSUME NEW p \in Procs, KillProcess(p)
      PROVE  /\ phase'[t] = phase[t] /\ path'[t] = path[t]
             /\ stage'[t] = stage[t] /\ loaded'[t] = loaded[t]
             /\ request'[t] = request[t]
  BY <1>6, <1>8 DEF KillProcess, Kill, ThreadsOf
<1>9. ASSUME NEW p \in Procs, NEW x \in Paths,
             CollectLock(p, x) \/ Relocate(p, x)
      PROVE  UNCHANGED <<phase, path, request, stage, loaded>>
  BY <1>9 DEF CollectLock, Collect, Relocate, lockVars, fileVars, callVars
<1> QED
  BY <1>1, <1>2, <1>3, <1>4, <1>5, <1>7, <1>8, <1>9 DEF StoreNext

(* The map stays fresh: whoever could replace the file in between holds    *)
(* the same lock, or the store was announced.                              *)
LEMMA FreshStep ==
    ASSUME OsLockPrimitive, StoreInv, PlaceInv, LoadedMapIsFresh, StoreNext
    PROVE  LoadedMapIsFresh'
<1>1. StoreExclusion
  BY UnannouncedExclude DEF StoreInv
<1>2. announced \subseteq announced'
  BY LockStep, AnnouncedGrows DEF StoreInv
<1>3. SUFFICES ASSUME NEW t \in Threads, InBody(t)',
                      stage'[t] \in {"save", "write"},
                      path[t] \notin announced
               PROVE  /\ file'[path'[t]] # Malformed
                      /\ loaded'[t] =
                            Apply(request'[t], Content(file'[path'[t]]))
  BY <1>2, MapToSave DEF LoadedMapIsFresh
<1>4. /\ InBody(t) /\ path'[t] = path[t] /\ request'[t] = request[t]
      /\ path[t] = place[ProcOf[t]]
  BY <1>3, MapToSave DEF PlaceInv, InBody
<1>5. CASE Load(t)
  <2>1. loaded \in [Threads -> Maps \cup {None}]
    BY DEF StoreInv, StoreTypeOK
  <2> QED
    BY <1>4, <1>5, <2>1 DEF Load, Target, Readable
<1>6. CASE stage[t] \in {"save", "write"} /\ loaded'[t] = loaded[t]
  <2>1. /\ file[path[t]] # Malformed
        /\ loaded[t] = Apply(request[t], Content(file[path[t]]))
    BY <1>3, <1>4, <1>6 DEF LoadedMapIsFresh
  <2>2. file'[path[t]] = file[path[t]]
    <3>1. SUFFICES ASSUME NEW u \in Threads, Replace(u)
                   PROVE  file'[path[t]] = file[path[t]]
      BY FileChange
    <3>2. u # t
      BY <1>3, <3>1 DEF Replace, StoreInv, StoreTypeOK
    <3>3. path[u] # path[t]
      BY <1>1, <1>3, <1>4, <3>1, <3>2 DEF Replace, StoreExclusion
    <3>4. Target(u) = path[u]
      BY <3>1 DEF Replace, InBody, PlaceInv, Target
    <3> QED
      BY <3>1, <3>3, <3>4 DEF Replace, StoreInv, StoreTypeOK
  <2> QED
    BY <1>4, <1>6, <2>1, <2>2
<1> QED
  BY <1>3, <1>5, <1>6, MapToSave

\* What holds of a store that stays where it is, and has a lock primitive.
SettledInv == StoreInv /\ PlaceInv /\ LoadedMapIsFresh

(* The inductive invariant of such a store. *)
LEMMA SettledStep ==
    ASSUME "relocate" \notin IoFaults, OsLockPrimitive,
           SettledInv, [StoreNext]_storeVars
    PROVE  SettledInv'
<1>1. StoreInv' /\ PlaceInv'
  BY StoreInvStep, PlaceStep DEF SettledInv
<1>2. CASE StoreNext
  BY <1>1, <1>2, FreshStep DEF SettledInv
<1>3. CASE UNCHANGED storeVars
  BY <1>1, <1>3 DEF SettledInv, LoadedMapIsFresh, InBody, storeVars, lockVars,
                    fileVars, callVars
<1> QED
  BY <1>2, <1>3

(* ... holds in every reachable state. *)
LEMMA SettledInvariant ==
    ASSUME "relocate" \notin IoFaults, OsLockPrimitive
    PROVE  StoreSpec => []SettledInv
<1>1. StoreInit => SettledInv
  BY StoreInitHolds
     DEF SettledInv, LoadedMapIsFresh, StoreInit, LockInit, InBody
<1>2. SettledInv /\ [StoreNext]_storeVars => SettledInv'
  BY SettledStep
<1> QED
  BY <1>1, <1>2, PTL DEF StoreSpec

(* Nothing that a call read under the lock goes stale before it writes.    *)
THEOREM MapsStayFresh ==
    ASSUME "relocate" \notin IoFaults, OsLockPrimitive
    PROVE  StoreSpec => []LoadedMapIsFresh
<1>1. SettledInv => LoadedMapIsFresh
  BY DEF SettledInv
<1> QED
  BY <1>1, SettledInvariant, PTL

(* No update is lost in silence: each change of a store is the change one  *)
(* caller asked for, applied to what the store held at that instant.       *)
THEOREM UpdatesAreNotLost ==
    ASSUME "relocate" \notin IoFaults, OsLockPrimitive
    PROVE  StoreSpec => NoSilentLostUpdate
<1>1. ASSUME SettledInv, [StoreNext]_storeVars, NEW x \in Paths,
             file'[x] # file[x]
      PROVE  IsUpdate(x) \/ x \in announced
  <2>1. PICK t \in Threads : Replace(t)
    BY <1>1, FileChange
  <2>2. file \in [Paths -> Maps \cup {Absent, Malformed}]
    BY <1>1 DEF SettledInv, StoreInv, StoreTypeOK
  <2>3. InBody(t) /\ stage[t] = "write" /\ Target(t) = path[t]
    BY <1>1, <2>1 DEF Replace, SettledInv, PlaceInv, InBody, Target
  <2>4. x = path[t] /\ file'[x] = loaded[t]
    BY <1>1, <2>1, <2>2, <2>3 DEF Replace
  <2>5. request[t] # None
    BY <1>1, <2>3 DEF SettledInv, StoreInv, CallInv, InBody
  <2> QED
    BY <1>1, <2>3, <2>4, <2>5 DEF SettledInv, LoadedMapIsFresh, IsUpdate
<1>2. SettledInv /\ [StoreNext]_storeVars =>
         [\A x \in Paths : file'[x] # file[x] =>
             IsUpdate(x) \/ x \in announced]_storeVars
  BY <1>1
<1> QED
  BY <1>2, SettledInvariant, PTL DEF StoreSpec, NoSilentLostUpdate
-----------------------------------------------------------------------------
(* An OSError comes only from a notice that cannot be printed or from an   *)
(* unlock that raises.                                                     *)
LEMMA OutcomesStayNamed ==
    ASSUME {"print", "unlock"} \cap LockFaults = {},
           StoreTypeOK, OnlyNamedOutcomes, [StoreNext]_storeVars
    PROVE  OnlyNamedOutcomes'
<1> USE FileStoreAssumption DEF OnlyNamedOutcomes
<1>1. outcome \in [Threads -> Outcomes \cup {None}]
  BY DEF StoreTypeOK
<1>2. None # "OSError"
  BY DEF Outcomes
<1>3. ASSUME NEW t \in Threads,
             \/ LoadFails(t) \/ NothingToUnset(t) \/ SerializeFails(t)
             \/ WriteFails(t) \/ SyncDir(t) \/ InterruptCall(t)
      PROVE  OnlyNamedOutcomes'
  <2>1. PICK o \in {"ok", "CredentialsError", "KeyboardInterrupt"} :
           outcome' = [outcome EXCEPT ![t] = o]
    BY <1>3 DEF LoadFails, NothingToUnset, SerializeFails, WriteFails,
                SyncDir, InterruptCall, FinishBody
  <2> QED
    BY <1>1, <2>1
<1>4. ASSUME NEW t \in Threads,
             NoticeFails(t) \/ ModeNoticeFails(t)
      PROVE  FALSE
  BY <1>4 DEF NoticeFails, PrintFails, ModeNoticeFails
<1>5. ASSUME NEW t \in Threads,
             \/ \E r \in RequestsOf[t] : CallWrite(t, r)
             \/ PrepareLock(t) \/ Load(t) \/ BeginWrite(t) \/ Replace(t)
             \/ UnlockStore(t)
      PROVE  outcome' = outcome
  BY <1>5 DEF CallWrite, PrepareLock, fileVars, callVars, Load, BeginWrite,
              Replace, UnlockStore
<1>6. ASSUME NEW T, EndCalls(T)
      PROVE  OnlyNamedOutcomes'
  BY <1>2, <1>6 DEF EndCalls
<1>7. ASSUME NEW p \in Procs, NEW x \in Paths,
             CollectLock(p, x) \/ Relocate(p, x)
      PROVE  outcome' = outcome
  BY <1>7 DEF CollectLock, Relocate, fileVars, callVars
<1>8. CASE UNCHANGED storeVars
  BY <1>8 DEF storeVars, fileVars, callVars
<1> QED
  BY <1>3, <1>4, <1>5, <1>6, <1>7, <1>8
     DEF StoreNext, ReturnToCaller, KillProcess

(* Where notices get printed and locks released, a caller of set or unset  *)
(* sees success, CredentialsError or its own KeyboardInterrupt, as file.py *)
(* says, whatever else fails.                                              *)
THEOREM ErrorsAreNamed ==
    ASSUME {"print", "unlock"} \cap LockFaults = {}
    PROVE  StoreSpec => []OnlyNamedOutcomes
<1>1. StoreInit => OnlyNamedOutcomes
  BY FileStoreAssumption DEF StoreInit, OnlyNamedOutcomes, Outcomes
<1>2. /\ StoreTypeOK /\ OnlyNamedOutcomes /\ [StoreNext]_storeVars
      => OnlyNamedOutcomes'
  BY OutcomesStayNamed
<1> QED
  BY <1>1, <1>2, StoreTypeCorrect, PTL DEF StoreSpec

=============================================================================
