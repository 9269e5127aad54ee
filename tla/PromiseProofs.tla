--------------------------- MODULE PromiseProofs ---------------------------
(***************************************************************************)
(* FileStore implements SecretStore: where the OS lock can be had and the  *)
(* store stays where it is, each step of the store is a step of the        *)
(* abstract one, or changes nothing that its callers see.                  *)
(***************************************************************************)
EXTENDS FileStoreProofs

\* The OS lock can be had: no fault leads a writer past it.
LockWorks ==
    /\ OsLockPrimitive
    /\ LockFaults \cap {"dir", "open", "flock"} = {}

QuietInv ==
    /\ announced = {}
    /\ \A t \in Threads : phase[t] \notin {"warn", "print"}

ImplInv == SettledInv /\ QuietInv

\* The variables of SecretStore, as FileStore maps them.
StoreMap ==
    IF file[Observed] = Malformed THEN Malformed ELSE Content(file[Observed])

PendingMap ==
    [t \in Threads |-> IF path[t] = Observed THEN request[t] ELSE None]

DoneMap == [t \in Threads |-> path[t] = Observed /\ stored[t]]

ReplyMap ==
    [t \in Threads |-> IF path[t] = Observed THEN outcome[t] ELSE None]

AbstractStep == [Promise!Next]_(Promise!abstractVars)

-----------------------------------------------------------------------------
(* With a lock that works, nobody has anything to announce. *)
LEMMA QuietStep ==
    ASSUME LockWorks, LockInv, QuietInv, [LockNext]_lockVars
    PROVE  QuietInv'
<1> USE StoreLockAssumption DEF LockInv, LockTypeOK, QuietInv, LockWorks
<1>1. CASE UNCHANGED lockVars
  BY <1>1 DEF lockVars
<1>2. ASSUME NEW t \in Threads, OpenLockFile(t)
      PROVE  QuietInv'
  <2>1. \A d \in Restricted(dir[path[t]]) : d # "absent"
    BY DEF Restricted
  <2> QED
    BY <1>2, <2>1 DEF OpenLockFile
<1>3. ASSUME NEW t \in Threads, NEW x \in Paths, Enter(t, x) \/ CreateDir(t, x)
      PROVE  QuietInv'
  BY <1>3 DEF Enter, CreateDir
<1>4. ASSUME NEW t \in Threads,
             \/ AcquireThreadLock(t) \/ TakeOsLock(t) \/ RefuseOsLock(t)
             \/ RecordWarning(t) \/ PrintWarning(t) \/ LeaveBody(t)
             \/ Unlock(t) \/ ReleaseThreadLock(t) \/ PrintFails(t)
             \/ InterruptWait(t) \/ InterruptHolder(t)
             \/ InterruptNotice(t) \/ InterruptGap(t)
      PROVE  QuietInv'
  BY <1>4 DEF AcquireThreadLock, TakeOsLock, RefuseOsLock, RecordWarning,
              PrintWarning, LeaveBody, Unlock, ReleaseThreadLock, PrintFails,
              InterruptWait, InterruptHolder, InterruptNotice, InterruptGap,
              Return
<1>5. ASSUME NEW p \in Procs, Kill(p)
      PROVE  QuietInv'
  <2>1. \A t \in Threads : phase'[t] = "out" \/ phase'[t] = phase[t]
    BY <1>5 DEF Kill
  <2>2. announced' = announced
    BY <1>5 DEF Kill
  <2> QED
    BY <2>1, <2>2
<1>6. ASSUME NEW p \in Procs, NEW x \in Paths, Collect(p, x)
      PROVE  QuietInv'
  BY <1>6 DEF Collect
<1> QED
  BY <1>1, <1>2, <1>3, <1>4, <1>5, <1>6, StepCases

(* A step that the callers of the observed store do not see. *)
LEMMA Hidden ==
    ASSUME UNCHANGED <<StoreMap, PendingMap, DoneMap, ReplyMap>>
    PROVE  AbstractStep
  BY DEF AbstractStep, Promise!abstractVars, StoreMap, PendingMap, DoneMap,
         ReplyMap

(* The outcome of a call is decided. *)
LEMMA Decides ==
    ASSUME StoreTypeOK, NEW t \in Threads, NEW o \in Outcomes,
           UNCHANGED <<file, path, request, stored>>,
           outcome' = [outcome EXCEPT ![t] = o],
           request[t] # None, o = "ok" => stored[t]
    PROVE  AbstractStep
<1>1. UNCHANGED <<StoreMap, PendingMap, DoneMap>>
  BY DEF StoreMap, PendingMap, DoneMap, Content
<1>2. CASE path[t] # Observed
  <2>1. ReplyMap' = ReplyMap
    BY <1>2 DEF ReplyMap, StoreTypeOK
  <2> QED
    BY <1>1, <2>1, Hidden
<1>3. CASE path[t] = Observed
  <2>1. ReplyMap' = [ReplyMap EXCEPT ![t] = o]
    BY <1>3 DEF ReplyMap, StoreTypeOK
  <2>2. PendingMap[t] # None /\ (o = "ok" => DoneMap[t])
    BY <1>3 DEF PendingMap, DoneMap
  <2>3. Promise!Decide(t)
    BY <1>1, <2>1, <2>2 DEF Promise!Decide, StoreMap, PendingMap, DoneMap,
                            ReplyMap
  <2> QED
    BY <2>3 DEF AbstractStep, Promise!Next
<1> QED
  BY <1>2, <1>3

(* The calls of some threads end. *)
LEMMA Ends ==
    ASSUME NEW T \in SUBSET Threads, EndCalls(T),
           path' = [t \in Threads |-> IF t \in T THEN None ELSE path[t]]
    PROVE  AbstractStep
<1> USE FileStoreAssumption, StoreLockAssumption
<1>1. StoreMap' = StoreMap
  BY DEF EndCalls, StoreMap, Content
<1>2. PendingMap' = [t \in Threads |-> IF t \in T THEN None ELSE PendingMap[t]]
  BY DEF EndCalls, PendingMap
<1>3. DoneMap' = [t \in Threads |-> IF t \in T THEN FALSE ELSE DoneMap[t]]
  BY DEF EndCalls, DoneMap
<1>4. ReplyMap' = [t \in Threads |-> IF t \in T THEN None ELSE ReplyMap[t]]
  BY DEF EndCalls, ReplyMap
<1>5. Promise!End(T)
  BY <1>1, <1>2, <1>3, <1>4 DEF Promise!End, StoreMap, PendingMap, DoneMap,
                                ReplyMap
<1> QED
  BY <1>5 DEF AbstractStep, Promise!Next

(* Each step of the store is a step of its promise, or a stutter. *)
LEMMA StepKeepsPromise ==
    ASSUME ImplInv, StoreNext
    PROVE  AbstractStep
<1> USE StoreLockAssumption, FileStoreAssumption
<1>1. StoreTypeOK /\ CallInv /\ PlaceInv /\ LockTypeOK
  BY DEF ImplInv, SettledInv, StoreInv, LockInv
<1>2. ASSUME NEW t \in Threads, NEW r \in RequestsOf[t], CallWrite(t, r)
      PROVE  AbstractStep
  <2>1. /\ request[t] = None /\ path[t] = None /\ ~stored[t]
        /\ outcome[t] = None
    BY <1>1, <1>2 DEF CallWrite, Enter, CallInv, AtRest
  <2>2. /\ path' = [path EXCEPT ![t] = place[ProcOf[t]]]
        /\ request' = [request EXCEPT ![t] = r]
        /\ UNCHANGED <<file, stored, outcome>>
    BY <1>2 DEF CallWrite, Enter
  <2>3. r \in Requests /\ place[ProcOf[t]] \in Paths /\ Observed \in Paths
    BY <1>1 DEF StoreTypeOK
  <2>4. UNCHANGED <<StoreMap, DoneMap, ReplyMap>>
    BY <1>1, <2>1, <2>2, <2>3
       DEF StoreMap, Content, DoneMap, ReplyMap, LockTypeOK, StoreTypeOK
  <2>5. CASE place[ProcOf[t]] # Observed
    <3>1. PendingMap' = PendingMap
      BY <1>1, <2>1, <2>2, <2>3, <2>5 DEF PendingMap, LockTypeOK, StoreTypeOK
    <3> QED
      BY <2>4, <3>1, Hidden
  <2>6. CASE place[ProcOf[t]] = Observed
    <3>1. PendingMap' = [PendingMap EXCEPT ![t] = r] /\ PendingMap[t] = None
      BY <1>1, <2>1, <2>2, <2>3, <2>6 DEF PendingMap, LockTypeOK, StoreTypeOK
    <3>2. r \in Promise!WriteRequests
      BY <2>3 DEF Requests, Promise!WriteRequests
    <3>3. Promise!Call(t)
      BY <2>4, <3>1, <3>2
         DEF Promise!Call, StoreMap, PendingMap, DoneMap, ReplyMap
    <3> QED
      BY <3>3 DEF AbstractStep, Promise!Next
  <2> QED
    BY <2>5, <2>6
<1>3. ASSUME UNCHANGED <<file, path, request, stored, outcome>>
      PROVE  AbstractStep
  BY <1>3, Hidden DEF StoreMap, Content, PendingMap, DoneMap, ReplyMap
<1>4. ASSUME NEW t \in Threads, PrepareLock(t) \/ Load(t) \/ BeginWrite(t)
      PROVE  UNCHANGED <<file, path, request, stored, outcome>>
  BY <1>4 DEF PrepareLock, Load, BeginWrite, CreateDir, AcquireThreadLock,
              OpenLockFile, TakeOsLock, RefuseOsLock, RecordWarning,
              PrintWarning, lockVars, fileVars, callVars
<1>5. ASSUME NEW p \in Procs, NEW x \in Paths,
             CollectLock(p, x) \/ Relocate(p, x)
      PROVE  UNCHANGED <<file, path, request, stored, outcome>>
  BY <1>5 DEF CollectLock, Collect, Relocate, lockVars, fileVars, callVars
<1>6. ASSUME NEW t \in Threads, NoticeFails(t)
      PROVE  FALSE
  BY <1>6 DEF NoticeFails, PrintFails, ImplInv, QuietInv
<1>7. ASSUME NEW t \in Threads,
             \/ LoadFails(t) \/ ModeNoticeFails(t) \/ SerializeFails(t)
             \/ WriteFails(t) \/ SyncDir(t) \/ InterruptCall(t)
             \/ UnlockStore(t)
      PROVE  AbstractStep
  <2>1. UNCHANGED <<file, path, request, stored>> /\ phase[t] # "out"
    BY <1>7 DEF LoadFails, ModeNoticeFails, SerializeFails, WriteFails,
                SyncDir, InterruptCall, UnlockStore, FinishBody, LeaveBody,
                InBody, InterruptHolder, InterruptNotice, Unlock
  <2>2. request[t] # None
    BY <1>1, <2>1 DEF CallInv
  <2>3. outcome' = outcome
          \/ \E o \in Outcomes :
                /\ outcome' = [outcome EXCEPT ![t] = o]
                /\ o = "ok" => SyncDir(t)
    BY <1>7 DEF LoadFails, ModeNoticeFails, SerializeFails, WriteFails,
                SyncDir, InterruptCall, UnlockStore, FinishBody, Outcomes
  <2>4. SyncDir(t) => stored[t]
    BY <1>1 DEF SyncDir, CallInv
  <2>5. CASE outcome' = outcome
    BY <1>3, <2>1, <2>5
  <2>6. CASE outcome' # outcome
    <3>1. PICK o \in Outcomes :
             /\ outcome' = [outcome EXCEPT ![t] = o]
             /\ o = "ok" => SyncDir(t)
      BY <2>3, <2>6
    <3>2. o = "ok" => stored[t]
      BY <2>4, <3>1
    <3> QED
      BY <1>1, <2>1, <2>2, <3>1, <3>2, Decides
  <2> QED
    BY <2>5, <2>6
<1>8. ASSUME NEW t \in Threads, NothingToUnset(t)
      PROVE  AbstractStep
  <2>1. /\ UNCHANGED <<file, path, request>> /\ InBody(t) /\ stage[t] = "load"
        /\ stored' = [stored EXCEPT ![t] = TRUE]
        /\ outcome' = [outcome EXCEPT ![t] = "ok"]
        /\ file[Target(t)] # Malformed /\ request[t].value = None
        /\ Content(file[Target(t)])[request[t].name] = None
    BY <1>8 DEF NothingToUnset, FinishBody, LeaveBody, Readable, IsUnset
  <2>2. /\ request[t] \in Requests /\ request[t] # None /\ ~stored[t]
        /\ Target(t) = path[t] /\ path[t] \in Paths
    BY <1>1, <2>1 DEF CallInv, InBody, StoreTypeOK, PlaceInv, Target
  <2>3. UNCHANGED <<StoreMap, PendingMap>>
    BY <2>1 DEF StoreMap, Content, PendingMap
  <2>4. CASE path[t] # Observed
    <3>1. UNCHANGED <<DoneMap, ReplyMap>>
      BY <1>1, <2>1, <2>4 DEF DoneMap, ReplyMap, StoreTypeOK
    <3> QED
      BY <2>3, <3>1, Hidden
  <2>5. CASE path[t] = Observed
    <3>1. /\ DoneMap' = [DoneMap EXCEPT ![t] = TRUE]
          /\ ReplyMap' = [ReplyMap EXCEPT ![t] = "ok"]
      BY <1>1, <2>1, <2>5 DEF DoneMap, ReplyMap, StoreTypeOK
    <3>2. /\ PendingMap[t] = request[t] /\ ~DoneMap[t]
          /\ StoreMap = Content(file[path[t]])
      BY <2>1, <2>2, <2>5 DEF PendingMap, DoneMap, StoreMap
    <3>3. file[path[t]] \in Maps \cup {Absent, Malformed}
      BY <1>1, <2>2 DEF StoreTypeOK
    <3>4. StoreMap \in Maps
      BY <2>2, <3>2, <3>3, ApplyIsMap
    <3>5. StoreMap # Malformed
      BY <3>4
    <3>6. Promise!Effect(request[t], StoreMap) = StoreMap
      BY <2>1, <2>2, <3>2, <3>4 DEF Promise!Effect, Maps, Requests
    <3>7. Promise!EffectAndDecide(t)
      BY <2>2, <2>3, <3>1, <3>2, <3>5, <3>6
         DEF Promise!EffectAndDecide, StoreMap, PendingMap, DoneMap, ReplyMap
    <3> QED
      BY <3>7 DEF AbstractStep, Promise!Next
  <2> QED
    BY <2>4, <2>5
<1>9. ASSUME NEW t \in Threads, Replace(t)
      PROVE  AbstractStep
  <2>1. /\ UNCHANGED <<path, request, outcome>>
        /\ InBody(t) /\ stage[t] = "write"
        /\ stored' = [stored EXCEPT ![t] = TRUE]
        /\ file' = [file EXCEPT ![Target(t)] = loaded[t]]
    BY <1>9 DEF Replace, lockVars
  <2>2. /\ request[t] \in Requests /\ request[t] # None /\ ~stored[t]
        /\ Target(t) = path[t] /\ path[t] \in Paths
        /\ loaded[t] \in Maps
    BY <1>1, <2>1 DEF CallInv, InBody, StoreTypeOK, PlaceInv, Target
  <2>3. /\ file[path[t]] # Malformed
        /\ loaded[t] = Apply(request[t], Content(file[path[t]]))
    BY <2>1 DEF ImplInv, SettledInv, QuietInv, LoadedMapIsFresh
  <2>4. UNCHANGED <<PendingMap, ReplyMap>>
    BY <2>1 DEF PendingMap, ReplyMap
  <2>5. file \in [Paths -> Maps \cup {Absent, Malformed}]
    BY <1>1 DEF StoreTypeOK
  <2>6. CASE path[t] # Observed
    <3>1. DoneMap' = DoneMap
      BY <1>1, <2>1, <2>6 DEF DoneMap, StoreTypeOK
    <3>2. file'[Observed] = file[Observed]
      BY <2>1, <2>2, <2>5, <2>6
    <3>3. StoreMap' = StoreMap
      BY <3>2 DEF StoreMap, Content
    <3> QED
      BY <2>4, <3>1, <3>3, Hidden
  <2>7. CASE path[t] = Observed
    <3>1. DoneMap' = [DoneMap EXCEPT ![t] = TRUE]
      BY <1>1, <2>1, <2>7 DEF DoneMap, StoreTypeOK
    <3>2. /\ PendingMap[t] = request[t] /\ ~DoneMap[t]
          /\ StoreMap = Content(file[path[t]])
      BY <2>2, <2>3, <2>7 DEF PendingMap, DoneMap, StoreMap
    <3>3. StoreMap \in Maps
      BY <2>2, <2>5, <3>2, ApplyIsMap
    <3>4. file'[Observed] = loaded[t]
      BY <2>1, <2>2, <2>5, <2>7
    <3>5. StoreMap' = loaded[t]
      BY <2>2, <3>4 DEF StoreMap, Content
    <3>6. StoreMap' = Promise!Effect(request[t], StoreMap)
      BY <2>3, <3>2, <3>5 DEF Promise!Effect, Apply
    <3>7. Promise!TakeEffect(t)
      BY <2>2, <2>4, <3>1, <3>2, <3>3, <3>6
         DEF Promise!TakeEffect, StoreMap, PendingMap, DoneMap, ReplyMap
    <3> QED
      BY <3>7 DEF AbstractStep, Promise!Next
  <2> QED
    BY <2>6, <2>7
<1>10. ASSUME NEW t \in Threads, ReturnToCaller(t)
       PROVE  AbstractStep
  <2>1. EndCalls({t}) /\ path' = [path EXCEPT ![t] = None]
    BY <1>10 DEF ReturnToCaller, ReleaseThreadLock, InterruptWait,
                 InterruptGap, Return
  <2>2. path' = [u \in Threads |-> IF u \in {t} THEN None ELSE path[u]]
    BY <1>1, <2>1 DEF LockTypeOK
  <2> QED
    BY <2>1, <2>2, Ends
<1>11. ASSUME NEW p \in Procs, KillProcess(p)
       PROVE  AbstractStep
  <2>1. /\ EndCalls(ThreadsOf(p)) /\ ThreadsOf(p) \in SUBSET Threads
        /\ path' = [u \in Threads |->
                       IF u \in ThreadsOf(p) THEN None ELSE path[u]]
    BY <1>11 DEF KillProcess, Kill, ThreadsOf
  <2> QED
    BY <2>1, Ends
<1> QED
  BY <1>2, <1>3, <1>4, <1>5, <1>6, <1>7, <1>8, <1>9, <1>10, <1>11
     DEF StoreNext

(* set and unset keep the promise of SecretStore, in any store whose OS    *)
(* lock works and whose path stays what it is: each call takes effect at   *)
(* one instant, once, on the store as it is at that instant, and before    *)
(* it reports success, whatever fails, is interrupted or dies.             *)
THEOREM StoreKeepsPromise ==
    ASSUME "relocate" \notin IoFaults, LockWorks
    PROVE  StoreSpec => KeepsPromise
<1>1. StoreInit => ImplInv /\ Promise!Init
  <2> SUFFICES ASSUME StoreInit PROVE ImplInv /\ Promise!Init
    OBVIOUS
  <2>1. SettledInv /\ QuietInv
    BY StoreInitHolds
       DEF SettledInv, QuietInv, LoadedMapIsFresh, StoreInit, LockInit, InBody
  <2>2. file[Observed] \in Maps \cup {Absent, Malformed}
    BY FileStoreAssumption DEF StoreInit
  <2>3. StoreMap \in Maps \cup {Malformed}
    BY <2>2 DEF StoreMap, Content, EmptyMap, Maps
  <2>4. /\ PendingMap = [t \in Threads |-> None]
        /\ DoneMap = [t \in Threads |-> FALSE]
        /\ ReplyMap = [t \in Threads |-> None]
    BY FileStoreAssumption, StoreLockAssumption
       DEF PendingMap, DoneMap, ReplyMap, StoreInit, LockInit
  <2> QED
    BY <2>1, <2>3, <2>4
       DEF ImplInv, Promise!Init, Promise!Contents, Maps, StoreMap,
           PendingMap, DoneMap, ReplyMap
<1>2. ImplInv /\ [StoreNext]_storeVars => ImplInv'
  <2> SUFFICES ASSUME ImplInv, [StoreNext]_storeVars PROVE ImplInv'
    OBVIOUS
  <2>1. SettledInv'
    BY SettledStep DEF ImplInv, LockWorks
  <2>2. [LockNext]_lockVars
    BY LockStep DEF ImplInv, SettledInv, StoreInv
  <2>3. QuietInv'
    BY <2>2, QuietStep DEF ImplInv, SettledInv, StoreInv
  <2> QED
    BY <2>1, <2>3 DEF ImplInv
<1>3. ImplInv /\ [StoreNext]_storeVars => [Promise!Next]_(Promise!abstractVars)
  <2>1. ImplInv /\ UNCHANGED storeVars => AbstractStep
    BY Hidden DEF storeVars, lockVars, fileVars, callVars, StoreMap, Content,
                  PendingMap, DoneMap, ReplyMap
  <2> QED
    BY <2>1, StepKeepsPromise DEF AbstractStep
<1> QED
  BY <1>1, <1>2, <1>3, PTL DEF StoreSpec, KeepsPromise, Promise!Spec
=============================================================================
