----------------------------- MODULE FileStore -----------------------------
(***************************************************************************)
(* FileBackend.set and FileBackend.unset (backends/file.py): the           *)
(* read-modify-write of credentials.json under exclusive_store_lock.       *)
(*                                                                         *)
(* The lock is StoreLock, step for step: every action here is an action of *)
(* it, with what the body of the with statement does where StoreLock only  *)
(* says that the body ends, or a step of the body that leaves the lock     *)
(* alone.  A file holds a map from names to values.                        *)
(* The store file is read in one step and replaced in one step: that a     *)
(* reader sees one whole version is the business of write_bytes_atomic.    *)
(* get and names read the file once, without the lock, and change nothing. *)
(***************************************************************************)
EXTENDS StoreLock

CONSTANTS
    Names,       \* the names of secrets
    Values,      \* their values, as str
    Encodable,   \* the values UTF-8 can encode (no lone surrogate)
    RequestsOf,  \* the calls a thread makes
    InitFiles,   \* what a store file may hold when the programs start
    Absent,      \* there is no store file
    Malformed,   \* parse_store finds a fault in it
    IoFaults,    \* what may go wrong, a subset of IoFaultKinds
    Observed     \* the store, any of them, that the refinement is about

IoFaultKinds ==
    { "read",      \* read_bytes raises an OSError
      "write",     \* write_bytes_atomic raises before the rename
      "sync",      \* ... or after it, when it syncs the directory
      "configure", \* the path of the store changes between two calls
      "relocate" } \* ... or also while a call runs

\* A name the store has no value for is None in its map.
Maps == [Names -> Values \cup {None}]

Requests == [name : Names, value : Values \cup {None}]

\* What a call ends with: "ok", or the exception that its caller sees.
Outcomes == {"ok", "CredentialsError", "OSError", "KeyboardInterrupt"}

ASSUME FileStoreAssumption ==
    /\ Encodable \subseteq Values
    /\ None \notin Values
    /\ RequestsOf \in [Threads -> SUBSET Requests]
    /\ None \notin Requests
    /\ None \notin Outcomes
    /\ None \notin Maps
    /\ Absent \notin Maps
    /\ Malformed \notin Maps
    /\ Absent # Malformed
    /\ InitFiles \subseteq Maps \cup {Absent, Malformed}
    /\ IoFaults \subseteq IoFaultKinds
    /\ Observed \in Paths

VARIABLES
    file,     \* the content of a store file
    place,    \* the path self.path(app) evaluates to in a process
    request,  \* the call a thread is in: a name, and a value or None (unset)
    stage,    \* the statement of set or unset that runs next in the body
    loaded,   \* secret_value_by_name
    stored,   \* whether the call has taken effect (history)
    outcome   \* "ok", or the exception that is on its way to the caller

callVars == <<request, stage, loaded, stored, outcome>>

fileVars == <<file, place, callVars>>

storeVars == <<lockVars, fileVars>>

Stages == {"none", "load", "save", "write", "sync"}

\* What a store file means to a reader that finds it well-formed: _load.
EmptyMap == [n \in Names |-> None]

Content(f) == IF f \in {Absent, Malformed} THEN EmptyMap ELSE f

\* Seeded fault: a file that does not parse counts as an empty one.
ReadableAnyway(f) == TRUE

\* parse_store returns a map.
Readable(f) == f # Malformed

\* del map[name] and map[name] = value.
Apply(r, m) == [m EXCEPT ![r.name] = r.value]

IsUnset(r) == r.value = None

\* serialize_store succeeds: one value it cannot encode fails the whole map.
Serializable(m) == \A n \in Names : m[n] # None => m[n] \in Encodable

StoreInit ==
    /\ LockInit
    /\ file \in [Paths -> InitFiles]
    /\ \A x \in Paths : dir[x] = "absent" => file[x] = Absent
    /\ place \in [Procs -> Paths]
    /\ request = [t \in Threads |-> None]
    /\ stage = [t \in Threads |-> "none"]
    /\ loaded = [t \in Threads |-> None]
    /\ stored = [t \in Threads |-> FALSE]
    /\ outcome = [t \in Threads |-> None]

-----------------------------------------------------------------------------
\* The call of set or unset; self.path(app) names the store to lock.
CallWrite(t, r) ==
    /\ Enter(t, place[ProcOf[t]])
    /\ request' = [request EXCEPT ![t] = r]
    /\ stage' = [stage EXCEPT ![t] = "load"]
    /\ UNCHANGED <<file, place, loaded, stored, outcome>>

\* The statements of exclusive_store_lock before its yield.
PrepareLock(t) ==
    /\ \/ AcquireThreadLock(t) \/ OpenLockFile(t) \/ TakeOsLock(t)
       \/ RefuseOsLock(t) \/ RecordWarning(t) \/ PrintWarning(t)
    /\ UNCHANGED fileVars

\* The exception of a print that fails is the caller's.
NoticeFails(t) ==
    /\ PrintFails(t)
    /\ outcome' = [outcome EXCEPT ![t] = "OSError"]
    /\ UNCHANGED <<file, place, request, stage, loaded, stored>>

\* The body ends with this outcome.
FinishBody(t, o) ==
    /\ LeaveBody(t)
    /\ outcome' = [outcome EXCEPT ![t] = o]

\* The file that _load and _save name, by evaluating self.path(app) again.
Target(t) == place[ProcOf[t]]

\* _load: the file cannot be read, or parse_store finds a fault in it.
LoadFails(t) ==
    /\ InBody(t) /\ stage[t] = "load"
    /\ ~Readable(file[Target(t)]) \/ "read" \in IoFaults
    /\ FinishBody(t, "CredentialsError")
    /\ UNCHANGED <<file, place, request, stage, loaded, stored>>

\* _load warns, once per path, of a file that others can read (its mode and
\* the set of warned paths are left to chance): printing that may fail too.
ModeNoticeFails(t) ==
    /\ InBody(t) /\ stage[t] = "load"
    /\ file[Target(t)] # Absent
    /\ "print" \in LockFaults
    /\ FinishBody(t, "OSError")
    /\ UNCHANGED <<file, place, request, stage, loaded, stored>>

\* unset of a name that is not there: the body ends without a _save.
NothingToUnset(t) ==
    /\ InBody(t) /\ stage[t] = "load"
    /\ Readable(file[Target(t)])
    /\ IsUnset(request[t])
    /\ Content(file[Target(t)])[request[t].name] = None
    /\ stored' = [stored EXCEPT ![t] = TRUE]
    /\ FinishBody(t, "ok")
    /\ UNCHANGED <<file, place, request, stage, loaded>>

\* _load returns the map, and the body changes it.
Load(t) ==
    /\ InBody(t) /\ stage[t] = "load"
    /\ Readable(file[Target(t)])
    /\ ~(IsUnset(request[t])
           /\ Content(file[Target(t)])[request[t].name] = None)
    /\ loaded' =
          [loaded EXCEPT ![t] = Apply(request[t], Content(file[Target(t)]))]
    /\ stage' = [stage EXCEPT ![t] = "save"]
    /\ UNCHANGED <<lockVars, file, place, request, stored, outcome>>

\* _save: the map is not encodable, and nothing is written.
SerializeFails(t) ==
    /\ InBody(t) /\ stage[t] = "save"
    /\ ~Serializable(loaded[t])
    /\ FinishBody(t, "CredentialsError")
    /\ UNCHANGED <<file, place, request, stage, loaded, stored>>

\* write_bytes_atomic's mkdir of the directory.
BeginWrite(t) ==
    /\ InBody(t) /\ stage[t] = "save"
    /\ Serializable(loaded[t])
    /\ IF dir[Target(t)] = "absent"
         THEN CreateDir(t, Target(t))
         ELSE UNCHANGED lockVars
    /\ stage' = [stage EXCEPT ![t] = "write"]
    /\ UNCHANGED <<file, place, request, loaded, stored, outcome>>

\* Seeded fault: the CredBoxError of the write is not wrapped.
WriteFailsUnwrapped(t) ==
    /\ InBody(t) /\ stage[t] = "write"
    /\ "write" \in IoFaults
    /\ FinishBody(t, "CredBoxError")
    /\ UNCHANGED <<file, place, request, stage, loaded, stored>>

\* Seeded fault: a write that failed is reported as done.
WriteFailsQuietly(t) ==
    /\ InBody(t) /\ stage[t] = "write"
    /\ "write" \in IoFaults
    /\ FinishBody(t, "ok")
    /\ UNCHANGED <<file, place, request, stage, loaded, stored>>

\* write_bytes_atomic fails, at its mkdir or at any step up to the rename.
WriteFails(t) ==
    /\ InBody(t)
    /\ stage[t] = "write" \/ (stage[t] = "save" /\ Serializable(loaded[t]))
    /\ "write" \in IoFaults
    /\ FinishBody(t, "CredentialsError")
    /\ UNCHANGED <<file, place, request, stage, loaded, stored>>

\* The rename of write_bytes_atomic puts the new version in place.
Replace(t) ==
    /\ InBody(t) /\ stage[t] = "write"
    /\ file' = [file EXCEPT ![Target(t)] = loaded[t]]
    /\ stage' = [stage EXCEPT ![t] = "sync"]
    /\ stored' = [stored EXCEPT ![t] = TRUE]
    /\ UNCHANGED <<lockVars, place, request, loaded, outcome>>

\* _save: the directory is synced, or reports a real error.
SyncDir(t) ==
    /\ InBody(t) /\ stage[t] = "sync"
    /\ \E o \in {"ok"} \cup
               (IF "sync" \in IoFaults THEN {"CredentialsError"} ELSE {}) :
          FinishBody(t, o)
    /\ UNCHANGED <<file, place, request, stage, loaded, stored>>

\* KeyboardInterrupt after the thread lock was acquired.
InterruptCall(t) ==
    /\ InterruptHolder(t) \/ InterruptNotice(t)
    /\ outcome' = [outcome EXCEPT ![t] = "KeyboardInterrupt"]
    /\ UNCHANGED <<file, place, request, stage, loaded, stored>>

\* Releasing the OS lock may raise, on top of whatever the body did.
UnlockStore(t) ==
    /\ Unlock(t)
    /\ \/ UNCHANGED outcome
       \/ /\ "unlock" \in LockFaults
          /\ OsLockPrimitive /\ locked[t]
          /\ outcome' = [outcome EXCEPT ![t] = "OSError"]
    /\ UNCHANGED <<file, place, request, stage, loaded, stored>>

\* The calls of these threads are over, and their frames gone.
EndCalls(T) ==
    /\ request' = [t \in Threads |-> IF t \in T THEN None ELSE request[t]]
    /\ stage' = [t \in Threads |-> IF t \in T THEN "none" ELSE stage[t]]
    /\ loaded' = [t \in Threads |-> IF t \in T THEN None ELSE loaded[t]]
    /\ stored' = [t \in Threads |-> IF t \in T THEN FALSE ELSE stored[t]]
    /\ outcome' = [t \in Threads |-> IF t \in T THEN None ELSE outcome[t]]
    /\ UNCHANGED <<file, place>>

ReturnToCaller(t) ==
    /\ ReleaseThreadLock(t) \/ InterruptWait(t) \/ InterruptGap(t)
    /\ EndCalls({t})

KillProcess(p) == Kill(p) /\ EndCalls(ThreadsOf(p))

CollectLock(p, x) == Collect(p, x) /\ UNCHANGED fileVars

\* An assumption about the programs, to be found in no line of layout.py:
\* nobody moves the store of a process while a call of it runs.
BetweenCalls(p) == \A t \in ThreadsOf(p) : phase[t] = "out"

\* A thread of the process calls set_default_layout or changes the
\* environment that config_dir reads: nothing keeps it from doing so while
\* another one is in a call.
Relocate(p, x) ==
    /\ \/ "relocate" \in IoFaults
       \/ "configure" \in IoFaults /\ BetweenCalls(p)
    /\ place' = [place EXCEPT ![p] = x]
    /\ UNCHANGED <<lockVars, file, callVars>>

StoreNext ==
    \/ \E t \in Threads :
          \/ \E r \in RequestsOf[t] : CallWrite(t, r)
          \/ PrepareLock(t) \/ NoticeFails(t)
          \/ LoadFails(t) \/ ModeNoticeFails(t)
          \/ NothingToUnset(t) \/ Load(t)
          \/ SerializeFails(t) \/ BeginWrite(t) \/ WriteFails(t)
          \/ Replace(t) \/ SyncDir(t)
          \/ InterruptCall(t) \/ UnlockStore(t) \/ ReturnToCaller(t)
    \/ \E p \in Procs :
          \/ KillProcess(p)
          \/ \E x \in Paths : CollectLock(p, x) \/ Relocate(p, x)

StoreSpec == StoreInit /\ [][StoreNext]_storeVars

-----------------------------------------------------------------------------
StoreTypeOK ==
    /\ LockTypeOK
    /\ file \in [Paths -> Maps \cup {Absent, Malformed}]
    /\ place \in [Procs -> Paths]
    /\ request \in [Threads -> Requests \cup {None}]
    /\ stage \in [Threads -> Stages]
    /\ loaded \in [Threads -> Maps \cup {None}]
    /\ stored \in [Threads -> BOOLEAN]
    /\ outcome \in [Threads -> Outcomes \cup {None}]

\* A step makes of a store what one of its callers asked for, applied to what
\* the store held just before.
IsUpdate(x) ==
    \E t \in Threads :
        /\ request[t] # None
        /\ file[x] # Malformed
        /\ file'[x] = Apply(request[t], Content(file[x]))

\* A store changes only by one call's change to what it held: no writer puts
\* back an old map, drops a key of another writer, or writes over a file it
\* could not parse, unless its users were told that the store is degraded
\* (file.py, "so concurrent writers do not lose each other's keys").
NoSilentLostUpdate ==
    [][\A x \in Paths :
          file'[x] # file[x] => IsUpdate(x) \/ x \in announced]_storeVars

\* The map a thread is about to write is still the store's content with its
\* own change applied: nothing it read under the lock has gone stale.
LoadedMapIsFresh ==
    \A t \in Threads :
        InBody(t) /\ stage[t] \in {"save", "write"} =>
            \/ path[t] \in announced
            \/ /\ file[path[t]] # Malformed
               /\ loaded[t] = Apply(request[t], Content(file[path[t]]))

\* Secrets are written into a directory that only its owner can enter
\* (file.py's _save, "already hardened to 0700 by exclusive_store_lock").
SavesInPrivateDir ==
    \A t \in Threads :
        InBody(t) /\ stage[t] = "write" => dir[Target(t)] = "private"

\* Whatever goes wrong in between, a caller sees an outcome that file.py
\* names: success, CredentialsError, or its own KeyboardInterrupt.
OnlyNamedOutcomes == \A t \in Threads : outcome[t] # "OSError"

\* The observed store, as its callers see it.
Promise == INSTANCE SecretStore WITH
    Callers <- Threads,
    Replies <- Outcomes,
    store <- IF file[Observed] = Malformed THEN Malformed
                                           ELSE Content(file[Observed]),
    pending <- [t \in Threads |->
                   IF path[t] = Observed THEN request[t] ELSE None],
    done <- [t \in Threads |-> path[t] = Observed /\ stored[t]],
    reply <- [t \in Threads |->
                 IF path[t] = Observed THEN outcome[t] ELSE None]

\* Where the OS lock works, set and unset keep the promise of SecretStore:
\* each call takes effect at one instant, once, before it reports success.
KeepsPromise == Promise!Spec
=============================================================================
