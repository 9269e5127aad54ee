--------------------------- MODULE EncryptedStore ---------------------------
(***************************************************************************)
(* EncryptedFileBackend (backends/encrypted.py): get, set and unset on one *)
(* credentials.enc, for callers with passphrases and builds of their own.  *)
(*                                                                         *)
(* set and unset run under exclusive_store_lock, of which the model keeps  *)
(* what StoreLock shows: it excludes the other writers of the process, and *)
(* those of other processes where the OS lock can be had.  The file is     *)
(* read and replaced whole, as AtomicWrite shows.  Cryptography is         *)
(* symbolic: a key is the passphrase and the costs it is derived with, and *)
(* a box opens with its key and its associated data only.  The salt, fresh *)
(* for each blob, travels in the header and is left out, like the nonce.   *)
(***************************************************************************)
EXTENDS Integers

CONSTANTS
    Threads, Procs, ProcOf,
    Passes,      \* the passphrases there are
    PassOf,      \* the one of a thread's backend
    App,         \* the application whose store it is
    Apps,        \* that one and others
    Names, Values,
    Encodable,   \* the values UTF-8 can encode
    RequestsOf,  \* the calls of set and unset a thread makes
    Readers,     \* the threads that also call get
    InitBlobs,   \* what the file may hold when the programs start
    Builds,      \* the cryptography builds a process may have, of BuildKinds
    Faults,      \* what may go wrong, of FaultKinds
    Absent, Garbled, Malformed, None,
    FAILED, NEWER_VERSION, KDF_UNAVAILABLE  \* the members of _CryptoOutcome

BuildKinds ==
    { "none",   \* Argon2id is not supported
      "small",  \* it is, but not with more than one lane
      "full" }

FaultKinds ==
    { "read",       \* read_bytes raises an OSError
      "print",      \* the notice about the file's mode cannot be printed
      "oslock",     \* the OS lock cannot be had, and the lock degrades
      "write",      \* write_bytes_atomic raises, before the rename or after
      "interrupt" } \* KeyboardInterrupt; the lock is released

\* The costs of Argon2id that a header carries: time, memory in KiB, lanes.
Costs == [t : Int, m : Int, p : Int]

WriteCost == [t |-> 3, m |-> 64 * 1024, p |-> 4]
LeastCost == [t |-> 1, m |-> 8 * 16, p |-> 1]
MostCost == [t |-> 16, m |-> 4 * 64 * 1024, p |-> 16]

\* Seeded fault: the bound on memory is in MiB, not in KiB.
ClampToMiB(c) ==
    [x \in DOMAIN c |->
        LET most == IF x = "m" THEN MostCost.m \div 1024 ELSE MostCost[x]
            low == IF c[x] < most THEN c[x] ELSE most
        IN  IF low > LeastCost[x] THEN low ELSE LeastCost[x]]

\* _clamp, on each of the three.
Clamp(c) ==
    [x \in DOMAIN c |->
        LET low == IF c[x] < MostCost[x] THEN c[x] ELSE MostCost[x]
        IN  IF low > LeastCost[x] THEN low ELSE LeastCost[x]]

Maps == [Names -> Values \cup {None}]
EmptyMap == [n \in Names |-> None]

\* A header names the version, the costs, and the application, if any.
Headers == [v : Int, cost : Costs, app : Apps \cup {None}]

\* A box holds a text, sealed under a key with associated data.
Keys == [pass : Passes, cost : Costs]
Key(pass, c) == [pass |-> pass, cost |-> c]

Blobs == [header : Headers, key : Keys, aad : Headers,
          text : Maps \cup {Malformed}]

Requests == [name : Names, value : Values \cup {None}]
Get == [name |-> None, value |-> None]

ASSUME EncryptedAssumption ==
    /\ ProcOf \in [Threads -> Procs]
    /\ PassOf \in [Threads -> Passes]
    /\ App \in Apps
    /\ Encodable \subseteq Values
    /\ RequestsOf \in [Threads -> SUBSET Requests]
    /\ None \notin Threads \cup Passes \cup Names \cup Values \cup Apps
    /\ None \notin Maps /\ None \notin Requests
    /\ Absent # Garbled /\ Absent \notin Blobs /\ Garbled \notin Blobs
    /\ \A o \in {FAILED, NEWER_VERSION, KDF_UNAVAILABLE, Malformed} :
          o \notin Maps
    /\ FAILED \notin {NEWER_VERSION, KDF_UNAVAILABLE, Malformed}
    /\ KDF_UNAVAILABLE \notin Keys
    /\ InitBlobs \subseteq Blobs \cup {Absent, Garbled}
    /\ Builds \in [Procs -> SUBSET BuildKinds]
    /\ Faults \subseteq FaultKinds

VARIABLES
    blob,     \* the content of credentials.enc
    author,   \* the passphrase of the call that wrote it (history)
    loose,    \* whether others may read the file
    lock,     \* the threads inside exclusive_store_lock
    build,    \* the cryptography build of a process
    kdf,      \* _kdf_available of a process
    warned,   \* whether the file is in the process's _warned_permissive_paths
    notices,  \* threads that went on to print the notice (history)
    phase,    \* the statement a thread is at
    request,  \* its call
    got,      \* the blob it has read
    loaded,   \* the map it is going to save
    stored,   \* whether its call has taken effect (history)
    outcome   \* "ok", or the exception it is going to raise

fileVars == <<blob, author, loose>>
procVars == <<build, kdf, warned, notices>>
callVars == <<request, got, loaded, stored>>
encVars == <<fileVars, lock, procVars, phase, callVars, outcome>>

Phases == {"out", "lock", "kdf", "probe", "read", "mode", "record", "print",
           "decrypt", "save", "write", "sync", "leave"}

Outcomes == {"ok", "CredentialsError", "DecryptionError", "OSError",
             "KeyboardInterrupt"}

Init ==
    /\ blob \in InitBlobs
    /\ author = None
    /\ loose \in BOOLEAN
    /\ lock = {}
    /\ build \in [Procs -> BuildKinds]
    /\ \A p \in Procs : build[p] \in Builds[p]
    /\ kdf = [p \in Procs |-> FALSE]
    /\ warned = [p \in Procs |-> FALSE]
    /\ notices = {}
    /\ phase = [t \in Threads |-> "out"]
    /\ request = [t \in Threads |-> None]
    /\ got = [t \in Threads |-> None]
    /\ loaded = [t \in Threads |-> None]
    /\ stored = [t \in Threads |-> FALSE]
    /\ outcome = [t \in Threads |-> None]

-----------------------------------------------------------------------------
At(t, p) == phase[t] = p
Goto(t, p) == phase' = [phase EXCEPT ![t] = p]

\* The call is going to return, or to raise.
Decide(t, o) ==
    /\ outcome' = [outcome EXCEPT ![t] = o]
    /\ Goto(t, "leave")

Build(t) == build[ProcOf[t]]

Call(t, r) ==
    /\ At(t, "out")
    /\ request' = [request EXCEPT ![t] = r]
    /\ Goto(t, IF r = Get THEN "kdf" ELSE "lock")
    /\ UNCHANGED <<fileVars, lock, procVars, got, loaded, stored, outcome>>

\* exclusive_store_lock lets the thread in: beside nobody or, degraded to the
\* thread lock, beside writers of other processes.
Lock(t) ==
    /\ At(t, "lock")
    /\ \A u \in lock : "oslock" \in Faults /\ ProcOf[u] # ProcOf[t]
    /\ lock' = lock \cup {t}
    /\ Goto(t, "kdf")
    /\ UNCHANGED <<fileVars, procVars, callVars, outcome>>

\* _ensure_kdf_available, the test without the lock.  (The second call of it
\* in a set or unset, in _save, finds the flag set by the first.)
CheckKdf(t) ==
    /\ At(t, "kdf")
    /\ Goto(t, IF kdf[ProcOf[t]] THEN "read" ELSE "probe")
    /\ UNCHANGED <<fileVars, lock, procVars, callVars, outcome>>

\* Seeded fault: the flag says that the build was probed, not that it works.
ProbeOnce(t) ==
    /\ At(t, "probe")
    /\ kdf' = [kdf EXCEPT ![ProcOf[t]] = TRUE]
    /\ IF kdf[ProcOf[t]] \/ Build(t) # "none"
         THEN Goto(t, "read") /\ UNCHANGED outcome
         ELSE Decide(t, "CredentialsError")
    /\ UNCHANGED <<fileVars, lock, build, warned, notices, callVars>>

\* The block under _kdf_probe_lock.
Probe(t) ==
    /\ At(t, "probe")
    /\ IF kdf[ProcOf[t]] \/ Build(t) # "none"
         THEN /\ kdf' = [kdf EXCEPT ![ProcOf[t]] = TRUE]
              /\ Goto(t, "read")
              /\ UNCHANGED outcome
         ELSE /\ Decide(t, "CredentialsError")
              /\ UNCHANGED kdf
    /\ UNCHANGED <<fileVars, lock, build, warned, notices, callVars>>

-----------------------------------------------------------------------------
\* _derive_key: a build may refuse some costs and not others.
Derive(t, c) ==
    IF Build(t) = "full" \/ (Build(t) = "small" /\ c.p = 1)
      THEN Key(PassOf[t], c)
      ELSE KDF_UNAVAILABLE

\* Seeded fault: the tag is checked before the version.
TryDecryptTagFirst(t, b) ==
    LET key == Derive(t, Clamp(b.header.cost))
    IN  IF b = Garbled THEN FAILED
        ELSE IF key = KDF_UNAVAILABLE THEN key
        ELSE IF key # b.key \/ b.aad # b.header \/ b.header.v < 1 THEN FAILED
        ELSE IF b.header.v > 1 THEN NEWER_VERSION
        ELSE IF b.header.app \notin {None, App} THEN FAILED
        ELSE b.text

\* _try_decrypt: the text, or what is wrong with the blob.
TryDecrypt(t, b) ==
    LET key == Derive(t, Clamp(b.header.cost))
    IN  IF b = Garbled THEN FAILED
        ELSE IF b.header.v > 1 THEN NEWER_VERSION
        ELSE IF b.header.v < 1 THEN FAILED
        ELSE IF key = KDF_UNAVAILABLE THEN key
        ELSE IF key # b.key \/ b.aad # b.header THEN FAILED
        ELSE IF b.header.app \notin {None, App} THEN FAILED
        ELSE b.text

NewHeader == [v |-> 1, cost |-> WriteCost, app |-> App]

\* _encrypt.
Encrypt(t, m) ==
    [header |-> NewHeader, key |-> Derive(t, WriteCost), aad |-> NewHeader,
     text |-> m]

\* del map[name] and map[name] = value.
Apply(r, m) == [m EXCEPT ![r.name] = r.value]

\* What get, set and unset do with the map of _load: set and unset save it
\* with their change; get, and the unset of a name that is not there, return.
Use(t, m) ==
    IF request[t] = Get \/ (request[t].value = None
                              /\ m[request[t].name] = None)
      THEN /\ stored' = [stored EXCEPT ![t] = request[t] # Get]
           /\ Decide(t, "ok")
           /\ UNCHANGED loaded
      ELSE /\ loaded' = [loaded EXCEPT ![t] = Apply(request[t], m)]
           /\ Goto(t, "save")
           /\ UNCHANGED <<stored, outcome>>

\* _load: there is no file, which is an empty map.
ReadNothing(t) ==
    /\ At(t, "read")
    /\ blob = Absent
    /\ Use(t, EmptyMap)
    /\ UNCHANGED <<fileVars, lock, procVars, request, got>>

Read(t) ==
    /\ At(t, "read")
    /\ blob # Absent
    /\ got' = [got EXCEPT ![t] = blob]
    /\ Goto(t, "mode")
    /\ UNCHANGED <<fileVars, lock, procVars, request, loaded, stored, outcome>>

ReadFails(t) ==
    /\ At(t, "read")
    /\ "read" \in Faults
    /\ Decide(t, "CredentialsError")
    /\ UNCHANGED <<fileVars, lock, procVars, callVars>>

\* _warn_if_permissive: the mode of the file, without a lock.
CheckMode(t) ==
    /\ At(t, "mode")
    /\ Goto(t, IF loose THEN "record" ELSE "decrypt")
    /\ UNCHANGED <<fileVars, lock, procVars, callVars, outcome>>

\* Seeded fault: the path is looked up without the lock it is added under.
RecordLate(t) ==
    /\ At(t, "record")
    /\ notices' = IF warned[ProcOf[t]] THEN notices ELSE notices \cup {t}
    /\ Goto(t, IF warned[ProcOf[t]] THEN "decrypt" ELSE "print")
    /\ UNCHANGED <<fileVars, lock, build, kdf, warned, callVars, outcome>>

\* The block under _warn_lock.
Record(t) ==
    /\ At(t, "record")
    /\ warned' = [warned EXCEPT ![ProcOf[t]] = TRUE]
    /\ notices' = IF warned[ProcOf[t]] THEN notices ELSE notices \cup {t}
    /\ Goto(t, IF warned[ProcOf[t]] THEN "decrypt" ELSE "print")
    /\ UNCHANGED <<fileVars, lock, build, kdf, callVars, outcome>>

PrintNotice(t) ==
    /\ At(t, "print")
    /\ \/ Goto(t, "decrypt") /\ UNCHANGED outcome
       \/ "print" \in Faults /\ Decide(t, "OSError")
    /\ UNCHANGED <<fileVars, lock, procVars, callVars>>

\* Seeded fault: a blob that does not open counts as an empty store.
DecryptOrEmpty(t) ==
    /\ At(t, "decrypt")
    /\ LET text == TryDecrypt(t, got[t])
       IN  Use(t, IF text = FAILED THEN EmptyMap ELSE text)
    /\ UNCHANGED <<fileVars, lock, procVars, request, got>>

\* What _load makes of a blob that gave no map.
Refuse(t, o) == Decide(t, o) /\ UNCHANGED <<loaded, stored>>

\* The rest of _load.
Decrypt(t) ==
    /\ At(t, "decrypt")
    /\ LET text == TryDecrypt(t, got[t])
           unreadable == {KDF_UNAVAILABLE, NEWER_VERSION, Malformed}
       IN  \/ text \in unreadable /\ Refuse(t, "CredentialsError")
           \/ text = FAILED /\ Refuse(t, "DecryptionError")
           \/ text \notin unreadable \cup {FAILED} /\ Use(t, text)
    /\ UNCHANGED <<fileVars, lock, procVars, request, got>>

-----------------------------------------------------------------------------
CanEncode(m) == \A n \in Names : m[n] # None => m[n] \in Encodable

\* _save, up to the write.
Save(t) ==
    /\ At(t, "save")
    /\ IF CanEncode(loaded[t]) /\ Derive(t, WriteCost) # KDF_UNAVAILABLE
         THEN Goto(t, "write") /\ UNCHANGED outcome
         ELSE Decide(t, "CredentialsError")
    /\ UNCHANGED <<fileVars, lock, procVars, callVars>>

\* Seeded fault: the CredBoxError of the write is not wrapped.
WriteFailsUnwrapped(t) ==
    /\ At(t, "write") \/ At(t, "sync")
    /\ "write" \in Faults
    /\ Decide(t, "CredBoxError")
    /\ UNCHANGED <<fileVars, lock, procVars, callVars>>

\* write_bytes_atomic fails before its rename, or when it syncs after it.
WriteFails(t) ==
    /\ At(t, "write") \/ At(t, "sync")
    /\ "write" \in Faults
    /\ Decide(t, "CredentialsError")
    /\ UNCHANGED <<fileVars, lock, procVars, callVars>>

\* Its rename; the new file has mode 0600.
Replace(t) ==
    /\ At(t, "write")
    /\ blob' = Encrypt(t, loaded[t])
    /\ author' = PassOf[t]
    /\ loose' = FALSE
    /\ stored' = [stored EXCEPT ![t] = TRUE]
    /\ Goto(t, "sync")
    /\ UNCHANGED <<lock, procVars, request, got, loaded, outcome>>

Sync(t) ==
    /\ At(t, "sync")
    /\ Decide(t, "ok")
    /\ UNCHANGED <<fileVars, lock, procVars, callVars>>

Interrupt(t) ==
    /\ phase[t] \notin {"out", "leave"}
    /\ "interrupt" \in Faults
    /\ Decide(t, "KeyboardInterrupt")
    /\ UNCHANGED <<fileVars, lock, procVars, callVars>>

\* The end of the with statement, or of get.
Leave(t) ==
    /\ At(t, "leave")
    /\ lock' = lock \ {t}
    /\ Goto(t, "out")
    /\ request' = [request EXCEPT ![t] = None]
    /\ got' = [got EXCEPT ![t] = None]
    /\ loaded' = [loaded EXCEPT ![t] = None]
    /\ stored' = [stored EXCEPT ![t] = FALSE]
    /\ outcome' = [outcome EXCEPT ![t] = None]
    /\ UNCHANGED <<fileVars, procVars>>

Next ==
    \E t \in Threads :
       \/ \E r \in RequestsOf[t] : Call(t, r)
       \/ t \in Readers /\ Call(t, Get)
       \/ Lock(t) \/ CheckKdf(t) \/ Probe(t)
       \/ ReadNothing(t) \/ Read(t) \/ ReadFails(t)
       \/ CheckMode(t) \/ Record(t) \/ PrintNotice(t) \/ Decrypt(t)
       \/ Save(t) \/ WriteFails(t) \/ Replace(t) \/ Sync(t)
       \/ Interrupt(t) \/ Leave(t)

EncryptedSpec == Init /\ [][Next]_encVars

-----------------------------------------------------------------------------
TypeOK ==
    /\ blob \in Blobs \cup {Absent, Garbled}
    /\ author \in Passes \cup {None}
    /\ loose \in BOOLEAN
    /\ lock \subseteq Threads
    /\ build \in [Procs -> BuildKinds]
    /\ kdf \in [Procs -> BOOLEAN]
    /\ warned \in [Procs -> BOOLEAN]
    /\ notices \subseteq Threads
    /\ phase \in [Threads -> Phases]
    /\ request \in [Threads -> Requests \cup {Get, None}]
    /\ got \in [Threads -> Blobs \cup {Garbled, None}]
    /\ loaded \in [Threads -> Maps \cup {None}]
    /\ stored \in [Threads -> BOOLEAN]
    /\ outcome \in [Threads -> Outcomes \cup {None}]

\* A blob that set or unset has written opens for everyone who has the
\* passphrase it was written with and a build that can derive its key: the
\* bounds on the costs, the version and the binding to the application never
\* lock out the owner (encrypted.py, _clamp, "a no-op for it", _encrypt and
\* _try_decrypt).
OwnBlobsOpen ==
    author # None =>
       \A t \in Threads :
          PassOf[t] = author /\ Build(t) = "full" =>
             TryDecrypt(t, blob) = blob.text

\* "Wrong passphrase or tampering" is said of nothing else: not of a newer
\* store, not where the build cannot derive the key, and not of a blob that
\* the caller's own passphrase opens, whether its header names the application
\* or none (encrypted.py, _load and _try_decrypt).
VerdictFits ==
    \A t \in Threads :
       /\ At(t, "leave") /\ outcome[t] = "DecryptionError"
       /\ got[t] # Garbled /\ got[t].header.v >= 1
       => LET cost == Clamp(got[t].header.cost)
          IN  /\ got[t].header.v = 1
              /\ Derive(t, cost) # KDF_UNAVAILABLE
              /\ \/ got[t].key # Key(PassOf[t], cost)
                 \/ got[t].aad # got[t].header
                 \/ got[t].header.app \notin {None, App}

\* No call reads the store or uses its passphrase on a build that has not
\* shown that it has Argon2id, whatever another thread of the process has
\* probed (encrypted.py, _ensure_kdf_available, "BEFORE any passphrase is
\* revealed").
ProbedBeforeUse ==
    \A t \in Threads :
       phase[t] \in Phases \ {"out", "lock", "kdf", "probe", "leave"} =>
          kdf[ProcOf[t]] /\ Build(t) # "none"

\* A file that others can read is reported once by a process
\* (permissions.py, "two threads seeing the same permissive path cannot both
\* print").
ModeReportedOnce ==
    \A t, u \in notices : ProcOf[t] = ProcOf[u] => t = u

\* A blob of this version, and of this application.
IsOurs(b) ==
    b # Garbled /\ b.header.v = 1 /\ b.header.app \in {None, App}

\* The store, as its writers see it.  One that no caller can read is never
\* written.
Promise == INSTANCE SecretStore WITH
    Callers <- Threads,
    Replies <- Outcomes,
    store <- IF blob = Absent THEN EmptyMap
             ELSE IF IsOurs(blob) THEN blob.text ELSE Malformed,
    pending <- [t \in Threads |->
                   IF request[t] = Get THEN None ELSE request[t]],
    done <- stored,
    reply <- [t \in Threads |->
                 IF request[t] = Get THEN None ELSE outcome[t]]

\* set and unset keep the promise of SecretStore: a caller with another
\* passphrase, a newer store, a damaged one or one of another application
\* never replaces what it cannot read, and no key is lost to another writer.
KeepsPromise == Promise!Spec
=============================================================================
