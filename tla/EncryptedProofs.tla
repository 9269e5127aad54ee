-------------------------- MODULE EncryptedProofs --------------------------
(***************************************************************************)
(* Proofs about EncryptedStore, for any programs, passphrases, builds,     *)
(* names, values and files, and with every fault of the model.             *)
(*                                                                         *)
(* OpensOnlyOurs and SealedOpens say what _try_decrypt makes of a blob.    *)
(* CallInv says what the local variables of a call hold at each statement, *)
(* LockInv who is inside the lock, and FreshInv that what a writer has     *)
(* read there is still what the file holds when it replaces it, as long as *)
(* the OS lock can be had.                                                 *)
(***************************************************************************)
EXTENDS EncryptedStore, TLAPS

\* The OS lock can always be had.
Exclusive == "oslock" \notin Faults

StoreMap ==
    IF blob = Absent THEN EmptyMap
    ELSE IF IsOurs(blob) THEN blob.text ELSE Malformed

\* The statements at which a call of set or unset is inside the lock.
Locked == Phases \ {"out", "lock", "leave"}

\* The statements after _ensure_kdf_available.
Probed == Locked \ {"kdf", "probe"}

\* The statements at which a blob has been read and not yet used.
Holding == {"mode", "record", "print", "decrypt"}

CallInv ==
    \A t \in Threads :
        /\ phase[t] = "out" => request[t] = None
        /\ phase[t] # "out" => request[t] \in Requests \cup {Get}
        /\ phase[t] \in {"lock", "save", "write", "sync"} =>
              request[t] \in Requests
        /\ phase[t] # "leave" => outcome[t] = None
        /\ phase[t] # "leave" => (stored[t] <=> phase[t] = "sync")
        /\ phase[t] \in Holding => got[t] \in Blobs \cup {Garbled}
        /\ phase[t] \in {"save", "write"} => loaded[t] \in Maps

LockInv ==
    /\ \A t \in Threads :
          phase[t] \in Locked /\ request[t] \in Requests => t \in lock
    /\ Exclusive => \A t, u \in lock : t = u

BuildInv ==
    /\ \A p \in Procs : kdf[p] => build[p] # "none"
    /\ \A t \in Threads :
          /\ phase[t] \in Probed => kdf[ProcOf[t]]
          /\ phase[t] \in {"write", "sync"} => Build(t) = "full"

FreshInv ==
    Exclusive => \A t \in Threads :
        /\ phase[t] \in Holding /\ request[t] \in Requests => got[t] = blob
        /\ phase[t] \in {"save", "write"} =>
              StoreMap \in Maps /\ loaded[t] = Apply(request[t], StoreMap)

AuthorInv ==
    author # None =>
        /\ blob \in Blobs
        /\ blob.header = NewHeader /\ blob.aad = NewHeader
        /\ blob.key = Key(author, WriteCost)

VerdictInv ==
    \A t \in Threads :
        phase[t] = "leave" /\ outcome[t] = "DecryptionError" =>
            got[t] \in Blobs \cup {Garbled} /\ TryDecrypt(t, got[t]) = FAILED

NoticeInv ==
    /\ \A t \in notices : warned[ProcOf[t]]
    /\ ModeReportedOnce

EncryptedInv ==
    /\ TypeOK /\ CallInv /\ LockInv /\ BuildInv /\ FreshInv /\ AuthorInv
    /\ VerdictInv /\ NoticeInv

-----------------------------------------------------------------------------
(* The bounds on the costs are a no-op for what _encrypt writes. *)
LEMMA ClampKeepsWriteCost == Clamp(WriteCost) = WriteCost
<1>1. DOMAIN WriteCost = {"t", "m", "p"}
  BY DEF WriteCost
<1>2. /\ WriteCost["t"] = 3 /\ WriteCost["m"] = 65536 /\ WriteCost["p"] = 4
      /\ LeastCost["t"] = 1 /\ LeastCost["m"] = 128 /\ LeastCost["p"] = 1
      /\ MostCost["t"] = 16 /\ MostCost["m"] = 262144 /\ MostCost["p"] = 16
  BY DEF WriteCost, LeastCost, MostCost
<1>3. \A x \in {"t", "m", "p"} : LeastCost[x] < WriteCost[x]
                                   /\ WriteCost[x] < MostCost[x]
  BY <1>2
<1>4. Clamp(WriteCost) = [x \in {"t", "m", "p"} |-> WriteCost[x]]
  BY <1>1, <1>3 DEF Clamp
<1> QED
  BY <1>1, <1>4 DEF WriteCost

LEMMA NewHeaderType == WriteCost \in Costs /\ NewHeader \in Headers
<1>1. WriteCost \in Costs
  BY DEF WriteCost, Costs
<1> QED
  BY <1>1, EncryptedAssumption DEF NewHeader, Headers

(* What _encrypt seals is a blob, of this version and application. *)
LEMMA EncryptSeals ==
    ASSUME NEW t \in Threads, NEW m \in Maps, Build(t) = "full"
    PROVE  LET b == Encrypt(t, m)
           IN  /\ b \in Blobs /\ b.text = m
               /\ b.header = NewHeader /\ b.aad = NewHeader
               /\ b.key = Key(PassOf[t], WriteCost)
<1>1. PassOf[t] \in Passes
  BY EncryptedAssumption
<1>2. Derive(t, WriteCost) = Key(PassOf[t], WriteCost)
  BY DEF Derive
<1>3. Key(PassOf[t], WriteCost) \in Keys
  BY <1>1, NewHeaderType DEF Key, Keys
<1> QED
  BY <1>2, <1>3, NewHeaderType DEF Encrypt, Blobs

LEMMA SealedIsOurs ==
    ASSUME NEW b \in Blobs, b.header = NewHeader
    PROVE  b # Absent /\ IsOurs(b)
BY EncryptedAssumption DEF IsOurs, NewHeader

(* Whoever has the passphrase, and a build that derives, opens it. *)
LEMMA SealedOpens ==
    ASSUME NEW t \in Threads, NEW b \in Blobs, Build(t) = "full",
           b.header = NewHeader, b.aad = NewHeader,
           b.key = Key(PassOf[t], WriteCost)
    PROVE  TryDecrypt(t, b) = b.text
<1>1. b # Garbled
  BY EncryptedAssumption
<1>2. b.header.v = 1 /\ b.header.app = App /\ b.header.cost = WriteCost
  BY DEF NewHeader
<1>3. Derive(t, Clamp(b.header.cost)) = b.key
  BY <1>2, ClampKeepsWriteCost DEF Derive
<1>4. b.key \in Keys
  BY DEF Blobs
<1> QED
  BY <1>1, <1>2, <1>3, <1>4, EncryptedAssumption DEF TryDecrypt

(* A blob that gives a map is of this version and application, and the map *)
(* is its text.                                                            *)
LEMMA OpensOnlyOurs ==
    ASSUME NEW t \in Threads, NEW b \in Blobs \cup {Garbled},
           TryDecrypt(t, b) \notin
               {KDF_UNAVAILABLE, NEWER_VERSION, Malformed, FAILED}
    PROVE  /\ b # Absent /\ IsOurs(b)
           /\ TryDecrypt(t, b) = b.text /\ b.text \in Maps
<1>1. b # Garbled /\ b \in Blobs /\ b # Absent
  BY EncryptedAssumption DEF TryDecrypt
<1>2. b.header.v \in Int /\ ~(b.header.v > 1) /\ ~(b.header.v < 1)
  BY <1>1 DEF TryDecrypt, Blobs, Headers
<1>3. b.header.v = 1
  BY <1>2
<1>4. TryDecrypt(t, b) = b.text /\ b.header.app \in {None, App}
  BY <1>1, <1>2 DEF TryDecrypt
<1>5. b.text \in Maps \cup {Malformed}
  BY <1>1 DEF Blobs
<1> QED
  BY <1>1, <1>3, <1>4, <1>5 DEF IsOurs

(* FAILED is the answer to no blob that the caller's own passphrase opens, *)
(* to none of a newer version, and to none that the build cannot derive    *)
(* the key of.                                                             *)
LEMMA FailedFits ==
    ASSUME NEW t \in Threads, NEW b \in Blobs, TryDecrypt(t, b) = FAILED,
           b.header.v >= 1
    PROVE  LET cost == Clamp(b.header.cost)
           IN  /\ b.header.v = 1
               /\ Derive(t, cost) # KDF_UNAVAILABLE
               /\ \/ b.key # Key(PassOf[t], cost)
                  \/ b.aad # b.header
                  \/ b.header.app \notin {None, App}
<1> DEFINE cost == Clamp(b.header.cost)
<1>1. b # Garbled
  BY EncryptedAssumption
<1>2. b.header.v \in Int /\ b.text \in Maps \cup {Malformed}
  BY DEF Blobs, Headers
<1>3. ~(b.header.v > 1)
  BY <1>1, EncryptedAssumption DEF TryDecrypt
<1>4. b.header.v = 1 /\ ~(b.header.v < 1)
  BY <1>2, <1>3
<1>5. Derive(t, cost) # KDF_UNAVAILABLE
  BY <1>1, <1>3, <1>4, EncryptedAssumption DEF TryDecrypt
<1>6. Derive(t, cost) = Key(PassOf[t], cost)
  BY <1>5 DEF Derive
<1>7. TryDecrypt(t, b) # b.text
  BY <1>2, EncryptedAssumption
<1> QED
  BY <1>1, <1>3, <1>4, <1>5, <1>6, <1>7 DEF TryDecrypt

(* A change to a map gives a map. *)
LEMMA ApplyIsMap ==
    ASSUME NEW r \in Requests, NEW m \in Maps
    PROVE  Apply(r, m) \in Maps
BY DEF Apply, Requests, Maps

LEMMA GetIsNoRequest == Get \notin Requests /\ None \notin Requests
<1>1. \A r \in Requests : r.name \in Names
  BY DEF Requests
<1> QED
  BY <1>1, EncryptedAssumption DEF Get

-----------------------------------------------------------------------------
(* The steps of a call. *)

StepOf(t) ==
    \/ \E r \in RequestsOf[t] : Call(t, r)
    \/ t \in Readers /\ Call(t, Get)
    \/ Lock(t) \/ CheckKdf(t) \/ Probe(t)
    \/ ReadNothing(t) \/ Read(t) \/ ReadFails(t)
    \/ CheckMode(t) \/ Record(t) \/ PrintNotice(t) \/ Decrypt(t)
    \/ Save(t) \/ WriteFails(t) \/ Replace(t) \/ Sync(t)
    \/ Interrupt(t) \/ Leave(t)

\* The three ways a load ends: _load raises, there is nothing to save, or the
\* map of the store is about to be saved with a change.
Refuses(t) ==
    /\ \/ Decide(t, "CredentialsError")
       \/ /\ Decide(t, "DecryptionError")
          /\ phase[t] = "decrypt" /\ TryDecrypt(t, got[t]) = FAILED
    /\ UNCHANGED <<loaded, stored>>

Returns(t) ==
    /\ Decide(t, "ok")
    /\ stored' = [stored EXCEPT ![t] = request[t] # Get]
    /\ UNCHANGED loaded
    /\ request[t] # Get /\ Exclusive =>
          /\ StoreMap \in Maps
          /\ request[t].value = None /\ StoreMap[request[t].name] = None

Saves(t) ==
    /\ request[t] # Get
    /\ \E m \in Maps :
          /\ Exclusive => StoreMap = m
          /\ loaded' = [loaded EXCEPT ![t] = Apply(request[t], m)]
    /\ Goto(t, "save")
    /\ UNCHANGED <<stored, outcome>>

(* A call that loads the store has seen what the store holds. *)
LEMMA LoadStep ==
    ASSUME TypeOK, CallInv, FreshInv, NEW t \in Threads,
           ReadNothing(t) \/ Decrypt(t)
    PROVE  /\ phase[t] \in {"read", "decrypt"}
           /\ UNCHANGED <<fileVars, lock, procVars, request, got>>
           /\ Refuses(t) \/ Returns(t) \/ Saves(t)
<1>1. phase[t] \in {"read", "decrypt"} /\ phase[t] # "out"
  BY DEF ReadNothing, Decrypt, At
<1>2. UNCHANGED <<fileVars, lock, procVars, request, got>>
  BY DEF ReadNothing, Decrypt
<1>3. request[t] # Get => request[t] \in Requests
  BY <1>1 DEF CallInv
<1>4. ASSUME NEW m \in Maps, Use(t, m),
             request[t] # Get /\ Exclusive => StoreMap = m
      PROVE  Returns(t) \/ Saves(t)
  <2>1. CASE request[t] = Get
    BY <1>4, <2>1 DEF Use, Returns
  <2>2. CASE /\ request[t] # Get /\ request[t].value = None
             /\ m[request[t].name] = None
    BY <1>4, <2>2 DEF Use, Returns
  <2>3. CASE ~(request[t] = Get \/ (request[t].value = None
                                      /\ m[request[t].name] = None))
    BY <1>4, <2>3 DEF Use, Saves
  <2> QED
    BY <2>1, <2>2, <2>3
<1>5. CASE ReadNothing(t)
  <2>1. EmptyMap \in Maps
    BY DEF EmptyMap, Maps
  <2>2. StoreMap = EmptyMap /\ Use(t, EmptyMap)
    BY <1>5 DEF ReadNothing, StoreMap
  <2> QED
    BY <1>1, <1>2, <1>4, <2>1, <2>2
<1>6. CASE Decrypt(t)
  <2> DEFINE text == TryDecrypt(t, got[t])
  <2>1. phase[t] = "decrypt" /\ got[t] \in Blobs \cup {Garbled}
    BY <1>6 DEF Decrypt, At, CallInv, Holding
  <2>2. \/ Refuses(t)
        \/ /\ Use(t, text)
           /\ text \notin {KDF_UNAVAILABLE, NEWER_VERSION, Malformed, FAILED}
    BY <1>6, <2>1 DEF Decrypt, Refuse, Refuses
  <2>3. ASSUME text \notin {KDF_UNAVAILABLE, NEWER_VERSION, Malformed, FAILED},
               Use(t, text)
        PROVE  Returns(t) \/ Saves(t)
    <3>1. /\ got[t] # Absent /\ IsOurs(got[t])
          /\ text = got[t].text /\ text \in Maps
      BY <2>1, <2>3, OpensOnlyOurs
    <3>2. request[t] # Get /\ Exclusive => got[t] = blob
      BY <1>3, <2>1 DEF FreshInv, Holding
    <3>3. request[t] # Get /\ Exclusive => StoreMap = text
      BY <3>1, <3>2 DEF StoreMap
    <3> QED
      BY <1>4, <2>3, <3>1, <3>3
  <2> QED
    BY <1>1, <1>2, <2>2, <2>3
<1> QED
  BY <1>5, <1>6

(* A step of one call leaves the others where they are. *)
LEMMA OthersStay ==
    ASSUME TypeOK, NEW t \in Threads, StepOf(t), NEW u \in Threads, u # t
    PROVE  /\ phase'[u] = phase[u] /\ request'[u] = request[u]
           /\ got'[u] = got[u] /\ loaded'[u] = loaded[u]
           /\ stored'[u] = stored[u] /\ outcome'[u] = outcome[u]
<1>1. CASE \/ \E r \in RequestsOf[t] : Call(t, r)
           \/ t \in Readers /\ Call(t, Get)
           \/ Lock(t) \/ CheckKdf(t) \/ Probe(t) \/ Read(t) \/ ReadFails(t)
  BY <1>1 DEF TypeOK, callVars, Goto, Decide, Call, Lock, CheckKdf, Probe,
              Read, ReadFails
<1>2. CASE ReadNothing(t) \/ Decrypt(t)
  BY <1>2 DEF TypeOK, Goto, Decide, ReadNothing, Decrypt, Refuse, Use
<1>3. CASE \/ CheckMode(t) \/ Record(t) \/ PrintNotice(t) \/ Save(t)
           \/ WriteFails(t) \/ Replace(t) \/ Sync(t) \/ Interrupt(t)
  BY <1>3 DEF TypeOK, callVars, Goto, Decide, CheckMode, Record, PrintNotice,
              Save, WriteFails, Replace, Sync, Interrupt
<1>4. CASE Leave(t)
  BY <1>4 DEF TypeOK, Goto, Leave
<1> QED
  BY <1>1, <1>2, <1>3, <1>4 DEF StepOf

-----------------------------------------------------------------------------
(* Every action keeps the types. *)
LEMMA TypeStep ==
    ASSUME EncryptedInv, NEW t \in Threads, StepOf(t)
    PROVE  TypeOK'
<1> USE EncryptedAssumption
<1>1. TypeOK /\ CallInv /\ FreshInv
  BY DEF EncryptedInv
<1>2. CASE \E r \in Requests \cup {Get} : Call(t, r)
  BY <1>1, <1>2 DEF TypeOK, fileVars, procVars, Goto, Phases, Call
<1>3. CASE Lock(t) \/ CheckKdf(t) \/ Probe(t)
  BY <1>1, <1>3 DEF TypeOK, fileVars, procVars, callVars, Goto, Decide,
                    Phases, Outcomes, Lock, CheckKdf, Probe
<1>4. CASE Read(t) \/ ReadFails(t) \/ CheckMode(t)
  BY <1>1, <1>4 DEF TypeOK, fileVars, procVars, callVars, Goto, Decide,
                    Phases, Outcomes, Read, ReadFails, CheckMode
<1>5. CASE ReadNothing(t) \/ Decrypt(t)
  <2>1. /\ UNCHANGED <<fileVars, lock, procVars, request, got>>
        /\ Refuses(t) \/ Returns(t) \/ Saves(t)
    BY <1>1, <1>5, LoadStep
  <2>2. CASE Refuses(t) \/ Returns(t)
    BY <1>1, <2>1, <2>2 DEF TypeOK, fileVars, procVars, Decide, Goto,
                            Refuses, Returns, Phases, Outcomes
  <2>3. CASE Saves(t)
    <3>1. request[t] \in Requests
      BY <1>1, <1>5, <2>3 DEF CallInv, Saves, ReadNothing, Decrypt, At
    <3>2. PICK m \in Maps :
             loaded' = [loaded EXCEPT ![t] = Apply(request[t], m)]
      BY <2>3 DEF Saves
    <3>3. Apply(request[t], m) \in Maps
      BY <3>1, ApplyIsMap
    <3> QED
      BY <1>1, <2>1, <2>3, <3>2, <3>3 DEF TypeOK, fileVars, procVars, Goto,
                                          Saves, Phases
  <2> QED
    BY <2>1, <2>2, <2>3
<1>6. CASE Record(t) \/ PrintNotice(t)
  BY <1>1, <1>6 DEF TypeOK, fileVars, procVars, callVars, Goto, Decide,
                    Phases, Outcomes, Record, PrintNotice
<1>7. CASE Save(t) \/ WriteFails(t) \/ Sync(t) \/ Interrupt(t)
  BY <1>1, <1>7 DEF TypeOK, fileVars, procVars, callVars, Goto, Decide,
                    Phases, Outcomes, Save, WriteFails, Sync, Interrupt
<1>8. CASE Replace(t)
  <2>1. loaded[t] \in Maps /\ Build(t) = "full"
    BY <1>8 DEF EncryptedInv, CallInv, BuildInv, Replace, At
  <2>2. blob' \in Blobs /\ author' \in Passes
    BY <1>8, <2>1, EncryptSeals DEF Replace
  <2> QED
    BY <1>1, <1>8, <2>2 DEF TypeOK, procVars, Goto, Phases, Replace
<1>9. CASE Leave(t)
  BY <1>1, <1>9 DEF TypeOK, fileVars, procVars, Goto, Phases, Leave
<1> QED
  BY <1>2, <1>3, <1>4, <1>5, <1>6, <1>7, <1>8, <1>9 DEF StepOf

(* What a call holds at each statement. *)
LEMMA CallStep ==
    ASSUME EncryptedInv, NEW t \in Threads, StepOf(t)
    PROVE  CallInv'
<1> DEFINE Inv(u) ==
      /\ phase[u] = "out" => request[u] = None
      /\ phase[u] # "out" => request[u] \in Requests \cup {Get}
      /\ phase[u] \in {"lock", "save", "write", "sync"} =>
            request[u] \in Requests
      /\ phase[u] # "leave" => outcome[u] = None
      /\ phase[u] # "leave" => (stored[u] <=> phase[u] = "sync")
      /\ phase[u] \in Holding => got[u] \in Blobs \cup {Garbled}
      /\ phase[u] \in {"save", "write"} => loaded[u] \in Maps
<1>1. TypeOK /\ CallInv /\ FreshInv /\ Inv(t)
  BY DEF EncryptedInv, CallInv
<1>2. \A u \in Threads \ {t} : Inv(u)'
  BY <1>1, OthersStay DEF CallInv
<1>3. Inv(t)'
  <2> USE <1>1, EncryptedAssumption DEF TypeOK, Holding
  <2>1. CASE \/ \E r \in RequestsOf[t] : Call(t, r)
             \/ t \in Readers /\ Call(t, Get)
    BY <2>1 DEF At, Goto, Call
  <2>2. CASE Lock(t) \/ CheckKdf(t) \/ Probe(t) \/ ReadFails(t)
    BY <2>2 DEF At, Goto, Decide, callVars, Lock, CheckKdf, Probe, ReadFails
  <2>3. CASE ReadNothing(t) \/ Decrypt(t)
    <3>1. /\ UNCHANGED <<request, got>> /\ phase[t] \in {"read", "decrypt"}
          /\ Refuses(t) \/ Returns(t) \/ Saves(t)
      BY <2>3, LoadStep
    <3>2. CASE Refuses(t) \/ Returns(t)
      BY <3>1, <3>2 DEF Decide, Goto, Refuses, Returns
    <3>3. CASE Saves(t)
      <4>1. request[t] \in Requests
        BY <3>1, <3>3 DEF Saves
      <4>2. PICK m \in Maps :
               loaded' = [loaded EXCEPT ![t] = Apply(request[t], m)]
        BY <3>3 DEF Saves
      <4>3. Apply(request[t], m) \in Maps
        BY <4>1, ApplyIsMap
      <4> QED
        BY <3>1, <3>3, <4>1, <4>2, <4>3 DEF Goto, Saves
    <3> QED
      BY <3>1, <3>2, <3>3
  <2>4. CASE Read(t)
    BY <2>4 DEF At, Goto, Read
  <2>5. CASE CheckMode(t) \/ Record(t) \/ PrintNotice(t)
    BY <2>5 DEF At, Goto, Decide, callVars, CheckMode, Record, PrintNotice
  <2>6. CASE Save(t) \/ WriteFails(t) \/ Sync(t) \/ Interrupt(t)
    BY <2>6 DEF At, Goto, Decide, callVars, Save, WriteFails, Sync, Interrupt
  <2>7. CASE Replace(t)
    BY <2>7 DEF At, Goto, Replace
  <2>8. CASE Leave(t)
    BY <2>8 DEF At, Goto, Leave
  <2> QED
    BY <2>1, <2>2, <2>3, <2>4, <2>5, <2>6, <2>7, <2>8 DEF StepOf
<1> QED
  BY <1>2, <1>3 DEF CallInv

(* Only a writer inside the lock replaces the file. *)
LEMMA FileStays ==
    ASSUME EncryptedInv, NEW t \in Threads, StepOf(t)
    PROVE  \/ UNCHANGED fileVars
           \/ /\ Replace(t) /\ t \in lock
              /\ Build(t) = "full"
              /\ loaded[t] \in Maps
<1>1. CASE Replace(t)
  BY <1>1 DEF EncryptedInv, CallInv, LockInv, BuildInv, Replace, At, Locked,
              Phases
<1>2. CASE ~Replace(t)
  BY <1>2 DEF StepOf, Call, Lock, CheckKdf, Probe, ReadNothing, Read,
              ReadFails, CheckMode, Record, PrintNotice, Decrypt, Save,
              WriteFails, Sync, Interrupt, Leave
<1> QED
  BY <1>1, <1>2

(* Every writer past the lock is inside it and, where the OS lock can be   *)
(* had, alone there.                                                       *)
LEMMA LockStep ==
    ASSUME EncryptedInv, NEW t \in Threads, StepOf(t)
    PROVE  LockInv'
<1>1. TypeOK /\ CallInv /\ LockInv
  BY DEF EncryptedInv
<1>2. \A u \in Threads \ {t} : phase'[u] = phase[u] /\ request'[u] = request[u]
  BY <1>1, OthersStay
<1>3. CASE Lock(t)
  <2>1. lock' = lock \cup {t}
    BY <1>3 DEF Lock
  <2>2. Exclusive => lock = {}
    BY <1>3 DEF Lock, Exclusive
  <2>3. Exclusive => \A u, v \in lock' : u = v
    BY <2>1, <2>2
  <2> QED
    BY <1>1, <1>2, <2>1, <2>3 DEF LockInv, Exclusive
<1>4. CASE Leave(t)
  <2>1. phase'[t] = "out"
    BY <1>1, <1>4 DEF Leave, Goto, TypeOK
  <2>2. lock' = lock \ {t}
    BY <1>4 DEF Leave
  <2> QED
    BY <1>1, <1>2, <2>1, <2>2 DEF LockInv, Locked, Exclusive
<1>5. CASE \/ \E r \in RequestsOf[t] : Call(t, r)
           \/ t \in Readers /\ Call(t, Get)
  <2>1. /\ phase'[t] = "lock" \/ request'[t] = Get
        /\ lock' = lock
    BY <1>1, <1>5 DEF TypeOK, Call, Goto
  <2> QED
    BY <1>1, <1>2, <2>1, GetIsNoRequest DEF LockInv, Locked, Exclusive
<1>6. CASE \/ CheckKdf(t) \/ Probe(t) \/ ReadNothing(t) \/ Read(t)
           \/ ReadFails(t) \/ CheckMode(t) \/ Record(t) \/ PrintNotice(t)
           \/ Decrypt(t) \/ Save(t) \/ WriteFails(t) \/ Replace(t)
           \/ Sync(t) \/ Interrupt(t)
  <2>1. lock' = lock /\ request' = request
    BY <1>6 DEF callVars, CheckKdf, Probe, ReadNothing, Read, ReadFails,
                CheckMode, Record, PrintNotice, Decrypt, Save, WriteFails,
                Replace, Sync, Interrupt
  <2>2. CASE Interrupt(t)
    BY <1>1, <1>2, <2>1, <2>2 DEF LockInv, Locked, TypeOK, Interrupt,
                                  Decide, Goto, Exclusive
  <2>3. CASE ~Interrupt(t)
    <3>1. phase[t] \in Locked
      BY <1>6, <2>3 DEF Locked, Phases, At, CheckKdf, Probe, ReadNothing,
                        Read, ReadFails, CheckMode, Record, PrintNotice,
                        Decrypt, Save, WriteFails, Replace, Sync
    <3> QED
      BY <1>1, <1>2, <2>1, <3>1 DEF LockInv, Exclusive
  <2> QED
    BY <2>2, <2>3
<1> QED
  BY <1>3, <1>4, <1>5, <1>6 DEF StepOf

(* A build's probe succeeds before anything is derived on it. *)
LEMMA BuildStep ==
    ASSUME EncryptedInv, NEW t \in Threads, StepOf(t)
    PROVE  BuildInv'
<1>1. TypeOK /\ CallInv /\ FreshInv /\ BuildInv
  BY DEF EncryptedInv
<1>2. \A u \in Threads \ {t} : phase'[u] = phase[u]
  BY <1>1, OthersStay
<1>3. build' = build /\ \A p \in Procs : kdf[p] => kdf'[p]
  BY <1>1 DEF TypeOK, procVars, StepOf, Call, Lock, CheckKdf, Probe,
              ReadNothing, Read, ReadFails, CheckMode, Record, PrintNotice,
              Decrypt, Save, WriteFails, Replace, Sync, Interrupt, Leave
<1>4. \A p \in Procs : kdf'[p] => kdf[p] \/ build[p] # "none"
  BY <1>1, EncryptedAssumption
     DEF TypeOK, procVars, StepOf, Call, Lock, CheckKdf, Probe,
         ReadNothing, Read, ReadFails, CheckMode, Record, PrintNotice,
         Decrypt, Save, WriteFails, Replace, Sync, Interrupt, Leave, Build
<1>5. ProcOf[t] \in Procs /\ \A u \in Threads : ProcOf[u] \in Procs
  BY EncryptedAssumption
<1>6. phase'[t] \in Probed => kdf'[ProcOf[t]]
  <2>1. CASE phase[t] \in Probed
    BY <1>1, <1>3, <1>5, <2>1 DEF BuildInv
  <2>2. CASE phase[t] \notin Probed
    <3>1. CASE CheckKdf(t) \/ Probe(t)
      BY <1>1, <1>5, <3>1 DEF TypeOK, CheckKdf, Probe, Goto, Decide, Probed,
                              Locked, Phases, callVars, procVars
    <3>2. CASE ~(CheckKdf(t) \/ Probe(t))
      <4>1. phase'[t] \in {"lock", "kdf", "leave", "out"}
        BY <1>1, <2>2, <3>2
           DEF TypeOK, Goto, Decide, At, Probed, Locked, Phases, StepOf,
               Call, Lock, ReadNothing, Read, ReadFails, CheckMode, Record,
               PrintNotice, Decrypt, Save, WriteFails, Replace, Sync,
               Interrupt, Leave
      <4> QED
        BY <4>1 DEF Probed, Locked
    <3> QED
      BY <3>1, <3>2
  <2> QED
    BY <2>1, <2>2
<1>7. phase'[t] \in {"write", "sync"} => Build(t) = "full"
  <2>1. CASE Save(t)
    <3>1. WriteCost.p # 1
      BY DEF WriteCost
    <3> QED
      BY <1>1, <2>1, <3>1 DEF TypeOK, Save, Goto, Decide, Derive
  <2>2. CASE Replace(t)
    BY <1>1, <2>2 DEF TypeOK, Replace, Goto, At, BuildInv
  <2>3. CASE ReadNothing(t) \/ Decrypt(t)
    BY <1>1, <2>3, LoadStep
       DEF TypeOK, Refuses, Returns, Saves, Goto, Decide
  <2>4. CASE ~(Save(t) \/ Replace(t) \/ ReadNothing(t) \/ Decrypt(t))
    BY <1>1, <2>4
       DEF TypeOK, Goto, Decide, StepOf, Call, Lock, CheckKdf, Probe, Read,
           ReadFails, CheckMode, Record, PrintNotice, WriteFails, Sync,
           Interrupt, Leave
  <2> QED
    BY <2>1, <2>2, <2>3, <2>4
<1>8. \A u \in Threads : Build(u)' = Build(u)
  BY <1>3 DEF Build
<1>9. \A u \in Threads : phase'[u] \in Probed => kdf'[ProcOf[u]]
  BY <1>1, <1>2, <1>3, <1>5, <1>6 DEF BuildInv
<1>10. \A p \in Procs : kdf'[p] => build'[p] # "none"
  BY <1>1, <1>3, <1>4 DEF BuildInv
<1>11. \A u \in Threads : phase'[u] \in {"write", "sync"} => Build(u) = "full"
  BY <1>1, <1>2, <1>7 DEF BuildInv
<1> QED
  BY <1>8, <1>9, <1>10, <1>11 DEF BuildInv

(* What a writer has read inside the lock stays what the file holds. *)
LEMMA FreshStep ==
    ASSUME EncryptedInv, NEW t \in Threads, StepOf(t)
    PROVE  FreshInv'
<1> SUFFICES ASSUME Exclusive PROVE FreshInv'
  BY DEF FreshInv, Exclusive
<1> DEFINE Inv(u) ==
      /\ phase[u] \in Holding /\ request[u] \in Requests => got[u] = blob
      /\ phase[u] \in {"save", "write"} =>
            StoreMap \in Maps /\ loaded[u] = Apply(request[u], StoreMap)
<1>1. TypeOK /\ CallInv /\ LockInv /\ FreshInv /\ Inv(t)
  BY DEF EncryptedInv, FreshInv
<1>2. ASSUME NEW u \in Threads \ {t}
      PROVE  Inv(u)'
  <2>1. /\ phase'[u] = phase[u] /\ request'[u] = request[u]
        /\ got'[u] = got[u] /\ loaded'[u] = loaded[u]
    BY <1>1, OthersStay
  <2>2. CASE UNCHANGED fileVars
    <3>1. StoreMap' = StoreMap /\ blob' = blob
      BY <2>2 DEF StoreMap, fileVars
    <3> QED
      BY <1>1, <2>1, <3>1 DEF FreshInv, Apply
  <2>3. CASE t \in lock
    <3>1. ~(phase[u] \in Locked /\ request[u] \in Requests)
      BY <1>1, <2>3 DEF LockInv
    <3>2. phase[u] \in {"save", "write"} => request[u] \in Requests
      BY <1>1 DEF CallInv
    <3>3. /\ ~(phase[u] \in Holding /\ request[u] \in Requests)
          /\ phase[u] \notin {"save", "write"}
      BY <3>1, <3>2 DEF Locked, Phases, Holding
    <3> QED
      BY <2>1, <3>3
  <2> QED
    BY <2>2, <2>3, FileStays
<1>3. Inv(t)'
  <2>1. CASE Replace(t)
    BY <1>1, <2>1 DEF TypeOK, Replace, Goto, Holding
  <2>2. CASE ReadNothing(t) \/ Decrypt(t)
    <3>1. /\ UNCHANGED <<fileVars, request>>
          /\ Refuses(t) \/ Returns(t) \/ Saves(t)
      BY <1>1, <2>2, LoadStep
    <3>2. StoreMap' = StoreMap
      BY <3>1 DEF StoreMap, fileVars
    <3>3. CASE Refuses(t) \/ Returns(t)
      BY <1>1, <3>3 DEF TypeOK, Refuses, Returns, Decide, Goto, Holding
    <3>4. CASE Saves(t)
      <4>1. /\ phase'[t] = "save" /\ request'[t] = request[t]
            /\ loaded'[t] = Apply(request[t], StoreMap) /\ StoreMap \in Maps
        BY <1>1, <3>1, <3>4 DEF TypeOK, Saves, Goto
      <4> QED
        BY <3>2, <4>1 DEF Apply, Holding
    <3> QED
      BY <3>1, <3>3, <3>4
  <2>3. CASE Read(t)
    BY <1>1, <2>3 DEF TypeOK, Read, Goto, Holding, fileVars
  <2>4. CASE CheckMode(t) \/ Record(t) \/ PrintNotice(t)
    <3>1. UNCHANGED <<blob, request, got>>
      BY <2>4 DEF CheckMode, Record, PrintNotice, fileVars, callVars
    <3>2. /\ phase[t] \in Holding
          /\ phase'[t] \in Holding \cup {"leave"}
      BY <1>1, <2>4 DEF TypeOK, CheckMode, Record, PrintNotice, At, Goto,
                        Decide, Holding
    <3> QED
      BY <1>1, <3>1, <3>2 DEF Holding
  <2>5. CASE Save(t)
    <3>1. UNCHANGED <<blob, request, loaded>> /\ phase[t] = "save"
      BY <2>5 DEF Save, fileVars, callVars, At
    <3>2. phase'[t] \notin Holding
      BY <1>1, <2>5 DEF TypeOK, Save, Goto, Decide, Holding
    <3>3. StoreMap' = StoreMap
      BY <3>1 DEF StoreMap
    <3> QED
      BY <1>1, <3>1, <3>2, <3>3 DEF Apply
  <2>6. CASE \/ \E r \in RequestsOf[t] : Call(t, r)
             \/ t \in Readers /\ Call(t, Get)
             \/ Lock(t) \/ CheckKdf(t) \/ Probe(t) \/ ReadFails(t)
             \/ WriteFails(t) \/ Sync(t) \/ Interrupt(t) \/ Leave(t)
    <3>1. phase'[t] \notin Holding \cup {"save", "write"}
      BY <1>1, <2>6 DEF TypeOK, Goto, Decide, Holding, Call, Lock, CheckKdf,
                        Probe, ReadFails, WriteFails, Sync, Interrupt, Leave
    <3> QED
      BY <3>1
  <2> QED
    BY <2>1, <2>2, <2>3, <2>4, <2>5, <2>6 DEF StepOf
<1> QED
  BY <1>2, <1>3 DEF FreshInv

(* A blob with an author is one that _encrypt has sealed for it. *)
LEMMA AuthorStep ==
    ASSUME EncryptedInv, NEW t \in Threads, StepOf(t)
    PROVE  AuthorInv'
<1>1. CASE UNCHANGED fileVars
  BY <1>1 DEF EncryptedInv, AuthorInv, fileVars
<1>2. CASE Replace(t) /\ Build(t) = "full" /\ loaded[t] \in Maps
  <2>1. blob' = Encrypt(t, loaded[t]) /\ author' = PassOf[t]
    BY <1>2 DEF Replace
  <2> QED
    BY <1>2, <2>1, EncryptSeals DEF AuthorInv
<1> QED
  BY <1>1, <1>2, FileStays

(* A DecryptionError is decided by _try_decrypt alone. *)
LEMMA VerdictStep ==
    ASSUME EncryptedInv, NEW t \in Threads, StepOf(t)
    PROVE  VerdictInv'
<1> DEFINE Inv(u) ==
      phase[u] = "leave" /\ outcome[u] = "DecryptionError" =>
          got[u] \in Blobs \cup {Garbled} /\ TryDecrypt(u, got[u]) = FAILED
<1>1. TypeOK /\ CallInv /\ FreshInv /\ VerdictInv
  BY DEF EncryptedInv
<1>2. build' = build
  BY DEF procVars, StepOf, Call, Lock, CheckKdf, Probe, ReadNothing, Read,
         ReadFails, CheckMode, Record, PrintNotice, Decrypt, Save,
         WriteFails, Replace, Sync, Interrupt, Leave
<1>3. ASSUME NEW u \in Threads, got'[u] = got[u]
      PROVE  TryDecrypt(u, got[u])' = TryDecrypt(u, got[u])
  BY <1>2, <1>3 DEF TryDecrypt, Derive, Build
<1>4. \A u \in Threads \ {t} : Inv(u)'
  BY <1>1, <1>3, OthersStay DEF VerdictInv
<1>5. Inv(t)'
  <2>1. CASE ReadNothing(t) \/ Decrypt(t)
    <3>1. /\ got' = got
          /\ Refuses(t) \/ Returns(t) \/ Saves(t)
      BY <1>1, <2>1, LoadStep
    <3>2. CASE outcome'[t] = "DecryptionError" /\ phase'[t] = "leave"
      <4>1. phase[t] = "decrypt" /\ TryDecrypt(t, got[t]) = FAILED
        BY <1>1, <2>1, <3>1, <3>2
           DEF TypeOK, CallInv, Refuses, Returns, Saves, Decide, Goto,
               ReadNothing, Decrypt, At
      <4>2. got[t] \in Blobs \cup {Garbled}
        BY <1>1, <4>1 DEF CallInv, Holding
      <4> QED
        BY <1>3, <3>1, <4>1, <4>2
    <3> QED
      BY <3>2
  <2>2. CASE ~(ReadNothing(t) \/ Decrypt(t))
    <3>1. ~(phase'[t] = "leave" /\ outcome'[t] = "DecryptionError")
      BY <1>1, <2>2
         DEF TypeOK, CallInv, Goto, Decide, At, StepOf, Call, Lock,
             CheckKdf, Probe, Read, ReadFails, CheckMode, Record,
             PrintNotice, Save, WriteFails, Replace, Sync, Interrupt, Leave
    <3> QED
      BY <3>1
  <2> QED
    BY <2>1, <2>2
<1> QED
  BY <1>4, <1>5 DEF VerdictInv

(* Only the first to record a file goes on to print. *)
LEMMA NoticeStep ==
    ASSUME EncryptedInv, NEW t \in Threads, StepOf(t)
    PROVE  NoticeInv'
<1>1. TypeOK /\ NoticeInv
  BY DEF EncryptedInv
<1>2. CASE Record(t)
  <2>1. ProcOf[t] \in Procs /\ \A u \in Threads : ProcOf[u] \in Procs
    BY EncryptedAssumption
  <2> QED
    BY <1>1, <1>2, <2>1 DEF TypeOK, NoticeInv, ModeReportedOnce, Record
<1>3. CASE ~Record(t)
  <2>1. UNCHANGED <<warned, notices>>
    BY <1>3 DEF procVars, StepOf, Call, Lock, CheckKdf, Probe, ReadNothing,
                Read, ReadFails, CheckMode, PrintNotice, Decrypt, Save,
                WriteFails, Replace, Sync, Interrupt, Leave
  <2> QED
    BY <1>1, <2>1 DEF NoticeInv, ModeReportedOnce
<1> QED
  BY <1>2, <1>3

-----------------------------------------------------------------------------
LEMMA InitHolds == Init => EncryptedInv
<1> SUFFICES ASSUME Init PROVE EncryptedInv
  OBVIOUS
<1> USE EncryptedAssumption DEF Init
<1>1. TypeOK
  BY DEF TypeOK, Phases
<1>2. CallInv /\ LockInv
  BY DEF CallInv, LockInv, Locked, Holding
<1>3. BuildInv /\ FreshInv
  BY DEF BuildInv, FreshInv, Probed, Locked, Holding
<1>4. AuthorInv /\ VerdictInv /\ NoticeInv
  BY DEF AuthorInv, VerdictInv, NoticeInv, ModeReportedOnce
<1> QED
  BY <1>1, <1>2, <1>3, <1>4 DEF EncryptedInv

LEMMA InvStep ==
    ASSUME EncryptedInv, [Next]_encVars
    PROVE  EncryptedInv'
<1>1. CASE UNCHANGED encVars
  <2>1. /\ UNCHANGED <<blob, author, loose, lock, build, kdf, warned>>
        /\ UNCHANGED <<notices, request, got, loaded, stored, phase>>
        /\ UNCHANGED outcome
    BY <1>1 DEF encVars, fileVars, procVars, callVars
  <2>2. TypeOK' /\ CallInv' /\ LockInv' /\ AuthorInv'
    BY <2>1 DEF EncryptedInv, TypeOK, CallInv, LockInv, AuthorInv, Exclusive
  <2>3. BuildInv' /\ NoticeInv'
    BY <2>1 DEF EncryptedInv, BuildInv, Build, NoticeInv, ModeReportedOnce
  <2>4. FreshInv'
    BY <2>1 DEF EncryptedInv, FreshInv, StoreMap, Apply, Exclusive
  <2>5. VerdictInv'
    BY <2>1 DEF EncryptedInv, VerdictInv, TryDecrypt, Derive, Build
  <2> QED
    BY <2>2, <2>3, <2>4, <2>5 DEF EncryptedInv
<1>2. ASSUME NEW t \in Threads, StepOf(t)
      PROVE  EncryptedInv'
  BY <1>2, TypeStep, CallStep, LockStep, BuildStep, FreshStep, AuthorStep,
     VerdictStep, NoticeStep DEF EncryptedInv
<1> QED
  BY <1>1, <1>2 DEF Next, StepOf

(* The inductive invariant of the encrypted store. *)
LEMMA EncryptedInvariant == EncryptedSpec => []EncryptedInv
BY InitHolds, InvStep, PTL DEF EncryptedSpec

(* Every variable keeps its type: set and unset leave a whole blob behind, *)
(* and end in one of the outcomes that encrypted.py knows.                 *)
THEOREM EncryptedTypeCorrect == EncryptedSpec => []TypeOK
<1>1. EncryptedInv => TypeOK
  BY DEF EncryptedInv
<1> QED
  BY <1>1, EncryptedInvariant, PTL

(* _ensure_kdf_available comes before the read of the store and before any *)
(* use of the passphrase, whichever thread of the process has set the      *)
(* flag.                                                                   *)
THEOREM BuildsAreProbed == EncryptedSpec => []ProbedBeforeUse
<1>1. EncryptedInv => ProbedBeforeUse
  <2> SUFFICES ASSUME EncryptedInv, NEW t \in Threads,
                      phase[t] \in Probed
               PROVE  kdf[ProcOf[t]] /\ Build(t) # "none"
    BY DEF ProbedBeforeUse, Probed, Locked
  <2> QED
    BY EncryptedAssumption DEF EncryptedInv, BuildInv, Build
<1> QED
  BY <1>1, EncryptedInvariant, PTL

(* Two threads of a process never both report the mode of the file: the    *)
(* path is looked up and recorded under one lock (permissions.py).         *)
THEOREM ModesAreReportedOnce == EncryptedSpec => []ModeReportedOnce
<1>1. EncryptedInv => ModeReportedOnce
  BY DEF EncryptedInv, NoticeInv
<1> QED
  BY <1>1, EncryptedInvariant, PTL

(* What set or unset has written opens for everyone with its passphrase    *)
(* and a build that derives: the clamp is a no-op for it, and the header   *)
(* it is bound to is the one that _try_decrypt asks for.                   *)
THEOREM OwnBlobsStayOpen == EncryptedSpec => []OwnBlobsOpen
<1>1. EncryptedInv => OwnBlobsOpen
  <2> SUFFICES ASSUME EncryptedInv, author # None, NEW t \in Threads,
                      PassOf[t] = author, Build(t) = "full"
               PROVE  TryDecrypt(t, blob) = blob.text
    BY DEF OwnBlobsOpen
  <2> QED
    BY SealedOpens DEF EncryptedInv, AuthorInv
<1> QED
  BY <1>1, EncryptedInvariant, PTL

(* _load raises DecryptionError for no newer store, for no build that      *)
(* cannot derive the key, and for no blob that the caller's own passphrase *)
(* opens.                                                                  *)
THEOREM VerdictsFit == EncryptedSpec => []VerdictFits
<1>1. EncryptedInv => VerdictFits
  <2> SUFFICES ASSUME EncryptedInv, NEW t \in Threads, At(t, "leave"),
                      outcome[t] = "DecryptionError", got[t] # Garbled,
                      got[t].header.v >= 1
               PROVE  LET cost == Clamp(got[t].header.cost)
                      IN  /\ got[t].header.v = 1
                          /\ Derive(t, cost) # KDF_UNAVAILABLE
                          /\ \/ got[t].key # Key(PassOf[t], cost)
                             \/ got[t].aad # got[t].header
                             \/ got[t].header.app \notin {None, App}
    BY DEF VerdictFits
  <2>1. got[t] \in Blobs /\ TryDecrypt(t, got[t]) = FAILED
    BY DEF EncryptedInv, VerdictInv, At
  <2> QED
    BY <2>1, FailedFits
<1> QED
  BY <1>1, EncryptedInvariant, PTL

-----------------------------------------------------------------------------
(* The refinement: a set or unset takes effect when its blob replaces the  *)
(* one it has read, and get is hidden.                                     *)

PendingMap == [t \in Threads |-> IF request[t] = Get THEN None ELSE request[t]]

ReplyMap == [t \in Threads |-> IF request[t] = Get THEN None ELSE outcome[t]]

AbstractStep == [Promise!Next]_(Promise!abstractVars)

(* What the abstract variables do not show is hidden. *)
LEMMA Hidden ==
    ASSUME UNCHANGED <<StoreMap, PendingMap, stored, ReplyMap>>
    PROVE  AbstractStep
BY DEF AbstractStep, Promise!abstractVars, StoreMap, PendingMap, ReplyMap

(* The outcome of a call is decided. *)
LEMMA Decides ==
    ASSUME TypeOK, NEW t \in Threads, NEW o \in Outcomes,
           UNCHANGED <<blob, request, stored>>, Decide(t, o),
           request[t] \in Requests \cup {Get},
           o = "ok" => stored[t] \/ request[t] = Get
    PROVE  AbstractStep
<1>1. UNCHANGED <<StoreMap, PendingMap, stored>>
  BY DEF StoreMap, PendingMap
<1>2. CASE request[t] = Get
  <2>1. ReplyMap' = ReplyMap
    BY <1>2 DEF ReplyMap, TypeOK, Decide
  <2> QED
    BY <1>1, <2>1, Hidden
<1>3. CASE request[t] # Get
  <2>1. ReplyMap' = [ReplyMap EXCEPT ![t] = o]
    BY <1>3 DEF ReplyMap, TypeOK, Decide
  <2>2. PendingMap[t] # None
    BY <1>3, EncryptedAssumption DEF PendingMap
  <2>3. Promise!Decide(t)
    BY <1>1, <1>3, <2>1, <2>2
       DEF Promise!Decide, StoreMap, PendingMap, ReplyMap
  <2> QED
    BY <2>3 DEF AbstractStep, Promise!Next
<1> QED
  BY <1>2, <1>3

(* A load decides how its call ends, or hides a map that will be saved. *)
LEMMA LoadKeepsPromise ==
    ASSUME Exclusive, EncryptedInv, NEW t \in Threads,
           ReadNothing(t) \/ Decrypt(t)
    PROVE  AbstractStep
<1>1. TypeOK /\ CallInv /\ FreshInv
  BY DEF EncryptedInv
<1>2. /\ phase[t] \in {"read", "decrypt"} /\ UNCHANGED <<blob, request>>
      /\ Refuses(t) \/ Returns(t) \/ Saves(t)
  BY <1>1, LoadStep DEF fileVars
<1>3. /\ request[t] \in Requests \cup {Get} /\ ~stored[t]
      /\ stored \in [Threads -> BOOLEAN]
  BY <1>1, <1>2 DEF CallInv, TypeOK
<1>4. CASE Refuses(t)
  BY <1>1, <1>2, <1>3, <1>4, Decides DEF Refuses, Outcomes
<1>5. CASE Saves(t)
  BY <1>2, <1>5, Hidden DEF Saves, StoreMap, PendingMap, ReplyMap
<1>6. CASE Returns(t) /\ request[t] = Get
  <2>1. stored' = stored /\ Decide(t, "ok")
    BY <1>3, <1>6 DEF Returns
  <2> QED
    BY <1>1, <1>2, <1>3, <1>6, <2>1, Decides DEF Outcomes
<1>7. CASE Returns(t) /\ request[t] # Get
  <2>1. /\ request[t] \in Requests
        /\ PendingMap[t] = request[t] /\ request[t] # None
    BY <1>3, <1>7, EncryptedAssumption DEF PendingMap
  <2>2. /\ StoreMap \in Maps /\ StoreMap # Malformed
        /\ request[t].value = None /\ StoreMap[request[t].name] = None
        /\ stored' = [stored EXCEPT ![t] = TRUE]
    BY <1>7, EncryptedAssumption DEF Returns
  <2>3. Promise!Effect(request[t], StoreMap) = StoreMap
    BY <2>1, <2>2 DEF Promise!Effect, Maps, Requests
  <2>4. ReplyMap' = [ReplyMap EXCEPT ![t] = "ok"]
    BY <1>1, <1>2, <1>7 DEF ReplyMap, TypeOK, Returns, Decide
  <2>5. UNCHANGED <<StoreMap, PendingMap>>
    BY <1>2 DEF StoreMap, PendingMap
  <2>6. Promise!EffectAndDecide(t)
    BY <1>3, <2>1, <2>2, <2>3, <2>4, <2>5
       DEF Promise!EffectAndDecide, StoreMap, PendingMap, ReplyMap
  <2> QED
    BY <2>6 DEF AbstractStep, Promise!Next
<1> QED
  BY <1>2, <1>4, <1>5, <1>6, <1>7

(* The rename is where a set or unset takes effect. *)
LEMMA ReplaceKeepsPromise ==
    ASSUME Exclusive, EncryptedInv, NEW t \in Threads, Replace(t)
    PROVE  AbstractStep
<1>1. /\ Build(t) = "full" /\ request[t] \in Requests
      /\ loaded[t] \in Maps /\ StoreMap \in Maps
      /\ loaded[t] = Apply(request[t], StoreMap)
  BY DEF EncryptedInv, CallInv, BuildInv, FreshInv, Replace, At
<1>2. /\ ~stored[t] /\ stored' = [stored EXCEPT ![t] = TRUE]
      /\ UNCHANGED <<request, outcome>>
      /\ blob' = Encrypt(t, loaded[t])
  BY DEF EncryptedInv, CallInv, Replace, At
<1>3. /\ blob' \in Blobs /\ blob'.text = loaded[t]
      /\ blob'.header = NewHeader
  BY <1>1, <1>2, EncryptSeals
<1>4. blob' # Absent /\ IsOurs(blob')
  BY <1>3, SealedIsOurs
<1>5. StoreMap' = Promise!Effect(request[t], StoreMap)
  BY <1>1, <1>3, <1>4 DEF StoreMap, Promise!Effect, Apply
<1>6. UNCHANGED <<PendingMap, ReplyMap>>
  BY <1>2 DEF PendingMap, ReplyMap
<1>7. PendingMap[t] = request[t] /\ request[t] # None /\ StoreMap # Malformed
  BY <1>1, GetIsNoRequest, EncryptedAssumption DEF PendingMap
<1>8. Promise!TakeEffect(t)
  BY <1>2, <1>5, <1>6, <1>7
     DEF Promise!TakeEffect, StoreMap, PendingMap, ReplyMap
<1> QED
  BY <1>8 DEF AbstractStep, Promise!Next

(* Each step of a call is a step of the promise, or hidden. *)
LEMMA StepKeepsPromise ==
    ASSUME Exclusive, EncryptedInv, NEW t \in Threads, StepOf(t)
    PROVE  AbstractStep
<1>1. TypeOK /\ CallInv
  BY DEF EncryptedInv
<1>2. ASSUME NEW r \in RequestsOf[t], Call(t, r)
      PROVE  AbstractStep
  <2>1. r \in Requests /\ r # Get /\ r \in Promise!WriteRequests
    BY EncryptedAssumption, GetIsNoRequest DEF Requests,
                                               Promise!WriteRequests
  <2>2. /\ request[t] = None /\ outcome[t] = None
        /\ request' = [request EXCEPT ![t] = r]
        /\ UNCHANGED <<blob, stored, outcome>>
    BY <1>1, <1>2 DEF CallInv, Call, At, fileVars
  <2>3. PendingMap[t] = None /\ PendingMap' = [PendingMap EXCEPT ![t] = r]
    BY <1>1, <2>1, <2>2 DEF PendingMap, TypeOK
  <2>4. UNCHANGED <<StoreMap, ReplyMap>>
    BY <1>1, <2>1, <2>2 DEF StoreMap, ReplyMap, TypeOK
  <2>5. Promise!Call(t)
    BY <2>1, <2>2, <2>3, <2>4
       DEF Promise!Call, StoreMap, PendingMap, ReplyMap
  <2> QED
    BY <2>5 DEF AbstractStep, Promise!Next
<1>3. CASE Call(t, Get)
  <2>1. /\ request[t] = None /\ outcome[t] = None
        /\ request' = [request EXCEPT ![t] = Get]
        /\ UNCHANGED <<blob, stored, outcome>>
    BY <1>1, <1>3 DEF CallInv, Call, At, fileVars
  <2>2. UNCHANGED <<StoreMap, PendingMap, ReplyMap>>
    BY <1>1, <2>1 DEF StoreMap, PendingMap, ReplyMap, TypeOK
  <2> QED
    BY <2>1, <2>2, Hidden
<1>4. ASSUME UNCHANGED <<blob, request, stored, outcome>>
      PROVE  AbstractStep
  BY <1>4, Hidden DEF StoreMap, PendingMap, ReplyMap
<1>5. CASE Lock(t) \/ CheckKdf(t) \/ Read(t) \/ CheckMode(t) \/ Record(t)
  BY <1>4, <1>5 DEF fileVars, callVars, Lock, CheckKdf, Read, CheckMode,
                    Record
<1>6. CASE \/ Probe(t) \/ ReadFails(t) \/ PrintNotice(t) \/ Save(t)
           \/ WriteFails(t) \/ Sync(t) \/ Interrupt(t)
  <2>1. UNCHANGED <<blob, request, stored>> /\ phase[t] # "out"
    BY <1>6 DEF fileVars, callVars, At, Probe, ReadFails, PrintNotice, Save,
                WriteFails, Sync, Interrupt
  <2>2. request[t] \in Requests \cup {Get}
    BY <1>1, <2>1 DEF CallInv
  <2>3. \/ outcome' = outcome
        \/ \E o \in Outcomes \ {"ok"} : Decide(t, o)
        \/ Sync(t) /\ Decide(t, "ok")
    BY <1>6 DEF Outcomes, Probe, ReadFails, PrintNotice, Save, WriteFails,
                Sync, Interrupt
  <2>4. Sync(t) => stored[t]
    BY <1>1 DEF CallInv, Sync, At
  <2> QED
    BY <1>1, <1>4, <2>1, <2>2, <2>3, <2>4, Decides DEF Outcomes
<1>7. CASE ReadNothing(t) \/ Decrypt(t)
  BY <1>7, LoadKeepsPromise
<1>8. CASE Replace(t)
  BY <1>8, ReplaceKeepsPromise
<1>9. CASE Leave(t)
  <2>1. StoreMap' = StoreMap
    BY <1>9 DEF Leave, fileVars, StoreMap
  <2>2. /\ request' = [request EXCEPT ![t] = None]
        /\ stored' = [stored EXCEPT ![t] = FALSE]
        /\ outcome' = [outcome EXCEPT ![t] = None]
    BY <1>9 DEF Leave
  <2>3. /\ PendingMap' =
              [c \in Threads |-> IF c \in {t} THEN None ELSE PendingMap[c]]
        /\ stored' = [c \in Threads |-> IF c \in {t} THEN FALSE ELSE stored[c]]
        /\ ReplyMap' =
              [c \in Threads |-> IF c \in {t} THEN None ELSE ReplyMap[c]]
    BY <1>1, <2>2 DEF PendingMap, ReplyMap, TypeOK
  <2>4. Promise!End({t})
    BY <2>1, <2>3 DEF Promise!End, StoreMap, PendingMap, ReplyMap
  <2>5. {t} \in SUBSET Threads
    OBVIOUS
  <2> QED
    BY <2>4, <2>5 DEF AbstractStep, Promise!Next
<1> QED
  BY <1>2, <1>3, <1>5, <1>6, <1>7, <1>8, <1>9 DEF StepOf

(* Where the OS lock can be had, set and unset of the encrypted backend    *)
(* keep the promise of SecretStore, whatever else fails or interrupts      *)
(* them: each takes effect at one instant, on the store as it is then, and *)
(* never on a store that the caller cannot read: another passphrase's, a   *)
(* newer one, a damaged one.                                               *)
THEOREM EncryptedKeepsPromise ==
    ASSUME "oslock" \notin Faults
    PROVE  EncryptedSpec => KeepsPromise
<1>0. Exclusive
  BY DEF Exclusive
<1>1. Init => Promise!Init
  <2> SUFFICES ASSUME Init PROVE Promise!Init
    OBVIOUS
  <2>1. StoreMap \in Maps \cup {Malformed}
    BY EncryptedAssumption DEF Init, StoreMap, EmptyMap, Maps, Blobs, IsOurs
  <2>2. /\ PendingMap = [t \in Threads |-> None]
        /\ stored = [t \in Threads |-> FALSE]
        /\ ReplyMap = [t \in Threads |-> None]
    BY DEF Init, PendingMap, ReplyMap
  <2> QED
    BY <2>1, <2>2 DEF Promise!Init, Promise!Contents, Maps, StoreMap,
                      PendingMap, ReplyMap
<1>2. EncryptedInv /\ [Next]_encVars
        => [Promise!Next]_(Promise!abstractVars)
  <2>1. UNCHANGED encVars => AbstractStep
    BY Hidden DEF encVars, fileVars, callVars, StoreMap, PendingMap, ReplyMap
  <2>2. ASSUME EncryptedInv, Next
        PROVE  AbstractStep
    BY <1>0, <2>2, StepKeepsPromise DEF Next, StepOf
  <2> QED
    BY <2>1, <2>2 DEF AbstractStep
<1> QED
  BY <1>1, <1>2, EncryptedInvariant, PTL
     DEF EncryptedSpec, KeepsPromise, Promise!Spec
=============================================================================
