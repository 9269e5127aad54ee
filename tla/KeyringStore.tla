---------------------------- MODULE KeyringStore ----------------------------
(***************************************************************************)
(* KeyringBackend (backends/keyring.py) over the file backend, and users   *)
(* of the file backend alone: get, set and unset of one name in the stores *)
(* of several applications.                                                *)
(*                                                                         *)
(* A call asks the keyring first and the fallback file second, in two      *)
(* steps: nothing holds the two together.  Each call of the keyring works, *)
(* raises, or finds no backend, whatever the call before it did.  A call   *)
(* of the file backend is one step here because FileStore implements       *)
(* SecretStore: it takes effect at one instant, and a call that raises     *)
(* has taken effect or has not.                                            *)
(*                                                                         *)
(* The callers are threads of one process, which share its warn-once flag; *)
(* the stores would not tell them from threads of several processes.       *)
(***************************************************************************)
CONSTANTS
    Callers,   \* threads
    Apps,      \* the applications, each with a store of its own
    Values,    \* secret values; every set stores one that is new
    Blank,     \* a stored string of whitespace, which counts as no value
    Backends,  \* the backends each caller uses, of BackendKinds
    Faults,    \* what may go wrong, of FaultKinds
    None

BackendKinds ==
    { "file",          \* FileBackend
      "keyring",       \* KeyringBackend(fallback=None)
      "keyring+file" } \* KeyringBackend(fallback=FileBackend())

FaultKinds ==
    { "absent",      \* the keyring cannot be imported or has no backend
      "keyring",     \* the keyring raises anything else
      "file",        \* the file backend raises CredentialsError
      "print",       \* the notice cannot be printed
      "interrupt" }  \* KeyboardInterrupt between two statements

\* What the keyring says to a call.
Statuses == {"ok", "failed", "no_backend"}

\* A value that a get found, and where.
Answers == [value : Values, app : Apps, tier : {"ring", "file"}]

ASSUME KeyringAssumption ==
    /\ Backends \in [Callers -> SUBSET BackendKinds]
    /\ Faults \subseteq FaultKinds
    /\ None \notin Values \cup {Blank} \cup Statuses \cup Answers
    /\ Blank \notin Values

VARIABLES
    ring,      \* the value in the keyring, for each application
    file,      \* the value in the fallback file, for each application
    warned,    \* _warned_keyring_fallback
    phase,     \* the statement a caller is at, "out" if in no call
    request,   \* its call
    status,    \* what the keyring said to that call
    reply,     \* how the last call ended: "ok", or the exception it raised
    answer,    \* the value it found and where, if it was a get
    issued,    \* values of all calls of set so far (history)
    notice,    \* how the print of the notice ended (history)
    before,    \* values of calls ended when this write began (history)
    dead       \* values that a set or unset replaced for good (history)

storeVars == <<ring, file, warned, phase, request, status, reply, answer>>
historyVars == <<notice, issued, before, dead>>
keyringVars == <<storeVars, historyVars>>

Phases == {"out", "ring", "check", "record", "print", "file"}

\* The value None of a write removes the name: unset is such a write.
Requests == [op : {"get", "write"}, app : Apps, backend : BackendKinds,
             value : Values \cup {None}]

Replies == {"ok", "CredentialsError", "NoKeyringError", "OSError",
            "KeyboardInterrupt"}

Held == Values \cup {Blank, None}

UsesRing(r) == r.backend \in {"keyring", "keyring+file"}
HasFallback(r) == r.backend \in {"file", "keyring+file"}

\* Seeded fault: a stored value is returned as it is.
AsStored(v) == v

\* normalize_secret_value: a blank string is no value.
Normal(v) == IF v = Blank THEN None ELSE v

InProgress == {c \in Callers : phase[c] # "out"}

\* The values of calls that have ended, well or not.
Settled == issued \ {request[c].value : c \in InProgress}

KeyringInit ==
    /\ ring \in [Apps -> {None, Blank}]
    /\ file = [a \in Apps |-> None]
    /\ warned = FALSE
    /\ notice = "none"
    /\ phase = [c \in Callers |-> "out"]
    /\ request = [c \in Callers |-> None]
    /\ status = [c \in Callers |-> None]
    /\ reply = [c \in Callers |-> None]
    /\ answer = [c \in Callers |-> None]
    /\ issued = {}
    /\ before = [c \in Callers |-> {}]
    /\ dead = [a \in Apps |-> {}]

-----------------------------------------------------------------------------
\* The call begins: a keyring backend asks the keyring, a file backend the
\* file.  A set stores a value nobody has stored before.
Begin(c, r) ==
    /\ phase[c] = "out"
    /\ r.backend \in Backends[c]
    /\ r.op = "get" => r.value = None
    /\ r.value \notin issued
    /\ phase' = [phase EXCEPT ![c] = IF UsesRing(r) THEN "ring" ELSE "file"]
    /\ request' = [request EXCEPT ![c] = r]
    /\ status' = [status EXCEPT ![c] = None]
    /\ reply' = [reply EXCEPT ![c] = None]
    /\ answer' = [answer EXCEPT ![c] = None]
    /\ issued' = issued \cup ({r.value} \ {None})
    /\ before' = [before EXCEPT ![c] = IF r.op = "write" THEN Settled
                                           ELSE {}]
    /\ UNCHANGED <<ring, file, warned, notice, dead>>

\* The call goes on to the statement p; the keyring has said s to it.
Goto(c, p, s) ==
    /\ phase' = [phase EXCEPT ![c] = p]
    /\ status' = [status EXCEPT ![c] = s]
    /\ UNCHANGED <<request, reply, before>>

\* The call ends, with this reply.
Return(c, s) ==
    /\ phase' = [phase EXCEPT ![c] = "out"]
    /\ reply' = [reply EXCEPT ![c] = s]
    /\ request' = [request EXCEPT ![c] = None]
    /\ status' = [status EXCEPT ![c] = None]
    /\ before' = [before EXCEPT ![c] = {}]

\* The next statement of a backend with a fallback is p; without one the
\* call ends.
GotoOrReturn(c, p, s, r) ==
    IF HasFallback(request[c]) THEN Goto(c, p, s) ELSE Return(c, r)

AtRing(c, op) == phase[c] = "ring" /\ request[c].op = op

Found(c, v, t) ==
    answer' = [answer EXCEPT ![c] =
                  [value |-> v, app |-> request[c].app, tier |-> t]]

\* set_password stores the value, delete_password removes what there is.
RingEffect(c) == [ring EXCEPT ![request[c].app] = request[c].value]

\* _try_keyring_get returns "ok" with a value that is not blank.
RingAnswers(c) ==
    LET v == Normal(ring[request[c].app])
    IN  /\ AtRing(c, "get")
        /\ v # None
        /\ Found(c, v, "ring")
        /\ Return(c, "ok")
        /\ UNCHANGED <<ring, file, warned, notice, issued, dead>>

\* The keyring works and holds nothing: the fallback is asked, if any.
RingIsEmpty(c) ==
    /\ AtRing(c, "get")
    /\ Normal(ring[request[c].app]) = None
    /\ GotoOrReturn(c, "file", "ok", "ok")
    /\ UNCHANGED <<ring, file, warned, notice, answer, issued, dead>>

\* A write that ends well, of a keyring with a fallback, makes an end of all
\* values that were there when it began, unless there was no keyring.
Supersede(c) ==
    dead' = IF UsesRing(request[c]) /\ status[c] # "no_backend"
            THEN [dead EXCEPT ![request[c].app] = @ \cup before[c]]
            ELSE dead

\* Seeded fault: set and unset leave the copy in the file alone.
RingWritesAlone(c) ==
    /\ AtRing(c, "write")
    /\ ring' = RingEffect(c)
    /\ Return(c, "ok")
    /\ Supersede(c)
    /\ UNCHANGED <<file, warned, notice, answer, issued>>

\* _try_keyring_set or _try_keyring_delete returns "ok": the copy in the
\* file is next.
RingWrites(c) ==
    /\ AtRing(c, "write")
    /\ ring' = RingEffect(c)
    /\ GotoOrReturn(c, "file", "ok", "ok")
    /\ UNCHANGED <<file, warned, notice, answer, issued, dead>>

\* Seeded fault: a keyring that fails is taken for one that is empty.
RingFailsOpen(c) ==
    /\ phase[c] = "ring"
    /\ "keyring" \in Faults
    /\ GotoOrReturn(c, "file", "failed", "CredentialsError")
    /\ UNCHANGED <<ring, file, warned, notice, answer, issued, dead>>

\* The keyring raises: the call raises, and the file is left alone.  The
\* write may have reached the keyring before that.
RingFails(c) ==
    /\ phase[c] = "ring"
    /\ "keyring" \in Faults
    /\ UNCHANGED ring \/ (request[c].op = "write" /\ ring' = RingEffect(c))
    /\ Return(c, "CredentialsError")
    /\ UNCHANGED <<file, warned, notice, answer, issued, dead>>

\* There is no keyring: on to the warning and the fallback, if any.
RingIsAbsent(c) ==
    /\ phase[c] = "ring"
    /\ "absent" \in Faults
    /\ GotoOrReturn(c, "check", "no_backend", "NoKeyringError")
    /\ UNCHANGED <<ring, file, warned, notice, answer, issued, dead>>

-----------------------------------------------------------------------------
\* _warn_keyring_fallback_once, the test without the lock.
CheckWarned(c) ==
    /\ phase[c] = "check"
    /\ Goto(c, IF warned THEN "file" ELSE "record", "no_backend")
    /\ UNCHANGED <<ring, file, warned, notice, answer, issued, dead>>

\* Seeded fault: the flag is not tested again under the lock.
RecordUnchecked(c) ==
    /\ phase[c] = "record"
    /\ warned' = TRUE
    /\ Goto(c, "print", "no_backend")
    /\ UNCHANGED <<ring, file, notice, answer, issued, dead>>

\* The block under _warn_lock.
RecordWarned(c) ==
    /\ phase[c] = "record"
    /\ warned' = TRUE
    /\ Goto(c, IF warned THEN "file" ELSE "print", "no_backend")
    /\ UNCHANGED <<ring, file, notice, answer, issued, dead>>

\* The notice is printed outside the lock; a print that fails ends the call.
PrintNotice(c) ==
    /\ phase[c] = "print"
    /\ \/ notice' = "given" /\ Goto(c, "file", "no_backend")
       \/ /\ "print" \in Faults
          /\ notice' = "cut"
          /\ Return(c, "OSError")
    /\ UNCHANGED <<ring, file, warned, answer, issued, dead>>

-----------------------------------------------------------------------------
AtFile(c, op) == phase[c] = "file" /\ request[c].op = op

\* The get of the file backend, which ends the call.
FileGet(c) ==
    LET v == Normal(file[request[c].app])
    IN  /\ AtFile(c, "get")
        /\ IF v # None THEN Found(c, v, "file") ELSE UNCHANGED answer
        /\ Return(c, "ok")
        /\ UNCHANGED <<ring, file, warned, notice, issued, dead>>

\* After the keyring has taken the write the file loses its copy; else the
\* file takes the write.
FileEffect(c) ==
    [file EXCEPT ![request[c].app] =
        IF status[c] = "ok" THEN None ELSE request[c].value]

FileWrite(c) ==
    /\ AtFile(c, "write")
    /\ file' = FileEffect(c)
    /\ Return(c, "ok")
    /\ Supersede(c)
    /\ UNCHANGED <<ring, warned, notice, answer, issued>>

\* The file backend raises; what it was to do may have been done.
FileFails(c) ==
    /\ phase[c] = "file"
    /\ "file" \in Faults
    /\ UNCHANGED file \/ (request[c].op = "write" /\ file' = FileEffect(c))
    /\ Return(c, "CredentialsError")
    /\ UNCHANGED <<ring, warned, notice, answer, issued, dead>>

\* KeyboardInterrupt, which may cut the notice short.
Interrupt(c) ==
    /\ phase[c] # "out"
    /\ "interrupt" \in Faults
    /\ notice' = IF phase[c] = "print" THEN "cut" ELSE notice
    /\ Return(c, "KeyboardInterrupt")
    /\ UNCHANGED <<ring, file, warned, answer, issued, dead>>

BackendStep(c) ==
    \/ RingAnswers(c) \/ RingIsEmpty(c) \/ RingWrites(c) \/ RingFails(c)
    \/ RingIsAbsent(c) \/ CheckWarned(c) \/ RecordWarned(c)
    \/ PrintNotice(c) \/ FileGet(c) \/ FileWrite(c) \/ FileFails(c)
    \/ Interrupt(c)

KeyringNext ==
    \E c \in Callers : BackendStep(c) \/ \E r \in Requests : Begin(c, r)

KeyringSpec == KeyringInit /\ [][KeyringNext]_keyringVars

-----------------------------------------------------------------------------
KeyringTypeOK ==
    /\ ring \in [Apps -> Held]
    /\ file \in [Apps -> Held]
    /\ warned \in BOOLEAN
    /\ notice \in {"none", "given", "cut"}
    /\ phase \in [Callers -> Phases]
    /\ request \in [Callers -> Requests \cup {None}]
    /\ status \in [Callers -> Statuses \cup {None}]
    /\ reply \in [Callers -> Replies \cup {None}]
    /\ answer \in [Callers -> Answers \cup {None}]
    /\ issued \subseteq Values
    /\ before \in [Callers -> SUBSET Values]
    /\ dead \in [Apps -> SUBSET Values]
    /\ \A c \in Callers : IF phase[c] = "out" THEN request[c] = None
                                          ELSE request[c] \in Requests

\* After a set or unset that the keyring took, of a backend with a fallback,
\* has returned without an exception, no value stored by a call that had
\* ended before it began is left in the keyring, nor in the file, from where
\* it would come back as soon as the keyring is away or empty (keyring.py, set
\* and unset, and the module's second paragraph).
SupersededIsGone ==
    \A a \in Apps : ring[a] \notin dead[a] /\ file[a] \notin dead[a]

Printing(c) == phase[c] = "print"

\* The notice that secrets go to the file is printed once, by one thread; and
\* no call is served by the fallback in place of the keyring before that print
\* is under way.  Where it raises or is interrupted, which its own caller
\* sees, nobody prints it again (keyring.py, _warn_keyring_fallback_once).
AnnouncedOnce ==
    \A c \in Callers :
        /\ Printing(c) =>
              notice = "none" /\ \A d \in Callers : Printing(d) => d = c
        /\ phase[c] = "file" /\ status[c] = "no_backend" =>
              notice # "none" \/ \E d \in Callers : Printing(d)
=============================================================================
