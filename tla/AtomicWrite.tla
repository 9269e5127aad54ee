---------------------------- MODULE AtomicWrite ----------------------------
(***************************************************************************)
(* write_bytes_atomic (atomic.py), one action per system call: a temp file *)
(* in the directory of the target, its bytes, its fsync, the rename, the   *)
(* fsync of the directory, and the removal of the temp file on the way out *)
(* of any failure.  Several writers, each one call, may run at once, with  *)
(* readers that hold the target open.  A writer stands for its call, its   *)
(* temp file and the version it writes.                                    *)
(*                                                                         *)
(* A machine that loses power keeps a prefix of the renames, at least what *)
(* a directory fsync has covered, any of the temp names, and of each file  *)
(* that was never fsynced anything.                                        *)
(***************************************************************************)
EXTENDS Naturals, Sequences

CONSTANTS
    Writers,      \* the calls of write_bytes_atomic
    Readers,      \* readers of the target
    Old,          \* the version the target may have before
    Platforms,    \* the machines considered, a subset of PlatformKinds
    Retries,      \* _REPLACE_RETRIES
    WriteFaults,  \* what may go wrong, a subset of WriteFaultKinds
    None

WriteFaultKinds ==
    { "io",         \* a system call fails
      "unlink",     \* the cleanup unlink fails
      "interrupt",  \* KeyboardInterrupt under the inner try
      "gap",        \* ... outside of it
      "kill",       \* a writer's process dies
      "power" }     \* the machine loses power

PlatformKinds ==
    { "posix",      \* os.name is "posix", and a directory can be fsynced
      "nosync",     \* ... on a filesystem that cannot
      "windows" }

ASSUME AtomicWriteAssumption ==
    /\ Platforms \subseteq PlatformKinds
    /\ Retries \in Nat
    /\ WriteFaults \subseteq WriteFaultKinds
    /\ Old \notin Writers
    /\ None \notin Writers \cup {Old}

VARIABLES
    platform, \* where this runs; it never changes
    pc,       \* the statement a call is at, or how it ended
    temp,     \* the writers whose temp name is in the directory
    fd,       \* the writers whose temp file is open
    bytes,    \* how much of a version its file holds
    synced,   \* the versions whose bytes were fsynced
    renames,  \* the versions renamed to the target, the current one last
    durable,  \* how many of them survive a loss of power
    tries,    \* replace attempts that Windows has denied
    error,    \* the exception on its way out of a call
    debris,   \* the writers whose cleanup unlink failed
    reading   \* the version a reader has open

vars == <<platform, pc, temp, fd, bytes, synced, renames, durable, tries,
          error, debris, reading>>

Ended == {"ok", "raised", "killed"}

PCs == {"start", "fdopen", "fchmod", "write", "flush", "fsync", "close",
        "replace", "dirsync", "cleanup"} \cup Ended

\* The statements of the with block: its exit closes the handle.
InWith == {"fchmod", "write", "flush", "fsync", "close"}

Versions == Writers \cup {Old}

Renamed == {renames[i] : i \in 1..Len(renames)}

Target == IF renames = <<>> THEN None ELSE renames[Len(renames)]

Posix == platform # "windows"

Init ==
    /\ platform \in Platforms
    /\ pc = [w \in Writers |-> "start"]
    /\ temp = {}
    /\ fd = {}
    /\ bytes = [v \in Versions |-> IF v = Old THEN "whole" ELSE "none"]
    /\ synced = {Old}
    /\ renames \in {<<>>, <<Old>>}
    /\ durable = Len(renames)
    /\ tries = [w \in Writers |-> 0]
    /\ error = [w \in Writers |-> None]
    /\ debris = {}
    /\ reading = [r \in Readers |-> None]

Goto(w, l) == pc' = [pc EXCEPT ![w] = l]

Raise(w, e) == error' = [error EXCEPT ![w] = e]

-----------------------------------------------------------------------------
\* mkdir and mkstemp: the temp file exists, and its raw descriptor is open.
MakeTemp(w) ==
    /\ pc[w] = "start"
    /\ temp' = temp \cup {w}
    /\ fd' = fd \cup {w}
    /\ Goto(w, "fdopen")
    /\ UNCHANGED <<platform, bytes, synced, renames, durable, tries, error,
                   debris, reading>>

\* Nothing was made, so nothing is cleaned up.
MakeTempFails(w) ==
    /\ "io" \in WriteFaults
    /\ pc[w] = "start"
    /\ Raise(w, "CredBoxError")
    /\ Goto(w, "raised")
    /\ UNCHANGED <<platform, temp, fd, bytes, synced, renames, durable, tries,
                   debris, reading>>

\* os.fdopen adopts the descriptor.
AdoptDescriptor(w) ==
    /\ pc[w] = "fdopen"
    /\ Goto(w, IF Posix THEN "fchmod" ELSE "write")
    /\ UNCHANGED <<platform, temp, fd, bytes, synced, renames, durable, tries,
                   error, debris, reading>>

PinMode(w) ==
    /\ pc[w] = "fchmod"
    /\ Goto(w, "write")
    /\ UNCHANGED <<platform, temp, fd, bytes, synced, renames, durable, tries,
                   error, debris, reading>>

\* handle.write may pass on some of the bytes, flush passes on the rest.
WriteSome(w) ==
    /\ pc[w] = "write"
    /\ bytes' = [bytes EXCEPT ![w] = "part"]
    /\ Goto(w, "flush")
    /\ UNCHANGED <<platform, temp, fd, synced, renames, durable, tries, error,
                   debris, reading>>

Flush(w) ==
    /\ pc[w] = "flush"
    /\ bytes' = [bytes EXCEPT ![w] = "whole"]
    /\ Goto(w, "fsync")
    /\ UNCHANGED <<platform, temp, fd, synced, renames, durable, tries, error,
                   debris, reading>>

\* Seeded fault: the temp file is not fsynced.
SkipFsync(w) ==
    /\ pc[w] = "fsync"
    /\ Goto(w, "close")
    /\ UNCHANGED <<platform, temp, fd, bytes, synced, renames, durable, tries,
                   error, debris, reading>>

FsyncFile(w) ==
    /\ pc[w] = "fsync"
    /\ synced' = synced \cup {w}
    /\ Goto(w, "close")
    /\ UNCHANGED <<platform, temp, fd, bytes, renames, durable, tries, error,
                   debris, reading>>

CloseTemp(w) ==
    /\ pc[w] = "close"
    /\ fd' = fd \ {w}
    /\ Goto(w, "replace")
    /\ UNCHANGED <<platform, temp, bytes, synced, renames, durable, tries,
                   error, debris, reading>>

\* Windows denies os.replace while somebody has the target open.
Denied == ~Posix /\ \E r \in Readers : reading[r] # None /\ reading[r] = Target

ReplaceTarget(w) ==
    /\ pc[w] = "replace"
    /\ ~Denied
    /\ renames' = Append(renames, w)
    /\ temp' = temp \ {w}
    /\ Goto(w, "dirsync")
    /\ UNCHANGED <<platform, fd, bytes, synced, durable, tries, error, debris,
                   reading>>

\* Seeded fault: one attempt too many.
MayRetryOnceMore(w) == tries[w] <= Retries

MayRetry(w) == tries[w] < Retries

\* Seeded fault: no last attempt outside of the loop, which just ends.
GiveUpQuietly(w) ==
    /\ pc[w] = "replace"
    /\ Denied
    /\ IF MayRetry(w)
         THEN tries' = [tries EXCEPT ![w] = @ + 1] /\ UNCHANGED pc
         ELSE Goto(w, "dirsync") /\ UNCHANGED tries
    /\ UNCHANGED <<platform, temp, fd, bytes, synced, renames, durable, error,
                   debris, reading>>

\* Seeded fault: the backoff goes on until the reader closes.
RetryForever(w) ==
    /\ pc[w] = "replace"
    /\ Denied
    /\ UNCHANGED vars

\* Seeded fault: the attempt after the backoff begins it again.
BackoffAgain(w) ==
    /\ pc[w] = "replace"
    /\ Denied
    /\ tries' = [tries EXCEPT ![w] = IF MayRetry(w) THEN @ + 1 ELSE 0]
    /\ UNCHANGED <<platform, pc, temp, fd, bytes, synced, renames, durable,
                   error, debris, reading>>

\* The backoff, Retries times; the attempt after that one raises.
ReplaceDenied(w) ==
    /\ pc[w] = "replace"
    /\ Denied
    /\ IF MayRetry(w)
         THEN /\ tries' = [tries EXCEPT ![w] = @ + 1]
              /\ UNCHANGED <<platform, pc, error>>
         ELSE /\ Raise(w, "CredBoxError")
              /\ Goto(w, "cleanup")
              /\ UNCHANGED tries
    /\ UNCHANGED <<platform, temp, fd, bytes, synced, renames, durable,
                   debris, reading>>

\* Seeded fault: the directory is not fsynced.
SkipDirSync(w) ==
    /\ pc[w] = "dirsync"
    /\ Goto(w, "ok")
    /\ UNCHANGED <<platform, temp, fd, bytes, synced, renames, durable, tries,
                   error, debris, reading>>

\* _fsync_dir, which covers every rename so far, or has nothing to call.
FsyncDir(w) ==
    /\ pc[w] = "dirsync"
    /\ durable' = IF platform = "posix" THEN Len(renames) ELSE durable
    /\ Goto(w, "ok")
    /\ UNCHANGED <<platform, temp, fd, bytes, synced, renames, tries, error,
                   debris, reading>>

\* Seeded fault: nobody closes the descriptor that fdopen did not adopt.
StepFailsLeavingFd(w) ==
    /\ "io" \in WriteFaults
    /\ pc[w] \in InWith \cup {"fdopen", "replace", "dirsync"}
    /\ fd' = IF pc[w] = "fdopen" THEN fd ELSE fd \ {w}
    /\ Raise(w, "CredBoxError")
    /\ Goto(w, "cleanup")
    /\ UNCHANGED <<platform, temp, bytes, synced, renames, durable, tries,
                   debris, reading>>

\* An OSError at any statement of the inner try; fdopen's own handler and the
\* with block close the descriptor.  Windows has no directory to sync.
StepFails(w) ==
    /\ "io" \in WriteFaults
    /\ pc[w] \in InWith \cup {"fdopen", "replace", "dirsync"}
    /\ pc[w] = "dirsync" => Posix
    /\ fd' = fd \ {w}
    /\ Raise(w, "CredBoxError")
    /\ Goto(w, "cleanup")
    /\ UNCHANGED <<platform, temp, bytes, synced, renames, durable, tries,
                   debris, reading>>

\* Seeded fault: the cleanup is for OSError only.
InterruptUncaught(w) ==
    /\ "interrupt" \in WriteFaults
    /\ pc[w] \in InWith \cup {"replace", "dirsync"}
    /\ fd' = fd \ {w}
    /\ Raise(w, "KeyboardInterrupt")
    /\ Goto(w, "raised")
    /\ UNCHANGED <<platform, temp, bytes, synced, renames, durable, tries,
                   debris, reading>>

\* KeyboardInterrupt there: fdopen's handler does not catch it.
Interrupt(w) ==
    /\ "interrupt" \in WriteFaults
    /\ pc[w] \in InWith \cup {"fdopen", "replace", "dirsync"}
    /\ fd' = IF pc[w] = "fdopen" THEN fd ELSE fd \ {w}
    /\ Raise(w, "KeyboardInterrupt")
    /\ Goto(w, "cleanup")
    /\ UNCHANGED <<platform, temp, bytes, synced, renames, durable, tries,
                   debris, reading>>

\* KeyboardInterrupt where no handler removes the temp file: before it is
\* made, between mkstemp and the inner try, and in the cleanup itself.
InterruptGap(w) ==
    /\ "gap" \in WriteFaults
    /\ pc[w] \in {"start", "fdopen", "cleanup"}
    /\ Raise(w, "KeyboardInterrupt")
    /\ Goto(w, "raised")
    /\ UNCHANGED <<platform, temp, fd, bytes, synced, renames, durable, tries,
                   debris, reading>>

\* unlink(missing_ok=True): after the rename there is nothing to remove, and
\* Windows does not remove a file that is open.
RemoveTemp(w) ==
    /\ pc[w] = "cleanup"
    /\ w \in fd => Posix
    /\ temp' = temp \ {w}
    /\ Goto(w, "raised")
    /\ UNCHANGED <<platform, fd, bytes, synced, renames, durable, tries,
                   error, debris, reading>>

RemoveTempFails(w) ==
    /\ pc[w] = "cleanup"
    /\ w \in temp
    /\ "unlink" \in WriteFaults \/ (w \in fd /\ ~Posix)
    /\ debris' = debris \cup {w}
    /\ Goto(w, "raised")
    /\ UNCHANGED <<platform, temp, fd, bytes, synced, renames, durable, tries,
                   error, reading>>

\* The process of a writer dies, at any statement.
KillWriter(w) ==
    /\ "kill" \in WriteFaults
    /\ pc[w] \notin Ended
    /\ fd' = fd \ {w}
    /\ Goto(w, "killed")
    /\ UNCHANGED <<platform, temp, bytes, synced, renames, durable, tries,
                   error, debris, reading>>

\* A reader opens the target, and closes it when it has read it.
OpenTarget(r) ==
    /\ reading[r] = None
    /\ Target # None
    /\ reading' = [reading EXCEPT ![r] = Target]
    /\ UNCHANGED <<platform, pc, temp, fd, bytes, synced, renames, durable,
                   tries, error, debris>>

CloseTarget(r) ==
    /\ reading[r] # None
    /\ reading' = [reading EXCEPT ![r] = None]
    /\ UNCHANGED <<platform, pc, temp, fd, bytes, synced, renames, durable,
                   tries, error, debris>>

\* What a file that was never fsynced may hold after a loss of power.
Remains(v) == IF v \in synced THEN {bytes[v]} ELSE {"none", "part", bytes[v]}

\* Names made, removed or renamed since the last directory fsync may be back.
LosePower ==
    /\ "power" \in WriteFaults
    /\ \E n \in durable..Len(renames) :
          /\ renames' = SubSeq(renames, 1, n)
          /\ durable' = n
          /\ temp' \in SUBSET {w \in Writers :
                pc[w] # "start" /\ \A i \in 1..n : renames[i] # w}
    /\ bytes' \in {f \in [Versions -> {"none", "part", "whole"}] :
                      \A v \in Versions : f[v] \in Remains(v)}
    /\ pc' = [w \in Writers |->
                 IF pc[w] \in Ended \cup {"start"} THEN pc[w] ELSE "killed"]
    /\ fd' = {}
    /\ reading' = [r \in Readers |-> None]
    /\ UNCHANGED <<platform, synced, tries, error, debris>>

\* The steps a call takes when nothing fails.
Step(w) ==
    \/ MakeTemp(w) \/ AdoptDescriptor(w) \/ PinMode(w) \/ WriteSome(w)
    \/ Flush(w) \/ FsyncFile(w) \/ CloseTemp(w) \/ ReplaceTarget(w)
    \/ ReplaceDenied(w) \/ FsyncDir(w) \/ RemoveTemp(w) \/ RemoveTempFails(w)

Next ==
    \/ \E w \in Writers :
          \/ Step(w) \/ MakeTempFails(w) \/ StepFails(w) \/ Interrupt(w)
          \/ InterruptGap(w) \/ KillWriter(w)
    \/ \E r \in Readers : OpenTarget(r) \/ CloseTarget(r)
    \/ LosePower

Spec == Init /\ [][Next]_vars

\* A call that was started is run to its end; readers need not close.
FairSpec == Spec /\ \A w \in Writers : WF_vars(Step(w))

-----------------------------------------------------------------------------
TypeOK ==
    /\ platform \in PlatformKinds
    /\ pc \in [Writers -> PCs]
    /\ temp \in SUBSET Writers
    /\ fd \in SUBSET Writers
    /\ bytes \in [Versions -> {"none", "part", "whole"}]
    /\ synced \in SUBSET Versions
    /\ renames \in Seq(Versions)
    /\ durable \in 0..Len(renames)
    /\ tries \in [Writers -> 0..Retries]
    /\ error \in [Writers -> {"CredBoxError", "KeyboardInterrupt", None}]
    /\ debris \in SUBSET Writers
    /\ reading \in [Readers -> Versions \cup {None}]

\* The target is whole at every instant, and after a loss of power at any
\* instant; so is what a reader has open (atomic.py, "The file is never left
\* partially written").
TargetIsWhole ==
    \A v \in Renamed \cup {reading[r] : r \in Readers} :
        v # None => bytes[v] = "whole"

\* Where a directory can be synced, the version of a call that returned is
\* among the renames that a loss of power cannot take back.
AcknowledgedIsDurable ==
    platform = "posix" =>
        \A w \in Writers :
            pc[w] = "ok" => \E i \in 1..durable : renames[i] = w

\* A call that returns, or raises, leaves no temp file of its own behind,
\* unless the cleanup unlink failed (atomic.py, "a debris .tmp can survive
\* only if the cleanup unlink itself also fails") or a KeyboardInterrupt fell
\* in a gap between the handlers.
NoDebris ==
    [][\A w \in Writers :
          pc[w] \notin Ended /\ pc'[w] \in {"ok", "raised"} =>
              w \notin temp' \/ w \in debris' \/ InterruptGap(w)]_vars

\* A call that ends leaves its descriptor open only where a KeyboardInterrupt
\* hit an instant between mkstemp and the with statement.
DescriptorsAreClosed ==
    \A w \in Writers :
        pc[w] \in Ended /\ w \in fd => error[w] = "KeyboardInterrupt"

\* Every call ends: with readers that never close, a Windows writer gives up
\* after its retries.
CallEnds == \A w \in Writers : pc[w] # "start" ~> pc[w] \in Ended

\* How much of a call is left at most: its statements and its retries.
Ahead ==
    [start |-> 10, fdopen |-> 9, fchmod |-> 8, write |-> 7, flush |-> 6,
     fsync |-> 5, close |-> 4, replace |-> 3, dirsync |-> 2, cleanup |-> 1,
     ok |-> 0, raised |-> 0, killed |-> 0]

Left(w) == Ahead[pc[w]] + (Retries - tries[w])

\* Every step of a call brings it nearer to its end, for good: nothing that
\* fails, and no other writer or reader, gives it more to do (atomic.py,
\* _replace, the bounded backoff).
CallRunsDown ==
    [][\A w \in Writers :
          /\ Left(w)' <= Left(w)
          /\ Step(w) => Left(w)' < Left(w)]_vars

Promise == INSTANCE AtomicReplace WITH
    syncs <- platform = "posix",
    versions <- renames,
    safe <- durable,
    status <- [w \in Writers |->
                  CASE pc[w] = "ok" -> "ok"
                    [] pc[w] \in {"raised", "killed"} -> "failed"
                    [] OTHER -> "running"]

\* The system calls implement the abstract replacement: one instant at which
\* a version appears, and no acknowledged version lost to a crash.
KeepsPromise == Promise!Spec
=============================================================================
