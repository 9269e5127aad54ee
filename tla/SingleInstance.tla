--------------------------- MODULE SingleInstance ---------------------------
(***************************************************************************)
(* FileLock and single_instance (locking.py), the runtime directory their  *)
(* lock file is in (runtime.py) with ensure_private_dir (permissions.py),  *)
(* and relocate_once (relocation.py) as what the guarded jobs do.          *)
(*                                                                         *)
(* A job runs over and over: it takes the lock without waiting, moves a    *)
(* store from an old path to a new one, and releases the lock.  Where its  *)
(* lock file is depends on whether the job's environment has an absolute   *)
(* XDG_RUNTIME_DIR.  If not, it is in a directory under the system's       *)
(* temporary directory, where other users create entries too; they cannot  *)
(* rename or remove what is ours there, unless its parent lets them.       *)
(***************************************************************************)
CONSTANTS
    Jobs,
    Store,   \* the content of the store that is relocated
    Faults,  \* what may go wrong, of FaultKinds
    None

FaultKinds ==
    { "dir",      \* a directory cannot be made or checked
      "open",     \* the lock file cannot be opened
      "flock",    \* the OS refuses the lock, held or not
      "unlock",   \* releasing the lock raises
      "move",     \* os.replace fails: another filesystem, permissions
      "others",   \* other users make entries in the temporary directory
      "interrupt",  \* KeyboardInterrupt
      "kill" }    \* a job dies

\* How a run of a job can end; "gone" is the CredBoxError of a relocation
\* whose old path has gone since it looked.
Endings == {"moved", "nothing", "held", "gone", "CredBoxError",
            "InsecureStorageError", "KeyboardInterrupt"}

ASSUME SingleInstanceAssumption ==
    /\ None \notin Jobs \cup Endings
    /\ Store # None
    /\ Faults \subseteq FaultKinds

Places == {"xdg", "tmp"}

\* A directory is missing, ours with mode 0700, ours but open to others, a
\* symlink, or something else that is not ours or no directory.
DirKinds == {"absent", "private", "loose", "link", "foreign"}

VARIABLES
    primitive,  \* whether the platform has fcntl or msvcrt
    place,      \* the place of a job's runtime directory
    nests,      \* whether jobs enter the lock they hold once more
    dir,        \* the directories, <<place, "root">> and <<place, "leaf">>
    flock,      \* the job whose open file holds the OS lock of a place
    phase,      \* the statement a job is at
    level,      \* the directory that ensure_private_dir is at
    handle,     \* whether the lock's _handle is set
    inner,      \* the inner with statement on the lock: "none" yet, "open",
                \* "closed"
    old,        \* the store at its old path; what is at the new one, and gets
                \* replaced there, makes no difference to any job
    outcome     \* how the last run of a job ended

given == <<primitive, place, nests>>
dirVars == <<given, dir>>
lockVars == <<handle, inner>>
vars == <<dirVars, flock, phase, level, lockVars, old, outcome>>

\* At "gap" the with statement is over, but not so its release.
Phases == {"idle", "mkdir", "lstat", "chmod", "open", "flock",
           "exists", "replace", "clear", "close", "gap"}

Levels == {"root", "leaf"}

Init ==
    /\ primitive \in BOOLEAN
    /\ place \in [Jobs -> Places]
    /\ nests \in BOOLEAN
    /\ dir \in [Places \X Levels -> {"absent", "private", "loose"}]
    /\ dir[<<"xdg", "root">>] = "private"
    /\ \A p \in Places :
          dir[<<p, "root">>] = "absent" => dir[<<p, "leaf">>] = "absent"
    /\ flock = [p \in Places |-> None]
    /\ phase = [j \in Jobs |-> "idle"]
    /\ level = [j \in Jobs |-> "root"]
    /\ handle = [j \in Jobs |-> FALSE]
    /\ inner = [j \in Jobs |-> "none"]
    /\ old \in {Store, None}
    /\ outcome = [j \in Jobs |-> None]

-----------------------------------------------------------------------------
At(j, p) == phase[j] = p
Goto(j, p) == phase' = [phase EXCEPT ![j] = p]
Ends(j, o) == outcome' = [outcome EXCEPT ![j] = o]

\* acquire or runtime_dir raises: the with statement is not entered.
Raise(j, o) == Goto(j, "idle") /\ Ends(j, o) /\ UNCHANGED level

Dir(j) == <<place[j], level[j]>>

\* Seeded fault: the directory under the temporary one is taken as it is.
StartAtLeaf(j) ==
    /\ At(j, "idle")
    /\ Goto(j, "mkdir")
    /\ level' = [level EXCEPT ![j] =
          IF dir[<<place[j], "root">>] = "absent" THEN "root" ELSE "leaf"]
    /\ Ends(j, None)
    /\ inner' = [inner EXCEPT ![j] = "none"]
    /\ UNCHANGED <<dirVars, flock, handle, old>>

\* acquire: runtime_dir secures both directories under the temporary one,
\* but only its own under XDG_RUNTIME_DIR.
Start(j) ==
    /\ At(j, "idle")
    /\ Goto(j, "mkdir")
    /\ level' = [level EXCEPT ![j] =
          IF place[j] = "tmp" THEN "root" ELSE "leaf"]
    /\ Ends(j, None)
    /\ inner' = [inner EXCEPT ![j] = "none"]
    /\ UNCHANGED <<dirVars, flock, handle, old>>

\* ensure_private_dir returns: the next directory, or the lock file.
Secured(j) ==
    /\ Goto(j, IF level[j] = "root" THEN "mkdir" ELSE "open")
    /\ level' = [level EXCEPT ![j] = "leaf"]
    /\ UNCHANGED outcome

\* ensure_private_dir: mkdir makes the directory, or finds one.
MakeDir(j) ==
    /\ At(j, "mkdir")
    /\ \/ /\ dir[Dir(j)] = "absent"
          /\ dir' = [dir EXCEPT ![Dir(j)] = "private"]
          /\ Goto(j, "chmod")
       \/ /\ dir[Dir(j)] # "absent"
          /\ UNCHANGED dir
          /\ Goto(j, "lstat")
    /\ UNCHANGED <<given, flock, level, lockVars, old, outcome>>

\* _verify_private_dir: what lstat says of the directory.
CheckDir(j) ==
    /\ At(j, "lstat")
    /\ CASE dir[Dir(j)] \in {"link", "foreign"} ->
              Raise(j, "InsecureStorageError")
         [] dir[Dir(j)] = "loose" -> Goto(j, "chmod")
                                       /\ UNCHANGED <<level, outcome>>
         [] OTHER -> Secured(j)
    /\ UNCHANGED <<dirVars, flock, lockVars, old>>

\* The chmod that follows, or that of a fresh directory: it goes wherever
\* the path leads by now.
ChmodDir(j) ==
    /\ At(j, "chmod")
    /\ dir' = IF dir[Dir(j)] = "loose" THEN [dir EXCEPT ![Dir(j)] = "private"]
                                       ELSE dir
    /\ Secured(j)
    /\ UNCHANGED <<given, flock, lockVars, old>>

DirFails(j) ==
    /\ phase[j] \in {"mkdir", "lstat", "chmod"}
    /\ "dir" \in Faults
    /\ Raise(j, "CredBoxError")
    /\ UNCHANGED <<dirVars, flock, lockVars, old>>

\* Another user takes a name in the temporary directory that is free, or any
\* name in a directory of ours that is open to others.
OtherUser(d, k) ==
    /\ "others" \in Faults
    /\ d[1] = "tmp"
    /\ IF d[2] = "root" THEN dir[d] = "absent"
                        ELSE dir[<<"tmp", "root">>] = "loose"
    /\ dir' = [dir EXCEPT ![d] = k]
    /\ UNCHANGED <<given, flock, phase, level, lockVars, old,
                   outcome>>

-----------------------------------------------------------------------------
OpenLockFile(j) ==
    /\ At(j, "open")
    /\ \/ Goto(j, "flock") /\ UNCHANGED <<level, outcome>>
       \/ "open" \in Faults /\ Raise(j, "CredBoxError")
    /\ UNCHANGED <<dirVars, flock, lockVars, old>>

\* lock_exclusive returns True, as it does without a primitive.
LockTaken(j) ==
    /\ At(j, "flock")
    /\ primitive => flock[place[j]] = None
    /\ flock' = IF primitive THEN [flock EXCEPT ![place[j]] = j] ELSE flock

TakeLock(j) ==
    /\ LockTaken(j)
    /\ handle' = [handle EXCEPT ![j] = TRUE]
    /\ Goto(j, "exists")
    /\ UNCHANGED <<dirVars, level, inner, old, outcome>>

\* Seeded fault: the job goes on when the lock is held.
RefusedGoesOn(j) ==
    /\ At(j, "flock")
    /\ primitive
    /\ flock[place[j]] # None \/ "flock" \in Faults
    /\ Goto(j, "exists")
    /\ UNCHANGED <<dirVars, flock, level, lockVars, old, outcome>>

\* It returns False: the file is closed, and the run is skipped.
RefuseLock(j) ==
    /\ At(j, "flock")
    /\ primitive
    /\ flock[place[j]] # None \/ "flock" \in Faults
    /\ Raise(j, "held")
    /\ UNCHANGED <<dirVars, flock, lockVars, old>>

\* acquire in the body, by another with statement on the same lock: it is
\* acquired, and that is all.
EnterAgain(j) ==
    /\ At(j, "exists")
    /\ nests
    /\ inner[j] = "none"
    /\ inner' = [inner EXCEPT ![j] = "open"]
    /\ UNCHANGED <<dirVars, flock, phase, level, handle, old, outcome>>

-----------------------------------------------------------------------------
\* relocate_once: old.exists().
CheckOld(j) ==
    /\ At(j, "exists")
    /\ \/ old = None /\ Goto(j, "clear") /\ Ends(j, "nothing")
       \/ old # None /\ Goto(j, "replace") /\ UNCHANGED outcome
    /\ UNCHANGED <<dirVars, flock, level, lockVars, old>>

\* os.replace.
MoveOld(j) ==
    /\ At(j, "replace")
    /\ old # None
    /\ old' = None
    /\ Goto(j, "clear")
    /\ Ends(j, "moved")
    /\ UNCHANGED <<dirVars, flock, level, lockVars>>

\* Seeded fault: the OSError of the move is not wrapped.
MoveFailsUnwrapped(j) ==
    /\ At(j, "replace")
    /\ \/ old = None /\ Ends(j, "gone")
       \/ "move" \in Faults /\ Ends(j, "OSError")
    /\ Goto(j, "clear")
    /\ UNCHANGED <<dirVars, flock, level, lockVars, old>>

\* The CredBoxError of a path that has gone since, or that of another error.
MoveFails(j) ==
    /\ At(j, "replace")
    /\ \/ old = None /\ Ends(j, "gone")
       \/ "move" \in Faults /\ Ends(j, "CredBoxError")
    /\ Goto(j, "clear")
    /\ UNCHANGED <<dirVars, flock, level, lockVars, old>>

\* The with statement ends: the body of the outer one goes on after the
\* inner one, and calls relocate_once once more.
LeaveWith(j) ==
    IF inner[j] = "open"
      THEN Goto(j, "exists") /\ inner' = [inner EXCEPT ![j] = "closed"]
      ELSE Goto(j, "idle") /\ UNCHANGED inner

\* release: _handle is cleared first,
ClearHandle(j) ==
    /\ At(j, "clear")
    /\ handle[j]
    /\ handle' = [handle EXCEPT ![j] = FALSE]
    /\ Goto(j, "close")
    /\ UNCHANGED <<dirVars, flock, level, inner, old, outcome>>

\* if it was set;
NothingToRelease(j) ==
    /\ At(j, "clear")
    /\ ~handle[j]
    /\ LeaveWith(j)
    /\ UNCHANGED <<dirVars, flock, level, handle, old, outcome>>

Freed(j) == [p \in Places |-> IF flock[p] = j THEN None ELSE flock[p]]

\* Seeded fault: a failing unlock leaves the file open.
UnlockLeaks(j) ==
    /\ At(j, "close")
    /\ flock' = Freed(j) \/ ("unlock" \in Faults /\ UNCHANGED flock)
    /\ LeaveWith(j)
    /\ UNCHANGED <<dirVars, level, handle, old, outcome>>

\* then the lock is released; if that fails the close of the file frees it.
CloseFile(j) ==
    /\ At(j, "close")
    /\ flock' = Freed(j)
    /\ LeaveWith(j)
    /\ UNCHANGED <<dirVars, level, handle, old, outcome>>

\* KeyboardInterrupt: acquire raises, with no lock taken; or the with
\* statements are left, the outer one right after the inner one.
Interrupt(j) ==
    /\ "interrupt" \in Faults
    /\ \/ /\ phase[j] \in {"mkdir", "lstat", "chmod", "open", "flock"}
          /\ Raise(j, "KeyboardInterrupt")
          /\ UNCHANGED inner
       \/ /\ phase[j] \in {"exists", "replace", "clear", "close"}
          /\ Goto(j, IF At(j, "close") THEN "close" ELSE "clear")
          /\ Ends(j, "KeyboardInterrupt")
          /\ inner' = [inner EXCEPT ![j] = IF @ = "open" THEN "closed" ELSE @]
          /\ UNCHANGED level
    /\ UNCHANGED <<dirVars, flock, handle, old>>

\* KeyboardInterrupt where no handler releases the lock: from lock_exclusive
\* to the try, and in the finally up to the try in release.  What stays open
\* is the file, as long as the exception keeps the frames; an inner with
\* statement has the outer one release a handle that is still set.
InterruptGap(j) ==
    /\ "interrupt" \in Faults
    /\ \/ LockTaken(j) /\ handle' \in {handle, [handle EXCEPT ![j] = TRUE]}
       \/ /\ At(j, "clear")
          /\ \/ inner[j] # "open" /\ UNCHANGED handle
             \/ handle' = [handle EXCEPT ![j] = FALSE]
          /\ UNCHANGED flock
    /\ Goto(j, "gap")
    /\ Ends(j, "KeyboardInterrupt")
    /\ UNCHANGED <<dirVars, level, inner, old>>

\* The program has dropped the exception: the file is collected and closed.
DropFrames(j) ==
    /\ At(j, "gap")
    /\ flock' = Freed(j)
    /\ handle' = [handle EXCEPT ![j] = FALSE]
    /\ Goto(j, "idle")
    /\ UNCHANGED <<dirVars, level, inner, old, outcome>>

\* The OS closes the files of a job that dies.
Kill(j) ==
    /\ ~At(j, "idle")
    /\ "kill" \in Faults
    /\ flock' = Freed(j)
    /\ handle' = [handle EXCEPT ![j] = FALSE]
    /\ Goto(j, "idle")
    /\ Ends(j, None)
    /\ UNCHANGED <<dirVars, level, inner, old>>

JobStep(j) ==
    \/ MakeDir(j) \/ CheckDir(j) \/ ChmodDir(j) \/ OpenLockFile(j)
    \/ TakeLock(j) \/ RefuseLock(j) \/ EnterAgain(j)
    \/ CheckOld(j) \/ MoveOld(j) \/ MoveFails(j)
    \/ ClearHandle(j) \/ NothingToRelease(j) \/ CloseFile(j)

\* What ends a run before its time, and what comes of that.
Disturbed(j) ==
    \/ DirFails(j) \/ Interrupt(j) \/ InterruptGap(j) \/ DropFrames(j)
    \/ Kill(j)

RunStep(j) == Start(j) \/ JobStep(j) \/ Disturbed(j)

Next ==
    \/ \E j \in Jobs : RunStep(j)
    \/ \E d \in Places \X Levels, k \in {"link", "foreign"} : OtherUser(d, k)

SingleSpec == Init /\ [][Next]_vars

\* A job that runs goes on; that a program ever drops an exception is not
\* taken for granted.
FairSingleSpec == SingleSpec /\ \A j \in Jobs : WF_vars(JobStep(j))

-----------------------------------------------------------------------------
TypeOK ==
    /\ primitive \in BOOLEAN
    /\ place \in [Jobs -> Places]
    /\ nests \in BOOLEAN
    /\ dir \in [Places \X Levels -> DirKinds]
    /\ flock \in [Places -> Jobs \cup {None}]
    /\ phase \in [Jobs -> Phases]
    /\ level \in [Jobs -> Levels]
    /\ handle \in [Jobs -> BOOLEAN]
    /\ inner \in [Jobs -> {"none", "open", "closed"}]
    /\ old \in {Store, None}
    /\ outcome \in [Jobs -> Endings \cup {None}]

InBody(j) == phase[j] \in {"exists", "replace"}

\* "Two runs of the same job do not overlap", where there is a lock primitive
\* and both have the same runtime directory (locking.py, the module's first
\* line).  Runs that enter the lock they hold once more are the exception:
\* what follows the inner with statement runs without the lock.
RunsExclude ==
    primitive =>
       \A j, k \in Jobs :
          InBody(j) /\ InBody(k) /\ place[j] = place[k] =>
             j = k \/ "closed" \in {inner[j], inner[k]}

\* A lock that says it is acquired is held, and an OS lock is held for a job
\* that has it, is about to free it, or was interrupted in the gap, dead ones
\* excluded (locking.py, acquired and release, "no stale lock to clean up").
HandleTellsTheTruth ==
    \A j \in Jobs :
       /\ handle[j] /\ primitive => flock[place[j]] = j
       /\ \A p \in Places :
             flock[p] = j =>
                p = place[j] /\ (handle[j] \/ phase[j] \in {"close", "gap"})

\* The lock file is only ever opened in a directory of ours that nobody else
\* can enter, under one that nobody else can change; and between the lstat
\* and the chmod of _verify_private_dir nobody puts a symlink in the place of
\* the directory, because its parent was secured first (permissions.py, "the
\* window is closed in practice"; runtime.py, runtime_dir).
CheckedDirIsUsed ==
    \A j \in Jobs :
       /\ At(j, "chmod") => dir[Dir(j)] \in {"loose", "private"}
       /\ phase[j] \in {"open", "flock"} \/ InBody(j) =>
             \A l \in Levels : dir[<<place[j], l>>] = "private"

\* "A second call is a safe no-op" (relocation.py): where the runs exclude
\* each other, a relocation that finds the store is not overtaken.
SecondCallIsSafe ==
    primitive /\ ~nests /\ (\A j, k \in Jobs : place[j] = place[k]) =>
       \A j \in Jobs : outcome[j] # "gone"

\* A lock that was taken becomes free: also when its unlock raises, and when
\* the job dies or is interrupted (locking.py, release), unless the interrupt
\* fell into the gap.
LockIsFreed ==
    \A p \in Places :
        flock[p] # None ~> flock[p] = None \/ At(flock[p], "gap")
=============================================================================
