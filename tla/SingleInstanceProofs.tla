------------------------ MODULE SingleInstanceProofs ------------------------
(***************************************************************************)
(* Proofs about SingleInstance, for any number of jobs and any faults.     *)
(*                                                                         *)
(* The invariant ties the three things that a job relies on to the         *)
(* statement it is at: its handle (HandleInv, which with                   *)
(* HandleTellsTheTruth makes jobs exclude each other), the directories     *)
(* that it has secured so far (DirInv), and the store that it has found    *)
(* (FoundInv).                                                             *)
(***************************************************************************)
EXTENDS SingleInstance, TLAPS

HandleInv ==
    \A j \in Jobs :
       /\ handle[j] => phase[j] \in {"exists", "replace", "clear", "gap"}
       /\ InBody(j) /\ inner[j] # "closed" => handle[j]
       /\ inner[j] \in {"open", "closed"} => nests

\* What a job knows of the directories it has secured so far.
JobDir(j) ==
    /\ phase[j] \in {"mkdir", "lstat", "chmod"} =>
          IF level[j] = "root" THEN place[j] = "tmp"
                           ELSE dir[<<place[j], "root">>] = "private"
    /\ At(j, "lstat") => dir[Dir(j)] # "absent"
    /\ At(j, "chmod") => dir[Dir(j)] \in {"loose", "private"}
    /\ phase[j] \notin {"idle", "mkdir", "lstat", "chmod"} =>
          \A l \in Levels : dir[<<place[j], l>>] = "private"

DirInv ==
    /\ dir[<<"xdg", "root">>] = "private"
    /\ \A j \in Jobs : JobDir(j)

OneDirectory == \A j, k \in Jobs : place[j] = place[k]

FoundInv ==
    primitive /\ ~nests /\ OneDirectory =>
       \A j \in Jobs :
          /\ At(j, "replace") => old # None
          /\ outcome[j] # "gone"

SingleInv ==
    TypeOK /\ HandleInv /\ HandleTellsTheTruth /\ DirInv /\ FoundInv

-----------------------------------------------------------------------------
(* One case per action: every proof about a step starts from this split.   *)
LEMMA StepCases ==
    ASSUME Next
    PROVE  \/ \E j \in Jobs : Start(j)
           \/ \E j \in Jobs : MakeDir(j)
           \/ \E j \in Jobs : CheckDir(j)
           \/ \E j \in Jobs : ChmodDir(j)
           \/ \E j \in Jobs : DirFails(j)
           \/ \E d \in Places \X Levels, k \in {"link", "foreign"} :
                 OtherUser(d, k)
           \/ \E j \in Jobs : OpenLockFile(j)
           \/ \E j \in Jobs : TakeLock(j)
           \/ \E j \in Jobs : RefuseLock(j)
           \/ \E j \in Jobs : EnterAgain(j)
           \/ \E j \in Jobs : CheckOld(j)
           \/ \E j \in Jobs : MoveOld(j)
           \/ \E j \in Jobs : MoveFails(j)
           \/ \E j \in Jobs : ClearHandle(j)
           \/ \E j \in Jobs : NothingToRelease(j)
           \/ \E j \in Jobs : CloseFile(j)
           \/ \E j \in Jobs : Interrupt(j)
           \/ \E j \in Jobs : InterruptGap(j)
           \/ \E j \in Jobs : DropFrames(j)
           \/ \E j \in Jobs : Kill(j)
  BY DEF Next, RunStep, JobStep, Disturbed

(* The directory a job is at is one of the four.                           *)
LEMMA DirIsKnown ==
    ASSUME TypeOK, NEW j \in Jobs
    PROVE  Dir(j) \in Places \X Levels /\ dir[Dir(j)] \in DirKinds
  BY DEF TypeOK, Dir

(* A step keeps every variable in its type. *)
LEMMA TypeStep == ASSUME TypeOK, Next PROVE TypeOK'
<1> USE SingleInstanceAssumption DEF TypeOK, Phases, Endings, Goto, Ends
<1>1. ASSUME NEW j \in Jobs, Start(j) PROVE TypeOK'
  BY <1>1 DEF Start, dirVars, given, Levels
<1>2. ASSUME NEW j \in Jobs, MakeDir(j) PROVE TypeOK'
  <2>1. dir' = dir \/ dir' = [dir EXCEPT ![Dir(j)] = "private"]
    BY <1>2 DEF MakeDir
  <2>2. dir' \in [Places \X Levels -> DirKinds]
    BY <2>1, DirIsKnown DEF DirKinds
  <2> QED
    BY <1>2, <2>2 DEF MakeDir, given, lockVars
<1>3. ASSUME NEW j \in Jobs, CheckDir(j) PROVE TypeOK'
  <2>1. \/ Raise(j, "InsecureStorageError")
        \/ Goto(j, "chmod") /\ UNCHANGED <<level, outcome>>
        \/ Secured(j)
    BY <1>3, Zenon DEF CheckDir
  <2>2. /\ phase' \in [Jobs -> Phases]
        /\ level' \in [Jobs -> Levels]
        /\ outcome' \in [Jobs -> Endings \cup {None}]
    BY <2>1 DEF Raise, Secured, Levels
  <2> QED
    BY <1>3, <2>2 DEF CheckDir, dirVars, given, lockVars
<1>4. ASSUME NEW j \in Jobs, ChmodDir(j) PROVE TypeOK'
  <2>1. dir' = dir \/ dir' = [dir EXCEPT ![Dir(j)] = "private"]
    BY <1>4 DEF ChmodDir
  <2>2. dir' \in [Places \X Levels -> DirKinds]
    BY <2>1, DirIsKnown DEF DirKinds
  <2> QED
    BY <1>4, <2>2 DEF ChmodDir, Secured, Levels, given, lockVars
<1>5. ASSUME NEW j \in Jobs, DirFails(j) PROVE TypeOK'
  BY <1>5 DEF DirFails, Raise, dirVars, given, lockVars
<1>6. ASSUME NEW d \in Places \X Levels, NEW k \in {"link", "foreign"},
             OtherUser(d, k)
      PROVE  TypeOK'
  <2>1. dir' \in [Places \X Levels -> DirKinds]
    BY <1>6 DEF OtherUser, DirKinds
  <2> QED
    BY <1>6, <2>1 DEF OtherUser, given, lockVars
<1>7. ASSUME NEW j \in Jobs, OpenLockFile(j) PROVE TypeOK'
  BY <1>7 DEF OpenLockFile, Raise, dirVars, given, lockVars
<1>8. ASSUME NEW j \in Jobs, TakeLock(j) PROVE TypeOK'
  BY <1>8 DEF TakeLock, LockTaken, dirVars, given
<1>9. ASSUME NEW j \in Jobs, RefuseLock(j) PROVE TypeOK'
  BY <1>9 DEF RefuseLock, Raise, dirVars, given, lockVars
<1>10. ASSUME NEW j \in Jobs, EnterAgain(j) PROVE TypeOK'
  BY <1>10 DEF EnterAgain, dirVars, given
<1>11. ASSUME NEW j \in Jobs, CheckOld(j) PROVE TypeOK'
  BY <1>11 DEF CheckOld, dirVars, given, lockVars
<1>12. ASSUME NEW j \in Jobs, MoveOld(j) PROVE TypeOK'
  BY <1>12 DEF MoveOld, dirVars, given, lockVars
<1>13. ASSUME NEW j \in Jobs, MoveFails(j) PROVE TypeOK'
  BY <1>13 DEF MoveFails, dirVars, given, lockVars
<1>14. ASSUME NEW j \in Jobs, ClearHandle(j) PROVE TypeOK'
  BY <1>14 DEF ClearHandle, dirVars, given
<1>15. ASSUME NEW j \in Jobs, NothingToRelease(j) PROVE TypeOK'
  BY <1>15 DEF NothingToRelease, LeaveWith, dirVars, given
<1>16. ASSUME NEW j \in Jobs, CloseFile(j) PROVE TypeOK'
  <2>1. flock' \in [Places -> Jobs \cup {None}]
    BY <1>16 DEF CloseFile, Freed
  <2> QED
    BY <1>16, <2>1 DEF CloseFile, LeaveWith, dirVars, given
<1>17. ASSUME NEW j \in Jobs, Kill(j) PROVE TypeOK'
  <2>1. flock' \in [Places -> Jobs \cup {None}]
    BY <1>17 DEF Kill, Freed
  <2> QED
    BY <1>17, <2>1 DEF Kill, dirVars, given
<1>18. ASSUME NEW j \in Jobs, Interrupt(j) PROVE TypeOK'
  BY <1>18 DEF Interrupt, Raise, dirVars, given
<1>19. ASSUME NEW j \in Jobs, InterruptGap(j) PROVE TypeOK'
  <2>1. flock' \in [Places -> Jobs \cup {None}]
    BY <1>19 DEF InterruptGap, LockTaken
  <2> QED
    BY <1>19, <2>1 DEF InterruptGap, dirVars, given
<1>20. ASSUME NEW j \in Jobs, DropFrames(j) PROVE TypeOK'
  <2>1. flock' \in [Places -> Jobs \cup {None}]
    BY <1>20 DEF DropFrames, Freed
  <2> QED
    BY <1>20, <2>1 DEF DropFrames, dirVars, given
<1> QED
  BY <1>1, <1>2, <1>3, <1>4, <1>5, <1>6, <1>7, <1>8, <1>9, <1>10, <1>11,
     <1>12, <1>13, <1>14, <1>15, <1>16, <1>17, <1>18, <1>19, <1>20,
     StepCases

-----------------------------------------------------------------------------
(* What a job that is not the one that moves keeps: its own variables.     *)
LEMMA OthersStand ==
    ASSUME TypeOK, NEW j \in Jobs, NEW i \in Jobs, i # j,
           RunStep(j)
    PROVE  /\ phase'[i] = phase[i] /\ level'[i] = level[i]
           /\ handle'[i] = handle[i] /\ inner'[i] = inner[i]
           /\ outcome'[i] = outcome[i]
<1> USE DEF TypeOK, Goto, Ends, Raise, Secured, LeaveWith, dirVars, given,
            lockVars
<1>1. ASSUME Start(j) \/ Disturbed(j)
      PROVE  /\ phase'[i] = phase[i] /\ level'[i] = level[i]
             /\ handle'[i] = handle[i] /\ inner'[i] = inner[i]
             /\ outcome'[i] = outcome[i]
  BY <1>1 DEF Start, Disturbed, DirFails, Interrupt, InterruptGap,
         LockTaken, DropFrames, Kill
<1>2. ASSUME JobStep(j)
      PROVE  /\ phase'[i] = phase[i] /\ level'[i] = level[i]
             /\ handle'[i] = handle[i] /\ inner'[i] = inner[i]
             /\ outcome'[i] = outcome[i]
  <2>1. CASE CheckDir(j)
    <3>1. \/ Raise(j, "InsecureStorageError")
          \/ Goto(j, "chmod") /\ UNCHANGED <<level, outcome>>
          \/ Secured(j)
      BY <2>1, Zenon DEF CheckDir
    <3> QED
      BY <2>1, <3>1 DEF CheckDir
  <2>2. CASE MakeDir(j) \/ ChmodDir(j) \/ OpenLockFile(j)
    BY <2>2 DEF MakeDir, ChmodDir, OpenLockFile
  <2>3. CASE TakeLock(j) \/ RefuseLock(j) \/ EnterAgain(j)
    BY <2>3 DEF TakeLock, RefuseLock, EnterAgain
  <2>4. CASE CheckOld(j) \/ MoveOld(j) \/ MoveFails(j)
    BY <2>4 DEF CheckOld, MoveOld, MoveFails
  <2>5. CASE ClearHandle(j) \/ NothingToRelease(j) \/ CloseFile(j)
    BY <2>5 DEF ClearHandle, NothingToRelease, CloseFile
  <2> QED
    BY <1>2, <2>1, <2>2, <2>3, <2>4, <2>5 DEF JobStep
<1> QED
  BY <1>1, <1>2 DEF RunStep

(* A step moves one job, or it is one of another user. *)
LEMMA OneJobMoves ==
    ASSUME Next
    PROVE  \/ \E j \in Jobs : RunStep(j)
           \/ \E d \in Places \X Levels, k \in {"link", "foreign"} :
                 OtherUser(d, k)
  BY DEF Next

-----------------------------------------------------------------------------
(* The handle of the job that moves. *)
LEMMA OwnHandleStep ==
    ASSUME TypeOK, HandleInv, NEW j \in Jobs,
           RunStep(j)
    PROVE  /\ handle'[j] => phase'[j] \in {"exists", "replace", "clear", "gap"}
           /\ InBody(j)' /\ inner'[j] # "closed" => handle'[j]
           /\ inner'[j] \in {"open", "closed"} => nests'
<1> USE DEF TypeOK, HandleInv, InBody, At, Goto, Raise, Secured, dirVars,
            given, lockVars
<1>1. CASE Start(j) \/ Disturbed(j)
  BY <1>1 DEF Start, Disturbed, DirFails, Interrupt, InterruptGap,
         LockTaken, DropFrames, Kill
<1>2. CASE MakeDir(j) \/ ChmodDir(j) \/ OpenLockFile(j)
  BY <1>2 DEF MakeDir, ChmodDir, OpenLockFile
<1>3. CASE CheckDir(j)
  <2>1. \/ Raise(j, "InsecureStorageError")
        \/ Goto(j, "chmod") /\ UNCHANGED <<level, outcome>>
        \/ Secured(j)
    BY <1>3, Zenon DEF CheckDir
  <2> QED
    BY <1>3, <2>1 DEF CheckDir
<1>4. CASE TakeLock(j) \/ RefuseLock(j) \/ EnterAgain(j)
  BY <1>4 DEF TakeLock, RefuseLock, EnterAgain
<1>5. CASE CheckOld(j) \/ MoveOld(j) \/ MoveFails(j)
  BY <1>5 DEF CheckOld, MoveOld, MoveFails
<1>6. CASE ClearHandle(j) \/ NothingToRelease(j) \/ CloseFile(j)
  BY <1>6 DEF ClearHandle, NothingToRelease, CloseFile, LeaveWith
<1> QED
  BY <1>1, <1>2, <1>3, <1>4, <1>5, <1>6 DEF RunStep, JobStep

(* No step changes the environment of a job. *)
LEMMA GivenStands == ASSUME Next PROVE UNCHANGED given
<1> USE DEF dirVars, given
<1>1. CASE \E j \in Jobs : Start(j) \/ Disturbed(j)
  BY <1>1 DEF Start, Disturbed, DirFails, Interrupt, InterruptGap,
         LockTaken, DropFrames, Kill
<1>2. CASE \E j \in Jobs : MakeDir(j) \/ CheckDir(j) \/ ChmodDir(j)
                            \/ OpenLockFile(j)
  BY <1>2, Zenon DEF MakeDir, CheckDir, ChmodDir, OpenLockFile
<1>3. CASE \E j \in Jobs : TakeLock(j) \/ RefuseLock(j) \/ EnterAgain(j)
  BY <1>3 DEF TakeLock, RefuseLock, EnterAgain
<1>4. CASE \E j \in Jobs : CheckOld(j) \/ MoveOld(j) \/ MoveFails(j)
  BY <1>4 DEF CheckOld, MoveOld, MoveFails
<1>5. CASE \E j \in Jobs : ClearHandle(j) \/ NothingToRelease(j)
                            \/ CloseFile(j)
  BY <1>5 DEF ClearHandle, NothingToRelease, CloseFile
<1>6. CASE \E d \in Places \X Levels, k \in {"link", "foreign"} :
              OtherUser(d, k)
  BY <1>6 DEF OtherUser
<1> QED
  BY <1>1, <1>2, <1>3, <1>4, <1>5, <1>6, OneJobMoves DEF RunStep, JobStep

LEMMA HandleStep == ASSUME TypeOK, HandleInv, Next PROVE HandleInv'
<1>1. CASE \E d \in Places \X Levels, k \in {"link", "foreign"} :
              OtherUser(d, k)
  BY <1>1 DEF OtherUser, HandleInv, InBody, lockVars, given
<1>2. ASSUME NEW j \in Jobs,
             RunStep(j)
      PROVE  HandleInv'
  <2>1. ASSUME NEW i \in Jobs
        PROVE  /\ handle'[i] =>
                     phase'[i] \in {"exists", "replace", "clear", "gap"}
               /\ InBody(i)' /\ inner'[i] # "closed" => handle'[i]
               /\ inner'[i] \in {"open", "closed"} => nests'
    <3>1. CASE i = j
      BY <1>2, <3>1, OwnHandleStep
    <3>2. CASE i # j
      <4>1. /\ phase'[i] = phase[i] /\ handle'[i] = handle[i]
            /\ inner'[i] = inner[i] /\ nests' = nests
        BY <1>2, <3>2, OthersStand, GivenStands DEF given
      <4> QED
        BY <4>1 DEF HandleInv, InBody
    <3> QED
      BY <3>1, <3>2
  <2> QED
    BY <2>1 DEF HandleInv
<1> QED
  BY <1>1, <1>2, OneJobMoves

(* The OS lock follows the handle. *)
LEMMA TruthStep ==
    ASSUME TypeOK, HandleInv, HandleTellsTheTruth, Next
    PROVE  HandleTellsTheTruth'
<1> USE SingleInstanceAssumption
    DEF TypeOK, HandleInv, HandleTellsTheTruth, At, Goto, Raise, given,
        dirVars, lockVars, LeaveWith
<1>1. ASSUME NEW j \in Jobs, Start(j) PROVE HandleTellsTheTruth'
  BY <1>1 DEF Start
<1>2. ASSUME NEW j \in Jobs, MakeDir(j) PROVE HandleTellsTheTruth'
  BY <1>2 DEF MakeDir
<1>3. ASSUME NEW j \in Jobs, CheckDir(j) PROVE HandleTellsTheTruth'
  <2>1. \/ Raise(j, "InsecureStorageError")
        \/ Goto(j, "chmod") /\ UNCHANGED <<level, outcome>>
        \/ Secured(j)
    BY <1>3, Zenon DEF CheckDir
  <2> QED
    BY <1>3, <2>1 DEF CheckDir, Secured
<1>4. ASSUME NEW j \in Jobs, ChmodDir(j) PROVE HandleTellsTheTruth'
  BY <1>4 DEF ChmodDir, Secured
<1>5. ASSUME NEW j \in Jobs, DirFails(j) PROVE HandleTellsTheTruth'
  BY <1>5 DEF DirFails
<1>6. ASSUME NEW d \in Places \X Levels, NEW k \in {"link", "foreign"},
             OtherUser(d, k)
      PROVE  HandleTellsTheTruth'
  BY <1>6 DEF OtherUser
<1>7. ASSUME NEW j \in Jobs, OpenLockFile(j) PROVE HandleTellsTheTruth'
  BY <1>7 DEF OpenLockFile
<1>8. ASSUME NEW j \in Jobs, TakeLock(j) PROVE HandleTellsTheTruth'
  BY <1>8 DEF TakeLock, LockTaken
<1>9. ASSUME NEW j \in Jobs, RefuseLock(j) PROVE HandleTellsTheTruth'
  BY <1>9 DEF RefuseLock
<1>10. ASSUME NEW j \in Jobs, EnterAgain(j) PROVE HandleTellsTheTruth'
  BY <1>10 DEF EnterAgain
<1>11. ASSUME NEW j \in Jobs, CheckOld(j) PROVE HandleTellsTheTruth'
  BY <1>11 DEF CheckOld
<1>12. ASSUME NEW j \in Jobs, MoveOld(j) PROVE HandleTellsTheTruth'
  BY <1>12 DEF MoveOld
<1>13. ASSUME NEW j \in Jobs, MoveFails(j) PROVE HandleTellsTheTruth'
  BY <1>13 DEF MoveFails
<1>14. ASSUME NEW j \in Jobs, ClearHandle(j) PROVE HandleTellsTheTruth'
  BY <1>14 DEF ClearHandle
<1>15. ASSUME NEW j \in Jobs, NothingToRelease(j)
       PROVE  HandleTellsTheTruth'
  BY <1>15 DEF NothingToRelease
<1>16. ASSUME NEW j \in Jobs, CloseFile(j) PROVE HandleTellsTheTruth'
  BY <1>16 DEF CloseFile, Freed
<1>17. ASSUME NEW j \in Jobs, Kill(j) PROVE HandleTellsTheTruth'
  BY <1>17 DEF Kill, Freed
<1>18. ASSUME NEW j \in Jobs, Interrupt(j) PROVE HandleTellsTheTruth'
  BY <1>18 DEF Interrupt
<1>19. ASSUME NEW j \in Jobs, InterruptGap(j) PROVE HandleTellsTheTruth'
  BY <1>19 DEF InterruptGap, LockTaken
<1>20. ASSUME NEW j \in Jobs, DropFrames(j) PROVE HandleTellsTheTruth'
  BY <1>20 DEF DropFrames, Freed
<1> QED
  BY <1>1, <1>2, <1>3, <1>4, <1>5, <1>6, <1>7, <1>8, <1>9, <1>10, <1>11,
     <1>12, <1>13, <1>14, <1>15, <1>16, <1>17, <1>18, <1>19, <1>20,
     StepCases

-----------------------------------------------------------------------------
(* What a job does to a directory: it makes it, or tightens it. *)
LEMMA JobsTighten ==
    ASSUME TypeOK, NEW j \in Jobs,
           RunStep(j),
           NEW x \in Places \X Levels
    PROVE  dir'[x] = dir[x]
              \/ (dir[x] \in {"absent", "loose"} /\ dir'[x] = "private")
<1> USE DEF dirVars, given
<1>1. CASE MakeDir(j)
  BY <1>1, DirIsKnown DEF MakeDir, TypeOK
<1>2. CASE ChmodDir(j)
  BY <1>2, DirIsKnown DEF ChmodDir, TypeOK
<1>3. CASE Start(j) \/ Disturbed(j)
  BY <1>3 DEF Start, Disturbed, DirFails, Interrupt, InterruptGap,
         LockTaken, DropFrames, Kill
<1>4. CASE CheckDir(j) \/ OpenLockFile(j) \/ TakeLock(j) \/ RefuseLock(j)
             \/ EnterAgain(j)
  BY <1>4, Zenon DEF CheckDir, OpenLockFile, TakeLock, RefuseLock, EnterAgain
<1>5. CASE CheckOld(j) \/ MoveOld(j) \/ MoveFails(j)
  BY <1>5 DEF CheckOld, MoveOld, MoveFails
<1>6. CASE ClearHandle(j) \/ NothingToRelease(j) \/ CloseFile(j)
  BY <1>6 DEF ClearHandle, NothingToRelease, CloseFile
<1> QED
  BY <1>1, <1>2, <1>3, <1>4, <1>5, <1>6 DEF RunStep, JobStep

(* The job that moves knows enough of its directories at its next          *)
(* statement.                                                              *)
LEMMA OwnDirStep ==
    ASSUME TypeOK, DirInv, Next, NEW j \in Jobs,
           RunStep(j)
    PROVE  JobDir(j)'
<1>1. place'[j] = place[j]
  BY GivenStands DEF given
<1>2. /\ <<place[j], "root">> \in Places \X Levels
      /\ <<place[j], "leaf">> \in Places \X Levels
      /\ Dir(j) \in Places \X Levels
      /\ level[j] \in Levels /\ Levels = {"root", "leaf"}
      /\ place[j] = "tmp" \/ place[j] = "xdg"
  BY DirIsKnown DEF TypeOK, Places, Levels
<1>3. \A x \in Places \X Levels :
         dir'[x] = dir[x]
            \/ (dir[x] \in {"absent", "loose"} /\ dir'[x] = "private")
  BY JobsTighten
<1>4. JobDir(j)
  BY DEF DirInv
<1> USE DEF TypeOK, At, Goto, Raise, dirVars, given
<1>5. CASE Start(j)
  <2>1. /\ phase'[j] = "mkdir" /\ dir' = dir
        /\ level'[j] = IF place[j] = "tmp" THEN "root" ELSE "leaf"
    BY <1>5 DEF Start
  <2> QED
    BY <1>1, <1>2, <2>1 DEF JobDir, DirInv
<1>6. CASE Disturbed(j)
  <2>1. /\ dir' = dir
        /\ phase'[j] \notin {"mkdir", "lstat", "chmod"}
        /\ \/ phase'[j] = "idle"
           \/ phase[j] \notin {"idle", "mkdir", "lstat", "chmod"}
    BY <1>6 DEF Disturbed, DirFails, Interrupt, InterruptGap, LockTaken,
         DropFrames, Kill
  <2> QED
    BY <1>1, <1>4, <2>1 DEF JobDir
<1>7. CASE MakeDir(j)
  <2>1. level'[j] = level[j] /\ Dir(j)' = Dir(j)
    BY <1>1, <1>7 DEF MakeDir, Dir
  <2>2. phase[j] = "mkdir"
    BY <1>7 DEF MakeDir
  <2>3. \/ phase'[j] = "chmod" /\ dir'[Dir(j)] = "private"
        \/ phase'[j] = "lstat" /\ dir' = dir /\ dir[Dir(j)] # "absent"
    BY <1>2, <1>7 DEF MakeDir
  <2> QED
    BY <1>1, <1>2, <1>3, <1>4, <2>1, <2>2, <2>3 DEF JobDir
<1>8. CASE CheckDir(j)
  <2>1. dir' = dir /\ phase[j] = "lstat"
    BY <1>8, Zenon DEF CheckDir
  <2>2. \/ Raise(j, "InsecureStorageError")
        \/ Goto(j, "chmod") /\ level' = level /\ dir[Dir(j)] = "loose"
        \/ Secured(j) /\ dir[Dir(j)] \notin {"link", "foreign", "loose"}
    BY <1>8, Zenon DEF CheckDir
  <2>3. CASE Raise(j, "InsecureStorageError")
    BY <2>3 DEF JobDir
  <2>4. CASE Goto(j, "chmod") /\ level' = level /\ dir[Dir(j)] = "loose"
    BY <1>1, <1>4, <2>1, <2>4 DEF JobDir, Dir
  <2>5. CASE Secured(j) /\ dir[Dir(j)] \notin {"link", "foreign", "loose"}
    <3>1. dir[Dir(j)] = "private"
      BY <1>2, <1>4, <2>1, <2>5 DEF JobDir, DirKinds
    <3> QED
      BY <1>1, <1>2, <1>4, <2>1, <2>5, <3>1 DEF JobDir, Secured, Dir
  <2> QED
    BY <2>2, <2>3, <2>4, <2>5
<1>9. CASE ChmodDir(j)
  <2>1. phase[j] = "chmod" /\ Secured(j)
    BY <1>9 DEF ChmodDir
  <2>2. dir'[Dir(j)] = "private"
    BY <1>2, <1>4, <1>9, <2>1 DEF ChmodDir, JobDir
  <2> QED
    BY <1>1, <1>2, <1>3, <1>4, <2>1, <2>2 DEF JobDir, Secured, Dir
<1>10. CASE OpenLockFile(j) \/ TakeLock(j) \/ RefuseLock(j) \/ EnterAgain(j)
              \/ CheckOld(j) \/ MoveOld(j) \/ MoveFails(j)
              \/ ClearHandle(j) \/ NothingToRelease(j) \/ CloseFile(j)
  <2>1. /\ phase[j] \notin {"idle", "mkdir", "lstat", "chmod"}
        /\ phase'[j] \notin {"mkdir", "lstat", "chmod"}
        /\ dir' = dir
    BY <1>10
       DEF OpenLockFile, TakeLock, LockTaken, RefuseLock, EnterAgain,
           CheckOld, MoveOld, MoveFails, ClearHandle, NothingToRelease,
           CloseFile, LeaveWith
  <2> QED
    BY <1>1, <1>4, <2>1 DEF JobDir
<1> QED
  BY <1>5, <1>6, <1>7, <1>8, <1>9, <1>10 DEF RunStep, JobStep

(* The other jobs keep what they know: a directory that is private stays   *)
(* so, and none that a job has found to be its own is taken away.          *)
LEMMA DirStep == ASSUME TypeOK, DirInv, Next PROVE DirInv'
<1>1. UNCHANGED given
  BY GivenStands
<1>2. ASSUME NEW j \in Jobs,
             RunStep(j)
      PROVE  DirInv'
  <2>1. \A x \in Places \X Levels :
           dir'[x] = dir[x]
              \/ (dir[x] \in {"absent", "loose"} /\ dir'[x] = "private")
    BY <1>2, JobsTighten
  <2>2. ASSUME NEW i \in Jobs PROVE JobDir(i)'
    <3>1. CASE i = j
      BY <1>2, <3>1, OwnDirStep
    <3>2. CASE i # j
      <4>1. phase'[i] = phase[i] /\ level'[i] = level[i]
        BY <1>2, <3>2, OthersStand
      <4>2. /\ <<place[i], "root">> \in Places \X Levels
            /\ \A l \in Levels : <<place[i], l>> \in Places \X Levels
            /\ Dir(i) \in Places \X Levels /\ Dir(i)' = Dir(i)
        BY <1>1, <4>1, DirIsKnown DEF TypeOK, Places, Levels, Dir, given
      <4> QED
        BY <1>1, <2>1, <4>1, <4>2 DEF DirInv, JobDir, At, given
    <3> QED
      BY <3>1, <3>2
  <2>3. dir'[<<"xdg", "root">>] = "private"
    BY <2>1 DEF DirInv, Places, Levels
  <2> QED
    BY <2>2, <2>3 DEF DirInv
<1>3. ASSUME NEW d \in Places \X Levels, NEW k \in {"link", "foreign"},
             OtherUser(d, k)
      PROVE  DirInv'
  <2>1. /\ dir' = [dir EXCEPT ![d] = k] /\ d[1] = "tmp"
        /\ IF d[2] = "root" THEN dir[d] = "absent"
                            ELSE dir[<<"tmp", "root">>] = "loose"
        /\ d = <<d[1], d[2]>> /\ d[2] \in {"root", "leaf"}
    BY <1>3 DEF OtherUser, Levels
  <2>2. ASSUME NEW i \in Jobs PROVE JobDir(i)'
    <3>1. phase'[i] = phase[i] /\ level'[i] = level[i]
      BY <1>3 DEF OtherUser
    <3>2. /\ place[i] \in Places /\ level[i] \in Levels
          /\ Dir(i) = <<place[i], level[i]>> /\ Dir(i)' = Dir(i)
          /\ Dir(i) \in Places \X Levels
          /\ DOMAIN dir = Places \X Levels
      BY <1>1, <3>1 DEF TypeOK, Dir, given
    <3>3. CASE d[2] = "root"
      <4>1. d = <<"tmp", "root">> /\ dir[<<"tmp", "root">>] = "absent"
        BY <2>1, <3>3
      <4> QED
        BY <1>1, <2>1, <3>1, <3>2, <4>1
           DEF DirInv, JobDir, At, given, Levels, Places
    <3>4. CASE d[2] = "leaf"
      <4>1. d = <<"tmp", "leaf">> /\ dir[<<"tmp", "root">>] = "loose"
        BY <2>1, <3>4
      <4> QED
        BY <1>1, <2>1, <3>1, <3>2, <4>1
           DEF DirInv, JobDir, At, given, Levels, Places
    <3> QED
      BY <2>1, <3>3, <3>4
  <2> QED
    BY <2>1, <2>2 DEF DirInv, TypeOK
<1> QED
  BY <1>2, <1>3, OneJobMoves

-----------------------------------------------------------------------------
(* Where there is a lock primitive, one job is in the guarded body of a    *)
(* place at a time: both would hold the OS lock of that place.             *)
LEMMA GuardsExclude ==
    ASSUME HandleInv, HandleTellsTheTruth
    PROVE  RunsExclude
<1>1. SUFFICES ASSUME primitive, NEW j \in Jobs, NEW k \in Jobs,
                      InBody(j), InBody(k), place[j] = place[k],
                      inner[j] # "closed", inner[k] # "closed"
               PROVE  j = k
  BY DEF RunsExclude
<1>2. handle[j] /\ handle[k]
  BY <1>1 DEF HandleInv
<1>3. flock[place[j]] = j /\ flock[place[k]] = k
  BY <1>1, <1>2 DEF HandleTellsTheTruth
<1> QED
  BY <1>1, <1>3

(* Only the rename changes the store. *)
LEMMA StoreStep ==
    ASSUME Next
    PROVE  UNCHANGED old \/ \E j \in Jobs : MoveOld(j)
<1>1. ASSUME \E j \in Jobs : Start(j) \/ MakeDir(j) \/ CheckDir(j)
                              \/ ChmodDir(j)
      PROVE  UNCHANGED old
  BY <1>1, Zenon DEF Start, MakeDir, CheckDir, ChmodDir
<1>2. ASSUME \E j \in Jobs : Disturbed(j)
      PROVE  UNCHANGED old
  BY <1>2 DEF Disturbed, DirFails, Interrupt, InterruptGap, DropFrames, Kill
<1>3. ASSUME \E j \in Jobs : OpenLockFile(j) \/ TakeLock(j)
                              \/ RefuseLock(j) \/ EnterAgain(j)
      PROVE  UNCHANGED old
  BY <1>3 DEF OpenLockFile, TakeLock, RefuseLock, EnterAgain
<1>4. ASSUME \E j \in Jobs : CheckOld(j) \/ MoveFails(j) \/ ClearHandle(j)
                              \/ NothingToRelease(j) \/ CloseFile(j)
      PROVE  UNCHANGED old
  BY <1>4 DEF CheckOld, MoveFails, ClearHandle, NothingToRelease, CloseFile
<1>5. ASSUME \E d \in Places \X Levels, k \in {"link", "foreign"} :
                OtherUser(d, k)
      PROVE  UNCHANGED old
  BY <1>5 DEF OtherUser
<1> QED
  BY <1>1, <1>2, <1>3, <1>4, <1>5 DEF Next, RunStep, JobStep

(* What a job has found it still has when it moves it: another job that    *)
(* takes it away would be in the body, too.                                *)
LEMMA FoundStep ==
    ASSUME TypeOK, HandleInv, HandleTellsTheTruth, FoundInv, Next
    PROVE  FoundInv'
<1>1. UNCHANGED given
  BY GivenStands
<1>2. SUFFICES ASSUME primitive, ~nests, OneDirectory, NEW i \in Jobs
               PROVE  /\ At(i, "replace")' => old' # None
                      /\ outcome'[i] # "gone"
  BY <1>1 DEF FoundInv, OneDirectory, given
<1>3. /\ At(i, "replace") => old # None
      /\ outcome[i] # "gone"
  BY <1>2 DEF FoundInv
<1>4. CASE \E d \in Places \X Levels, k \in {"link", "foreign"} :
              OtherUser(d, k)
  BY <1>3, <1>4 DEF OtherUser, At
<1>5. ASSUME NEW j \in Jobs,
             RunStep(j), i # j
      PROVE  /\ At(i, "replace")' => old' # None
             /\ outcome'[i] # "gone"
  <2>1. phase'[i] = phase[i] /\ outcome'[i] = outcome[i]
    BY <1>5, OthersStand
  <2>2. ASSUME NEW k \in Jobs, MoveOld(k) PROVE ~At(i, "replace")'
    <3>1. k = j
      <4>1. phase'[k] # phase[k]
        BY <2>2 DEF MoveOld, At, Goto, TypeOK
      <4> QED
        BY <1>5, <4>1, OthersStand
    <3>2. InBody(k) /\ inner[k] # "closed" /\ inner[i] # "closed"
      BY <1>2, <2>2 DEF MoveOld, At, InBody, HandleInv
    <3>3. place[i] = place[k]
      BY <1>2 DEF OneDirectory
    <3> QED
      BY <1>2, <1>5, <2>1, <3>1, <3>2, <3>3, GuardsExclude
         DEF RunsExclude, InBody, At
  <2> QED
    BY <1>3, <2>1, <2>2, StoreStep DEF At
<1>6. ASSUME RunStep(i)
      PROVE  /\ At(i, "replace")' => old' # None
             /\ outcome'[i] # "gone"
  <2> USE <1>3, SingleInstanceAssumption
      DEF Endings, TypeOK, At, Goto, Ends, Raise, dirVars, given
  <2>1. CASE Start(i) \/ Disturbed(i)
    BY <2>1 DEF Start, Disturbed, DirFails, Interrupt, InterruptGap,
         LockTaken, DropFrames, Kill
  <2>2. CASE MakeDir(i) \/ ChmodDir(i) \/ OpenLockFile(i)
    BY <2>2 DEF MakeDir, ChmodDir, OpenLockFile, Secured
  <2>3. CASE CheckDir(i)
    <3>1. \/ Raise(i, "InsecureStorageError")
          \/ Goto(i, "chmod") /\ UNCHANGED <<level, outcome>>
          \/ Secured(i)
      BY <2>3, Zenon DEF CheckDir
    <3> QED
      BY <2>3, <3>1 DEF CheckDir, Secured
  <2>4. CASE TakeLock(i) \/ RefuseLock(i) \/ EnterAgain(i)
    BY <2>4 DEF TakeLock, RefuseLock, EnterAgain
  <2>5. CASE CheckOld(i) \/ MoveOld(i) \/ MoveFails(i)
    BY <2>5 DEF CheckOld, MoveOld, MoveFails
  <2>6. CASE ClearHandle(i) \/ NothingToRelease(i) \/ CloseFile(i)
    BY <2>6 DEF ClearHandle, NothingToRelease, CloseFile, LeaveWith
  <2> QED
    BY <1>6, <2>1, <2>2, <2>3, <2>4, <2>5, <2>6 DEF RunStep, JobStep
<1> QED
  BY <1>4, <1>5, <1>6, OneJobMoves

-----------------------------------------------------------------------------
LEMMA InitHolds == ASSUME Init PROVE SingleInv
<1> USE SingleInstanceAssumption DEF Init
<1>1. TypeOK
  BY DEF TypeOK, Phases, Levels, Endings, DirKinds
<1>2. HandleInv /\ HandleTellsTheTruth
  BY DEF HandleInv, HandleTellsTheTruth, InBody, Places
<1>3. DirInv
  BY DEF DirInv, JobDir, At, InBody
<1>4. FoundInv
  BY DEF FoundInv, At, Endings
<1> QED
  BY <1>1, <1>2, <1>3, <1>4 DEF SingleInv

LEMMA StutterStep == ASSUME SingleInv, UNCHANGED vars PROVE SingleInv'
<1> USE DEF vars, dirVars, given, lockVars, SingleInv
<1>1. TypeOK' /\ HandleInv'
  BY DEF TypeOK, HandleInv, InBody
<1>2. HandleTellsTheTruth'
  BY DEF HandleTellsTheTruth, At
<1>3. DirInv'
  BY DEF DirInv, JobDir, At, Dir
<1>4. FoundInv'
  BY DEF FoundInv, OneDirectory, At
<1> QED
  BY <1>1, <1>2, <1>3, <1>4

(* The invariant holds in every reachable state, whatever the jobs meet. *)
THEOREM SingleInvariant == SingleSpec => []SingleInv
<1>1. Init => SingleInv
  BY InitHolds
<1>2. SingleInv /\ [Next]_vars => SingleInv'
  <2>1. ASSUME SingleInv, Next PROVE SingleInv'
    BY <2>1, TypeStep, HandleStep, TruthStep, DirStep, StoreStep, FoundStep
       DEF SingleInv
  <2> QED
    BY <2>1, StutterStep
<1> QED
  BY <1>1, <1>2, PTL DEF SingleSpec

(* Every behaviour is type correct: a run ends in one of the ways that     *)
(* locking.py, runtime.py and relocation.py document.                      *)
THEOREM SingleTypeCorrect == SingleSpec => []TypeOK
<1>1. SingleInv => TypeOK
  BY DEF SingleInv
<1> QED
  BY <1>1, SingleInvariant, PTL

(* Any number of runs of a job: where there is a lock primitive, no two of *)
(* them are in their bodies together in one place, unless one of them has  *)
(* left an inner with statement on its lock.                               *)
THEOREM RunsAreExclusive == SingleSpec => []RunsExclude
<1>1. SingleInv => RunsExclude
  BY GuardsExclude DEF SingleInv
<1> QED
  BY <1>1, SingleInvariant, PTL

(* acquired never says "held" over a lock that is not, and no exit but an  *)
(* interrupt in the gap leaves an OS lock that nobody is going to free.    *)
THEOREM HandleIsTrue == SingleSpec => []HandleTellsTheTruth
<1>1. SingleInv => HandleTellsTheTruth
  BY DEF SingleInv
<1> QED
  BY <1>1, SingleInvariant, PTL

(* Whatever other users do in the temporary directory at whatever moment,  *)
(* the directory that was checked is the one that is tightened and used.   *)
THEOREM CheckedDirStaysSafe == SingleSpec => []CheckedDirIsUsed
<1>1. SingleInv => CheckedDirIsUsed
  BY DEF SingleInv, DirInv, JobDir, CheckedDirIsUsed, InBody
<1> QED
  BY <1>1, SingleInvariant, PTL

(* Between runs that exclude each other a relocation never finds its store *)
(* gone.                                                                   *)
THEOREM RelocationIsSafe == SingleSpec => []SecondCallIsSafe
<1>1. SingleInv => SecondCallIsSafe
  BY DEF SingleInv, FoundInv, OneDirectory, SecondCallIsSafe
<1> QED
  BY <1>1, SingleInvariant, PTL
=============================================================================
