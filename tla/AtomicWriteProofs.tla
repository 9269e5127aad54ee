------------------------- MODULE AtomicWriteProofs -------------------------
(***************************************************************************)
(* Proofs about AtomicWrite, for any writers, readers, platforms, faults   *)
(* and number of retries.                                                  *)
(*                                                                         *)
(* The target is whole because only a version that was fsynced is renamed  *)
(* to it, and a version that was fsynced is not written to again: BytesInv *)
(* ties the bytes of a file to the statement its call is at, SyncedInv     *)
(* says what an fsync has bought.  NameInv follows the temp name and the   *)
(* target name through the rename, FdInv the descriptor.                   *)
(***************************************************************************)
EXTENDS AtomicWrite, SequenceTheorems, TLAPS

\* The statements at which the bytes of a version are not settled yet.
Unsynced == {"start", "fdopen", "fchmod", "write", "flush", "fsync"}

BytesInv ==
    \A w \in Writers :
        /\ pc[w] \in Unsynced => w \notin synced
        /\ pc[w] \in {"fsync", "close", "replace", "dirsync"} =>
              bytes[w] = "whole"
        /\ pc[w] \in {"close", "replace", "dirsync"} => w \in synced

\* What was fsynced is whole, and nothing else is renamed or read.
SyncedInv ==
    /\ \A v \in synced : bytes[v] = "whole"
    /\ Renamed \subseteq synced
    /\ \A r \in Readers : reading[r] \in synced \cup {None}

NameInv ==
    \A w \in Writers :
        /\ pc[w] = "start" => w \notin temp
        /\ pc[w] \in {"close", "replace"} => w \notin Renamed
        /\ pc[w] = "dirsync" => w \in Renamed /\ w \notin temp

FdInv ==
    \A w \in Writers :
        /\ pc[w] \in {"start", "replace", "dirsync", "ok", "killed"} =>
              w \notin fd
        /\ pc[w] \in {"cleanup", "raised"} /\ w \in fd =>
              error[w] = "KeyboardInterrupt"

WriteInv ==
    TypeOK /\ BytesInv /\ SyncedInv /\ NameInv /\ FdInv
           /\ AcknowledgedIsDurable

-----------------------------------------------------------------------------
(* A rename adds its version to those that were renamed. *)
LEMMA RenameAdds ==
    ASSUME TypeOK, NEW w \in Writers, renames' = Append(renames, w)
    PROVE  /\ renames' \in Seq(Versions)
           /\ Len(renames') = Len(renames) + 1
           /\ \A i \in 1..Len(renames) : renames'[i] = renames[i]
           /\ Renamed' = Renamed \cup {w}
<1>1. renames \in Seq(Versions) /\ w \in Versions /\ Len(renames) \in Nat
  BY DEF TypeOK, Versions
<1>2. /\ renames' \in Seq(Versions)
      /\ Len(renames') = Len(renames) + 1
      /\ \A i \in 1..Len(renames) : renames'[i] = renames[i]
      /\ renames'[Len(renames) + 1] = w
  BY <1>1, AppendProperties
<1>3. 1..Len(renames') = (1..Len(renames)) \cup {Len(renames) + 1}
  BY <1>1, <1>2
<1> QED
  BY <1>2, <1>3 DEF Renamed

(* A loss of power leaves a prefix of the renames. *)
LEMMA PrefixRemains ==
    ASSUME TypeOK, NEW n \in durable..Len(renames),
           renames' = SubSeq(renames, 1, n)
    PROVE  /\ renames' \in Seq(Versions)
           /\ Len(renames') = n
           /\ \A i \in 1..n : renames'[i] = renames[i]
           /\ Renamed' \subseteq Renamed
           /\ n \in Nat /\ durable <= n /\ n <= Len(renames)
<1>1. /\ renames \in Seq(Versions) /\ Len(renames) \in Nat
      /\ durable \in Nat /\ n \in Nat /\ n <= Len(renames) /\ durable <= n
  BY DEF TypeOK
<1>2. \A i \in 1..n : renames[i] \in Versions
  BY <1>1, ElementOfSeq
<1>3. /\ renames' \in Seq(Versions)
      /\ Len(renames') = n
      /\ \A i \in 1..n : renames'[i] = renames[i]
  BY <1>1, <1>2, SubSeqProperties
<1>4. Renamed' \subseteq Renamed
  BY <1>1, <1>3 DEF Renamed
<1> QED
  BY <1>1, <1>3, <1>4

(* The current target is a version that was renamed, if there is one. *)
LEMMA TargetIsRenamed ==
    ASSUME TypeOK
    PROVE  Target \in Renamed \cup {None} /\ Renamed \subseteq Versions
<1>1. renames \in Seq(Versions) /\ Len(renames) \in Nat
  BY DEF TypeOK
<1>2. Renamed \subseteq Versions
  BY <1>1, ElementOfSeq DEF Renamed
<1>3. renames # <<>> => Len(renames) \in 1..Len(renames)
  BY <1>1
<1> QED
  BY <1>2, <1>3 DEF Target, Renamed

-----------------------------------------------------------------------------
(* Every action keeps the types. *)
LEMMA TypeStep ==
    ASSUME TypeOK, [Next]_vars
    PROVE  TypeOK'
<1> USE AtomicWriteAssumption
<1>1. CASE UNCHANGED vars
  BY <1>1 DEF vars, TypeOK
<1>2. ASSUME NEW w \in Writers,
             \/ MakeTemp(w) \/ AdoptDescriptor(w) \/ PinMode(w)
             \/ CloseTemp(w) \/ RemoveTemp(w) \/ RemoveTempFails(w)
             \/ KillWriter(w)
      PROVE  TypeOK'
  BY <1>2 DEF TypeOK, PCs, Ended, Goto, MakeTemp, AdoptDescriptor, PinMode,
              CloseTemp, RemoveTemp, RemoveTempFails, KillWriter
<1>3. ASSUME NEW w \in Writers,
             MakeTempFails(w) \/ StepFails(w) \/ Interrupt(w) \/ InterruptGap(w)
      PROVE  TypeOK'
  <2>1. pc' \in [Writers -> PCs] /\ fd' \subseteq Writers
    BY <1>3 DEF TypeOK, PCs, Ended, Goto, MakeTempFails, StepFails,
                Interrupt, InterruptGap
  <2>2. error' \in [Writers -> {"CredBoxError", "KeyboardInterrupt", None}]
    BY <1>3 DEF TypeOK, Raise, MakeTempFails, StepFails, Interrupt,
                InterruptGap
  <2> QED
    BY <1>3, <2>1, <2>2 DEF TypeOK, MakeTempFails, StepFails, Interrupt,
                            InterruptGap
<1>4. ASSUME NEW w \in Writers, WriteSome(w) \/ Flush(w) \/ FsyncFile(w)
      PROVE  TypeOK'
  <2>1. bytes' \in [Versions -> {"none", "part", "whole"}]
    BY <1>4 DEF TypeOK, WriteSome, Flush, FsyncFile
  <2>2. pc' \in [Writers -> PCs]
    BY <1>4 DEF TypeOK, PCs, Goto, WriteSome, Flush, FsyncFile
  <2>3. synced' \subseteq Versions
    BY <1>4 DEF TypeOK, Versions, WriteSome, Flush, FsyncFile
  <2> QED
    BY <1>4, <2>1, <2>2, <2>3 DEF TypeOK, WriteSome, Flush, FsyncFile
<1>5. ASSUME NEW w \in Writers, ReplaceTarget(w)
      PROVE  TypeOK'
  BY <1>5, RenameAdds DEF TypeOK, PCs, Goto, ReplaceTarget
<1>6. ASSUME NEW w \in Writers, ReplaceDenied(w)
      PROVE  TypeOK'
  <2>1. CASE MayRetry(w)
    <3>1. tries[w] + 1 \in 0..Retries
      BY <2>1 DEF TypeOK, MayRetry
    <3> QED
      BY <1>6, <2>1, <3>1 DEF TypeOK, ReplaceDenied
  <2>2. CASE ~MayRetry(w)
    BY <1>6, <2>2 DEF TypeOK, PCs, Goto, Raise, ReplaceDenied
  <2> QED
    BY <2>1, <2>2
<1>7. ASSUME NEW w \in Writers, FsyncDir(w)
      PROVE  TypeOK'
  <2>1. durable' \in 0..Len(renames')
    BY <1>7 DEF TypeOK, FsyncDir
  <2> QED
    BY <1>7, <2>1 DEF TypeOK, PCs, Ended, Goto, FsyncDir
<1>8. ASSUME NEW r \in Readers, OpenTarget(r) \/ CloseTarget(r)
      PROVE  TypeOK'
  BY <1>8, TargetIsRenamed DEF TypeOK, OpenTarget, CloseTarget
<1>9. CASE LosePower
  <2>1. PICK n \in durable..Len(renames) :
           renames' = SubSeq(renames, 1, n) /\ durable' = n
    BY <1>9 DEF LosePower
  <2>2. renames' \in Seq(Versions) /\ durable' \in 0..Len(renames')
    BY <2>1, PrefixRemains
  <2>3. pc' \in [Writers -> PCs] /\ temp' \subseteq Writers
    BY <1>9 DEF TypeOK, LosePower, PCs, Ended
  <2> QED
    BY <1>9, <2>2, <2>3 DEF TypeOK, LosePower
<1> QED
  BY <1>1, <1>2, <1>3, <1>4, <1>5, <1>6, <1>7, <1>8, <1>9 DEF Next, Step

(* Bytes change before the fsync only, and what was fsynced stays whole.   *)
LEMMA BytesStep ==
    ASSUME TypeOK, BytesInv, SyncedInv, [Next]_vars
    PROVE  BytesInv' /\ SyncedInv'
<1> USE AtomicWriteAssumption DEF TypeOK, Versions
<1>1. CASE UNCHANGED vars
  BY <1>1 DEF vars, BytesInv, SyncedInv, Renamed
<1>2. ASSUME NEW w \in Writers,
             \/ MakeTemp(w) \/ AdoptDescriptor(w) \/ PinMode(w)
             \/ CloseTemp(w) \/ ReplaceDenied(w) \/ FsyncDir(w)
             \/ RemoveTemp(w) \/ RemoveTempFails(w) \/ MakeTempFails(w)
             \/ StepFails(w) \/ Interrupt(w) \/ InterruptGap(w)
             \/ KillWriter(w)
      PROVE  BytesInv' /\ SyncedInv'
  <2>1. UNCHANGED <<bytes, synced, renames, reading>>
    BY <1>2 DEF MakeTemp, AdoptDescriptor, PinMode, CloseTemp, ReplaceDenied,
                FsyncDir, RemoveTemp, RemoveTempFails, MakeTempFails,
                StepFails, Interrupt, InterruptGap, KillWriter
  <2>2. SyncedInv'
    BY <2>1 DEF SyncedInv, Renamed
  <2>3. \A v \in Writers \ {w} : pc'[v] = pc[v]
    BY <1>2 DEF Goto, MakeTemp, AdoptDescriptor, PinMode, CloseTemp,
                ReplaceDenied, FsyncDir, RemoveTemp, RemoveTempFails,
                MakeTempFails, StepFails, Interrupt, InterruptGap, KillWriter
  <2>4. \/ pc[w] \in Unsynced /\ pc'[w] \in Unsynced \ {"fsync"}
        \/ pc'[w] \in Ended \cup {"cleanup"}
        \/ pc'[w] = pc[w]
        \/ pc[w] = "close" /\ pc'[w] = "replace"
    BY <1>2 DEF Unsynced, Ended, Goto, MakeTemp, AdoptDescriptor, PinMode,
                CloseTemp, ReplaceDenied, FsyncDir, RemoveTemp,
                RemoveTempFails, MakeTempFails, StepFails, Interrupt,
                InterruptGap, KillWriter
  <2> QED
    BY <2>1, <2>2, <2>3, <2>4 DEF BytesInv, Unsynced, Ended
<1>3. ASSUME NEW w \in Writers, WriteSome(w) \/ Flush(w)
      PROVE  BytesInv' /\ SyncedInv'
  <2>1. w \notin synced
    BY <1>3 DEF BytesInv, Unsynced, WriteSome, Flush
  <2>2. UNCHANGED <<synced, renames, reading>>
    BY <1>3 DEF WriteSome, Flush
  <2>3. \A v \in synced : bytes'[v] = bytes[v]
    BY <1>3, <2>1 DEF WriteSome, Flush
  <2>4. SyncedInv'
    <3>1. Renamed' = Renamed
      BY <2>2 DEF Renamed
    <3>2. \A r \in Readers : reading'[r] \in synced' \cup {None}
      BY <2>2 DEF SyncedInv
    <3> QED
      BY <2>2, <2>3, <3>1, <3>2 DEF SyncedInv
  <2>5. BytesInv'
    BY <1>3 DEF BytesInv, Unsynced, Goto, WriteSome, Flush
  <2> QED
    BY <2>4, <2>5
<1>4. ASSUME NEW w \in Writers, FsyncFile(w)
      PROVE  BytesInv' /\ SyncedInv'
  <2>1. bytes[w] = "whole"
    BY <1>4 DEF BytesInv, FsyncFile
  <2>2. SyncedInv'
    BY <1>4, <2>1 DEF SyncedInv, Renamed, FsyncFile
  <2>3. BytesInv'
    BY <1>4 DEF BytesInv, Unsynced, Goto, FsyncFile
  <2> QED
    BY <2>2, <2>3
<1>5. ASSUME NEW w \in Writers, ReplaceTarget(w)
      PROVE  BytesInv' /\ SyncedInv'
  <2>1. w \in synced /\ Renamed' = Renamed \cup {w}
    BY <1>5, RenameAdds DEF BytesInv, ReplaceTarget
  <2>2. SyncedInv'
    BY <1>5, <2>1 DEF SyncedInv, ReplaceTarget
  <2>3. BytesInv'
    BY <1>5 DEF BytesInv, Unsynced, Goto, ReplaceTarget
  <2> QED
    BY <2>2, <2>3
<1>6. ASSUME NEW r \in Readers, OpenTarget(r) \/ CloseTarget(r)
      PROVE  BytesInv' /\ SyncedInv'
  <2>1. Target \in synced \cup {None}
    BY TargetIsRenamed DEF SyncedInv
  <2>2. UNCHANGED <<pc, bytes, synced, renames>>
    BY <1>6 DEF OpenTarget, CloseTarget
  <2>3. \A x \in Readers : reading'[x] \in synced \cup {None}
    BY <1>6, <2>1 DEF SyncedInv, OpenTarget, CloseTarget
  <2> QED
    BY <2>2, <2>3 DEF BytesInv, SyncedInv, Renamed
<1>7. CASE LosePower
  <2>1. Renamed' \subseteq Renamed
    BY <1>7, PrefixRemains DEF LosePower
  <2>2. synced' = synced /\ \A v \in synced : bytes'[v] = bytes[v]
    BY <1>7 DEF LosePower, Remains
  <2>3. \A r \in Readers : reading'[r] = None
    BY <1>7 DEF LosePower
  <2>4. \A w \in Writers : \/ pc'[w] = "killed"
                           \/ pc'[w] = pc[w] /\ pc[w] \in Ended \cup {"start"}
    BY <1>7 DEF LosePower
  <2> QED
    BY <2>1, <2>2, <2>3, <2>4 DEF BytesInv, SyncedInv, Unsynced, Ended
<1> QED
  BY <1>1, <1>2, <1>3, <1>4, <1>5, <1>6, <1>7 DEF Next, Step

(* A version takes the name of the target once, and gives up its temp name *)
(* with the same rename.                                                   *)
LEMMA NameStep ==
    ASSUME TypeOK, BytesInv, SyncedInv, NameInv, [Next]_vars
    PROVE  NameInv'
<1> USE AtomicWriteAssumption DEF TypeOK
<1>1. CASE UNCHANGED vars
  BY <1>1 DEF vars, NameInv, Renamed
<1>2. ASSUME NEW w \in Writers,
             \/ AdoptDescriptor(w) \/ PinMode(w) \/ WriteSome(w) \/ Flush(w)
             \/ FsyncFile(w) \/ CloseTemp(w) \/ ReplaceDenied(w)
             \/ FsyncDir(w) \/ RemoveTempFails(w) \/ MakeTempFails(w)
             \/ StepFails(w) \/ Interrupt(w) \/ InterruptGap(w)
             \/ KillWriter(w)
      PROVE  NameInv'
  <2>1. UNCHANGED <<temp, renames>>
    BY <1>2 DEF AdoptDescriptor, PinMode, WriteSome, Flush, FsyncFile,
                CloseTemp, ReplaceDenied, FsyncDir, RemoveTempFails,
                MakeTempFails, StepFails, Interrupt, InterruptGap, KillWriter
  <2>2. \A v \in Writers \ {w} : pc'[v] = pc[v]
    BY <1>2 DEF Goto, AdoptDescriptor, PinMode, WriteSome, Flush, FsyncFile,
                CloseTemp, ReplaceDenied, FsyncDir, RemoveTempFails,
                MakeTempFails, StepFails, Interrupt, InterruptGap, KillWriter
  <2>3. \/ pc'[w] \notin {"start", "close", "replace", "dirsync"}
        \/ pc[w] = "fsync" /\ pc'[w] = "close"
        \/ pc[w] = "close" /\ pc'[w] = "replace"
        \/ pc'[w] = pc[w]
    BY <1>2 DEF Goto, AdoptDescriptor, PinMode, WriteSome, Flush, FsyncFile,
                CloseTemp, ReplaceDenied, FsyncDir, RemoveTempFails,
                MakeTempFails, StepFails, Interrupt, InterruptGap, KillWriter
  <2>4. pc[w] = "fsync" => w \notin Renamed
    BY DEF BytesInv, SyncedInv, Unsynced
  <2>5. Renamed' = Renamed
    BY <2>1 DEF Renamed
  <2> QED
    BY <2>1, <2>2, <2>3, <2>4, <2>5 DEF NameInv
<1>3. ASSUME NEW w \in Writers, MakeTemp(w) \/ RemoveTemp(w)
      PROVE  NameInv'
  <2>1. Renamed' = Renamed
    BY <1>3 DEF Renamed, MakeTemp, RemoveTemp
  <2>2. \A v \in Writers \ {w} :
           pc'[v] = pc[v] /\ (v \in temp' <=> v \in temp)
    BY <1>3 DEF Goto, MakeTemp, RemoveTemp
  <2>3. pc'[w] \in {"fdopen", "raised"}
    BY <1>3 DEF Goto, MakeTemp, RemoveTemp
  <2> QED
    BY <2>1, <2>2, <2>3 DEF NameInv
<1>4. ASSUME NEW w \in Writers, ReplaceTarget(w)
      PROVE  NameInv'
  <2>1. Renamed' = Renamed \cup {w}
    BY <1>4, RenameAdds DEF ReplaceTarget
  <2> QED
    BY <1>4, <2>1 DEF NameInv, Goto, ReplaceTarget
<1>5. ASSUME NEW r \in Readers, OpenTarget(r) \/ CloseTarget(r)
      PROVE  NameInv'
  BY <1>5 DEF NameInv, Renamed, OpenTarget, CloseTarget
<1>6. CASE LosePower
  <2>1. \A w \in Writers :
           pc'[w] = "start" => pc[w] = "start" /\ w \notin temp'
    BY <1>6 DEF LosePower
  <2>2. \A w \in Writers : pc'[w] \notin {"close", "replace", "dirsync"}
    BY <1>6 DEF LosePower, Ended
  <2> QED
    BY <2>1, <2>2 DEF NameInv
<1> QED
  BY <1>1, <1>2, <1>3, <1>4, <1>5, <1>6 DEF Next, Step

(* A descriptor outlives its with block only behind a KeyboardInterrupt.   *)
LEMMA FdStep ==
    ASSUME TypeOK, FdInv, [Next]_vars
    PROVE  FdInv'
<1> USE AtomicWriteAssumption DEF TypeOK
<1>1. CASE UNCHANGED vars
  BY <1>1 DEF vars, FdInv
<1>2. ASSUME NEW w \in Writers,
             \/ MakeTemp(w) \/ AdoptDescriptor(w) \/ PinMode(w)
             \/ WriteSome(w) \/ Flush(w) \/ FsyncFile(w) \/ CloseTemp(w)
             \/ ReplaceTarget(w) \/ FsyncDir(w)
      PROVE  FdInv'
  <2>1. error' = error
    BY <1>2 DEF MakeTemp, AdoptDescriptor, PinMode, WriteSome, Flush,
                FsyncFile, CloseTemp, ReplaceTarget, FsyncDir
  <2>2. \A v \in Writers \ {w} :
           pc'[v] = pc[v] /\ (v \in fd' <=> v \in fd)
    BY <1>2 DEF Goto, MakeTemp, AdoptDescriptor, PinMode, WriteSome, Flush,
                FsyncFile, CloseTemp, ReplaceTarget, FsyncDir
  <2>3. \/ pc'[w] \in {"fdopen", "fchmod", "write", "flush", "fsync", "close"}
        \/ pc'[w] = "replace" /\ w \notin fd'
        \/ pc[w] \in {"replace", "dirsync"} /\ pc'[w] \in {"dirsync", "ok"}
              /\ fd' = fd
    BY <1>2 DEF Goto, MakeTemp, AdoptDescriptor, PinMode, WriteSome, Flush,
                FsyncFile, CloseTemp, ReplaceTarget, FsyncDir
  <2> QED
    BY <2>1, <2>2, <2>3 DEF FdInv
<1>3. ASSUME NEW w \in Writers, ReplaceDenied(w)
      PROVE  FdInv'
  BY <1>3 DEF FdInv, Goto, Raise, ReplaceDenied
<1>4. ASSUME NEW w \in Writers,
             \/ MakeTempFails(w) \/ StepFails(w) \/ Interrupt(w)
             \/ InterruptGap(w)
      PROVE  FdInv'
  <2>1. \A v \in Writers \ {w} :
           /\ pc'[v] = pc[v] /\ error'[v] = error[v]
           /\ v \in fd' <=> v \in fd
    BY <1>4 DEF Goto, Raise, MakeTempFails, StepFails, Interrupt,
                InterruptGap
  <2>2. w \notin fd' \/ error'[w] = "KeyboardInterrupt"
    BY <1>4 DEF FdInv, Raise, MakeTempFails, StepFails, Interrupt,
                InterruptGap
  <2>3. pc'[w] \in {"cleanup", "raised"}
    BY <1>4 DEF Goto, MakeTempFails, StepFails, Interrupt, InterruptGap
  <2> QED
    BY <2>1, <2>2, <2>3 DEF FdInv
<1>5. ASSUME NEW w \in Writers, RemoveTemp(w) \/ RemoveTempFails(w)
      PROVE  FdInv'
  BY <1>5 DEF FdInv, Goto, RemoveTemp, RemoveTempFails
<1>6. ASSUME NEW w \in Writers, KillWriter(w)
      PROVE  FdInv'
  BY <1>6 DEF FdInv, Goto, KillWriter
<1>7. ASSUME NEW r \in Readers, OpenTarget(r) \/ CloseTarget(r)
      PROVE  FdInv'
  BY <1>7 DEF FdInv, OpenTarget, CloseTarget
<1>8. CASE LosePower
  BY <1>8 DEF FdInv, LosePower
<1> QED
  BY <1>1, <1>2, <1>3, <1>4, <1>5, <1>6, <1>7, <1>8 DEF Next, Step

(* The renames a directory fsync has covered stay, and stay covered. *)
LEMMA DurableGrows ==
    ASSUME TypeOK, [Next]_vars
    PROVE  /\ durable \in Nat /\ durable' \in Nat
           /\ durable <= durable' /\ durable' <= Len(renames')
           /\ \A i \in 1..durable : renames'[i] = renames[i]
<1>1. /\ renames \in Seq(Versions) /\ Len(renames) \in Nat
      /\ durable \in Nat /\ durable <= Len(renames)
  BY DEF TypeOK
<1>2. CASE UNCHANGED vars
  BY <1>1, <1>2 DEF vars
<1>3. ASSUME NEW w \in Writers,
             \/ MakeTemp(w) \/ AdoptDescriptor(w) \/ PinMode(w)
             \/ WriteSome(w) \/ Flush(w) \/ FsyncFile(w) \/ CloseTemp(w)
             \/ ReplaceDenied(w) \/ FsyncDir(w) \/ RemoveTemp(w)
             \/ RemoveTempFails(w) \/ MakeTempFails(w) \/ StepFails(w)
             \/ Interrupt(w) \/ InterruptGap(w) \/ KillWriter(w)
      PROVE  renames' = renames /\ durable' \in {durable, Len(renames)}
  BY <1>3 DEF MakeTemp, AdoptDescriptor, PinMode, WriteSome, Flush,
              FsyncFile, CloseTemp, ReplaceDenied, FsyncDir, RemoveTemp,
              RemoveTempFails, MakeTempFails, StepFails, Interrupt,
              InterruptGap, KillWriter
<1>4. ASSUME NEW w \in Writers, ReplaceTarget(w)
      PROVE  /\ durable' = durable /\ Len(renames') = Len(renames) + 1
             /\ \A i \in 1..Len(renames) : renames'[i] = renames[i]
  BY <1>4, RenameAdds DEF ReplaceTarget
<1>5. ASSUME NEW r \in Readers, OpenTarget(r) \/ CloseTarget(r)
      PROVE  UNCHANGED <<renames, durable>>
  BY <1>5 DEF OpenTarget, CloseTarget
<1>6. CASE LosePower
  <2>1. PICK n \in durable..Len(renames) :
           renames' = SubSeq(renames, 1, n) /\ durable' = n
    BY <1>6 DEF LosePower
  <2> QED
    BY <1>1, <2>1, PrefixRemains
<1>7. CASE \E w \in Writers : ReplaceTarget(w)
  BY <1>1, <1>4, <1>7
<1>8. CASE renames' = renames /\ durable' \in {durable, Len(renames)}
  BY <1>1, <1>8
<1> QED
  BY <1>2, <1>3, <1>5, <1>6, <1>7, <1>8 DEF Next, Step

(* The directory fsync that acknowledges a version covers it. *)
LEMMA AcknowledgedStep ==
    ASSUME TypeOK, NameInv, AcknowledgedIsDurable, [Next]_vars
    PROVE  AcknowledgedIsDurable'
<1> SUFFICES ASSUME platform' = "posix",
                    NEW w \in Writers, pc'[w] = "ok"
             PROVE  \E i \in 1..durable' : renames'[i] = w
  BY DEF AcknowledgedIsDurable
<1>1. CASE pc[w] = "ok"
  <2>1. platform = "posix"
    BY DEF Next, Step, vars, MakeTemp, AdoptDescriptor, PinMode, WriteSome,
           Flush, FsyncFile, CloseTemp, ReplaceTarget, ReplaceDenied,
           FsyncDir, RemoveTemp, RemoveTempFails, MakeTempFails, StepFails,
           Interrupt, InterruptGap, KillWriter, OpenTarget, CloseTarget,
           LosePower
  <2>2. PICK i \in 1..durable : renames[i] = w
    BY <1>1, <2>1 DEF AcknowledgedIsDurable
  <2>3. i \in 1..durable' /\ renames'[i] = w
    BY <2>2, DurableGrows
  <2> QED
    BY <2>3
<1>2. CASE pc[w] # "ok"
  <2>1. FsyncDir(w)
    BY <1>2 DEF TypeOK, Next, Step, vars, Goto, MakeTemp, AdoptDescriptor,
           PinMode, WriteSome, Flush, FsyncFile, CloseTemp, ReplaceTarget,
           ReplaceDenied, FsyncDir, RemoveTemp, RemoveTempFails,
           MakeTempFails, StepFails, Interrupt, InterruptGap, KillWriter,
           OpenTarget, CloseTarget, LosePower
  <2>2. w \in Renamed
    BY <2>1 DEF NameInv, FsyncDir
  <2>3. durable' = Len(renames) /\ renames' = renames
    BY <2>1 DEF FsyncDir
  <2> QED
    BY <2>2, <2>3 DEF Renamed
<1> QED
  BY <1>1, <1>2

-----------------------------------------------------------------------------
(* The inductive invariant. *)
LEMMA WriteInvHolds == Spec => []WriteInv
<1>1. Init => WriteInv
  <2> SUFFICES ASSUME Init PROVE WriteInv
    OBVIOUS
  <2> USE AtomicWriteAssumption
  <2>1. TypeOK
    <3>1. platform \in PlatformKinds /\ Old \in Versions
      BY DEF Init, Versions
    <3>2. <<Old>> \in Seq(Versions) /\ <<>> \in Seq(Versions)
      BY <3>1
    <3>3. renames \in Seq(Versions) /\ durable = Len(renames)
      BY <3>2 DEF Init
    <3>4. durable \in 0..Len(renames)
      BY <3>3
    <3> QED
      BY <3>1, <3>3, <3>4 DEF Init, TypeOK, PCs
  <2>2. Renamed \subseteq {Old}
    <3>1. CASE renames = <<>>
      BY <3>1 DEF Renamed
    <3>2. CASE renames = <<Old>>
      BY <3>2 DEF Renamed
    <3> QED
      BY <3>1, <3>2 DEF Init
  <2>3. BytesInv
    BY DEF Init, BytesInv
  <2>4. bytes[Old] = "whole"
    BY DEF Init, Versions
  <2>5. SyncedInv
    BY <2>2, <2>4 DEF Init, SyncedInv
  <2>6. NameInv /\ FdInv /\ AcknowledgedIsDurable
    BY DEF Init, NameInv, FdInv, AcknowledgedIsDurable
  <2> QED
    BY <2>1, <2>3, <2>5, <2>6 DEF WriteInv
<1>2. WriteInv /\ [Next]_vars => WriteInv'
  BY TypeStep, BytesStep, NameStep, FdStep, AcknowledgedStep DEF WriteInv
<1> QED
  BY <1>1, <1>2, PTL DEF Spec

(* The variables have their types, for any writers, readers and retries:   *)
(* no write_bytes_atomic is ever at a statement that atomic.py lacks.      *)
THEOREM TypeIsCorrect == Spec => []TypeOK
<1>1. WriteInv => TypeOK
  BY DEF WriteInv
<1> QED
  BY <1>1, WriteInvHolds, PTL

(* What is renamed to the target, and what a reader has open, is whole,    *)
(* through failures, interrupts, deaths and losses of power: the bytes are *)
(* fsynced before os.replace, and never written to after it (atomic.py,    *)
(* "The file is never left partially written").                            *)
THEOREM TargetStaysWhole == Spec => []TargetIsWhole
<1>1. WriteInv => TargetIsWhole
  BY DEF WriteInv, SyncedInv, TargetIsWhole
<1> QED
  BY <1>1, WriteInvHolds, PTL

(* A call of write_bytes_atomic that returned where a directory can be     *)
(* fsynced has its version among the renames no loss of power takes back.  *)
THEOREM AcknowledgedStaysDurable == Spec => []AcknowledgedIsDurable
<1>1. WriteInv => AcknowledgedIsDurable
  BY DEF WriteInv
<1> QED
  BY <1>1, WriteInvHolds, PTL

(* Every way out of write_bytes_atomic closes the descriptor of mkstemp,   *)
(* but a KeyboardInterrupt before the with statement.                      *)
THEOREM DescriptorsGetClosed == Spec => []DescriptorsAreClosed
<1>1. WriteInv => DescriptorsAreClosed
  BY DEF WriteInv, FdInv, DescriptorsAreClosed, Ended
<1> QED
  BY <1>1, WriteInvHolds, PTL

(* A step with which a call returns or raises leaves no temp file of its   *)
(* own: after the rename its name is gone, and every failure goes by the   *)
(* cleanup unlink, unless that fails or an interrupt falls in a gap.       *)
THEOREM NoDebrisIsLeft == Spec => NoDebris
<1> DEFINE Clean(w) ==
      pc[w] \notin Ended /\ pc'[w] \in {"ok", "raised"} =>
          w \notin temp' \/ w \in debris' \/ InterruptGap(w)
<1>1. WriteInv /\ [Next]_vars => [\A w \in Writers : Clean(w)]_vars
  <2> SUFFICES ASSUME WriteInv, Next, NEW w \in Writers,
                      pc[w] \notin Ended, pc'[w] \in {"ok", "raised"}
               PROVE  w \notin temp' \/ w \in debris' \/ InterruptGap(w)
    OBVIOUS
  <2>1. pc \in [Writers -> PCs] /\ temp \subseteq Writers
    BY DEF WriteInv, TypeOK
  <2>2. ASSUME NEW v \in Writers,
               \/ MakeTemp(v) \/ AdoptDescriptor(v) \/ PinMode(v)
               \/ WriteSome(v) \/ Flush(v) \/ FsyncFile(v) \/ CloseTemp(v)
               \/ ReplaceTarget(v) \/ ReplaceDenied(v) \/ StepFails(v)
               \/ Interrupt(v) \/ KillWriter(v)
        PROVE  pc'[w] = pc[w] \/ pc'[w] \notin {"ok", "raised"}
    BY <2>1, <2>2
       DEF Goto, MakeTemp, AdoptDescriptor, PinMode, WriteSome, Flush,
           FsyncFile, CloseTemp, ReplaceTarget, ReplaceDenied, StepFails,
           Interrupt, KillWriter
  <2>3. ASSUME NEW v \in Writers,
               \/ FsyncDir(v) \/ MakeTempFails(v) \/ RemoveTemp(v)
               \/ RemoveTempFails(v) \/ InterruptGap(v)
        PROVE  v = w
    BY <2>1, <2>3 DEF Ended, Goto, FsyncDir, MakeTempFails, RemoveTemp,
                      RemoveTempFails, InterruptGap
  <2>4. ASSUME NEW r \in Readers, OpenTarget(r) \/ CloseTarget(r)
        PROVE  pc' = pc
    BY <2>4 DEF OpenTarget, CloseTarget
  <2>5. LosePower => pc'[w] = "killed"
    BY DEF LosePower, Ended
  <2>6. \/ FsyncDir(w) \/ MakeTempFails(w) \/ RemoveTemp(w)
        \/ RemoveTempFails(w) \/ InterruptGap(w)
    BY <2>2, <2>3, <2>4, <2>5 DEF Next, Step, Ended
  <2> QED
    BY <2>1, <2>6 DEF WriteInv, NameInv, FsyncDir, MakeTempFails, RemoveTemp,
                      RemoveTempFails
<1> QED
  BY <1>1, WriteInvHolds, PTL DEF Spec, NoDebris

(* What is ahead of a statement is a number. *)
LEMMA AheadIsNat ==
    ASSUME NEW l \in PCs
    PROVE  Ahead[l] \in Nat
BY DEF Ahead, PCs, Ended

(* A call that moves on to a later statement, or counts a retry, has less  *)
(* left.                                                                   *)
LEMMA StepRunsDown ==
    ASSUME TypeOK, TypeOK', NEW w \in Writers, Step(w)
    PROVE  Left(w)' < Left(w)
<1>1. /\ Ahead[pc[w]] \in Nat /\ Ahead[pc'[w]] \in Nat
      /\ tries[w] \in Nat /\ tries'[w] \in Nat /\ Retries \in Nat
  BY AheadIsNat, AtomicWriteAssumption DEF TypeOK
<1>2. pc \in [Writers -> PCs] /\ tries \in [Writers -> 0..Retries]
  BY DEF TypeOK
<1>3. CASE ReplaceDenied(w) /\ MayRetry(w)
  <2>1. pc'[w] = pc[w] /\ tries'[w] = tries[w] + 1
    BY <1>2, <1>3 DEF ReplaceDenied
  <2> QED
    BY <1>1, <2>1 DEF Left
<1>4. CASE ~(ReplaceDenied(w) /\ MayRetry(w))
  <2>1. tries' = tries
    BY <1>4 DEF Step, MakeTemp, AdoptDescriptor, PinMode, WriteSome, Flush,
                FsyncFile, CloseTemp, ReplaceTarget, ReplaceDenied, FsyncDir,
                RemoveTemp, RemoveTempFails
  <2>2. Ahead[pc'[w]] < Ahead[pc[w]]
    BY <1>2, <1>4
       DEF Ahead, Goto, Step, MakeTemp, AdoptDescriptor, PinMode, WriteSome,
           Flush, FsyncFile, CloseTemp, ReplaceTarget, ReplaceDenied,
           FsyncDir, RemoveTemp, RemoveTempFails
  <2> QED
    BY <1>1, <2>1, <2>2 DEF Left
<1> QED
  BY <1>3, <1>4

(* Faults, other calls, readers and losses of power give no call more to   *)
(* do.                                                                     *)
LEMMA NothingAdds ==
    ASSUME TypeOK, TypeOK', Next, NEW w \in Writers
    PROVE  Left(w)' <= Left(w)
<1>1. /\ Ahead[pc[w]] \in Nat /\ Ahead[pc'[w]] \in Nat
      /\ tries[w] \in Nat /\ tries'[w] \in Nat /\ Retries \in Nat
      /\ Left(w) \in Int /\ Left(w)' \in Int
  BY AheadIsNat, AtomicWriteAssumption DEF TypeOK, Left
<1>2. pc \in [Writers -> PCs] /\ tries \in [Writers -> 0..Retries]
  BY DEF TypeOK
<1>3. ASSUME tries'[w] = tries[w], Ahead[pc'[w]] <= Ahead[pc[w]]
      PROVE  Left(w)' <= Left(w)
  BY <1>1, <1>3 DEF Left
<1>4. CASE Step(w)
  BY <1>1, <1>4, StepRunsDown
<1>5. ASSUME NEW v \in Writers \ {w}, Step(v)
      PROVE  pc'[w] = pc[w] /\ tries'[w] = tries[w]
  BY <1>2, <1>5
     DEF Goto, Step, MakeTemp, AdoptDescriptor, PinMode, WriteSome, Flush,
         FsyncFile, CloseTemp, ReplaceTarget, ReplaceDenied, FsyncDir,
         RemoveTemp, RemoveTempFails
<1>6. ASSUME NEW v \in Writers,
             \/ MakeTempFails(v) \/ StepFails(v) \/ Interrupt(v)
             \/ InterruptGap(v) \/ KillWriter(v)
      PROVE  tries' = tries /\ Ahead[pc'[w]] <= Ahead[pc[w]]
  <2>1. /\ tries' = tries
        /\ pc[v] \notin Ended
        /\ \/ pc'[v] \in {"raised", "killed"}
           \/ pc[v] # "cleanup" /\ pc'[v] = "cleanup"
        /\ \A u \in Writers \ {v} : pc'[u] = pc[u]
    BY <1>2, <1>6 DEF Goto, Ended, InWith, MakeTempFails, StepFails,
                      Interrupt, InterruptGap, KillWriter
  <2>2. pc[v] \in PCs
    BY <1>2
  <2>3. Ahead[pc'[v]] <= Ahead[pc[v]]
    BY <2>1, <2>2 DEF Ahead, PCs, Ended
  <2> QED
    BY <1>1, <2>1, <2>3
<1>7. ASSUME NEW r \in Readers, OpenTarget(r) \/ CloseTarget(r)
      PROVE  pc' = pc /\ tries' = tries
  BY <1>7 DEF OpenTarget, CloseTarget
<1>8. ASSUME LosePower
      PROVE  tries' = tries /\ Ahead[pc'[w]] <= Ahead[pc[w]]
  <2>1. tries' = tries /\ (pc'[w] = pc[w] \/ pc'[w] = "killed")
    BY <1>8 DEF LosePower
  <2> QED
    BY <1>1, <2>1 DEF Ahead
<1> QED
  BY <1>1, <1>3, <1>4, <1>5, <1>6, <1>7, <1>8 DEF Next

(* Every step of a call brings it nearer to its end, for any number of     *)
(* retries, and nothing else takes it further away: the variant that makes *)
(* write_bytes_atomic terminate when its steps are taken.                  *)
THEOREM CallsRunDown == Spec => CallRunsDown
<1>1. TypeOK /\ TypeOK' /\ [Next]_vars
        => [\A w \in Writers : /\ Left(w)' <= Left(w)
                               /\ Step(w) => Left(w)' < Left(w)]_vars
  BY NothingAdds, StepRunsDown
<1> QED
  BY <1>1, TypeIsCorrect, PTL DEF Spec, CallRunsDown

-----------------------------------------------------------------------------
(* The refinement: the rename is the one instant at which a version is     *)
(* placed, the directory fsync the one that acknowledges it.               *)

\* What AtomicReplace calls the status of each call.
StatusMap ==
    [w \in Writers |-> CASE pc[w] = "ok" -> "ok"
                         [] pc[w] \in {"raised", "killed"} -> "failed"
                         [] OTHER -> "running"]

AbstractStep == [Promise!Next]_(Promise!replaceVars)

(* A step that touches neither names nor bytes of the target, and leaves   *)
(* the caller waiting, is hidden.                                          *)
LEMMA HiddenStep ==
    ASSUME pc \in [Writers -> PCs],
           UNCHANGED <<platform, renames, durable>>,
           NEW w \in Writers, NEW l \in PCs \ Ended, Goto(w, l),
           pc[w] \notin Ended
    PROVE  AbstractStep
<1>1. StatusMap' = StatusMap
  BY DEF StatusMap, Goto, Ended
<1> QED
  BY <1>1 DEF AbstractStep, Promise!replaceVars, StatusMap

(* A call that raises, or whose process dies, fails. *)
LEMMA FailingStep ==
    ASSUME pc \in [Writers -> PCs],
           UNCHANGED <<platform, renames, durable>>,
           NEW w \in Writers, NEW l \in {"raised", "killed"}, Goto(w, l),
           pc[w] \notin Ended
    PROVE  AbstractStep
<1>1. /\ StatusMap[w] = "running"
      /\ StatusMap' = [StatusMap EXCEPT ![w] = "failed"]
  BY DEF StatusMap, Goto, Ended
<1>2. Promise!Fail(w)
  BY <1>1 DEF Promise!Fail, StatusMap
<1> QED
  BY <1>2 DEF AbstractStep, Promise!Next

(* Each system call is an abstract step, or hidden. *)
LEMMA StepKeepsPromise ==
    ASSUME WriteInv, Next
    PROVE  AbstractStep
<1>1. /\ pc \in [Writers -> PCs] /\ renames \in Seq(Versions)
      /\ Len(renames) \in Nat /\ TypeOK
  BY DEF WriteInv, TypeOK
<1>2. ASSUME NEW w \in Writers,
             \/ MakeTemp(w) \/ AdoptDescriptor(w) \/ PinMode(w)
             \/ WriteSome(w) \/ Flush(w) \/ FsyncFile(w) \/ CloseTemp(w)
             \/ StepFails(w) \/ Interrupt(w)
      PROVE  AbstractStep
  <2>1. /\ UNCHANGED <<platform, renames, durable>>
        /\ pc[w] \notin Ended
        /\ \E l \in PCs \ Ended : Goto(w, l)
    BY <1>2 DEF PCs, Ended, InWith, MakeTemp, AdoptDescriptor, PinMode,
                WriteSome, Flush, FsyncFile, CloseTemp, StepFails, Interrupt
  <2> QED
    BY <1>1, <2>1, HiddenStep
<1>3. ASSUME NEW w \in Writers,
             \/ MakeTempFails(w) \/ InterruptGap(w) \/ RemoveTemp(w)
             \/ RemoveTempFails(w) \/ KillWriter(w)
      PROVE  AbstractStep
  <2>1. /\ UNCHANGED <<platform, renames, durable>>
        /\ pc[w] \notin Ended
        /\ \E l \in {"raised", "killed"} : Goto(w, l)
    BY <1>3 DEF Ended, MakeTempFails, InterruptGap, RemoveTemp,
                RemoveTempFails, KillWriter
  <2> QED
    BY <1>1, <2>1, FailingStep
<1>4. ASSUME NEW w \in Writers, ReplaceDenied(w)
      PROVE  AbstractStep
  <2>1. CASE MayRetry(w)
    BY <1>4, <2>1 DEF ReplaceDenied, AbstractStep, Promise!replaceVars
  <2>2. CASE ~MayRetry(w)
    <3>1. /\ UNCHANGED <<platform, renames, durable>>
          /\ pc[w] \notin Ended
          /\ Goto(w, "cleanup")
      BY <1>4, <2>2 DEF ReplaceDenied, Ended
    <3> QED
      BY <1>1, <3>1, HiddenStep DEF PCs, Ended
  <2> QED
    BY <2>1, <2>2
<1>5. ASSUME NEW w \in Writers, ReplaceTarget(w)
      PROVE  AbstractStep
  <2>1. w \notin Renamed
    BY <1>5 DEF WriteInv, NameInv, ReplaceTarget
  <2>2. ~Promise!InPlace(w)
    BY <2>1 DEF Promise!InPlace, Renamed
  <2>3. StatusMap[w] = "running" /\ StatusMap' = StatusMap
    BY <1>1, <1>5 DEF StatusMap, ReplaceTarget, Goto
  <2>4. Promise!Place(w)
    BY <1>5, <2>2, <2>3 DEF Promise!Place, StatusMap, ReplaceTarget
  <2> QED
    BY <2>4 DEF AbstractStep, Promise!Next
<1>6. ASSUME NEW w \in Writers, FsyncDir(w)
      PROVE  AbstractStep
  <2>1. Promise!InPlace(w)
    BY <1>6 DEF WriteInv, NameInv, FsyncDir, Promise!InPlace, Renamed
  <2>2. /\ StatusMap[w] = "running"
        /\ StatusMap' = [StatusMap EXCEPT ![w] = "ok"]
    BY <1>1, <1>6 DEF StatusMap, FsyncDir, Goto
  <2>3. Promise!Sync(w) \/ Promise!Acknowledge(w)
    BY <1>6, <2>1, <2>2
       DEF Promise!Sync, Promise!Acknowledge, StatusMap, FsyncDir
  <2> QED
    BY <2>3 DEF AbstractStep, Promise!Next
<1>7. ASSUME NEW r \in Readers, OpenTarget(r) \/ CloseTarget(r)
      PROVE  AbstractStep
  BY <1>7 DEF OpenTarget, CloseTarget, AbstractStep, Promise!replaceVars
<1>8. CASE LosePower
  <2>1. PICK n \in durable..Len(renames) :
           renames' = SubSeq(renames, 1, n) /\ durable' = n
    BY <1>8 DEF LosePower
  <2>2. durable' = Len(renames')
    BY <1>1, <2>1, PrefixRemains
  <2>3. /\ StatusMap' \in [Writers -> {"running", "ok", "failed"}]
        /\ \A w \in Writers :
              \/ StatusMap'[w] = StatusMap[w]
              \/ StatusMap[w] = "running" /\ StatusMap'[w] = "failed"
    BY <1>1, <1>8 DEF StatusMap, LosePower, Ended
  <2>4. Promise!Crash
    BY <1>8, <2>1, <2>2, <2>3 DEF Promise!Crash, StatusMap, LosePower
  <2> QED
    BY <2>4 DEF AbstractStep, Promise!Next
<1> QED
  BY <1>2, <1>3, <1>4, <1>5, <1>6, <1>7, <1>8 DEF Next, Step

(* write_bytes_atomic implements AtomicReplace: the target goes from one   *)
(* whole version to the next at os.replace, a call that returns has its    *)
(* version in place, and no acknowledged version is lost to a crash where  *)
(* a directory can be fsynced.                                             *)
THEOREM WriteIsAtomic == Spec => KeepsPromise
<1>1. Init => Promise!Init
  BY DEF Init, Promise!Init
<1>2. WriteInv /\ [Next]_vars => [Promise!Next]_(Promise!replaceVars)
  <2>1. UNCHANGED vars => AbstractStep
    BY DEF vars, AbstractStep, Promise!replaceVars
  <2> QED
    BY <2>1, StepKeepsPromise DEF AbstractStep
<1> QED
  BY <1>1, <1>2, WriteInvHolds, PTL DEF Spec, KeepsPromise, Promise!Spec
=============================================================================
