--------------------------- MODULE KeyringProofs ---------------------------
(***************************************************************************)
(* Proofs about KeyringStore, for any callers, applications, values and    *)
(* backends.                                                               *)
(*                                                                         *)
(* A value is replaced for good only if the call that stored it has ended, *)
(* so that no call in progress can bring it back: HistoryInv.  RouteInv    *)
(* says what a call that has reached the fallback file has seen of the     *)
(* keyring; a write that the keyring took still finds there no value older *)
(* than itself.                                                            *)
(***************************************************************************)
EXTENDS KeyringStore, TLAPS

\* No call in progress stores v.
NobodyStores(v) == \A c \in InProgress : request[c].value # v

HistoryInv ==
    /\ \A a \in Apps : dead[a] \subseteq issued
    /\ \A a \in Apps : \A v \in dead[a] : NobodyStores(v)
    /\ \A c \in Callers : before[c] \subseteq issued
    /\ \A c \in Callers : \A v \in before[c] : NobodyStores(v)
    /\ \A c \in InProgress : request[c].value \in issued \cup {None}

RouteInv ==
    \A c \in Callers :
       AtFile(c, "write") /\ UsesRing(request[c]) =>
          /\ status[c] \in {"ok", "no_backend"}
          /\ status[c] = "ok" => ring[request[c].app] \notin before[c]

\* The flag is set if and only if the print is under way or has ended.
NoticeInv ==
    /\ warned <=> notice # "none" \/ \E c \in Callers : Printing(c)
    /\ AnnouncedOnce

KeyringInv == KeyringTypeOK /\ HistoryInv /\ RouteInv /\ SupersededIsGone

-----------------------------------------------------------------------------
(* A step of a call in progress goes on to another statement or ends the   *)
(* call; it may carry out the write that the call asks for.                *)
LEMMA StepShape ==
    ASSUME KeyringTypeOK, NEW c \in Callers, BackendStep(c)
    PROVE  /\ phase[c] # "out"
           /\ UNCHANGED issued
           /\ \/ /\ \E p \in Phases \ {"out"}, s \in Statuses : Goto(c, p, s)
                 /\ UNCHANGED dead
              \/ /\ \E s \in Replies : Return(c, s)
                 /\ UNCHANGED dead \/ Supersede(c)
           /\ \/ UNCHANGED ring
              \/ request[c].op = "write" /\ ring' = RingEffect(c)
           /\ \/ UNCHANGED file
              \/ request[c].op = "write" /\ file' = FileEffect(c)
<1>1. CASE RingAnswers(c)
  BY <1>1 DEF RingAnswers, AtRing, Replies
<1>2. CASE RingIsEmpty(c)
  BY <1>2 DEF RingIsEmpty, AtRing, GotoOrReturn, Phases, Statuses, Replies
<1>3. CASE RingWrites(c)
  BY <1>3 DEF RingWrites, AtRing, GotoOrReturn, Phases, Statuses, Replies
<1>4. CASE RingFails(c)
  BY <1>4 DEF RingFails, Replies
<1>5. CASE RingIsAbsent(c)
  BY <1>5 DEF RingIsAbsent, GotoOrReturn, Phases, Statuses, Replies
<1>6. CASE CheckWarned(c)
  BY <1>6 DEF CheckWarned, Phases, Statuses
<1>7. CASE RecordWarned(c)
  BY <1>7 DEF RecordWarned, Phases, Statuses
<1>8. CASE PrintNotice(c)
  BY <1>8 DEF PrintNotice, Phases, Statuses, Replies
<1>9. CASE FileGet(c)
  BY <1>9 DEF FileGet, AtFile, Replies
<1>10. CASE FileWrite(c)
  BY <1>10 DEF FileWrite, AtFile, Replies
<1>11. CASE FileFails(c)
  BY <1>11 DEF FileFails, Replies
<1>12. CASE Interrupt(c)
  BY <1>12 DEF Interrupt, Replies
<1> QED
  BY <1>1, <1>2, <1>3, <1>4, <1>5, <1>6, <1>7, <1>8, <1>9, <1>10, <1>11,
     <1>12 DEF BackendStep

(* What a write puts into a store. *)
LEMMA EffectTyped ==
    ASSUME KeyringTypeOK, NEW c \in Callers, phase[c] # "out"
    PROVE  /\ request[c] \in Requests
           /\ RingEffect(c) \in [Apps -> Held]
           /\ FileEffect(c) \in [Apps -> Held]
<1>1. request[c] \in Requests
  BY DEF KeyringTypeOK
<1>2. request[c].value \in Held
  BY <1>1 DEF Requests, Held
<1> QED
  BY <1>1, <1>2 DEF RingEffect, FileEffect, KeyringTypeOK, Held

-----------------------------------------------------------------------------
LEMMA BeginTyped ==
    ASSUME KeyringTypeOK, NEW c \in Callers, NEW r \in Requests, Begin(c, r)
    PROVE  KeyringTypeOK'
<1>1. /\ phase' \in [Callers -> Phases]
      /\ request' \in [Callers -> Requests \cup {None}]
      /\ \A d \in Callers : IF phase'[d] = "out" THEN request'[d] = None
                                             ELSE request'[d] \in Requests
  BY DEF Begin, KeyringTypeOK, Phases
<1>2. /\ status' \in [Callers -> Statuses \cup {None}]
      /\ reply' \in [Callers -> Replies \cup {None}]
      /\ answer' \in [Callers -> Answers \cup {None}]
  BY DEF Begin, KeyringTypeOK
<1>3. r.value \in Values \cup {None}
  BY DEF Requests
<1>4. /\ issued' \subseteq Values
      /\ before' \in [Callers -> SUBSET Values]
  BY <1>3 DEF Begin, KeyringTypeOK, Settled
<1> QED
  BY <1>1, <1>2, <1>4 DEF Begin, KeyringTypeOK

(* Only the keyring and the file answer a get, with a value. *)
LEMMA AnswerTyped ==
    ASSUME KeyringTypeOK, NEW c \in Callers, BackendStep(c)
    PROVE  answer' \in [Callers -> Answers \cup {None}]
<1>1. ASSUME NEW v \in Held, Normal(v) # None, NEW t \in {"ring", "file"},
             Found(c, Normal(v), t), phase[c] # "out"
      PROVE  answer' \in [Callers -> Answers \cup {None}]
  <2>1. Normal(v) \in Values
    BY <1>1 DEF Normal, Held
  <2>2. request[c].app \in Apps
    BY <1>1 DEF KeyringTypeOK, Requests
  <2> QED
    BY <1>1, <2>1, <2>2 DEF Found, KeyringTypeOK, Answers
<1>2. CASE RingAnswers(c)
  <2>1. request[c].app \in Apps /\ phase[c] # "out"
    BY <1>2 DEF RingAnswers, AtRing, KeyringTypeOK, Requests
  <2>2. ring[request[c].app] \in Held
    BY <2>1 DEF KeyringTypeOK
  <2> QED
    BY <1>1, <1>2, <2>1, <2>2 DEF RingAnswers
<1>3. CASE FileGet(c)
  <2>1. request[c].app \in Apps /\ phase[c] # "out"
    BY <1>3 DEF FileGet, AtFile, KeyringTypeOK, Requests
  <2>2. file[request[c].app] \in Held
    BY <2>1 DEF KeyringTypeOK
  <2> QED
    BY <1>1, <1>3, <2>1, <2>2 DEF FileGet, KeyringTypeOK
<1>4. CASE UNCHANGED answer
  BY <1>4 DEF KeyringTypeOK
<1> QED
  BY <1>2, <1>3, <1>4
     DEF BackendStep, RingIsEmpty, RingWrites, RingFails, RingIsAbsent,
         CheckWarned, RecordWarned, PrintNotice, FileWrite, FileFails,
         Interrupt

LEMMA NoticeTyped ==
    ASSUME KeyringTypeOK, NEW c \in Callers, BackendStep(c)
    PROVE  warned' \in BOOLEAN /\ notice' \in {"none", "given", "cut"}
<1>1. CASE RecordWarned(c)
  BY <1>1 DEF RecordWarned, KeyringTypeOK
<1>2. CASE PrintNotice(c) \/ Interrupt(c)
  BY <1>2 DEF PrintNotice, Interrupt, KeyringTypeOK
<1>3. CASE UNCHANGED <<warned, notice>>
  BY <1>3 DEF KeyringTypeOK
<1> QED
  BY <1>1, <1>2, <1>3
     DEF BackendStep, RingAnswers, RingIsEmpty, RingWrites, RingFails,
         RingIsAbsent, CheckWarned, FileGet, FileWrite, FileFails

LEMMA BackendTyped ==
    ASSUME KeyringTypeOK, NEW c \in Callers, BackendStep(c)
    PROVE  KeyringTypeOK'
<1>1. ring' \in [Apps -> Held] /\ file' \in [Apps -> Held]
  BY StepShape, EffectTyped DEF KeyringTypeOK
<1> DEFINE CallTyped ==
              /\ phase' \in [Callers -> Phases]
              /\ request' \in [Callers -> Requests \cup {None}]
              /\ status' \in [Callers -> Statuses \cup {None}]
              /\ reply' \in [Callers -> Replies \cup {None}]
              /\ before' \in [Callers -> SUBSET Values]
              /\ \A d \in Callers :
                    IF phase'[d] = "out" THEN request'[d] = None
                                         ELSE request'[d] \in Requests
<1>2. CallTyped
  <2>1. ASSUME NEW p \in Phases \ {"out"}, NEW s \in Statuses, Goto(c, p, s)
        PROVE  CallTyped
    BY <2>1, StepShape DEF Goto, KeyringTypeOK
  <2>2. ASSUME NEW s \in Replies, Return(c, s)
        PROVE  CallTyped
    BY <2>2 DEF Return, KeyringTypeOK, Phases
  <2> QED
    BY <2>1, <2>2, StepShape
<1>3. issued' \subseteq Values /\ dead' \in [Apps -> SUBSET Values]
  BY StepShape DEF KeyringTypeOK, Supersede
<1> QED
  BY <1>1, <1>2, <1>3, AnswerTyped, NoticeTyped DEF KeyringTypeOK

-----------------------------------------------------------------------------
(* A new call stores a new value, and takes for settled only what ended    *)
(* calls have stored.                                                      *)
LEMMA BeginHistory ==
    ASSUME KeyringTypeOK, HistoryInv, NEW c \in Callers, NEW r \in Requests,
           Begin(c, r)
    PROVE  HistoryInv'
<1>1. /\ r.value \in Values \cup {None}
      /\ r.value \notin issued
      /\ issued' = issued \cup ({r.value} \ {None})
      /\ dead' = dead
  BY DEF Begin, Requests
<1>2. InProgress' = InProgress \cup {c} /\ c \notin InProgress
  BY DEF Begin, InProgress, KeyringTypeOK
<1>3. request'[c] = r /\ \A d \in Callers \ {c} : request'[d] = request[d]
  BY DEF Begin, KeyringTypeOK
<1>4. ASSUME NEW v \in issued, NobodyStores(v)
      PROVE  NobodyStores(v)'
  BY <1>1, <1>2, <1>3, <1>4 DEF NobodyStores, InProgress
<1>5. \A a \in Apps : /\ dead'[a] \subseteq issued'
                      /\ \A v \in dead'[a] : NobodyStores(v)'
  BY <1>1, <1>4 DEF HistoryInv
<1>6. ASSUME NEW d \in Callers
      PROVE  /\ before'[d] \subseteq issued'
             /\ \A v \in before'[d] : NobodyStores(v)'
  <2>1. before'[d] = before[d] \/ before'[d] \subseteq Settled
    BY DEF Begin, KeyringTypeOK
  <2>2. \A v \in Settled : v \in issued /\ NobodyStores(v)
    BY DEF Settled, NobodyStores
  <2> QED
    BY <1>1, <1>4, <2>1, <2>2 DEF HistoryInv
<1>7. \A d \in InProgress' : request'[d].value \in issued' \cup {None}
  BY <1>1, <1>2, <1>3 DEF HistoryInv, InProgress
<1> QED
  BY <1>5, <1>6, <1>7 DEF HistoryInv

(* What a step of a call adds to the replaced values had been settled when *)
(* the call began.                                                         *)
LEMMA BackendHistory ==
    ASSUME KeyringTypeOK, HistoryInv, NEW c \in Callers, BackendStep(c)
    PROVE  HistoryInv'
<1>1. issued' = issued /\ c \in InProgress
  BY StepShape DEF InProgress
<1>2. /\ InProgress' \subseteq InProgress
      /\ \A d \in InProgress' : request'[d] = request[d]
      /\ \A d \in Callers : before'[d] \subseteq before[d]
  <2>1. ASSUME NEW p \in Phases \ {"out"}, NEW s \in Statuses, Goto(c, p, s)
        PROVE  <1>2
    BY <1>1, <2>1 DEF Goto, InProgress, KeyringTypeOK
  <2>2. ASSUME NEW s \in Replies, Return(c, s)
        PROVE  <1>2
    BY <1>1, <2>2 DEF Return, InProgress, KeyringTypeOK
  <2> QED
    BY <2>1, <2>2, StepShape
<1>3. ASSUME NEW v, NobodyStores(v)
      PROVE  NobodyStores(v)'
  BY <1>2, <1>3 DEF NobodyStores
<1>4. \A a \in Apps : dead'[a] \subseteq dead[a] \cup before[c]
  BY StepShape DEF Supersede, KeyringTypeOK
<1>5. \A a \in Apps : /\ dead'[a] \subseteq issued'
                      /\ \A v \in dead'[a] : NobodyStores(v)'
  BY <1>1, <1>3, <1>4 DEF HistoryInv
<1>6. \A d \in Callers : /\ before'[d] \subseteq issued'
                         /\ \A v \in before'[d] : NobodyStores(v)'
  BY <1>1, <1>2, <1>3 DEF HistoryInv
<1>7. \A d \in InProgress' : request'[d].value \in issued' \cup {None}
  BY <1>1, <1>2 DEF HistoryInv
<1> QED
  BY <1>5, <1>6, <1>7 DEF HistoryInv

-----------------------------------------------------------------------------
(* A call in progress puts no value into the keyring that was settled      *)
(* before it.                                                              *)
LEMMA RingStaysNew ==
    ASSUME KeyringTypeOK, NEW c \in Callers, BackendStep(c),
           NEW v \in Values, NobodyStores(v), NEW a \in Apps
    PROVE  /\ ring'[a] = v => ring[a] = v
           /\ file'[a] = v => file[a] = v
<1>1. request[c].value # v /\ v # None
  BY StepShape, KeyringAssumption DEF NobodyStores, InProgress
<1> QED
  BY <1>1, StepShape DEF RingEffect, FileEffect, KeyringTypeOK

(* How a call comes to the file with a write for the keyring: the keyring  *)
(* has just taken it, or there is no keyring.                              *)
LEMMA ComesToFile ==
    ASSUME KeyringTypeOK, HistoryInv, NEW c \in Callers, BackendStep(c),
           AtFile(c, "write")', UsesRing(request[c])
    PROVE  /\ status'[c] \in {"ok", "no_backend"}
           /\ status'[c] = "ok" => /\ request[c].app \in Apps
                                   /\ ring' = RingEffect(c)
<1>1. request[c].app \in Apps
  BY StepShape DEF KeyringTypeOK, Requests
<1>2. ASSUME NEW s \in Replies
      PROVE  ~Return(c, s)
  BY DEF Return, AtFile, KeyringTypeOK
<1>3. ASSUME NEW p, NEW s, Goto(c, p, s)
      PROVE  status'[c] = s /\ request' = request
  BY <1>3 DEF Goto, KeyringTypeOK
<1>4. CASE RingIsEmpty(c)
  BY <1>2, <1>3, <1>4
     DEF RingIsEmpty, GotoOrReturn, AtRing, AtFile, Replies
<1>5. CASE RingWrites(c)
  BY <1>1, <1>2, <1>3, <1>5 DEF RingWrites, GotoOrReturn, Replies
<1>6. CASE RingIsAbsent(c) \/ CheckWarned(c) \/ RecordWarned(c)
              \/ PrintNotice(c)
  BY <1>2, <1>3, <1>6, KeyringAssumption
     DEF RingIsAbsent, CheckWarned, RecordWarned, PrintNotice, GotoOrReturn,
         Replies
<1>7. CASE RingAnswers(c) \/ RingFails(c) \/ FileGet(c) \/ FileWrite(c)
              \/ FileFails(c) \/ Interrupt(c)
  BY <1>2, <1>7
     DEF RingAnswers, RingFails, FileGet, FileWrite, FileFails, Interrupt,
         Replies
<1> QED
  BY <1>4, <1>5, <1>6, <1>7 DEF BackendStep

LEMMA BackendRoute ==
    ASSUME KeyringTypeOK, HistoryInv, RouteInv, NEW c \in Callers,
           BackendStep(c)
    PROVE  RouteInv'
<1>1. SUFFICES ASSUME NEW d \in Callers, AtFile(d, "write")',
                      UsesRing(request'[d])
               PROVE  /\ status'[d] \in {"ok", "no_backend"}
                      /\ status'[d] = "ok" =>
                            ring'[request'[d].app] \notin before'[d]
  BY DEF RouteInv, AtFile
<1>2. request'[d] = request[d] /\ before'[d] = before[d]
  BY <1>1, StepShape DEF Goto, Return, AtFile, KeyringTypeOK
<1>3. /\ before[d] \subseteq Values
      /\ \A v \in before[d] : NobodyStores(v)
  BY DEF KeyringTypeOK, HistoryInv
<1>4. CASE d = c
  <2>1. /\ status'[c] \in {"ok", "no_backend"}
        /\ status'[c] = "ok" => /\ request[c].app \in Apps
                                /\ ring' = RingEffect(c)
    BY <1>1, <1>2, <1>4, ComesToFile
  <2>2. request[c].value \notin before[c]
    BY <1>3, <1>4, StepShape DEF NobodyStores, InProgress
  <2> QED
    BY <1>2, <1>4, <2>1, <2>2 DEF RingEffect, KeyringTypeOK
<1>5. CASE d # c
  <2>1. phase'[d] = phase[d] /\ status'[d] = status[d]
    BY <1>5, StepShape DEF Goto, Return, KeyringTypeOK
  <2>2. AtFile(d, "write") /\ UsesRing(request[d])
    BY <1>1, <1>2, <2>1 DEF AtFile
  <2>3. request[d].app \in Apps
    BY <2>2 DEF AtFile, KeyringTypeOK, Requests
  <2> QED
    BY <1>2, <1>3, <2>1, <2>2, <2>3, RingStaysNew DEF RouteInv
<1> QED
  BY <1>4, <1>5

LEMMA BeginRoute ==
    ASSUME KeyringTypeOK, RouteInv, NEW c \in Callers, NEW r \in Requests,
           Begin(c, r)
    PROVE  RouteInv'
<1>1. SUFFICES ASSUME NEW d \in Callers, AtFile(d, "write")',
                      UsesRing(request'[d])
               PROVE  /\ status'[d] \in {"ok", "no_backend"}
                      /\ status'[d] = "ok" =>
                            ring'[request'[d].app] \notin before'[d]
  BY DEF RouteInv, AtFile
<1>2. d # c
  BY <1>1 DEF Begin, AtFile, KeyringTypeOK
<1> QED
  BY <1>1, <1>2 DEF Begin, RouteInv, AtFile, KeyringTypeOK

(* What is replaced stays replaced: the value would have to come back from *)
(* a call in progress; and what a write replaces is in neither place, for  *)
(* it has just removed the file's copy.                                    *)
LEMMA BackendSupersedes ==
    ASSUME KeyringInv, NEW c \in Callers, BackendStep(c)
    PROVE  SupersededIsGone'
<1>1. ASSUME NEW a \in Apps, NEW v \in dead[a]
      PROVE  ring'[a] # v /\ file'[a] # v
  <2>1. v \in Values /\ NobodyStores(v)
    BY <1>1 DEF KeyringInv, KeyringTypeOK, HistoryInv
  <2> QED
    BY <1>1, <2>1, RingStaysNew DEF KeyringInv, SupersededIsGone
<1>2. CASE UNCHANGED dead
  BY <1>1, <1>2 DEF SupersededIsGone
<1>3. CASE ~UNCHANGED dead
  <2>1. FileWrite(c) /\ UsesRing(request[c]) /\ status[c] # "no_backend"
    BY <1>3
       DEF BackendStep, RingAnswers, RingIsEmpty, RingWrites, RingFails,
           RingIsAbsent, CheckWarned, RecordWarned, PrintNotice, FileGet,
           FileWrite, FileFails, Interrupt, Supersede
  <2>2. /\ request[c].app \in Apps
        /\ before[c] \subseteq Values
        /\ AtFile(c, "write")
    BY <2>1 DEF FileWrite, AtFile, KeyringInv, KeyringTypeOK, Requests
  <2>3. status[c] = "ok" /\ ring[request[c].app] \notin before[c]
    BY <2>1, <2>2 DEF KeyringInv, RouteInv
  <2>4. file'[request[c].app] = None /\ ring' = ring
    BY <2>1, <2>2, <2>3 DEF FileWrite, FileEffect, KeyringInv, KeyringTypeOK
  <2>5. dead' = [dead EXCEPT ![request[c].app] = @ \cup before[c]]
    BY <2>1 DEF FileWrite, Supersede
  <2> QED
    BY <1>1, <2>2, <2>3, <2>4, <2>5, KeyringAssumption
       DEF SupersededIsGone, KeyringInv, KeyringTypeOK
<1> QED
  BY <1>2, <1>3

-----------------------------------------------------------------------------
(* The notice: the flag is tested and set in one step, and only a call that *)
(* has seen it set, or has set it, goes on to the file without a keyring.  *)
LEMMA NoticeStep ==
    ASSUME KeyringTypeOK, NoticeInv, NEW c \in Callers, BackendStep(c)
    PROVE  NoticeInv'
<1> USE DEF Printing
<1>1. ASSUME NEW d \in Callers, d # c
      PROVE  phase'[d] = phase[d] /\ status'[d] = status[d]
  BY <1>1, StepShape DEF Goto, Return, KeyringTypeOK
<1>2. ASSUME NEW p, NEW s, Goto(c, p, s)
      PROVE  phase'[c] = p /\ status'[c] = s
  BY <1>2 DEF Goto, KeyringTypeOK
<1>3. ASSUME NEW s, Return(c, s)
      PROVE  phase'[c] = "out"
  BY <1>3 DEF Return, KeyringTypeOK
<1>4. CASE RecordWarned(c)
  <2>1. UNCHANGED notice /\ warned' /\ phase[c] = "record"
    BY <1>4 DEF RecordWarned
  <2>2. CASE warned
    <3>1. phase'[c] = "file"
      BY <1>2, <1>4, <2>2 DEF RecordWarned
    <3> QED
      BY <1>1, <2>1, <2>2, <3>1 DEF NoticeInv, AnnouncedOnce
  <2>3. CASE ~warned
    <3>1. phase'[c] = "print"
      BY <1>2, <1>4, <2>3 DEF RecordWarned
    <3>2. notice = "none" /\ \A d \in Callers : ~Printing(d)
      BY <2>3 DEF NoticeInv
    <3> QED
      BY <1>1, <2>1, <3>1, <3>2 DEF NoticeInv, AnnouncedOnce
  <2> QED
    BY <2>2, <2>3
<1>5. CASE phase[c] = "print" /\ (PrintNotice(c) \/ Interrupt(c))
  <2>1. warned' = warned /\ notice' # "none" /\ phase'[c] # "print"
    BY <1>2, <1>3, <1>5 DEF PrintNotice, Interrupt
  <2>2. \A d \in Callers : phase'[d] # "print"
    BY <1>1, <1>5, <2>1 DEF NoticeInv, AnnouncedOnce
  <2>3. warned
    BY <1>5 DEF NoticeInv
  <2> QED
    BY <2>1, <2>2, <2>3 DEF NoticeInv, AnnouncedOnce
<1>6. CASE ~RecordWarned(c) /\ phase[c] # "print"
  <2>1. UNCHANGED <<warned, notice>>
    BY <1>6
       DEF BackendStep, RingAnswers, RingIsEmpty, RingWrites, RingFails,
           RingIsAbsent, CheckWarned, PrintNotice, FileGet, FileWrite,
           FileFails, Interrupt
  <2>2. /\ phase'[c] # "print"
        /\ phase'[c] = "file" /\ status'[c] = "no_backend" => warned
    <3>1. CASE CheckWarned(c)
      BY <1>2, <3>1 DEF CheckWarned
    <3>2. CASE RingIsEmpty(c) \/ RingWrites(c) \/ RingIsAbsent(c)
      BY <1>2, <1>3, <3>2
         DEF RingIsEmpty, RingWrites, RingIsAbsent, GotoOrReturn
    <3>3. CASE RingAnswers(c) \/ RingFails(c) \/ FileGet(c) \/ FileWrite(c)
                  \/ FileFails(c) \/ Interrupt(c)
      BY <1>3, <3>3
         DEF RingAnswers, RingFails, FileGet, FileWrite, FileFails, Interrupt
    <3> QED
      BY <1>6, <3>1, <3>2, <3>3 DEF BackendStep, PrintNotice
  <2>3. \A d \in Callers : phase'[d] = "print" <=> phase[d] = "print"
    BY <1>1, <1>6, <2>2
  <2> QED
    BY <1>1, <2>1, <2>2, <2>3 DEF NoticeInv, AnnouncedOnce
<1> QED
  BY <1>4, <1>5, <1>6 DEF BackendStep, RingAnswers, RingIsEmpty, RingWrites,
     RingFails, RingIsAbsent, CheckWarned, FileGet, FileWrite, FileFails,
     AtRing, AtFile

LEMMA NoticeBegin ==
    ASSUME KeyringTypeOK, NoticeInv, NEW c \in Callers, NEW r \in Requests,
           Begin(c, r)
    PROVE  NoticeInv'
<1>1. status'[c] # "no_backend"
  BY KeyringAssumption DEF Begin, KeyringTypeOK, Statuses
<1> QED
  BY <1>1 DEF Begin, NoticeInv, AnnouncedOnce, Printing, KeyringTypeOK

-----------------------------------------------------------------------------
(* The backends under any callers.                                         *)
LEMMA KeyringInvariant == KeyringSpec => [](KeyringInv /\ NoticeInv)
<1>1. KeyringInit => KeyringInv /\ NoticeInv
  <2> SUFFICES ASSUME KeyringInit
               PROVE  KeyringInv /\ NoticeInv
    OBVIOUS
  <2> USE DEF KeyringInit
  <2>1. KeyringTypeOK
    BY DEF KeyringTypeOK, Held, Phases
  <2>2. HistoryInv
    BY DEF HistoryInv, InProgress
  <2>3. RouteInv
    BY DEF RouteInv, AtFile
  <2>4. SupersededIsGone
    BY DEF SupersededIsGone
  <2>5. NoticeInv
    BY DEF NoticeInv, AnnouncedOnce, Printing
  <2> QED
    BY <2>1, <2>2, <2>3, <2>4, <2>5 DEF KeyringInv
<1>2. KeyringInv /\ NoticeInv /\ [KeyringNext]_keyringVars
         => KeyringInv' /\ NoticeInv'
  <2> SUFFICES ASSUME KeyringInv, NoticeInv, [KeyringNext]_keyringVars
               PROVE  KeyringInv' /\ NoticeInv'
    OBVIOUS
  <2>1. KeyringTypeOK /\ HistoryInv /\ RouteInv
    BY DEF KeyringInv
  <2>2. CASE \E c \in Callers : BackendStep(c)
    <3>1. PICK c \in Callers : BackendStep(c)
      BY <2>2
    <3> QED
      BY <2>1, <3>1, BackendTyped, BackendHistory, BackendRoute,
         BackendSupersedes, NoticeStep DEF KeyringInv
  <2>3. CASE \E c \in Callers, r \in Requests : Begin(c, r)
    <3>1. PICK c \in Callers, r \in Requests : Begin(c, r)
      BY <2>3
    <3>2. SupersededIsGone'
      BY <3>1 DEF Begin, KeyringInv, SupersededIsGone
    <3> QED
      BY <2>1, <3>1, <3>2, BeginTyped, BeginHistory, BeginRoute, NoticeBegin
         DEF KeyringInv
  <2>4. CASE UNCHANGED keyringVars
    <3> USE <2>4 DEF keyringVars, storeVars, historyVars
    <3>1. KeyringTypeOK'
      BY <2>1 DEF KeyringTypeOK
    <3>2. HistoryInv'
      BY <2>1 DEF HistoryInv, NobodyStores, InProgress
    <3>3. RouteInv'
      BY <2>1 DEF RouteInv, AtFile
    <3>4. SupersededIsGone'
      BY DEF KeyringInv, SupersededIsGone
    <3>5. NoticeInv'
      BY DEF NoticeInv, AnnouncedOnce, Printing
    <3> QED
      BY <3>1, <3>2, <3>3, <3>4, <3>5 DEF KeyringInv
  <2> QED
    BY <2>2, <2>3, <2>4 DEF KeyringNext
<1> QED
  BY <1>1, <1>2, PTL DEF KeyringSpec
=============================================================================
