------------------------- MODULE CredentialsProofs -------------------------
(***************************************************************************)
(* Proofs about Credentials, for any callers, applications, values,        *)
(* backends and order of stores.                                           *)
(*                                                                         *)
(* Its calls are calls of KeyringStore, so that what KeyringProofs shows   *)
(* of the stores holds here, too.  ReadInv says what a call of secret in   *)
(* progress knows: a place that it has looked into in vain has not held    *)
(* its value for the whole call, or was not there to be looked into.       *)
(***************************************************************************)
EXTENDS Credentials, KeyringProofs

(* Credentials uses the backends as KeyringStore has them: what its calls  *)
(* do to the stores is what some calls of get, set and unset do            *)
(* (credentials.py, secret, set and unset).                                *)
THEOREM CredentialsCallBackends == Spec => KeyringSpec
<1>1. Init => KeyringInit
  BY DEF Init
<1>2. [Next]_vars => [KeyringNext]_keyringVars
  <2> SUFFICES ASSUME Next
               PROVE  KeyringNext
    BY DEF vars
  <2>1. ASSUME NEW c \in Callers, Step(c)
        PROVE  KeyringNext
    BY <2>1 DEF Step, KeyringNext
  <2>2. ASSUME NEW c \in Callers, NEW b \in BackendKinds,
               NEW i \in 1 .. Len(Tiers), Ask(c, b, i)
        PROVE  KeyringNext
    <3>1. Tiers[i] \in Apps
      BY TiersAssumption
    <3>2. [op |-> "get", app |-> Tiers[i], backend |-> b, value |-> None]
             \in Requests
      BY <3>1 DEF Requests
    <3> QED
      BY <2>2, <3>2 DEF Ask, KeyringNext
  <2>3. ASSUME NEW c \in Callers, NEW b \in BackendKinds, CallSecret(c, b)
        PROVE  KeyringNext
    <3>1. 1 \in 1 .. Len(Tiers)
      BY TiersAssumption
    <3> QED
      BY <2>2, <2>3, <3>1 DEF CallSecret
  <2>4. ASSUME NEW c \in Callers, NextTier(c)
        PROVE  KeyringNext
    <3>1. tier[c] + 1 \in 1 .. Len(Tiers)
      BY <2>4, TiersAssumption DEF NextTier, Unresolved
    <3>2. via[c] \in BackendKinds
      BY <2>4, KeyringAssumption DEF NextTier, Ask, Begin
    <3> QED
      BY <2>2, <2>4, <3>1, <3>2 DEF NextTier
  <2>5. ASSUME NEW c \in Callers, NEW a \in Apps, NEW b \in BackendKinds,
               NEW v \in Values \cup {None}, CallWrite(c, a, b, v)
        PROVE  KeyringNext
    BY <2>5 DEF CallWrite, KeyringNext, Requests
  <2> QED
    BY <2>1, <2>3, <2>4, <2>5 DEF Next
<1> QED
  BY <1>1, <1>2, PTL DEF Spec, KeyringSpec

(* The types of the state of the backends.                                 *)
THEOREM KeyringTypeCorrect == Spec => []KeyringTypeOK
<1>1. KeyringInv => KeyringTypeOK
  BY DEF KeyringInv
<1> QED
  BY <1>1, KeyringInvariant, CredentialsCallBackends, PTL

(* A value that a set or unset replaced in the keyring comes back from     *)
(* neither store, whatever other callers do meanwhile and whichever call   *)
(* fails (keyring.py, set and unset).                                      *)
THEOREM ReplacedStaysGone == Spec => []SupersededIsGone
<1>1. KeyringInv => SupersededIsGone
  BY DEF KeyringInv
<1> QED
  BY <1>1, KeyringInvariant, CredentialsCallBackends, PTL

(* The notice of the fallback is printed once, and the print is under way, *)
(* or has ended, when a call is served in place of the keyring; one that   *)
(* failed or was interrupted is not repeated (keyring.py,                  *)
(* _warn_keyring_fallback_once).                                           *)
THEOREM NoticeIsGivenOnce == Spec => []AnnouncedOnce
<1>1. NoticeInv => AnnouncedOnce
  BY DEF NoticeInv
<1> QED
  BY <1>1, KeyringInvariant, CredentialsCallBackends, PTL

-----------------------------------------------------------------------------
\* What is remembered of a call of secret, and of which type.
SecretTypeOK ==
    /\ tier \in [Callers -> 0 .. Len(Tiers)]
    /\ via \in [Callers -> BackendKinds \cup {None}]
    /\ standing \in [Callers -> SUBSET Places]
    /\ blind = [c \in Callers |-> blind[c]]

\* A value that stands is a value.
StandingInv ==
    \A c \in Callers : \A p \in standing[c] : Content(p) # None

\* The call c need not find a value at p: none has stood there all along, or
\* it could not look.
Excused(c, p) == p \in standing[c] => p \notin Visible(c)

Current(c) == Tiers[tier[c]]

\* The get that a call of secret has come to.
GetAt(c) == [op |-> "get", app |-> Current(c), backend |-> via[c],
             value |-> None]

ReadsOn(c) ==
    phase[c] # "out" => request[c] = GetAt(c) /\ answer[c] = None

StoresBehind(c) ==
    phase[c] # "out" \/ reply[c] = "ok" =>
       \A i \in 1 .. tier[c] - 1, t \in {"ring", "file"} :
          Excused(c, <<Tiers[i], t>>)

RingBehind(c) ==
    phase[c] \notin {"out", "ring"} => Excused(c, <<Current(c), "ring">>)

AnswerInv(c) ==
    phase[c] = "out" /\ reply[c] = "ok" =>
       IF answer[c] = None
         THEN \A t \in {"ring", "file"} : Excused(c, <<Current(c), t>>)
         ELSE /\ answer[c].app = Current(c)
              /\ answer[c].tier = "file" =>
                    Excused(c, <<Current(c), "ring">>)

ReadInv ==
    \A c \in Callers : tier[c] > 0 =>
       ReadsOn(c) /\ StoresBehind(c) /\ RingBehind(c) /\ AnswerInv(c)

SecretInv == SecretTypeOK /\ StandingInv /\ ReadInv

-----------------------------------------------------------------------------
LEMMA InTiers == \A i \in 1 .. Len(Tiers) : /\ Tiers[i] \in Apps
                                            /\ i \in DOMAIN Tiers
BY TiersAssumption

(* A new call leaves the stores alone.                                     *)
LEMMA BeginKeepsStores ==
    ASSUME NEW c \in Callers, NEW r, Begin(c, r)
    PROVE  \A p \in Places : Content(p)' = Content(p)
BY DEF Begin, Content

LEMMA SecretTypeStep ==
    ASSUME KeyringTypeOK, SecretTypeOK, Next
    PROVE  SecretTypeOK'
<1>1. ASSUME NEW c \in Callers, Step(c)
      PROVE  SecretTypeOK'
  <2>1. tier' = tier /\ via' = via
    BY <1>1 DEF Step
  <2>2. standing' \in [Callers -> SUBSET Places]
    BY <1>1 DEF Step, Watch, SecretTypeOK
  <2>3. blind' = [d \in Callers |-> blind'[d]]
    BY <1>1 DEF Step, Watch
  <2> QED
    BY <2>1, <2>2, <2>3 DEF SecretTypeOK
<1>2. ASSUME NEW c \in Callers, NextTier(c)
      PROVE  SecretTypeOK'
  BY <1>2 DEF NextTier, Unresolved, Ask, SecretTypeOK
<1>3. ASSUME NEW c \in Callers, NEW b \in BackendKinds, CallSecret(c, b)
      PROVE  SecretTypeOK'
  <2>1. 1 \in 0 .. Len(Tiers)
    BY TiersAssumption
  <2> QED
    BY <1>3, <2>1 DEF CallSecret, Ask, SecretTypeOK, Filled
<1>4. ASSUME NEW c \in Callers, NEW a, NEW b, NEW v, CallWrite(c, a, b, v)
      PROVE  SecretTypeOK'
  <2>1. 0 \in 0 .. Len(Tiers)
    BY TiersAssumption
  <2> QED
    BY <1>4, <2>1 DEF CallWrite, SecretTypeOK
<1> QED
  BY <1>1, <1>2, <1>3, <1>4 DEF Next

(* What stands is watched: a place whose content changes is taken off.     *)
LEMMA StandingStep ==
    ASSUME SecretTypeOK, StandingInv, Next
    PROVE  StandingInv'
<1>1. ASSUME NEW c \in Callers, Step(c)
      PROVE  StandingInv'
  BY <1>1 DEF Step, Watch, StandingInv
<1>2. ASSUME NEW c \in Callers, NextTier(c)
      PROVE  StandingInv'
  BY <1>2, BeginKeepsStores DEF NextTier, Ask, StandingInv, SecretTypeOK
<1>3. ASSUME NEW c \in Callers, NEW b \in BackendKinds, CallSecret(c, b)
      PROVE  StandingInv'
  BY <1>3, BeginKeepsStores
     DEF CallSecret, Ask, StandingInv, SecretTypeOK, Filled
<1>4. ASSUME NEW c \in Callers, NEW a, NEW b, NEW v, CallWrite(c, a, b, v)
      PROVE  StandingInv'
  BY <1>4, BeginKeepsStores DEF CallWrite, StandingInv, SecretTypeOK
<1> QED
  BY <1>1, <1>2, <1>3, <1>4 DEF Next

(* During a call less and less can stand, and less and less is visible.    *)
LEMMA ExcusedStays ==
    ASSUME SecretTypeOK, NEW c \in Callers, Step(c),
           NEW d \in Callers, NEW p, Excused(d, p)
    PROVE  Excused(d, p)'
<1>1. standing'[d] = {q \in standing[d] :
                         Asking(d) /\ Content(q)' = Content(q)}
  BY DEF Step, Watch
<1>2. CASE ~Asking(d)
  BY <1>1, <1>2 DEF Excused
<1>3. CASE Asking(d)
  <2>1. blind[d] \subseteq blind'[d] /\ via' = via
    BY <1>3 DEF Step, Watch
  <2>2. Visible(d)' \subseteq Visible(d)
    BY <2>1 DEF Visible, Places
  <2> QED
    BY <1>1, <2>2 DEF Excused
<1> QED
  BY <1>2, <1>3

(* A place that is empty when it is looked into holds no value that stands. *)
LEMMA EmptyExcuses ==
    ASSUME StandingInv, NEW c \in Callers, NEW p, Content(p) = None
    PROVE  Excused(c, p)
BY DEF StandingInv, Excused

-----------------------------------------------------------------------------
(* What is found is a value.                                               *)
LEMMA FoundIsAnswer ==
    ASSUME KeyringTypeOK, NEW c \in Callers, phase[c] # "out",
           NEW f \in {ring, file}, NEW t \in {"ring", "file"},
           LET v == Normal(f[request[c].app])
           IN  v # None /\ Found(c, v, t)
    PROVE  answer'[c] # None
<1>1. request[c].app \in Apps
  BY DEF KeyringTypeOK, Requests
<1>2. f[request[c].app] \in Held
  BY <1>1 DEF KeyringTypeOK
<1>3. Normal(f[request[c].app]) \in Values
  BY <1>2 DEF Normal, Held
<1>4. [value |-> Normal(f[request[c].app]), app |-> request[c].app,
       tier |-> t] \in Answers
  BY <1>1, <1>3 DEF Answers
<1> QED
  BY <1>4, KeyringAssumption DEF Found, KeyringTypeOK

(* How one statement of its own changes what a call of secret knows.       *)
LEMMA ReaderReads ==
    ASSUME KeyringTypeOK, SecretInv, NEW c \in Callers, Step(c),
           tier[c] > 0, StandingInv'
    PROVE  ReadsOn(c)' /\ RingBehind(c)' /\ AnswerInv(c)'
<1>1. /\ BackendStep(c) /\ phase[c] # "out" /\ Asking(c)
      /\ request[c] = GetAt(c) /\ answer[c] = None
      /\ RingBehind(c)
  BY StepShape DEF Step, SecretInv, ReadInv, ReadsOn, Asking
<1>2. UNCHANGED <<tier, via>>
  BY DEF Step
<1>3. UNCHANGED <<Current(c), GetAt(c)>>
  BY <1>2 DEF Current, GetAt
<1>4. ASSUME NEW t \in {"ring", "file"}, Excused(c, <<Current(c), t>>)
      PROVE  Excused(c, <<Current(c), t>>)'
  BY <1>2, <1>4, ExcusedStays DEF SecretInv, Current
<1>5. ASSUME NEW p, NEW s, Goto(c, p, s)
      PROVE  phase'[c] = p /\ status'[c] = s /\ request' = request
  BY <1>5 DEF Goto, KeyringTypeOK
<1>6. ASSUME NEW s, Return(c, s)
      PROVE  phase'[c] = "out" /\ reply'[c] = s
  BY <1>6 DEF Return, KeyringTypeOK
<1>7. request[c].app = Current(c) /\ request[c].op = "get"
  BY <1>1 DEF GetAt
<1>8. CASE RingAnswers(c)
  <2>1. answer'[c].app = Current(c) /\ answer'[c].tier = "ring"
    BY <1>7, <1>8 DEF RingAnswers, Found, KeyringTypeOK
  <2>2. answer'[c] # None
    BY <1>1, <1>8, FoundIsAnswer DEF RingAnswers
  <2>3. phase'[c] = "out"
    BY <1>6, <1>8 DEF RingAnswers
  <2> QED
    BY <1>3, <2>1, <2>2, <2>3 DEF ReadsOn, RingBehind, AnswerInv
<1>9. CASE RingIsEmpty(c)
  <2>1. Content(<<Current(c), "ring">>) = None
    BY <1>7, <1>9 DEF RingIsEmpty, Content
  <2>2. Excused(c, <<Current(c), "ring">>)'
    BY <1>4, <2>1, EmptyExcuses DEF SecretInv
  <2>3. UNCHANGED answer
    BY <1>9 DEF RingIsEmpty
  <2>4. CASE HasFallback(request[c])
    <3>1. phase'[c] = "file" /\ request' = request
      BY <1>5, <1>9, <2>4 DEF RingIsEmpty, GotoOrReturn
    <3> QED
      BY <1>1, <1>3, <2>2, <2>3, <3>1 DEF ReadsOn, RingBehind, AnswerInv
  <2>5. CASE ~HasFallback(request[c])
    <3>1. phase'[c] = "out"
      BY <1>6, <1>9, <2>5 DEF RingIsEmpty, GotoOrReturn
    <3>2. via[c] = "keyring"
      <4>1. request[c].backend \in BackendKinds
        BY <1>1 DEF KeyringTypeOK, Requests
      <4> QED
        BY <1>1, <2>5, <4>1 DEF HasFallback, GetAt, BackendKinds
    <3>3. Excused(c, <<Current(c), "file">>)'
      BY <1>2, <3>2 DEF Excused, Visible
    <3> QED
      BY <1>1, <2>2, <2>3, <3>1, <3>3 DEF ReadsOn, RingBehind, AnswerInv
  <2> QED
    BY <2>4, <2>5
<1>10. CASE RingIsAbsent(c)
  <2>1. CASE HasFallback(request[c])
    <3>1. /\ phase'[c] = "check" /\ request' = request
          /\ status'[c] = "no_backend"
      BY <1>5, <1>10, <2>1 DEF RingIsAbsent, GotoOrReturn
    <3>2. Current(c) \in blind'[c]
      BY <1>1, <1>7, <3>1 DEF Step, Watch
    <3>3. Excused(c, <<Current(c), "ring">>)'
      BY <1>3, <3>2 DEF Excused, Visible
    <3>4. UNCHANGED answer
      BY <1>10 DEF RingIsAbsent
    <3> QED
      BY <1>1, <1>3, <3>1, <3>3, <3>4 DEF ReadsOn, RingBehind, AnswerInv
  <2>2. CASE ~HasFallback(request[c])
    <3>1. phase'[c] = "out" /\ reply'[c] = "NoKeyringError"
      BY <1>6, <1>10, <2>2 DEF RingIsAbsent, GotoOrReturn
    <3> QED
      BY <3>1 DEF ReadsOn, RingBehind, AnswerInv
  <2> QED
    BY <2>1, <2>2
<1>11. CASE CheckWarned(c) \/ RecordWarned(c) \/ PrintNotice(c)
  <2>1. Excused(c, <<Current(c), "ring">>)'
    BY <1>1, <1>4, <1>11
       DEF CheckWarned, RecordWarned, PrintNotice, RingBehind
  <2>2. UNCHANGED answer
    BY <1>11 DEF CheckWarned, RecordWarned, PrintNotice
  <2>3. \/ phase'[c] \notin {"out", "ring"} /\ request' = request
        \/ phase'[c] = "out" /\ reply'[c] = "OSError"
    BY <1>5, <1>6, <1>11 DEF CheckWarned, RecordWarned, PrintNotice
  <2> QED
    BY <1>1, <1>3, <2>1, <2>2, <2>3 DEF ReadsOn, RingBehind, AnswerInv
<1>12. CASE FileGet(c)
  <2>1. phase'[c] = "out"
    BY <1>6, <1>12 DEF FileGet
  <2>2. Excused(c, <<Current(c), "ring">>)'
    BY <1>1, <1>4, <1>12 DEF FileGet, AtFile, RingBehind
  <2>3. CASE Normal(file[request[c].app]) = None
    <3>1. Content(<<Current(c), "file">>) = None
      BY <1>7, <2>3 DEF Content
    <3>2. Excused(c, <<Current(c), "file">>)'
      BY <1>4, <3>1, EmptyExcuses DEF SecretInv
    <3>3. UNCHANGED answer
      BY <1>12, <2>3 DEF FileGet
    <3> QED
      BY <1>1, <2>1, <2>2, <3>2, <3>3 DEF ReadsOn, RingBehind, AnswerInv
  <2>4. CASE Normal(file[request[c].app]) # None
    <3>1. answer'[c].app = Current(c)
      BY <1>7, <1>12, <2>4 DEF FileGet, Found, KeyringTypeOK
    <3>2. answer'[c] # None
      BY <1>1, <1>12, <2>4, FoundIsAnswer DEF FileGet
    <3> QED
      BY <1>3, <2>1, <2>2, <3>1, <3>2 DEF ReadsOn, RingBehind, AnswerInv
  <2> QED
    BY <2>3, <2>4
<1>13. CASE RingFails(c) \/ FileFails(c) \/ Interrupt(c)
  <2>1. phase'[c] = "out" /\ reply'[c] # "ok"
    BY <1>6, <1>13 DEF RingFails, FileFails, Interrupt
  <2> QED
    BY <2>1 DEF ReadsOn, RingBehind, AnswerInv
<1>14. CASE RingWrites(c) \/ FileWrite(c)
  BY <1>7, <1>14 DEF RingWrites, FileWrite, AtRing, AtFile
<1> QED
  BY <1>1, <1>8, <1>9, <1>10, <1>11, <1>12, <1>13, <1>14 DEF BackendStep

(* The stores that a call has behind it stay excused; other callers do not *)
(* change what it knows.                                                   *)
LEMMA StepReads ==
    ASSUME KeyringTypeOK, SecretInv, StandingInv',
           NEW c \in Callers, Step(c)
    PROVE  ReadInv'
<1>1. SUFFICES ASSUME NEW d \in Callers, tier[d] > 0
               PROVE  (ReadsOn(d) /\ StoresBehind(d) /\ RingBehind(d)
                          /\ AnswerInv(d))'
  BY DEF Step, ReadInv
<1>2. UNCHANGED <<tier, via>> /\ BackendStep(c)
  BY DEF Step
<1>3. ASSUME NEW p, Excused(d, p)
      PROVE  Excused(d, p)'
  BY <1>3, ExcusedStays DEF SecretInv
<1>4. ReadsOn(d) /\ StoresBehind(d) /\ RingBehind(d) /\ AnswerInv(d)
  BY <1>1 DEF SecretInv, ReadInv
<1>5. CASE d = c
  <2>1. phase[c] # "out"
    BY <1>2, StepShape
  <2>2. StoresBehind(c)'
    BY <1>2, <1>3, <1>4, <1>5, <2>1 DEF StoresBehind
  <2> QED
    BY <1>1, <1>5, <2>2, ReaderReads
<1>6. CASE d # c
  <2>1. /\ phase'[d] = phase[d] /\ request'[d] = request[d]
        /\ reply'[d] = reply[d]
    BY <1>2, <1>6, StepShape DEF Goto, Return, KeyringTypeOK
  <2>2. answer'[d] = answer[d]
    BY <1>2, <1>6
       DEF BackendStep, RingAnswers, RingIsEmpty, RingWrites, RingFails,
           RingIsAbsent, CheckWarned, RecordWarned, PrintNotice, FileGet,
           FileWrite, FileFails, Interrupt, Found, KeyringTypeOK
  <2>3. UNCHANGED <<Current(d), GetAt(d)>>
    BY <1>2 DEF Current, GetAt
  <2>4. ReadsOn(d)'
    BY <1>4, <2>1, <2>2, <2>3 DEF ReadsOn
  <2>5. StoresBehind(d)'
    BY <1>2, <1>3, <1>4, <2>1 DEF StoresBehind
  <2>6. RingBehind(d)'
    BY <1>3, <1>4, <2>1, <2>3 DEF RingBehind
  <2>7. AnswerInv(d)'
    BY <1>3, <1>4, <2>1, <2>2, <2>3 DEF AnswerInv
  <2> QED
    BY <2>4, <2>5, <2>6, <2>7
<1> QED
  BY <1>5, <1>6

-----------------------------------------------------------------------------
\* What ReadInv says of one call.
Reads(c) == ReadsOn(c) /\ StoresBehind(c) /\ RingBehind(c) /\ AnswerInv(c)

(* A new call of c changes nothing of what the call of d knows.            *)
LEMMA OthersReadOn ==
    ASSUME KeyringTypeOK, NEW c \in Callers, NEW r, Begin(c, r),
           NEW d \in Callers, d # c, Reads(d),
           UNCHANGED <<tier[d], via[d], standing[d], blind[d]>>
    PROVE  Reads(d)'
<1>1. UNCHANGED <<phase[d], request[d], reply[d], answer[d]>>
  BY DEF Begin, KeyringTypeOK
<1>2. UNCHANGED <<Current(d), GetAt(d)>>
  BY DEF Current, GetAt
<1>3. \A p : Excused(d, p)' = Excused(d, p)
  BY DEF Excused, Visible
<1>4. ReadsOn(d)' /\ RingBehind(d)' /\ AnswerInv(d)'
  BY <1>1, <1>2, <1>3 DEF Reads, ReadsOn, RingBehind, AnswerInv
<1>5. StoresBehind(d)'
  BY <1>1, <1>3 DEF Reads, StoresBehind
<1> QED
  BY <1>4, <1>5 DEF Reads

(* A store is asked: its keyring is passed over only by a file backend.    *)
LEMMA AskReads ==
    ASSUME KeyringTypeOK, SecretTypeOK, NEW c \in Callers, NEW b,
           NEW i \in 1 .. Len(Tiers), Ask(c, b, i)
    PROVE  /\ tier'[c] = i /\ via'[c] = b /\ phase'[c] # "out"
           /\ ReadsOn(c)' /\ RingBehind(c)' /\ AnswerInv(c)'
<1>1. tier'[c] = i /\ via'[c] = b
  BY DEF Ask, SecretTypeOK
<1>2. request'[c] = GetAt(c)' /\ answer'[c] = None
  BY <1>1 DEF Ask, Begin, KeyringTypeOK, GetAt, Current
<1>3. \/ phase'[c] = "ring"
      \/ phase'[c] = "file" /\ b \notin {"keyring", "keyring+file"}
  BY DEF Ask, Begin, KeyringTypeOK, UsesRing
<1>4. b \in BackendKinds
  BY KeyringAssumption DEF Ask, Begin
<1>5. phase'[c] = "file" => Excused(c, <<Current(c), "ring">>)'
  BY <1>1, <1>3, <1>4 DEF BackendKinds, Excused, Visible
<1> QED
  BY <1>1, <1>2, <1>3, <1>5 DEF ReadsOn, RingBehind, AnswerInv

LEMMA NextTierReads ==
    ASSUME KeyringTypeOK, SecretInv, NEW c \in Callers, NextTier(c)
    PROVE  ReadInv'
<1>1. /\ tier[c] \in 1 .. Len(Tiers) - 1 /\ tier[c] + 1 \in 1 .. Len(Tiers)
      /\ phase[c] = "out" /\ reply[c] = "ok" /\ answer[c] = None
      /\ Ask(c, via[c], tier[c] + 1)
      /\ UNCHANGED <<standing, blind>>
  BY TiersAssumption DEF NextTier, Unresolved
<1>2. StoresBehind(c) /\ AnswerInv(c)
  BY <1>1 DEF SecretInv, ReadInv
<1>3. /\ tier'[c] = tier[c] + 1 /\ via'[c] = via[c]
      /\ ReadsOn(c)' /\ RingBehind(c)' /\ AnswerInv(c)'
  BY <1>1, AskReads DEF SecretInv
<1>4. \A p : Excused(c, p)' = Excused(c, p)
  BY <1>1, <1>3 DEF Excused, Visible
<1>5. ASSUME NEW i \in 1 .. tier'[c] - 1, NEW t \in {"ring", "file"}
      PROVE  Excused(c, <<Tiers[i], t>>)'
  <2>1. i \in 1 .. tier[c] - 1 \/ i = tier[c]
    BY <1>1, <1>3, <1>5
  <2> QED
    BY <1>1, <1>2, <1>4, <1>5, <2>1 DEF StoresBehind, AnswerInv, Current
<1>6. Reads(c)'
  BY <1>3, <1>5 DEF Reads, StoresBehind
<1>7. ASSUME NEW d \in Callers, d # c, tier'[d] > 0
      PROVE  Reads(d)'
  <2>1. UNCHANGED <<tier[d], via[d], standing[d], blind[d]>>
    BY <1>1, <1>7 DEF Ask, SecretInv, SecretTypeOK
  <2> QED
    BY <1>1, <1>7, <2>1, OthersReadOn
       DEF Ask, Reads, SecretInv, ReadInv
<1> QED
  BY <1>6, <1>7 DEF Reads, ReadInv

LEMMA CallSecretReads ==
    ASSUME KeyringTypeOK, SecretInv, NEW c \in Callers,
           NEW b \in BackendKinds, CallSecret(c, b)
    PROVE  ReadInv'
<1>1. 1 \in 1 .. Len(Tiers) /\ Ask(c, b, 1)
  BY TiersAssumption DEF CallSecret
<1>2. /\ tier'[c] = 1
      /\ ReadsOn(c)' /\ RingBehind(c)' /\ AnswerInv(c)'
  BY <1>1, AskReads DEF SecretInv
<1>3. Reads(c)'
  BY <1>2 DEF Reads, StoresBehind
<1>4. ASSUME NEW d \in Callers, d # c, tier'[d] > 0
      PROVE  Reads(d)'
  <2>1. UNCHANGED <<tier[d], via[d], standing[d], blind[d]>>
    BY <1>4 DEF CallSecret, Ask, SecretInv, SecretTypeOK
  <2> QED
    BY <1>1, <1>4, <2>1, OthersReadOn
       DEF Ask, Reads, SecretInv, ReadInv
<1> QED
  BY <1>3, <1>4 DEF Reads, ReadInv

LEMMA CallWriteReads ==
    ASSUME KeyringTypeOK, SecretInv, NEW c \in Callers, NEW a, NEW b, NEW v,
           CallWrite(c, a, b, v)
    PROVE  ReadInv'
<1>1. SUFFICES ASSUME NEW d \in Callers, tier'[d] > 0
               PROVE  Reads(d)'
  BY DEF Reads, ReadInv
<1>2. d # c
  BY <1>1 DEF CallWrite, SecretInv, SecretTypeOK
<1>3. UNCHANGED <<tier[d], via[d], standing[d], blind[d]>>
  BY <1>2 DEF CallWrite, SecretInv, SecretTypeOK
<1> QED
  BY <1>1, <1>2, <1>3, OthersReadOn
     DEF CallWrite, Reads, SecretInv, ReadInv

LEMMA SecretInvariant == Spec => []SecretInv
<1>1. Init => SecretInv
  <2> SUFFICES ASSUME Init
               PROVE  SecretInv
    OBVIOUS
  <2>1. 0 \in 0 .. Len(Tiers)
    BY TiersAssumption
  <2>2. SecretTypeOK
    BY <2>1 DEF Init, SecretTypeOK
  <2>3. StandingInv /\ ReadInv
    BY DEF Init, StandingInv, ReadInv
  <2> QED
    BY <2>2, <2>3 DEF SecretInv
<1>2. KeyringTypeOK /\ SecretInv /\ [Next]_vars => SecretInv'
  <2> SUFFICES ASSUME KeyringTypeOK, SecretInv, [Next]_vars
               PROVE  SecretInv'
    OBVIOUS
  <2>1. CASE Next
    <3>1. SecretTypeOK' /\ StandingInv'
      BY <2>1, SecretTypeStep, StandingStep DEF SecretInv
    <3>2. ReadInv'
      BY <2>1, <3>1, StepReads, NextTierReads, CallSecretReads,
         CallWriteReads DEF Next
    <3> QED
      BY <3>1, <3>2 DEF SecretInv
  <2>2. CASE UNCHANGED vars
    <3> USE <2>2 DEF vars, keyringVars, storeVars, secretVars
    <3>1. SecretTypeOK'
      BY DEF SecretInv, SecretTypeOK
    <3>2. StandingInv'
      BY DEF SecretInv, StandingInv, Content
    <3>3. ReadInv'
      BY DEF SecretInv, ReadInv, ReadsOn, StoresBehind, RingBehind,
             AnswerInv, Excused, Visible, Current, GetAt
    <3> QED
      BY <3>1, <3>2, <3>3 DEF SecretInv
  <2> QED
    BY <2>1, <2>2
<1> QED
  BY <1>1, <1>2, KeyringTypeCorrect, PTL DEF Spec

(* secret never passes over a value that stands, for the whole call, where *)
(* it looks: not for one in a later store, not for the file copy under a   *)
(* keyring that holds one or fails, and not for None (credentials.py,      *)
(* secret; keyring.py, get).                                               *)
THEOREM StandingValuesAreFound == Spec => []StandingValueFound
<1>1. SecretInv => StandingValueFound
  <2>1. SUFFICES ASSUME SecretInv, NEW c \in Callers, phase[c] = "out",
                        tier[c] > 0, reply[c] = "ok", ~Unresolved(c),
                        NEW p \in standing[c], p \in Visible(c)
                 PROVE  answer[c] # None /\ ~Earlier(c, p)
    BY DEF StandingValueFound
  <2>2. StoresBehind(c) /\ AnswerInv(c)
    BY <2>1 DEF SecretInv, ReadInv
  <2>3. PICK i \in DOMAIN Tiers, t \in {"ring", "file"} : p = <<Tiers[i], t>>
    BY <2>1 DEF SecretInv, SecretTypeOK, Places
  <2>4. ~Excused(c, p)
    BY <2>1 DEF Excused
  <2>5. i \in 1 .. Len(Tiers) /\ tier[c] \in 1 .. Len(Tiers)
    BY <2>1, TiersAssumption DEF SecretInv, SecretTypeOK
  <2>6. ASSUME NEW k \in 1 .. tier[c] - 1
        PROVE  Tiers[k] # p[1]
    BY <2>1, <2>2, <2>3, <2>4, <2>6 DEF StoresBehind
  <2>7. answer[c] # None
    <3>1. SUFFICES ASSUME answer[c] = None
                   PROVE  FALSE
      OBVIOUS
    <3>2. tier[c] = Len(Tiers)
      BY <2>1, <2>5, <3>1, TiersAssumption DEF Unresolved
    <3>3. i = tier[c]
      BY <2>3, <2>5, <2>6, <3>2
    <3> QED
      BY <2>1, <2>2, <2>3, <2>4, <3>1, <3>3 DEF AnswerInv, Current
  <2>8. answer[c].tier = "file" => p # <<answer[c].app, "ring">>
    BY <2>1, <2>2, <2>4, <2>7 DEF AnswerInv, Current
  <2> QED
    BY <2>6, <2>7, <2>8 DEF Earlier
<1> QED
  BY <1>1, SecretInvariant, PTL
=============================================================================
