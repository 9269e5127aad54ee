---------------------------- MODULE Credentials ----------------------------
(***************************************************************************)
(* Credentials (credentials.py) over the backends of KeyringStore: secret  *)
(* asks the shared stores one after the other and the application's own    *)
(* store last; set and unset write one store.                              *)
(*                                                                         *)
(* An override or an environment variable that is not blank answers secret *)
(* before a store is touched: the calls here are those that get as far as  *)
(* the stores.  set refuses a blank value before it calls the backend.     *)
(***************************************************************************)
EXTENDS KeyringStore, Naturals, Sequences

CONSTANTS
    Tiers,  \* the shared applications in order, then the own one
    Askers, \* the callers of secret
    OwnOf   \* the applications each caller has Credentials of: set and unset
            \* write the store of one of them

ASSUME TiersAssumption ==
    /\ Tiers \in Seq(Apps) /\ Tiers # <<>>
    /\ Askers \subseteq Callers
    /\ OwnOf \in [Callers -> SUBSET Apps]

VARIABLES
    tier,      \* how many stores a call of secret has asked so far
    via,       \* the backend of the Credentials object that asks
    standing,  \* places whose value has not changed since the call of
               \* secret began (history)
    blind,     \* stores it asked without a keyring (history)
    somewhere  \* whether a place it asks held a value all along (history)

secretVars == <<tier, via, standing, blind, somewhere>>
vars == <<keyringVars, secretVars>>

\* Where a call of secret looks.
Places == {Tiers[i] : i \in DOMAIN Tiers} \X {"ring", "file"}

Content(p) == Normal(IF p[2] = "ring" THEN ring[p[1]] ELSE file[p[1]])

\* The values a call of secret can come across, at this instant.
Filled == {p \in Places : Content(p) # None}

Ask(c, b, i) ==
    /\ Begin(c, [op |-> "get", app |-> Tiers[i], backend |-> b,
                 value |-> None])
    /\ tier' = [tier EXCEPT ![c] = i]
    /\ via' = [via EXCEPT ![c] = b]

\* The store answered None, and there is another one to ask.
Unresolved(c) ==
    /\ phase[c] = "out"
    /\ tier[c] \in 1 .. Len(Tiers) - 1
    /\ reply[c] = "ok" /\ answer[c] = None

Asking(c) == tier[c] > 0 /\ (phase[c] # "out" \/ Unresolved(c))

\* What all callers do to the places a secret can be in, as a call of secret
\* in progress, or the step that ends it, sees it.
Watch ==
    /\ standing' = [c \in Callers |->
          {p \in standing[c] : Asking(c) /\ Content(p)' = Content(p)}]
    /\ blind' = [c \in Callers |->
          IF ~Asking(c) THEN {}
          ELSE IF status'[c] = "no_backend" THEN blind[c] \cup {request[c].app}
          ELSE blind[c]]
    /\ somewhere' = [c \in Callers |->
          somewhere[c] /\ Asking(c) /\ Filled' # {}]

\* secret: the first store.
CallSecret(c, b) ==
    /\ ~Unresolved(c)
    /\ Ask(c, b, 1)
    /\ standing' = [standing EXCEPT ![c] = Filled]
    /\ blind' = [blind EXCEPT ![c] = {}]
    /\ somewhere' = [somewhere EXCEPT ![c] = Filled # {}]

\* The loop over the shared stores, and the own store after it.
NextTier(c) ==
    /\ Unresolved(c)
    /\ Ask(c, via[c], tier[c] + 1)
    /\ UNCHANGED <<standing, blind, somewhere>>

\* set and unset.
CallWrite(c, a, b, v) ==
    /\ ~Unresolved(c)
    /\ a \in OwnOf[c]
    /\ Begin(c, [op |-> "write", app |-> a, backend |-> b, value |-> v])
    /\ tier' = [tier EXCEPT ![c] = 0]
    /\ via' = [via EXCEPT ![c] = None]
    /\ standing' = [standing EXCEPT ![c] = {}]
    /\ blind' = [blind EXCEPT ![c] = {}]
    /\ somewhere' = [somewhere EXCEPT ![c] = FALSE]

Init ==
    /\ KeyringInit
    /\ tier = [c \in Callers |-> 0]
    /\ via = [c \in Callers |-> None]
    /\ standing = [c \in Callers |-> {}]
    /\ blind = [c \in Callers |-> {}]
    /\ somewhere = [c \in Callers |-> FALSE]

Step(c) == BackendStep(c) /\ UNCHANGED <<tier, via>> /\ Watch

Next ==
    \E c \in Callers :
       \/ Step(c)
       \/ NextTier(c)
       \/ \E b \in BackendKinds : c \in Askers /\ CallSecret(c, b)
       \/ \E a \in Apps, b \in BackendKinds, v \in Values \cup {None} :
             CallWrite(c, a, b, v)

Spec == Init /\ [][Next]_vars

-----------------------------------------------------------------------------
\* The places a finished call of secret could look into.
Visible(c) ==
    {p \in Places :
        IF p[2] = "ring" THEN via[c] # "file" /\ p[1] \notin blind[c]
                         ELSE via[c] # "keyring"}

\* The places it looked into before the one that answered it.
Earlier(c, p) ==
    \/ \E i \in 1 .. tier[c] - 1 : Tiers[i] = p[1]
    \/ p = <<answer[c].app, "ring">> /\ answer[c].tier = "file"

\* Whatever other callers do meanwhile, secret never passes over a value that
\* stands where it looks for the whole call: not for one in a later store,
\* not for the file copy under a keyring that holds one or fails, and not for
\* None (credentials.py, secret; keyring.py, get).
StandingValueFound ==
    \A c \in Callers :
       phase[c] = "out" /\ tier[c] > 0 /\ reply[c] = "ok" /\ ~Unresolved(c) =>
          \A p \in standing[c] \cap Visible(c) :
             /\ answer[c] # None
             /\ ~Earlier(c, p)

\* "None when set nowhere" (keyring.py, get): a secret that is in one place or
\* the other at every instant of the call is found.
NoneMeansNowhere ==
    \A c \in Callers :
       /\ phase[c] = "out" /\ tier[c] > 0 /\ reply[c] = "ok"
       /\ ~Unresolved(c) /\ answer[c] = None
       /\ via[c] = "keyring+file" /\ blind[c] = {}
       => ~somewhere[c]
=============================================================================
