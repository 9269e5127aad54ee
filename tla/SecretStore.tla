---------------------------- MODULE SecretStore ----------------------------
(***************************************************************************)
(* What a store promises to the callers of set and unset, whatever keeps   *)
(* it: a map from names to values on which every call takes effect at one  *)
(* instant between the call and its return, or not at all.  A call that    *)
(* returns without an exception has taken effect; one that raises may or   *)
(* may not have (backends/file.py, set and unset).  A store that cannot be *)
(* read back is never written.                                             *)
(***************************************************************************)
CONSTANTS
    Callers,   \* the threads that call the store
    Names,     \* the names of the secrets
    Values,    \* their values
    Replies,   \* how a call can end, "ok" or the exception it raises
    Malformed, \* the content of a store that cannot be read back
    None

VARIABLES
    store,     \* the map, or Malformed
    pending,   \* the request of a caller, a name and a value to store
    done,      \* whether that request has taken effect
    reply      \* how the call is going to end

abstractVars == <<store, pending, done, reply>>

Contents == [Names -> Values \cup {None}]

\* A request stores a value under a name, or, with None, removes the name.
WriteRequests == [name : Names, value : Values \cup {None}]

Effect(r, m) == [m EXCEPT ![r.name] = r.value]

Init ==
    /\ store \in Contents \cup {Malformed}
    /\ pending = [c \in Callers |-> None]
    /\ done = [c \in Callers |-> FALSE]
    /\ reply = [c \in Callers |-> None]

Call(c) ==
    /\ pending[c] = None
    /\ \E r \in WriteRequests : pending' = [pending EXCEPT ![c] = r]
    /\ UNCHANGED <<store, done, reply>>

\* The call takes effect, on whatever the store holds at that instant.
TakeEffect(c) ==
    /\ pending[c] # None
    /\ ~done[c]
    /\ store # Malformed
    /\ store' = Effect(pending[c], store)
    /\ done' = [done EXCEPT ![c] = TRUE]
    /\ UNCHANGED <<pending, reply>>

\* The outcome is decided; an exception may still replace it.
Decide(c) ==
    /\ pending[c] # None
    /\ \E s \in Replies :
          /\ s = "ok" => done[c]
          /\ reply' = [reply EXCEPT ![c] = s]
    /\ UNCHANGED <<store, pending, done>>

\* Nothing to do: the request takes effect without a change, and returns.
EffectAndDecide(c) ==
    /\ pending[c] # None
    /\ ~done[c]
    /\ store # Malformed
    /\ Effect(pending[c], store) = store
    /\ done' = [done EXCEPT ![c] = TRUE]
    /\ reply' = [reply EXCEPT ![c] = "ok"]
    /\ UNCHANGED <<store, pending>>

\* Calls end: one that returned or was interrupted, or all of a process.
End(C) ==
    /\ pending' = [c \in Callers |-> IF c \in C THEN None ELSE pending[c]]
    /\ done' = [c \in Callers |-> IF c \in C THEN FALSE ELSE done[c]]
    /\ reply' = [c \in Callers |-> IF c \in C THEN None ELSE reply[c]]
    /\ UNCHANGED store

Next ==
    \/ \E c \in Callers :
          Call(c) \/ TakeEffect(c) \/ Decide(c) \/ EffectAndDecide(c)
    \/ \E C \in SUBSET Callers : End(C)

Spec == Init /\ [][Next]_abstractVars
=============================================================================
