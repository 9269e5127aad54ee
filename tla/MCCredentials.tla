--------------------------- MODULE MCCredentials ---------------------------
(***************************************************************************)
(* Two callers, a shared application and an own one, keyring and file.     *)
(***************************************************************************)
EXTENDS Credentials, TLC

CONSTANTS c1, c2, auth, own, v1, v2

MCCallers == {c1, c2}
MCApps == {auth, own}
MCValues == {v1, v2}
MCTiers == <<auth, own>>
OwnTier == <<own>>

\* The second caller writes the shared store, too.
MCOwnOf == (c1 :> {own}) @@ (c2 :> {auth, own})
AllOwn == [c \in MCCallers |-> {own}]
OwnApp == {own}

AllFaults == FaultKinds
NoKeyringAtTimes == {"absent"}

\* The second caller has backends of all kinds.
MCBackends == (c1 :> {"keyring+file"}) @@ (c2 :> BackendKinds)
KeyringOverFile == [c \in MCCallers |-> {"keyring+file"}]

MCSymmetry == Permutations(MCValues)
=============================================================================
