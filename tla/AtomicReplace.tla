--------------------------- MODULE AtomicReplace ---------------------------
(***************************************************************************)
(* What write_bytes_atomic promises (atomic.py): a file goes from one      *)
(* whole version to another in one instant; a write that is acknowledged   *)
(* is in place, and stays the current or an earlier version through a      *)
(* crash of the machine; one that raises may or may not be in place.       *)
(***************************************************************************)
EXTENDS Naturals, Sequences

CONSTANTS
    Writers,   \* one call each, named by the version it writes
    Old        \* the version that was there before

VARIABLES
    syncs,     \* whether the machine can make a rename durable
    versions,  \* the versions the file has had, the current one last
    safe,      \* how many of them a crash of the machine cannot take back
    status     \* of each call

replaceVars == <<syncs, versions, safe, status>>

InPlace(w) == \E i \in 1..Len(versions) : versions[i] = w

Init ==
    /\ syncs \in BOOLEAN
    /\ versions \in {<<>>, <<Old>>}
    /\ safe = Len(versions)
    /\ status = [w \in Writers |-> "running"]

Place(w) ==
    /\ status[w] = "running"
    /\ ~InPlace(w)
    /\ versions' = Append(versions, w)
    /\ UNCHANGED <<syncs, safe, status>>

\* Earlier versions become safe with the one that is synced.
Sync(w) ==
    /\ syncs
    /\ status[w] = "running"
    /\ InPlace(w)
    /\ safe' = Len(versions)
    /\ status' = [status EXCEPT ![w] = "ok"]
    /\ UNCHANGED <<syncs, versions>>

Acknowledge(w) ==
    /\ ~syncs
    /\ status[w] = "running"
    /\ InPlace(w)
    /\ status' = [status EXCEPT ![w] = "ok"]
    /\ UNCHANGED <<syncs, versions, safe>>

Fail(w) ==
    /\ status[w] = "running"
    /\ status' = [status EXCEPT ![w] = "failed"]
    /\ UNCHANGED <<syncs, versions, safe>>

\* The machine crashes: calls are lost, and versions that were not safe.
Crash ==
    /\ \E n \in safe..Len(versions) : versions' = SubSeq(versions, 1, n)
    /\ safe' = Len(versions')
    /\ status' \in [Writers -> {"running", "ok", "failed"}]
    /\ \A w \in Writers :
          \/ status'[w] = status[w]
          \/ status[w] = "running" /\ status'[w] = "failed"
    /\ UNCHANGED syncs

Next ==
    \/ \E w \in Writers : Place(w) \/ Sync(w) \/ Acknowledge(w) \/ Fail(w)
    \/ Crash

Spec == Init /\ [][Next]_replaceVars
=============================================================================
