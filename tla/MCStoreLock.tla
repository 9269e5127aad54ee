---------------------------- MODULE MCStoreLock ----------------------------
(***************************************************************************)
(* Two threads of one process and a third of another one: the smallest     *)
(* population in which the thread lock, the OS lock and both together      *)
(* decide who waits.                                                       *)
(***************************************************************************)
EXTENDS StoreLock, TLC

CONSTANTS t1, t2, t3, p1, p2

MCThreads == {t1, t2, t3}
MCProcs == {p1, p2}
MCProcOf == (t1 :> p1) @@ (t2 :> p1) @@ (t3 :> p2)

AllFaults == LockFaultKinds

NoFaults == {}
=============================================================================
