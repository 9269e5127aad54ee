-------------------------- MODULE MCSingleInstance --------------------------
(***************************************************************************)
(* Two runs of one job, and everything that can go wrong.                  *)
(***************************************************************************)
EXTENDS SingleInstance

CONSTANTS j1, j2

MCJobs == {j1, j2}
MCFaults == FaultKinds
=============================================================================
