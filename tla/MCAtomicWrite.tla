--------------------------- MODULE MCAtomicWrite ---------------------------
(***************************************************************************)
(* Two calls of write_bytes_atomic on one target and a reader of it, on    *)
(* every platform and with every fault.                                    *)
(***************************************************************************)
EXTENDS AtomicWrite

AllPlatforms == PlatformKinds

AllFaults == WriteFaultKinds
=============================================================================
