---------------------------- MODULE MCHostMmds -----------------------------
(***************************************************************************)
(* The instance of HostMmds that TLC checks: a request that fits the       *)
(* buffer and one that does not, a response of two frames, two documents,  *)
(* a sequence space that wraps in the middle of the request, and the same  *)
(* client port used twice.                                                 *)
(***************************************************************************)
EXTENDS HostMmds
=============================================================================
