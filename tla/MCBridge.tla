----------------------------- MODULE MCBridge ------------------------------
(***************************************************************************)
(* Instances of VsockBridge.  Three connections let one copy, one shake    *)
(* hands and one wait in the backlog while the backend is dropped.         *)
(***************************************************************************)
EXTENDS VsockBridge
=============================================================================
