----------------------------- MODULE MCBackend -----------------------------
(***************************************************************************)
(* The instance of Backend that TLC checks: two memory sizes, a balloon    *)
(* amount equal to each of them, and two MMDS documents.  The flags of the *)
(* daemon are all those main.rs accepts.                                   *)
(***************************************************************************)
EXTENDS Backend
=============================================================================
