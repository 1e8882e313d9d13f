------------------------------- MODULE MCExec ------------------------------
(***************************************************************************)
(* The instance of Exec for the question of exec_stdin: one session, which *)
(* may forward its standard input.                                         *)
(***************************************************************************)
EXTENDS Exec
=============================================================================
