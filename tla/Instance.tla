------------------------------ MODULE Instance ------------------------------
(***************************************************************************)
(* What the HTTP API promises about the one microVM of a daemon            *)
(* (src/hephaestus-fc-api/src/backend.rs): it is configured, booted once,  *)
(* and from then on only paused and resumed.  A boot that fails is         *)
(* invisible: neither the phase nor the configuration changes.             *)
(***************************************************************************)
CONSTANTS
    Configs,       \* what the client can have configured
    Blank          \* the configuration of a new daemon

VARIABLES phase, config

vars == <<phase, config>>

Init == phase = "NotStarted" /\ config = Blank

Configure ==
    /\ phase = "NotStarted"
    /\ config' \in Configs
    /\ UNCHANGED phase

Boot ==
    /\ phase = "NotStarted"
    /\ phase' \in {"Running", "Paused"}
    /\ UNCHANGED config

Pause ==
    /\ phase = "Running"
    /\ phase' = "Paused"
    /\ UNCHANGED config

Resume ==
    /\ phase = "Paused"
    /\ phase' = "Running"
    /\ UNCHANGED config

\* Another daemon takes its place.
Replace ==
    /\ phase' = "NotStarted"
    /\ config' = Blank

Next == Configure \/ Boot \/ Pause \/ Resume \/ Replace

Spec == Init /\ [][Next]_vars
=============================================================================
