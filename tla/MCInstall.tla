------------------------------ MODULE MCInstall ------------------------------
(* Instance of Install for TLC. *)
EXTENDS Install, TLC

\* Each gate in one of two kinds of run.
AllGates == {{"caddy", "federation", "analytics"}, {"telemetry", "no doctor"}}

\* A fresh host, and one with files made by hand.
Hosts == {{}, {"config", "site", "block"}, {"broken"}}
=============================================================================
