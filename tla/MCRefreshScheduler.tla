-------------------------- MODULE MCRefreshScheduler --------------------------
(* Instances of RefreshScheduler for TLC. *)
EXTENDS RefreshScheduler

NoFaults  == {{}}
AllFaults == {{}, {"listing", "throw"}}
=============================================================================
