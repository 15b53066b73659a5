---------------------------- MODULE MCRelayLink ----------------------------
(* Instances of RelayLink for TLC.                                         *)
EXTENDS RelayLink

(* No reader reads what another one writes (a panic of the alive messages  *)
(* only ends the run of the others), so one at a time will do.             *)
OneReader == {{p} : p \in Readers}
=============================================================================
