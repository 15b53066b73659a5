---------------------------- MODULE MCForwarding ----------------------------
(* Instances of Forwarding for TLC; the constants are given in the .cfg files. *)
EXTENDS Forwarding
=============================================================================
