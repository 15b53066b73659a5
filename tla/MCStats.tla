------------------------------ MODULE MCStats ------------------------------
(* Instances of Stats for TLC; the constants are given in the .cfg files.  *)
EXTENDS Stats
=============================================================================
