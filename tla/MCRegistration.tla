--------------------------- MODULE MCRegistration ---------------------------
(* Instances of Registration for TLC; the constants are given in the .cfg files. *)
EXTENDS Registration
=============================================================================
