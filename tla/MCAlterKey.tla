---------------------------- MODULE MCAlterKey ----------------------------
(* Instances of AlterKey for TLC; the constants are given in the .cfg files. *)
EXTENDS AlterKey
=============================================================================
