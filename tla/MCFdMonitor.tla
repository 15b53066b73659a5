---------------------------- MODULE MCFdMonitor ----------------------------
(* Instances of FdMonitor for TLC; the constants are given in the .cfg     *)
(* files.                                                                  *)
EXTENDS FdMonitor
=============================================================================
