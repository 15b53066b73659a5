---------------------------- MODULE MCNetListen ----------------------------
(* Instances of NetListen for TLC.                                         *)
EXTENDS NetListen, TLC

(* Sniffers are interchangeable.                                           *)
Symmetry == Permutations(Ids)
=============================================================================
