------------------------------ MODULE MCApply ------------------------------
(* Instances of Apply for TLC; the constants are set in the .cfg files. *)
EXTENDS Apply
=============================================================================
