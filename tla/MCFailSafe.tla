----------------------------- MODULE MCFailSafe -----------------------------
(* Instances of FailSafe for TLC; the constants are set in the .cfg files. *)
EXTENDS FailSafe
=============================================================================
