---------------------------- MODULE MCGenerations ---------------------------
(* The instance of Generations for TLC. *)
EXTENDS Generations, TLC
=============================================================================
