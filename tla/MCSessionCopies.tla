--------------------------- MODULE MCSessionCopies --------------------------
(* Instances of SessionCopies for TLC. *)
EXTENDS SessionCopies
=============================================================================
