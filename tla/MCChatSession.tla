--------------------------- MODULE MCChatSession ----------------------------
(* Instances of ChatSession for TLC.  Streams and clients run the same code *)
(* each, so they are interchangeable.                                       *)
EXTENDS ChatSession, TLC

Symmetry == Permutations(Streams) \cup Permutations(Clients)
=============================================================================
