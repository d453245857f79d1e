--------------------------- MODULE MCClientLeases ---------------------------
(* Instances of ClientLeases for TLC; the configurations name the actors. *)
EXTENDS ClientLeases
=============================================================================
