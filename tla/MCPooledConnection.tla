------------------------- MODULE MCPooledConnection -------------------------
(* Instances of PooledConnection for TLC. *)
EXTENDS PooledConnection
=============================================================================
