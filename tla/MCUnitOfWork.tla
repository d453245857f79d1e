---------------------------- MODULE MCUnitOfWork ----------------------------
(* The instance of UnitOfWork for TLC. *)
EXTENDS UnitOfWork
=============================================================================
