-------------------------- MODULE MCOperationGuard --------------------------
(* Instances of OperationGuard for TLC.                                      *)
EXTENDS OperationGuard
=============================================================================
