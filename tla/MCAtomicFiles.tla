--------------------------- MODULE MCAtomicFiles ---------------------------
(* AtomicFiles for TLC: every list of changes to the first paths, on every   *)
(* initial disk.                                                             *)
EXTENDS AtomicFiles
=============================================================================
