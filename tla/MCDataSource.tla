---------------------------- MODULE MCDataSource ----------------------------
(* A small data source for TLC.                                            *)
EXTENDS DataSource

CONSTANTS c1, o1, h1, h2, h3
=============================================================================
