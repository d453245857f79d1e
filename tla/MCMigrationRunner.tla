--------------------------- MODULE MCMigrationRunner ---------------------------
\* Instances of MigrationRunner for TLC.
EXTENDS MigrationRunner, TLC

CONSTANTS r1, r2

\* The files of r2 miss the second migration; its second statement suppresses
\* transactions, and the first migration has two statements in one batch.
FilesOf == [r \in Runners |-> IF r = r1 THEN {1, 2, 3} ELSE {1, 3}]
Flags == [m \in Migrations |->
            CASE m = 1 -> <<FALSE, FALSE>> [] m = 2 -> <<FALSE, TRUE>> [] m = 3 -> <<FALSE>>]

\* With a lock, without one, and with apply() and revert() under a lock.
Cases == {[locks |-> TRUE, direct |-> FALSE], [locks |-> FALSE, direct |-> FALSE],
          [locks |-> TRUE, direct |-> TRUE]}
=============================================================================
