--------------------------- MODULE MCChangeTracker ---------------------------
\* Instances of ChangeTracker for TLC: a has a generated key, b a natural one.
EXTENDS ChangeTracker, TLC

CONSTANTS a, b

=============================================================================
