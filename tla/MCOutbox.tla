------------------------------ MODULE MCOutbox ------------------------------
(* Outbox for TLC: the first two events share an entity.                     *)
EXTENDS Outbox

CONSTANTS e1, e2, e3, x, y

OwnerOf == [e \in Events |-> IF e = e3 THEN y ELSE x]
=============================================================================
