------------------------------ MODULE SavePlan ------------------------------
(* The order in which a save writes its entities. A save detects what the    *)
(* changed references mean for other tracked entities, extends the deletions *)
(* by the delete behaviour of the relationship, orders the entries by the    *)
(* dependencies between their rows and executes one statement after the      *)
(* other in a transaction. The database checks every foreign key and every   *)
(* unique key statement by statement, so one wrong pair refuses the save.    *)
(*                                                                           *)
(* Code: packages/core/src/core/save-plan/{prepared-entries,order-entries,   *)
(* one-to-one-ordering,stable-topological-order,find-principal-entry,        *)
(* entity-plan,generated-key-propagation-plan}.ts and, in tracking/, the     *)
(* detectors of relationship changes and tracked cascades.                   *)
(*                                                                           *)
(* One type of entity with one optional or required relationship to its own  *)
(* type. Navigation and foreign key agree: the program sets one and the      *)
(* tracker the other. Every row of the database is tracked, nobody else      *)
(* writes, and an entity does not refer to itself. Inserts of one type that  *)
(* follow each other share a statement in the code; here each is checked on  *)
(* its own, as the strictest database does.                                  *)
EXTENDS Naturals, Sequences, FiniteSets, SequencesExt

CONSTANTS
  Size,    \* how many entities are tracked; they are numbered as they came
  None,    \* no principal
  Shapes   \* the relationships: [oneToOne, required, generated, onDelete]

ASSUME SizeAssumption == Size \in Nat \ {0}
ASSUME ShapesAssumption ==
  Shapes \subseteq [oneToOne: BOOLEAN, required: BOOLEAN, generated: BOOLEAN,
                    onDelete: {"cascade", "setNull", "restrict"}]

Entities == 1..Size

VARIABLES
  shape,    \* the relationship
  state,    \* the state of each entity in the tracker
  orig,     \* the principal each entity had in the database
  fk,       \* the principal each entity refers to
  pending,  \* the deletions whose dependents are still to be visited
  plan,     \* the entries in the order they are written
  written,  \* how many of them are written
  db,       \* the rows of the database: what each refers to
  phase

tracked == <<state, orig, fk>>
vars == <<shape, tracked, pending, plan, written, db, phase>>

Principals == Entities \cup {None}

TypeOK ==
  /\ shape \in Shapes
  /\ state \in [Entities ->
       {"Added", "Unchanged", "Modified", "Deleted", "Detached"}]
  /\ orig \in [Entities -> Principals]
  /\ fk \in [Entities -> Principals]
  /\ pending \in Seq(Entities)
  /\ plan \in Seq(Entities)
  /\ written \in 0..Len(plan)
  /\ DOMAIN db \subseteq Entities
  /\ Range(db) \subseteq Principals
  /\ phase \in {"edited", "cascading", "ordering", "executing",
                "rejected", "refused", "saved"}

(* The rows before the save.                                                 *)
Persisted == {e \in Entities : state[e] \in {"Unchanged", "Modified", "Deleted"}}

OneOwnerEach(f, S) ==
  shape.oneToOne => \A d, e \in S : d # e /\ f[d] # None => f[d] # f[e]

(* What the program has done when it saves: it added entities, changed the   *)
(* reference of others and removed others. A tracked row refers to a row, as *)
(* the database sees to it; what the program writes need not make sense.     *)
Init ==
  /\ shape \in Shapes
  /\ state \in [Entities -> {"Added", "Unchanged", "Deleted"}]
  /\ orig \in [Entities -> Principals]
  /\ fk \in [Entities -> Principals]
  /\ \A e \in Entities :
       /\ e \notin {orig[e], fk[e]}
       /\ state[e] = "Added" => orig[e] = None
       /\ state[e] = "Deleted" => fk[e] = orig[e]
       /\ state[e] # "Added" => orig[e] \in Persisted \cup {None}
       /\ shape.required => fk[e] # None
       /\ shape.required /\ state[e] # "Added" => orig[e] # None
  /\ OneOwnerEach(orig, Persisted)
  /\ pending = <<>>
  /\ plan = <<>>
  /\ written = 0
  /\ db = [e \in Persisted |-> orig[e]]
  /\ phase = "edited"

-----------------------------------------------------------------------------
(* Detection of the changed references.                                      *)
Live == {e \in Entities : state[e] \notin {"Deleted", "Detached"}}
Changed(e) == state[e] # "Added" /\ fk[e] # orig[e]
Explicit == {e \in Live : state[e] = "Added" \/ Changed(e)}

(* Two entities that claim the same principal of a one-to-one relationship.  *)
Competing ==
  /\ shape.oneToOne
  /\ \E d, e \in Explicit : d # e /\ fk[d] # None /\ fk[d] = fk[e]

(* Entities that only exchange principals of a one-to-one relationship.      *)
Swapping ==
  /\ shape.oneToOne
  /\ \E swap \in SUBSET {e \in Live : Changed(e)} :
       /\ swap # {}
       /\ \A d \in swap : fk[d] # None /\ \E e \in swap : orig[e] = fk[d]

(* A row cannot take over a key that does not exist yet.                     *)
Unresolved ==
  /\ shape.generated
  /\ \E d \in Live : Changed(d) /\ fk[d] # None /\ state[fk[d]] = "Added"

(* The entities that lose their principal to another one.                    *)
Severed ==
  {e \in Live \ Explicit :
     shape.oneToOne /\ fk[e] # None /\ \E d \in Explicit : fk[d] = fk[e]}

Reject ==
  /\ phase = "edited"
  /\ \/ Competing
     \/ Swapping
     \/ Unresolved
     \/ Severed # {} /\ shape.required /\ shape.onDelete # "cascade"
  /\ phase' = "rejected"
  /\ UNCHANGED <<shape, tracked, pending, plan, written, db>>

(* A severed entity is deleted when it cannot be without a principal. The    *)
(* deletions are visited in the order in which the entities are tracked.     *)
Detect ==
  /\ phase = "edited"
  /\ ~(Competing \/ Swapping \/ Unresolved)
  /\ shape.required /\ Severed # {} => shape.onDelete = "cascade"
  /\ fk' = IF shape.required THEN fk
           ELSE [e \in Entities |-> IF e \in Severed THEN None ELSE fk[e]]
  /\ state' = [e \in Entities |->
       IF e \in Severed /\ shape.required THEN "Deleted"
       ELSE IF state[e] = "Unchanged" /\ fk'[e] # orig[e] THEN "Modified"
       ELSE state[e]]
  /\ pending' = SelectSeq([e \in Entities |-> e], LAMBDA e : state'[e] = "Deleted")
  /\ phase' = "cascading"
  /\ UNCHANGED <<shape, orig, plan, written, db>>

(* The delete behaviour, applied in memory to the live dependents of one     *)
(* deleted principal: what happens to their rows is what the database would  *)
(* do, but the tracker knows of it.                                          *)
Dependents(p) == {d \in Live : fk[d] = p}

CascadeFrom(dependents) ==
  /\ phase = "cascading"
  /\ pending # <<>>
  /\ state' = [e \in Entities |->
       IF e \notin dependents \/ shape.onDelete = "restrict" THEN state[e]
       ELSE IF shape.onDelete = "cascade"
       THEN IF state[e] = "Added" THEN "Detached" ELSE "Deleted"
       ELSE IF state[e] = "Added" THEN "Added"
       ELSE IF orig[e] = None THEN "Unchanged" ELSE "Modified"]
  /\ fk' = [e \in Entities |->
       IF e \in dependents /\ shape.onDelete = "setNull" THEN None ELSE fk[e]]
  /\ pending' = Tail(pending) \o
       SelectSeq([e \in Entities |-> e],
                 LAMBDA e : e \in dependents /\ state'[e] = "Deleted")
  /\ UNCHANGED <<shape, orig, plan, written, db, phase>>

\* Mutant: only the dependents that have not been edited.
CascadeOnce == CascadeFrom({d \in Dependents(Head(pending)) : state[d] = "Unchanged"})

Cascade == CascadeFrom(Dependents(Head(pending)))

Cascaded ==
  /\ phase = "cascading"
  /\ pending = <<>>
  /\ phase' = "ordering"
  /\ UNCHANGED <<shape, tracked, pending, plan, written, db>>

-----------------------------------------------------------------------------
(* The graph of dependencies: <<d, e>> when d must be written before e.      *)
Entries == {e \in Entities : state[e] \in {"Added", "Modified", "Deleted"}}

DeletedDependents ==
  {<<d, p>> \in Entries \X Entries :
     state[d] = "Deleted" /\ orig[d] = p /\ state[p] = "Deleted"}
AddedPrincipals ==
  {<<p, d>> \in Entries \X Entries :
     state[d] # "Deleted" /\ fk[d] = p /\ state[p] = "Added"}
LeftPrincipals ==
  {<<d, p>> \in Entries \X Entries :
     state[d] = "Modified" /\ orig[d] = p /\ state[p] = "Deleted"}

(* The one who vacates the principal of a one-to-one relationship before the *)
(* one who takes it.                                                         *)
Displacements ==
  {<<occupant, incoming>> \in Entries \X Entries :
     /\ shape.oneToOne
     /\ occupant # incoming
     /\ state[incoming] # "Deleted"
     /\ fk[incoming] = orig[occupant]
     /\ state[occupant] = "Deleted" \/ fk[occupant] # orig[occupant]}

\* Mutant: deleted entities are ordered by the reference they have now.
EdgesByCurrent ==
  {<<d, p>> \in Entries \X Entries :
     state[d] = "Deleted" /\ fk[d] = p /\ state[p] = "Deleted"}
  \cup AddedPrincipals \cup LeftPrincipals \cup Displacements

Edges ==
  DeletedDependents \cup AddedPrincipals \cup LeftPrincipals \cup Displacements

Priority(e) ==
  CASE state[e] = "Modified" -> 0
    [] state[e] = "Added" -> 1
    [] OTHER -> 2

Sooner(d, e) == Priority(d) < Priority(e) \/ (Priority(d) = Priority(e) /\ d < e)

Remaining == Entries \ Range(plan)

Ready == {e \in Remaining : \A d \in Remaining : <<d, e>> \notin Edges}

FirstOf(S) == CHOOSE e \in S : \A d \in S : d = e \/ Sooner(e, d)

Take(S) ==
  /\ phase = "ordering"
  /\ S # {}
  /\ plan' = Append(plan, FirstOf(S))
  /\ UNCHANGED <<shape, tracked, pending, written, db, phase>>

TakeReady == Take(Ready)

(* In a cycle nothing is ready: the least entry of all that remain goes      *)
(* first, and the database decides.                                          *)
BreakCycle == Ready = {} /\ Take(Remaining)

Ordered ==
  /\ phase = "ordering"
  /\ Remaining = {}
  /\ phase' = "executing"
  /\ UNCHANGED <<shape, tracked, pending, plan, written, db>>

-----------------------------------------------------------------------------
(* The database: one statement for each entry, on the rows as a function to  *)
(* what they refer to.                                                       *)
Referring(rows, p) == {r \in DOMAIN rows : rows[r] = p}

(* May row e refer to what the tracker says?                                 *)
Fits(rows, e) ==
  /\ fk[e] \in DOMAIN rows \cup {None}
  /\ shape.oneToOne /\ fk[e] # None => Referring(rows, fk[e]) \subseteq {e}

RECURSIVE RowsGone(_, _)
RowsGone(rows, gone) ==
  LET more == gone \cup UNION {Referring(rows, p) : p \in gone}
  IN  IF more = gone THEN gone ELSE RowsGone(rows, more)

(* What the database does of itself when a row is deleted.                   *)
Without(rows, e) ==
  CASE shape.onDelete = "cascade" ->
         [r \in DOMAIN rows \ RowsGone(rows, {e}) |-> rows[r]]
    [] shape.onDelete = "setNull" ->
         [r \in DOMAIN rows \ {e} |-> IF rows[r] = e THEN None ELSE rows[r]]
    [] OTHER -> [r \in DOMAIN rows \ {e} |-> rows[r]]

(* Is the statement for e accepted, with one row affected? A dependent of an *)
(* entity whose key the database generates can be inserted only when that    *)
(* key is known: when its principal has its row.                             *)
Accepted(rows, e) ==
  CASE state[e] = "Added" -> Fits(rows, e)
    [] state[e] = "Modified" -> e \in DOMAIN rows /\ Fits(rows, e)
    [] OTHER -> /\ e \in DOMAIN rows
                /\ shape.onDelete = "restrict" => Referring(rows, e) = {}

Effect(rows, e) ==
  IF state[e] = "Deleted" THEN Without(rows, e)
  ELSE [r \in DOMAIN rows \cup {e} |-> IF r = e THEN fk[e] ELSE rows[r]]

Statement == plan[written + 1]

Execute ==
  /\ phase = "executing"
  /\ written < Len(plan)
  /\ Accepted(db, Statement)
  /\ db' = Effect(db, Statement)
  /\ written' = written + 1
  /\ UNCHANGED <<shape, tracked, pending, plan, phase>>

(* An error rolls the transaction of the save back.                          *)
Refuse ==
  /\ phase = "executing"
  /\ written < Len(plan)
  /\ ~Accepted(db, Statement)
  /\ db' = [e \in Persisted |-> orig[e]]
  /\ phase' = "refused"
  /\ UNCHANGED <<shape, tracked, pending, plan, written>>

Commit ==
  /\ phase = "executing"
  /\ written = Len(plan)
  /\ phase' = "saved"
  /\ UNCHANGED <<shape, tracked, pending, plan, written, db>>

Next ==
  \/ Reject \/ Detect \/ Cascade \/ Cascaded
  \/ TakeReady \/ BreakCycle \/ Ordered
  \/ Execute \/ Refuse \/ Commit

Spec == Init /\ [][Next]_vars

-----------------------------------------------------------------------------
(* A sequence of statements, from the rows before the save.                  *)
RECURSIVE AllAccepted(_, _)
AllAccepted(rows, s) ==
  s = <<>> \/ (Accepted(rows, Head(s)) /\ AllAccepted(Effect(rows, Head(s)), Tail(s)))

(* The database refuses a save only when it would refuse the statements of   *)
(* the save in every order: the planned order is good enough.  The shapes    *)
(* have no optional one-to-one relationship, for which it is not: there the  *)
(* ordering takes two entities without a principal for rivals of one slot    *)
(* (one-to-one-ordering.ts:24-29).                                           *)
RefusedOnlyWhenHopeless ==
  phase = "refused" =>
    \A s \in SetToSeqs(Entries) : ~AllAccepted(db, s)

(* After a save the database holds the tracked entities that are left, each  *)
(* with the reference the tracker has for it: what the tracker did in memory *)
(* for the dependents of deleted entities is what the database did; all of   *)
(* it in a well-typed state.                                                 *)
StoreIsTheGraph ==
  /\ TypeOK
  /\ phase = "saved" => DOMAIN db = Live /\ \A e \in Live : db[e] = fk[e]

=============================================================================
