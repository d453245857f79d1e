---------------------------- MODULE OutboxProofs ----------------------------
(* Proofs about Outbox for any events, entities, number of saves and depth   *)
(* of transactions: the type invariant, that no event has two rows, and that *)
(* every event is pending or has its row.                                    *)
EXTENDS Outbox, SequenceTheorems, TLAPS

Scopes == [start: Nat, rows: SUBSET Rows]

(* The callbacks are divided among the open transactions in their order, and *)
(* a save that is planned has room in the bound.                             *)
Divided ==
  /\ Depth = 0 => callbacks = <<>>
  /\ Depth > 0 => scopes[1].start = 0
  /\ \A i \in 1..Depth : scopes[i].start <= Len(callbacks)
  /\ \A i, j \in 1..Depth : i <= j => scopes[i].start <= scopes[j].start
  /\ saving = "planned" => saves < MaxSaves

TInv == TypeOK /\ Divided

LEMMA Prefix ==
  ASSUME NEW S, NEW s \in Seq(S), NEW n \in 0..Len(s)
  PROVE  /\ SubSeq(s, 1, n) \in Seq(S)
         /\ Len(SubSeq(s, 1, n)) = n
         /\ \A i \in 1..n : SubSeq(s, 1, n)[i] = s[i]
  OBVIOUS

(* What the state of the transactions is, in one place.                      *)
LEMMA Typed ==
  ASSUME TypeOK
  PROVE  /\ Depth \in Nat
         /\ Len(callbacks) \in Nat
         /\ \A i \in 1..Depth : /\ scopes[i] \in Scopes
                                /\ scopes[i].start \in Nat
                                /\ scopes[i].rows \subseteq Rows
         /\ \A i \in 1..Len(callbacks) : callbacks[i] \subseteq Events
         /\ PlannedRows \subseteq Events \X {saves + 1}
         /\ saves \in Nat
<1>1. scopes \in Seq(Scopes) /\ callbacks \in Seq(SUBSET Events)
  BY DEF TypeOK, Scopes
<1>2. \A i \in 1..Depth : scopes[i] \in Scopes
  BY <1>1 DEF Depth
<1>3. \A i \in 1..Depth : scopes[i].start \in Nat /\ scopes[i].rows \subseteq Rows
  BY <1>2 DEF Scopes
<1>4. PlannedRows \subseteq Events \X {saves + 1}
  BY DEF PlannedRows, TypeOK
<1> QED BY <1>1, <1>2, <1>3, <1>4, BoundsAssumption DEF Depth, TypeOK

(* Undoing the innermost transaction takes its callbacks and its rows away.  *)
LEMMA UndoLists ==
  ASSUME TInv, Depth > 0, Undo(scopes[Depth].start)
  PROVE  /\ callbacks' \in Seq(SUBSET Events)
         /\ scopes' \in Seq(Scopes)
         /\ Depth' = Depth - 1
         /\ Len(callbacks') = scopes[Depth].start
         /\ \A i \in 1..Depth - 1 : scopes'[i] = scopes[i]
         /\ \A i \in 1..scopes[Depth].start : callbacks'[i] = callbacks[i]
<1>1. scopes \in Seq(Scopes) /\ callbacks \in Seq(SUBSET Events)
  BY DEF TypeOK, TInv, Scopes
<1>2. Depth \in Nat /\ Depth - 1 \in 0..Len(scopes) /\ Depth \in 1..Depth
  BY Typed DEF TInv, Depth
<1>3. scopes[Depth].start \in 0..Len(callbacks)
  BY <1>2, Typed DEF TInv, Divided
<1>4. /\ SubSeq(scopes, 1, Depth - 1) \in Seq(Scopes)
      /\ Len(SubSeq(scopes, 1, Depth - 1)) = Depth - 1
      /\ \A i \in 1..Depth - 1 : SubSeq(scopes, 1, Depth - 1)[i] = scopes[i]
  BY <1>1, <1>2, Prefix
<1>5. /\ SubSeq(callbacks, 1, scopes[Depth].start) \in Seq(SUBSET Events)
      /\ Len(SubSeq(callbacks, 1, scopes[Depth].start)) = scopes[Depth].start
      /\ \A i \in 1..scopes[Depth].start :
           SubSeq(callbacks, 1, scopes[Depth].start)[i] = callbacks[i]
  BY <1>1, <1>3, Prefix
<1> QED BY <1>4, <1>5 DEF Undo, Depth

(* A nested transaction that commits leaves its rows to the one around it.   *)
LEMMA NestedLists ==
  ASSUME TInv, CommitNested
  PROVE  /\ scopes' \in Seq(Scopes)
         /\ Depth' = Depth - 1
         /\ \A i \in 1..Depth - 1 : scopes'[i].start = scopes[i].start
         /\ \A i \in 1..Depth - 2 : scopes'[i].rows = scopes[i].rows
         /\ scopes'[Depth - 1].rows = scopes[Depth - 1].rows \cup scopes[Depth].rows
<1>1. Depth \in Nat /\ Depth > 1
  BY Typed DEF TInv, CommitNested
<1>2. \A i \in 1..Depth : /\ scopes[i] \in Scopes
                          /\ scopes[i].start \in Nat
                          /\ scopes[i].rows \subseteq Rows
  BY Typed DEF TInv
<1> DEFINE merged == [scopes[Depth - 1] EXCEPT !.rows = @ \cup scopes[Depth].rows]
<1>3. /\ merged \in Scopes
      /\ merged.start = scopes[Depth - 1].start
      /\ merged.rows = scopes[Depth - 1].rows \cup scopes[Depth].rows
  <2>1. Depth - 1 \in 1..Depth /\ Depth \in 1..Depth
    BY <1>1
  <2> QED BY <1>2, <2>1 DEF Scopes
<1>4. scopes' = [i \in 1..Depth - 1 |-> IF i = Depth - 1 THEN merged ELSE scopes[i]]
  <2>1. scopes' = [i \in 1..Depth - 1 |->
          IF i = Depth - 1
          THEN [scopes[i] EXCEPT !.rows = @ \cup scopes[Depth].rows]
          ELSE scopes[i]]
    BY DEF CommitNested
  <2> QED BY <2>1
<1> HIDE DEF merged
<1>5. scopes' \in [1..Depth - 1 -> Scopes]
  BY <1>1, <1>2, <1>3, <1>4
<1>6. scopes' \in Seq(Scopes) /\ Len(scopes') = Depth - 1
  BY <1>1, <1>5
<1> QED BY <1>1, <1>3, <1>4, <1>6 DEF Depth

(* A transaction that begins.                                                *)
LEMMA BeginLists ==
  ASSUME TInv, Begin
  PROVE  /\ scopes' \in Seq(Scopes)
         /\ Depth' = Depth + 1
         /\ \A i \in 1..Depth : scopes'[i] = scopes[i]
         /\ scopes'[Depth + 1].start = Len(callbacks)
         /\ scopes'[Depth + 1].rows = {}
<1>1. scopes \in Seq(Scopes) /\ [start |-> Len(callbacks), rows |-> {}] \in Scopes
  BY Typed DEF TInv, TypeOK, Scopes
<1>2. scopes' = Append(scopes, [start |-> Len(callbacks), rows |-> {}])
  BY DEF Begin
<1> QED BY <1>1, <1>2 DEF Depth

(* A save in a transaction.                                                  *)
LEMMA DeferredLists ==
  ASSUME TInv, SaveDeferred
  PROVE  /\ scopes' \in Seq(Scopes)
         /\ Depth' = Depth
         /\ callbacks' \in Seq(SUBSET Events)
         /\ Len(callbacks') = Len(callbacks) + 1
         /\ callbacks'[Len(callbacks) + 1] = plan
         /\ \A i \in 1..Len(callbacks) : callbacks'[i] = callbacks[i]
         /\ \A i \in 1..Depth : scopes'[i].start = scopes[i].start
         /\ \A i \in 1..Depth - 1 : scopes'[i].rows = scopes[i].rows
         /\ scopes'[Depth].rows = scopes[Depth].rows \cup PlannedRows
<1>1. scopes \in Seq(Scopes) /\ callbacks \in Seq(SUBSET Events) /\ plan \in SUBSET Events
  BY DEF TInv, TypeOK, Scopes
<1>2. Depth \in 1..Depth /\ Depth = Len(scopes) /\ Depth \in Nat
  BY Typed DEF TInv, SaveDeferred, Depth
<1>3. scopes[Depth] \in Scopes /\ PlannedRows \subseteq Rows
  <2>1. saves + 1 \in 1..MaxSaves
    BY BoundsAssumption DEF TInv, TypeOK, Divided, SaveDeferred
  <2> QED BY <1>1, <1>2, <2>1, Typed DEF TInv, PlannedRows, Rows
<1> DEFINE grown == [scopes[Depth] EXCEPT !.rows = @ \cup PlannedRows]
<1>4. /\ grown \in Scopes
      /\ grown.start = scopes[Depth].start
      /\ grown.rows = scopes[Depth].rows \cup PlannedRows
  BY <1>3 DEF Scopes
<1>5. scopes' = [scopes EXCEPT ![Depth] = grown]
  BY DEF SaveDeferred
<1> HIDE DEF grown
<1>6. scopes' \in Seq(Scopes) /\ Len(scopes') = Len(scopes)
  BY <1>1, <1>2, <1>4, <1>5
<1>7. \A i \in 1..Depth : scopes'[i] = IF i = Depth THEN grown ELSE scopes[i]
  BY <1>1, <1>2, <1>5
<1>8. callbacks' = Append(callbacks, plan)
  BY DEF SaveDeferred
<1>9. /\ callbacks' \in Seq(SUBSET Events)
      /\ Len(callbacks') = Len(callbacks) + 1
      /\ callbacks'[Len(callbacks) + 1] = plan
      /\ \A i \in 1..Len(callbacks) : callbacks'[i] = callbacks[i]
  BY <1>1, <1>8
<1> QED BY <1>2, <1>4, <1>6, <1>7, <1>9 DEF Depth

-----------------------------------------------------------------------------
LEMMA TypeInit == Init => TInv
<1> SUFFICES ASSUME Init PROVE TInv
  OBVIOUS
<1>1. Depth = 0
  BY DEF Init, Depth
<1> QED BY <1>1, BoundsAssumption DEF Init, TInv, TypeOK, Divided

LEMMA TypeNext == TInv /\ [Next]_vars => TInv'
<1> SUFFICES ASSUME TInv, [Next]_vars PROVE TInv'
  OBVIOUS
<1> USE BoundsAssumption DEF TInv
<1>0. /\ Depth \in Nat /\ Len(callbacks) \in Nat /\ saves \in Nat
      /\ \A i \in 1..Depth : scopes[i].start \in Nat
  BY Typed
<1>1. ASSUME UNCHANGED <<callbacks, scopes>>, TypeOK',
             saving' = "planned" => saves' < MaxSaves
      PROVE  TInv'
  BY <1>1 DEF Divided, Depth
<1>2. ASSUME NEW e \in Events, Raise(e) PROVE TInv'
  BY <1>1, <1>2 DEF Raise, calls, TypeOK, Divided
<1>3. CASE Plan
  BY <1>1, <1>3 DEF Plan, Pending, TypeOK
<1>4. CASE SaveDeferred
  <2>1. saves' \in 0..MaxSaves
    BY <1>0, <1>4 DEF SaveDeferred, TypeOK, Divided
  <2>2. TypeOK'
    BY <1>4, <2>1, DeferredLists DEF SaveDeferred, TypeOK, Scopes
  <2>3. Depth > 0 /\ saving' = "idle"
    BY <1>4 DEF SaveDeferred
  <2>4. /\ Depth' = Depth /\ Len(callbacks') = Len(callbacks) + 1
        /\ \A i \in 1..Depth : scopes'[i].start = scopes[i].start
    BY <1>4, DeferredLists
  <2>5. \A i \in 1..Depth : scopes'[i].start <= Len(callbacks')
    BY <1>0, <2>4 DEF Divided
  <2>6. scopes'[1].start = 0
    BY <1>0, <2>3, <2>4 DEF Divided
  <2> QED
    BY <1>0, <2>2, <2>3, <2>4, <2>5, <2>6 DEF Divided
<1>5. CASE SaveCommitted
  <2>1. PlannedRows \subseteq Rows /\ saves' \in 0..MaxSaves
    <3>1. saves + 1 \in 1..MaxSaves
      BY <1>0, <1>5 DEF SaveCommitted, Divided, TypeOK
    <3> QED BY <1>5, <3>1 DEF SaveCommitted, TypeOK, PlannedRows, Rows
  <2>2. Batches(plan) \subseteq SUBSET Events
    BY DEF Batches, TypeOK
  <2>3. TypeOK'
    BY <1>5, <2>1, <2>2 DEF SaveCommitted, TypeOK
  <2> QED BY <1>1, <1>5, <2>3 DEF SaveCommitted
<1>6. CASE SaveFails
  BY <1>0, <1>1, <1>6 DEF SaveFails, TypeOK, Divided
<1>7. CASE SaveIsUnknown
  <2>1. PlannedRows \subseteq Rows /\ saves' \in 0..MaxSaves
    <3>1. saves + 1 \in 1..MaxSaves
      BY <1>0, <1>7 DEF SaveIsUnknown, Divided, TypeOK
    <3> QED BY <1>7, <3>1 DEF SaveIsUnknown, TypeOK, PlannedRows, Rows
  <2>2. TypeOK'
    BY <1>7, <2>1 DEF SaveIsUnknown, TypeOK
  <2> QED BY <1>1, <1>7, <2>2 DEF SaveIsUnknown
<1>8. CASE SaveReturns
  BY <1>1, <1>8 DEF SaveReturns, TypeOK
<1>9. CASE Begin
  <2>1. TypeOK'
    BY <1>9, BeginLists DEF Begin, calls, TypeOK, Scopes
  <2>2. callbacks' = callbacks /\ saving' = saving /\ saves' = saves
    BY <1>9 DEF Begin, calls
  <2>3. \A i \in 1..Depth + 1 :
          scopes'[i].start = IF i = Depth + 1 THEN Len(callbacks) ELSE scopes[i].start
    BY <1>0, <1>9, BeginLists
  <2>4. scopes'[1].start = 0
    BY <1>0, <2>3 DEF Divided
  <2> QED BY <1>0, <1>9, <2>1, <2>2, <2>3, <2>4, BeginLists DEF Divided
<1>10. CASE CommitNested
  <2>1. TypeOK'
    BY <1>10, NestedLists DEF CommitNested, calls, TypeOK, Scopes
  <2>2. /\ Depth > 1 /\ callbacks' = callbacks /\ saving' = saving
        /\ saves' = saves /\ Depth' = Depth - 1
        /\ \A i \in 1..Depth - 1 : scopes'[i].start = scopes[i].start
    BY <1>10, NestedLists DEF CommitNested, calls
  <2> QED BY <1>0, <2>1, <2>2 DEF Divided
<1>11. CASE CommitRoot
  <2>1. scopes[1].rows \subseteq Rows
    BY <1>11, Typed DEF CommitRoot
  <2>2. \A i \in DOMAIN callbacks : Batches(callbacks[i]) \subseteq SUBSET Events
    BY Typed DEF Batches, TypeOK
  <2>3. clearing' \subseteq SUBSET Events
    BY <1>11, <2>2 DEF CommitRoot, TypeOK
  <2>4. Depth' = 0 /\ saving' # "planned" /\ callbacks' = <<>>
    BY <1>11 DEF CommitRoot, Depth, Ends
  <2>5. TypeOK'
    <3>1. scopes' = <<>> /\ callbacks' = <<>> /\ durable' \subseteq Rows
      BY <1>11, <2>1 DEF CommitRoot, TypeOK
    <3>2. /\ scopes' \in Seq([start: Nat, rows: SUBSET Rows])
          /\ callbacks' \in Seq(SUBSET Events)
      BY <3>1
    <3> QED BY <1>11, <2>3, <3>1, <3>2 DEF CommitRoot, TypeOK
  <2> QED BY <2>4, <2>5 DEF Divided
<1>12. ASSUME Depth > 0, Undo(scopes[Depth].start), durable' \subseteq Rows,
              usable' \in BOOLEAN, saving # "planned",
              UNCHANGED <<raised, queue, saving, plan, clearing, saves>>
       PROVE  TInv'
  <2>1. TypeOK'
    <3>1. deferred' \subseteq Events
      BY <1>12 DEF Undo, TypeOK
    <3> QED BY <1>12, <3>1, UndoLists DEF TypeOK, Scopes
  <2>2. /\ Depth' = Depth - 1
        /\ Len(callbacks') = scopes[Depth].start
        /\ \A i \in 1..Depth - 1 : scopes'[i] = scopes[i]
    BY <1>12, UndoLists
  <2>3. Depth' = 0 => callbacks' = <<>>
    <3> SUFFICES ASSUME Depth' = 0 PROVE callbacks' = <<>>
      OBVIOUS
    <3>1. Len(callbacks') = 0
      BY <1>0, <1>12, <2>2 DEF Divided
    <3> QED BY <2>1, <3>1 DEF TypeOK
  <2>4. saving' # "planned"
    BY <1>12
  <2>5. \A i \in 1..Depth - 1 : scopes'[i].start <= Len(callbacks')
    <3> SUFFICES ASSUME NEW i \in 1..Depth - 1
                 PROVE  scopes'[i].start <= Len(callbacks')
      OBVIOUS
    <3>1. i \in 1..Depth /\ Depth \in 1..Depth /\ i <= Depth
      BY <1>0, <1>12
    <3> QED BY <2>2, <3>1 DEF Divided
  <2>6. \A i, j \in 1..Depth - 1 : i <= j => scopes'[i].start <= scopes'[j].start
    BY <1>0, <2>2 DEF Divided
  <2>7. Depth' > 0 => scopes'[1].start = 0
    BY <1>0, <2>2 DEF Divided
  <2> QED BY <1>0, <2>1, <2>2, <2>3, <2>4, <2>5, <2>6, <2>7 DEF Divided
<1>13. CASE Rollback
  BY <1>12, <1>13 DEF Rollback, Ends, calls, TypeOK
<1>14. CASE CommitIsUnknown
  <2>1. scopes[1].rows \subseteq Rows
    BY <1>14, Typed DEF CommitIsUnknown
  <2>2. durable' \subseteq Rows
    BY <1>14, <2>1 DEF CommitIsUnknown, TypeOK
  <2>3. Undo(scopes[Depth].start)
    BY <1>14 DEF CommitIsUnknown
  <2> QED BY <1>12, <1>14, <2>2, <2>3 DEF CommitIsUnknown, Ends
<1>15. ASSUME NEW batch \in clearing, Clear(batch) PROVE TInv'
  <2>1. TypeOK'
    BY <1>15 DEF Clear, TypeOK
  <2> QED BY <1>1, <1>15, <2>1 DEF Clear, Divided
<1>16. ASSUME NEW batch \in clearing, ClearFails(batch) PROVE TInv'
  <2>1. TypeOK'
    BY <1>16 DEF ClearFails, TypeOK
  <2> QED BY <1>1, <1>16, <2>1 DEF ClearFails, Divided
<1>17. CASE UNCHANGED vars
  BY <1>1, <1>17 DEF vars, calls, TypeOK, Divided
<1> QED
  BY <1>2, <1>3, <1>4, <1>5, <1>6, <1>7, <1>8, <1>9, <1>10, <1>11, <1>13, <1>14,
     <1>15, <1>16, <1>17
  DEF Next

(* The state stays well typed, whatever the bounds.                          *)
THEOREM TypeCorrect == Spec => []TypeOK
<1>1. Spec => []TInv
  BY TypeInit, TypeNext, PTL DEF Spec
<1>2. TInv => TypeOK
  BY DEF TInv
<1> QED BY <1>1, <1>2, PTL

-----------------------------------------------------------------------------
(* The callbacks of the i-th transaction end where those of the next begin.  *)
End(i) == IF i = Depth THEN Len(callbacks) ELSE scopes[i + 1].start

(* The rows of an open transaction are those of its callbacks.               *)
RowsAreCallbacks ==
  \A i \in 1..Depth :
    EventsOf(scopes[i].rows) = UNION {callbacks[k] : k \in scopes[i].start + 1..End(i)}

(* A row is in one transaction, or committed.                                *)
Apart ==
  /\ \A i \in 1..Depth : scopes[i].rows \cap durable = {}
  /\ \A i, j \in 1..Depth : i # j => scopes[i].rows \cap scopes[j].rows = {}

(* What is remembered has a row, and what has a row is remembered until it   *)
(* has left its entity.                                                      *)
Remembered ==
  usable => /\ deferred \subseteq EventsOf(Written)
            /\ queue \cap EventsOf(Written) \subseteq deferred

(* The plan stays good until it is executed.                                 *)
PlanIsPending == saving = "planned" => usable /\ plan \subseteq Pending

RaisedBefore == EventsOf(Written) \subseteq raised

ClearsDurable == \A batch \in clearing : batch \subseteq EventsOf(durable)

IInv ==
  /\ TInv /\ RowsAreCallbacks /\ Apart /\ Remembered /\ PlanIsPending
  /\ RaisedBefore /\ ClearsDurable /\ WrittenOnce /\ NoEventIsLost

LEMMA EventsOfUnion ==
  \A A, B : EventsOf(A \cup B) = EventsOf(A) \cup EventsOf(B)
  BY DEF EventsOf

LEMMA IsWritten ==
  ASSUME TypeOK
  PROVE  \A row : row \in Written <=>
           row \in durable \/ \E i \in 1..Depth : row \in scopes[i].rows
<1>1. DOMAIN scopes = 1..Depth
  BY DEF TypeOK, Depth
<1> QED BY <1>1 DEF Written

(* The rows of a plan are new, and are of its events.                        *)
LEMMA PlannedAreNew ==
  ASSUME IInv, saving = "planned"
  PROVE  /\ EventsOf(PlannedRows) = plan
         /\ plan \cap EventsOf(Written) = {}
         /\ PlannedRows \cap Written = {}
         /\ \A r1, r2 \in PlannedRows : r1[1] = r2[1] => r1 = r2
         /\ usable
<1>1. EventsOf(PlannedRows) = plan
  <2>1. \A row \in PlannedRows : row[1] \in plan
    BY DEF PlannedRows
  <2>2. \A e \in plan : <<e, saves + 1>> \in PlannedRows /\ <<e, saves + 1>>[1] = e
    BY DEF PlannedRows
  <2> QED BY <2>1, <2>2 DEF EventsOf
<1>2. usable /\ plan \subseteq queue /\ plan \cap deferred = {}
  BY DEF IInv, PlanIsPending, Pending
<1>3. plan \cap EventsOf(Written) = {}
  BY <1>2 DEF IInv, Remembered
<1>4. PlannedRows \cap Written = {}
  BY <1>1, <1>3 DEF EventsOf
<1>5. \A r1, r2 \in PlannedRows : r1[1] = r2[1] => r1 = r2
  BY DEF PlannedRows
<1> QED BY <1>1, <1>2, <1>3, <1>4, <1>5

LEMMA OnceShrinks ==
  ASSUME WrittenOnce, Written' \subseteq Written
  PROVE  WrittenOnce'
  BY DEF WrittenOnce

LEMMA OnceGrows ==
  ASSUME IInv, saving = "planned", Written' \subseteq Written \cup PlannedRows
  PROVE  WrittenOnce'
<1> SUFFICES ASSUME NEW r1 \in Written', NEW r2 \in Written', r1[1] = r2[1]
             PROVE  r1 = r2
  BY DEF WrittenOnce
<1>1. CASE r1 \in Written /\ r2 \in Written
  BY <1>1 DEF IInv, WrittenOnce
<1>2. CASE r1 \in PlannedRows /\ r2 \in PlannedRows
  BY <1>2, PlannedAreNew
<1>3. ASSUME NEW r \in Written, NEW p \in PlannedRows PROVE r[1] # p[1]
  BY <1>3, PlannedAreNew DEF EventsOf
<1>4. /\ r1 \in Written \/ r1 \in PlannedRows
      /\ r2 \in Written \/ r2 \in PlannedRows
  OBVIOUS
<1>5. CASE r1 \in Written /\ r2 \in PlannedRows
  BY <1>3, <1>5
<1>6. CASE r1 \in PlannedRows /\ r2 \in Written
  BY <1>3, <1>6
<1> QED BY <1>1, <1>2, <1>4, <1>5, <1>6

(* A step that leaves the transactions and the committed rows alone.         *)
LEMMA QuietRows ==
  ASSUME IInv, UNCHANGED <<callbacks, scopes, durable>>
  PROVE  /\ RowsAreCallbacks' /\ Apart' /\ WrittenOnce'
         /\ Written' = Written
  BY DEF IInv, RowsAreCallbacks, Apart, WrittenOnce, Written, End, Depth

-----------------------------------------------------------------------------
LEMMA DurableIsWritten == EventsOf(durable) \subseteq EventsOf(Written)
  BY DEF EventsOf, Written

(* The application queues an event.                                          *)
LEMMA RaiseKeeps ==
  ASSUME IInv, NEW e \in Events, Raise(e), TInv'
  PROVE  IInv'
<1>1. UNCHANGED <<callbacks, scopes, durable, deferred, clearing, plan, saving, usable>>
  BY DEF Raise, calls
<1>2. /\ raised' = raised \cup {e} /\ queue' = queue \cup {e} /\ e \notin raised
      /\ EventsOf(durable)' = EventsOf(durable)
  BY <1>1 DEF Raise, EventsOf
<1>3. /\ RowsAreCallbacks' /\ Apart' /\ WrittenOnce' /\ Written' = Written
      /\ EventsOf(Written)' = EventsOf(Written)
  BY <1>1, QuietRows DEF EventsOf
<1>4. e \notin EventsOf(Written)
  BY <1>2 DEF IInv, RaisedBefore
<1>5. usable => e \notin deferred
  BY <1>4 DEF IInv, Remembered
<1>6. Remembered' /\ RaisedBefore' /\ ClearsDurable'
  BY <1>1, <1>2, <1>3, <1>4 DEF IInv, Remembered, RaisedBefore, ClearsDurable
<1>7. PlanIsPending'
  BY <1>1, <1>2 DEF IInv, PlanIsPending, Pending
<1>8. NoEventIsLost'
  BY <1>1, <1>2, <1>3, <1>5 DEF IInv, NoEventIsLost, Pending
<1> QED BY <1>3, <1>6, <1>7, <1>8 DEF IInv

(* Steps of a save that write nothing.                                       *)
LEMMA PlanKeeps ==
  ASSUME IInv, TInv',
         UNCHANGED <<raised, queue, deferred, callbacks, scopes, durable,
                     clearing, usable>>,
         saving' = "planned" => usable' /\ plan' \subseteq Pending
  PROVE  IInv'
<1>1. /\ RowsAreCallbacks' /\ Apart' /\ WrittenOnce' /\ Written' = Written
      /\ EventsOf(Written)' = EventsOf(Written)
      /\ EventsOf(durable)' = EventsOf(durable)
  BY QuietRows DEF EventsOf
<1>2. Remembered' /\ RaisedBefore' /\ ClearsDurable' /\ NoEventIsLost'
  BY <1>1 DEF IInv, Remembered, RaisedBefore, ClearsDurable, NoEventIsLost, Pending
<1>3. PlanIsPending'
  BY DEF PlanIsPending, Pending
<1> QED BY <1>1, <1>2, <1>3 DEF IInv

(* A save whose rows are written, wherever they go.                          *)
LEMMA WriteKeeps ==
  ASSUME IInv, saving = "planned", saving' # "planned",
         Written' = Written \cup PlannedRows,
         durable \subseteq durable',
         deferred' = deferred \cup plan,
         UNCHANGED <<raised, queue>>
  PROVE  WrittenOnce' /\ Remembered' /\ PlanIsPending' /\ RaisedBefore' /\ NoEventIsLost'
<1>1. EventsOf(Written)' = EventsOf(Written) \cup plan
  <2>1. EventsOf(Written)' = EventsOf(Written \cup PlannedRows)
    BY DEF EventsOf
  <2> QED BY <2>1, EventsOfUnion, PlannedAreNew
<1>2. plan \subseteq queue /\ plan \cap deferred = {} /\ usable
  BY DEF IInv, PlanIsPending, Pending
<1>3. EventsOf(durable) \subseteq EventsOf(durable)'
  BY DEF EventsOf
<1>4. WrittenOnce'
  BY OnceGrows
<1>5. Remembered'
  BY <1>1, <1>2 DEF IInv, Remembered
<1>6. RaisedBefore'
  BY <1>1, <1>2 DEF IInv, RaisedBefore, TInv, TypeOK
<1>7. NoEventIsLost'
  BY <1>1, <1>2, <1>3 DEF IInv, NoEventIsLost, Pending
<1> QED BY <1>4, <1>5, <1>6, <1>7 DEF PlanIsPending

LEMMA CommittedKeeps ==
  ASSUME IInv, SaveCommitted, TInv'
  PROVE  IInv'
<1>1. /\ saving = "planned" /\ saving' = "clearing" /\ Depth = 0
      /\ durable' = durable \cup PlannedRows
      /\ deferred' = deferred \cup plan
      /\ clearing' = clearing \cup Batches(plan)
      /\ UNCHANGED <<raised, queue, callbacks, scopes>>
  BY DEF SaveCommitted
<1>2. Written' = Written \cup PlannedRows
  BY <1>1 DEF Written
<1>3. WrittenOnce' /\ Remembered' /\ PlanIsPending' /\ RaisedBefore' /\ NoEventIsLost'
  BY <1>1, <1>2, WriteKeeps
<1>4. RowsAreCallbacks' /\ Apart'
  <2>1. Depth' = 0
    BY <1>1 DEF Depth
  <2> QED BY <2>1 DEF RowsAreCallbacks, Apart
<1>5. EventsOf(durable)' = EventsOf(durable) \cup plan
  <2>1. EventsOf(durable)' = EventsOf(durable \cup PlannedRows)
    BY <1>1 DEF EventsOf
  <2> QED BY <1>1, <2>1, EventsOfUnion, PlannedAreNew
<1>6. ClearsDurable'
  <2>1. \A batch \in Batches(plan) : batch \subseteq plan
    BY DEF Batches
  <2> QED BY <1>1, <1>5, <2>1 DEF IInv, ClearsDurable
<1> QED BY <1>3, <1>4, <1>6 DEF IInv

(* The rows and the callbacks of a save go to the innermost transaction.     *)
LEMMA DeferredKeeps ==
  ASSUME IInv, SaveDeferred, TInv'
  PROVE  IInv'
<1>1. /\ saving = "planned" /\ saving' = "idle" /\ Depth > 0
      /\ deferred' = deferred \cup plan
      /\ UNCHANGED <<raised, queue, durable, clearing, usable>>
  BY DEF SaveDeferred
<1>2. /\ Depth \in Nat /\ Len(callbacks) \in Nat
      /\ \A i \in 1..Depth : scopes[i].start \in Nat /\ scopes[i].start <= Len(callbacks)
  BY Typed DEF IInv, TInv, Divided
<1>3. TInv /\ TypeOK /\ TypeOK'
  BY DEF IInv, TInv
<1>4. /\ Depth' = Depth /\ Len(callbacks') = Len(callbacks) + 1
      /\ callbacks'[Len(callbacks) + 1] = plan
      /\ \A i \in 1..Len(callbacks) : callbacks'[i] = callbacks[i]
      /\ \A i \in 1..Depth : scopes'[i].start = scopes[i].start
      /\ \A i \in 1..Depth - 1 : scopes'[i].rows = scopes[i].rows
      /\ scopes'[Depth].rows = scopes[Depth].rows \cup PlannedRows
  BY <1>3, DeferredLists
<1>5. \A i \in 1..Depth :
        scopes'[i].rows = scopes[i].rows \cup IF i = Depth THEN PlannedRows ELSE {}
  BY <1>2, <1>4
<1>6. Written' = Written \cup PlannedRows
  <2>1. \A row : row \in Written' <=>
          row \in durable' \/ \E i \in 1..Depth' : row \in scopes'[i].rows
    <3>1. DOMAIN scopes' = 1..Depth'
      BY <1>3 DEF TypeOK, Depth
    <3> QED BY <3>1 DEF Written
  <2>2. \A row : row \in Written' <=>
          row \in durable \/ \E i \in 1..Depth : row \in scopes'[i].rows
    BY <1>1, <1>4, <2>1
  <2>3. \A row \in Written' : row \in Written \cup PlannedRows
    BY <1>3, <1>5, <2>2, IsWritten
  <2>4. \A row \in Written : row \in Written'
    BY <1>3, <1>5, <2>2, IsWritten
  <2>5. Depth \in 1..Depth /\ PlannedRows \subseteq scopes'[Depth].rows
    BY <1>1, <1>2, <1>4
  <2>6. \A row \in PlannedRows : row \in Written'
    BY <2>2, <2>5
  <2> QED BY <2>3, <2>4, <2>6
<1>7. WrittenOnce' /\ Remembered' /\ PlanIsPending' /\ RaisedBefore' /\ NoEventIsLost'
  BY <1>1, <1>6, WriteKeeps
<1>8. RowsAreCallbacks'
  <2> SUFFICES ASSUME NEW i \in 1..Depth
               PROVE  EventsOf(scopes'[i].rows)
                        = UNION {callbacks'[k] : k \in scopes'[i].start + 1..End(i)'}
    BY <1>4 DEF RowsAreCallbacks, EventsOf
  <2>1. EventsOf(scopes[i].rows)
          = UNION {callbacks[k] : k \in scopes[i].start + 1..End(i)}
    BY DEF IInv, RowsAreCallbacks
  <2>2. CASE i # Depth
    <3>1. i \in 1..Depth - 1 /\ i + 1 \in 1..Depth
      BY <1>2, <2>2
    <3>2. End(i)' = End(i) /\ End(i) = scopes[i + 1].start
      BY <1>4, <2>2, <3>1 DEF End
    <3> DEFINE first == scopes[i].start
               last == End(i)
    <3>5. first \in Nat /\ last \in Nat /\ last <= Len(callbacks)
      BY <1>2, <3>1, <3>2
    <3> HIDE DEF first, last
    <3>6. \A k \in first + 1..last : callbacks'[k] = callbacks[k]
      BY <1>2, <1>4, <3>5
    <3>3. \A k \in scopes[i].start + 1..End(i) : callbacks'[k] = callbacks[k]
      BY <3>6 DEF first, last
    <3>4. scopes'[i].rows = scopes[i].rows /\ scopes'[i].start = scopes[i].start
      BY <1>4, <3>1
    <3> QED BY <2>1, <3>2, <3>3, <3>4
  <2>3. CASE i = Depth
    <3>1. End(i) = Len(callbacks) /\ End(i)' = Len(callbacks) + 1
      BY <1>4, <2>3 DEF End
    <3>2. EventsOf(scopes'[i].rows) = EventsOf(scopes[i].rows) \cup plan
      BY <1>1, <1>4, <2>3, EventsOfUnion, PlannedAreNew
    <3>3. \A k : k \in scopes[i].start + 1..Len(callbacks) + 1 <=>
                 k \in scopes[i].start + 1..Len(callbacks) \/ k = Len(callbacks) + 1
      BY <1>2
    <3>4. \A k \in scopes[i].start + 1..Len(callbacks) : callbacks'[k] = callbacks[k]
      BY <1>2, <1>4
    <3>5. UNION {callbacks'[k] : k \in scopes[i].start + 1..Len(callbacks) + 1}
            = (UNION {callbacks[k] : k \in scopes[i].start + 1..Len(callbacks)}) \cup plan
      <4>1. \A e : e \in UNION {callbacks'[k] : k \in scopes[i].start + 1..Len(callbacks) + 1}
                <=> \/ \E k \in scopes[i].start + 1..Len(callbacks) : e \in callbacks'[k]
                    \/ e \in callbacks'[Len(callbacks) + 1]
        BY <3>3
      <4>2. \A e : e \in UNION {callbacks[k] : k \in scopes[i].start + 1..Len(callbacks)}
                <=> \E k \in scopes[i].start + 1..Len(callbacks) : e \in callbacks[k]
        OBVIOUS
      <4> QED BY <1>4, <3>4, <4>1, <4>2
    <3>6. scopes'[i].start = scopes[i].start
      BY <1>4
    <3>7. EventsOf(scopes[i].rows)
            = UNION {callbacks[k] : k \in scopes[i].start + 1..Len(callbacks)}
      BY <2>1, <3>1
    <3> QED BY <3>1, <3>2, <3>5, <3>6, <3>7
  <2> QED BY <2>2, <2>3
<1>9. Apart'
  <2>1. \A i \in 1..Depth : scopes[i].rows \cap PlannedRows = {}
    BY <1>1, <1>3, IsWritten, PlannedAreNew
  <2>2. durable \cap PlannedRows = {}
    BY <1>1, <1>3, IsWritten, PlannedAreNew
  <2>3. \A i \in 1..Depth : scopes'[i].rows \cap durable = {}
    BY <1>5, <2>2 DEF IInv, Apart
  <2>4. \A i, j \in 1..Depth : i # j => scopes'[i].rows \cap scopes'[j].rows = {}
    BY <1>5, <2>1 DEF IInv, Apart
  <2> QED BY <1>1, <1>4, <2>3, <2>4 DEF Apart
<1>10. ClearsDurable'
  BY <1>1 DEF IInv, ClearsDurable, EventsOf
<1> QED BY <1>7, <1>8, <1>9, <1>10 DEF IInv

(* The outcome of the commit of a save is unknown.                           *)
LEMMA UnknownSaveKeeps ==
  ASSUME IInv, SaveIsUnknown, TInv'
  PROVE  IInv'
<1>1. /\ saving = "planned" /\ saving' = "idle" /\ Depth = 0 /\ usable' = FALSE
      /\ durable \subseteq durable' /\ durable' \subseteq durable \cup PlannedRows
      /\ UNCHANGED <<raised, queue, deferred, callbacks, scopes, clearing>>
  BY DEF SaveIsUnknown
<1>2. Written' \subseteq Written \cup PlannedRows
  BY <1>1 DEF Written
<1>3. EventsOf(Written)' \subseteq EventsOf(Written) \cup plan
  <2>1. EventsOf(Written)' \subseteq EventsOf(Written \cup PlannedRows)
    BY <1>2 DEF EventsOf
  <2> QED BY <1>1, <2>1, EventsOfUnion, PlannedAreNew
<1>4. plan \subseteq raised
  BY <1>1 DEF IInv, PlanIsPending, Pending, TInv, TypeOK
<1>5. EventsOf(durable) \subseteq EventsOf(durable)'
  BY <1>1 DEF EventsOf
<1>6. RowsAreCallbacks' /\ Apart'
  <2>1. Depth' = 0
    BY <1>1 DEF Depth
  <2> QED BY <2>1 DEF RowsAreCallbacks, Apart
<1>7. WrittenOnce'
  BY <1>1, <1>2, OnceGrows
<1>8. RaisedBefore'
  BY <1>1, <1>3, <1>4 DEF IInv, RaisedBefore
<1>9. ClearsDurable' /\ NoEventIsLost'
  BY <1>1, <1>5 DEF IInv, ClearsDurable, NoEventIsLost
<1> QED BY <1>1, <1>6, <1>7, <1>8, <1>9 DEF IInv, Remembered, PlanIsPending

-----------------------------------------------------------------------------
(* A step that only moves rows between the transactions and the database.    *)
LEMMA MoveKeeps ==
  ASSUME IInv, Written' = Written, saving # "planned",
         durable \subseteq durable',
         UNCHANGED <<raised, queue, deferred, saving, usable>>
  PROVE  WrittenOnce' /\ Remembered' /\ PlanIsPending' /\ RaisedBefore' /\ NoEventIsLost'
<1>1. EventsOf(Written)' = EventsOf(Written)
  BY DEF EventsOf
<1>2. EventsOf(durable) \subseteq EventsOf(durable)'
  BY DEF EventsOf
<1>3. WrittenOnce'
  BY OnceShrinks DEF IInv
<1>4. Remembered' /\ RaisedBefore' /\ NoEventIsLost'
  BY <1>1, <1>2 DEF IInv, Remembered, RaisedBefore, NoEventIsLost, Pending
<1> QED BY <1>3, <1>4 DEF PlanIsPending

LEMMA WrittenNext ==
  ASSUME TypeOK'
  PROVE  \A row : row \in Written' <=>
           row \in durable' \/ \E i \in 1..Depth' : row \in scopes'[i].rows
<1>1. DOMAIN scopes' = 1..Depth'
  BY DEF TypeOK, Depth
<1> QED BY <1>1 DEF Written

LEMMA BeginKeeps ==
  ASSUME IInv, Begin, TInv'
  PROVE  IInv'
<1>1. /\ saving # "planned"
      /\ UNCHANGED <<raised, queue, deferred, callbacks, durable, saving, plan,
                     clearing, usable, saves>>
  BY DEF Begin, calls
<1>2. /\ TInv /\ TypeOK /\ TypeOK' /\ Depth \in Nat /\ Len(callbacks) \in Nat
  BY Typed DEF IInv, TInv
<1>3. /\ Depth' = Depth + 1
      /\ \A i \in 1..Depth : scopes'[i] = scopes[i]
      /\ scopes'[Depth + 1].start = Len(callbacks)
      /\ scopes'[Depth + 1].rows = {}
  BY <1>2, BeginLists
<1>4. \A i : i \in 1..Depth + 1 <=> i \in 1..Depth \/ i = Depth + 1
  BY <1>2
<1>5. Written' = Written
  BY <1>1, <1>2, <1>3, <1>4, IsWritten, WrittenNext
<1>6. WrittenOnce' /\ Remembered' /\ PlanIsPending' /\ RaisedBefore' /\ NoEventIsLost'
  BY <1>1, <1>5, MoveKeeps
<1>7. RowsAreCallbacks'
  <2>0. Depth' = Depth + 1 /\ callbacks' = callbacks
    BY <1>1, <1>3
  <2> SUFFICES ASSUME NEW i \in 1..Depth'
               PROVE  EventsOf(scopes'[i].rows)
                        = UNION {callbacks'[k] : k \in scopes'[i].start + 1..End(i)'}
    BY DEF RowsAreCallbacks, EventsOf
  <2>1. CASE i = Depth + 1
    <3>1. End(i)' = Len(callbacks)
      BY <1>1, <1>3, <2>1 DEF End
    <3>2. scopes'[i].start + 1..End(i)' = {}
      BY <1>2, <1>3, <2>1, <3>1
    <3> QED BY <1>3, <2>1, <3>2 DEF EventsOf
  <2>2. CASE i \in 1..Depth
    <3>1. End(i)' = End(i)
      <4>1. CASE i = Depth
        BY <1>2, <1>3, <4>1 DEF End
      <4>2. CASE i # Depth
        <5>1. i + 1 \in 1..Depth /\ i # Depth + 1
          BY <1>2, <2>2, <4>2
        <5> QED BY <1>3, <4>2, <5>1 DEF End
      <4> QED BY <4>1, <4>2
    <3> QED BY <1>3, <2>0, <2>2, <3>1 DEF IInv, RowsAreCallbacks
  <2> QED BY <1>4, <2>0, <2>1, <2>2
<1>8. Apart'
  <2>1. \A i \in 1..Depth + 1 :
          scopes'[i].rows = {} \/ (i \in 1..Depth /\ scopes'[i].rows = scopes[i].rows)
    BY <1>3, <1>4
  <2>2. \A i \in 1..Depth + 1 : scopes'[i].rows \cap durable = {}
    BY <2>1 DEF IInv, Apart
  <2>3. \A i, j \in 1..Depth + 1 : i # j => scopes'[i].rows \cap scopes'[j].rows = {}
    BY <2>1 DEF IInv, Apart
  <2> QED BY <1>1, <1>3, <2>2, <2>3 DEF Apart
<1>9. ClearsDurable'
  BY <1>1 DEF IInv, ClearsDurable, EventsOf
<1> QED BY <1>6, <1>7, <1>8, <1>9 DEF IInv

LEMMA NestedKeeps ==
  ASSUME IInv, CommitNested, TInv'
  PROVE  IInv'
<1>1. /\ saving # "planned" /\ Depth > 1
      /\ UNCHANGED <<raised, queue, deferred, callbacks, durable, saving, plan,
                     clearing, usable, saves>>
  BY DEF CommitNested, Ends, calls
<1>2. /\ TInv /\ TypeOK /\ TypeOK' /\ Depth \in Nat /\ Len(callbacks) \in Nat
      /\ \A i \in 1..Depth : scopes[i].start \in Nat /\ scopes[i].start <= Len(callbacks)
      /\ \A i, j \in 1..Depth : i <= j => scopes[i].start <= scopes[j].start
  BY Typed DEF IInv, TInv, Divided
<1>3. /\ Depth' = Depth - 1
      /\ \A i \in 1..Depth - 1 : scopes'[i].start = scopes[i].start
      /\ \A i \in 1..Depth - 2 : scopes'[i].rows = scopes[i].rows
      /\ scopes'[Depth - 1].rows = scopes[Depth - 1].rows \cup scopes[Depth].rows
  BY <1>2, NestedLists
<1>4. /\ Depth - 1 \in 1..Depth /\ Depth \in 1..Depth /\ Depth - 1 \in 1..Depth - 1
      /\ \A i : i \in 1..Depth - 1 <=> i \in 1..Depth - 2 \/ i = Depth - 1
      /\ \A i : i \in 1..Depth <=> i \in 1..Depth - 2 \/ i = Depth - 1 \/ i = Depth
  BY <1>1, <1>2
<1>5. Written' = Written
  <2>1. \A row : row \in Written' <=>
          row \in durable \/ \E i \in 1..Depth - 1 : row \in scopes'[i].rows
    BY <1>1, <1>2, <1>3, WrittenNext
  <2> QED BY <1>2, <1>3, <1>4, <2>1, IsWritten
<1>6. WrittenOnce' /\ Remembered' /\ PlanIsPending' /\ RaisedBefore' /\ NoEventIsLost'
  BY <1>1, <1>5, MoveKeeps
<1>7. RowsAreCallbacks'
  <2> SUFFICES ASSUME NEW i \in 1..Depth - 1
               PROVE  EventsOf(scopes'[i].rows)
                        = UNION {callbacks[k] : k \in scopes'[i].start + 1..End(i)'}
    BY <1>1, <1>3 DEF RowsAreCallbacks, EventsOf
  <2>1. CASE i # Depth - 1
    <3>1. i \in 1..Depth - 2 /\ i + 1 \in 1..Depth - 1 /\ i \in 1..Depth /\ i # Depth
      BY <1>2, <2>1
    <3>2. End(i)' = End(i)
      BY <1>3, <2>1, <3>1 DEF End
    <3> QED BY <1>3, <3>1, <3>2 DEF IInv, RowsAreCallbacks
  <2>2. CASE i = Depth - 1
    <3>1. /\ End(i)' = Len(callbacks) /\ End(Depth) = Len(callbacks)
          /\ End(i) = scopes[Depth].start
      BY <1>1, <1>2, <1>3, <2>2 DEF End
    <3>2. EventsOf(scopes'[i].rows)
            = EventsOf(scopes[i].rows) \cup EventsOf(scopes[Depth].rows)
      BY <1>3, <2>2, EventsOfUnion
    <3>3. /\ EventsOf(scopes[i].rows)
               = UNION {callbacks[k] : k \in scopes[i].start + 1..scopes[Depth].start}
          /\ EventsOf(scopes[Depth].rows)
               = UNION {callbacks[k] : k \in scopes[Depth].start + 1..Len(callbacks)}
      BY <1>4, <2>2, <3>1 DEF IInv, RowsAreCallbacks
    <3>4. \A k : k \in scopes[i].start + 1..Len(callbacks) <=>
                 \/ k \in scopes[i].start + 1..scopes[Depth].start
                 \/ k \in scopes[Depth].start + 1..Len(callbacks)
      <4>1. /\ scopes[i].start \in Nat /\ scopes[Depth].start \in Nat
            /\ scopes[i].start <= scopes[Depth].start
            /\ scopes[Depth].start <= Len(callbacks)
        BY <1>2, <1>4, <2>2
      <4> QED BY <1>2, <4>1
    <3>5. scopes'[i].start = scopes[i].start
      BY <1>3
    <3> QED BY <3>1, <3>2, <3>3, <3>4, <3>5
  <2> QED BY <2>1, <2>2
<1>8. Apart'
  <2>1. \A i \in 1..Depth - 1 : scopes'[i].rows \cap durable = {}
    BY <1>3, <1>4 DEF IInv, Apart
  <2>2. \A i \in 1..Depth - 2 : i # Depth - 1 /\ i # Depth /\ i \in 1..Depth
    BY <1>2
  <2>3. Depth - 1 # Depth
    BY <1>2
  <2>4. \A i, j \in 1..Depth - 1 : i # j => scopes'[i].rows \cap scopes'[j].rows = {}
    <3> SUFFICES ASSUME NEW i \in 1..Depth - 1, NEW j \in 1..Depth - 1, i # j
                 PROVE  scopes'[i].rows \cap scopes'[j].rows = {}
      OBVIOUS
    <3>1. CASE i \in 1..Depth - 2 /\ j \in 1..Depth - 2
      BY <1>3, <2>2, <3>1 DEF IInv, Apart
    <3>2. CASE i \in 1..Depth - 2 /\ j = Depth - 1
      BY <1>3, <1>4, <2>2, <2>3, <3>2 DEF IInv, Apart
    <3>3. CASE i = Depth - 1 /\ j \in 1..Depth - 2
      BY <1>3, <1>4, <2>2, <2>3, <3>3 DEF IInv, Apart
    <3> QED BY <1>4, <3>1, <3>2, <3>3
  <2> QED BY <1>1, <1>3, <2>1, <2>4 DEF Apart
<1>9. ClearsDurable'
  BY <1>1 DEF IInv, ClearsDurable, EventsOf
<1> QED BY <1>6, <1>7, <1>8, <1>9 DEF IInv

(* The outermost transaction commits.                                        *)
LEMMA CommitRootKeeps ==
  ASSUME IInv, CommitRoot, TInv'
  PROVE  IInv'
<1>1. /\ saving # "planned" /\ Depth = 1 /\ scopes' = <<>>
      /\ durable' = durable \cup scopes[1].rows
      /\ clearing' = clearing \cup UNION {Batches(callbacks[i]) : i \in DOMAIN callbacks}
      /\ UNCHANGED <<raised, queue, deferred, saving, usable>>
  BY DEF CommitRoot, Ends
<1>2. /\ TypeOK /\ TypeOK' /\ Depth' = 0 /\ scopes[1].start = 0
      /\ DOMAIN callbacks = 1..Len(callbacks)
  <2>1. Depth' = 0
    BY <1>1 DEF Depth
  <2>2. TypeOK /\ TypeOK' /\ scopes[1].start = 0
    BY <1>1 DEF IInv, TInv, Divided
  <2> QED BY <2>1, <2>2 DEF TypeOK
<1>3. Written' = Written
  <2>1. \A row : row \in Written <=> row \in durable \/ row \in scopes[1].rows
    BY <1>1, <1>2, IsWritten
  <2>2. \A row : row \in Written' <=> row \in durable'
    BY <1>2, WrittenNext
  <2> QED BY <1>1, <2>1, <2>2
<1>4. WrittenOnce' /\ Remembered' /\ PlanIsPending' /\ RaisedBefore' /\ NoEventIsLost'
  BY <1>1, <1>3, MoveKeeps
<1>5. RowsAreCallbacks' /\ Apart'
  BY <1>2 DEF RowsAreCallbacks, Apart
<1>6. ClearsDurable'
  <2>1. EventsOf(durable)' = EventsOf(durable) \cup EventsOf(scopes[1].rows)
    <3>1. EventsOf(durable)' = EventsOf(durable \cup scopes[1].rows)
      BY <1>1 DEF EventsOf
    <3> QED BY <3>1, EventsOfUnion
  <2>2. EventsOf(scopes[1].rows) = UNION {callbacks[k] : k \in DOMAIN callbacks}
    <3>1. End(1) = Len(callbacks)
      BY <1>1 DEF End
    <3> QED BY <1>1, <1>2, <3>1 DEF IInv, RowsAreCallbacks
  <2>3. \A k \in DOMAIN callbacks : \A batch \in Batches(callbacks[k]) :
          batch \subseteq callbacks[k]
    BY DEF Batches
  <2>4. ASSUME NEW batch \in clearing' PROVE batch \subseteq EventsOf(durable)'
    <3>1. CASE batch \in clearing
      BY <2>1, <3>1 DEF IInv, ClearsDurable
    <3>2. ASSUME NEW k \in DOMAIN callbacks, batch \in Batches(callbacks[k])
          PROVE  batch \subseteq EventsOf(durable)'
      BY <2>1, <2>2, <2>3, <3>2
    <3> QED BY <1>1, <2>4, <3>1, <3>2
  <2> QED BY <2>4 DEF ClearsDurable, EventsOf
<1> QED BY <1>4, <1>5, <1>6 DEF IInv

(* What is left when the innermost transaction is undone.                    *)
LEMMA UndoLeaves ==
  ASSUME IInv, Depth > 0, Undo(scopes[Depth].start), TInv', durable' = durable
  PROVE  /\ Written' = Written \ scopes[Depth].rows
         /\ EventsOf(Written)' = EventsOf(Written) \ EventsOf(scopes[Depth].rows)
         /\ deferred' = deferred \ EventsOf(scopes[Depth].rows)
         /\ RowsAreCallbacks' /\ Apart'
<1>1. /\ TInv /\ TypeOK /\ TypeOK' /\ Depth \in Nat /\ Len(callbacks) \in Nat
      /\ \A i \in 1..Depth : scopes[i].start \in Nat /\ scopes[i].start <= Len(callbacks)
      /\ \A i, j \in 1..Depth : i <= j => scopes[i].start <= scopes[j].start
  BY Typed DEF IInv, TInv, Divided
<1>2. /\ Depth' = Depth - 1
      /\ Len(callbacks') = scopes[Depth].start
      /\ \A i \in 1..Depth - 1 : scopes'[i] = scopes[i]
      /\ \A i \in 1..scopes[Depth].start : callbacks'[i] = callbacks[i]
  BY <1>1, UndoLists
<1>3. /\ Depth \in 1..Depth /\ DOMAIN callbacks = 1..Len(callbacks)
      /\ \A i : i \in 1..Depth <=> i \in 1..Depth - 1 \/ i = Depth
      /\ \A i \in 1..Depth - 1 : i # Depth
  BY <1>1 DEF TypeOK
<1>4. Written' = Written \ scopes[Depth].rows
  <2>1. \A row : row \in Written' <=>
          row \in durable \/ \E i \in 1..Depth - 1 : row \in scopes[i].rows
    BY <1>1, <1>2, WrittenNext
  <2>2. \A row : row \in Written <=>
          \/ row \in durable \/ row \in scopes[Depth].rows
          \/ \E i \in 1..Depth - 1 : row \in scopes[i].rows
    BY <1>1, <1>3, IsWritten
  <2>3. scopes[Depth].rows \cap durable = {}
    BY <1>3 DEF IInv, Apart
  <2>4. \A i \in 1..Depth - 1 : scopes[i].rows \cap scopes[Depth].rows = {}
    BY <1>3 DEF IInv, Apart
  <2> QED BY <2>1, <2>2, <2>3, <2>4
<1>5. EventsOf(Written)' = EventsOf(Written) \ EventsOf(scopes[Depth].rows)
  <2>1. scopes[Depth].rows \subseteq Written
    BY <1>1, <1>3, IsWritten
  <2>2. \A r1, r2 \in Written : r1[1] = r2[1] => r1 = r2
    BY DEF IInv, WrittenOnce
  <2>3. EventsOf(Written)' = {row[1] : row \in Written \ scopes[Depth].rows}
    BY <1>4 DEF EventsOf
  <2> QED BY <2>1, <2>2, <2>3 DEF EventsOf
<1>6. deferred' = deferred \ EventsOf(scopes[Depth].rows)
  <2>1. End(Depth) = Len(callbacks)
    BY DEF End
  <2>2. EventsOf(scopes[Depth].rows)
          = UNION {callbacks[k] : k \in scopes[Depth].start + 1..Len(callbacks)}
    BY <1>3, <2>1 DEF IInv, RowsAreCallbacks
  <2>3. scopes[Depth].start \in Nat
    BY <1>1, <1>3
  <2>4. {j \in DOMAIN callbacks : j > scopes[Depth].start}
          = scopes[Depth].start + 1..Len(callbacks)
    BY <1>1, <1>3, <2>3
  <2> QED BY <2>2, <2>4 DEF Undo, DeferredSince
<1>7. RowsAreCallbacks'
  <2> SUFFICES ASSUME NEW i \in 1..Depth'
               PROVE  EventsOf(scopes'[i].rows)
                        = UNION {callbacks'[k] : k \in scopes'[i].start + 1..End(i)'}
    BY DEF RowsAreCallbacks, EventsOf
  <2>1. i \in 1..Depth - 1 /\ i \in 1..Depth /\ i # Depth
    BY <1>2, <1>3
  <2>2. i + 1 \in 1..Depth /\ scopes[i + 1].start <= scopes[Depth].start
    BY <1>1, <1>3, <2>1
  <2>3. End(i) = scopes[i + 1].start
    BY <2>1 DEF End
  <2>4. End(i)' = End(i)
    <3>1. CASE i = Depth - 1
      BY <1>1, <1>2, <2>3, <3>1 DEF End
    <3>2. CASE i # Depth - 1
      <4>1. i + 1 \in 1..Depth - 1
        BY <1>1, <2>1, <3>2
      <4> QED BY <1>2, <2>3, <3>2, <4>1 DEF End
    <3> QED BY <3>1, <3>2
  <2>5. \A k \in scopes[i].start + 1..End(i) : callbacks'[k] = callbacks[k]
    BY <1>1, <1>2, <1>3, <2>1, <2>2, <2>3
  <2>6. EventsOf(scopes[i].rows) = UNION {callbacks[k] : k \in scopes[i].start + 1..End(i)}
    BY <2>1 DEF IInv, RowsAreCallbacks
  <2> QED BY <1>2, <2>1, <2>4, <2>5, <2>6
<1>8. Apart'
  <2>1. \A i \in 1..Depth - 1 : scopes'[i].rows \cap durable = {}
    BY <1>2, <1>3 DEF IInv, Apart
  <2>2. \A i, j \in 1..Depth - 1 : i # j => scopes'[i].rows \cap scopes'[j].rows = {}
    BY <1>2, <1>3 DEF IInv, Apart
  <2> QED BY <1>2, <2>1, <2>2 DEF Apart
<1> QED BY <1>4, <1>5, <1>6, <1>7, <1>8

(* A transaction is rolled back.                                             *)
LEMMA RollbackKeeps ==
  ASSUME IInv, Rollback, TInv'
  PROVE  IInv'
<1>1. /\ saving # "planned" /\ Depth > 0 /\ Undo(scopes[Depth].start)
      /\ UNCHANGED <<raised, queue, durable, saving, plan, clearing, usable, saves>>
  BY DEF Rollback, Ends, calls
<1> DEFINE gone == EventsOf(scopes[Depth].rows)
<1>2. /\ Written' = Written \ scopes[Depth].rows
      /\ EventsOf(Written)' = EventsOf(Written) \ gone
      /\ deferred' = deferred \ gone
      /\ RowsAreCallbacks' /\ Apart'
  BY <1>1, UndoLeaves
<1>3. EventsOf(durable)' = EventsOf(durable)
  BY <1>1 DEF EventsOf
<1>4. EventsOf(durable) \subseteq EventsOf(Written)'
  BY <1>1 DEF EventsOf, Written
<1> HIDE DEF gone
<1>5. WrittenOnce'
  BY <1>2, OnceShrinks DEF IInv
<1>6. Remembered'
  BY <1>1, <1>2 DEF IInv, Remembered
<1>7. PlanIsPending' /\ RaisedBefore' /\ ClearsDurable'
  BY <1>1, <1>2, <1>3 DEF IInv, PlanIsPending, RaisedBefore, ClearsDurable
<1>8. NoEventIsLost'
  <2>1. raised' \ queue' \subseteq EventsOf(durable)'
    BY <1>1, <1>3 DEF IInv, NoEventIsLost
  <2>2. ASSUME usable, NEW e \in raised, e \notin EventsOf(Written)'
        PROVE  e \in Pending'
    <3>1. e \in queue
      BY <1>4, <2>2 DEF IInv, NoEventIsLost
    <3>2. e \in Pending \/ e \in gone
      BY <1>2, <2>2 DEF IInv, NoEventIsLost
    <3> QED BY <1>1, <1>2, <3>1, <3>2 DEF Pending
  <2> QED BY <1>1, <2>1, <2>2 DEF NoEventIsLost
<1> QED BY <1>2, <1>5, <1>6, <1>7, <1>8 DEF IInv

(* The outcome of the outermost commit is unknown.                           *)
LEMMA UnknownCommitKeeps ==
  ASSUME IInv, CommitIsUnknown, TInv'
  PROVE  IInv'
<1>1. /\ saving # "planned" /\ Depth = 1 /\ usable' = FALSE
      /\ durable \subseteq durable' /\ durable' \subseteq durable \cup scopes[1].rows
      /\ UNCHANGED <<raised, queue, saving, plan, clearing, saves>>
  BY DEF CommitIsUnknown, Ends
<1>2. TInv /\ TypeOK /\ TypeOK' /\ Undo(scopes[Depth].start)
  BY <1>1 DEF IInv, TInv, CommitIsUnknown
<1>3. Depth' = 0
  BY <1>1, <1>2, UndoLists
<1>4. Written' \subseteq Written
  <2>1. \A row : row \in Written' <=> row \in durable'
    BY <1>2, <1>3, WrittenNext
  <2>2. \A row : row \in Written <=> row \in durable \/ row \in scopes[1].rows
    BY <1>1, <1>2, IsWritten
  <2> QED BY <1>1, <2>1, <2>2
<1>5. RowsAreCallbacks' /\ Apart'
  BY <1>3 DEF RowsAreCallbacks, Apart
<1>6. EventsOf(durable) \subseteq EventsOf(durable)'
  BY <1>1 DEF EventsOf
<1>7. WrittenOnce'
  BY <1>4, OnceShrinks DEF IInv
<1>8. RaisedBefore'
  BY <1>1, <1>4 DEF IInv, RaisedBefore, EventsOf
<1>9. ClearsDurable' /\ NoEventIsLost'
  BY <1>1, <1>6 DEF IInv, ClearsDurable, NoEventIsLost
<1> QED BY <1>1, <1>5, <1>7, <1>8, <1>9 DEF IInv, Remembered, PlanIsPending

(* Events of committed rows leave their entity, and may stay remembered.     *)
LEMMA ClearingKeeps ==
  ASSUME IInv, NEW batch \in clearing, TInv',
         UNCHANGED <<raised, callbacks, scopes, durable, saving, plan, usable>>,
         queue' \in {queue, queue \ batch},
         deferred' \in {deferred, deferred \ batch},
         deferred' # deferred => queue' = queue \ batch,
         clearing' = clearing \ {batch}
  PROVE  IInv'
<1>1. /\ RowsAreCallbacks' /\ Apart' /\ WrittenOnce' /\ Written' = Written
      /\ EventsOf(Written)' = EventsOf(Written)
      /\ EventsOf(durable)' = EventsOf(durable)
  BY QuietRows DEF EventsOf
<1>2. batch \subseteq EventsOf(durable) /\ batch \subseteq EventsOf(Written)
  BY DurableIsWritten DEF IInv, ClearsDurable
<1>3. Remembered' /\ RaisedBefore' /\ ClearsDurable'
  BY <1>1, <1>2 DEF IInv, Remembered, RaisedBefore, ClearsDurable
<1>4. PlanIsPending'
  <2>1. usable => Pending \cap EventsOf(Written) = {}
    BY DEF IInv, Remembered, Pending
  <2> QED BY <1>2, <2>1 DEF IInv, PlanIsPending, Pending
<1>5. NoEventIsLost'
  BY <1>1, <1>2 DEF IInv, NoEventIsLost, Pending
<1> QED BY <1>1, <1>3, <1>4, <1>5 DEF IInv

-----------------------------------------------------------------------------
LEMMA InvInit == Init => IInv
<1> SUFFICES ASSUME Init PROVE IInv
  OBVIOUS
<1>1. TInv
  BY TypeInit
<1>2. Depth = 0 /\ Written = {}
  BY DEF Init, Depth, Written
<1> QED
  BY <1>1, <1>2
  DEF Init, IInv, RowsAreCallbacks, Apart, Remembered, PlanIsPending, RaisedBefore,
      ClearsDurable, WrittenOnce, NoEventIsLost, EventsOf

LEMMA InvNext == IInv /\ [Next]_vars => IInv'
<1> SUFFICES ASSUME IInv, [Next]_vars PROVE IInv'
  OBVIOUS
<1>1. TInv'
  BY TypeNext DEF IInv
<1>2. ASSUME NEW e \in Events, Raise(e) PROVE IInv'
  BY <1>1, <1>2, RaiseKeeps
<1>3. CASE Plan
  BY <1>1, <1>3, PlanKeeps DEF Plan
<1>4. CASE SaveDeferred
  BY <1>1, <1>4, DeferredKeeps
<1>5. CASE SaveCommitted
  BY <1>1, <1>5, CommittedKeeps
<1>6. CASE SaveFails
  BY <1>1, <1>6, PlanKeeps DEF SaveFails
<1>7. CASE SaveIsUnknown
  BY <1>1, <1>7, UnknownSaveKeeps
<1>8. CASE SaveReturns
  BY <1>1, <1>8, PlanKeeps DEF SaveReturns
<1>9. CASE Begin
  BY <1>1, <1>9, BeginKeeps
<1>10. CASE CommitNested
  BY <1>1, <1>10, NestedKeeps
<1>11. CASE CommitRoot
  BY <1>1, <1>11, CommitRootKeeps
<1>12. CASE Rollback
  BY <1>1, <1>12, RollbackKeeps
<1>13. CASE CommitIsUnknown
  BY <1>1, <1>13, UnknownCommitKeeps
<1>14. ASSUME NEW batch \in clearing, Clear(batch) PROVE IInv'
  BY <1>1, <1>14, ClearingKeeps DEF Clear
<1>15. ASSUME NEW batch \in clearing, ClearFails(batch) PROVE IInv'
  BY <1>1, <1>15, ClearingKeeps DEF ClearFails
<1>16. CASE UNCHANGED vars
  BY <1>1, <1>16, PlanKeeps DEF vars, calls, IInv, PlanIsPending
<1> QED
  BY <1>2, <1>3, <1>4, <1>5, <1>6, <1>7, <1>8, <1>9, <1>10, <1>11, <1>12, <1>13,
     <1>14, <1>15, <1>16
  DEF Next

(* No event has two rows, whatever the order of saves, rollbacks and clears. *)
THEOREM EventsWrittenOnce == Spec => []WrittenOnce
<1>1. Spec => []IInv
  BY InvInit, InvNext, PTL DEF Spec
<1>2. IInv => WrittenOnce
  BY DEF IInv
<1> QED BY <1>1, <1>2, PTL

(* An event leaves its entity with a committed row only, and is pending or   *)
(* written as long as the context can be used.                               *)
THEOREM EventsAreKept == Spec => []NoEventIsLost
<1>1. Spec => []IInv
  BY InvInit, InvNext, PTL DEF Spec
<1>2. IInv => NoEventIsLost
  BY DEF IInv
<1> QED BY <1>1, <1>2, PTL

=============================================================================
