------------------------------- MODULE Outbox -------------------------------
(* The transactional outbox of one context. Entities of the application      *)
(* queue events; a save writes a row for each of them in its transaction and *)
(* has the application clear them once the row is durable. Until then the    *)
(* context remembers what it has written, so that a later save of the same   *)
(* transaction does not write it again.                                      *)
(*                                                                           *)
(* Code: packages/core/src/core/outbox-event-tracker.ts, save-plan/          *)
(* {outbox-message,outbox-plan}.ts, unit-of-work/save-lifecycle.ts and       *)
(* transaction-coordinator.ts.                                               *)
(*                                                                           *)
(* One chain of calls, which awaits what it calls; clearEvents() may use the *)
(* context again while it is awaited. Every entity stays tracked.            *)
EXTENDS Naturals, Sequences, FiniteSets

CONSTANTS
  Events,     \* objects the application queues, each on one entity
  Entities,
  Owner,      \* the entity of each event
  MaxSaves,   \* bound on saves that reach the database
  MaxDepth    \* bound on the nesting of transaction()

ASSUME OwnerAssumption == Owner \in [Events -> Entities]
ASSUME BoundsAssumption == MaxSaves \in Nat /\ MaxDepth \in Nat

VARIABLES
  raised,     \* the events there have been
  queue,      \* the events their entities hold
  deferred,   \* deferredByEntity: written, and not yet cleared
  callbacks,  \* afterCommitCallbacks: the events of each deferred save
  scopes,     \* the open transactions: where their callbacks start, their rows
  durable,    \* the committed rows: the event, and the save that wrote it
  saving,     \* saveInProgress, and where that save is
  plan,       \* the events of that save
  clearing,   \* the batches that committed and wait for clearEvents()
  usable,     \* is the outcome of every commit known?
  saves       \* how many saves have reached the database

calls == <<saving, plan, clearing, usable, saves>>
vars == <<raised, queue, deferred, callbacks, scopes, durable, calls>>

Rows == Events \X (1..MaxSaves)

TypeOK ==
  /\ raised \subseteq Events
  /\ queue \subseteq raised
  /\ deferred \subseteq Events
  /\ callbacks \in Seq(SUBSET Events)
  /\ scopes \in Seq([start: Nat, rows: SUBSET Rows])
  /\ durable \subseteq Rows
  /\ saving \in {"idle", "planned", "clearing"}
  /\ plan \subseteq Events
  /\ clearing \subseteq SUBSET Events
  /\ usable \in BOOLEAN
  /\ saves \in 0..MaxSaves

Init ==
  /\ raised = {} /\ queue = {} /\ deferred = {}
  /\ callbacks = <<>> /\ scopes = <<>> /\ durable = {}
  /\ saving = "idle" /\ plan = {} /\ clearing = {}
  /\ usable = TRUE /\ saves = 0

EventsOf(rows) == {row[1] : row \in rows}

(* One batch for each entity.                                                *)
Batches(events) ==
  {{e \in events : Owner[e] = entity} : entity \in {Owner[e] : e \in events}}

-----------------------------------------------------------------------------
(* The application queues an event; it may do so while a save runs.          *)
Raise(e) ==
  /\ e \notin raised
  /\ raised' = raised \cup {e}
  /\ queue' = queue \cup {e}
  /\ UNCHANGED <<deferred, callbacks, scopes, durable, calls>>

\* Mutant: everything the entities hold.
PendingAll == queue

Pending == queue \ deferred

(* saveChanges() makes its plan, and again after each interceptor.           *)
Plan ==
  /\ usable
  /\ saves < MaxSaves
  /\ saving = "idle" \/ saving = "planned"
  /\ Pending # {}
  /\ plan' = Pending
  /\ saving' = "planned"
  /\ UNCHANGED <<raised, queue, deferred, callbacks, scopes, durable,
                 clearing, usable, saves>>

PlannedRows == plan \X {saves + 1}

Depth == Len(scopes)

(* The save succeeds inside of a transaction: its rows are in the innermost  *)
(* one, and its callback waits for the outermost.                            *)
SaveDeferred ==
  /\ saving = "planned"
  /\ Depth > 0
  /\ scopes' = [scopes EXCEPT ![Depth].rows = @ \cup PlannedRows]
  /\ deferred' = deferred \cup plan
  /\ callbacks' = Append(callbacks, plan)
  /\ saves' = saves + 1
  /\ saving' = "idle"
  /\ plan' = {}
  /\ UNCHANGED <<raised, queue, durable, clearing, usable>>

(* The save succeeds in a transaction of its own.                            *)
SaveCommitted ==
  /\ saving = "planned"
  /\ Depth = 0
  /\ durable' = durable \cup PlannedRows
  /\ deferred' = deferred \cup plan
  /\ clearing' = clearing \cup Batches(plan)
  /\ saves' = saves + 1
  /\ saving' = "clearing"
  /\ UNCHANGED <<raised, queue, callbacks, scopes, plan, usable>>

(* A statement or an interceptor fails, and no row is left.                  *)
SaveFails ==
  /\ saving = "planned"
  /\ saving' = "idle"
  /\ plan' = {}
  /\ saves' = saves + 1
  /\ UNCHANGED <<raised, queue, deferred, callbacks, scopes, durable,
                 clearing, usable>>

(* The commit of the save has no verdict.                                    *)
SaveIsUnknown ==
  /\ saving = "planned"
  /\ Depth = 0
  /\ durable' \in {durable, durable \cup PlannedRows}
  /\ usable' = FALSE
  /\ saving' = "idle"
  /\ plan' = {}
  /\ saves' = saves + 1
  /\ UNCHANGED <<raised, queue, deferred, callbacks, scopes, clearing>>

(* A save of its own returns when its events have been cleared.              *)
SaveReturns ==
  /\ saving = "clearing"
  /\ clearing \cap Batches(plan) = {}
  /\ saving' = "idle"
  /\ plan' = {}
  /\ UNCHANGED <<raised, queue, deferred, callbacks, scopes, durable,
                 clearing, usable, saves>>

-----------------------------------------------------------------------------
(* transaction(), whose work awaits its saves.                               *)
Begin ==
  /\ usable
  /\ saving # "planned"
  /\ Depth < MaxDepth
  /\ scopes' = Append(scopes, [start |-> Len(callbacks), rows |-> {}])
  /\ UNCHANGED <<raised, queue, deferred, callbacks, durable, calls>>

Ends == saving # "planned" /\ Depth > 0

CommitNested ==
  /\ Ends
  /\ Depth > 1
  /\ scopes' = [i \in 1..Depth - 1 |->
       IF i = Depth - 1
       THEN [scopes[i] EXCEPT !.rows = @ \cup scopes[Depth].rows]
       ELSE scopes[i]]
  /\ UNCHANGED <<raised, queue, deferred, callbacks, durable, calls>>

(* The callbacks run: each has the events of its save cleared.               *)
CommitRoot ==
  /\ Ends
  /\ Depth = 1
  /\ durable' = durable \cup scopes[1].rows
  /\ scopes' = <<>>
  /\ clearing' = clearing \cup
       UNION {Batches(callbacks[i]) : i \in DOMAIN callbacks}
  /\ callbacks' = <<>>
  /\ UNCHANGED <<raised, queue, deferred, saving, plan, usable, saves>>

DeferredSince(start) ==
  UNION {callbacks[i] : i \in {j \in DOMAIN callbacks : j > start}}

\* Mutant: the events of the last save only.
UndoLast(start) ==
  /\ scopes' = SubSeq(scopes, 1, Depth - 1)
  /\ callbacks' = SubSeq(callbacks, 1, start)
  /\ deferred' = deferred \ (IF Len(callbacks) = start THEN {}
                             ELSE callbacks[Len(callbacks)])

(* The callbacks enqueued since the transaction began are taken from the     *)
(* list and undone, which releases their events.                             *)
Undo(start) ==
  /\ scopes' = SubSeq(scopes, 1, Depth - 1)
  /\ callbacks' = SubSeq(callbacks, 1, start)
  /\ deferred' = deferred \ DeferredSince(start)

Rollback ==
  /\ Ends
  /\ Undo(scopes[Depth].start)
  /\ UNCHANGED <<raised, queue, durable, calls>>

(* The outermost commit has no verdict; the context is of no use any more.   *)
CommitIsUnknown ==
  /\ Ends
  /\ Depth = 1
  /\ Undo(scopes[1].start)
  /\ durable' \in {durable, durable \cup scopes[1].rows}
  /\ usable' = FALSE
  /\ UNCHANGED <<raised, queue, saving, plan, clearing, saves>>

-----------------------------------------------------------------------------
(* clearEvents() of the application removes the events it is given.          *)
Clear(batch) ==
  /\ queue' = queue \ batch
  /\ deferred' = deferred \ batch
  /\ clearing' = clearing \ {batch}
  /\ UNCHANGED <<raised, callbacks, scopes, durable, saving, plan, usable, saves>>

(* It throws, before or after it has removed them: they stay remembered.     *)
ClearFails(batch) ==
  /\ queue' \in {queue, queue \ batch}
  /\ clearing' = clearing \ {batch}
  /\ UNCHANGED <<raised, deferred, callbacks, scopes, durable, saving, plan,
                 usable, saves>>

Next ==
  \/ \E e \in Events : Raise(e)
  \/ Plan \/ SaveDeferred \/ SaveCommitted \/ SaveFails \/ SaveIsUnknown
  \/ SaveReturns
  \/ Begin \/ CommitNested \/ CommitRoot \/ Rollback \/ CommitIsUnknown
  \/ \E batch \in clearing : Clear(batch) \/ ClearFails(batch)

Spec == Init /\ [][Next]_vars

-----------------------------------------------------------------------------
Written == durable \cup UNION {scopes[i].rows : i \in DOMAIN scopes}

\* No event has two rows, committed or to be committed: neither a second save
\* of the same transaction nor one that runs while events are being cleared
\* writes what this context has written before
\* (OutboxEventTracker.pending and defer).
WrittenOnce ==
  \A r1, r2 \in Written : r1[1] = r2[1] => r1 = r2

\* An event leaves its entity only once its row is durable, and while the
\* context can be used, every event there has been is in the next plan or has a
\* row: a rollback, of whatever part of a transaction, makes the events of the
\* rows it took away pending again (OutboxEventTracker.release).
NoEventIsLost ==
  /\ raised \ queue \subseteq EventsOf(durable)
  /\ usable => raised \subseteq Pending \cup EventsOf(Written)

=============================================================================
