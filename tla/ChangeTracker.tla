--------------------------- MODULE ChangeTracker ---------------------------
(***************************************************************************)
(* The change tracker of one DbContext as saves inside transactions drive  *)
(* it: what it believes of every entity (state, baseline, identity key),   *)
(* the journal that can take each accepted save back, the reservations     *)
(* that keep the application off what a journal may have to restore, and   *)
(* the rows the beliefs are about.                                         *)
(*                                                                         *)
(* One call chain runs transactions and saves, one after the other;        *)
(* UnitOfWork has the chains that overlap.  The application may still use  *)
(* the tracker while a call of that chain awaits the database.             *)
(***************************************************************************)
EXTENDS Integers, Sequences, FiniteSets, SequencesExt, Functions

CONSTANTS
  Entities,   \* entity objects of the application, all of one type
  Generated,  \* those whose primary key the database generates on insert
  MaxKey,     \* bound on the primary keys
  Values,     \* values of the one mapped scalar
  MaxSaves,   \* bound on the calls of saveChanges()
  MaxDepth,   \* bound on the nesting of transaction()
  RemovesEarly,  \* TRUE if the application may call remove() between the call
                 \* of saveChanges() and the start of its SQL
  Unset,      \* a primary key that has not been generated yet
  Nobody,     \* no entity has the identity key
  NoKey,      \* the entity has no identity key
  NoSave      \* no save is under way

ASSUME ChangeTrackerAssumption ==
  /\ Generated \subseteq Entities
  /\ MaxKey \in Nat
  /\ Values # {}
  /\ {MaxSaves, MaxDepth} \subseteq Nat
  /\ RemovesEarly \in BOOLEAN
  /\ Unset \notin 1 .. MaxKey
  /\ Nobody \notin Entities
  /\ NoKey \notin Entities \cup 1 .. MaxKey

VARIABLES
  rows,        \* the table as the connection sees it: primary key -> row
  frames,      \* open transaction and savepoints: rows and callbacks at each start
  live,        \* the properties of each entity object
  state,       \* EntityEntry.state; "Detached" for an entity without an entry
  original,    \* EntityEntry.originalValues, the baseline
  keyOf,       \* TrackedIdentityMap.keys
  identities,  \* TrackedIdentityMap.entries
  temporary,   \* entities with an unresolved generated identity
  byEntity,    \* SaveMutationGuard.pendingByEntity
  byIdentity,  \* SaveMutationGuard.pendingByIdentity
  journals,    \* acceptances whose transaction has not completed, in order
  saving,      \* the plan of the save under way and the rows it started from
  acceptance,  \* the journal of the save under way, once it is accepted
  pc,
  saves,       \* calls of saveChanges() so far
  broken       \* a restoration failed: stateRestorationFailure

entryVars == <<live, state, original, temporary>>
mapVars == <<keyOf, identities>>
guardVars == <<byEntity, byIdentity>>
vars == <<rows, frames, entryVars, mapVars, guardVars, journals, saving, acceptance, pc, saves, broken>>

Keys == 1 .. MaxKey

\* A generated key has a temporary identity key of its own until the row is
\* accepted; the entity stands for it.
Identity == Keys \cup Entities

Row == [value : Values, version : Nat]
Image == [id : Keys \cup {Unset}, value : Values, version : Nat]
EntityState == {"Detached", "Added", "Unchanged", "Modified", "Deleted"}
Pc == {"app", "planned", "executing", "accepted", "flushing", "rollingBack"}

Tracked == {e \in Entities : state[e] # "Detached"}

AsRow(image) == [value |-> image.value, version |-> image.version]

Checkpoint == [state : EntityState, original : Image, key : Identity]

IsPartial(f, S, T) == DOMAIN f \subseteq S /\ \A x \in DOMAIN f : f[x] \in T

IsTable(table) == IsPartial(table, Keys, Row)

IsJournal(j) ==
  /\ IsPartial(j.checkpoints, Entities, Checkpoint)
  /\ j.reserved \subseteq Identity
  /\ IsPartial(j.ids, Entities, Keys)
  /\ IsPartial(j.versions, Entities, Nat)

TypeOK ==
  /\ IsTable(rows)
  /\ \A i \in DOMAIN frames : IsTable(frames[i].rows) /\ frames[i].start \in 0 .. Len(journals)
  /\ live \in [Entities -> Image]
  /\ state \in [Entities -> EntityState]
  /\ original \in [Entities -> Image]
  /\ keyOf \in [Entities -> Identity \cup {NoKey}]
  /\ identities \in [Identity -> Entities \cup {Nobody}]
  /\ temporary \subseteq Generated
  /\ byEntity \in [Entities -> Nat]
  /\ byIdentity \in [Identity -> Nat]
  /\ \A i \in DOMAIN journals : IsJournal(journals[i])
  /\ saving # NoSave => IsTable(saving.rows) /\ DOMAIN saving.plan \subseteq Entities
  /\ acceptance # NoSave => IsJournal(acceptance)
  /\ pc \in Pc
  /\ saves \in 0 .. MaxSaves
  /\ broken \in BOOLEAN

\* The table holds rows of earlier contexts; nothing is tracked yet.
Init ==
  /\ \E S \in SUBSET Keys, value \in Values :
       /\ rows = [k \in S |-> [value |-> value, version |-> 1]]
       /\ live = [e \in Entities |-> [id |-> Unset, value |-> value, version |-> 1]]
  /\ frames = <<>>
  /\ state = [e \in Entities |-> "Detached"]
  /\ original = live
  /\ keyOf = [e \in Entities |-> NoKey]
  /\ identities = [k \in Identity |-> Nobody]
  /\ temporary = {}
  /\ byEntity = [e \in Entities |-> 0]
  /\ byIdentity = [k \in Identity |-> 0]
  /\ journals = <<>>
  /\ saving = NoSave
  /\ acceptance = NoSave
  /\ pc = "app"
  /\ saves = 0
  /\ broken = FALSE

-----------------------------------------------------------------------------
(* SaveMutationGuard *)

ExecutingOnceAccepted == pc = "accepted"

Executing == pc \in {"executing", "accepted"}

\* assertMutation: the entity and the identity key it asks for are free.
AssertMutation(e, identity) ==
  /\ ~Executing
  /\ byEntity[e] = 0
  /\ identity # NoKey => byIdentity[identity] = 0

AssertNothingPending == ~Executing /\ \A e \in Entities : byEntity[e] = 0

\* defer(): one more reservation of each entity and identity key.
Defer(journal) ==
  /\ byEntity' = [e \in Entities |-> byEntity[e] + IF e \in DOMAIN journal.checkpoints THEN 1 ELSE 0]
  /\ byIdentity' = [k \in Identity |-> byIdentity[k] + IF k \in journal.reserved THEN 1 ELSE 0]

\* The first save to complete frees what a later one still reserves.
ReleasesOutright(journal) ==
  /\ byEntity' = [e \in Entities |-> IF e \in DOMAIN journal.checkpoints THEN 0 ELSE byEntity[e]]
  /\ byIdentity' = [k \in Identity |-> IF k \in journal.reserved THEN 0 ELSE byIdentity[k]]

Release(journal) ==
  /\ byEntity' = [e \in Entities |-> byEntity[e] - IF e \in DOMAIN journal.checkpoints THEN 1 ELSE 0]
  /\ byIdentity' = [k \in Identity |-> byIdentity[k] - IF k \in journal.reserved THEN 1 ELSE 0]

-----------------------------------------------------------------------------
(* The tracked entries *)

\* The key assertTrackingIdentityRegistration expects to find registered.
ExpectedKey(e) == IF e \in temporary /\ state[e] = "Added" THEN e ELSE original[e].id

\* The application acts when it is in control itself, and while the chain awaits
\* the database.
ApplicationRuns == pc \notin {"planned", "rollingBack"}

Registers(e, identity, newState, image) ==
  /\ live' = [live EXCEPT ![e] = image]
  /\ state' = [state EXCEPT ![e] = newState]
  /\ original' = [original EXCEPT ![e] = image]
  /\ temporary' = IF newState = "Added" /\ e \in Generated THEN temporary \cup {e} ELSE temporary \ {e}
  /\ keyOf' = [keyOf EXCEPT ![e] = identity]
  /\ identities' = [identities EXCEPT ![identity] = e]

\* add(): the application sets a natural key itself.
Add(e) ==
  /\ ApplicationRuns
  /\ state[e] = "Detached"
  /\ \E id \in (IF e \in Generated THEN {Unset} ELSE Keys), value \in Values :
       LET identity == IF e \in Generated THEN e ELSE id
       IN  /\ AssertMutation(e, identity)
           /\ identities[identity] = Nobody
           /\ Registers(e, identity, "Added", [id |-> id, value |-> value, version |-> 1])
  /\ UNCHANGED <<rows, frames, guardVars, journals, saving, acceptance, pc, saves, broken>>

\* A query materializes a row nobody tracks yet.
Load(e) ==
  /\ ApplicationRuns
  /\ state[e] = "Detached"
  /\ \E k \in DOMAIN rows :
       /\ AssertMutation(e, k)
       /\ identities[k] = Nobody
       /\ Registers(e, k, "Unchanged", [id |-> k, value |-> rows[k].value, version |-> rows[k].version])
  /\ UNCHANGED <<rows, frames, guardVars, journals, saving, acceptance, pc, saves, broken>>

\* Assigning a property never asks the tracker.
Edit(e) ==
  /\ pc # "rollingBack"
  /\ e \in Tracked
  /\ \E value \in Values \ {live[e].value} : live' = [live EXCEPT ![e].value = value]
  /\ UNCHANGED <<rows, frames, state, original, temporary, mapVars, guardVars,
                 journals, saving, acceptance, pc, saves, broken>>

Differs(e) == live[e] # original[e]

Detected(e) ==
  IF state[e] \notin {"Unchanged", "Modified"} THEN state[e]
  ELSE IF Differs(e) THEN "Modified" ELSE "Unchanged"

DetectChanges ==
  /\ ApplicationRuns
  /\ ~Executing
  /\ state' = [e \in Entities |-> Detected(e)]
  /\ UNCHANGED <<rows, frames, live, original, temporary, mapVars, guardVars,
                 journals, saving, acceptance, pc, saves, broken>>

\* Everything the registry knows of the entities in S goes.
Forgets(S) ==
  /\ state' = [e \in Entities |-> IF e \in S THEN "Detached" ELSE state[e]]
  /\ temporary' = temporary \ S
  /\ keyOf' = [e \in Entities |-> IF e \in S THEN NoKey ELSE keyOf[e]]
  /\ identities' = [k \in Identity |-> IF identities[k] \in S THEN Nobody ELSE identities[k]]
  /\ UNCHANGED <<live, original>>

Detach(e) ==
  /\ ApplicationRuns
  /\ e \in Tracked
  /\ AssertMutation(e, NoKey)
  /\ Forgets({e})
  /\ UNCHANGED <<rows, frames, guardVars, journals, saving, acceptance, pc, saves, broken>>

\* remove() of an entity that is Added detaches it, which is Detach.
RemoveEntity(e) ==
  /\ ApplicationRuns \/ (RemovesEarly /\ pc = "planned")
  /\ state[e] \in {"Unchanged", "Modified"}
  /\ AssertMutation(e, NoKey)
  /\ state' = [state EXCEPT ![e] = "Deleted"]
  /\ UNCHANGED <<rows, frames, live, original, temporary, mapVars, guardVars,
                 journals, saving, acceptance, pc, saves, broken>>

\* clearTracking() also refuses while a save is in progress.
ClearTracking ==
  /\ ApplicationRuns
  /\ Tracked # {}
  /\ saving = NoSave
  /\ AssertNothingPending
  /\ Forgets(Tracked)
  /\ UNCHANGED <<rows, frames, guardVars, journals, saving, acceptance, pc, saves, broken>>

-----------------------------------------------------------------------------
(* The acceptance journal *)

Collides(checkpoints) ==
  \E e \in DOMAIN checkpoints : identities[checkpoints[e].key] \notin DOMAIN checkpoints \cup {Nobody}

KeepsPreviousKeys(S, newKey) ==
  [k \in Identity |-> IF \E e \in S : newKey[e] = k THEN CHOOSE e \in S : newKey[e] = k
                      ELSE identities[k]]

\* identities without the entries of S, then with their keys of newKey
Rekeyed(S, newKey) ==
  [k \in Identity |->
     IF \E e \in S : newKey[e] = k THEN CHOOSE e \in S : newKey[e] = k
     ELSE IF identities[k] \in S THEN Nobody ELSE identities[k]]

RestoredState(e, checkpoints) ==
  IF e \in DOMAIN checkpoints THEN checkpoints[e].state ELSE state[e]

\* The generated key and the version that the save wrote to the object; a key
\* that is no longer the one written stays.
RestoredObject(e, journal) ==
  [live[e] EXCEPT !.id = IF e \in DOMAIN journal.ids /\ @ = journal.ids[e] THEN Unset ELSE @,
                  !.version = IF e \in DOMAIN journal.versions THEN journal.versions[e] ELSE @]

\* TrackedAcceptanceJournal.rollback and the rest of the save's own rollback.
TakeBack(journal) ==
  LET cp == journal.checkpoints
      S == DOMAIN cp
      newKey == [e \in S |-> cp[e].key]
  IN  /\ state' = [e \in Entities |-> RestoredState(e, cp)]
      /\ original' = [e \in Entities |-> IF e \in S THEN cp[e].original ELSE original[e]]
      /\ live' = [e \in Entities |-> RestoredObject(e, journal)]
      /\ IF Collides(cp) THEN UNCHANGED mapVars
         ELSE /\ keyOf' = [e \in Entities |-> IF e \in S THEN newKey[e] ELSE keyOf[e]]
              /\ identities' = Rekeyed(S, newKey)
      /\ broken' = (broken \/ Collides(cp))
      /\ UNCHANGED temporary
      /\ Release(journal)

\* TrackedAcceptanceJournal.commit
Commit(journal) ==
  /\ temporary' = temporary \ {e \in DOMAIN journal.checkpoints :
                                 journal.checkpoints[e].state = "Added"}
  /\ Release(journal)

-----------------------------------------------------------------------------
(* saveChanges() *)

Pending(e) == Detected(e) \in {"Added", "Modified", "Deleted"}

\* The plan captures the state and the properties of every changed entity.
StartSave ==
  /\ pc = "app"
  /\ saves < MaxSaves
  /\ \E e \in Entities : Pending(e)
  /\ saves' = saves + 1
  /\ state' = [e \in Entities |-> Detected(e)]
  /\ saving' = [rows |-> rows,
                plan |-> [e \in {d \in Entities : Pending(d)} |->
                            [state |-> Detected(e), image |-> live[e]]]]
  /\ pc' = "planned"
  /\ UNCHANGED <<rows, frames, live, original, temporary, mapVars, guardVars,
                 journals, acceptance, broken>>

\* beginSaveExecution, then the transaction or savepoint of the save.
StartExecution ==
  /\ pc = "planned"
  /\ pc' = "executing"
  /\ UNCHANGED <<rows, frames, entryVars, mapVars, guardVars, journals, saving,
                 acceptance, saves, broken>>

LeavesSave ==
  /\ saving' = NoSave
  /\ acceptance' = NoSave
  /\ pc' = "app"

\* An interceptor, a statement or the acceptance throws: nothing was accepted
\* and the rows are those the save started from.
SaveFails ==
  /\ pc \in {"planned", "executing"}
  /\ LeavesSave
  /\ UNCHANGED <<rows, frames, entryVars, mapVars, guardVars, journals, saves, broken>>

Planned(s) == {e \in DOMAIN saving.plan : saving.plan[e].state = s}

\* What the statement of e writes, with the key the database gives it.
Persisted(e, ids) ==
  [saving.plan[e].image EXCEPT
     !.id = IF e \in DOMAIN ids THEN ids[e] ELSE @,
     !.version = IF saving.plan[e].state = "Modified" THEN original[e].version + 1 ELSE @]

\* Updates and deletes ask for the version of the baseline, and the insert of a
\* key that exists is refused.  A generated key is any that no row has.
StatementsApply(ids) ==
  /\ \A e \in Planned("Modified") \cup Planned("Deleted") :
       /\ original[e].id \in DOMAIN rows
       /\ rows[original[e].id].version = original[e].version
  /\ \A e \in Planned("Added") : Persisted(e, ids).id \notin DOMAIN rows
  /\ \A d, e \in Planned("Added") : Persisted(d, ids).id = Persisted(e, ids).id => d = e

Written(ids) ==
  LET writers == Planned("Added") \cup Planned("Modified")
      deleted == {original[e].id : e \in Planned("Deleted")}
      WriterOf(k) == CHOOSE e \in writers : Persisted(e, ids).id = k
      written == {Persisted(e, ids).id : e \in writers}
  IN  [k \in (DOMAIN rows \cup written) \ deleted |->
         IF k \in written THEN AsRow(Persisted(WriterOf(k), ids)) ELSE rows[k]]

\* assertGeneratedIdentityAvailable and prepareAccept
KeysAreFree(kept, ids) ==
  /\ DOMAIN ids \subseteq Tracked
  /\ \A e \in kept : identities[Persisted(e, ids).id] \in {Nobody, e}

\* A version is incremented in the object too, unless it was changed there.
LiveVersions == {e \in Planned("Modified") : live[e].version = saving.plan[e].image.version}

LiveAfter(e, ids) ==
  [live[e] EXCEPT !.id = IF e \in DOMAIN ids THEN ids[e] ELSE @,
                  !.version = IF e \in LiveVersions THEN original[e].version + 1 ELSE @]

\* The statements ran, the generated keys were read back, and acceptPersisted
\* took the plan for the new baseline of the entities still tracked.
SaveAccepted ==
  /\ pc = "executing"
  /\ \E ids \in [Planned("Added") \cap Generated -> Keys] :
       LET accepted == DOMAIN saving.plan \cap Tracked
           gone == {e \in accepted : saving.plan[e].state = "Deleted" /\ state[e] = "Deleted"}
           kept == accepted \ Planned("Deleted")
           rekeyed == {e \in kept : state[e] # "Deleted"}
           newKey == [e \in rekeyed |-> Persisted(e, ids).id]
           journal ==
             [checkpoints |-> [e \in accepted |->
                                 [state |-> state[e], original |-> original[e], key |-> keyOf[e]]],
              reserved |-> {keyOf[e] : e \in accepted} \cup {newKey[e] : e \in rekeyed},
              ids |-> ids,
              versions |-> [e \in LiveVersions |-> live[e].version]]
       IN  /\ StatementsApply(ids)
           /\ KeysAreFree(rekeyed, ids)
           /\ rows' = Written(ids)
           /\ live' = [e \in Entities |-> LiveAfter(e, ids)]
           /\ original' = [e \in Entities |-> IF e \in kept THEN Persisted(e, ids) ELSE original[e]]
           /\ state' = [e \in Entities |->
                          IF e \in gone THEN "Detached"
                          ELSE IF e \notin kept THEN state[e]
                          ELSE IF LiveAfter(e, ids) # Persisted(e, ids) THEN "Modified" ELSE "Unchanged"]
           /\ temporary' = temporary \ gone
           /\ keyOf' = [e \in Entities |-> IF e \in gone THEN NoKey
                                           ELSE IF e \in rekeyed THEN newKey[e] ELSE keyOf[e]]
           /\ identities' = [k \in Identity |->
                               LET holder == Rekeyed(rekeyed, newKey)[k]
                               IN  IF holder \in gone THEN Nobody ELSE holder]
           /\ Defer(journal)
           /\ acceptance' = journal
           /\ pc' = "accepted"
  /\ UNCHANGED <<frames, journals, saving, saves, broken>>

\* The commit or the release of the save's own transaction resolved: edits made
\* meanwhile are detected, and the acceptance is final or waits for the
\* transaction around it.
SaveCompletes ==
  /\ pc = "accepted"
  /\ state' = [e \in Entities |-> IF e \in DOMAIN saving.plan THEN Detected(e) ELSE state[e]]
  /\ IF frames = <<>>
       THEN Commit(acceptance) /\ UNCHANGED journals
       ELSE journals' = Append(journals, acceptance) /\ UNCHANGED <<temporary, guardVars>>
  /\ LeavesSave
  /\ UNCHANGED <<rows, frames, live, original, mapVars, saves, broken>>

\* ... or it failed, and the acceptance is taken back with the rows.
SaveRollsBack ==
  /\ pc = "accepted"
  /\ rows' = saving.rows
  /\ TakeBack(acceptance)
  /\ LeavesSave
  /\ UNCHANGED <<frames, journals, saves>>

-----------------------------------------------------------------------------
(* transaction() *)

BeginTransaction ==
  /\ pc = "app"
  /\ saves < MaxSaves
  /\ Len(frames) < MaxDepth
  /\ frames' = Append(frames, [rows |-> rows, start |-> Len(journals)])
  /\ UNCHANGED <<rows, entryVars, mapVars, guardVars, journals, saving, acceptance,
                 pc, saves, broken>>

\* The outermost transaction runs the callbacks of every save inside it.
TransactionCommits ==
  /\ pc = "app"
  /\ frames # <<>>
  /\ frames' = Front(frames)
  /\ pc' = IF Len(frames) = 1 /\ journals # <<>> THEN "flushing" ELSE "app"
  /\ UNCHANGED <<rows, entryVars, mapVars, guardVars, journals, saving, acceptance,
                 saves, broken>>

RunCallback ==
  /\ pc = "flushing"
  /\ Commit(Head(journals))
  /\ journals' = Tail(journals)
  /\ pc' = IF Len(journals) = 1 THEN "app" ELSE "flushing"
  /\ UNCHANGED <<rows, frames, live, state, original, mapVars, saving, acceptance,
                 saves, broken>>

TransactionFails ==
  /\ pc = "app"
  /\ frames # <<>>
  /\ pc' = "rollingBack"
  /\ UNCHANGED <<rows, frames, entryVars, mapVars, guardVars, journals, saving, acceptance,
                 saves, broken>>

FirstOfScope == Last(frames).start + 1

\* The callbacks of the failed transaction are undone, the last one first, in
\* one synchronous loop.
NextUndone == Len(journals)

UndoCallback ==
  /\ pc = "rollingBack"
  /\ Len(journals) > Last(frames).start
  /\ TakeBack(journals[NextUndone])
  /\ journals' = RemoveAt(journals, NextUndone)
  /\ UNCHANGED <<rows, frames, saving, acceptance, pc, saves>>

\* Nobody sees the table between the rollback in the database and the end of
\* that loop: the model moves it with the last step.
TransactionRejects ==
  /\ pc = "rollingBack"
  /\ Len(journals) = Last(frames).start
  /\ rows' = Last(frames).rows
  /\ frames' = Front(frames)
  /\ pc' = "app"
  /\ UNCHANGED <<entryVars, mapVars, guardVars, journals, saving, acceptance,
                 saves, broken>>

-----------------------------------------------------------------------------

Application ==
  \/ \E e \in Entities : Add(e) \/ Load(e) \/ Edit(e) \/ RemoveEntity(e) \/ Detach(e)
  \/ DetectChanges
  \/ ClearTracking

Save ==
  \/ StartSave \/ StartExecution \/ SaveFails \/ SaveAccepted
  \/ SaveCompletes \/ SaveRollsBack

TransactionStep ==
  \/ BeginTransaction \/ TransactionCommits \/ RunCallback
  \/ TransactionFails \/ UndoCallback \/ TransactionRejects

Next == Application \/ Save \/ TransactionStep

Spec == Init /\ [][Next]_vars

-----------------------------------------------------------------------------
(* Properties *)

\* Between any two steps every tracked entity is registered under the key its
\* state and baseline give it, and nothing else is registered: two objects never
\* stand for one row, and no rejected insert leaves its key behind
\* (ChangeTrackerRegistry.assertInvariant), in a well-typed state.
IdentityMapIsConsistent ==
  /\ TypeOK
  /\ \A e \in Tracked : keyOf[e] = ExpectedKey(e) /\ identities[keyOf[e]] = e
  /\ \A k \in Identity : identities[k] # Nobody =>
       identities[k] \in Tracked /\ keyOf[identities[k]] = k

\* The baseline of every tracked entity that is not Added is its row as this
\* connection sees it, through saves, nested rollbacks, commits that fail and
\* edits that overlap them: the next save compares with the truth, so no edit
\* is skipped and no version check fails without another writer.  What the
\* context itself writes to an object, its version and its generated key, is
\* taken back together with the save that wrote it.
BaselineIsTheRow ==
  \A e \in Tracked :
    /\ pc # "rollingBack" /\ state[e] # "Added" =>
         /\ original[e].id \in DOMAIN rows
         /\ AsRow(original[e]) = rows[original[e].id]
    /\ live[e].version = original[e].version
    /\ live[e].id = original[e].id

\* The mutation guard reserves exactly what the acceptances still open may have
\* to restore: nothing is freed while one of them needs it, nothing stays
\* reserved when the last of them is final or undone, and so undoing one never
\* meets another entity on the key it restores, which would leave the context
\* unusable.
OpenCount(P(_)) ==
  Len(SelectSeq(journals, P)) + (IF acceptance # NoSave /\ P(acceptance) THEN 1 ELSE 0)

ReservationsAreExact ==
  /\ \A e \in Entities : byEntity[e] = OpenCount(LAMBDA j : e \in DOMAIN j.checkpoints)
  /\ \A k \in Identity : byIdentity[k] = OpenCount(LAMBDA j : k \in j.reserved)
  /\ ~broken

\* No deletion is forgotten.  An entity staged for deletion stays staged until
\* its row is deleted or the application itself lets the entity go; and a row
\* that appears, because it was inserted or because its deletion was rolled
\* back, has its entity in the tracker, so that what did not happen is still to
\* be done.
StagedDeletionsAreKept ==
  [][/\ \A e \in Entities : state[e] = "Deleted" =>
          \/ state'[e] = "Deleted"
          \/ state'[e] = "Detached" /\ (pc = "executing" => original[e].id \notin DOMAIN rows')
     /\ \A k \in DOMAIN rows' \ DOMAIN rows :
          \E e \in Entities : state'[e] # "Detached" /\ original'[e].id = k]_vars

=============================================================================
