----------------------------- MODULE UnitOfWork -----------------------------
(***************************************************************************)
(* The unit of work of one DbContext: saveChanges(), transaction() and     *)
(* dispose(), as they share the transaction coordinator, the exclusive     *)
(* operation guard of the connection, the acceptance journals of the       *)
(* tracker and the transaction stack of the database.                      *)
(*                                                                         *)
(* A chain is one asynchronous call chain of the application (a request    *)
(* handler, one branch of a Promise.all): it runs until it awaits, and     *)
(* every await of the code is a boundary between two actions.  A save is   *)
(* one attempt of saveChanges() and stands for all the rows it writes.     *)
(***************************************************************************)
EXTENDS Integers, Sequences, FiniteSets, SequencesExt, FiniteSetsExt

CONSTANTS
  Chains,     \* asynchronous call chains that share the context
  Saves,      \* attempts of saveChanges()
  MaxDepth,   \* bound on the nesting of transaction() in one chain
  Overlap,    \* TRUE if chains may use the context at the same time
  Nobody,     \* no chain holds the operation token
  NoSave      \* the chain is not saving

ASSUME UnitOfWorkAssumption ==
  /\ MaxDepth \in Nat
  /\ Overlap \in BOOLEAN
  /\ Nobody \notin Chains
  /\ NoSave \notin Saves

VARIABLES
  durable,         \* saves whose rows are committed
  frames,          \* saves written by each open provider transaction or savepoint
  unusableAt,      \* frame that holds work a failed clean-up left behind, or 0
  owner,           \* chain whose scope holds activeToken
  outcomeUnknown,  \* the connection saw a commit without a verdict
  depth,           \* contextTransactionDepth
  callbacks,       \* afterCommitCallbacks, one per deferred save
  saveInProgress,
  journal,         \* what the tracker believes of each save
  poisoned,        \* stateRestorationFailure is set
  disposed,
  pc,              \* where each chain is suspended
  txs,             \* the transaction() calls each chain is inside of
  saving,          \* the save each chain is inside of
  flushing         \* the callbacks each chain has taken to run

storeVars == <<durable, frames, unusableAt>>
guardVars == <<owner, outcomeUnknown>>
contextVars == <<poisoned, disposed>>
chainVars == <<pc, txs, saving, flushing>>
vars == <<storeVars, guardVars, depth, callbacks, saveInProgress, journal,
          contextVars, chainVars>>

JournalState == {"unsaved", "staged", "final", "restored", "broken"}

\* "app" is application code: outside every call, or inside the work function
\* of the innermost transaction().  The other values name an await.
TransactionPc == {"begin", "rejected", "lost", "undone", "committed", "failed", "flushing"}
SavePc == {"saving", "saveBegin", "saveRefused", "saveWork", "accepted", "saveLost",
           "saveUndone", "saved", "saveFailed", "notifying", "failing", "failingBroken"}
Pc == {"app"} \cup TransactionPc \cup SavePc

Transaction == [start : Nat, root : BOOLEAN]

TypeOK ==
  /\ durable \subseteq Saves
  /\ frames \in Seq(SUBSET Saves)
  /\ unusableAt \in Nat
  /\ owner \in Chains \cup {Nobody}
  /\ outcomeUnknown \in BOOLEAN
  /\ depth \in Int
  /\ callbacks \in Seq(Saves)
  /\ saveInProgress \in BOOLEAN
  /\ journal \in [Saves -> JournalState]
  /\ poisoned \in BOOLEAN
  /\ disposed \in BOOLEAN
  /\ pc \in [Chains -> Pc]
  /\ txs \in [Chains -> Seq(Transaction)]
  /\ saving \in [Chains -> Saves \cup {NoSave}]
  /\ flushing \in [Chains -> Seq(Saves)]

Init ==
  /\ durable = {}
  /\ frames = <<>>
  /\ unusableAt = 0
  /\ owner = Nobody
  /\ outcomeUnknown = FALSE
  /\ depth = 0
  /\ callbacks = <<>>
  /\ saveInProgress = FALSE
  /\ journal = [s \in Saves |-> "unsaved"]
  /\ poisoned = FALSE
  /\ disposed = FALSE
  /\ pc = [c \in Chains |-> "app"]
  /\ txs = [c \in Chains |-> <<>>]
  /\ saving = [c \in Chains |-> NoSave]
  /\ flushing = [c \in Chains |-> <<>>]

-----------------------------------------------------------------------------
(* What a call finds when it starts *)

Usable == ~disposed /\ ~poisoned

ForgetsUnknownOutcome == Usable

ConnectionUsable == Usable /\ ~outcomeUnknown

Idle(c) == pc[c] = "app" /\ txs[c] = <<>>

\* Without Overlap the application awaits each operation before the next.
MayCall(c) ==
  /\ pc[c] = "app"
  /\ Overlap \/ \A d \in Chains \ {c} : Idle(d)

\* ExclusiveOperationGuard.run: free, or already inside the owner's scope.
Admitted(c) == owner \in {Nobody, c}

\* The awaits at these points only pass a settled promise up the call: they end
\* within a few microtasks, so no driver answers before they have ended.  Other
\* chains may still make calls of their own in those microtasks.
Settling == {"rejected", "lost", "undone", "committed", "failed",
             "saveRefused", "saveLost", "saveUndone", "saved", "saveFailed"}

DriverMayAnswer == \A d \in Chains : pc[d] \notin Settling

Goto(c, label) == pc' = [pc EXCEPT ![c] = label]

-----------------------------------------------------------------------------
(* The provider's transaction, shared by transaction() and saveChanges() *)

NeverSpoiled(n) == unusableAt

\* EnclosingTransactionState keeps the first failure; what it spoiled sinks with
\* every savepoint that is released or cannot be rolled back.
Spoiled(n) == IF unusableAt = 0 \/ n < unusableAt THEN n ELSE unusableAt

\* begin, or a savepoint when the chain is inside a transaction already
Opens(c, label) ==
  /\ frames' = Append(frames, {})
  /\ unusableAt' = IF frames = <<>> THEN 0 ELSE unusableAt
  /\ Goto(c, label)
  /\ UNCHANGED <<durable, guardVars>>

\* A savepoint that cannot be set makes the root unusable; a call cancelled
\* before it reaches the driver does not.
FailsToOpen(c, label) ==
  /\ Goto(c, label)
  /\ UNCHANGED <<durable, frames, outcomeUnknown>>
  /\ IF frames = <<>>
       THEN owner' = Nobody /\ UNCHANGED unusableAt
       ELSE /\ UNCHANGED owner
            /\ \/ UNCHANGED unusableAt
               \/ unusableAt' = Spoiled(Len(frames))

RollsBackRoot(c, label) ==
  /\ Len(frames) = 1
  /\ frames' = <<>>
  /\ unusableAt' = 0
  /\ owner' = Nobody
  /\ Goto(c, label)
  /\ UNCHANGED <<durable, outcomeUnknown>>

\* rollback to savepoint; the error that leaves it is the recorded failure,
\* which it recovers, or another one
RollsBackToSavepoint(c, label) ==
  /\ Len(frames) > 1
  /\ frames' = Front(frames)
  /\ \/ UNCHANGED unusableAt
     \/ unusableAt >= Len(frames) /\ unusableAt' = 0
  /\ Goto(c, label)
  /\ UNCHANGED <<durable, guardVars>>

\* The rollback or the release that follows it fails: the savepoint's writes
\* may still be there, and the root must not commit.
FailsToClean(c, label) ==
  /\ Len(frames) > 1
  /\ \E kept \in {{}, Last(frames)} :
       frames' = [Front(frames) EXCEPT ![Len(frames) - 1] = @ \cup kept]
  /\ unusableAt' = Spoiled(Len(frames) - 1)
  /\ Goto(c, label)
  /\ UNCHANGED <<durable, guardVars>>

\* The work threw, or its signal was aborted.
RollsBack(c, label) ==
  \/ RollsBackRoot(c, label)
  \/ RollsBackToSavepoint(c, label)
  \/ FailsToClean(c, label)

CommitsRoot(c, label) ==
  /\ Len(frames) = 1
  /\ unusableAt = 0
  /\ durable' = durable \cup frames[1]
  /\ frames' = <<>>
  /\ owner' = Nobody
  /\ Goto(c, label)
  /\ UNCHANGED <<unusableAt, outcomeUnknown>>

\* The commit was sent and no verdict came back.
LosesCommit(c, label) ==
  /\ Len(frames) = 1
  /\ unusableAt = 0
  /\ durable' \in {durable, durable \cup frames[1]}
  /\ frames' = <<>>
  /\ owner' = Nobody
  /\ Goto(c, label)
  /\ UNCHANGED <<unusableAt, outcomeUnknown>>

ReleasesSavepoint(c, label) ==
  /\ Len(frames) > 1
  /\ frames' = [Front(frames) EXCEPT ![Len(frames) - 1] = @ \cup Last(frames)]
  /\ unusableAt' = IF unusableAt = Len(frames) THEN Len(frames) - 1 ELSE unusableAt
  /\ Goto(c, label)
  /\ UNCHANGED <<durable, guardVars>>

\* The work returned: commit or release, which the database may refuse.
Closes(c, done, lost, undone) ==
  \/ CommitsRoot(c, done)
  \/ ReleasesSavepoint(c, done)
  \/ LosesCommit(c, lost)
  \/ RollsBack(c, undone)

\* The catch of the connection, one continuation after the guard let go of it: what
\* a transaction that was refused, was undone or lost its verdict leaves in
\* outcomeUnknown, whatever was there before.  It was undone, maybe, by the error
\* with which the connection refused its statements, which leaves what was there.
LearnsVerdict(c, lost, undone, failed) ==
  /\ \/ pc[c] = lost /\ outcomeUnknown' = TRUE
     \/ pc[c] # lost /\ outcomeUnknown' = FALSE
     \/ pc[c] = undone /\ UNCHANGED outcomeUnknown
  /\ Goto(c, failed)

-----------------------------------------------------------------------------
(* transaction() *)

EnteredAtZero == [start |-> 0, root |-> depth = 0]

Entered == [start |-> Len(callbacks), root |-> depth = 0]

BeginTransaction(c) ==
  /\ MayCall(c)
  /\ ConnectionUsable
  /\ Len(txs[c]) < MaxDepth
  /\ depth' = depth + 1
  /\ txs' = [txs EXCEPT ![c] = Append(@, Entered)]
  /\ IF Admitted(c)
       THEN owner' = c /\ Goto(c, "begin")
       ELSE UNCHANGED owner /\ Goto(c, "rejected")
  /\ UNCHANGED <<storeVars, outcomeUnknown, callbacks, saveInProgress, journal,
                 contextVars, saving, flushing>>

TransactionBegun(c) ==
  /\ pc[c] = "begin"
  /\ DriverMayAnswer
  /\ Opens(c, "app") \/ FailsToOpen(c, "undone")
  /\ UNCHANGED <<depth, callbacks, saveInProgress, journal, contextVars,
                 txs, saving, flushing>>

\* The work function returns or throws.
WorkEnds(c) ==
  /\ pc[c] = "app"
  /\ txs[c] # <<>>
  /\ DriverMayAnswer
  /\ Closes(c, "committed", "lost", "undone")
  /\ UNCHANGED <<depth, callbacks, saveInProgress, journal, contextVars,
                 txs, saving, flushing>>

TransactionSettles(c) ==
  /\ pc[c] \in {"lost", "rejected", "undone"}
  /\ LearnsVerdict(c, "lost", "undone", "failed")
  /\ UNCHANGED <<storeVars, owner, depth, callbacks, saveInProgress, journal,
                 contextVars, txs, saving, flushing>>

LeavesTransaction(c) ==
  /\ depth' = depth - 1
  /\ txs' = [txs EXCEPT ![c] = Front(@)]

\* run(): the transaction resolved; the outermost one takes every callback.
TransactionCommitted(c) ==
  /\ pc[c] = "committed"
  /\ LeavesTransaction(c)
  /\ IF Last(txs[c]).root
       THEN /\ flushing' = [flushing EXCEPT ![c] = callbacks]
            /\ callbacks' = <<>>
            /\ Goto(c, "flushing")
       ELSE UNCHANGED <<flushing, callbacks>> /\ Goto(c, "app")
  /\ UNCHANGED <<storeVars, guardVars, saveInProgress, journal, contextVars,
                 saving>>

SplicedFromSecond(start) == ToSet(SubSeq(callbacks, start + 2, Len(callbacks)))

\* The callbacks run(c) splices off when its transaction rejects: all those
\* enqueued since it started.
Spliced(start) == ToSet(SubSeq(callbacks, start + 1, Len(callbacks)))

\* afterRollback of every save in S; a restoration can itself fail.
RestoresAll(S) ==
  \E broken \in SUBSET S :
    /\ journal' = [s \in Saves |-> IF s \in broken THEN "broken"
                                   ELSE IF s \in S THEN "restored"
                                   ELSE journal[s]]
    /\ poisoned' = (poisoned \/ broken # {})

\* run(): the transaction rejected, because it failed or was refused.
TransactionFailed(c) ==
  /\ pc[c] = "failed"
  /\ LeavesTransaction(c)
  /\ LET start == Last(txs[c]).start
     IN  /\ RestoresAll(Spliced(start))
         /\ callbacks' = IF start < Len(callbacks) THEN SubSeq(callbacks, 1, start)
                         ELSE callbacks
  /\ Goto(c, "app")
  /\ UNCHANGED <<storeVars, guardVars, saveInProgress, disposed, saving, flushing>>

\* flushAfterCommitCallbacks: one callback, which may fail, then the next.
RunCallback(c) ==
  /\ pc[c] = "flushing"
  /\ flushing[c] # <<>>
  /\ \/ journal' = [journal EXCEPT ![Head(flushing[c])] = "final"] /\ UNCHANGED poisoned
     \/ journal' = [journal EXCEPT ![Head(flushing[c])] = "broken"] /\ poisoned' = TRUE
  /\ flushing' = [flushing EXCEPT ![c] = Tail(@)]
  /\ UNCHANGED <<storeVars, guardVars, depth, callbacks, saveInProgress, disposed,
                 pc, txs, saving>>

CallbacksDone(c) ==
  /\ pc[c] = "flushing"
  /\ flushing[c] = <<>>
  /\ Goto(c, "app")
  /\ UNCHANGED <<storeVars, guardVars, depth, callbacks, saveInProgress, journal,
                 contextVars, txs, saving, flushing>>

-----------------------------------------------------------------------------
(* saveChanges() *)

TakesSave(c, s) ==
  /\ saveInProgress' = TRUE
  /\ saving' = [saving EXCEPT ![c] = s]

LeavesLocked(c) ==
  /\ saving' = [saving EXCEPT ![c] = NoSave]
  /\ UNCHANGED saveInProgress

LeavesSave(c) ==
  /\ saving' = [saving EXCEPT ![c] = NoSave]
  /\ saveInProgress' = FALSE

StartSave(c, s) ==
  /\ MayCall(c)
  /\ Usable
  /\ ~saveInProgress
  /\ journal[s] = "unsaved"
  /\ TakesSave(c, s)
  /\ Goto(c, "saving")
  /\ UNCHANGED <<storeVars, guardVars, depth, callbacks, journal, contextVars,
                 txs, flushing>>

\* The interceptors are done, or one of them threw; SQL starts if the context
\* is still usable and the guard admits the chain.
ExecuteSave(c) ==
  /\ pc[c] = "saving"
  /\ \/ /\ ConnectionUsable
        /\ IF Admitted(c)
             THEN owner' = c /\ Goto(c, "saveBegin")
             ELSE UNCHANGED owner /\ Goto(c, "saveRefused")
     \/ UNCHANGED owner /\ Goto(c, "saveFailed")
  /\ UNCHANGED <<storeVars, outcomeUnknown, depth, callbacks, saveInProgress,
                 journal, contextVars, txs, saving, flushing>>

SaveBegun(c) ==
  /\ pc[c] = "saveBegin"
  /\ DriverMayAnswer
  /\ Opens(c, "saveWork") \/ FailsToOpen(c, "saveUndone")
  /\ UNCHANGED <<depth, callbacks, saveInProgress, journal, contextVars,
                 txs, saving, flushing>>

\* The statements ran, which a connection with a verdict to wait for refuses, and
\* beforeCommit() staged the acceptance.
SaveAccepted(c) ==
  /\ pc[c] = "saveWork"
  /\ DriverMayAnswer
  /\ ~outcomeUnknown
  /\ frames' = [frames EXCEPT ![Len(frames)] = @ \cup {saving[c]}]
  /\ journal' = [journal EXCEPT ![saving[c]] = "staged"]
  /\ Goto(c, "accepted")
  /\ UNCHANGED <<durable, unusableAt, guardVars, depth, callbacks, saveInProgress,
                 contextVars, txs, saving, flushing>>

\* A statement, a hydration or the acceptance threw.
SaveThrows(c) ==
  /\ pc[c] = "saveWork"
  /\ DriverMayAnswer
  /\ RollsBack(c, "saveUndone")
  /\ UNCHANGED <<depth, callbacks, saveInProgress, journal, contextVars,
                 txs, saving, flushing>>

SaveCloses(c) ==
  /\ pc[c] = "accepted"
  /\ DriverMayAnswer
  /\ Closes(c, "saved", "saveLost", "saveUndone")
  /\ UNCHANGED <<depth, callbacks, saveInProgress, journal, contextVars,
                 txs, saving, flushing>>

SaveSettles(c) ==
  /\ pc[c] \in {"saveLost", "saveRefused", "saveUndone"}
  /\ LearnsVerdict(c, "saveLost", "saveUndone", "saveFailed")
  /\ UNCHANGED <<storeVars, owner, depth, callbacks, saveInProgress, journal,
                 contextVars, txs, saving, flushing>>

AlwaysDeferred == depth >= 0

Deferred == depth > 0

\* afterCommitted: defer the callback to the open transaction, or run it.
AfterCommitted(c) ==
  /\ pc[c] = "saved"
  /\ IF Deferred
       THEN /\ callbacks' = Append(callbacks, saving[c])
            /\ LeavesSave(c)
            /\ Goto(c, "app")
            /\ UNCHANGED journal
       ELSE /\ journal' = [journal EXCEPT ![saving[c]] = "final"]
            /\ Goto(c, "notifying")
            /\ UNCHANGED <<callbacks, saving, saveInProgress>>
  /\ UNCHANGED <<storeVars, guardVars, depth, contextVars, txs, flushing>>

SavedNotified(c) ==
  /\ pc[c] = "notifying"
  /\ LeavesSave(c)
  /\ Goto(c, "app")
  /\ UNCHANGED <<storeVars, guardVars, depth, callbacks, journal, contextVars,
                 txs, flushing>>

\* The restorations run before saveChangesFailed is awaited ...
SaveFailed(c) ==
  /\ pc[c] = "saveFailed"
  /\ \/ journal' = [journal EXCEPT ![saving[c]] = "restored"] /\ Goto(c, "failing")
     \/ journal' = [journal EXCEPT ![saving[c]] = "broken"] /\ Goto(c, "failingBroken")
  /\ UNCHANGED <<storeVars, guardVars, depth, callbacks, saveInProgress,
                 contextVars, txs, saving, flushing>>

\* ... and rethrowPrimary() marks the context after it.
FailureNotified(c) ==
  /\ pc[c] \in {"failing", "failingBroken"}
  /\ poisoned' = (poisoned \/ pc[c] = "failingBroken")
  /\ LeavesSave(c)
  /\ Goto(c, "app")
  /\ UNCHANGED <<storeVars, guardVars, depth, callbacks, journal, disposed,
                 txs, flushing>>

-----------------------------------------------------------------------------

Dispose(c) ==
  /\ MayCall(c)
  /\ ~disposed
  /\ depth = 0
  /\ owner = Nobody
  /\ disposed' = TRUE
  /\ UNCHANGED <<storeVars, guardVars, depth, callbacks, saveInProgress, journal,
                 poisoned, chainVars>>

TransactionStep(c) ==
  \/ TransactionBegun(c)
  \/ WorkEnds(c)
  \/ TransactionSettles(c)
  \/ TransactionCommitted(c)
  \/ TransactionFailed(c)
  \/ RunCallback(c)
  \/ CallbacksDone(c)

SaveStep(c) ==
  \/ ExecuteSave(c)
  \/ SaveBegun(c)
  \/ SaveAccepted(c)
  \/ SaveThrows(c)
  \/ SaveCloses(c)
  \/ SaveSettles(c)
  \/ AfterCommitted(c)
  \/ SavedNotified(c)
  \/ SaveFailed(c)
  \/ FailureNotified(c)

Next ==
  \E c \in Chains :
    \/ BeginTransaction(c)
    \/ TransactionStep(c)
    \/ \E s \in Saves : StartSave(c, s)
    \/ SaveStep(c)
    \/ Dispose(c)

Spec == Init /\ [][Next]_vars

\* A driver answers, an interceptor settles and a work function ends: nothing
\* obliges the application to call again.
Fairness == \A c \in Chains :
  /\ WF_vars(TransactionStep(c))
  /\ WF_vars(SaveStep(c))
  /\ \A n \in 1..MaxDepth : SF_vars(WorkEnds(c) /\ Len(txs[c]) = n)

FairSpec == Spec /\ Fairness

-----------------------------------------------------------------------------
(* Properties *)

\* A commit has no verdict, and the connection knows it or is about to.
VerdictLost == outcomeUnknown \/ \E c \in Chains : pc[c] \in {"lost", "saveLost"}

Staged == {s \in Saves : journal[s] = "staged"}

\* With every chain idle, the saves the tracker holds as persisted are exactly
\* the committed ones, and no callback is left behind: what TransactionCoordinator
\* and UnitOfWorkSaver are for, whatever failed in between.  It is given up only
\* where the context says so, by refusing further work.
TrackerMirrorsStore ==
  (\A c \in Chains : Idle(c)) /\ ~poisoned /\ ~outcomeUnknown =>
    /\ durable = {s \in Saves : journal[s] \in {"staged", "final"}}
    /\ Staged = {}
    /\ callbacks = <<>>
    /\ depth = 0

\* The provider transactions chain c is inside of.
OpenFrames(c) ==
  Len(txs[c]) - (IF pc[c] \in {"begin", "rejected", "lost", "undone", "committed", "failed"}
                    THEN 1 ELSE 0)
              + (IF pc[c] \in {"saveWork", "accepted"} THEN 1 ELSE 0)

\* The database's transaction stack belongs, whole, to the chain the guard
\* admitted: no other chain has a statement, savepoint or commit in it.
FramesBelongToOwner ==
  \A c \in Chains : OpenFrames(c) = IF c = owner THEN Len(frames) ELSE 0

\* The context's one lock is taken exactly while a chain is inside saveChanges(),
\* and by no two chains: whatever a save comes to, and whichever calls overlap with
\* it, the way out gives the lock back once and no other way out takes it along.
SaveHasTheLock ==
  /\ \A c \in Chains : pc[c] \in SavePc <=> saving[c] # NoSave
  /\ saveInProgress <=> \E c \in Chains : saving[c] # NoSave
  /\ \A c, d \in Chains : saving[c] # NoSave /\ saving[d] # NoSave => c = d

\* The saves deferred since a transaction() started, up to the next one inside
\* it, are the saves written in its savepoint: the count that run() took when it
\* started splits the callbacks as the savepoints split the rows.
CallbacksFollowFrames ==
  \A c \in Chains :
    pc[c] = "app" /\ txs[c] # <<>> =>
      \A i \in 1..Len(txs[c]) :
        LET next == IF i = Len(txs[c]) THEN Len(callbacks) ELSE txs[c][i + 1].start
        IN  ToSet(SubSeq(callbacks, txs[c][i].start + 1, next)) = frames[i] \cap Staged

\* Used by one chain at a time, the context writes nothing more after a commit
\* without a verdict: no row, no savepoint, whichever chain asks, and the verdict
\* is never forgotten.
\* (guarded-database-connection.ts:86, exclusive-operation-guard.ts:47)
SilentAfterUnknownOutcome ==
  [][VerdictLost => VerdictLost' /\ UNCHANGED <<durable, frames, owner>>]_vars

\* Somebody inside the connection, or about to tell it how a transaction ended.
Inside(c) ==
  \/ c = owner
  \/ pc[c] \in {"lost", "rejected", "undone", "saveLost", "saveRefused", "saveUndone"}

\* Used by overlapping chains, a chain may be admitted after the guard let go and
\* before the connection learnt of the loss.  It opens a transaction, makes nothing
\* durable while the verdict is remembered, and may make the connection forget it.
\* Once nobody is inside the silence is as complete, and for good.
SilentOnceOutside ==
  [][outcomeUnknown =>
       /\ UNCHANGED durable
       /\ (\A c \in Chains : ~Inside(c)) =>
            /\ outcomeUnknown' /\ UNCHANGED <<frames, owner>>
            /\ \A c \in Chains : ~Inside(c)']_vars

\* The rows of a save as the promise of AtomicSaves sees them.  Those that sit in
\* a frame at or above the spoiled one can no longer be committed.
OutcomeOf(s) ==
  IF s \in durable THEN "durable"
  ELSE IF \E i \in DOMAIN frames : s \in frames[i] /\ (unusableAt = 0 \/ i < unusableAt)
    THEN "open"
  ELSE IF journal[s] = "unsaved" THEN "none"
  ELSE "gone"

Promise == INSTANCE AtomicSaves WITH
  outcome <- [s \in Saves |-> OutcomeOf(s)],
  belief <- journal,
  lost <- VerdictLost

\* Used by one chain at a time, the context keeps the promise of AtomicSaves
\* through nesting, failed clean-ups, lost verdicts and failing callbacks.
KeepsPromise == Promise!Spec

\* A save whose rows were accepted is decided one way or the other.
StagedIsDecided == \A s \in Saves : s \in Staged ~> s \notin Staged

\* saveChanges() does not keep the context to itself for ever.
SaveReleasesContext == saveInProgress ~> ~saveInProgress
=============================================================================
